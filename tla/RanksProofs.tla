----------------------------- MODULE RanksProofs -----------------------------
(***************************************************************************)
(* What the ranks of an instance do together, for any number of them.      *)
(*                                                                         *)
(* First, the ranks agree on their tasks, for any tasks, prefill callbacks *)
(* and cancellations and for both engines.  Between two collectives a rank *)
(* does only what follows from what it holds, and what the collectives     *)
(* decide is the same for all: Settle(e) is a rank that has gone on to its *)
(* next collective, and the ranks, each settled, hold the same (InTune).   *)
(* What a rank holds for itself are the tasks and cancellations that have  *)
(* reached it.                                                             *)
(*                                                                         *)
(* Then, the passes of a pipeline are kept apart, for any chunks, tokens   *)
(* and requests: Serving counts the passes each rank has taken in and      *)
(* given on, and the collectives it has taken part in.                     *)
(***************************************************************************)
EXTENDS TaskAgreement, PipelinePrefill, FiniteSetTheorems, TLAPS

RankType ==
  [pc : Collectives \cup {"idle", "collect", "results", "dead"},
   mode : {"start", "prefill", "token"},
   mq : SUBSET Tasks, mc : SUBSET Tasks, all : SUBSET Tasks,
   q : Seq(Tasks), act : Seq(Tasks), canc : SUBSET Tasks, tasks : SUBSET Tasks,
   cur : Int, left : Nat, toks : Seq(Tasks), made : [Tasks -> Nat],
   ended : SUBSET Tasks, out : Seq(Tasks), last : BOOLEAN,
   batch : SUBSET Tasks, order : Seq(Tasks)]

Distinct(s) == \A i, j \in DOMAIN s : s[i] = s[j] => i = j

(* A task is listed, then queued, then started, and each of them once;     *)
(* what is active or has ended was started.                                *)
Books(e) ==
  /\ e.mq \cup e.mc \cup e.tasks \cup Range(e.q) \cup Range(e.order) \subseteq e.all
  /\ e.mq \cap Range(e.q) = {} /\ (e.mq \cup Range(e.q)) \cap Range(e.order) = {}
  /\ Distinct(e.q)
  /\ Range(e.act) \cup e.ended \subseteq Range(e.order) /\ Range(e.act) \cap e.ended = {}
  /\ \A t \in Tasks : e.made[t] # 0 => t \in Range(e.order)

(* The tasks that the runner need not have, though the engine may still    *)
(* work on them: g is the engine, c the cancellations sent to the rank.    *)
Excused(e, c, g) == IF g = "batch" THEN c ELSE e.canc

(* What a rank holds, at any point of a step.                              *)
Kept(e, c, g) ==
  /\ e \in RankType /\ Books(e)
  /\ e.canc \cup e.mc \subseteq c
  /\ e.mq \cup Range(e.q) \cup Range(e.act) \subseteq e.tasks \cup Excused(e, c, g)
  /\ g = "sequential" =>
       Len(e.act) <= 1 /\ \A t \in Range(e.act) : e.made[t] # 0 => t \notin e.canc

InCallback(e, m) == e.mode = m /\ e.pc \in {"collect", "cancels", "agree"}

(* The task of a prefill, and those of the tokens of a step.               *)
PrefillOK(e, c, g) ==
  InCallback(e, "prefill") =>
    /\ e.left >= 1
    /\ e.cur \in Range(e.order) \ e.ended /\ e.cur \in e.tasks \cup Excused(e, c, g)
    /\ g = "sequential" => e.act = << e.cur >> /\ (e.pc = "agree" => e.cur \notin e.canc)

TokensOK(e, g) ==
  InCallback(e, "token") =>
    e.toks # << >> /\ (g = "sequential" => Range(e.toks) \subseteq Range(e.act))

(* The chunks of a step: their tasks are there, or cancelled.              *)
ChunksOK(e, c, g) ==
  /\ Range(e.out) \subseteq e.tasks \cup (IF g = "batch" THEN c ELSE {})
  /\ e.out # << >> => e.pc \in {"results", "dead"} \/ InCallback(e, "token")
  /\ e.pc = "dead" => g = "batch" /\ ~(Range(e.out) \subseteq e.tasks)

(* What goes with the place where the rank stands.                         *)
Stage(e, c, g) ==
  /\ e.pc \in {"collect", "cancels"} => e.mode # "start"
  /\ PrefillOK(e, c, g) /\ TokensOK(e, g) /\ ChunksOK(e, c, g)
  /\ e.pc = "forward" /\ g = "sequential" => Range(e.act) \cap e.canc = {}

(* The worker of a rank: s is started, c told, p the pipe and w the queue  *)
(* of work.                                                                *)
WorkerOK(e, s, c, p, w) ==
  /\ s \subseteq Tasks /\ c \subseteq Tasks /\ p \subseteq c /\ e.all \subseteq s
  /\ w \in Seq(Tasks) /\ Len(w) <= 1 /\ Range(w) \subseteq s \ e.all

RankOK(r) ==
  /\ WorkerOK(rk[r], started[r], told[r], cancelPipe[r], inbox[r])
  /\ Kept(rk[r], told[r], engine) /\ Stage(rk[r], told[r], engine)

-----------------------------------------------------------------------------
(* A rank that has gone on to its next collective.  A runner that is idle  *)
(* has its next step before it, and one that has failed would have taken   *)
(* the step that the other ranks take.                                     *)
Settle(e) ==
  IF e.pc \in {"results", "dead"} THEN BeginStep(Results(e, 1))
  ELSE IF e.pc = "idle" THEN BeginStep(e) ELSE e

Same(e, f) ==
  /\ e.mode = f.mode /\ e.q = f.q /\ e.act = f.act /\ e.canc = f.canc
  /\ e.cur = f.cur /\ e.left = f.left /\ e.toks = f.toks /\ e.made = f.made
  /\ e.ended = f.ended /\ e.out = f.out /\ e.last = f.last /\ e.batch = f.batch
  /\ e.order = f.order

Alike(e, f) == Same(e, f) /\ e.pc = f.pc

(* Where a rank stands that has gone on: what the pipe holds is collected  *)
(* on the way to the collective of the cancellations.                      *)
Point(pc) == IF pc = "collect" THEN "cancels" ELSE pc

Met(e, f) == Same(e, f) /\ Point(e.pc) = Point(f.pc)

InTune == \A r, u \in Ranks : Met(Settle(rk[r]), Settle(rk[u]))

EventType == [kind : {"created", "cancelled"}, task : Tasks]

Typed ==
  /\ engine \in Engines
  /\ log \in Seq(EventType)
  /\ pos \in [Ranks -> Nat] /\ \A r \in Ranks : pos[r] <= Len(log)
  /\ started \in [Ranks -> SUBSET Tasks] /\ told \in [Ranks -> SUBSET Tasks]
  /\ inbox \in [Ranks -> Seq(Tasks)] /\ cancelPipe \in [Ranks -> SUBSET Tasks]
  /\ rk \in [Ranks -> RankType]

Inv == Typed /\ (\A r \in Ranks : RankOK(r)) /\ InTune

-----------------------------------------------------------------------------
(* Sequences.                                                              *)

(* What a sequence holds, ...                                              *)
LEMMA ElementsOfSeq ==
  ASSUME NEW T, NEW s \in Seq(T)
  PROVE  /\ Range(s) \subseteq T /\ Len(s) \in Nat
         /\ \A i \in 1 .. Len(s) : s[i] \in Range(s)
         /\ \A x \in Range(s) : \E i \in 1 .. Len(s) : s[i] = x
<1>1. \A i \in 1 .. Len(s) : s[i] \in Range(s)
  BY DEF Range
<1>2. \A x \in Range(s) : \E i \in 1 .. Len(s) : s[i] = x
  BY DEF Range
<1>3. Range(s) \subseteq T
  BY <1>2
<1> QED BY <1>1, <1>2, <1>3

(* ... which is nothing if it is empty, ...                                *)
LEMMA ElementsOfEmpty ==
  ASSUME NEW T, NEW s \in Seq(T)
  PROVE  (s = << >> => Range(s) = {}) /\ (Range(s) = {} => s = << >>)
<1>1. s # << >> => 1 \in 1 .. Len(s)
  OBVIOUS
<1>2. s = << >> => 1 .. Len(s) = {}
  OBVIOUS
<1>3. /\ \A i \in 1 .. Len(s) : s[i] \in Range(s)
      /\ \A x \in Range(s) : \E i \in 1 .. Len(s) : s[i] = x
  BY ElementsOfSeq
<1> QED BY <1>1, <1>2, <1>3

(* ... when one that is not empty loses its head, ...                      *)
LEMMA ElementsOfTail ==
  ASSUME NEW T, NEW s \in Seq(T), s # << >>
  PROVE  /\ Head(s) \in Range(s) /\ Head(s) \in T /\ Tail(s) \in Seq(T)
         /\ Range(Tail(s)) \subseteq Range(s) /\ Len(Tail(s)) = Len(s) - 1
         /\ Distinct(s) => Distinct(Tail(s)) /\ Head(s) \notin Range(Tail(s))
         /\ Len(s) <= 1 => s = << Head(s) >>
<1> DEFINE u == Tail(s)
<1>1. /\ Head(s) = s[1] /\ u \in Seq(T) /\ Len(u) = Len(s) - 1 /\ Len(s) \in Nat \ {0}
      /\ \A i \in 1 .. Len(s) - 1 : u[i] = s[i + 1] /\ i + 1 \in 1 .. Len(s) /\ i + 1 # 1
      /\ 1 \in 1 .. Len(s) /\ DOMAIN u = 1 .. Len(s) - 1 /\ DOMAIN s = 1 .. Len(s)
  OBVIOUS
<1>2. Len(s) <= 1 => s = << Head(s) >>
  BY <1>1
<1> HIDE DEF u
<1>3. \A i \in 1 .. Len(s) : s[i] \in Range(s) /\ s[i] \in T
  BY ElementsOfSeq
<1>4. \A x \in Range(u) : \E i \in 1 .. Len(s) - 1 : u[i] = x
  BY <1>1, ElementsOfSeq
<1>5. ASSUME Distinct(s)
      PROVE  Distinct(u) /\ Head(s) \notin Range(u)
  <2>1. \A i, j \in 1 .. Len(s) : s[i] = s[j] => i = j
    BY <1>1, <1>5 DEF Distinct
  <2>2. \A i, j \in 1 .. Len(s) - 1 : u[i] = u[j] => i = j
    BY <1>1, <2>1
  <2>3. Head(s) \notin Range(u)
    BY <1>1, <1>4, <2>1
  <2> QED BY <1>1, <2>2, <2>3 DEF Distinct
<1>6. Head(s) \in Range(s) /\ Head(s) \in T /\ Range(u) \subseteq Range(s)
  BY <1>1, <1>3, <1>4
<1> QED BY <1>1, <1>2, <1>5, <1>6 DEF u

(* ... and when something is appended.                                     *)
LEMMA ElementsOfAppend ==
  ASSUME NEW T, NEW s \in Seq(T), NEW t \in T
  PROVE  Append(s, t) \in Seq(T) /\ Range(Append(s, t)) = Range(s) \cup {t}
<1> DEFINE a == Append(s, t)
<1>1. /\ a \in Seq(T) /\ Len(a) = Len(s) + 1 /\ Len(s) \in Nat
      /\ a[Len(s) + 1] = t /\ \A i \in 1 .. Len(s) : a[i] = s[i]
      /\ 1 .. Len(s) + 1 = (1 .. Len(s)) \cup {Len(s) + 1}
  OBVIOUS
<1> HIDE DEF a
<1>2. /\ \A i \in 1 .. Len(s) + 1 : a[i] \in Range(a)
      /\ \A x \in Range(a) : \E i \in 1 .. Len(s) + 1 : a[i] = x
  BY <1>1, ElementsOfSeq
<1>3. /\ \A i \in 1 .. Len(s) : s[i] \in Range(s)
      /\ \A x \in Range(s) : \E i \in 1 .. Len(s) : s[i] = x
  BY ElementsOfSeq
<1>4. Range(a) = Range(s) \cup {t}
  <2>1. ASSUME NEW x \in Range(a) PROVE x \in Range(s) \cup {t}
    BY <1>1, <1>2, <1>3
  <2>2. ASSUME NEW x \in Range(s) PROVE x \in Range(a)
    BY <1>1, <1>2, <1>3
  <2>3. t \in Range(a)
    BY <1>1, <1>2
  <2> QED BY <2>1, <2>2, <2>3
<1> QED BY <1>1, <1>4 DEF a

(* One element makes a sequence.                                           *)
LEMMA ElementsOfOne ==
  ASSUME NEW T, NEW t \in T
  PROVE  << t >> \in Seq(T) /\ Range(<< t >>) = {t} /\ Len(<< t >>) = 1
BY DEF Range

(* A finite set of numbers can be put in order: an element of it has as    *)
(* its place the number of those up to it.                                 *)
LEMMA AscendingIs ==
  ASSUME NEW S, S \subseteq Nat, IsFiniteSet(S)
  PROVE  /\ Ascending(S) \in Seq(S) /\ Distinct(Ascending(S))
         /\ Range(Ascending(S)) \subseteq S /\ Len(Ascending(S)) = Cardinality(S)
<1> DEFINE n == Cardinality(S)
           UpTo(x) == {y \in S : y <= x}
           place == [x \in S |-> Cardinality(UpTo(x))]
<1>1. n \in Nat /\ IsFiniteSet(1 .. n) /\ Cardinality(1 .. n) = n
  BY FS_CardinalityType, FS_Interval
<1>2. \A x \in S : UpTo(x) \in SUBSET S /\ x \in UpTo(x)
  OBVIOUS
<1>3. \A x \in S : IsFiniteSet(UpTo(x)) /\ Cardinality(UpTo(x)) \in 1 .. n
  <2> TAKE x \in S
  <2>1. IsFiniteSet(UpTo(x)) /\ Cardinality(UpTo(x)) <= n
    BY <1>2, FS_Subset
  <2>2. Cardinality(UpTo(x)) \in Nat /\ Cardinality(UpTo(x)) # 0
    BY <1>2, <2>1, FS_CardinalityType, FS_EmptySet
  <2> QED BY <1>1, <2>1, <2>2
<1>4. \A x, y \in S : x < y => place[x] < place[y]
  <2> TAKE x \in S, y \in S
  <2> HAVE x < y
  <2>1. UpTo(x) \in SUBSET UpTo(y) /\ UpTo(x) # UpTo(y)
    <3>1. \A z \in S : z \in Nat
      OBVIOUS
    <3>2. \A z \in S : z <= x => z <= y
      BY <3>1
    <3>3. y \in UpTo(y) /\ y \notin UpTo(x)
      BY <3>1
    <3> QED BY <3>2, <3>3
  <2>2. Cardinality(UpTo(x)) <= Cardinality(UpTo(y)) /\ Cardinality(UpTo(x)) # Cardinality(UpTo(y))
    BY <1>3, <2>1, FS_Subset
  <2> QED BY <1>3, <2>2
<1>5. place \in Injection(S, 1 .. n)
  <2>1. place \in [S -> 1 .. n]
    BY <1>3
  <2>2. \A x, y \in S : place[x] = place[y] => x = y
    <3> TAKE x \in S, y \in S
    <3>1. place[x] \in Nat /\ place[y] \in Nat
      BY <1>3
    <3> HIDE DEF place
    <3>2. x \in Nat /\ y \in Nat
      OBVIOUS
    <3>3. x < y \/ y < x \/ x = y
      BY <3>2
    <3> QED BY <1>4, <3>1, <3>3
  <2> QED BY <2>1, <2>2 DEF Injection, IsInjective
<1> HIDE DEF place
<1>6. place \in Surjection(S, 1 .. n)
  BY <1>1, <1>5, FS_Injection
<1> DEFINE at == [i \in 1 .. n |-> CHOOSE x \in S : place[x] = i]
<1>7. \A i \in 1 .. n : at[i] \in S /\ place[at[i]] = i
  BY <1>6 DEF Surjection
<1>8. at \in [1 .. n -> S]
  BY <1>7
<1> HIDE DEF at
<1>9. \A i, j \in 1 .. n : i < j => at[i] < at[j]
  <2> TAKE i \in 1 .. n, j \in 1 .. n
  <2> HAVE i < j
  <2>1. at[i] \in Nat /\ at[j] \in Nat /\ at[i] \in S /\ at[j] \in S /\ place[at[i]] < place[at[j]]
    BY <1>7
  <2>2. at[j] < at[i] => place[at[j]] < place[at[i]]
    BY <1>4, <2>1
  <2>3. place[at[i]] = i /\ place[at[j]] = j
    BY <1>7
  <2> QED BY <2>1, <2>2, <2>3
<1>10. /\ Ascending(S) \in [1 .. n -> S]
       /\ \A i, j \in 1 .. n : i < j => Ascending(S)[i] < Ascending(S)[j]
  BY <1>8, <1>9 DEF Ascending
<1>11. /\ Ascending(S) \in Seq(S) /\ DOMAIN Ascending(S) = 1 .. n
       /\ Len(Ascending(S)) = n
  BY <1>1, <1>10
<1>12. Distinct(Ascending(S))
  <2> SUFFICES ASSUME NEW i \in 1 .. n, NEW j \in 1 .. n, Ascending(S)[i] = Ascending(S)[j]
               PROVE  i = j
    BY <1>11 DEF Distinct
  <2>1. Ascending(S)[i] \in Nat /\ Ascending(S)[j] \in Nat
    BY <1>10
  <2> QED BY <1>1, <1>10, <2>1
<1> QED BY <1>11, <1>12, ElementsOfSeq

(* Keep returns a sequence of elements of s that are in S.                 *)
LEMMA KeepIs ==
  ASSUME NEW T, NEW s \in Seq(T), NEW S
  PROVE  /\ Keep(s, S) \in Seq(T) /\ Range(Keep(s, S)) \subseteq Range(s) \cap S
         /\ Len(Keep(s, S)) <= Len(s)
<1> DEFINE P == {i \in DOMAIN s : s[i] \in S}
           at == Ascending(P)
<1>1. DOMAIN s = 1 .. Len(s) /\ Len(s) \in Nat
  OBVIOUS
<1>2. P \subseteq Nat /\ P \in SUBSET (1 .. Len(s)) /\ IsFiniteSet(P) /\ Cardinality(P) <= Len(s)
  <2>1. IsFiniteSet(1 .. Len(s)) /\ Cardinality(1 .. Len(s)) = Len(s)
    BY <1>1, FS_Interval
  <2>2. P \subseteq Nat /\ P \in SUBSET (1 .. Len(s))
    BY <1>1
  <2> QED BY <2>1, <2>2, FS_Subset
<1> DEFINE k == Keep(s, S)
<1>3. k = [i \in DOMAIN at |-> s[at[i]]]
  BY DEF Keep
<1> HIDE DEF P, at, k
<1>4. /\ at \in Seq(P) /\ DOMAIN at = 1 .. Len(at) /\ Len(at) \in Nat /\ Len(at) <= Len(s)
      /\ \A i \in 1 .. Len(at) : at[i] \in P
  <2>1. at \in Seq(P) /\ Len(at) = Cardinality(P)
    BY <1>2, AscendingIs DEF at
  <2> QED BY <1>2, <2>1
<1>5. \A i \in P : s[i] \in S /\ s[i] \in T /\ i \in DOMAIN s
  BY <1>1 DEF P
<1>6. k \in Seq(T) /\ Len(k) = Len(at) /\ DOMAIN k = 1 .. Len(at)
  BY <1>3, <1>4, <1>5
<1>7. Range(k) \subseteq Range(s) \cap S
  BY <1>3, <1>4, <1>5, <1>6 DEF Range
<1> QED BY <1>4, <1>6, <1>7 DEF k

(* Two sequences without repetitions that share nothing, one after the     *)
(* other.                                                                  *)
LEMMA ElementsOfConcat ==
  ASSUME NEW T, NEW s \in Seq(T), NEW u \in Seq(T)
  PROVE  /\ s \o u \in Seq(T) /\ Range(s \o u) = Range(s) \cup Range(u)
         /\ Distinct(s) /\ Distinct(u) /\ Range(s) \cap Range(u) = {} => Distinct(s \o u)
<1> DEFINE a == s \o u
<1>1. /\ a \in Seq(T) /\ Len(a) = Len(s) + Len(u) /\ Len(s) \in Nat /\ Len(u) \in Nat
      /\ \A i \in 1 .. Len(s) : a[i] = s[i] /\ i \in 1 .. Len(a)
      /\ \A i \in 1 .. Len(u) : a[Len(s) + i] = u[i] /\ Len(s) + i \in 1 .. Len(a)
  OBVIOUS
<1>2. \A i \in 1 .. Len(a) : i \in 1 .. Len(s) \/ \E j \in 1 .. Len(u) : i = Len(s) + j
  <2> TAKE i \in 1 .. Len(a)
  <2>1. i \notin 1 .. Len(s) => i - Len(s) \in 1 .. Len(u) /\ i = Len(s) + (i - Len(s))
    BY <1>1
  <2> QED BY <2>1
<1>3. DOMAIN a = 1 .. Len(a) /\ DOMAIN s = 1 .. Len(s) /\ DOMAIN u = 1 .. Len(u)
  BY <1>1
<1> HIDE DEF a
<1>4. /\ \A i \in 1 .. Len(a) : a[i] \in Range(a)
      /\ \A x \in Range(a) : \E i \in 1 .. Len(a) : a[i] = x
  BY <1>1, ElementsOfSeq
<1>5. /\ \A i \in 1 .. Len(s) : s[i] \in Range(s)
      /\ \A x \in Range(s) : \E i \in 1 .. Len(s) : s[i] = x
  BY ElementsOfSeq
<1>6. /\ \A i \in 1 .. Len(u) : u[i] \in Range(u)
      /\ \A x \in Range(u) : \E i \in 1 .. Len(u) : u[i] = x
  BY ElementsOfSeq
<1>7. Range(a) = Range(s) \cup Range(u)
  <2>1. ASSUME NEW x \in Range(a) PROVE x \in Range(s) \cup Range(u)
    <3>1. PICK i \in 1 .. Len(a) : a[i] = x
      BY <1>4
    <3>2. i \in 1 .. Len(s) => x \in Range(s)
      BY <1>1, <1>5, <3>1
    <3>3. (\E j \in 1 .. Len(u) : i = Len(s) + j) => x \in Range(u)
      BY <1>1, <1>6, <3>1
    <3> QED BY <1>2, <3>2, <3>3
  <2>2. ASSUME NEW x \in Range(s) PROVE x \in Range(a)
    BY <1>1, <1>4, <1>5
  <2>3. ASSUME NEW x \in Range(u) PROVE x \in Range(a)
    BY <1>1, <1>4, <1>6
  <2> QED BY <2>1, <2>2, <2>3
<1>8. ASSUME Distinct(s), Distinct(u), Range(s) \cap Range(u) = {}
      PROVE  Distinct(a)
  <2>1. /\ \A i, j \in 1 .. Len(s) : s[i] = s[j] => i = j
        /\ \A i, j \in 1 .. Len(u) : u[i] = u[j] => i = j
    BY <1>3, <1>8 DEF Distinct
  <2>2. \A i \in 1 .. Len(s), j \in 1 .. Len(u) : s[i] # u[j]
    BY <1>5, <1>6, <1>8
  <2>3. \A i, j \in 1 .. Len(a) : a[i] = a[j] => i = j
    <3> TAKE i \in 1 .. Len(a), j \in 1 .. Len(a)
    <3>1. CASE i \in 1 .. Len(s) /\ j \in 1 .. Len(s)
      BY <1>1, <2>1, <3>1
    <3>2. CASE i \in 1 .. Len(s) /\ j \notin 1 .. Len(s)
      BY <1>1, <1>2, <2>2, <3>2
    <3>3. CASE i \notin 1 .. Len(s) /\ j \in 1 .. Len(s)
      <4>1. PICK k \in 1 .. Len(u) : i = Len(s) + k
        BY <1>2, <3>3
      <4>2. a[i] = u[k] /\ a[j] = s[j]
        BY <1>1, <3>3, <4>1
      <4> QED BY <2>2, <3>3, <4>2
    <3>4. CASE i \notin 1 .. Len(s) /\ j \notin 1 .. Len(s)
      <4>1. PICK k \in 1 .. Len(u) : i = Len(s) + k
        BY <1>2, <3>4
      <4>2. PICK l \in 1 .. Len(u) : j = Len(s) + l
        BY <1>2, <3>4
      <4> QED BY <1>1, <2>1, <4>1, <4>2
    <3> QED BY <3>1, <3>2, <3>3, <3>4
  <2> QED BY <1>3, <2>3 DEF Distinct
<1> QED BY <1>1, <1>7, <1>8 DEF a

(* What is gathered was on the list of every rank.                         *)
LEMMA GatheredIs ==
  ASSUME NEW lists
  PROVE  /\ Gathered(lists) \in Seq(Tasks) /\ Distinct(Gathered(lists))
         /\ \A r \in Ranks : Range(Gathered(lists)) \subseteq lists[r]
<1> DEFINE S == {t \in Tasks : \A r \in Ranks : t \in lists[r]}
<1>1. S \subseteq Nat /\ S \in SUBSET Tasks /\ IsFiniteSet(S)
  <2>1. S \in SUBSET Tasks
    OBVIOUS
  <2> QED BY <2>1, AgreementConstants, FS_Subset
<1>2. /\ Ascending(S) \in Seq(S) /\ Distinct(Ascending(S)) /\ Range(Ascending(S)) \subseteq S
  BY <1>1, AscendingIs
<1>3. Ascending(S) \in Seq(Tasks)
  BY <1>2
<1>4. Gathered(lists) = Ascending(S)
  BY DEF Gathered
<1> QED BY <1>2, <1>3, <1>4

-----------------------------------------------------------------------------
(* The engine.                                                             *)

(* The head of the queue is started: it is in no other book, and its task  *)
(* is there or excused.                                                    *)
LEMMA PopKept ==
  ASSUME NEW e, NEW c, NEW g, Kept(e, c, g), e.q # << >>
  PROVE  LET t == Head(e.q)
             p == Pop(e)
         IN  /\ Kept(p, c, g) /\ t \in Range(p.order) \ p.ended
             /\ t \in p.tasks \cup Excused(p, c, g)
             /\ t \in Tasks /\ p.made[t] = 0 /\ t \notin Range(p.act)
             /\ p.act = e.act /\ p.canc = e.canc /\ p.ended = e.ended /\ p.out = e.out
             /\ p.pc = e.pc /\ Range(e.order) \subseteq Range(p.order)
<1> DEFINE t == Head(e.q)
           p == Pop(e)
<1>1. e \in RankType /\ Books(e) /\ e.q \in Seq(Tasks) /\ e.order \in Seq(Tasks)
  BY DEF Kept, RankType
<1>2. /\ t \in Range(e.q) /\ t \in Tasks /\ Tail(e.q) \in Seq(Tasks)
      /\ Range(Tail(e.q)) \subseteq Range(e.q)
      /\ Distinct(Tail(e.q)) /\ t \notin Range(Tail(e.q))
  BY <1>1, ElementsOfTail DEF Books
<1> HIDE DEF t
<1>3. Append(e.order, t) \in Seq(Tasks) /\ Range(Append(e.order, t)) = Range(e.order) \cup {t}
  BY <1>1, <1>2, ElementsOfAppend
<1>4. p = [e EXCEPT !.q = Tail(e.q), !.order = Append(e.order, t)]
  BY DEF Pop, t
<1> HIDE DEF p
<1>5. /\ p \in RankType /\ p.q = Tail(e.q) /\ p.order = Append(e.order, t)
      /\ p.pc = e.pc /\ p.mq = e.mq /\ p.mc = e.mc /\ p.all = e.all /\ p.act = e.act
      /\ p.canc = e.canc /\ p.tasks = e.tasks /\ p.made = e.made /\ p.ended = e.ended
      /\ p.out = e.out
  BY <1>1, <1>2, <1>3, <1>4 DEF RankType
<1>6. Books(p)
  BY <1>1, <1>2, <1>3, <1>5 DEF Books
<1>7. Kept(p, c, g)
  BY <1>2, <1>5, <1>6 DEF Kept, Excused
<1>8. t \notin Range(e.order) /\ p.made[t] = 0 /\ t \notin Range(p.act) /\ t \notin p.ended
  BY <1>1, <1>2, <1>5 DEF Books
<1>9. t \in p.tasks \cup Excused(p, c, g)
  BY <1>2, <1>5 DEF Kept, Excused
<1> QED BY <1>2, <1>3, <1>5, <1>7, <1>8, <1>9 DEF t, p

(* What a rank holds is in these fields.                                   *)
LEMMA KeptFrame ==
  ASSUME NEW e, NEW f \in RankType, NEW c, NEW g, Kept(e, c, g),
         f.mq = e.mq, f.mc = e.mc, f.all = e.all, f.q = e.q, f.act = e.act,
         f.canc = e.canc, f.tasks = e.tasks, f.made = e.made, f.ended = e.ended,
         f.order = e.order
  PROVE  Kept(f, c, g)
BY DEF Kept, Books, Excused

(* The prefill of a task that was started.                                 *)
LEMMA PrefillKept ==
  ASSUME NEW e, NEW c, NEW g, Kept(e, c, g), e.out = << >>,
         NEW t \in Tasks, t \in Range(e.order) \ e.ended, t \in e.tasks \cup Excused(e, c, g),
         g = "sequential" => e.act = << t >>
  PROVE  Kept(Prefill(e, t), c, g) /\ Stage(Prefill(e, t), c, g)
<1> DEFINE p == Prefill(e, t)
<1>1. e \in RankType /\ Chunks[t] \in Nat /\ Chunks[t] >= 1 /\ t \in Int
  BY AgreementConstants DEF Kept
<1>2. p = [e EXCEPT !.cur = t, !.left = Chunks[t], !.mode = "prefill", !.pc = "collect"]
  BY DEF Prefill
<1> HIDE DEF p
<1>3. /\ p \in RankType /\ p.cur = t /\ p.left = Chunks[t] /\ p.mode = "prefill"
      /\ p.pc = "collect" /\ p.mq = e.mq /\ p.mc = e.mc /\ p.all = e.all /\ p.q = e.q
      /\ p.act = e.act /\ p.canc = e.canc /\ p.tasks = e.tasks /\ p.made = e.made
      /\ p.ended = e.ended /\ p.order = e.order /\ p.out = e.out
  BY <1>1, <1>2 DEF RankType
<1>4. Kept(p, c, g)
  BY <1>3, KeptFrame
<1>5. Range(<< >>) = {}
  BY DEF Range
<1>6. PrefillOK(p, c, g) /\ TokensOK(p, g)
  BY <1>1, <1>3 DEF PrefillOK, TokensOK, InCallback, Excused
<1>7. ChunksOK(p, c, g)
  BY <1>3, <1>5 DEF ChunksOK
<1> QED BY <1>3, <1>4, <1>6, <1>7 DEF Stage, p

(* A rank that has gone to a place that is no callback.                    *)
LEMMA GoneTo ==
  ASSUME NEW e, NEW c, NEW g, Kept(e, c, g), e.out = << >>,
         NEW x \in {"results", "forward", "idle"},
         x = "forward" /\ g = "sequential" => Range(e.act) \cap e.canc = {}
  PROVE  LET p == [e EXCEPT !.pc = x] IN Kept(p, c, g) /\ Stage(p, c, g)
<1> DEFINE p == [e EXCEPT !.pc = x]
<1>1. e \in RankType
  BY DEF Kept
<1>2. /\ p \in RankType /\ p.pc = x /\ p.mq = e.mq /\ p.mc = e.mc /\ p.all = e.all /\ p.q = e.q
      /\ p.act = e.act /\ p.canc = e.canc /\ p.tasks = e.tasks /\ p.made = e.made
      /\ p.ended = e.ended /\ p.order = e.order /\ p.out = e.out
  BY <1>1 DEF RankType, Collectives
<1> HIDE DEF p
<1>3. Kept(p, c, g)
  BY <1>2, KeptFrame
<1>4. Range(<< >>) = {}
  BY DEF Range
<1>5. Stage(p, c, g)
  BY <1>2, <1>4 DEF Stage, PrefillOK, TokensOK, ChunksOK, InCallback
<1> QED BY <1>3, <1>5 DEF p

(* step() of the batch engine.                                             *)
LEMMA BatchStepKept ==
  ASSUME NEW e, NEW c, Kept(e, c, "batch"), e.out = << >>
  PROVE  Kept(BatchStep(e), c, "batch") /\ Stage(BatchStep(e), c, "batch")
<1>1. CASE e.q # << >> /\ Len(e.act) < MaxConcurrent
  <2> DEFINE t == Head(e.q)
             p == Pop(e)
  <2>1. /\ Kept(p, c, "batch") /\ t \in Range(p.order) \ p.ended
        /\ t \in p.tasks \cup Excused(p, c, "batch") /\ t \in Tasks /\ p.out = e.out
    BY <1>1, PopKept
  <2> HIDE DEF t, p
  <2>2. Kept(Prefill(p, t), c, "batch") /\ Stage(Prefill(p, t), c, "batch")
    BY <2>1, PrefillKept
  <2>3. BatchStep(e) = Prefill(p, t)
    BY <1>1 DEF BatchStep, p, t
  <2> QED BY <2>2, <2>3
<1>2. CASE ~(e.q # << >> /\ Len(e.act) < MaxConcurrent)
  <2>1. \E x \in {"results", "forward"} : BatchStep(e) = [e EXCEPT !.pc = x]
    BY <1>2 DEF BatchStep
  <2>2. PICK x \in {"results", "forward"} : BatchStep(e) = [e EXCEPT !.pc = x]
    BY <2>1
  <2>3. Kept([e EXCEPT !.pc = x], c, "batch") /\ Stage([e EXCEPT !.pc = x], c, "batch")
    BY GoneTo
  <2> QED BY <2>2, <2>3
<1> QED BY <1>1, <1>2

(* _start_next, or nothing is active any more.                             *)
LEMMA StartGeneratorKept ==
  ASSUME NEW e, NEW c, Kept(e, c, "sequential")
  PROVE  LET s == StartGenerator(e)
         IN  /\ Kept(s, c, "sequential")
             /\ s.out = e.out /\ s.pc = e.pc /\ s.canc = e.canc /\ s.ended = e.ended
             /\ s.act # << >> =>
                  /\ s.act = << s.act[1] >> /\ s.act[1] \in Tasks /\ s.made[s.act[1]] = 0
                  /\ s.act[1] \in Range(s.order) \ s.ended
                  /\ s.act[1] \in s.tasks \cup Excused(s, c, "sequential")
             /\ Range(s.act) \cap Range(e.order) = {}
             /\ Range(e.order) \subseteq Range(s.order)
<1> DEFINE s == StartGenerator(e)
<1>1. e \in RankType /\ e.q \in Seq(Tasks)
  BY DEF Kept, RankType
<1>2. Range(<< >>) = {} /\ << >> \in Seq(Tasks) /\ Len(<< >>) = 0
  BY DEF Range
<1>3. CASE e.q = << >>
  <2>1. s = [e EXCEPT !.act = << >>, !.last = FALSE]
    BY <1>3 DEF StartGenerator
  <2> HIDE DEF s
  <2>2. /\ s \in RankType /\ s.pc = e.pc /\ s.mq = e.mq /\ s.mc = e.mc /\ s.all = e.all /\ s.q = e.q
        /\ s.act = << >> /\ s.canc = e.canc /\ s.tasks = e.tasks /\ s.made = e.made
        /\ s.ended = e.ended /\ s.order = e.order /\ s.out = e.out
    BY <1>1, <1>2, <2>1 DEF RankType
  <2>3. Kept(s, c, "sequential")
    BY <1>2, <2>2 DEF Kept, Books, Excused
  <2> QED BY <1>2, <2>2, <2>3 DEF s
<1>4. CASE e.q # << >>
  <2> DEFINE t == Head(e.q)
             p == Pop(e)
  <2>1. /\ Kept(p, c, "sequential") /\ t \in Range(p.order) \ p.ended
        /\ t \in p.tasks \cup Excused(p, c, "sequential") /\ t \in Tasks /\ p.made[t] = 0
        /\ p.out = e.out /\ p.pc = e.pc /\ p.canc = e.canc /\ p.ended = e.ended
        /\ Range(e.order) \subseteq Range(p.order)
    BY <1>4, PopKept
  <2>2. t \notin Range(e.order)
    BY <1>1, <1>4, ElementsOfTail DEF Kept, Books
  <2>3. s = [p EXCEPT !.act = << t >>, !.last = FALSE]
    BY <1>4 DEF StartGenerator
  <2>4. << t >> \in Seq(Tasks) /\ Range(<< t >>) = {t} /\ Len(<< t >>) = 1 /\ << t >>[1] = t
    BY <2>1, ElementsOfOne
  <2> HIDE DEF t, p, s
  <2>5. /\ s \in RankType /\ s.pc = p.pc /\ s.mq = p.mq /\ s.mc = p.mc /\ s.all = p.all /\ s.q = p.q
        /\ s.act = << t >> /\ s.canc = p.canc /\ s.tasks = p.tasks /\ s.made = p.made
        /\ s.ended = p.ended /\ s.order = p.order /\ s.out = p.out
    BY <2>1, <2>3, <2>4 DEF RankType, Kept
  <2>6. Kept(s, c, "sequential")
    BY <2>1, <2>4, <2>5 DEF Kept, Books, Excused
  <2> QED BY <2>1, <2>2, <2>4, <2>5, <2>6 DEF s, Excused
<1> QED BY <1>3, <1>4

(* step() of the sequential engine.                                        *)
LEMMA SequentialStepKept ==
  ASSUME NEW e, NEW c, Kept(e, c, "sequential"), e.out = << >>
  PROVE  Kept(SequentialStep(e), c, "sequential") /\ Stage(SequentialStep(e), c, "sequential")
<1> DEFINE s == IF e.act = << >> THEN StartGenerator(e) ELSE e
<1>1. Kept(s, c, "sequential") /\ s.out = << >>
  BY StartGeneratorKept
<1>2. SequentialStep(e) =
        IF s.act = << >> THEN [s EXCEPT !.pc = "results"]
        ELSE IF s.made[s.act[1]] = 0 THEN Prefill(s, s.act[1]) ELSE [s EXCEPT !.pc = "forward"]
  BY DEF SequentialStep
<1> HIDE DEF s
<1>3. CASE s.act = << >>
  <2>1. Range(s.act) \cap s.canc = {}
    BY <1>3 DEF Range
  <2>2. Kept([s EXCEPT !.pc = "results"], c, "sequential")
        /\ Stage([s EXCEPT !.pc = "results"], c, "sequential")
    BY <1>1, GoneTo
  <2> QED BY <1>2, <1>3, <2>2
<1>4. CASE s.act # << >>
  <2> DEFINE t == s.act[1]
  <2>1. s.act \in Seq(Tasks) /\ Len(s.act) <= 1
    BY <1>1 DEF Kept, RankType
  <2>2. s.act = << t >> /\ t \in Range(s.act)
    BY <1>4, <2>1, ElementsOfTail
  <2>3. /\ t \in Tasks /\ t \in Range(s.order) \ s.ended
        /\ t \in s.tasks \cup Excused(s, c, "sequential")
        /\ s.made[t] # 0 => t \notin s.canc
    BY <1>1, <2>1, <2>2, ElementsOfSeq DEF Kept, Books
  <2>4. Range(s.act) = {t}
    BY <2>2, <2>3, ElementsOfOne
  <2> HIDE DEF t
  <2>5. CASE s.made[t] = 0
    <3>1. Kept(Prefill(s, t), c, "sequential") /\ Stage(Prefill(s, t), c, "sequential")
      BY <1>1, <2>2, <2>3, PrefillKept
    <3> QED BY <1>2, <1>4, <2>5, <3>1 DEF t
  <2>6. CASE s.made[t] # 0
    <3>1. Range(s.act) \cap s.canc = {}
      BY <2>3, <2>4, <2>6
    <3>2. Kept([s EXCEPT !.pc = "forward"], c, "sequential")
          /\ Stage([s EXCEPT !.pc = "forward"], c, "sequential")
      BY <1>1, <3>1, GoneTo
    <3> QED BY <1>2, <1>4, <2>6, <3>2 DEF t
  <2> QED BY <2>5, <2>6
<1> QED BY <1>3, <1>4

(* step(), from the top and once tasks have been agreed on.                *)
LEMMA StepKept ==
  ASSUME NEW e, NEW c, engine \in Engines, Kept(e, c, engine), e.out = << >>
  PROVE  Kept(Step(e), c, engine) /\ Stage(Step(e), c, engine)
<1>1. engine \in {"batch", "sequential"}
  BY AgreementConstants
<1>2. CASE engine = "batch"
  BY <1>2, BatchStepKept DEF Step
<1>3. CASE engine = "sequential"
  BY <1>3, SequentialStepKept DEF Step
<1> QED BY <1>1, <1>2, <1>3

(* step(), from the top.                                                   *)
LEMMA BeginStepKept ==
  ASSUME NEW e, NEW c, engine \in Engines, Kept(e, c, engine), e.out = << >>
  PROVE  Kept(BeginStep(e), c, engine) /\ Stage(BeginStep(e), c, engine)
<1> DEFINE a == [e EXCEPT !.mode = "start", !.pc = "agree"]
           b == [e EXCEPT !.mode = "start"]
<1>1. e \in RankType /\ Range(<< >>) = {}
  BY DEF Kept, Range
<1>2. /\ a \in RankType /\ a.pc = "agree" /\ a.mode = "start" /\ a.out = e.out /\ a.mq = e.mq
      /\ a.mc = e.mc /\ a.all = e.all /\ a.q = e.q /\ a.act = e.act /\ a.canc = e.canc
      /\ a.tasks = e.tasks /\ a.made = e.made /\ a.ended = e.ended /\ a.order = e.order
  BY <1>1 DEF RankType, Collectives
<1>3. /\ b \in RankType /\ b.out = e.out /\ b.mq = e.mq
      /\ b.mc = e.mc /\ b.all = e.all /\ b.q = e.q /\ b.act = e.act /\ b.canc = e.canc
      /\ b.tasks = e.tasks /\ b.made = e.made /\ b.ended = e.ended /\ b.order = e.order
  BY <1>1 DEF RankType
<1>4. BeginStep(e) = a \/ BeginStep(e) = Step(b)
  BY DEF BeginStep
<1> HIDE DEF a, b
<1>5. Kept(a, c, engine) /\ Kept(b, c, engine)
  BY <1>2, <1>3, KeptFrame
<1>6. Stage(a, c, engine)
  BY <1>1, <1>2 DEF Stage, PrefillOK, TokensOK, ChunksOK, InCallback
<1>7. Kept(Step(b), c, engine) /\ Stage(Step(b), c, engine)
  BY <1>3, <1>5, StepKept
<1> QED BY <1>4, <1>5, <1>6, <1>7

(* A new task is listed.                                                   *)
LEMMA SubmitKept ==
  ASSUME NEW e, NEW c, NEW g, Kept(e, c, g), NEW t \in Tasks, t \notin e.all
  PROVE  /\ Kept(Submit(e, t), c, g) /\ Submit(e, t).out = e.out
         /\ Submit(e, t).all = e.all \cup {t}
<1> DEFINE s == Submit(e, t)
<1>1. e \in RankType
  BY DEF Kept
<1>2. s = [e EXCEPT !.tasks = e.tasks \cup {t}, !.all = e.all \cup {t}, !.mq = e.mq \cup {t}]
  BY DEF Submit
<1> HIDE DEF s
<1>3. /\ s \in RankType /\ s.out = e.out /\ s.mq = e.mq \cup {t} /\ s.mc = e.mc
      /\ s.all = e.all \cup {t} /\ s.q = e.q /\ s.act = e.act /\ s.canc = e.canc
      /\ s.tasks = e.tasks \cup {t} /\ s.made = e.made /\ s.ended = e.ended /\ s.order = e.order
  BY <1>1, <1>2 DEF RankType
<1>4. Books(s)
  BY <1>3 DEF Kept, Books
<1>5. Kept(s, c, g)
  BY <1>3, <1>4 DEF Kept, Excused
<1> QED BY <1>3, <1>5 DEF s

(* The runner drops the tasks that ended or were cancelled, or dies of a   *)
(* chunk whose task it has dropped.                                        *)
LEMMA ResultsKept ==
  ASSUME NEW e, NEW c, NEW r, engine \in Engines, Kept(e, c, engine), Stage(e, c, engine),
         e.pc \in {"results", "dead"}
  PROVE  LET d == Results(e, r)
         IN  /\ Kept(d, c, engine) /\ d.all = e.all
             /\ IF r = 0 /\ ~TasksFound(e) THEN d.pc = "dead" /\ Stage(d, c, engine)
                ELSE d.pc = e.pc /\ d.out = << >>
<1> DEFINE made == [t \in Tasks |-> IF t \in Range(e.act) \cup e.batch THEN e.made[t] ELSE 0]
           n == [[e EXCEPT !.tasks = e.tasks \ e.ended, !.ended = {}, !.out = << >>,
                           !.mode = "start"] EXCEPT !.made = made]
           dead == [e EXCEPT !.pc = "dead"]
           b == ApplyCancellations(n)
           q == [n EXCEPT !.tasks = n.tasks \ e.canc]
<1>1. /\ e \in RankType /\ Books(e) /\ e.act \in Seq(Tasks) /\ << >> \in Seq(Tasks)
      /\ Range(<< >>) = {} /\ e.made \in [Tasks -> Nat]
  BY DEF Kept, RankType, Range
<1>2. made \in [Tasks -> Nat] /\ \A t \in Tasks : made[t] # 0 => made[t] = e.made[t]
  BY <1>1
<1>3. Results(e, r) = IF r = 0 /\ ~TasksFound(e) THEN dead
                      ELSE IF engine = "batch" THEN b ELSE q
  BY DEF Results
<1> HIDE DEF made
<1>4. /\ n \in RankType /\ n.pc = e.pc /\ n.out = << >> /\ n.mq = e.mq /\ n.mc = e.mc
      /\ n.all = e.all /\ n.q = e.q /\ n.act = e.act /\ n.canc = e.canc
      /\ n.tasks = e.tasks \ e.ended /\ n.made = made /\ n.ended = {} /\ n.order = e.order
  BY <1>1, <1>2 DEF RankType
<1>5. CASE r = 0 /\ ~TasksFound(e)
  <2>1. /\ dead \in RankType /\ dead.pc = "dead" /\ dead.out = e.out /\ dead.mq = e.mq
        /\ dead.mc = e.mc /\ dead.all = e.all /\ dead.q = e.q /\ dead.act = e.act
        /\ dead.canc = e.canc /\ dead.tasks = e.tasks /\ dead.made = e.made
        /\ dead.ended = e.ended /\ dead.order = e.order
    BY <1>1 DEF RankType
  <2>2. Results(e, r) = dead
    BY <1>3, <1>5
  <2> HIDE DEF dead
  <2>3. Kept(dead, c, engine)
    BY <2>1, KeptFrame
  <2>4. Stage(dead, c, engine)
    BY <1>5, <2>1, AgreementConstants
    DEF Stage, PrefillOK, TokensOK, ChunksOK, InCallback, TasksFound
  <2>5. Kept(dead, c, engine) /\ dead.all = e.all /\ dead.pc = "dead" /\ Stage(dead, c, engine)
    BY <2>1, <2>3, <2>4
  <2> QED BY <1>5, <2>2, <2>5, Zenon
<1>6. CASE ~(r = 0 /\ ~TasksFound(e)) /\ engine = "batch"
  <2>1. /\ Keep(e.act, Tasks \ e.canc) \in Seq(Tasks)
        /\ Range(Keep(e.act, Tasks \ e.canc)) \subseteq Range(e.act)
    BY <1>1, KeepIs
  <2>2. b = [n EXCEPT !.act = Keep(n.act, Tasks \ n.canc),
                      !.batch = n.batch \ (Range(n.act) \cap n.canc),
                      !.tasks = n.tasks \ n.canc, !.canc = {}]
    BY DEF ApplyCancellations
  <2> HIDE DEF b, n
  <2>3. /\ b \in RankType /\ b.pc = e.pc /\ b.out = << >> /\ b.mq = e.mq /\ b.mc = e.mc
        /\ b.all = e.all /\ b.q = e.q /\ b.act = Keep(e.act, Tasks \ e.canc) /\ b.canc = {}
        /\ b.tasks = (e.tasks \ e.ended) \ e.canc /\ b.made = made /\ b.ended = {}
        /\ b.order = e.order
    BY <1>4, <2>1, <2>2 DEF RankType
  <2>4. Books(b)
    BY <1>1, <1>2, <2>1, <2>3 DEF Books
  <2>5. Kept(b, c, engine)
    BY <1>1, <1>6, <2>1, <2>3, <2>4 DEF Kept, Excused, Books
  <2> QED BY <1>3, <1>6, <2>3, <2>5
<1>7. CASE ~(r = 0 /\ ~TasksFound(e)) /\ engine # "batch"
  <2> HIDE DEF n
  <2>1. /\ q \in RankType /\ q.pc = e.pc /\ q.out = << >> /\ q.mq = e.mq /\ q.mc = e.mc
        /\ q.all = e.all /\ q.q = e.q /\ q.act = e.act /\ q.canc = e.canc
        /\ q.tasks = (e.tasks \ e.ended) \ e.canc /\ q.made = made /\ q.ended = {}
        /\ q.order = e.order
    BY <1>4 DEF RankType
  <2> HIDE DEF q
  <2>2. Books(q)
    BY <1>1, <1>2, <2>1 DEF Books
  <2>3. \A t \in Range(q.act) : q.made[t] # 0 => t \notin q.canc
    <3>1. Range(e.act) \subseteq Tasks
      BY <1>1, ElementsOfSeq
    <3>2. engine = "sequential"
      BY <1>7, AgreementConstants
    <3>3. \A t \in Range(e.act) : e.made[t] # 0 => t \notin e.canc
      BY <3>2 DEF Kept
    <3> QED BY <1>2, <2>1, <3>1, <3>3
  <2>4. q.mq \cup Range(q.q) \cup Range(q.act) \subseteq q.tasks \cup Excused(q, c, engine)
    BY <1>1, <1>7, <2>1 DEF Kept, Excused, Books
  <2>5. Kept(q, c, engine)
    BY <2>1, <2>2, <2>3, <2>4 DEF Kept
  <2> QED BY <1>3, <1>7, <2>1, <2>5
<1> QED BY <1>5, <1>6, <1>7

(* agree_on_tasks moves listed tasks to the queue.                         *)
LEMMA AgreeOnTasksKept ==
  ASSUME NEW e, NEW c, NEW g, Kept(e, c, g), Stage(e, c, g), e.pc = "agree",
         NEW a \in Seq(Tasks), Distinct(a), Range(a) \subseteq e.mq
  PROVE  LET x == AgreeOnTasks(e, a)
         IN  Kept(x, c, g) /\ Stage(x, c, g) /\ x.pc = "agree" /\ x.all = e.all
<1> DEFINE x == AgreeOnTasks(e, a)
<1>1. e \in RankType /\ Books(e) /\ e.q \in Seq(Tasks)
  BY DEF Kept, RankType
<1>2. /\ e.q \o a \in Seq(Tasks) /\ Range(e.q \o a) = Range(e.q) \cup Range(a)
      /\ Distinct(e.q \o a)
  BY <1>1, ElementsOfConcat DEF Books
<1>3. x = [e EXCEPT !.q = e.q \o a, !.mq = e.mq \ Range(a)]
  BY DEF AgreeOnTasks
<1> HIDE DEF x
<1>4. /\ x \in RankType /\ x.pc = "agree" /\ x.mode = e.mode /\ x.mq = e.mq \ Range(a)
      /\ x.mc = e.mc /\ x.all = e.all /\ x.q = e.q \o a /\ x.act = e.act /\ x.canc = e.canc
      /\ x.tasks = e.tasks /\ x.cur = e.cur /\ x.left = e.left /\ x.toks = e.toks
      /\ x.made = e.made /\ x.ended = e.ended /\ x.out = e.out /\ x.order = e.order
  BY <1>1, <1>2, <1>3 DEF RankType
<1>5. Books(x)
  BY <1>1, <1>2, <1>4 DEF Books
<1>6. Kept(x, c, g)
  BY <1>2, <1>4, <1>5 DEF Kept, Excused
<1>7. Stage(x, c, g)
  BY <1>4 DEF Stage, PrefillOK, TokensOK, ChunksOK, InCallback, Excused
<1> QED BY <1>4, <1>6, <1>7 DEF x

(* A prefill that is over.                                                 *)
LEMMA PrefilledKept ==
  ASSUME NEW e, NEW c, engine \in Engines, Kept(e, c, engine), e.out = << >>,
         e.cur \in Range(e.order) \ e.ended, e.cur \in e.tasks \cup Excused(e, c, engine),
         engine = "sequential" => e.act = << e.cur >> /\ e.cur \notin e.canc
  PROVE  Kept(Prefilled(e), c, engine) /\ Stage(Prefilled(e), c, engine)
<1>1. e \in RankType /\ Books(e) /\ e.act \in Seq(Tasks) /\ Range(e.order) \subseteq Tasks
  BY ElementsOfSeq DEF Kept, RankType
<1>2. CASE engine = "batch"
  <2> DEFINE x == [e EXCEPT !.act = Append(e.act, e.cur), !.batch = e.batch \cup {e.cur}]
  <2>1. /\ Append(e.act, e.cur) \in Seq(Tasks)
        /\ Range(Append(e.act, e.cur)) = Range(e.act) \cup {e.cur}
    BY <1>1, ElementsOfAppend
  <2>2. Prefilled(e) = BatchStep(x)
    BY <1>2 DEF Prefilled
  <2>3. /\ x \in RankType /\ x.mq = e.mq /\ x.mc = e.mc /\ x.all = e.all /\ x.q = e.q
        /\ x.act = Append(e.act, e.cur) /\ x.canc = e.canc /\ x.tasks = e.tasks
        /\ x.made = e.made /\ x.ended = e.ended /\ x.out = e.out /\ x.order = e.order
    BY <1>1, <2>1 DEF RankType
  <2> HIDE DEF x
  <2>4. Books(x)
    BY <1>1, <2>1, <2>3 DEF Books
  <2>5. Kept(x, c, "batch")
    BY <1>2, <2>1, <2>3, <2>4 DEF Kept, Excused
  <2> QED BY <1>2, <2>2, <2>3, <2>5, BatchStepKept
<1>3. CASE engine # "batch"
  <2>1. Prefilled(e) = [e EXCEPT !.pc = "forward"]
    BY <1>3 DEF Prefilled
  <2>2. engine = "sequential" /\ e.cur \in Tasks
    BY <1>1, <1>3, AgreementConstants
  <2>3. Range(e.act) \cap e.canc = {}
    <3>1. Range(<< e.cur >>) = {e.cur}
      BY DEF Range
    <3> QED BY <2>2, <3>1
  <2>4. Kept([e EXCEPT !.pc = "forward"], c, engine) /\ Stage([e EXCEPT !.pc = "forward"], c, engine)
    BY <2>3, GoneTo
  <2> QED BY <2>1, <2>4
<1> QED BY <1>2, <1>3

(* Where a rank goes on after agree_on_tasks.                              *)
LEMMA AfterAgreeKept ==
  ASSUME NEW e, NEW c, engine \in Engines, Kept(e, c, engine), Stage(e, c, engine),
         e.pc = "agree"
  PROVE  Kept(AfterAgree(e), c, engine) /\ Stage(AfterAgree(e), c, engine)
<1>1. e \in RankType /\ Books(e) /\ e.toks \in Seq(Tasks) /\ e.left \in Nat
  BY DEF Kept, RankType
<1>2. CASE e.mode = "start"
  <2>1. e.out = << >>
    BY <1>2 DEF Stage, ChunksOK, InCallback
  <2>2. AfterAgree(e) = Step(e)
    BY <1>2 DEF AfterAgree
  <2> QED BY <2>1, <2>2, StepKept
<1>3. CASE e.mode = "prefill"
  <2>1. /\ e.out = << >> /\ e.left >= 1 /\ e.cur \in Range(e.order) \ e.ended
        /\ e.cur \in e.tasks \cup Excused(e, c, engine)
        /\ engine = "sequential" => e.act = << e.cur >> /\ e.cur \notin e.canc
    BY <1>3 DEF Stage, PrefillOK, ChunksOK, InCallback
  <2>2. CASE e.left > 1
    <3> DEFINE x == [e EXCEPT !.left = e.left - 1, !.pc = "collect"]
    <3>1. AfterAgree(e) = x
      BY <1>3, <2>2 DEF AfterAgree
    <3>2. e.left - 1 \in Nat /\ e.left - 1 >= 1
      BY <1>1, <2>2
    <3>3. /\ x \in RankType /\ x.pc = "collect" /\ x.mode = e.mode /\ x.mq = e.mq
          /\ x.mc = e.mc /\ x.all = e.all /\ x.q = e.q /\ x.act = e.act /\ x.canc = e.canc
          /\ x.tasks = e.tasks /\ x.cur = e.cur /\ x.left = e.left - 1
          /\ x.made = e.made /\ x.ended = e.ended /\ x.out = e.out /\ x.order = e.order
      BY <1>1, <3>2 DEF RankType
    <3> HIDE DEF x
    <3>4. Kept(x, c, engine)
      BY <3>3, KeptFrame
    <3>5. Range(<< >>) = {}
      BY DEF Range
    <3>6. Stage(x, c, engine)
      BY <1>3, <2>1, <3>2, <3>3, <3>5 DEF Stage, PrefillOK, TokensOK, ChunksOK, InCallback, Excused
    <3> QED BY <3>1, <3>4, <3>6
  <2>3. CASE e.left = 1
    <3> DEFINE x == [e EXCEPT !.left = 0]
    <3>1. AfterAgree(e) = Prefilled(x)
      BY <1>3, <2>3 DEF AfterAgree
    <3>2. /\ x \in RankType /\ x.mq = e.mq /\ x.mc = e.mc /\ x.all = e.all /\ x.q = e.q
          /\ x.act = e.act /\ x.canc = e.canc /\ x.tasks = e.tasks /\ x.cur = e.cur
          /\ x.made = e.made /\ x.ended = e.ended /\ x.out = e.out /\ x.order = e.order
      BY <1>1 DEF RankType
    <3> HIDE DEF x
    <3>3. Kept(x, c, engine)
      BY <3>2, KeptFrame
    <3>4. Kept(Prefilled(x), c, engine) /\ Stage(Prefilled(x), c, engine)
      BY <2>1, <3>2, <3>3, PrefilledKept DEF Excused
    <3> QED BY <3>1, <3>4
  <2> QED BY <1>1, <2>1, <2>2, <2>3
<1>4. CASE e.mode = "token"
  <2> DEFINE y == IF Len(e.toks) = 1 THEN "results" ELSE "collect"
             x == [e EXCEPT !.toks = Tail(e.toks), !.pc = y]
  <2>1. /\ e.toks # << >> /\ Range(e.out) \subseteq e.tasks \cup (IF engine = "batch" THEN c ELSE {})
        /\ engine = "sequential" => Range(e.toks) \subseteq Range(e.act)
    BY <1>4 DEF Stage, TokensOK, ChunksOK, InCallback
  <2>2. /\ Tail(e.toks) \in Seq(Tasks) /\ Range(Tail(e.toks)) \subseteq Range(e.toks)
        /\ y = "collect" => Tail(e.toks) # << >>
    <3>1. /\ Tail(e.toks) \in Seq(Tasks) /\ Range(Tail(e.toks)) \subseteq Range(e.toks)
          /\ Len(Tail(e.toks)) = Len(e.toks) - 1
      BY <1>1, <2>1, ElementsOfTail
    <3>2. Len(e.toks) # 1 => Len(Tail(e.toks)) # 0
      BY <1>1, <3>1
    <3>3. Tail(e.toks) = << >> => Len(Tail(e.toks)) = 0
      BY Len(<< >>) = 0
    <3>4. Len(e.toks) = 1 => y = "results"
      OBVIOUS
    <3> QED BY <3>1, <3>2, <3>3, <3>4
  <2>3. AfterAgree(e) = x
    BY <1>4 DEF AfterAgree
  <2>4. y \in {"results", "collect"}
    OBVIOUS
  <2> HIDE DEF y
  <2>5. /\ x \in RankType /\ x.pc = y /\ x.mode = e.mode /\ x.mq = e.mq
        /\ x.mc = e.mc /\ x.all = e.all /\ x.q = e.q /\ x.act = e.act /\ x.canc = e.canc
        /\ x.tasks = e.tasks /\ x.toks = Tail(e.toks)
        /\ x.made = e.made /\ x.ended = e.ended /\ x.out = e.out /\ x.order = e.order
    BY <1>1, <2>2, <2>4 DEF RankType
  <2> HIDE DEF x
  <2>6. Kept(x, c, engine)
    BY <2>5, KeptFrame
  <2>7. Stage(x, c, engine)
    BY <1>4, <2>1, <2>2, <2>4, <2>5 DEF Stage, PrefillOK, TokensOK, ChunksOK, InCallback
  <2> QED BY <2>3, <2>6, <2>7
<1> QED BY <1>1, <1>2, <1>3, <1>4 DEF RankType

(* The sequential engine, told to cancel the task t that is active, goes   *)
(* to the next one.                                                        *)
LEMMA NextAfterCancel ==
  ASSUME NEW e, NEW c, NEW t, e \in RankType, Kept([e EXCEPT !.act = << >>], c, "sequential"),
         t \in Range(e.order)
  PROVE  LET d == [StartGenerator(e) EXCEPT !.ended = {t}, !.toks = << >>, !.out = << >>,
                                            !.pc = "results"]
         IN  Kept(d, c, "sequential") /\ Stage(d, c, "sequential")
<1> DEFINE y == [e EXCEPT !.act = << >>]
           s == StartGenerator(y)
           d == [s EXCEPT !.ended = {t}, !.toks = << >>, !.out = << >>, !.pc = "results"]
<1>1. y \in RankType /\ y.order = e.order /\ Kept(y, c, "sequential")
  BY DEF Kept
<1>2. StartGenerator(e) = s
  <2>1. /\ y.q = e.q /\ y.order = e.order
        /\ [y EXCEPT !.act = << >>, !.last = FALSE] = [e EXCEPT !.act = << >>, !.last = FALSE]
    BY DEF RankType
  <2>2. ASSUME NEW u, NEW o, NEW a
        PROVE  [[y EXCEPT !.q = u, !.order = o] EXCEPT !.act = a, !.last = FALSE]
               = [[e EXCEPT !.q = u, !.order = o] EXCEPT !.act = a, !.last = FALSE]
    BY DEF RankType
  <2>3. /\ Pop(y) = [y EXCEPT !.q = Tail(e.q), !.order = Append(e.order, Head(e.q))]
        /\ Pop(e) = [e EXCEPT !.q = Tail(e.q), !.order = Append(e.order, Head(e.q))]
    BY <2>1 DEF Pop
  <2>4. [Pop(y) EXCEPT !.act = << Head(e.q) >>, !.last = FALSE]
        = [Pop(e) EXCEPT !.act = << Head(e.q) >>, !.last = FALSE]
    BY <2>2, <2>3
  <2> HIDE DEF y
  <2> QED BY <2>1, <2>4 DEF StartGenerator
<1> HIDE DEF y
<1>3. /\ Kept(s, c, "sequential") /\ Range(s.act) \cap Range(e.order) = {}
      /\ Range(e.order) \subseteq Range(s.order)
  BY <1>1, StartGeneratorKept
<1> HIDE DEF s
<1>4. s \in RankType /\ Range(<< >>) = {} /\ << >> \in Seq(Tasks) /\ {t} \in SUBSET Tasks
  <2>1. s \in RankType
    BY <1>3 DEF Kept
  <2>2. e.order \in Seq(Tasks)
    BY DEF RankType
  <2>3. t \in Tasks
    BY <2>2, ElementsOfSeq
  <2>4. Range(<< >>) = {}
    BY DEF Range
  <2> QED BY <2>1, <2>3, <2>4
<1>5. /\ d \in RankType /\ d.pc = "results" /\ d.mq = s.mq /\ d.mc = s.mc /\ d.all = s.all
      /\ d.q = s.q /\ d.act = s.act /\ d.canc = s.canc /\ d.tasks = s.tasks
      /\ d.made = s.made /\ d.ended = {t} /\ d.out = << >> /\ d.order = s.order
  BY <1>4 DEF RankType
<1> HIDE DEF d
<1>6. Books(d)
  BY <1>3, <1>5 DEF Kept, Books
<1>7. Kept(d, c, "sequential")
  BY <1>3, <1>5, <1>6 DEF Kept, Excused
<1>8. Stage(d, c, "sequential")
  BY <1>4, <1>5 DEF Stage, PrefillOK, TokensOK, ChunksOK, InCallback
<1> QED BY <1>2, <1>7, <1>8 DEF d

(* agree_on_cancellations and what the callback does of it.                *)
LEMMA CancelsKept ==
  ASSUME NEW e, NEW c, engine \in Engines, Kept(e, c, engine), Stage(e, c, engine),
         e.pc = "cancels", NEW a, Range(a) \subseteq e.mc
  PROVE  LET x == Callback(AgreeOnCancels(e, a))
         IN  Kept(x, c, engine) /\ Stage(x, c, engine)
<1> DEFINE x == AgreeOnCancels(e, a)
           z == [x EXCEPT !.pc = "agree"]
<1>1. /\ e \in RankType /\ Books(e) /\ e.canc \cup e.mc \subseteq c
      /\ e.toks \in Seq(Tasks) /\ e.act \in Seq(Tasks) /\ Range(e.order) \subseteq Tasks
  BY ElementsOfSeq DEF Kept, RankType
<1>2. x = [e EXCEPT !.canc = e.canc \cup Range(a), !.mc = e.mc \ Range(a)]
  BY DEF AgreeOnCancels
<1> HIDE DEF x
<1>3. /\ x \in RankType /\ x.pc = "cancels" /\ x.mode = e.mode /\ x.mq = e.mq
      /\ x.mc = e.mc \ Range(a) /\ x.all = e.all /\ x.q = e.q /\ x.act = e.act
      /\ x.canc = e.canc \cup Range(a) /\ x.tasks = e.tasks /\ x.cur = e.cur
      /\ x.left = e.left /\ x.toks = e.toks /\ x.made = e.made /\ x.ended = e.ended
      /\ x.out = e.out /\ x.order = e.order
  BY <1>1, <1>2 DEF RankType
<1>4. Books(x)
  BY <1>1, <1>3 DEF Books
(* Kept, but for what is cancelled being no longer active.                 *)
<1>5. (engine = "sequential" => \A t \in Range(x.act) : t \notin x.canc)
      => Kept(x, c, engine)
  BY <1>1, <1>3, <1>4 DEF Kept, Excused
<1>6. ASSUME Kept(x, c, engine), engine = "sequential" => \A t \in Range(x.act) : t \notin x.canc
      PROVE  Kept(z, c, engine) /\ Stage(z, c, engine)
  <2>1. /\ z \in RankType /\ z.pc = "agree" /\ z.mode = e.mode /\ z.mq = x.mq
        /\ z.mc = x.mc /\ z.all = x.all /\ z.q = x.q /\ z.act = x.act
        /\ z.canc = x.canc /\ z.tasks = x.tasks /\ z.cur = x.cur
        /\ z.left = x.left /\ z.toks = x.toks /\ z.made = x.made /\ z.ended = x.ended
        /\ z.out = x.out /\ z.order = x.order
    BY <1>3 DEF RankType, Collectives
  <2> HIDE DEF z
  <2>2. Kept(z, c, engine)
    BY <1>6, <2>1, KeptFrame
  <2>3. PrefillOK(z, c, engine)
    <3>1. SUFFICES ASSUME InCallback(z, "prefill") PROVE
            /\ z.left >= 1
            /\ z.cur \in Range(z.order) \ z.ended /\ z.cur \in z.tasks \cup Excused(z, c, engine)
            /\ engine = "sequential" => z.act = << z.cur >> /\ z.cur \notin z.canc
      BY DEF PrefillOK
    <3>2. /\ e.left >= 1
          /\ e.cur \in Range(e.order) \ e.ended /\ e.cur \in e.tasks \cup Excused(e, c, engine)
          /\ engine = "sequential" => e.act = << e.cur >>
      BY <2>1, <3>1 DEF Stage, PrefillOK, InCallback
    <3>3. Range(<< e.cur >>) = {e.cur}
      BY DEF Range
    <3> QED BY <1>3, <1>6, <2>1, <3>2, <3>3 DEF Excused
  <2>4. TokensOK(z, engine) /\ ChunksOK(z, c, engine)
    BY <1>3, <2>1 DEF Stage, TokensOK, ChunksOK, InCallback
  <2> QED BY <2>1, <2>2, <2>3, <2>4 DEF Stage
<1>7. ASSUME NEW t, t \in Range(e.order), engine = "sequential"
      PROVE  Kept(CancelledInStep(x, t), c, engine) /\ Stage(CancelledInStep(x, t), c, engine)
  <2> DEFINE y == [x EXCEPT !.act = << >>]
  <2>1. Range(<< >>) = {} /\ << >> \in Seq(Tasks) /\ Len(<< >>) = 0
    BY DEF Range
  <2>2. /\ y \in RankType /\ y.mq = x.mq /\ y.mc = x.mc /\ y.all = x.all /\ y.q = x.q
        /\ y.act = << >> /\ y.canc = x.canc /\ y.tasks = x.tasks /\ y.made = x.made
        /\ y.ended = x.ended /\ y.order = x.order
    BY <1>3, <2>1 DEF RankType
  <2> HIDE DEF y
  <2>3. Books(y)
    BY <1>4, <2>1, <2>2 DEF Books
  <2>4. Kept(y, c, "sequential")
    BY <1>1, <1>3, <1>7, <2>1, <2>2, <2>3 DEF Kept, Excused
  <2>5. CancelledInStep(x, t) = [StartGenerator(x) EXCEPT !.ended = {t}, !.toks = << >>,
                                                          !.out = << >>, !.pc = "results"]
    BY <1>7 DEF CancelledInStep
  <2>6. Kept([x EXCEPT !.act = << >>], c, "sequential")
    BY <2>4 DEF y
  <2>7. t \in Range(x.order)
    BY <1>3, <1>7
  <2> DEFINE d == [StartGenerator(x) EXCEPT !.ended = {t}, !.toks = << >>,
                                            !.out = << >>, !.pc = "results"]
  <2>8. Kept(d, c, "sequential") /\ Stage(d, c, "sequential")
    BY <1>3, <2>6, <2>7, NextAfterCancel
  <2> HIDE DEF d
  <2>9. CancelledInStep(x, t) = d
    BY <2>5 DEF d
  <2> QED BY <1>7, <2>8, <2>9
<1>8. e.mode \in {"prefill", "token"}
  BY <1>1 DEF Stage, RankType
<1>9. CASE engine = "batch"
  <2>1. Kept(x, c, engine)
    BY <1>5, <1>9
  <2>2. CASE e.mode = "prefill" /\ x.cur \in x.canc
    <3>1. x.out = << >>
      BY <1>3, <2>2 DEF Stage, ChunksOK, InCallback
    <3>2. Callback(x) = BatchStep(x)
      BY <1>3, <1>9, <2>2 DEF Callback, ShouldCancel, CancelledInStep
    <3> QED BY <1>9, <2>1, <3>1, <3>2, BatchStepKept DEF x
  <2>3. CASE ~(e.mode = "prefill" /\ x.cur \in x.canc)
    <3>1. Callback(x) = z
      BY <1>3, <1>9, <2>3 DEF Callback, ShouldCancel
    <3> QED BY <1>6, <1>9, <2>1, <3>1 DEF x
  <2> QED BY <2>2, <2>3
<1>10. CASE engine # "batch"
  <2>1. engine = "sequential"
    BY <1>10, AgreementConstants
  <2> DEFINE t == IF e.mode = "prefill" THEN x.cur ELSE Head(x.toks)
  <2>2. Range(x.act) = {t} /\ t \in Range(e.order)
    <3>1. CASE e.mode = "prefill"
      <4>1. e.act = << e.cur >> /\ e.cur \in Range(e.order)
        BY <2>1, <3>1 DEF Stage, PrefillOK, InCallback
      <4>2. Range(<< e.cur >>) = {e.cur}
        BY DEF Range
      <4> QED BY <1>3, <3>1, <4>1, <4>2
    <3>2. CASE e.mode = "token"
      <4>1. e.toks # << >> /\ Range(e.toks) \subseteq Range(e.act) /\ Len(e.act) <= 1
        BY <2>1, <3>2 DEF Stage, TokensOK, InCallback, Kept
      <4>2. Head(e.toks) \in Range(e.act)
        BY <1>1, <4>1, ElementsOfTail
      <4>3. e.act # << >>
        BY <1>1, <4>2, ElementsOfSeq
      <4>4. e.act = << Head(e.act) >>
        BY <1>1, <4>1, <4>3, ElementsOfTail
      <4>5. Range(<< Head(e.act) >>) = {Head(e.act)}
        BY DEF Range
      <4>6. Range(e.act) = {Head(e.toks)}
        BY <4>2, <4>4, <4>5
      <4> QED BY <1>1, <1>3, <3>2, <4>6 DEF Books
    <3> QED BY <1>8, <3>1, <3>2
  <2>3. Callback(x) = IF t \in x.canc THEN CancelledInStep(x, t) ELSE z
    BY <1>3, <1>8, <2>1 DEF Callback, ShouldCancel
  <2> HIDE DEF t
  <2>4. CASE t \in x.canc
    BY <1>7, <2>1, <2>2, <2>3, <2>4 DEF x
  <2>5. CASE t \notin x.canc
    <3>1. Kept(x, c, engine)
      BY <1>5, <2>2, <2>5
    <3> QED BY <1>6, <2>2, <2>3, <2>5, <3>1 DEF x
  <2> QED BY <2>4, <2>5
<1> QED BY <1>9, <1>10

(* The cancellations in the pipe are collected.                            *)
LEMMA CollectKept ==
  ASSUME NEW e, NEW c, NEW g, Kept(e, c, g), Stage(e, c, g), e.pc = "collect",
         NEW p, p \subseteq c
  PROVE  LET x == [CollectCancels(e, p) EXCEPT !.pc = "cancels"]
         IN  Kept(x, c, g) /\ Stage(x, c, g) /\ x.all = e.all
<1> DEFINE x == [CollectCancels(e, p) EXCEPT !.pc = "cancels"]
<1>1. e \in RankType /\ Books(e)
  BY DEF Kept
<1>2. CollectCancels(e, p) = [e EXCEPT !.mc = e.mc \cup (p \cap e.all)]
  BY DEF CollectCancels
<1>3. x = [e EXCEPT !.mc = e.mc \cup (p \cap e.all), !.pc = "cancels"]
  BY <1>1, <1>2 DEF RankType
<1> HIDE DEF x
<1>4. /\ x \in RankType /\ x.pc = "cancels" /\ x.mode = e.mode /\ x.mq = e.mq
      /\ x.mc = e.mc \cup (p \cap e.all) /\ x.all = e.all /\ x.q = e.q /\ x.act = e.act
      /\ x.canc = e.canc /\ x.tasks = e.tasks /\ x.cur = e.cur /\ x.left = e.left
      /\ x.toks = e.toks /\ x.made = e.made /\ x.ended = e.ended /\ x.out = e.out
      /\ x.order = e.order
  BY <1>1, <1>3 DEF RankType, Collectives
<1>5. Books(x)
  BY <1>1, <1>4 DEF Books
<1>6. Kept(x, c, g)
  BY <1>4, <1>5 DEF Kept, Excused
<1>7. Stage(x, c, g)
  BY <1>4 DEF Stage, PrefillOK, TokensOK, ChunksOK, InCallback, Excused
<1> QED BY <1>4, <1>6, <1>7 DEF x

(* A forward pass.                                                         *)
LEMMA TokenKept ==
  ASSUME NEW e, NEW c, engine \in Engines, Kept(e, c, engine), Stage(e, c, engine),
         e.pc = "forward"
  PROVE  LET x == Token(e)
         IN  /\ Kept(x, c, engine) /\ Stage(x, c, engine)
             /\ x.act = e.act /\ x.batch = e.batch /\ x.all = e.all
<1> DEFINE made == [t \in Tasks |-> IF t \in Range(e.act) THEN e.made[t] + 1 ELSE e.made[t]]
           toks == Keep(e.act, {t \in Tasks : (made[t] - 1) % CheckEvery = 0})
           pc == IF toks = << >> THEN "results" ELSE "collect"
           x == Token(e)
<1>1. /\ e \in RankType /\ Books(e) /\ e.act \in Seq(Tasks) /\ e.made \in [Tasks -> Nat]
      /\ engine \in {"batch", "sequential"}
  BY AgreementConstants DEF Kept, RankType
<1>2. made \in [Tasks -> Nat] /\ \A t \in Tasks : made[t] # 0 => t \in Range(e.act) \/ e.made[t] # 0
  BY <1>1
<1> HIDE DEF made
<1>3. toks \in Seq(Tasks) /\ Range(toks) \subseteq Range(e.act)
  BY <1>1, KeepIs
<1>4. x = [e EXCEPT !.made = made, !.toks = toks, !.mode = "token", !.out = e.act, !.pc = pc]
  BY DEF Token, made
<1> HIDE DEF toks
<1>5. pc \in {"results", "collect"} /\ (pc = "collect" => toks # << >>)
  OBVIOUS
<1> HIDE DEF x, pc
<1>6. /\ x \in RankType /\ x.pc = pc /\ x.mode = "token" /\ x.mq = e.mq
      /\ x.mc = e.mc /\ x.all = e.all /\ x.q = e.q /\ x.act = e.act /\ x.batch = e.batch
      /\ x.canc = e.canc /\ x.tasks = e.tasks /\ x.toks = toks
      /\ x.made = made /\ x.ended = e.ended /\ x.out = e.act /\ x.order = e.order
  BY <1>1, <1>2, <1>3, <1>4, <1>5 DEF RankType
<1>7. Books(x)
  BY <1>1, <1>2, <1>6 DEF Books
<1>8. engine = "sequential" => Range(e.act) \cap e.canc = {}
  BY DEF Stage
<1>9. Kept(x, c, engine)
  BY <1>1, <1>6, <1>7, <1>8 DEF Kept, Excused
<1>10. Range(e.act) \subseteq e.tasks \cup (IF engine = "batch" THEN c ELSE {})
  BY <1>1, <1>8 DEF Kept, Excused
<1>11. Stage(x, c, engine)
  BY <1>3, <1>5, <1>6, <1>10 DEF Stage, PrefillOK, TokensOK, ChunksOK, InCallback
<1> QED BY <1>6, <1>9, <1>11 DEF x

(* The batch engine drops the sequences that have ended.                   *)
LEMMA BatchForwardKept ==
  ASSUME NEW e, NEW c, Kept(e, c, "batch"), Stage(e, c, "batch"), engine = "batch",
         engine \in Engines, e.pc = "forward", NEW fin, NEW stop
  PROVE  LET x == BatchForward(e, fin, stop)
         IN  Kept(x, c, "batch") /\ Stage(x, c, "batch") /\ x.all = e.all
<1> DEFINE over == Range(e.act) \cap (fin \cup stop)
           k == Token(e)
           x == BatchForward(e, fin, stop)
<1>1. /\ Kept(k, c, "batch") /\ Stage(k, c, "batch")
      /\ k.act = e.act /\ k.batch = e.batch /\ k.all = e.all
  BY TokenKept
<1> HIDE DEF k
<1>2. k \in RankType /\ Books(k) /\ k.act \in Seq(Tasks) /\ k.batch \in SUBSET Tasks
  BY <1>1 DEF Kept, RankType
<1>3. /\ Keep(k.act, Tasks \ over) \in Seq(Tasks)
      /\ Range(Keep(k.act, Tasks \ over)) \subseteq Range(k.act) \cap (Tasks \ over)
  BY <1>2, KeepIs
<1>4. over \in SUBSET Tasks /\ over \subseteq Range(k.act)
  BY <1>1, <1>2, ElementsOfSeq
<1>5. x = [k EXCEPT !.ended = over, !.batch = k.batch \ fin, !.act = Keep(k.act, Tasks \ over)]
  BY DEF BatchForward, k
<1> HIDE DEF x, over
<1>6. /\ x \in RankType /\ x.pc = k.pc /\ x.mode = k.mode /\ x.mq = k.mq
      /\ x.mc = k.mc /\ x.all = k.all /\ x.q = k.q /\ x.act = Keep(k.act, Tasks \ over)
      /\ x.canc = k.canc /\ x.tasks = k.tasks /\ x.cur = k.cur /\ x.left = k.left
      /\ x.toks = k.toks /\ x.made = k.made /\ x.ended = over /\ x.out = k.out
      /\ x.order = k.order
  BY <1>2, <1>3, <1>4, <1>5 DEF RankType
<1>7. Books(x)
  BY <1>2, <1>3, <1>4, <1>6 DEF Books
<1>8. Kept(x, c, "batch")
  BY <1>1, <1>3, <1>6, <1>7 DEF Kept, Excused
<1>9. k.mode = "token"
  <2>1. e \in RankType
    BY DEF Kept
  <2> QED BY <2>1 DEF k, Token, RankType
<1>10. Stage(x, c, "batch")
  BY <1>1, <1>6, <1>9 DEF Stage, PrefillOK, TokensOK, ChunksOK, InCallback
<1> QED BY <1>1, <1>6, <1>8, <1>10 DEF x

(* The sequential engine makes a token, or goes to the next task.          *)
LEMMA SequentialForwardKept ==
  ASSUME NEW e, NEW c, Kept(e, c, "sequential"), Stage(e, c, "sequential"),
         engine = "sequential", engine \in Engines, e.pc = "forward", NEW over \in BOOLEAN
  PROVE  LET x == SequentialForward(e, over)
         IN  Kept(x, c, "sequential") /\ Stage(x, c, "sequential") /\ x.all = e.all
<1> DEFINE x == SequentialForward(e, over)
<1>1. /\ e \in RankType /\ Books(e) /\ e.act \in Seq(Tasks) /\ e.order \in Seq(Tasks)
      /\ e.out = << >>
  BY DEF Kept, RankType, Stage, ChunksOK, InCallback
<1>2. CASE e.last
  <2> DEFINE s == StartGenerator(e)
  <2>1. /\ Kept(s, c, "sequential") /\ s.out = << >> /\ s.ended = e.ended
        /\ Range(s.act) \cap Range(e.order) = {} /\ Range(e.order) \subseteq Range(s.order)
    BY <1>1, StartGeneratorKept
  <2>2. s.all = e.all
    BY <1>1 DEF StartGenerator, Pop, RankType
  <2>3. x = [s EXCEPT !.ended = Range(e.act), !.pc = "results"]
    BY <1>2 DEF SequentialForward
  <2> HIDE DEF s, x
  <2>4. /\ s \in RankType /\ Books(s) /\ Range(e.act) \subseteq Range(e.order)
        /\ Range(e.act) \in SUBSET Tasks /\ Range(<< >>) = {}
    <3>1. Range(<< >>) = {}
      BY DEF Range
    <3> QED BY <1>1, <2>1, <3>1, ElementsOfSeq DEF Kept, Books
  <2>5. /\ x \in RankType /\ x.pc = "results" /\ x.mode = s.mode /\ x.mq = s.mq
        /\ x.mc = s.mc /\ x.all = s.all /\ x.q = s.q /\ x.act = s.act
        /\ x.canc = s.canc /\ x.tasks = s.tasks /\ x.cur = s.cur /\ x.left = s.left
        /\ x.toks = s.toks /\ x.made = s.made /\ x.ended = Range(e.act) /\ x.out = s.out
        /\ x.order = s.order
    BY <2>3, <2>4 DEF RankType
  <2>6. Books(x)
    BY <2>1, <2>4, <2>5 DEF Books
  <2>7. Kept(x, c, "sequential")
    BY <2>1, <2>5, <2>6 DEF Kept, Excused
  <2>8. Stage(x, c, "sequential")
    BY <2>1, <2>4, <2>5 DEF Stage, PrefillOK, TokensOK, ChunksOK, InCallback
  <2> QED BY <2>2, <2>5, <2>7, <2>8 DEF x
<1>3. CASE ~e.last
  <2> DEFINE k == Token(e)
  <2>1. Kept(k, c, "sequential") /\ Stage(k, c, "sequential") /\ k.all = e.all
    BY TokenKept
  <2>2. x = [k EXCEPT !.last = over]
    BY <1>3 DEF SequentialForward
  <2> HIDE DEF k, x
  <2>3. k \in RankType
    BY <2>1 DEF Kept
  <2>4. /\ x \in RankType /\ x.pc = k.pc /\ x.mode = k.mode /\ x.mq = k.mq
        /\ x.mc = k.mc /\ x.all = k.all /\ x.q = k.q /\ x.act = k.act
        /\ x.canc = k.canc /\ x.tasks = k.tasks /\ x.cur = k.cur /\ x.left = k.left
        /\ x.toks = k.toks /\ x.made = k.made /\ x.ended = k.ended /\ x.out = k.out
        /\ x.order = k.order
    BY <2>2, <2>3 DEF RankType
  <2>5. Kept(x, c, "sequential")
    BY <2>1, <2>4, KeptFrame
  <2>6. Stage(x, c, "sequential")
    BY <2>1, <2>4 DEF Stage, PrefillOK, TokensOK, ChunksOK, InCallback, Excused
  <2> QED BY <2>1, <2>4, <2>5, <2>6 DEF x
<1> QED BY <1>2, <1>3

-----------------------------------------------------------------------------
(* What a rank does between two collectives follows from what it has the   *)
(* same as the others: of two ranks that are the same, the next places and *)
(* what they hold there are the same.  What a rank knows of tasks does not *)
(* change there.                                                           *)

(* step() of the batch engine.                                             *)
LEMMA BatchStepSame ==
  ASSUME NEW e \in RankType, NEW f \in RankType, Same(e, f)
  PROVE  Alike(BatchStep(e), BatchStep(f)) /\ BatchStep(e).all = e.all
<1>1. CASE e.q # << >> /\ Len(e.act) < MaxConcurrent
  BY <1>1 DEF Alike, Same, BatchStep, Pop, Prefill, RankType
<1>2. CASE ~(e.q # << >> /\ Len(e.act) < MaxConcurrent)
  BY <1>2 DEF Alike, Same, BatchStep, Pop, Prefill, RankType
<1> QED BY <1>1, <1>2

(* The next task of the sequential engine.                                 *)
LEMMA StartGeneratorSame ==
  ASSUME NEW e \in RankType, NEW f \in RankType, Same(e, f)
  PROVE  /\ Same(StartGenerator(e), StartGenerator(f)) /\ StartGenerator(e).all = e.all
         /\ StartGenerator(e).pc = e.pc
BY DEF Same, StartGenerator, Pop, RankType

(* A prefill.                                                              *)
LEMMA PrefillSame ==
  ASSUME NEW e \in RankType, NEW f \in RankType, Same(e, f), NEW t
  PROVE  Alike(Prefill(e, t), Prefill(f, t)) /\ Prefill(e, t).all = e.all
BY DEF Alike, Same, Prefill, RankType

(* A rank that only goes somewhere.                                        *)
LEMMA GoneSame ==
  ASSUME NEW e \in RankType, NEW f \in RankType, Same(e, f), NEW x
  PROVE  LET a == [e EXCEPT !.pc = x]
             b == [f EXCEPT !.pc = x]
         IN  Alike(a, b) /\ a.all = e.all
BY DEF Alike, Same, RankType

(* step() of the sequential engine.                                        *)
LEMMA SequentialStepSame ==
  ASSUME NEW e, NEW f, NEW c, NEW d, Kept(e, c, "sequential"), Kept(f, d, "sequential"),
         Same(e, f)
  PROVE  Alike(SequentialStep(e), SequentialStep(f)) /\ SequentialStep(e).all = e.all
<1> DEFINE s == IF e.act = << >> THEN StartGenerator(e) ELSE e
           u == IF f.act = << >> THEN StartGenerator(f) ELSE f
<1>1. e.act = f.act /\ e \in RankType /\ f \in RankType
  BY DEF Same, Kept
<1>2. Same(s, u) /\ s.all = e.all
  BY <1>1, StartGeneratorSame
<1>3. s \in RankType /\ u \in RankType
  BY <1>1, StartGeneratorKept DEF Kept
<1>4. SequentialStep(e) =
        IF s.act = << >> THEN [s EXCEPT !.pc = "results"]
        ELSE IF s.made[s.act[1]] = 0 THEN Prefill(s, s.act[1]) ELSE [s EXCEPT !.pc = "forward"]
  BY DEF SequentialStep
<1>5. SequentialStep(f) =
        IF u.act = << >> THEN [u EXCEPT !.pc = "results"]
        ELSE IF u.made[u.act[1]] = 0 THEN Prefill(u, u.act[1]) ELSE [u EXCEPT !.pc = "forward"]
  BY DEF SequentialStep
<1> HIDE DEF s, u
<1>6. s.act = u.act /\ s.made = u.made
  BY <1>2 DEF Same
<1>7. /\ Alike(Prefill(s, s.act[1]), Prefill(u, s.act[1]))
      /\ Prefill(s, s.act[1]).all = s.all
  BY <1>2, <1>3, PrefillSame
<1>8. /\ Alike([s EXCEPT !.pc = "results"], [u EXCEPT !.pc = "results"])
      /\ [s EXCEPT !.pc = "results"].all = s.all
      /\ Alike([s EXCEPT !.pc = "forward"], [u EXCEPT !.pc = "forward"])
      /\ [s EXCEPT !.pc = "forward"].all = s.all
  BY <1>2, <1>3, GoneSame
<1> QED BY <1>2, <1>4, <1>5, <1>6, <1>7, <1>8

(* step(), once it has agreed on tasks.                                    *)
LEMMA StepSame ==
  ASSUME NEW e, NEW f, NEW c, NEW d, engine \in Engines, Kept(e, c, engine),
         Kept(f, d, engine), Same(e, f)
  PROVE  Alike(Step(e), Step(f)) /\ Step(e).all = e.all
<1>1. engine \in {"batch", "sequential"} /\ e \in RankType /\ f \in RankType
  BY AgreementConstants DEF Kept
<1>2. CASE engine = "batch"
  BY <1>1, <1>2, BatchStepSame DEF Step
<1>3. CASE engine = "sequential"
  BY <1>3, SequentialStepSame DEF Step
<1> QED BY <1>1, <1>2, <1>3

(* step() begins.                                                          *)
LEMMA StartMode ==
  ASSUME NEW e, NEW c, NEW g, Kept(e, c, g)
  PROVE  LET x == [e EXCEPT !.mode = "start"]
         IN  Kept(x, c, g) /\ x.all = e.all /\ x.out = e.out
<1> DEFINE x == [e EXCEPT !.mode = "start"]
<1>1. /\ x \in RankType /\ x.mq = e.mq /\ x.mc = e.mc /\ x.all = e.all /\ x.q = e.q
      /\ x.act = e.act /\ x.canc = e.canc /\ x.tasks = e.tasks /\ x.made = e.made
      /\ x.ended = e.ended /\ x.order = e.order /\ x.out = e.out
  BY DEF RankType, Kept
<1> HIDE DEF x
<1>2. Kept(x, c, g)
  BY <1>1, KeptFrame
<1> QED BY <1>1, <1>2 DEF x

(* step(), from the top.                                                   *)
LEMMA BeginStepSame ==
  ASSUME NEW e, NEW f, NEW c, NEW d, engine \in Engines, Kept(e, c, engine),
         Kept(f, d, engine), Same(e, f)
  PROVE  Alike(BeginStep(e), BeginStep(f)) /\ BeginStep(e).all = e.all
<1> DEFINE x == [e EXCEPT !.mode = "start"]
           y == [f EXCEPT !.mode = "start"]
           v == [e EXCEPT !.mode = "start", !.pc = "agree"]
           w == [f EXCEPT !.mode = "start", !.pc = "agree"]
<1>1. Kept(x, c, engine) /\ Kept(y, d, engine) /\ x.all = e.all
  BY StartMode
<1>2. e \in RankType /\ f \in RankType
  BY DEF Kept
<1>3. Same(x, y) /\ Alike(v, w) /\ v.all = e.all
  BY <1>2 DEF Same, Alike, RankType
<1>4. e.q = f.q /\ e.act = f.act
  BY DEF Same
<1>5. BeginStep(e) = IF (IF engine = "batch" THEN e.q ELSE e.act) = << >> THEN v ELSE Step(x)
  BY DEF BeginStep
<1>6. BeginStep(f) = IF (IF engine = "batch" THEN f.q ELSE f.act) = << >> THEN w ELSE Step(y)
  BY DEF BeginStep
<1> HIDE DEF x, y, v, w
<1>7. Alike(Step(x), Step(y)) /\ Step(x).all = x.all
  BY <1>1, <1>3, StepSame
<1> QED BY <1>1, <1>3, <1>4, <1>5, <1>6, <1>7

(* A prefill that is over.                                                 *)
LEMMA PrefilledSame ==
  ASSUME NEW e \in RankType, NEW f \in RankType, Same(e, f), e.cur \in Tasks
  PROVE  Alike(Prefilled(e), Prefilled(f)) /\ Prefilled(e).all = e.all
<1> DEFINE x == [e EXCEPT !.act = Append(@, e.cur), !.batch = @ \cup {e.cur}]
           y == [f EXCEPT !.act = Append(@, f.cur), !.batch = @ \cup {f.cur}]
<1>1. x \in RankType /\ y \in RankType /\ Same(x, y) /\ x.all = e.all
  <2>1. e.cur = f.cur /\ e.act \in Seq(Tasks) /\ f.act \in Seq(Tasks)
    BY DEF Same, RankType
  <2>2. Append(e.act, e.cur) \in Seq(Tasks) /\ Append(f.act, f.cur) \in Seq(Tasks)
    BY <2>1
  <2>3. x \in RankType
    BY <2>2 DEF RankType
  <2>4. y \in RankType
    BY <2>1, <2>2 DEF RankType
  <2>5. Same(x, y) /\ x.all = e.all
    BY DEF Same, RankType
  <2> QED BY <2>3, <2>4, <2>5
<1> HIDE DEF x, y
<1>2. Alike(BatchStep(x), BatchStep(y)) /\ BatchStep(x).all = x.all
  BY <1>1, BatchStepSame
<1>3. /\ Alike([e EXCEPT !.pc = "forward"], [f EXCEPT !.pc = "forward"])
      /\ [e EXCEPT !.pc = "forward"].all = e.all
  BY GoneSame
<1>4. Prefilled(e) = IF engine = "batch" THEN BatchStep(x) ELSE [e EXCEPT !.pc = "forward"]
  BY DEF Prefilled, x
<1>5. Prefilled(f) = IF engine = "batch" THEN BatchStep(y) ELSE [f EXCEPT !.pc = "forward"]
  BY DEF Prefilled, y
<1> QED BY <1>1, <1>2, <1>3, <1>4, <1>5

(* A task that is cancelled in a callback.                                 *)
LEMMA CancelledInStepSame ==
  ASSUME NEW e \in RankType, NEW f \in RankType, Same(e, f), NEW t
  PROVE  Alike(CancelledInStep(e, t), CancelledInStep(f, t)) /\ CancelledInStep(e, t).all = e.all
<1>1. CASE engine = "batch"
  BY <1>1, BatchStepSame DEF CancelledInStep
<1>2. CASE engine # "batch"
  BY <1>2 DEF CancelledInStep, Alike, Same, StartGenerator, Pop, RankType
<1> QED BY <1>1, <1>2

(* A callback, between its two collectives.                                *)
LEMMA CallbackSame ==
  ASSUME NEW e \in RankType, NEW f \in RankType, Same(e, f)
  PROVE  Alike(Callback(e), Callback(f)) /\ Callback(e).all = e.all
<1>1. e.mode = f.mode /\ e.canc = f.canc /\ e.cur = f.cur /\ e.toks = f.toks
  BY DEF Same
<1>2. \A t : Alike(CancelledInStep(e, t), CancelledInStep(f, t)) /\ CancelledInStep(e, t).all = e.all
  BY CancelledInStepSame
<1>3. /\ Alike([e EXCEPT !.pc = "agree"], [f EXCEPT !.pc = "agree"])
      /\ [e EXCEPT !.pc = "agree"].all = e.all
  BY GoneSame
<1>4. CASE e.mode = "prefill"
  BY <1>1, <1>2, <1>3, <1>4 DEF Callback, ShouldCancel
<1>5. CASE e.mode # "prefill"
  BY <1>1, <1>2, <1>3, <1>5 DEF Callback, ShouldCancel
<1> QED BY <1>4, <1>5

(* Where a rank goes on after agree_on_tasks.                              *)
LEMMA AfterAgreeSame ==
  ASSUME NEW e, NEW f, NEW c, NEW d, engine \in Engines, Kept(e, c, engine),
         Kept(f, d, engine), Same(e, f),
         e.mode = "prefill" => e.left >= 1 /\ e.cur \in Tasks
  PROVE  Alike(AfterAgree(e), AfterAgree(f)) /\ AfterAgree(e).all = e.all
<1>1. e \in RankType /\ f \in RankType /\ e.mode = f.mode /\ e.left = f.left /\ e.toks = f.toks
  BY DEF Kept, Same
<1>2. CASE e.mode = "start"
  BY <1>1, <1>2, StepSame DEF AfterAgree
<1>3. CASE e.mode = "prefill" /\ e.left > 1
  <2>1. /\ AfterAgree(e) = [e EXCEPT !.left = @ - 1, !.pc = "collect"]
        /\ AfterAgree(f) = [f EXCEPT !.left = @ - 1, !.pc = "collect"]
    BY <1>1, <1>3 DEF AfterAgree
  <2> QED BY <1>1, <2>1 DEF Alike, Same, RankType
<1>4. CASE e.mode = "prefill" /\ e.left = 1
  <2> DEFINE x == [e EXCEPT !.left = 0]
             y == [f EXCEPT !.left = 0]
  <2>1. AfterAgree(e) = Prefilled(x) /\ AfterAgree(f) = Prefilled(y)
    BY <1>1, <1>4 DEF AfterAgree
  <2>2. x \in RankType /\ y \in RankType /\ Same(x, y) /\ x.cur = e.cur /\ x.all = e.all
    BY <1>1 DEF Same, RankType
  <2> HIDE DEF x, y
  <2> QED BY <1>4, <2>1, <2>2, PrefilledSame
<1>5. CASE e.mode = "token"
  <2>1. /\ AfterAgree(e) = [e EXCEPT !.toks = Tail(e.toks),
                                     !.pc = IF Len(e.toks) = 1 THEN "results" ELSE "collect"]
        /\ AfterAgree(f) = [f EXCEPT !.toks = Tail(f.toks),
                                     !.pc = IF Len(f.toks) = 1 THEN "results" ELSE "collect"]
    BY <1>1, <1>5 DEF AfterAgree
  <2> QED BY <1>1, <2>1 DEF Alike, Same, RankType
<1>6. e.left \in Nat /\ e.mode \in {"start", "prefill", "token"}
  BY <1>1 DEF RankType
<1> QED BY <1>2, <1>3, <1>4, <1>5, <1>6

(* A forward pass, ...                                                     *)
LEMMA TokenSame ==
  ASSUME NEW e \in RankType, NEW f \in RankType, Same(e, f)
  PROVE  Alike(Token(e), Token(f)) /\ Token(e).all = e.all
BY DEF Alike, Same, Token, RankType

(* ... of the batch engine ...                                             *)
LEMMA BatchForwardSame ==
  ASSUME NEW e \in RankType, NEW f \in RankType, Same(e, f), NEW fin, NEW stop
  PROVE  /\ Alike(BatchForward(e, fin, stop), BatchForward(f, fin, stop))
         /\ BatchForward(e, fin, stop).all = e.all
BY DEF Alike, Same, BatchForward, Token, RankType

(* ... and of the sequential one.                                          *)
LEMMA SequentialForwardSame ==
  ASSUME NEW e \in RankType, NEW f \in RankType, Same(e, f), NEW over
  PROVE  /\ Alike(SequentialForward(e, over), SequentialForward(f, over))
         /\ SequentialForward(e, over).all = e.all
<1>1. e.last = f.last
  BY DEF Same
<1>2. CASE e.last
  BY <1>1, <1>2 DEF Alike, Same, SequentialForward, StartGenerator, Pop, RankType
<1>3. CASE ~e.last
  BY <1>1, <1>3 DEF Alike, Same, SequentialForward, Token, RankType
<1> QED BY <1>2, <1>3

(* The results of a step.                                                  *)
LEMMA ResultsSame ==
  ASSUME NEW e \in RankType, NEW f \in RankType, Same(e, f)
  PROVE  Same(Results(e, 1), Results(f, 1)) /\ Results(e, 1).all = e.all
<1>1. CASE engine = "batch"
  <2> DEFINE x == [[e EXCEPT !.tasks = @ \ e.ended, !.ended = {}, !.out = << >>, !.mode = "start"]
                   EXCEPT !.made = [t \in Tasks |-> IF t \in Range(e.act) \cup e.batch
                                                   THEN e.made[t] ELSE 0]]
             y == [[f EXCEPT !.tasks = @ \ f.ended, !.ended = {}, !.out = << >>, !.mode = "start"]
                   EXCEPT !.made = [t \in Tasks |-> IF t \in Range(f.act) \cup f.batch
                                                   THEN f.made[t] ELSE 0]]
  <2>1. Same(x, y) /\ x.all = e.all
    BY DEF Same, RankType
  <2>2. x \in RankType /\ y \in RankType
    <3>1. ASSUME NEW k \in RankType, NEW m \in [Tasks -> Nat]
          PROVE  [[k EXCEPT !.tasks = @ \ k.ended, !.ended = {}, !.out = << >>, !.mode = "start"]
                   EXCEPT !.made = m] \in RankType
      BY << >> \in Seq(Tasks) DEF RankType
    <3>2. ASSUME NEW k \in RankType
          PROVE  [t \in Tasks |-> IF t \in Range(k.act) \cup k.batch THEN k.made[t] ELSE 0]
                 \in [Tasks -> Nat]
      BY DEF RankType
    <3> QED BY <3>1, <3>2
  <2>3. Results(e, 1) = ApplyCancellations(x) /\ Results(f, 1) = ApplyCancellations(y)
    BY <1>1 DEF Results
  <2> HIDE DEF x, y
  <2>4. Same(ApplyCancellations(x), ApplyCancellations(y)) /\ ApplyCancellations(x).all = x.all
    BY <2>1, <2>2 DEF Same, ApplyCancellations, RankType
  <2> QED BY <2>1, <2>3, <2>4
<1>2. CASE engine # "batch"
  BY <1>2 DEF Same, Results, RankType
<1> QED BY <1>1, <1>2

(* A rank to which more cancellations have been sent.                      *)
LEMMA MoreTold ==
  ASSUME NEW e, NEW c, NEW d, NEW g, c \subseteq d, Kept(e, c, g), Stage(e, c, g)
  PROVE  Kept(e, d, g) /\ Stage(e, d, g)
<1>1. Excused(e, c, g) \subseteq Excused(e, d, g)
  BY DEF Excused
<1>2. Kept(e, d, g)
  BY <1>1 DEF Kept
<1>3. Stage(e, d, g)
  BY <1>1 DEF Stage, PrefillOK, TokensOK, ChunksOK
<1> QED BY <1>2, <1>3

(* step() leads to a collective, or to a prefill on the way to one.        *)
LEMMA BeginStepMoves ==
  ASSUME NEW e, NEW c, engine \in Engines, Kept(e, c, engine)
  PROVE  BeginStep(e).pc \in {"agree", "collect", "forward"}
<1> DEFINE x == [e EXCEPT !.mode = "start"]
<1>1. /\ e \in RankType /\ e.act \in Seq(Tasks) /\ Len(<< >>) = 0
      /\ engine \in {"batch", "sequential"} /\ MaxConcurrent \in Nat \ {0}
  BY AgreementConstants DEF Kept, RankType
<1>2. x \in RankType /\ x.q = e.q /\ x.act = e.act
  BY <1>1 DEF RankType
<1>3. BeginStep(e) = IF (IF engine = "batch" THEN e.q ELSE e.act) = << >>
                     THEN [e EXCEPT !.mode = "start", !.pc = "agree"] ELSE Step(x)
  BY DEF BeginStep
<1> HIDE DEF x
<1>4. [e EXCEPT !.mode = "start", !.pc = "agree"].pc = "agree"
  BY <1>1 DEF RankType
<1>5. CASE engine = "batch" /\ e.q # << >>
  <2>1. CASE Len(e.act) < MaxConcurrent
    <3>1. Step(x) = Prefill(Pop(x), Head(x.q))
      BY <1>2, <1>5, <2>1 DEF Step, BatchStep
    <3>2. Prefill(Pop(x), Head(x.q)).pc = "collect"
      BY <1>2 DEF Prefill, Pop, RankType
    <3> QED BY <1>3, <1>5, <3>1, <3>2
  <2>2. CASE ~(Len(e.act) < MaxConcurrent)
    <3>1. e.act # << >>
      BY <1>1, <2>2
    <3>2. Step(x) = [x EXCEPT !.pc = "forward"]
      BY <1>2, <1>5, <2>2, <3>1 DEF Step, BatchStep
    <3> QED BY <1>2, <1>3, <1>5, <3>2 DEF RankType
  <2> QED BY <2>1, <2>2
<1>6. CASE engine = "sequential" /\ e.act # << >>
  <2>1. Step(x) = IF x.made[x.act[1]] = 0 THEN Prefill(x, x.act[1]) ELSE [x EXCEPT !.pc = "forward"]
    BY <1>2, <1>6 DEF Step, SequentialStep
  <2>2. Prefill(x, x.act[1]).pc = "collect" /\ [x EXCEPT !.pc = "forward"].pc = "forward"
    BY <1>2 DEF Prefill, RankType
  <2> QED BY <1>3, <1>6, <2>1, <2>2
<1> QED BY <1>1, <1>3, <1>4, <1>5, <1>6

(* Two ranks that are alike remain so when they have gone on.              *)
LEMMA SettleSame ==
  ASSUME NEW e, NEW f, NEW c, NEW d, engine \in Engines, Kept(e, c, engine),
         Stage(e, c, engine), Kept(f, d, engine), Stage(f, d, engine), Alike(e, f)
  PROVE  Alike(Settle(e), Settle(f))
<1>1. e \in RankType /\ f \in RankType /\ Same(e, f) /\ e.pc = f.pc
  BY DEF Kept, Alike
<1>2. CASE e.pc \in {"results", "dead"}
  <2> DEFINE x == Results(e, 1)
             y == Results(f, 1)
  <2>1. Kept(x, c, engine) /\ Kept(y, d, engine)
    BY <1>1, <1>2, ResultsKept
  <2>2. Same(x, y)
    BY <1>1, ResultsSame
  <2>3. Settle(e) = BeginStep(x) /\ Settle(f) = BeginStep(y)
    BY <1>1, <1>2 DEF Settle
  <2> HIDE DEF x, y
  <2> QED BY <2>1, <2>2, <2>3, BeginStepSame
<1>3. CASE e.pc = "idle"
  <2>1. Settle(e) = BeginStep(e) /\ Settle(f) = BeginStep(f)
    BY <1>1, <1>3 DEF Settle
  <2> QED BY <1>1, <2>1, BeginStepSame
<1>4. CASE e.pc \notin {"results", "dead", "idle"}
  BY <1>1, <1>4 DEF Settle, Alike
<1> QED BY <1>2, <1>3, <1>4

(* Met is an equivalence.                                                  *)
LEMMA MetIs ==
  ASSUME NEW e, NEW f
  PROVE  /\ Met(e, e) /\ (Alike(e, f) => Met(e, f)) /\ (Met(e, f) => Met(f, e))
         /\ \A h : Met(e, f) /\ Met(f, h) => Met(e, h)
BY DEF Met, Alike, Same

(* A rank that stands at a collective has nothing to do before it.         *)
LEMMA SettledThere ==
  ASSUME NEW e, e.pc \in Collectives
  PROVE  Settle(e) = e /\ Point(e.pc) = e.pc
BY DEF Collectives, Settle, Point

(* A step of a rank for itself does not change what it has the same as the *)
(* others when it has gone on: it takes a first task, ...                  *)
LEMMA FirstTaskMet ==
  ASSUME NEW e, NEW c, engine \in Engines, Kept(e, c, engine), Stage(e, c, engine),
         e.pc = "idle", NEW t \in Tasks, t \notin e.all
  PROVE  LET x == BeginStep(Submit(e, t))
         IN  /\ Kept(x, c, engine) /\ Stage(x, c, engine) /\ x.all = e.all \cup {t}
             /\ Met(Settle(x), Settle(e))
<1> DEFINE s == Submit(e, t)
           x == BeginStep(s)
<1>1. e \in RankType /\ e.out = << >>
  BY DEF Kept, Stage, ChunksOK, InCallback
<1>2. Kept(s, c, engine) /\ s.out = << >> /\ s.all = e.all \cup {t}
  BY <1>1, SubmitKept
<1>3. Same(s, e)
  BY <1>1 DEF Same, Submit, RankType
<1> HIDE DEF s
<1>4. Kept(x, c, engine) /\ Stage(x, c, engine)
  BY <1>2, BeginStepKept
<1>5. Alike(x, BeginStep(e)) /\ x.all = s.all
  BY <1>2, <1>3, BeginStepSame
<1>6. x.pc \in {"agree", "collect", "forward"}
  BY <1>2, BeginStepMoves
<1>7. Settle(x) = x /\ Settle(e) = BeginStep(e)
  BY <1>6 DEF Settle
<1> QED BY <1>2, <1>4, <1>5, <1>7, MetIs DEF s

(* ... collects its cancellations, ...                                     *)
LEMMA CollectMet ==
  ASSUME NEW e, NEW c, NEW g, Kept(e, c, g), e.pc = "collect", NEW p
  PROVE  LET x == [CollectCancels(e, p) EXCEPT !.pc = "cancels"]
         IN  Met(Settle(x), Settle(e))
<1> DEFINE x == [CollectCancels(e, p) EXCEPT !.pc = "cancels"]
<1>1. e \in RankType
  BY DEF Kept
<1>2. Same(x, e) /\ x.pc = "cancels"
  BY <1>1 DEF Same, CollectCancels, RankType
<1> HIDE DEF x
<1>3. Settle(x) = x /\ Settle(e) = e
  BY <1>2 DEF Settle
<1> QED BY <1>2, <1>3 DEF x, Met, Point

(* ... goes on after its results, in its loop or out of it, ...            *)
LEMMA GoesOn ==
  ASSUME NEW e, NEW c, NEW s, engine \in Engines, Kept(e, c, engine), Stage(e, c, engine),
         e.pc = "results", Kept(s, c, engine), s.out = << >>, Same(s, Results(e, 1))
  PROVE  LET x == IF s.tasks = {} THEN [s EXCEPT !.pc = "idle"] ELSE BeginStep(s)
         IN  /\ Kept(x, c, engine) /\ Stage(x, c, engine) /\ x.all = s.all
             /\ Met(Settle(x), Settle(e))
<1> DEFINE d == Results(e, 1)
           y == [s EXCEPT !.pc = "idle"]
           z == BeginStep(s)
<1>1. Kept(d, c, engine)
  BY ResultsKept
<1>2. Settle(e) = BeginStep(d)
  BY DEF Settle
<1> HIDE DEF d
<1>3. Same(s, d)
  BY DEF d
<1>4. s \in RankType
  BY DEF Kept
<1>5. /\ Kept(y, c, engine) /\ Stage(y, c, engine) /\ y.all = s.all
      /\ Met(Settle(y), Settle(e))
  <2>1. Kept(y, c, engine) /\ Stage(y, c, engine)
    BY GoneTo
  <2>2. Same(y, d) /\ y.all = s.all /\ y.pc = "idle"
    BY <1>3, <1>4 DEF Same, RankType
  <2> HIDE DEF y
  <2>3. Settle(y) = BeginStep(y)
    BY <2>2 DEF Settle
  <2>4. Alike(BeginStep(y), BeginStep(d))
    BY <1>1, <2>1, <2>2, BeginStepSame
  <2> QED BY <1>2, <2>1, <2>2, <2>3, <2>4, MetIs
<1>6. /\ Kept(z, c, engine) /\ Stage(z, c, engine) /\ z.all = s.all
      /\ Met(Settle(z), Settle(e))
  <2>1. Kept(z, c, engine) /\ Stage(z, c, engine)
    BY BeginStepKept
  <2>2. Alike(z, BeginStep(d)) /\ z.all = s.all
    BY <1>1, <1>3, BeginStepSame
  <2>3. z.pc \in {"agree", "collect", "forward"}
    BY BeginStepMoves
  <2>4. Settle(z) = z
    BY <2>3 DEF Settle
  <2> QED BY <1>2, <2>1, <2>2, <2>4, MetIs
<1> HIDE DEF y, z
<1> QED BY <1>5, <1>6 DEF y, z

(* ... or fails.                                                           *)
LEMMA DeadMet ==
  ASSUME NEW e, NEW c, engine \in Engines, Kept(e, c, engine), Stage(e, c, engine),
         e.pc = "results", NEW r, r = 0 /\ ~TasksFound(e)
  PROVE  Met(Settle(Results(e, r)), Settle(e))
<1> DEFINE x == Results(e, r)
<1>1. e \in RankType
  BY DEF Kept
<1>2. x = [e EXCEPT !.pc = "dead"]
  BY DEF Results
<1>3. Kept(x, c, engine) /\ x.pc = "dead" /\ Stage(x, c, engine)
  BY ResultsKept
<1> HIDE DEF x
<1>4. Same(x, e) /\ x \in RankType
  BY <1>1, <1>2 DEF Same, RankType
<1>5. Same(Results(x, 1), Results(e, 1))
  BY <1>1, <1>4, ResultsSame
<1>6. Kept(Results(x, 1), c, engine) /\ Kept(Results(e, 1), c, engine)
  BY <1>3, ResultsKept
<1>7. Alike(BeginStep(Results(x, 1)), BeginStep(Results(e, 1)))
  BY <1>5, <1>6, BeginStepSame
<1>8. Settle(x) = BeginStep(Results(x, 1)) /\ Settle(e) = BeginStep(Results(e, 1))
  BY <1>3 DEF Settle
<1> QED BY <1>7, <1>8, MetIs DEF x

(* What a rank does at the end of a step.                                  *)
LEMMA EndStepMet ==
  ASSUME NEW e, NEW c, engine \in Engines, Kept(e, c, engine), Stage(e, c, engine),
         e.pc = "results", NEW r, NEW w \in Seq(Tasks), Range(w) \cap e.all = {}
  PROVE  LET d == Results(e, r)
             take == d.pc # "dead" /\ w # << >>
             s == IF take THEN Submit(d, Head(w)) ELSE d
             x == CASE d.pc = "dead" -> d
                    [] d.pc # "dead" /\ s.tasks = {} -> [s EXCEPT !.pc = "idle"]
                    [] OTHER -> BeginStep(s)
         IN  /\ Kept(x, c, engine) /\ Stage(x, c, engine) /\ Met(Settle(x), Settle(e))
             /\ x.all = IF take THEN e.all \cup {Head(w)} ELSE e.all
<1> DEFINE d == Results(e, r)
           take == d.pc # "dead" /\ w # << >>
           s == IF take THEN Submit(d, Head(w)) ELSE d
           x == CASE d.pc = "dead" -> d
                  [] d.pc # "dead" /\ s.tasks = {} -> [s EXCEPT !.pc = "idle"]
                  [] OTHER -> BeginStep(s)
<1>1. /\ Kept(d, c, engine) /\ d.all = e.all
      /\ IF r = 0 /\ ~TasksFound(e) THEN d.pc = "dead" /\ Stage(d, c, engine)
         ELSE d.pc = "results" /\ d.out = << >>
  BY ResultsKept
<1>2. CASE r = 0 /\ ~TasksFound(e)
  <2>1. Met(Settle(d), Settle(e))
    BY <1>2, DeadMet
  <2> HIDE DEF d
  <2>2. x = d /\ take = FALSE
    BY <1>1, <1>2
  <2> QED BY <1>1, <1>2, <2>1, <2>2 DEF d
<1>3. CASE ~(r = 0 /\ ~TasksFound(e))
  <2>1. d = Results(e, 1)
    BY <1>3 DEF Results
  <2> HIDE DEF d
  <2>2. w # << >> => Head(w) \in Tasks /\ Head(w) \notin d.all
    BY <1>1, ElementsOfTail
  <2>3. d \in RankType /\ Kept(d, c, engine) /\ d.all = e.all /\ d.out = << >>
    BY <1>1, <1>3 DEF Kept
  <2>4. /\ Kept(s, c, engine) /\ s.out = << >>
        /\ s.all = IF take THEN e.all \cup {Head(w)} ELSE e.all
    <3>1. CASE take
      <4>1. s = Submit(d, Head(w)) /\ Head(w) \in Tasks /\ Head(w) \notin d.all
        BY <2>2, <3>1
      <4> HIDE DEF s, take, x
      <4> QED BY <2>3, <3>1, <4>1, SubmitKept
    <3>2. CASE ~take
      <4>1. s = d
        BY <3>2
      <4> HIDE DEF s, take, x
      <4> QED BY <2>3, <3>2, <4>1
    <3> QED BY <3>1, <3>2
  <2>5. Same(s, d)
    <3>1. s = d \/ s = Submit(d, Head(w))
      OBVIOUS
    <3> HIDE DEF s, take, x
    <3> QED BY <2>3, <3>1 DEF Same, Submit, RankType
  <2>6. take = (w # << >>)
    BY <1>1, <1>3
  <2> DEFINE y == IF s.tasks = {} THEN [s EXCEPT !.pc = "idle"] ELSE BeginStep(s)
  <2>7. x = y
    BY <1>1, <1>3
  <2> HIDE DEF s, x, take
  <2>8. /\ Kept(y, c, engine) /\ Stage(y, c, engine) /\ y.all = s.all
        /\ Met(Settle(y), Settle(e))
    BY <2>1, <2>4, <2>5, GoesOn
  <2> HIDE DEF y
  <2> QED BY <2>4, <2>7, <2>8 DEF x, s, take, d
<1> QED BY <1>2, <1>3

-----------------------------------------------------------------------------
(* The system.                                                             *)

(* What a rank goes on to depends on the engine of the group only.         *)
LEMMA SettleFrame ==
  ASSUME engine' = engine, NEW e
  PROVE  Settle(e)' = Settle(e)
<1>1. ASSUME NEW x PROVE Step(x)' = Step(x)
  BY DEF Step
<1>2. ASSUME NEW x PROVE BeginStep(x)' = BeginStep(x)
  BY <1>1 DEF BeginStep
<1>3. ASSUME NEW x, NEW r PROVE Results(x, r)' = Results(x, r)
  BY DEF Results
<1> QED BY <1>2, <1>3 DEF Settle

(* The ranks at first.                                                     *)
LEMMA NewRankKept ==
  ASSUME NEW c, NEW g
  PROVE  Kept(NewRank, c, g) /\ Stage(NewRank, c, g) /\ NewRank.all = {}
<1>1. << >> \in Seq(Tasks) /\ Range(<< >>) = {} /\ Len(<< >>) = 0 /\ DOMAIN << >> = {}
  BY DEF Range
<1>2. [t \in Tasks |-> 0] \in [Tasks -> Nat] /\ -1 \in Int
  OBVIOUS
<1>3. NewRank \in RankType
  BY <1>1, <1>2 DEF NewRank, RankType
<1>4. Books(NewRank)
  BY <1>1 DEF NewRank, Books, Distinct
<1>5. Kept(NewRank, c, g)
  BY <1>1, <1>3, <1>4 DEF NewRank, Kept, Excused
<1>6. Stage(NewRank, c, g)
  BY <1>1 DEF NewRank, Stage, PrefillOK, TokensOK, ChunksOK, InCallback
<1> QED BY <1>5, <1>6 DEF NewRank

(* They have met.                                                          *)
LEMMA InitInv == Init => Inv
<1> SUFFICES ASSUME Init PROVE Inv
  OBVIOUS
<1> USE DEF Init
<1>1. << >> \in Seq(Tasks) /\ Range(<< >>) = {} /\ Len(<< >>) = 0
      /\ << >> \in Seq(EventType)
  BY DEF Range
<1>2. NewRank \in RankType /\ NewRank.all = {}
  BY NewRankKept DEF Kept
<1>3. Typed
  BY <1>1, <1>2 DEF Typed
<1>4. ASSUME NEW r \in Ranks PROVE RankOK(r)
  <2>1. /\ rk[r] = NewRank /\ started[r] = {} /\ told[r] = {} /\ inbox[r] = << >>
        /\ cancelPipe[r] = {}
    OBVIOUS
  <2>2. WorkerOK(NewRank, {}, {}, {}, << >>)
    BY <1>1, <1>2 DEF WorkerOK
  <2> QED BY <2>1, <2>2, NewRankKept DEF RankOK
<1>5. InTune
  BY MetIs DEF InTune
<1> QED BY <1>3, <1>4, <1>5 DEF Inv

(* A step of one rank keeps the invariant if it keeps what the rank holds  *)
(* and what it has the same as the others when it has gone on.             *)
LEMMA OneRank ==
  ASSUME Inv, NEW r \in Ranks, NEW x, NEW p, NEW w, rk' = [rk EXCEPT ![r] = x],
         cancelPipe' = [cancelPipe EXCEPT ![r] = p], inbox' = [inbox EXCEPT ![r] = w], Quiet,
         Kept(x, told[r], engine), Stage(x, told[r], engine),
         WorkerOK(x, started[r], told[r], p, w), Met(Settle(x), Settle(rk[r]))
  PROVE  Inv'
<1> USE DEF Quiet
<1>1. x \in RankType /\ w \in Seq(Tasks) /\ p \in SUBSET Tasks
  BY DEF Kept, WorkerOK
<1>2. Typed'
  BY <1>1 DEF Inv, Typed
<1>3. ASSUME NEW u \in Ranks PROVE RankOK(u)'
  <2>1. /\ rk'[u] = IF u = r THEN x ELSE rk[u]
        /\ cancelPipe'[u] = IF u = r THEN p ELSE cancelPipe[u]
        /\ inbox'[u] = IF u = r THEN w ELSE inbox[u]
    BY DEF Inv, Typed
  <2>2. RankOK(u)
    BY DEF Inv
  <2>3. CASE u = r
    BY <2>1, <2>3 DEF RankOK
  <2>4. CASE u # r
    BY <2>1, <2>2, <2>4 DEF RankOK
  <2> QED BY <2>3, <2>4
<1>4. ASSUME NEW u \in Ranks PROVE Met(Settle(rk'[u]), Settle(rk[u]))
  BY MetIs DEF Inv, Typed
<1>5. ASSUME NEW u \in Ranks, NEW v \in Ranks PROVE Met(Settle(rk[u])', Settle(rk[v])')
  <2>1. Met(Settle(rk[u]), Settle(rk[v]))
    BY DEF Inv, InTune
  <2>2. Met(Settle(rk'[u]), Settle(rk[u])) /\ Met(Settle(rk'[v]), Settle(rk[v]))
    BY <1>4
  <2>3. Met(Settle(rk'[u]), Settle(rk'[v]))
    BY <2>1, <2>2, MetIs
  <2> QED BY <2>3, SettleFrame
<1> QED BY <1>2, <1>3, <1>5 DEF Inv, InTune

(* A step of all ranks keeps it if they are alike after it.                *)
LEMMA AllRanks ==
  ASSUME Inv, UNCHANGED <<inbox, cancelPipe>>, Quiet, rk' \in [Ranks -> RankType],
         \A r \in Ranks : /\ Kept(rk'[r], told[r], engine) /\ Stage(rk'[r], told[r], engine)
                          /\ rk'[r].all = rk[r].all,
         \A r, u \in Ranks : Alike(rk'[r], rk'[u])
  PROVE  Inv'
<1> USE DEF Quiet
<1>1. Typed'
  BY DEF Inv, Typed
<1>2. ASSUME NEW r \in Ranks PROVE RankOK(r)'
  <2>1. RankOK(r)
    BY DEF Inv
  <2> QED BY <2>1 DEF RankOK, WorkerOK
<1>3. ASSUME NEW r \in Ranks, NEW u \in Ranks PROVE Met(Settle(rk[r])', Settle(rk[u])')
  <2>1. engine \in Engines
    BY DEF Inv, Typed
  <2>2. Alike(Settle(rk'[r]), Settle(rk'[u]))
    BY <2>1, SettleSame
  <2> QED BY <2>2, MetIs, SettleFrame
<1> QED BY <1>1, <1>2, <1>3 DEF Inv, InTune

(* The events of the log, and of a part of it.                             *)
LEMMA EventsOf ==
  ASSUME NEW s \in Seq(EventType)
  PROVE  /\ Len(s) \in Nat
         /\ \A i \in 1 .. Len(s) : s[i].task \in Tasks
         /\ \A n \in 0 .. Len(s) : Cancelled(SubSeq(s, 1, n)) \subseteq Tasks
         /\ \A e \in EventType : /\ Append(s, e) \in Seq(EventType)
                                /\ Len(Append(s, e)) = Len(s) + 1
<1>1. \A e \in EventType : e.task \in Tasks
  BY DEF EventType
<1>2. Len(s) \in Nat /\ \A i \in 1 .. Len(s) : s[i] \in EventType
  OBVIOUS
<1>3. ASSUME NEW n \in 0 .. Len(s)
      PROVE  Cancelled(SubSeq(s, 1, n)) \subseteq Tasks
  <2> DEFINE u == SubSeq(s, 1, n)
  <2>1. DOMAIN u = 1 .. n /\ \A j \in 1 .. n : u[j] = s[j] /\ j \in 1 .. Len(s)
    OBVIOUS
  <2> HIDE DEF u
  <2>2. \A j \in DOMAIN u : u[j].task \in Tasks
    BY <1>1, <1>2, <2>1
  <2>3. Cancelled(u) \subseteq Tasks
    BY <2>2 DEF Cancelled
  <2> QED BY <2>3 DEF u
<1> QED BY <1>1, <1>2, <1>3

(* The log grows.                                                          *)
LEMMA LogGrows ==
  ASSUME Inv, NEW k \in {"created", "cancelled"}, NEW t \in Tasks,
         log' = Append(log, [kind |-> k, task |-> t]),
         UNCHANGED <<engine, pos, started, told, inbox, cancelPipe, rk>>
  PROVE  Inv'
<1>1. log \in Seq(EventType)
  BY DEF Inv, Typed
<1>2. /\ log' \in Seq(EventType)
      /\ Len(log') = Len(log) + 1 /\ Len(log) \in Nat
  <2>1. [kind |-> k, task |-> t] \in EventType
    BY DEF EventType
  <2> QED BY <1>1, <2>1, EventsOf
<1>3. Typed'
  BY <1>2 DEF Inv, Typed
<1>4. ASSUME NEW r \in Ranks PROVE RankOK(r)'
  BY DEF Inv, RankOK
<1>5. InTune'
  BY SettleFrame DEF Inv, InTune
<1> QED BY <1>3, <1>4, <1>5 DEF Inv

(* A worker gives its runner a task, ...                                   *)
LEMMA StartTaskInv ==
  ASSUME Inv, NEW r \in Ranks, StartTask(r)
  PROVE  Inv'
<1>1. /\ log \in Seq(EventType)
      /\ pos[r] \in Nat /\ inbox[r] = << >> /\ RankOK(r)
  BY DEF Inv, Typed, StartTask, Planning
<1>2. PICK seen \in pos[r] .. Len(log) : \E i \in PendingTasks(r, seen) :
        /\ pos' = [pos EXCEPT ![r] = seen]
        /\ started' = [started EXCEPT ![r] = @ \cup {log[i].task}]
        /\ inbox' = [inbox EXCEPT ![r] = Append(@, log[i].task)]
  BY DEF StartTask
<1>3. PICK i \in PendingTasks(r, seen) :
        /\ pos' = [pos EXCEPT ![r] = seen]
        /\ started' = [started EXCEPT ![r] = @ \cup {log[i].task}]
        /\ inbox' = [inbox EXCEPT ![r] = Append(@, log[i].task)]
  BY <1>2
<1> DEFINE t == log[i].task
<1>4. t \in Tasks /\ t \notin started[r] /\ seen \in Nat /\ seen <= Len(log)
  <2>1. Len(log) \in Nat
    BY <1>1
  <2>2. seen \in Nat /\ seen <= Len(log)
    BY <1>1, <2>1
  <2>3. i \in 1 .. seen /\ t \notin started[r]
    BY DEF PendingTasks
  <2>4. i \in 1 .. Len(log)
    BY <2>1, <2>2, <2>3
  <2> QED BY <1>1, <2>2, <2>3, <2>4, EventsOf
<1>5. /\ pos' = [pos EXCEPT ![r] = seen]
      /\ started' = [started EXCEPT ![r] = started[r] \cup {t}]
      /\ inbox' = [inbox EXCEPT ![r] = << t >>]
  BY <1>1, <1>3
<1> HIDE DEF t
<1>6. << t >> \in Seq(Tasks) /\ Range(<< t >>) = {t} /\ Len(<< t >>) = 1
  BY <1>4, ElementsOfOne
<1> USE DEF StartTask
<1>7. Typed'
  BY <1>4, <1>5, <1>6 DEF Inv, Typed
<1>8. ASSUME NEW u \in Ranks PROVE RankOK(u)'
  <2>1. RankOK(u)
    BY DEF Inv
  <2>2. CASE u # r
    <3>1. started'[u] = started[u] /\ inbox'[u] = inbox[u]
      BY <1>5, <2>2 DEF Inv, Typed
    <3> QED BY <2>1, <3>1 DEF RankOK
  <2>3. CASE u = r
    <3>1. started'[u] = started[r] \cup {t} /\ inbox'[u] = << t >>
      BY <1>5, <2>3 DEF Inv, Typed
    <3>2. WorkerOK(rk[r], started[r] \cup {t}, told[r], cancelPipe[r], << t >>)
      BY <1>1, <1>4, <1>6 DEF RankOK, WorkerOK
    <3> QED BY <2>1, <2>3, <3>1, <3>2 DEF RankOK
  <2> QED BY <2>2, <2>3
<1>9. InTune'
  BY SettleFrame DEF Inv, InTune
<1> QED BY <1>7, <1>8, <1>9 DEF Inv

(* ... or sends it a cancellation.                                         *)
LEMMA SendCancelInv ==
  ASSUME Inv, NEW r \in Ranks, SendCancel(r)
  PROVE  Inv'
<1>1. /\ log \in Seq(EventType)
      /\ pos[r] \in Nat /\ RankOK(r)
  BY DEF Inv, Typed
<1>2. PICK seen \in pos[r] .. Len(log) : \E t \in ToCancel(r, seen) :
        /\ pos' = [pos EXCEPT ![r] = seen]
        /\ told' = [told EXCEPT ![r] = @ \cup {t}]
        /\ \/ cancelPipe' = [cancelPipe EXCEPT ![r] = @ \cup {t}]
           \/ UNCHANGED cancelPipe
  BY DEF SendCancel
<1>3. PICK t \in ToCancel(r, seen) :
        /\ pos' = [pos EXCEPT ![r] = seen]
        /\ told' = [told EXCEPT ![r] = @ \cup {t}]
        /\ \/ cancelPipe' = [cancelPipe EXCEPT ![r] = @ \cup {t}]
           \/ UNCHANGED cancelPipe
  BY <1>2
<1>4. t \in Tasks /\ seen \in Nat /\ seen <= Len(log)
  <2>1. Len(log) \in Nat
    BY <1>1
  <2>2. seen \in 0 .. Len(log)
    BY <1>1, <2>1
  <2>3. t \in Cancelled(SubSeq(log, 1, seen))
    BY DEF ToCancel
  <2>4. Cancelled(SubSeq(log, 1, seen)) \subseteq Tasks
    BY <1>1, <2>2, EventsOf
  <2> QED BY <1>1, <2>1, <2>2, <2>3, <2>4
<1>5. PICK p : /\ cancelPipe' = [cancelPipe EXCEPT ![r] = p]
               /\ p \subseteq cancelPipe[r] \cup {t}
  <2>1. cancelPipe = [cancelPipe EXCEPT ![r] = cancelPipe[r]]
    BY DEF Inv, Typed
  <2> QED BY <1>3, <2>1
<1> USE DEF SendCancel
<1>6. p \in SUBSET Tasks
  BY <1>4, <1>5 DEF Inv, Typed
<1>7. Typed'
  BY <1>3, <1>4, <1>5, <1>6 DEF Inv, Typed
<1>8. ASSUME NEW u \in Ranks PROVE RankOK(u)'
  <2>1. RankOK(u)
    BY DEF Inv
  <2>2. CASE u # r
    <3>1. told'[u] = told[u] /\ cancelPipe'[u] = cancelPipe[u]
      BY <1>3, <1>5, <2>2 DEF Inv, Typed
    <3> QED BY <2>1, <3>1 DEF RankOK
  <2>3. CASE u = r
    <3>1. told'[u] = told[r] \cup {t} /\ cancelPipe'[u] = p
      BY <1>3, <1>5, <2>3 DEF Inv, Typed
    <3>2. WorkerOK(rk[r], started[r], told[r] \cup {t}, p, inbox[r])
      BY <1>1, <1>4, <1>5 DEF RankOK, WorkerOK
    <3>3. Kept(rk[r], told[r] \cup {t}, engine) /\ Stage(rk[r], told[r] \cup {t}, engine)
      BY <1>1, MoreTold DEF RankOK
    <3> QED BY <2>3, <3>1, <3>2, <3>3 DEF RankOK
  <2> QED BY <2>2, <2>3
<1>9. InTune'
  BY SettleFrame DEF Inv, InTune
<1> QED BY <1>7, <1>8, <1>9 DEF Inv

(* A work queue of one item, of which it is taken.                         *)
LEMMA TakenOut ==
  ASSUME NEW w \in Seq(Tasks), w # << >>, Len(w) <= 1
  PROVE  /\ Head(w) \in Tasks /\ Head(w) \in Range(w)
         /\ Tail(w) \in Seq(Tasks) /\ Len(Tail(w)) <= 1 /\ Range(Tail(w)) = {}
<1>1. /\ Head(w) \in Tasks /\ Head(w) \in Range(w) /\ Tail(w) \in Seq(Tasks)
      /\ Len(Tail(w)) = Len(w) - 1
  BY ElementsOfTail
<1>2. Len(w) # 0 /\ Len(w) \in Nat
  OBVIOUS
<1>3. Len(Tail(w)) = 0
  BY <1>1, <1>2
<1> DEFINE u == Tail(w)
<1> HIDE DEF u
<1>4. u \in Seq(Tasks) /\ Len(u) = 0
  BY <1>1, <1>3 DEF u
<1>5. u = << >>
  BY <1>4
<1>6. Range(u) = {}
  BY <1>4, <1>5, ElementsOfEmpty
<1> QED BY <1>1, <1>3, <1>6 DEF u

(* A runner takes its first task, ...                                      *)
LEMMA FirstTaskInv ==
  ASSUME Inv, NEW r \in Ranks, FirstTask(r)
  PROVE  Inv'
<1> DEFINE e == rk[r]
           t == Head(inbox[r])
           x == BeginStep(Submit(e, t))
<1>1. /\ engine \in Engines /\ inbox[r] \in Seq(Tasks) /\ inbox[r] # << >>
      /\ Kept(e, told[r], engine) /\ Stage(e, told[r], engine) /\ e.pc = "idle"
      /\ WorkerOK(e, started[r], told[r], cancelPipe[r], inbox[r])
  BY DEF Inv, Typed, RankOK, FirstTask, At
<1>2. /\ t \in Tasks /\ t \in Range(inbox[r]) /\ Tail(inbox[r]) \in Seq(Tasks)
      /\ Len(Tail(inbox[r])) <= 1 /\ Range(Tail(inbox[r])) = {}
  BY <1>1, TakenOut DEF WorkerOK
<1>3. t \in started[r] /\ t \notin e.all
  BY <1>1, <1>2 DEF WorkerOK
<1> HIDE DEF e, t
<1>4. /\ Kept(x, told[r], engine) /\ Stage(x, told[r], engine) /\ x.all = e.all \cup {t}
      /\ Met(Settle(x), Settle(e))
  BY <1>1, <1>2, <1>3, FirstTaskMet
<1> HIDE DEF x
<1>6. WorkerOK(x, started[r], told[r], cancelPipe[r], Tail(inbox[r]))
  BY <1>1, <1>2, <1>3, <1>4 DEF WorkerOK
<1>7. /\ rk' = [rk EXCEPT ![r] = x] /\ inbox' = [inbox EXCEPT ![r] = Tail(inbox[r])]
      /\ cancelPipe' = [cancelPipe EXCEPT ![r] = cancelPipe[r]] /\ Quiet
  BY DEF FirstTask, Inv, Typed, x, e, t
<1> QED BY <1>4, <1>6, <1>7, OneRank DEF e

(* ... collects its cancellations, ...                                     *)
LEMMA CollectInv ==
  ASSUME Inv, NEW r \in Ranks, Collect(r)
  PROVE  Inv'
<1> DEFINE e == rk[r]
           x == [CollectCancels(e, cancelPipe[r]) EXCEPT !.pc = "cancels"]
<1>1. /\ Kept(e, told[r], engine) /\ Stage(e, told[r], engine) /\ e.pc = "collect"
      /\ WorkerOK(e, started[r], told[r], cancelPipe[r], inbox[r])
  BY DEF Inv, RankOK, Collect, At
<1> HIDE DEF e
<1>2. cancelPipe[r] \subseteq told[r]
  BY <1>1 DEF WorkerOK
<1>3. Kept(x, told[r], engine) /\ Stage(x, told[r], engine) /\ x.all = e.all
  BY <1>1, <1>2, CollectKept
<1>4. Met(Settle(x), Settle(e))
  BY <1>1, CollectMet
<1> HIDE DEF x
<1>5. WorkerOK(x, started[r], told[r], {}, inbox[r])
  BY <1>1, <1>3 DEF WorkerOK
<1>6. /\ rk' = [rk EXCEPT ![r] = x] /\ inbox' = [inbox EXCEPT ![r] = inbox[r]]
      /\ cancelPipe' = [cancelPipe EXCEPT ![r] = {}] /\ Quiet
  BY DEF Collect, Inv, Typed, x, e
<1> QED BY <1>3, <1>4, <1>5, <1>6, OneRank DEF e

(* ... or comes to the end of a step.                                      *)
LEMMA EndStepInv ==
  ASSUME Inv, NEW r \in Ranks, EndStep(r)
  PROVE  Inv'
<1> DEFINE e == rk[r]
           v == inbox[r]
           d == Results(e, r)
           take == d.pc # "dead" /\ v # << >>
           s == IF take THEN Submit(d, Head(v)) ELSE d
           x == CASE d.pc = "dead" -> d
                  [] d.pc # "dead" /\ s.tasks = {} -> [s EXCEPT !.pc = "idle"]
                  [] OTHER -> BeginStep(s)
           w == IF take THEN Tail(v) ELSE v
<1>1. /\ rk' = [rk EXCEPT ![r] = x]
      /\ inbox' = IF take THEN [inbox EXCEPT ![r] = Tail(@)] ELSE inbox
      /\ UNCHANGED cancelPipe /\ Quiet
  BY DEF EndStep
<1>2. /\ engine \in Engines /\ v \in Seq(Tasks)
      /\ Kept(e, told[r], engine) /\ Stage(e, told[r], engine) /\ e.pc = "results"
      /\ WorkerOK(e, started[r], told[r], cancelPipe[r], v)
  BY DEF Inv, Typed, RankOK, EndStep, At
<1> HIDE DEF e, v
<1>3. Range(v) \cap e.all = {} /\ Range(v) \subseteq started[r]
  BY <1>2 DEF WorkerOK
<1>4. /\ Kept(x, told[r], engine) /\ Stage(x, told[r], engine) /\ Met(Settle(x), Settle(e))
      /\ x.all = IF take THEN e.all \cup {Head(v)} ELSE e.all
  BY <1>2, <1>3, EndStepMet
<1>5. take => v # << >>
  OBVIOUS
<1> HIDE DEF x, take
<1>6. WorkerOK(x, started[r], told[r], cancelPipe[r], w)
  <2>1. CASE ~take
    BY <1>2, <1>4, <2>1 DEF WorkerOK
  <2>2. CASE take
    <3>1. /\ Head(v) \in Range(v) /\ Tail(v) \in Seq(Tasks) /\ Len(Tail(v)) <= 1
          /\ Range(Tail(v)) = {}
      BY <1>2, <1>5, <2>2, TakenOut DEF WorkerOK
    <3> QED BY <1>2, <1>3, <1>4, <2>2, <3>1 DEF WorkerOK
  <2> QED BY <2>1, <2>2
<1>7. inbox' = [inbox EXCEPT ![r] = w] /\ cancelPipe' = [cancelPipe EXCEPT ![r] = cancelPipe[r]]
  BY <1>1 DEF Inv, Typed, v
<1> HIDE DEF w
<1> QED BY <1>1, <1>4, <1>6, <1>7, OneRank DEF e

(* All ranks go on from one collective to the next.                        *)
LEMMA TogetherAt ==
  ASSUME Inv, NEW pc \in Collectives, \A r \in Ranks : At(r, pc)
  PROVE  \A r, u \in Ranks : Same(rk[r], rk[u])
<1> SUFFICES ASSUME NEW r \in Ranks, NEW u \in Ranks PROVE Same(rk[r], rk[u])
  OBVIOUS
<1>1. rk[r].pc = pc /\ rk[u].pc = pc
  BY DEF At
<1>2. Settle(rk[r]) = rk[r] /\ Settle(rk[u]) = rk[u]
  BY <1>1, SettledThere
<1> QED BY <1>2 DEF Inv, InTune, Met

(* They agree on tasks, ...                                                *)
LEMMA JointAgreeInv ==
  ASSUME Inv, JointAgree
  PROVE  Inv'
<1> DEFINE a == Gathered([r \in Ranks |-> rk[r].mq])
           x(r) == AgreeOnTasks(rk[r], a)
<1>1. /\ \A r \in Ranks : rk[r].pc = "agree"
      /\ rk' = [r \in Ranks |-> AfterAgree(x(r))]
      /\ UNCHANGED <<inbox, cancelPipe>> /\ Quiet /\ engine \in Engines
  BY DEF JointAgree, At, Inv, Typed
<1>2. a \in Seq(Tasks) /\ Distinct(a) /\ \A r \in Ranks : Range(a) \subseteq rk[r].mq
  BY GatheredIs
<1> HIDE DEF a
<1>3. \A r, u \in Ranks : Same(rk[r], rk[u])
  BY <1>1, TogetherAt DEF At, Collectives
<1>4. ASSUME NEW r \in Ranks
      PROVE  /\ Kept(rk[r], told[r], engine) /\ Kept(x(r), told[r], engine)
             /\ Stage(x(r), told[r], engine) /\ x(r).pc = "agree" /\ x(r).all = rk[r].all
             /\ x(r).mode = "prefill" => x(r).left >= 1 /\ x(r).cur \in Tasks
  <2>1. Kept(rk[r], told[r], engine) /\ Stage(rk[r], told[r], engine)
    BY DEF Inv, RankOK
  <2>2. /\ Kept(x(r), told[r], engine) /\ Stage(x(r), told[r], engine)
        /\ x(r).pc = "agree" /\ x(r).all = rk[r].all
    BY <1>1, <1>2, <2>1, AgreeOnTasksKept
  <2> HIDE DEF x
  <2>3. x(r).order \in Seq(Tasks)
    BY <2>2 DEF Kept, RankType
  <2>4. Range(x(r).order) \subseteq Tasks
    BY <2>3, ElementsOfSeq
  <2>5. x(r).mode = "prefill" => x(r).left >= 1 /\ x(r).cur \in Range(x(r).order)
    BY <2>2 DEF Stage, PrefillOK, InCallback
  <2> QED BY <2>1, <2>2, <2>4, <2>5
<1>5. ASSUME NEW r \in Ranks, NEW u \in Ranks PROVE Same(x(r), x(u))
  <2>1. Same(rk[r], rk[u]) /\ rk[r] \in RankType /\ rk[u] \in RankType
    BY <1>3, <1>4 DEF Kept
  <2> QED BY <2>1 DEF Same, AgreeOnTasks, RankType
<1> HIDE DEF x
<1>6. ASSUME NEW r \in Ranks
      PROVE  Kept(AfterAgree(x(r)), told[r], engine) /\ Stage(AfterAgree(x(r)), told[r], engine)
  BY <1>1, <1>4, AfterAgreeKept
<1>7. ASSUME NEW r \in Ranks, NEW u \in Ranks
      PROVE  /\ Alike(AfterAgree(x(r)), AfterAgree(x(u)))
             /\ AfterAgree(x(r)).all = rk[r].all
  BY <1>1, <1>4, <1>5, AfterAgreeSame
<1>8. rk' \in [Ranks -> RankType] /\ \A r \in Ranks : rk'[r] = AfterAgree(x(r))
  BY <1>1, <1>6 DEF Kept
<1> QED BY <1>1, <1>6, <1>7, <1>8, AllRanks

(* ... on cancellations, ...                                               *)
LEMMA JointCancelInv ==
  ASSUME Inv, JointCancel
  PROVE  Inv'
<1> DEFINE a == Gathered([r \in Ranks |-> rk[r].mc])
           x(r) == AgreeOnCancels(rk[r], a)
<1>1. /\ \A r \in Ranks : rk[r].pc = "cancels"
      /\ rk' = [r \in Ranks |-> Callback(x(r))]
      /\ UNCHANGED <<inbox, cancelPipe>> /\ Quiet /\ engine \in Engines
  BY DEF JointCancel, At, Inv, Typed
<1>2. a \in Seq(Tasks) /\ Range(a) \subseteq Tasks
      /\ \A r \in Ranks : Range(a) \subseteq rk[r].mc
  BY GatheredIs, ElementsOfSeq
<1> HIDE DEF a
<1>3. \A r, u \in Ranks : Same(rk[r], rk[u])
  BY <1>1, TogetherAt DEF At, Collectives
<1>4. ASSUME NEW r \in Ranks
      PROVE  /\ Kept(Callback(x(r)), told[r], engine) /\ Stage(Callback(x(r)), told[r], engine)
             /\ rk[r] \in RankType
  <2>1. Kept(rk[r], told[r], engine) /\ Stage(rk[r], told[r], engine)
    BY DEF Inv, RankOK
  <2> QED BY <1>1, <1>2, <2>1, CancelsKept DEF Kept
<1>5. ASSUME NEW r \in Ranks PROVE x(r) \in RankType /\ x(r).all = rk[r].all
  <2>1. rk[r] \in RankType /\ Range(a) \subseteq rk[r].mc
    BY <1>2, <1>4
  <2>2. x(r) = [rk[r] EXCEPT !.canc = rk[r].canc \cup Range(a), !.mc = rk[r].mc \ Range(a)]
    BY DEF AgreeOnCancels
  <2> DEFINE canc == rk[r].canc \cup Range(a)
             mc == rk[r].mc \ Range(a)
  <2>3. canc \in SUBSET Tasks /\ mc \in SUBSET Tasks
    BY <2>1, <1>2 DEF RankType
  <2> HIDE DEF x, canc, mc
  <2>4. x(r) = [rk[r] EXCEPT !.canc = canc, !.mc = mc]
    BY <2>2 DEF canc, mc
  <2> QED BY <2>1, <2>3, <2>4 DEF RankType
<1>6. ASSUME NEW r \in Ranks, NEW u \in Ranks PROVE Same(x(r), x(u))
  <2>1. Same(rk[r], rk[u]) /\ rk[r] \in RankType /\ rk[u] \in RankType
    BY <1>3, <1>4
  <2> QED BY <2>1 DEF Same, AgreeOnCancels, RankType
<1> HIDE DEF x
<1>7. ASSUME NEW r \in Ranks, NEW u \in Ranks
      PROVE  Alike(Callback(x(r)), Callback(x(u))) /\ Callback(x(r)).all = rk[r].all
  BY <1>5, <1>6, CallbackSame
<1>8. rk' \in [Ranks -> RankType] /\ \A r \in Ranks : rk'[r] = Callback(x(r))
  BY <1>1, <1>4 DEF Kept
<1> QED BY <1>1, <1>4, <1>7, <1>8, AllRanks

(* ... and make a forward pass.                                            *)
LEMMA JointForwardInv ==
  ASSUME Inv, JointForward
  PROVE  Inv'
<1>1. /\ \A r \in Ranks : rk[r].pc = "forward"
      /\ UNCHANGED <<inbox, cancelPipe>> /\ Quiet /\ engine \in Engines
  BY DEF JointForward, At, Inv, Typed
<1>2. \A r, u \in Ranks : Same(rk[r], rk[u])
  BY <1>1, TogetherAt DEF At, Collectives
<1>3. \A r \in Ranks : /\ Kept(rk[r], told[r], engine) /\ Stage(rk[r], told[r], engine)
                       /\ rk[r] \in RankType
  BY DEF Inv, RankOK, Kept
<1>4. CASE engine = "batch"
  <2>1. \E fin, stop : rk' = [r \in Ranks |-> BatchForward(rk[r], fin, stop)]
    BY <1>4 DEF JointForward
  <2>2. PICK fin, stop : rk' = [r \in Ranks |-> BatchForward(rk[r], fin, stop)]
    BY <2>1
  <2> DEFINE y(r) == BatchForward(rk[r], fin, stop)
  <2>3. ASSUME NEW r \in Ranks
        PROVE  Kept(y(r), told[r], engine) /\ Stage(y(r), told[r], engine)
    BY <1>1, <1>3, <1>4, BatchForwardKept
  <2>4. ASSUME NEW r \in Ranks, NEW u \in Ranks PROVE Alike(y(r), y(u)) /\ y(r).all = rk[r].all
    BY <1>2, <1>3, BatchForwardSame
  <2> HIDE DEF y
  <2>5. rk' \in [Ranks -> RankType] /\ \A r \in Ranks : rk'[r] = y(r)
    BY <2>2, <2>3 DEF Kept, y
  <2> QED BY <1>1, <2>3, <2>4, <2>5, AllRanks
<1>5. CASE engine # "batch"
  <2>1. engine = "sequential"
    BY <1>1, <1>5, AgreementConstants
  <2>2. PICK over \in BOOLEAN : rk' = [r \in Ranks |-> SequentialForward(rk[r], over)]
    BY <1>5 DEF JointForward
  <2> DEFINE y(r) == SequentialForward(rk[r], over)
  <2>3. ASSUME NEW r \in Ranks
        PROVE  Kept(y(r), told[r], engine) /\ Stage(y(r), told[r], engine)
    BY <1>1, <1>3, <2>1, SequentialForwardKept
  <2>4. ASSUME NEW r \in Ranks, NEW u \in Ranks PROVE Alike(y(r), y(u)) /\ y(r).all = rk[r].all
    BY <1>2, <1>3, SequentialForwardSame
  <2> HIDE DEF y
  <2>5. rk' \in [Ranks -> RankType] /\ \A r \in Ranks : rk'[r] = y(r)
    BY <2>2, <2>3 DEF Kept, y
  <2> QED BY <1>1, <2>3, <2>4, <2>5, AllRanks
<1> QED BY <1>4, <1>5

(* Every step keeps the invariant.                                         *)
LEMMA NextInv == Inv /\ [Next]_vars => Inv'
<1> SUFFICES ASSUME Inv, [Next]_vars PROVE Inv'
  OBVIOUS
<1>1. CASE \E t \in Tasks : CreateTask(t) \/ CancelTask(t)
  <2>1. PICK t \in Tasks : CreateTask(t) \/ CancelTask(t)
    BY <1>1
  <2>2. CASE CreateTask(t)
    BY <2>2, LogGrows DEF CreateTask
  <2>3. CASE CancelTask(t)
    BY <2>3, LogGrows DEF CancelTask
  <2> QED BY <2>1, <2>2, <2>3
<1>2. ASSUME NEW r \in Ranks, StartTask(r) PROVE Inv'
  BY <1>2, StartTaskInv
<1>3. ASSUME NEW r \in Ranks, SendCancel(r) PROVE Inv'
  BY <1>3, SendCancelInv
<1>4. ASSUME NEW r \in Ranks, FirstTask(r) PROVE Inv'
  BY <1>4, FirstTaskInv
<1>5. ASSUME NEW r \in Ranks, Collect(r) PROVE Inv'
  BY <1>5, CollectInv
<1>6. ASSUME NEW r \in Ranks, EndStep(r) PROVE Inv'
  BY <1>6, EndStepInv
<1>7. CASE JointAgree
  BY <1>7, JointAgreeInv
<1>8. CASE JointCancel
  BY <1>8, JointCancelInv
<1>9. CASE JointForward
  BY <1>9, JointForwardInv
<1>10. CASE UNCHANGED vars
  <2> USE <1>10 DEF vars
  <2>1. Typed'
    BY DEF Inv, Typed
  <2>2. ASSUME NEW r \in Ranks PROVE RankOK(r)'
    BY DEF Inv, RankOK
  <2>3. InTune'
    BY SettleFrame DEF Inv, InTune
  <2> QED BY <2>1, <2>2, <2>3 DEF Inv
<1> QED BY <1>1, <1>2, <1>3, <1>4, <1>5, <1>6, <1>7, <1>8, <1>9, <1>10 DEF Next

-----------------------------------------------------------------------------
(* What the invariant says.                                                *)

(* A rank starts at most one task before it stands at a collective.        *)
LEMMA SettleOrder ==
  ASSUME NEW e, NEW c, engine \in Engines, Kept(e, c, engine), Stage(e, c, engine)
  PROVE  \/ Settle(e).order = e.order
         \/ \E t \in Tasks : Settle(e).order = Append(e.order, t)
<1>1. ASSUME NEW x, Kept(x, c, engine)
      PROVE  \/ BeginStep(x).order = x.order
             \/ \E t \in Tasks : BeginStep(x).order = Append(x.order, t)
  <2> DEFINE y == [x EXCEPT !.mode = "start"]
             b == IF engine = "batch" THEN x.q ELSE x.act
  <2>1. x \in RankType /\ engine \in {"batch", "sequential"} /\ x.q \in Seq(Tasks)
    BY <1>1, AgreementConstants DEF Kept, RankType
  <2>2. y \in RankType /\ y.order = x.order /\ y.q = x.q /\ y.act = x.act
    BY <2>1 DEF RankType
  <2>3. CASE b = << >>
    <3>1. BeginStep(x) = [x EXCEPT !.mode = "start", !.pc = "agree"]
      BY <2>3 DEF BeginStep
    <3> QED BY <2>1, <3>1 DEF RankType
  <2>4. CASE b # << >>
    <3>1. BeginStep(x) = Step(y)
      BY <2>4 DEF BeginStep
    <3> HIDE DEF y
    <3>2. CASE engine = "batch"
      <4>1. x.q # << >>
        BY <2>4, <3>2
      <4>2. Head(x.q) \in Tasks
        BY <2>1, <4>1, ElementsOfTail
      <4>3. Step(y) = BatchStep(y)
        BY <3>2 DEF Step
      <4>4. Prefill(Pop(y), Head(y.q)).order = Append(y.order, Head(y.q))
        BY <2>2 DEF Prefill, Pop, RankType
      <4>5. \A z : [y EXCEPT !.pc = z].order = y.order
        BY <2>2 DEF RankType
      <4> QED BY <2>2, <3>1, <4>2, <4>3, <4>4, <4>5 DEF BatchStep
    <3>3. CASE engine = "sequential"
      <4>1. y.act # << >>
        BY <2>2, <2>4, <3>3
      <4>2. Step(y) = IF y.made[y.act[1]] = 0 THEN Prefill(y, y.act[1])
                                             ELSE [y EXCEPT !.pc = "forward"]
        BY <3>3, <4>1 DEF Step, SequentialStep
      <4>3. Prefill(y, y.act[1]).order = y.order /\ [y EXCEPT !.pc = "forward"].order = y.order
        BY <2>2 DEF Prefill, RankType
      <4> QED BY <2>2, <3>1, <4>2, <4>3
    <3> QED BY <2>1, <3>2, <3>3
  <2> QED BY <2>3, <2>4
<1>2. CASE e.pc \in {"results", "dead"}
  <2>1. Kept(Results(e, 1), c, engine)
    BY <1>2, ResultsKept
  <2>2. Results(e, 1).order = e.order
    BY DEF Kept, Results, ApplyCancellations, RankType
  <2>3. Settle(e) = BeginStep(Results(e, 1))
    BY <1>2 DEF Settle
  <2> QED BY <1>1, <2>1, <2>2, <2>3
<1>3. CASE e.pc = "idle"
  BY <1>1, <1>3 DEF Settle
<1>4. CASE e.pc \notin {"results", "dead", "idle"}
  BY <1>4 DEF Settle
<1> QED BY <1>2, <1>3, <1>4

(* A sequence is a prefix of itself and of what it is extended to.         *)
LEMMA PrefixOf ==
  ASSUME NEW T, NEW s \in Seq(T), NEW t \in T
  PROVE  IsPrefix(s, s) /\ IsPrefix(s, Append(s, t))
<1> DEFINE a == Append(s, t)
<1>1. /\ Len(s) \in Nat /\ Len(a) = Len(s) + 1 /\ a \in Seq(T)
      /\ \A i \in 1 .. Len(s) : a[i] = s[i]
  OBVIOUS
<1> HIDE DEF a
<1>2. SubSeq(s, 1, Len(s)) = SubSeq(a, 1, Len(s))
  BY <1>1
<1> QED BY <1>1, <1>2 DEF IsPrefix, a

(* What was extended to the same was the same.                             *)
LEMMA SameBefore ==
  ASSUME NEW T, NEW s \in Seq(T), NEW u \in Seq(T), NEW t \in T, NEW v \in T,
         Append(s, t) = Append(u, v)
  PROVE  s = u
<1> DEFINE a == Append(s, t)
           b == Append(u, v)
<1>1. /\ Len(a) = Len(s) + 1 /\ Len(s) \in Nat /\ \A i \in 1 .. Len(s) : a[i] = s[i]
      /\ Len(b) = Len(u) + 1 /\ Len(u) \in Nat /\ \A i \in 1 .. Len(u) : b[i] = u[i]
  OBVIOUS
<1>2. a = b
  OBVIOUS
<1> HIDE DEF a, b
<1>3. Len(s) = Len(u) /\ \A i \in 1 .. Len(s) : s[i] = u[i]
  BY <1>1, <1>2
<1> QED BY <1>3

(* The ranks agree.                                                        *)
LEMMA InvAgreed == Inv => Agreed
<1> SUFFICES ASSUME Inv PROVE Agreed
  OBVIOUS
<1>1. engine \in Engines
  BY DEF Inv, Typed
<1>2. ASSUME NEW r \in Ranks
      PROVE  /\ WorkerOK(rk[r], started[r], told[r], cancelPipe[r], inbox[r])
             /\ Kept(rk[r], told[r], engine) /\ Stage(rk[r], told[r], engine)
             /\ rk[r].order \in Seq(Tasks) /\ rk[r] \in RankType /\ Books(rk[r])
  BY DEF Inv, RankOK, Kept, RankType
<1>3. TypeOK
  <2>1. ASSUME NEW r \in Ranks
        PROVE  /\ pos[r] \in 0 .. Len(log) /\ Len(inbox[r]) <= 1
               /\ started[r] \subseteq Tasks /\ told[r] \subseteq Tasks
               /\ cancelPipe[r] \subseteq Tasks
               /\ rk[r].mq \cup rk[r].mc \cup rk[r].tasks \subseteq rk[r].all
               /\ rk[r].all \subseteq started[r]
               /\ rk[r].pc \in Collectives \cup {"idle", "collect", "results", "dead"}
    <3>1. pos[r] \in 0 .. Len(log)
      BY DEF Inv, Typed
    <3>2. rk[r].pc \in Collectives \cup {"idle", "collect", "results", "dead"}
      BY <1>2 DEF RankType
    <3>3. rk[r].mq \cup rk[r].mc \cup rk[r].tasks \subseteq rk[r].all
      BY <1>2 DEF Books
    <3> QED BY <1>2, <3>1, <3>2, <3>3 DEF WorkerOK
  <2> QED BY <1>1, <2>1 DEF TypeOK
<1>4. SameCollective
  <2> SUFFICES ASSUME \A u \in Ranks : rk[u].pc \in Collectives, NEW r \in Ranks
               PROVE  Standing(r) = Standing(0)
    BY DEF SameCollective
  <2>1. 0 \in Ranks
    BY AgreementConstants DEF Ranks
  <2>2. Met(rk[r], rk[0]) /\ Point(rk[r].pc) = rk[r].pc /\ Point(rk[0].pc) = rk[0].pc
    BY <2>1, SettledThere DEF Inv, InTune
  <2> QED BY <2>2 DEF Met, Same, Standing
<1>5. SameOrder
  <2> SUFFICES ASSUME NEW r \in Ranks, NEW u \in Ranks
               PROVE  \/ IsPrefix(rk[r].order, rk[u].order)
                      \/ IsPrefix(rk[u].order, rk[r].order)
    BY DEF SameOrder
  <2> DEFINE s == rk[r].order
             v == rk[u].order
             a == Settle(rk[r]).order
             b == Settle(rk[u]).order
  <2>1. a = s \/ \E t \in Tasks : a = Append(s, t)
    BY <1>1, <1>2, SettleOrder
  <2>2. b = v \/ \E t \in Tasks : b = Append(v, t)
    BY <1>1, <1>2, SettleOrder
  <2>3. a = b
    BY DEF Inv, InTune, Met, Same
  <2>4. s \in Seq(Tasks) /\ v \in Seq(Tasks)
    BY <1>2
  <2> HIDE DEF s, v, a, b
  <2>5. ASSUME NEW w \in Seq(Tasks) PROVE IsPrefix(w, w)
    BY DEF IsPrefix
  <2>6. ASSUME NEW w \in Seq(Tasks), NEW t \in Tasks PROVE IsPrefix(w, Append(w, t))
    BY PrefixOf
  <2>7. CASE a = s /\ b = v
    BY <2>3, <2>4, <2>5, <2>7 DEF s, v
  <2>8. CASE a = s /\ \E t \in Tasks : b = Append(v, t)
    BY <2>3, <2>4, <2>6, <2>8 DEF s, v
  <2>9. CASE b = v /\ \E t \in Tasks : a = Append(s, t)
    BY <2>3, <2>4, <2>6, <2>9 DEF s, v
  <2>10. CASE (\E t \in Tasks : a = Append(s, t)) /\ (\E t \in Tasks : b = Append(v, t))
    <3>1. PICK t \in Tasks : a = Append(s, t)
      BY <2>10
    <3>2. PICK x \in Tasks : b = Append(v, x)
      BY <2>10
    <3>3. Append(s, t) = Append(v, x)
      BY <2>3, <3>1, <3>2
    <3>4. s = v
      BY <2>4, <3>3, SameBefore
    <3> QED BY <2>4, <2>5, <3>4 DEF s, v
  <2> QED BY <2>1, <2>2, <2>7, <2>8, <2>9, <2>10
<1>6. OnlyCancelledLost
  BY <1>2 DEF OnlyCancelledLost, Stage, ChunksOK
<1> QED BY <1>3, <1>4, <1>5, <1>6 DEF Agreed

(* Whenever all ranks wait in a collective operation it is the same one,   *)
(* over the same sequences; they start the same tasks in the same order,   *)
(* which agree_on_tasks is for; and the runner fails to find the task of a *)
(* chunk for a cancelled task only.                                        *)
THEOREM RanksAgree == AgreementSpec => []Agreed
<1>1. Init => Inv
  BY InitInv
<1>2. Inv /\ [Next]_vars => Inv'
  BY NextInv
<1>3. Inv => Agreed
  BY InvAgreed
<1> QED BY <1>1, <1>2, <1>3, PTL DEF AgreementSpec

-----------------------------------------------------------------------------
(* The passes of a pipeline.                                               *)

OpNames == {"prefill", "barrier", "queue_sends", "clear", "recv", "compute", "send", "gather",
            "callback", "flush", "decode"}
PipeOps == [op : OpNames, at : Nat]
Passes == Nat \X Nat
Orders == [id : Nat, long : BOOLEAN, chunks : Nat, tokens : Nat, cancelled : BOOLEAN]

(* In every round the operations come in this order.                       *)
Place(o) == CASE o = "prefill" -> 1 [] o = "barrier" -> 2 [] o = "queue_sends" -> 3
              [] o = "clear" -> 4 [] o = "recv" -> 5 [] o = "compute" -> 6 [] o = "send" -> 7
              [] o = "gather" -> 8 [] o = "callback" -> 9 [] o = "flush" -> 10
              [] o = "decode" -> 11
OpsIn(s) == {s[i].op : i \in 1 .. Len(s)}
InOrder(s) == \A i, j \in 1 .. Len(s) : i < j => Place(s[i].op) < Place(s[j].op)

(* The rounds of an order that have a pass, and the passes before a round. *)
AllRounds(q) == PrefillRounds(q) + q.tokens
HasPass(r, q, c) ==
  \/ PrefillRounds(q) < c /\ c <= AllRounds(q)
  \/ q.long /\ 1 <= c - r /\ c - r <= q.chunks
  \/ q.long /\ (c = PrefillRounds(q) - 1 \/ c = PrefillRounds(q))
  \/ ~q.long /\ 1 <= c /\ c <= 3
Before(r, q, c) ==
  IF c > PrefillRounds(q) THEN q.chunks + 1 + c - PrefillRounds(q)
  ELSE IF c = PrefillRounds(q) THEN q.chunks + 1
  ELSE IF ~q.long THEN IF c = 0 THEN 0 ELSE c - 1
  ELSE IF c <= r THEN 0 ELSE IF c - r - 1 <= q.chunks THEN c - r - 1 ELSE q.chunks

(* The operations of a round.                                              *)
CallsIn(q, c) ==
  IF q.long THEN 1 <= c /\ c <= PrefillRounds(q) - 2 ELSE c = 0 \/ c = 1 \/ c = 3
Has(o, r, q, c) ==
  \/ (o = "compute" \/ o = "gather") /\ HasPass(r, q, c)
  \/ o = "recv" /\ HasPass(r, q, c) /\ r # 0
  \/ o = "send" /\ HasPass(r, q, c) /\ r # LastStage
  \/ (o = "prefill" \/ o = "barrier") /\ c = 0
  \/ o = "queue_sends" /\ q.long /\ c = 0
  \/ o = "clear" /\ q.long /\ (c = 0 \/ c = PrefillRounds(q) - 1)
  \/ o = "callback" /\ CallsIn(q, c)
  \/ o = "flush" /\ q.long /\ HasPass(r, q, c) /\ c <= PrefillRounds(q)
  \/ o = "decode" /\ c = PrefillRounds(q)

(* The position of the p-th pass.                                          *)
PosOf(q, p) == IF p <= q.chunks + 2 THEN p ELSE p - 2

OrderOK(q) == q \in Orders /\ q.chunks # 0 /\ (~q.long => q.chunks = 1)

-----------------------------------------------------------------------------
(* s has the operations in S, in their order, and computes pass at.        *)
Made(s, S, at) ==
  /\ s \in Seq(PipeOps) /\ InOrder(s) /\ OpsIn(s) = S
  /\ \A i \in 1 .. Len(s) : s[i].op = "compute" => s[i].at = at

(* What is put together from a pass and single operations.                 *)
LEMMA MadeEmpty ==
  ASSUME NEW at \in Nat
  PROVE  Made(<< >>, {}, at)
BY DEF Made, InOrder, OpsIn

LEMMA MadeOne ==
  ASSUME NEW at \in Nat, NEW o \in OpNames, NEW k \in Nat, o = "compute" => k = at
  PROVE  Made(<<Op(o, k)>>, {o}, at)
<1> DEFINE s == <<Op(o, k)>>
<1>1. Op(o, k) \in PipeOps /\ Op(o, k).op = o /\ Op(o, k).at = k
  BY DEF Op, PipeOps
<1>2. s \in Seq(PipeOps) /\ Len(s) = 1 /\ s[1] = Op(o, k)
  BY <1>1
<1>3. \A i \in 1 .. Len(s) : i = 1
  BY <1>2
<1>4. OpsIn(s) = {o}
  BY <1>1, <1>2, <1>3 DEF OpsIn
<1> HIDE DEF s
<1>5. Made(s, {o}, at)
  BY <1>1, <1>2, <1>3, <1>4 DEF Made, InOrder
<1> QED BY <1>5 DEF s

LEMMA MadeJoined ==
  ASSUME NEW at \in Nat, NEW s, NEW t, NEW S \in SUBSET OpNames, NEW T \in SUBSET OpNames,
         Made(s, S, at), Made(t, T, at), \A x \in S, y \in T : Place(x) < Place(y)
  PROVE  Made(s \o t, S \cup T, at)
<1> DEFINE w == s \o t  m == Len(s)  n == Len(t)
<1>1. s \in Seq(PipeOps) /\ t \in Seq(PipeOps) /\ InOrder(s) /\ InOrder(t)
      /\ OpsIn(s) = S /\ OpsIn(t) = T
  BY DEF Made
<1>2. /\ w \in Seq(PipeOps) /\ m \in Nat /\ n \in Nat /\ Len(w) = m + n
      /\ \A i \in 1 .. m : w[i] = s[i]
      /\ \A i \in 1 .. n : w[m + i] = t[i]
  BY <1>1
<1>3. \A i \in 1 .. m + n : i \in 1 .. m \/ (i - m \in 1 .. n /\ w[i] = t[i - m])
  <2> SUFFICES ASSUME NEW i \in 1 .. m + n, i \notin 1 .. m
               PROVE  i - m \in 1 .. n /\ w[i] = t[i - m]
    OBVIOUS
  <2>1. i - m \in 1 .. n /\ i = m + (i - m)
    BY <1>2
  <2> QED BY <2>1, <1>2
<1>4. /\ \A i \in 1 .. m : s[i].op \in S
      /\ \A i \in 1 .. n : t[i].op \in T
  BY <1>1 DEF OpsIn
<1> HIDE DEF w, m, n
<1>5. OpsIn(w) = S \cup T
  <2>1. ASSUME NEW o \in OpsIn(w) PROVE o \in S \cup T
    <3>1. PICK i \in 1 .. m + n : o = w[i].op
      BY <1>2, <2>1 DEF OpsIn
    <3> QED BY <1>2, <1>3, <1>4, <3>1
  <2>2. ASSUME NEW o \in S PROVE o \in OpsIn(w)
    <3>1. PICK i \in 1 .. m : o = s[i].op
      BY <1>1, <2>2 DEF OpsIn, m
    <3>2. i \in 1 .. Len(w) /\ w[i].op = o
      BY <1>2, <3>1
    <3> QED BY <3>2 DEF OpsIn
  <2>3. ASSUME NEW o \in T PROVE o \in OpsIn(w)
    <3>1. PICK i \in 1 .. n : o = t[i].op
      BY <1>1, <2>3 DEF OpsIn, n
    <3>2. m + i \in 1 .. Len(w) /\ w[m + i].op = o
      BY <1>2, <3>1
    <3> QED BY <3>2 DEF OpsIn
  <2> QED BY <2>1, <2>2, <2>3
<1>6. InOrder(w)
  <2> SUFFICES ASSUME NEW i \in 1 .. m + n, NEW j \in 1 .. m + n, i < j
               PROVE  Place(w[i].op) < Place(w[j].op)
    BY <1>2 DEF InOrder
  <2>1. CASE i \in 1 .. m /\ j \in 1 .. m
    BY <1>1, <1>2, <2>1 DEF InOrder, m
  <2>2. CASE i \in 1 .. m /\ j \notin 1 .. m
    BY <1>2, <1>3, <1>4, <2>2
  <2>3. CASE i \notin 1 .. m
    <3>1. i - m \in 1 .. n /\ j - m \in 1 .. n /\ i - m < j - m
      BY <1>2, <1>3, <2>3
    <3>2. w[i] = t[i - m] /\ w[j] = t[j - m]
      BY <1>2, <1>3, <2>3
    <3> QED BY <1>1, <3>1, <3>2 DEF InOrder, n
  <2> QED BY <2>1, <2>2, <2>3
<1>7. \A i \in 1 .. m + n : w[i].op = "compute" => w[i].at = at
  <2>1. /\ \A i \in 1 .. m : s[i].op = "compute" => s[i].at = at
        /\ \A i \in 1 .. n : t[i].op = "compute" => t[i].at = at
    BY DEF Made, m, n
  <2> SUFFICES ASSUME NEW i \in 1 .. m + n, w[i].op = "compute"
               PROVE  w[i].at = at
    OBVIOUS
  <2>2. CASE i \in 1 .. m
    BY <1>2, <2>1, <2>2
  <2>3. CASE i \notin 1 .. m
    <3>1. i - m \in 1 .. n /\ w[i] = t[i - m]
      BY <1>3, <2>3
    <3> QED BY <2>1, <3>1
  <2> QED BY <2>2, <2>3
<1>8. Made(w, S \cup T, at)
  BY <1>2, <1>5, <1>6, <1>7 DEF Made
<1> QED BY <1>8 DEF w

LEMMA MadeTwo ==
  ASSUME NEW at \in Nat, NEW o \in OpNames, NEW u \in OpNames, NEW k \in Nat, NEW l \in Nat,
         o # "compute", u # "compute", Place(o) < Place(u)
  PROVE  Made(<<Op(o, k), Op(u, l)>>, {o, u}, at)
<1> DEFINE s == <<Op(o, k), Op(u, l)>>
<1>1. /\ Op(o, k) \in PipeOps /\ Op(o, k).op = o
      /\ Op(u, l) \in PipeOps /\ Op(u, l).op = u
  BY DEF Op, PipeOps
<1>2. s \in Seq(PipeOps) /\ Len(s) = 2 /\ s[1] = Op(o, k) /\ s[2] = Op(u, l)
  BY <1>1
<1>3. \A i \in 1 .. Len(s) : i = 1 \/ i = 2
  BY <1>2
<1> HIDE DEF s
<1>4. OpsIn(s) = {o, u}
  BY <1>1, <1>2, <1>3 DEF OpsIn
<1>5. Made(s, {o, u}, at)
  BY <1>1, <1>2, <1>3, <1>4 DEF Made, InOrder
<1> QED BY <1>5 DEF s

PassSet(r) ==
  (IF r = 0 THEN {} ELSE {"recv"}) \cup {"compute"}
  \cup (IF r = LastStage THEN {} ELSE {"send"}) \cup {"gather"}

LEMMA PassMade ==
  ASSUME NEW r \in PipeRanks, NEW at \in Nat
  PROVE  Made(Pass(r, at), PassSet(r), at) /\ PassSet(r) \subseteq OpNames
<1> DEFINE A == IF r = 0 THEN << >> ELSE <<Op("recv", at)>>
           SA == IF r = 0 THEN {} ELSE {"recv"}
           C == IF r = LastStage THEN << >> ELSE <<Op("send", at)>>
           SC == IF r = LastStage THEN {} ELSE {"send"}
<1>1. Made(A, SA, at) /\ SA \subseteq {"recv"} /\ SA \subseteq OpNames
  BY MadeEmpty, MadeOne DEF OpNames
<1>2. Made(C, SC, at) /\ SC \subseteq {"send"} /\ SC \subseteq OpNames
  BY MadeEmpty, MadeOne DEF OpNames
<1>3. Made(<<Op("compute", at)>>, {"compute"}, at) /\ Made(<<Op("gather", at)>>, {"gather"}, at)
  BY MadeOne DEF OpNames
<1>4. Pass(r, at) = A \o <<Op("compute", at)>> \o C \o <<Op("gather", at)>>
      /\ PassSet(r) = SA \cup {"compute"} \cup SC \cup {"gather"}
  BY DEF Pass, PassSet
<1> HIDE DEF A, SA, C, SC
<1>5. \A x \in SA, y \in {"compute"} : Place(x) < Place(y)
  BY <1>1 DEF Place
<1>6. Made(A \o <<Op("compute", at)>>, SA \cup {"compute"}, at)
      /\ SA \cup {"compute"} \subseteq OpNames
  BY <1>1, <1>3, <1>5, MadeJoined DEF OpNames
<1>7. \A x \in SA \cup {"compute"}, y \in SC : Place(x) < Place(y)
  BY <1>1, <1>2 DEF Place
<1>8. Made(A \o <<Op("compute", at)>> \o C, SA \cup {"compute"} \cup SC, at)
      /\ SA \cup {"compute"} \cup SC \subseteq OpNames
  BY <1>2, <1>6, <1>7, MadeJoined
<1>9. \A x \in SA \cup {"compute"} \cup SC, y \in {"gather"} : Place(x) < Place(y)
  BY <1>1, <1>2 DEF Place
<1>10. Made(A \o <<Op("compute", at)>> \o C \o <<Op("gather", at)>>,
            SA \cup {"compute"} \cup SC \cup {"gather"}, at)
       /\ SA \cup {"compute"} \cup SC \cup {"gather"} \subseteq OpNames
  BY <1>3, <1>8, <1>9, MadeJoined DEF OpNames
<1> QED BY <1>4, <1>10

(* A pass with operations S before it and T behind it.                     *)
LEMMA MadeAround ==
  ASSUME NEW r \in PipeRanks, NEW at \in Nat, NEW t, NEW T \in SUBSET OpNames,
         Made(t, T, at), \A y \in T : Place(y) > 8
  PROVE  Made(Pass(r, at) \o t, PassSet(r) \cup T, at)
<1>1. Made(Pass(r, at), PassSet(r), at) /\ PassSet(r) \in SUBSET OpNames
  BY PassMade
<1>2. \A x \in PassSet(r) : Place(x) <= 8
  BY DEF PassSet, Place
<1>3. \A x \in PassSet(r), y \in T : Place(x) < Place(y)
  <2>1. \A x \in OpNames : Place(x) \in Nat
    BY DEF OpNames, Place
  <2> QED BY <1>1, <1>2, <2>1
<1> QED BY <1>1, <1>3, MadeJoined

LEMMA MadeSome ==
  ASSUME NEW s, NEW S, NEW at, Made(s, S, at), NEW x \in S
  PROVE  s # << >>
<1>1. PICK i \in 1 .. Len(s) : x = s[i].op
  BY DEF Made, OpsIn
<1> QED BY <1>1

-----------------------------------------------------------------------------
(* Rounds.                                                                 *)

(* The ranks, and the numbers of an order.                                 *)
LEMMA RanksAre ==
  /\ WorldSize \in Nat \ {0} /\ LastStage \in Nat /\ LastStage = WorldSize - 1
  /\ \A r \in PipeRanks : r \in Nat /\ r <= LastStage
  /\ LastStage \in PipeRanks /\ 0 \in PipeRanks
  /\ \A r \in PipeRanks : r # LastStage => r + 1 \in PipeRanks
BY PipelineAssumption DEF LastStage, PipeRanks

LEMMA OrderIs ==
  ASSUME NEW q, OrderOK(q)
  PROVE  /\ q.long \in BOOLEAN /\ q.chunks \in Nat /\ q.chunks >= 1 /\ q.tokens \in Nat
         /\ q.id \in Nat /\ (~q.long => q.chunks = 1)
         /\ PrefillRounds(q) \in Nat /\ AllRounds(q) \in Nat /\ PrefillRounds(q) >= 3
         /\ PrefillRounds(q) = IF q.long THEN q.chunks + LastStage + 2 ELSE 3
         /\ AllRounds(q) = PrefillRounds(q) + q.tokens
<1>1. q \in Orders
  BY DEF OrderOK
<1>2. q.long \in BOOLEAN /\ q.chunks \in Nat /\ q.tokens \in Nat /\ q.id \in Nat
  BY <1>1 DEF Orders
<1>3. q.chunks >= 1 /\ (~q.long => q.chunks = 1)
  BY <1>2 DEF OrderOK
<1>4. PrefillRounds(q) = IF q.long THEN q.chunks + LastStage + 2 ELSE 3
  BY <1>2, RanksAre DEF PrefillRounds
<1> QED BY <1>2, <1>3, <1>4, RanksAre DEF AllRounds

(* A round with a pass is one pass more.                                   *)
LEMMA BeforeStep ==
  ASSUME NEW q, OrderOK(q), NEW r \in PipeRanks, NEW c \in 0 .. AllRounds(q)
  PROVE  /\ Before(r, q, c) \in Nat
         /\ Before(r, q, c + 1) = Before(r, q, c) + (IF HasPass(r, q, c) THEN 1 ELSE 0)
<1> DEFINE K == PrefillRounds(q)
<1>1. c \in Nat /\ c <= K + q.tokens
  BY OrderIs
<1>2. CASE ~q.long
  BY <1>1, <1>2, OrderIs, RanksAre DEF Before, HasPass
<1>3. CASE q.long
  BY <1>1, <1>3, OrderIs, RanksAre DEF Before, HasPass
<1> QED BY <1>2, <1>3, OrderIs

(* Every round has the operations that Has names.                          *)
LEMMA RoundMade ==
  ASSUME NEW q, OrderOK(q), NEW r \in PipeRanks, NEW c \in 0 .. AllRounds(q) + 1
  PROVE  /\ Made(RoundOf(r, q, c), {o \in OpNames : Has(o, r, q, c)},
                 PosOf(q, Before(r, q, c) + 1))
         /\ RoundOf(r, q, c) = << >> <=> c = AllRounds(q) + 1
<1> DEFINE K == PrefillRounds(q)  N == q.chunks
           at == PosOf(q, Before(r, q, c) + 1)
           S == {o \in OpNames : Has(o, r, q, c)}
<1>1. /\ c \in Nat /\ r \in Nat /\ r <= LastStage /\ LastStage \in Nat
      /\ N \in Nat /\ N >= 1 /\ q.tokens \in Nat /\ K \in Nat /\ K >= 3
      /\ q.long \in BOOLEAN /\ (~q.long => N = 1)
      /\ K = (IF q.long THEN N + LastStage + 2 ELSE 3) /\ c <= K + q.tokens + 1
      /\ AllRounds(q) = K + q.tokens
  BY OrderIs, RanksAre
<1>2. at \in Nat
  BY <1>1 DEF PosOf, Before
<1> SUFFICES /\ Made(RoundOf(r, q, c), S, at)
             /\ RoundOf(r, q, c) = << >> <=> c = AllRounds(q) + 1
  OBVIOUS
<1> HIDE DEF at, S
<1>10. c <= K => c # AllRounds(q) + 1
  BY <1>1
<1>3. CASE c = 0
  <2>1. CASE q.long
    <3>1. RoundOf(r, q, c) = <<Op("prefill", 0), Op("barrier", 0)>>
                             \o <<Op("queue_sends", 0), Op("clear", 0)>>
      BY <1>1, <1>3, <2>1 DEF RoundOf, PrefillRound
    <3>2. Made(<<Op("prefill", 0), Op("barrier", 0)>>, {"prefill", "barrier"}, at)
      BY <1>2, MadeTwo DEF OpNames, Place
    <3>3. Made(<<Op("queue_sends", 0), Op("clear", 0)>>, {"queue_sends", "clear"}, at)
      BY <1>2, MadeTwo DEF OpNames, Place
    <3>4. \A x \in {"prefill", "barrier"}, y \in {"queue_sends", "clear"} : Place(x) < Place(y)
      BY DEF Place
    <3>5. Made(RoundOf(r, q, c), {"prefill", "barrier"} \cup {"queue_sends", "clear"}, at)
      BY <1>2, <3>1, <3>2, <3>3, <3>4, MadeJoined DEF OpNames
    <3>6. S = {"prefill", "barrier"} \cup {"queue_sends", "clear"}
      BY <1>1, <1>3, <2>1 DEF Has, HasPass, CallsIn, OpNames, S
    <3>7. RoundOf(r, q, c) # << >>
      BY <3>5, MadeSome
    <3> QED BY <1>1, <1>3, <3>5, <3>6, <3>7
  <2>2. CASE ~q.long
    <3>1. RoundOf(r, q, c) = <<Op("prefill", 0), Op("barrier", 0)>> \o <<Op("callback", 0)>>
      BY <1>1, <1>3, <2>2 DEF RoundOf, PrefillRound
    <3>2. Made(<<Op("prefill", 0), Op("barrier", 0)>>, {"prefill", "barrier"}, at)
      BY <1>2, MadeTwo DEF OpNames, Place
    <3>3. Made(<<Op("callback", 0)>>, {"callback"}, at)
      BY <1>2, MadeOne DEF OpNames
    <3>4. \A x \in {"prefill", "barrier"}, y \in {"callback"} : Place(x) < Place(y)
      BY DEF Place
    <3>5. Made(RoundOf(r, q, c), {"prefill", "barrier"} \cup {"callback"}, at)
      BY <1>2, <3>1, <3>2, <3>3, <3>4, MadeJoined DEF OpNames
    <3>6. S = {"prefill", "barrier"} \cup {"callback"}
      BY <1>1, <1>3, <2>2 DEF Has, HasPass, CallsIn, OpNames, S
    <3>7. RoundOf(r, q, c) # << >>
      BY <3>5, MadeSome
    <3> QED BY <1>1, <1>3, <3>5, <3>6, <3>7
  <2> QED BY <1>1, <2>1, <2>2
<1>4. CASE c # 0 /\ c <= K /\ q.long /\ ~HasPass(r, q, c)
  <2>1. c <= N + LastStage /\ c - r \notin 1 .. N
    BY <1>1, <1>4 DEF HasPass
  <2>2. RoundOf(r, q, c) = <<Op("callback", 0)>>
    BY <1>1, <1>4, <2>1 DEF RoundOf, PrefillRound, PipelineParallelPrefill, Leading
  <2>3. Made(<<Op("callback", 0)>>, {"callback"}, at)
    BY <1>2, MadeOne DEF OpNames
  <2>4. S = {"callback"}
    BY <1>1, <1>4, <2>1 DEF Has, HasPass, CallsIn, OpNames, S
  <2>5. RoundOf(r, q, c) # << >>
    BY <2>2
  <2> QED BY <1>1, <1>4, <2>2, <2>3, <2>4, <2>5
<1>5. CASE c # 0 /\ c <= K /\ q.long /\ HasPass(r, q, c)
  <2>1. CASE c <= N + LastStage
    <3>1. c - r \in 1 .. N /\ at = c - r
      BY <1>1, <1>5, <2>1 DEF HasPass, PosOf, Before, at
    <3>2. RoundOf(r, q, c) = Pass(r, at) \o <<Op("callback", at), Op("flush", at)>>
      <4>1. RoundOf(r, q, c) = PipelineParallelPrefill(r, N, c)
        BY <1>1, <1>5 DEF RoundOf, PrefillRound
      <4>2. PipelineParallelPrefill(r, N, c) = Iteration(r, c - r)
        BY <1>1, <2>1, <3>1 DEF PipelineParallelPrefill, Leading
      <4> QED BY <3>1, <4>1, <4>2 DEF Iteration
    <3>3. Made(<<Op("callback", at), Op("flush", at)>>, {"callback", "flush"}, at)
      BY <1>2, MadeTwo DEF OpNames, Place
    <3>4. Made(RoundOf(r, q, c), PassSet(r) \cup {"callback", "flush"}, at)
      BY <1>2, <3>2, <3>3, MadeAround DEF OpNames, Place
    <3>5. S = PassSet(r) \cup {"callback", "flush"}
      BY <1>1, <1>5, <2>1, <3>1 DEF Has, CallsIn, OpNames, PassSet, S
    <3> QED
      <4>1. "compute" \in S
        BY <3>5 DEF PassSet
      <4>2. Made(RoundOf(r, q, c), S, at)
        BY <3>4, <3>5
      <4>3. RoundOf(r, q, c) # << >>
        BY <4>1, <4>2, MadeSome
      <4> QED BY <1>5, <1>10, <4>2, <4>3
  <2>2. CASE c = K - 1
    <3>1. at = N + 1 /\ c = N + WorldSize /\ ~ (c <= N + LastStage)
      BY <1>1, <1>5, <2>2, RanksAre DEF PosOf, Before, at
    <3>2. RoundOf(r, q, c) = <<Op("clear", 0)>> \o Pass(r, at) \o <<Op("flush", 0)>>
      <4>1. RoundOf(r, q, c) = PipelineParallelPrefill(r, N, c)
        BY <1>1, <1>5 DEF RoundOf, PrefillRound
      <4>2. PipelineParallelPrefill(r, N, c)
              = <<Op("clear", 0)>> \o Pass(r, N + 1) \o <<Op("flush", 0)>>
        BY <3>1 DEF PipelineParallelPrefill
      <4> QED BY <3>1, <4>1, <4>2
    <3>3. Made(<<Op("clear", 0)>>, {"clear"}, at) /\ Made(<<Op("flush", 0)>>, {"flush"}, at)
      BY <1>2, MadeOne DEF OpNames
    <3>4. Made(Pass(r, at), PassSet(r), at) /\ PassSet(r) \subseteq OpNames
      BY <1>2, PassMade
    <3>5. /\ \A x \in {"clear"}, y \in PassSet(r) : Place(x) < Place(y)
          /\ \A x \in {"clear"} \cup PassSet(r), y \in {"flush"} : Place(x) < Place(y)
      BY DEF PassSet, Place
    <3>6. Made(<<Op("clear", 0)>> \o Pass(r, at), {"clear"} \cup PassSet(r), at)
      BY <1>2, <3>3, <3>4, <3>5, MadeJoined DEF OpNames
    <3> DEFINE front == <<Op("clear", 0)>> \o Pass(r, at)
    <3> HIDE DEF front
    <3>9. {"clear"} \cup PassSet(r) \in SUBSET OpNames /\ {"flush"} \in SUBSET OpNames
      BY <3>4 DEF OpNames
    <3>10. Made(front \o <<Op("flush", 0)>>, {"clear"} \cup PassSet(r) \cup {"flush"}, at)
      BY <1>2, <3>3, <3>5, <3>6, <3>9, MadeJoined DEF front
    <3>7. Made(RoundOf(r, q, c), {"clear"} \cup PassSet(r) \cup {"flush"}, at)
      BY <3>2, <3>10 DEF front
    <3>8. S = {"clear"} \cup PassSet(r) \cup {"flush"}
      BY <1>1, <1>5, <2>2, <3>1 DEF Has, CallsIn, OpNames, PassSet, S
    <3> QED
      <4>1. "compute" \in S
        BY <3>8 DEF PassSet
      <4>2. Made(RoundOf(r, q, c), S, at)
        BY <3>7, <3>8
      <4>3. RoundOf(r, q, c) # << >>
        BY <4>1, <4>2, MadeSome
      <4> QED BY <1>5, <1>10, <4>2, <4>3
  <2>3. CASE c = K
    <3>1. at = N + 2 /\ c # N + WorldSize /\ ~ (c <= N + LastStage)
      BY <1>1, <1>5, <2>3, RanksAre DEF PosOf, Before, at
    <3>2. RoundOf(r, q, c) = Pass(r, at) \o <<Op("flush", 0), Op("decode", 0)>>
      <4>1. RoundOf(r, q, c) = PipelineParallelPrefill(r, N, c)
        BY <1>1, <1>5 DEF RoundOf, PrefillRound
      <4>2. PipelineParallelPrefill(r, N, c)
              = Pass(r, N + 2) \o <<Op("flush", 0), Op("decode", 0)>>
        BY <3>1 DEF PipelineParallelPrefill
      <4> QED BY <3>1, <4>1, <4>2
    <3>3. Made(<<Op("flush", 0), Op("decode", 0)>>, {"flush", "decode"}, at)
      BY <1>2, MadeTwo DEF OpNames, Place
    <3>4. Made(RoundOf(r, q, c), PassSet(r) \cup {"flush", "decode"}, at)
      BY <1>2, <3>2, <3>3, MadeAround DEF OpNames, Place
    <3>5. S = PassSet(r) \cup {"flush", "decode"}
      BY <1>1, <1>5, <2>3, <3>1 DEF Has, CallsIn, OpNames, PassSet, S
    <3> QED
      <4>1. "compute" \in S
        BY <3>5 DEF PassSet
      <4>2. Made(RoundOf(r, q, c), S, at)
        BY <3>4, <3>5
      <4>3. RoundOf(r, q, c) # << >>
        BY <4>1, <4>2, MadeSome
      <4> QED BY <1>5, <1>10, <4>2, <4>3
  <2>4. c <= N + LastStage \/ c = K - 1 \/ c = K
    BY <1>1, <1>5
  <2> QED BY <2>1, <2>2, <2>3, <2>4
<1>6. CASE c # 0 /\ c <= K /\ ~q.long
  <2>1. HasPass(r, q, c) /\ at = c /\ c \in {1, 2, 3} /\ K = 3
    BY <1>1, <1>6 DEF HasPass, PosOf, Before, at
  <2>2. CASE c = 1
    <3>1. RoundOf(r, q, c) = Pass(r, at) \o <<Op("callback", 0)>>
      BY <1>1, <1>6, <2>1, <2>2 DEF RoundOf, PrefillRound, StreamGenerate
    <3>2. Made(<<Op("callback", 0)>>, {"callback"}, at)
      BY <1>2, MadeOne DEF OpNames
    <3>3. Made(RoundOf(r, q, c), PassSet(r) \cup {"callback"}, at)
      BY <1>2, <3>1, <3>2, MadeAround DEF OpNames, Place
    <3>4. S = PassSet(r) \cup {"callback"}
      BY <1>1, <1>6, <2>1, <2>2 DEF Has, CallsIn, OpNames, PassSet, S
    <3> QED
      <4>1. "compute" \in S
        BY <3>4 DEF PassSet
      <4>2. Made(RoundOf(r, q, c), S, at)
        BY <3>3, <3>4
      <4>3. RoundOf(r, q, c) # << >>
        BY <4>1, <4>2, MadeSome
      <4> QED BY <1>1, <1>6, <4>2, <4>3
  <2>3. CASE c = 2
    <3>1. RoundOf(r, q, c) = Pass(r, at)
      BY <1>1, <1>6, <2>1, <2>3 DEF RoundOf, PrefillRound, StreamGenerate
    <3>2. S = PassSet(r)
      BY <1>1, <1>6, <2>1, <2>3 DEF Has, CallsIn, OpNames, PassSet, S
    <3>3. "compute" \in S
      BY <3>2 DEF PassSet
    <3>4. Made(RoundOf(r, q, c), S, at)
      BY <1>2, <3>1, <3>2, PassMade
    <3>5. RoundOf(r, q, c) # << >>
      BY <3>3, <3>4, MadeSome
    <3> QED BY <1>1, <1>6, <3>4, <3>5
  <2>4. CASE c = 3
    <3>1. RoundOf(r, q, c) = Pass(r, at) \o <<Op("callback", 0), Op("decode", 0)>>
      BY <1>1, <1>6, <2>1, <2>4 DEF RoundOf, PrefillRound, StreamGenerate
    <3>2. Made(<<Op("callback", 0), Op("decode", 0)>>, {"callback", "decode"}, at)
      BY <1>2, MadeTwo DEF OpNames, Place
    <3>3. Made(RoundOf(r, q, c), PassSet(r) \cup {"callback", "decode"}, at)
      BY <1>2, <3>1, <3>2, MadeAround DEF OpNames, Place
    <3>4. S = PassSet(r) \cup {"callback", "decode"}
      BY <1>1, <1>6, <2>1, <2>4 DEF Has, CallsIn, OpNames, PassSet, S
    <3> QED
      <4>1. "compute" \in S
        BY <3>4 DEF PassSet
      <4>2. Made(RoundOf(r, q, c), S, at)
        BY <3>3, <3>4
      <4>3. RoundOf(r, q, c) # << >>
        BY <4>1, <4>2, MadeSome
      <4> QED BY <1>1, <1>6, <4>2, <4>3
  <2> QED BY <2>1, <2>2, <2>3, <2>4
<1>7. CASE c > K /\ c <= K + q.tokens
  <2>1. HasPass(r, q, c) /\ at = N + (c - K) /\ c - K <= q.tokens
    BY <1>1, <1>7 DEF HasPass, PosOf, Before, at
  <2>2. RoundOf(r, q, c) = Pass(r, at)
    BY <1>1, <1>7, <2>1 DEF RoundOf, DecodeRound
  <2>3. S = PassSet(r)
    BY <1>1, <1>7, <2>1 DEF Has, CallsIn, OpNames, PassSet, S
  <2>4. "compute" \in S
    BY <2>3 DEF PassSet
  <2>5. Made(RoundOf(r, q, c), S, at)
    BY <1>2, <2>2, <2>3, PassMade
  <2> QED BY <1>1, <1>7, <2>4, <2>5, MadeSome
<1>8. CASE c = K + q.tokens + 1
  <2>1. ~ (c <= K) /\ ~ (c - K <= q.tokens)
    BY <1>1, <1>8
  <2>2. RoundOf(r, q, c) = << >>
    BY <2>1 DEF RoundOf, DecodeRound
  <2>3. S = {}
    BY <1>1, <1>8 DEF Has, CallsIn, HasPass, S
  <2>4. Made(<< >>, {}, at)
    BY <1>2, MadeEmpty
  <2> QED BY <1>1, <1>8, <2>2, <2>3, <2>4
<1>9. c = 0 \/ (c # 0 /\ c <= K) \/ (c > K /\ c <= K + q.tokens) \/ c = K + q.tokens + 1
  BY <1>1
<1> QED BY <1>1, <1>3, <1>4, <1>5, <1>6, <1>7, <1>8, <1>9

-----------------------------------------------------------------------------
(* The operations a rank has left.                                         *)

(* p is the rest of round c of rank r.                                     *)
ProgOK(r, q, c, p) ==
  /\ c \in 0 .. AllRounds(q) + 1
  /\ p \in Seq(PipeOps) /\ InOrder(p)
  /\ p = << >> <=> c = AllRounds(q) + 1
  /\ \A o \in OpsIn(p) : Has(o, r, q, c)
  /\ p # << >> => \A o \in OpNames :
       Has(o, r, q, c) /\ Place(Head(p).op) <= Place(o) => o \in OpsIn(p)
  /\ \A i \in 1 .. Len(p) : p[i].op = "compute" => p[i].at = PosOf(q, Before(r, q, c) + 1)

(* The rest of the round, or the next one, after the first operation of p. *)
RoundAfter(c, p) == IF Len(p) = 1 THEN c + 1 ELSE c
ProgAfter(r, q, c, p) == IF Len(p) = 1 THEN RoundOf(r, q, c + 1) ELSE Tail(p)

LEMMA SomeOrMore ==
  ASSUME NEW T, NEW s \in Seq(T)
  PROVE  /\ s # << >> <=> Len(s) = 1 \/ Len(s) > 1
         /\ ~(Len(s) = 1 /\ Len(s) > 1)
<1> DEFINE n == Len(s)
<1>1. n \in Nat /\ (s = << >> <=> n = 0)
  OBVIOUS
<1> HIDE DEF n
<1>2. (n # 0 <=> n = 1 \/ n > 1) /\ ~(n = 1 /\ n > 1)
  BY <1>1
<1> QED BY <1>1, <1>2 DEF n

LEMMA OpsOf ==
  ASSUME NEW p \in Seq(PipeOps)
  PROVE  OpsIn(p) \subseteq OpNames /\ \A i \in 1 .. Len(p) : p[i] \in PipeOps
                                                         /\ p[i].op \in OpsIn(p)
<1>1. \A i \in 1 .. Len(p) : p[i] \in PipeOps
  OBVIOUS
<1>2. \A i \in 1 .. Len(p) : p[i].op \in OpsIn(p)
  BY DEF OpsIn
<1>3. \A x \in OpsIn(p) : x \in OpNames
  BY <1>1 DEF OpsIn, PipeOps
<1> QED BY <1>1, <1>2, <1>3

LEMMA PlaceIs == \A o \in OpNames : Place(o) \in 1 .. 11
BY DEF OpNames, Place

(* The beginning of a round.                                               *)
LEMMA RoundFresh ==
  ASSUME NEW q, OrderOK(q), NEW r \in PipeRanks, NEW c \in 0 .. AllRounds(q) + 1
  PROVE  /\ ProgOK(r, q, c, RoundOf(r, q, c))
         /\ \A o \in OpNames : o \in OpsIn(RoundOf(r, q, c)) <=> Has(o, r, q, c)
<1> DEFINE p == RoundOf(r, q, c)  S == {o \in OpNames : Has(o, r, q, c)}
<1>1. Made(p, S, PosOf(q, Before(r, q, c) + 1)) /\ (p = << >> <=> c = AllRounds(q) + 1)
  BY RoundMade
<1>2. /\ p \in Seq(PipeOps) /\ InOrder(p) /\ OpsIn(p) = S
      /\ \A i \in 1 .. Len(p) : p[i].op = "compute" => p[i].at = PosOf(q, Before(r, q, c) + 1)
  BY <1>1 DEF Made
<1> HIDE DEF p
<1>3. \A o \in OpNames : o \in OpsIn(p) <=> Has(o, r, q, c)
  BY <1>2
<1>4. \A o \in OpsIn(p) : Has(o, r, q, c)
  BY <1>2
<1>5. ProgOK(r, q, c, p)
  BY <1>1, <1>2, <1>3, <1>4 DEF ProgOK
<1> QED BY <1>3, <1>5 DEF p

(* The operation a rank is at, and those left behind it.                   *)
LEMMA HeadIs ==
  ASSUME NEW q, OrderOK(q), NEW r \in PipeRanks, NEW c, NEW p, ProgOK(r, q, c, p), p # << >>
  PROVE  LET o == Head(p).op
         IN  /\ o \in OpNames /\ o \in OpsIn(p) /\ Has(o, r, q, c) /\ Head(p).at \in Nat
             /\ \A x \in OpsIn(p) : x = o \/ Place(x) > Place(o)
             /\ o = "compute" => Head(p).at = PosOf(q, Before(r, q, c) + 1)
             /\ c \in 0 .. AllRounds(q)
<1> DEFINE o == Head(p).op
<1>1. p \in Seq(PipeOps) /\ Len(p) \in Nat /\ Len(p) >= 1 /\ Head(p) = p[1] /\ 1 \in 1 .. Len(p)
  BY DEF ProgOK
<1>2. p[1] \in PipeOps /\ o \in OpsIn(p) /\ o \in OpNames
  BY <1>1, OpsOf
<1>3. Head(p).at \in Nat
  BY <1>1, <1>2 DEF PipeOps
<1>4. ASSUME NEW x \in OpsIn(p) PROVE x = o \/ Place(x) > Place(o)
  <2>1. PICK i \in 1 .. Len(p) : x = p[i].op
    BY <1>4 DEF OpsIn
  <2>2. CASE i = 1
    BY <1>1, <2>1, <2>2
  <2>3. CASE i # 1
    <3>1. 1 < i
      BY <1>1, <2>3
    <3>2. Place(p[1].op) < Place(p[i].op)
      BY <1>1, <3>1 DEF ProgOK, InOrder
    <3>3. Place(p[1].op) \in Nat /\ Place(p[i].op) \in Nat
      BY <1>1, <2>1, OpsOf, PlaceIs
    <3> QED BY <1>1, <2>1, <3>2, <3>3
  <2> QED BY <2>2, <2>3
<1>5. Has(o, r, q, c) /\ c \in 0 .. AllRounds(q) + 1 /\ c # AllRounds(q) + 1
  BY <1>2 DEF ProgOK
<1>6. o = "compute" => Head(p).at = PosOf(q, Before(r, q, c) + 1)
  BY <1>1 DEF ProgOK
<1>7. c \in 0 .. AllRounds(q)
  BY <1>5, OrderIs
<1> QED BY <1>2, <1>3, <1>4, <1>5, <1>6, <1>7

LEMMA RestIs ==
  ASSUME NEW p \in Seq(PipeOps), InOrder(p), Len(p) > 1
  PROVE  /\ Tail(p) \in Seq(PipeOps) /\ Tail(p) # << >> /\ InOrder(Tail(p))
         /\ OpsIn(Tail(p)) = OpsIn(p) \ {Head(p).op}
         /\ Len(Tail(p)) = Len(p) - 1
         /\ \A i \in 1 .. Len(p) - 1 : i + 1 \in 1 .. Len(p) /\ Tail(p)[i] = p[i + 1]
<1> DEFINE t == Tail(p)
<1>1. /\ t \in Seq(PipeOps) /\ Len(p) \in Nat /\ Len(t) = Len(p) - 1 /\ t # << >>
      /\ \A i \in 1 .. Len(p) - 1 : t[i] = p[i + 1]
      /\ Head(p) = p[1]
  <2>1. p # << >> /\ Len(p) \in Nat
    OBVIOUS
  <2>2. t \in Seq(PipeOps) /\ Len(t) = Len(p) - 1 /\ Head(p) = p[1]
    BY <2>1
  <2>3. \A i \in 1 .. Len(p) - 1 : t[i] = p[i + 1]
    BY <2>1, <2>2
  <2>4. t # << >>
    <3>1. Len(t) >= 1
      BY <2>1, <2>2
    <3>2. Len(t) = 1 \/ Len(t) > 1
      BY <2>1, <2>2, <3>1
    <3> QED BY <2>2, <3>2, SomeOrMore
  <2> QED BY <2>1, <2>2, <2>3, <2>4
<1>2. \A i \in 1 .. Len(p) - 1 : i + 1 \in 1 .. Len(p)
  BY <1>1
<1> HIDE DEF t
<1>3. InOrder(t)
  <2> SUFFICES ASSUME NEW i \in 1 .. Len(p) - 1, NEW j \in 1 .. Len(p) - 1, i < j
               PROVE  Place(t[i].op) < Place(t[j].op)
    BY <1>1 DEF InOrder
  <2>1. i + 1 \in 1 .. Len(p) /\ j + 1 \in 1 .. Len(p) /\ i + 1 < j + 1
    BY <1>1, <1>2
  <2>2. Place(p[i + 1].op) < Place(p[j + 1].op)
    BY <2>1 DEF InOrder
  <2> QED BY <1>1, <2>2
<1>4. ASSUME NEW i \in 2 .. Len(p) PROVE p[i].op # p[1].op
  <2>1. 1 \in 1 .. Len(p) /\ i \in 1 .. Len(p) /\ 1 < i
    BY <1>1, <1>4
  <2>2. Place(p[1].op) < Place(p[i].op) /\ Place(p[1].op) \in Nat
    BY <2>1, OpsOf, PlaceIs DEF InOrder
  <2> QED BY <2>2
<1>5. ASSUME NEW x \in OpsIn(t) PROVE x \in OpsIn(p) \ {p[1].op}
  <2>1. PICK i \in 1 .. Len(p) - 1 : x = t[i].op
    BY <1>1, <1>5 DEF OpsIn
  <2>2. x = p[i + 1].op /\ i + 1 \in 1 .. Len(p) /\ i + 1 \in 2 .. Len(p)
    BY <1>1, <1>2, <2>1
  <2> QED BY <1>4, <2>2, OpsOf
<1>6. ASSUME NEW x \in OpsIn(p), x # p[1].op PROVE x \in OpsIn(t)
  <2>1. PICK i \in 1 .. Len(p) : x = p[i].op
    BY <1>6 DEF OpsIn
  <2>2. i # 1 /\ i - 1 \in 1 .. Len(p) - 1 /\ (i - 1) + 1 = i
    BY <1>1, <1>6, <2>1
  <2>3. t[i - 1] = p[i] /\ i - 1 \in 1 .. Len(t)
    BY <1>1, <2>2
  <2> QED BY <2>1, <2>3 DEF OpsIn
<1>7. OpsIn(t) = OpsIn(p) \ {p[1].op}
  BY <1>5, <1>6
<1> QED BY <1>1, <1>2, <1>3, <1>7 DEF t

LEMMA OneLeft ==
  ASSUME NEW p \in Seq(PipeOps), Len(p) = 1
  PROVE  OpsIn(p) = {Head(p).op}
<1>1. Head(p) = p[1] /\ 1 .. Len(p) = {1}
  OBVIOUS
<1> QED BY <1>1 DEF OpsIn

(* A rank that goes on is still somewhere in its rounds.                   *)
LEMMA ProgGoesOn ==
  ASSUME NEW q, OrderOK(q), NEW r \in PipeRanks, NEW c, NEW p, ProgOK(r, q, c, p), p # << >>
  PROVE  LET o == Head(p).op  c1 == RoundAfter(c, p)  p1 == ProgAfter(r, q, c, p)
         IN  /\ ProgOK(r, q, c1, p1)
             /\ \/ c1 = c /\ OpsIn(p1) = OpsIn(p) \ {o} /\ OpsIn(p1) # {}
                \/ /\ c1 = c + 1 /\ OpsIn(p) = {o}
                   /\ \A x \in OpNames : x \in OpsIn(p1) <=> Has(x, r, q, c + 1)
<1> DEFINE o == Head(p).op
<1>1. /\ p \in Seq(PipeOps) /\ InOrder(p) /\ Len(p) \in Nat /\ Len(p) >= 1
      /\ c \in 0 .. AllRounds(q) /\ AllRounds(q) \in Nat
  BY HeadIs, OrderIs DEF ProgOK
<1>2. CASE Len(p) = 1
  <2>1. c + 1 \in 0 .. AllRounds(q) + 1 /\ RoundAfter(c, p) = c + 1
        /\ ProgAfter(r, q, c, p) = RoundOf(r, q, c + 1)
    BY <1>1, <1>2 DEF RoundAfter, ProgAfter
  <2>2. OpsIn(p) = {o}
    BY <1>1, <1>2, OneLeft
  <2> QED BY <2>1, <2>2, RoundFresh
<1>3. CASE Len(p) > 1
  <2> DEFINE t == Tail(p)
  <2>0. Len(p) # 1
    BY <1>1, <1>3, SomeOrMore
  <2>1. RoundAfter(c, p) = c /\ ProgAfter(r, q, c, p) = t
    BY <2>0 DEF RoundAfter, ProgAfter
  <2>2. /\ t \in Seq(PipeOps) /\ t # << >> /\ InOrder(t) /\ OpsIn(t) = OpsIn(p) \ {o}
        /\ Len(t) = Len(p) - 1 /\ Len(t) >= 1
        /\ \A i \in 1 .. Len(p) - 1 : i + 1 \in 1 .. Len(p) /\ t[i] = p[i + 1]
    BY <1>1, <1>3, RestIs
  <2> HIDE DEF t
  <2>3. Head(t) = t[1] /\ t[1].op \in OpsIn(t) /\ t[1].op \in OpNames
    BY <2>2, OpsOf
  <2>4. ASSUME NEW x \in OpNames, Has(x, r, q, c), Place(Head(t).op) <= Place(x)
        PROVE  x \in OpsIn(t)
    <3>1. o \in OpNames /\ Place(Head(t).op) > Place(o)
      BY <2>2, <2>3, HeadIs
    <3>2. Place(o) \in Nat /\ Place(x) \in Nat /\ Place(Head(t).op) \in Nat
      BY <2>3, <2>4, <3>1, PlaceIs
    <3>3. Place(o) <= Place(x) /\ x # o
      BY <2>4, <3>1, <3>2
    <3>4. x \in OpsIn(p)
      BY <2>4, <3>3 DEF ProgOK
    <3> QED BY <2>2, <3>3, <3>4
  <2>5. \A i \in 1 .. Len(t) : t[i].op = "compute" => t[i].at = PosOf(q, Before(r, q, c) + 1)
    <3>1. \A i \in 1 .. Len(p) : p[i].op = "compute" => p[i].at = PosOf(q, Before(r, q, c) + 1)
      BY DEF ProgOK
    <3> QED BY <2>2, <3>1
  <2>6. \A x \in OpsIn(t) : Has(x, r, q, c)
    BY <2>2 DEF ProgOK
  <2>7. c \in 0 .. AllRounds(q) + 1 /\ c # AllRounds(q) + 1
    BY <1>1
  <2>8. ProgOK(r, q, c, t)
    BY <2>2, <2>4, <2>5, <2>6, <2>7 DEF ProgOK
  <2>9. OpsIn(t) # {}
    BY <2>3
  <2> QED BY <2>1, <2>2, <2>8, <2>9
<1>4. Len(p) = 1 \/ Len(p) > 1
  BY <1>1, SomeOrMore
<1> QED BY <1>2, <1>3, <1>4

-----------------------------------------------------------------------------
(* Counting.                                                               *)

Bit(b) == IF b THEN 1 ELSE 0

(* The passes of which rank r has done operation x, those it has taken in  *)
(* and those it has given to the next rank; and whether it holds one back. *)
Num(r, q, c, p, x) == Before(r, q, c) + Bit(HasPass(r, q, c) /\ x \notin OpsIn(p))
Taking(r) == IF r = 0 THEN "compute" ELSE "recv"
Took(r, q, c, p) == Num(r, q, c, p, Taking(r))
Gave(r, q, c, p) == Num(r, q, c, p, "send")
Pending(r, q, c, p) == HasPass(r, q, c) /\ "send" \notin OpsIn(p) /\ "flush" \in OpsIn(p)

(* The collective operations a rank has taken part in.                     *)
Meets(o, q, c) == o = "barrier" \/ o = "callback" \/ (o = "gather" /\ c > PrefillRounds(q))
MetBefore(q, c) ==
  IF q.long THEN IF c < PrefillRounds(q) THEN c
                 ELSE IF c = PrefillRounds(q) THEN c - 1 ELSE c - 2
  ELSE IF c = 0 THEN 0 ELSE IF c = 1 THEN 2 ELSE IF c <= 3 THEN 3 ELSE c
Decodes(q, c) == PrefillRounds(q) < c /\ c <= AllRounds(q)
Meetings(q, c, p) ==
  MetBefore(q, c) + Bit(c = 0 /\ "barrier" \notin OpsIn(p))
  + Bit(CallsIn(q, c) /\ "callback" \notin OpsIn(p))
  + Bit(Decodes(q, c) /\ "gather" \notin OpsIn(p))

(* Each pass is counted where its operation is done, and only there.       *)
LEMMA NumGrows ==
  ASSUME NEW q, OrderOK(q), NEW r \in PipeRanks, NEW c, NEW p, ProgOK(r, q, c, p), p # << >>,
         NEW x \in OpNames,
         \A d \in Nat : HasPass(r, q, d) => Has(x, r, q, d),
         \A d \in Nat : Has(x, r, q, d) => HasPass(r, q, d)
  PROVE  LET o == Head(p).op  c1 == RoundAfter(c, p)  p1 == ProgAfter(r, q, c, p)
         IN  /\ Num(r, q, c, p, x) \in Nat
             /\ Num(r, q, c1, p1, x) = Num(r, q, c, p, x) + Bit(o = x)
<1> DEFINE o == Head(p).op  c1 == RoundAfter(c, p)  p1 == ProgAfter(r, q, c, p)
<1>1. /\ c \in Nat /\ c + 1 \in Nat /\ Before(r, q, c) \in Nat
      /\ Before(r, q, c + 1) = Before(r, q, c) + Bit(HasPass(r, q, c))
      /\ o \in OpsIn(p) /\ Has(o, r, q, c)
  BY HeadIs, BeforeStep, OrderIs DEF Bit
<1>2. \/ c1 = c /\ OpsIn(p1) = OpsIn(p) \ {o}
      \/ /\ c1 = c + 1 /\ OpsIn(p) = {o}
         /\ \A y \in OpNames : y \in OpsIn(p1) <=> Has(y, r, q, c + 1)
  BY ProgGoesOn
<1> SUFFICES /\ Num(r, q, c, p, x) \in Nat
             /\ Num(r, q, c1, p1, x) = Num(r, q, c, p, x) + Bit(o = x)
  OBVIOUS
<1> HIDE DEF o, c1, p1
<1>3. CASE c1 = c /\ OpsIn(p1) = OpsIn(p) \ {o}
  <2>1. x = o => HasPass(r, q, c)
    BY <1>1
  <2>2. CASE x = o
    <3>1. HasPass(r, q, c) /\ x \in OpsIn(p) /\ x \notin OpsIn(p1)
      BY <1>1, <1>3, <2>1, <2>2
    <3>2. Num(r, q, c, p, x) = Before(r, q, c) + 0
      BY <3>1 DEF Num, Bit
    <3>3. Num(r, q, c1, p1, x) = Before(r, q, c) + 1
      BY <1>3, <3>1 DEF Num, Bit
    <3>4. Bit(o = x) = 1
      BY <2>2 DEF Bit
    <3> QED BY <1>1, <3>2, <3>3, <3>4
  <2>3. CASE x # o
    <3>1. x \in OpsIn(p1) <=> x \in OpsIn(p)
      BY <1>3, <2>3
    <3>2. Num(r, q, c1, p1, x) = Num(r, q, c, p, x)
      BY <1>3, <3>1 DEF Num, Bit
    <3>3. Bit(o = x) = 0
      BY <2>3 DEF Bit
    <3>4. Num(r, q, c, p, x) \in Nat
      BY <1>1 DEF Num, Bit
    <3> QED BY <3>2, <3>3, <3>4
  <2> QED BY <2>2, <2>3
<1>4. CASE /\ c1 = c + 1 /\ OpsIn(p) = {o}
           /\ \A y \in OpNames : y \in OpsIn(p1) <=> Has(y, r, q, c + 1)
  <2>1. HasPass(r, q, c + 1) => x \in OpsIn(p1)
    BY <1>1, <1>4
  <2>2. Num(r, q, c1, p1, x) = Before(r, q, c + 1)
    BY <1>1, <1>4, <2>1 DEF Num, Bit
  <2>3. CASE o = x
    <3>1. HasPass(r, q, c) /\ x \in OpsIn(p)
      BY <1>1, <2>3
    <3> QED BY <1>1, <2>2, <2>3, <3>1 DEF Num, Bit
  <2>4. CASE o # x
    <3>1. x \notin OpsIn(p)
      BY <1>4, <2>4
    <3> QED BY <1>1, <2>2, <2>4, <3>1 DEF Num, Bit
  <2> QED BY <2>3, <2>4
<1>5. Num(r, q, c, p, x) \in Nat
  BY <1>1 DEF Num, Bit
<1> QED BY <1>2, <1>3, <1>4, <1>5

LEMMA TookGrows ==
  ASSUME NEW q, OrderOK(q), NEW r \in PipeRanks, NEW c, NEW p, ProgOK(r, q, c, p), p # << >>
  PROVE  LET o == Head(p).op  c1 == RoundAfter(c, p)  p1 == ProgAfter(r, q, c, p)
         IN  /\ Took(r, q, c, p) \in Nat
             /\ Took(r, q, c1, p1) = Took(r, q, c, p) + Bit(o = Taking(r))
<1>1. Taking(r) \in OpNames /\ r \in Nat
  BY RanksAre DEF Taking, OpNames
<1>2. \A d \in Nat : Has(Taking(r), r, q, d) <=> HasPass(r, q, d)
  BY <1>1 DEF Has, Taking
<1> QED BY <1>1, <1>2, NumGrows DEF Took

LEMMA GaveGrows ==
  ASSUME NEW q, OrderOK(q), NEW r \in PipeRanks, r # LastStage, NEW c, NEW p,
         ProgOK(r, q, c, p), p # << >>
  PROVE  LET o == Head(p).op  c1 == RoundAfter(c, p)  p1 == ProgAfter(r, q, c, p)
         IN  /\ Gave(r, q, c, p) \in Nat
             /\ Gave(r, q, c1, p1) = Gave(r, q, c, p) + Bit(o = "send")
<1>1. "send" \in OpNames
  BY DEF OpNames
<1>2. \A d \in Nat : Has("send", r, q, d) <=> HasPass(r, q, d)
  BY DEF Has
<1> QED BY <1>1, <1>2, NumGrows DEF Gave

(* When an output is held back.                                            *)
LEMMA PendingChanges ==
  ASSUME NEW q, OrderOK(q), NEW r \in PipeRanks, r # LastStage, NEW c, NEW p,
         ProgOK(r, q, c, p), p # << >>
  PROVE  LET o == Head(p).op  c1 == RoundAfter(c, p)  p1 == ProgAfter(r, q, c, p)
         IN  /\ o = "send" => ~Pending(r, q, c, p)
             /\ o = "send" => (Pending(r, q, c1, p1) <=> q.long /\ c <= PrefillRounds(q))
             /\ o = "clear" => ~Pending(r, q, c, p)
             /\ o = "flush" => ~Pending(r, q, c1, p1)
             /\ o # "send" /\ o # "flush" => (Pending(r, q, c1, p1) <=> Pending(r, q, c, p))
<1> DEFINE o == Head(p).op  c1 == RoundAfter(c, p)  p1 == ProgAfter(r, q, c, p)
<1>1. /\ o \in OpNames /\ o \in OpsIn(p) /\ Has(o, r, q, c) /\ c \in Nat
      /\ {"send", "flush"} \subseteq OpNames
      /\ \A y \in OpNames : Has(y, r, q, c) /\ Place(o) <= Place(y) => y \in OpsIn(p)
      /\ \A y \in OpsIn(p) : Has(y, r, q, c)
  <2>1. o \in OpNames /\ o \in OpsIn(p) /\ Has(o, r, q, c) /\ c \in Nat
    BY HeadIs, OrderIs
  <2>2. {"send", "flush"} \subseteq OpNames
    BY DEF OpNames
  <2>3. /\ \A y \in OpNames : Has(y, r, q, c) /\ Place(o) <= Place(y) => y \in OpsIn(p)
        /\ \A y \in OpsIn(p) : Has(y, r, q, c)
    BY DEF ProgOK
  <2> QED BY <2>1, <2>2, <2>3
<1>2. \/ c1 = c /\ OpsIn(p1) = OpsIn(p) \ {o}
      \/ /\ c1 = c + 1 /\ OpsIn(p) = {o}
         /\ \A y \in OpNames : y \in OpsIn(p1) <=> Has(y, r, q, c + 1)
  BY ProgGoesOn
<1>3. \A d \in Nat : /\ HasPass(r, q, d) <=> Has("send", r, q, d)
                     /\ Has("flush", r, q, d) <=> q.long /\ HasPass(r, q, d) /\ d <= PrefillRounds(q)
  BY DEF Has
<1>4. o = "send" => ("flush" \in OpsIn(p) <=> q.long /\ c <= PrefillRounds(q))
  <2>1. o = "send" => Place(o) <= Place("flush") /\ HasPass(r, q, c)
    BY <1>1, <1>3 DEF Place
  <2> QED BY <1>1, <1>3, <2>1
<1>5. o = "clear" /\ HasPass(r, q, c) => "send" \in OpsIn(p)
  <2>1. o = "clear" => Place(o) <= Place("send")
    BY DEF Place
  <2> QED BY <1>1, <1>3, <2>1
<1> SUFFICES /\ o = "send" => ~Pending(r, q, c, p)
             /\ o = "send" => (Pending(r, q, c1, p1) <=> q.long /\ c <= PrefillRounds(q))
             /\ o = "clear" => ~Pending(r, q, c, p)
             /\ o = "flush" => ~Pending(r, q, c1, p1)
             /\ o # "send" /\ o # "flush" => (Pending(r, q, c1, p1) <=> Pending(r, q, c, p))
  OBVIOUS
<1> HIDE DEF o, c1, p1
<1>6. CASE c1 = c /\ OpsIn(p1) = OpsIn(p) \ {o}
  <2>1. /\ "send" \in OpsIn(p1) <=> "send" \in OpsIn(p) /\ o # "send"
        /\ "flush" \in OpsIn(p1) <=> "flush" \in OpsIn(p) /\ o # "flush"
    BY <1>6
  <2>2. o = "send" => "send" \in OpsIn(p) /\ HasPass(r, q, c)
    BY <1>1, <1>3
  <2> QED BY <1>4, <1>5, <1>6, <2>1, <2>2 DEF Pending
<1>7. CASE /\ c1 = c + 1 /\ OpsIn(p) = {o}
           /\ \A y \in OpNames : y \in OpsIn(p1) <=> Has(y, r, q, c + 1)
  <2>1. ~Pending(r, q, c1, p1)
    BY <1>1, <1>3, <1>7 DEF Pending
  <2>2. Pending(r, q, c, p) => o = "flush"
    BY <1>7 DEF Pending
  <2>3. o = "send" => ~(q.long /\ c <= PrefillRounds(q))
    BY <1>4, <1>7
  <2>4. o = "clear" => ~Pending(r, q, c, p)
    BY <2>2
  <2>5. o = "send" => ~Pending(r, q, c, p)
    BY <2>2
  <2> QED BY <2>1, <2>2, <2>3, <2>4, <2>5
<1> QED BY <1>2, <1>6, <1>7

LEMMA MetBeforeStep ==
  ASSUME NEW q, OrderOK(q), NEW c \in 0 .. AllRounds(q)
  PROVE  /\ MetBefore(q, c) \in Nat
         /\ MetBefore(q, c + 1)
               = MetBefore(q, c) + Bit(c = 0) + Bit(CallsIn(q, c)) + Bit(Decodes(q, c))
<1>1. c \in Nat /\ c <= PrefillRounds(q) + q.tokens
  BY OrderIs
<1>2. CASE q.long
  BY <1>1, <1>2, OrderIs, RanksAre DEF MetBefore, Bit, CallsIn, Decodes
<1>3. CASE ~q.long
  BY <1>1, <1>3, OrderIs, RanksAre DEF MetBefore, Bit, CallsIn, Decodes
<1> QED BY <1>2, <1>3, OrderIs

(* A rank's count grows with each collective it takes part in.             *)
LEMMA MeetingsGrow ==
  ASSUME NEW q, OrderOK(q), NEW r \in PipeRanks, NEW c, NEW p, ProgOK(r, q, c, p), p # << >>
  PROVE  LET o == Head(p).op  c1 == RoundAfter(c, p)  p1 == ProgAfter(r, q, c, p)
         IN  /\ Meetings(q, c, p) \in Nat
             /\ Meetings(q, c1, p1) = Meetings(q, c, p) + Bit(Meets(o, q, c))
<1> DEFINE o == Head(p).op  c1 == RoundAfter(c, p)  p1 == ProgAfter(r, q, c, p)
<1>1. /\ o \in OpNames /\ o \in OpsIn(p) /\ Has(o, r, q, c) /\ c \in Nat /\ c # c + 1 /\ c + 1 # 0
      /\ c \in 0 .. AllRounds(q)
  BY HeadIs, OrderIs
<1>2. \/ c1 = c /\ OpsIn(p1) = OpsIn(p) \ {o}
      \/ /\ c1 = c + 1 /\ OpsIn(p) = {o}
         /\ \A y \in OpNames : y \in OpsIn(p1) <=> Has(y, r, q, c + 1)
  BY ProgGoesOn
<1>3. /\ MetBefore(q, c) \in Nat
      /\ MetBefore(q, c + 1)
            = MetBefore(q, c) + Bit(c = 0) + Bit(CallsIn(q, c)) + Bit(Decodes(q, c))
  BY <1>1, MetBeforeStep
<1>4. /\ o = "barrier" => c = 0
      /\ o = "callback" => CallsIn(q, c)
      /\ o = "gather" => HasPass(r, q, c)
  BY <1>1 DEF Has
<1>5. HasPass(r, q, c) /\ c > PrefillRounds(q) => Decodes(q, c)
  BY <1>1, OrderIs DEF HasPass, Decodes
<1>6. Meets(o, q, c) <=> o = "barrier" \/ o = "callback" \/ (o = "gather" /\ Decodes(q, c))
  BY <1>1, <1>4, <1>5, OrderIs DEF Meets, Decodes
<1>7. Meetings(q, c, p) \in Nat
  BY <1>3 DEF Meetings, Bit
<1>8. c1 = c + 1 => /\ CallsIn(q, c + 1) => Has("callback", r, q, c + 1)
                    /\ Decodes(q, c + 1) => Has("gather", r, q, c + 1)
  BY DEF Has, Decodes, HasPass
<1>9. {"barrier", "callback", "gather"} \subseteq OpNames
  BY DEF OpNames
<1> SUFFICES /\ Meetings(q, c, p) \in Nat
             /\ Meetings(q, c1, p1) = Meetings(q, c, p) + Bit(Meets(o, q, c))
  OBVIOUS
<1> HIDE DEF o, c1, p1
<1>10. CASE c1 = c /\ OpsIn(p1) = OpsIn(p) \ {o}
  <2> DEFINE A == Bit(c = 0 /\ "barrier" \notin OpsIn(p))
             B == Bit(CallsIn(q, c) /\ "callback" \notin OpsIn(p))
             G == Bit(Decodes(q, c) /\ "gather" \notin OpsIn(p))
             A1 == Bit(c = 0 /\ "barrier" \notin OpsIn(p1))
             B1 == Bit(CallsIn(q, c) /\ "callback" \notin OpsIn(p1))
             G1 == Bit(Decodes(q, c) /\ "gather" \notin OpsIn(p1))
             a == Bit(o = "barrier")  b == Bit(o = "callback")
             g == Bit(o = "gather" /\ Decodes(q, c))
  <2>1. A1 = A + a /\ B1 = B + b /\ G1 = G + g
    BY <1>1, <1>4, <1>10 DEF Bit
  <2>2. Bit(Meets(o, q, c)) = a + b + g
    BY <1>6 DEF Bit
  <2>3. /\ A \in Nat /\ B \in Nat /\ G \in Nat /\ a \in Nat /\ b \in Nat /\ g \in Nat
    BY DEF Bit
  <2>4. Meetings(q, c1, p1) = MetBefore(q, c) + A1 + B1 + G1
        /\ Meetings(q, c, p) = MetBefore(q, c) + A + B + G
    BY <1>10 DEF Meetings
  <2>5. MetBefore(q, c) \in Nat
    BY <1>3
  <2> DEFINE M == MetBefore(q, c)
  <2> HIDE DEF A, B, G, A1, B1, G1, a, b, g, M
  <2>6. Meetings(q, c1, p1) = M + (A + a) + (B + b) + (G + g) /\ Meetings(q, c, p) = M + A + B + G
        /\ M \in Nat
    BY <2>1, <2>4, <2>5 DEF M
  <2> QED BY <1>7, <2>2, <2>3, <2>6
<1>11. CASE /\ c1 = c + 1 /\ OpsIn(p) = {o}
            /\ \A y \in OpNames : y \in OpsIn(p1) <=> Has(y, r, q, c + 1)
  <2>1. Meetings(q, c1, p1) = MetBefore(q, c + 1)
    <3>1. /\ CallsIn(q, c + 1) => "callback" \in OpsIn(p1)
          /\ Decodes(q, c + 1) => "gather" \in OpsIn(p1)
      BY <1>8, <1>9, <1>11
    <3>2. MetBefore(q, c + 1) \in Nat
      BY <1>3 DEF Bit
    <3> QED BY <1>1, <1>11, <3>1, <3>2 DEF Meetings, Bit
  <2>2. /\ Bit(c = 0 /\ "barrier" \notin OpsIn(p)) = Bit(c = 0) - Bit(o = "barrier")
        /\ Bit(CallsIn(q, c) /\ "callback" \notin OpsIn(p))
              = Bit(CallsIn(q, c)) - Bit(o = "callback")
        /\ Bit(Decodes(q, c) /\ "gather" \notin OpsIn(p))
              = Bit(Decodes(q, c)) - Bit(o = "gather" /\ Decodes(q, c))
    BY <1>4, <1>11 DEF Bit
  <2>3. Bit(Meets(o, q, c))
          = Bit(o = "barrier") + Bit(o = "callback") + Bit(o = "gather" /\ Decodes(q, c))
    BY <1>6 DEF Bit
  <2>4. /\ Bit(o = "barrier") \in Nat /\ Bit(o = "callback") \in Nat
        /\ Bit(o = "gather" /\ Decodes(q, c)) \in Nat
        /\ Bit(c = 0) \in Nat /\ Bit(CallsIn(q, c)) \in Nat /\ Bit(Decodes(q, c)) \in Nat
    BY DEF Bit
  <2> DEFINE A == Bit(c = 0)  B == Bit(CallsIn(q, c))  G == Bit(Decodes(q, c))
             a == Bit(o = "barrier")  b == Bit(o = "callback")
             g == Bit(o = "gather" /\ Decodes(q, c))
  <2>5. Meetings(q, c, p) = MetBefore(q, c) + (A - a) + (B - b) + (G - g)
    BY <2>2 DEF Meetings
  <2>6. MetBefore(q, c + 1) = MetBefore(q, c) + A + B + G /\ Bit(Meets(o, q, c)) = a + b + g
        /\ MetBefore(q, c) \in Nat
    BY <1>3, <2>3
  <2>7. A \in Nat /\ B \in Nat /\ G \in Nat /\ a \in Nat /\ b \in Nat /\ g \in Nat
    BY <2>4
  <2> HIDE DEF A, B, G, a, b, g
  <2> QED BY <1>7, <2>1, <2>5, <2>6, <2>7
<1> QED BY <1>2, <1>7, <1>10, <1>11

-----------------------------------------------------------------------------
(* Flags, caches and links.                                                *)

(* The flags of a rank in round c.                                         *)
ModeOK(q, c, p, m) ==
  /\ c = 0 /\ q.long /\ "queue_sends" \notin OpsIn(p) => m = "queue_sends"
  /\ c = 0 /\ ~q.long /\ "prefill" \notin OpsIn(p) => m = "prefill"
  /\ c # 0 /\ c <= PrefillRounds(q) => m = IF q.long THEN "queue_sends" ELSE "prefill"
  /\ c > PrefillRounds(q) => m = "decode"

(* What a rank has read is the passes it has taken in, but for the two     *)
(* that are put back at the end of the prefill.                            *)
ReadOK(r, q, c, p, rd) ==
  /\ Len(rd) = Took(r, q, c, p) - (IF c > PrefillRounds(q) THEN 2 ELSE 0)
  /\ \A i \in 1 .. Len(rd) : rd[i] = <<q.id, i>>

(* What has left a rank and not come to the next: on the wire w, then held *)
(* back in h.                                                              *)
LinkOK(q, h, w, took, gave, back) ==
  /\ Len(h) = back
  /\ took + Len(w) + Len(h) = gave
  /\ \A i \in 1 .. Len(w) : w[i] = <<q.id, PosOf(q, took + i)>>
  /\ \A i \in 1 .. Len(h) : h[i] = <<q.id, PosOf(q, gave)>>

(* Which operations end a round.                                           *)
LEMMA LastOfRound ==
  ASSUME NEW q, OrderOK(q), NEW r \in PipeRanks, NEW c, NEW p, ProgOK(r, q, c, p), p # << >>
  PROVE  LET o == Head(p).op  c1 == RoundAfter(c, p)
         IN  /\ c1 = c \/ c1 = c + 1
             /\ o = Taking(r) \/ o = "send" => c1 = c
             /\ o = "decode" => c = PrefillRounds(q) /\ c1 = c + 1
             /\ c = PrefillRounds(q) /\ c1 = c + 1 => o = "decode"
             /\ c = 0 /\ c1 = c + 1 => o = IF q.long THEN "clear" ELSE "callback"
<1> DEFINE o == Head(p).op  c1 == RoundAfter(c, p)  p1 == ProgAfter(r, q, c, p)
<1>1. /\ o \in OpNames /\ o \in OpsIn(p) /\ Has(o, r, q, c) /\ c \in Nat /\ c # c + 1
      /\ \A x \in OpsIn(p) : x = o \/ Place(x) > Place(o)
  BY HeadIs, OrderIs
<1>2. \A y \in OpNames : Has(y, r, q, c) /\ Place(o) <= Place(y) => y \in OpsIn(p)
  BY DEF ProgOK
<1>3. \/ c1 = c /\ OpsIn(p1) = OpsIn(p) \ {o} /\ OpsIn(p1) # {}
      \/ c1 = c + 1 /\ OpsIn(p) = {o}
  BY ProgGoesOn
<1>4. OpsIn(p) \subseteq OpNames
  BY OpsOf DEF ProgOK
<1> SUFFICES /\ c1 = c \/ c1 = c + 1
             /\ o = Taking(r) \/ o = "send" => c1 = c
             /\ o = "decode" => c = PrefillRounds(q) /\ c1 = c + 1
             /\ c = PrefillRounds(q) /\ c1 = c + 1 => o = "decode"
             /\ c = 0 /\ c1 = c + 1 => o = IF q.long THEN "clear" ELSE "callback"
  OBVIOUS
<1> HIDE DEF o, c1, p1
<1>5. ASSUME o = Taking(r) \/ o = "send" PROVE c1 = c
  <2>1. o # "gather" /\ Place(o) <= Place("gather") /\ "gather" \in OpNames
    BY <1>5 DEF Taking, Place, OpNames
  <2>2. HasPass(r, q, c)
    BY <1>1, <1>5 DEF Has, Taking
  <2>3. "gather" \in OpsIn(p)
    BY <1>2, <2>1, <2>2 DEF Has
  <2> QED BY <1>3, <2>1, <2>3
<1>6. ASSUME o = "decode" PROVE c = PrefillRounds(q) /\ c1 = c + 1
  <2>1. Place(o) = 11
    BY <1>6 DEF Place
  <2>2. \A x \in OpsIn(p) : x = o
    BY <1>1, <1>4, <2>1, PlaceIs
  <2>3. c = PrefillRounds(q)
    BY <1>1, <1>6 DEF Has
  <2> QED BY <1>3, <2>2, <2>3
<1>7. ASSUME c = PrefillRounds(q), c1 = c + 1 PROVE o = "decode"
  <2>1. Place(o) <= Place("decode") /\ "decode" \in OpNames
    BY <1>1, PlaceIs DEF Place, OpNames
  <2>2. "decode" \in OpsIn(p)
    BY <1>2, <1>7, <2>1 DEF Has
  <2> QED BY <1>1, <1>3, <1>7, <2>2
<1>8. ASSUME c = 0, c1 = c + 1 PROVE o = IF q.long THEN "clear" ELSE "callback"
  <2>1. PrefillRounds(q) # 0 /\ ~HasPass(r, q, c) /\ PrefillRounds(q) # 1
    BY <1>8, OrderIs, RanksAre DEF HasPass
  <2>2. CASE q.long
    <3>1. o \in {"prefill", "barrier", "queue_sends", "clear"}
      BY <1>1, <1>8, <2>1, <2>2 DEF Has, CallsIn
    <3>2. Place(o) <= Place("clear") /\ "clear" \in OpNames
      BY <3>1 DEF Place, OpNames
    <3>3. "clear" \in OpsIn(p)
      BY <1>2, <1>8, <2>2, <3>2 DEF Has
    <3> QED BY <1>1, <1>3, <1>8, <2>2, <3>3
  <2>3. CASE ~q.long
    <3>1. o \in {"prefill", "barrier", "callback"}
      BY <1>1, <1>8, <2>1, <2>3 DEF Has, CallsIn
    <3>2. Place(o) <= Place("callback") /\ "callback" \in OpNames
      BY <3>1 DEF Place, OpNames
    <3>3. "callback" \in OpsIn(p)
      BY <1>2, <1>8, <2>3, <3>2 DEF Has, CallsIn
    <3> QED BY <1>1, <1>3, <1>8, <2>3, <3>3
  <2> QED BY <2>2, <2>3
<1> QED BY <1>3, <1>5, <1>6, <1>7, <1>8

Flags == {"prefill", "queue_sends", "decode"}

(* The flags of the last layer go with the rounds.                         *)
LEMMA ModeGoesOn ==
  ASSUME NEW q, OrderOK(q), NEW r \in PipeRanks, NEW c, NEW p, ProgOK(r, q, c, p), p # << >>,
         NEW m, ModeOK(q, c, p, m)
  PROVE  LET o == Head(p).op
         IN  ModeOK(q, RoundAfter(c, p), ProgAfter(r, q, c, p), IF o \in Flags THEN o ELSE m)
<1> DEFINE o == Head(p).op  c1 == RoundAfter(c, p)  p1 == ProgAfter(r, q, c, p)
           m1 == IF o \in Flags THEN o ELSE m  K == PrefillRounds(q)
<1>1. /\ o \in OpNames /\ o \in OpsIn(p) /\ Has(o, r, q, c) /\ c \in Nat /\ K \in Nat /\ K >= 3
      /\ \A y \in OpNames : Has(y, r, q, c) /\ Place(o) <= Place(y) => y \in OpsIn(p)
  <2>1. o \in OpNames /\ o \in OpsIn(p) /\ Has(o, r, q, c) /\ c \in Nat /\ K \in Nat /\ K >= 3
    BY HeadIs, OrderIs
  <2>2. \A y \in OpNames : Has(y, r, q, c) /\ Place(o) <= Place(y) => y \in OpsIn(p)
    BY DEF ProgOK
  <2> QED BY <2>1, <2>2
<1>2. \/ c1 = c /\ OpsIn(p1) = OpsIn(p) \ {o}
      \/ c1 = c + 1 /\ OpsIn(p) = {o}
  BY ProgGoesOn
<1>3. /\ o = "decode" => c = K /\ c1 = c + 1
      /\ c = K /\ c1 = c + 1 => o = "decode"
      /\ c = 0 /\ c1 = c + 1 => o = IF q.long THEN "clear" ELSE "callback"
  BY LastOfRound
<1>4. o \in {"prefill", "queue_sends"} => c = 0
  BY <1>1 DEF Has
<1>5. c = 0 /\ q.long /\ o = "prefill" => "queue_sends" \in OpsIn(p)
  <2>1. Place("prefill") <= Place("queue_sends") /\ "queue_sends" \in OpNames
    BY DEF Place, OpNames
  <2> QED BY <1>1, <2>1 DEF Has
<1>6. o = "queue_sends" => q.long
  BY <1>1 DEF Has
<1> SUFFICES ModeOK(q, c1, p1, m1)
  OBVIOUS
<1> HIDE DEF o, c1, p1, m1, K
<1>7. /\ c = 0 /\ q.long /\ "queue_sends" \notin OpsIn(p) => m = "queue_sends"
      /\ c = 0 /\ ~q.long /\ "prefill" \notin OpsIn(p) => m = "prefill"
      /\ c # 0 /\ c <= K => m = IF q.long THEN "queue_sends" ELSE "prefill"
      /\ c > K => m = "decode"
  BY DEF ModeOK, K
<1>8. CASE c = 0 /\ c1 = c
  <2>1. OpsIn(p1) = OpsIn(p) \ {o} /\ o # "decode"
    BY <1>1, <1>2, <1>3, <1>8
  <2>2. q.long /\ "queue_sends" \notin OpsIn(p1) => m1 = "queue_sends"
    BY <1>5, <1>7, <1>8, <2>1 DEF m1, Flags
  <2>3. ~q.long /\ "prefill" \notin OpsIn(p1) => m1 = "prefill"
    BY <1>6, <1>7, <1>8, <2>1 DEF m1, Flags
  <2>4. ~(c1 > K)
    BY <1>1, <1>8
  <2> QED BY <1>8, <2>2, <2>3, <2>4 DEF ModeOK, K
<1>9. CASE c = 0 /\ c1 = c + 1
  <2>1. OpsIn(p) = {o} /\ o = IF q.long THEN "clear" ELSE "callback"
    BY <1>1, <1>2, <1>3, <1>9
  <2>2. m1 = m /\ m = IF q.long THEN "queue_sends" ELSE "prefill"
    BY <1>7, <1>9, <2>1 DEF m1, Flags
  <2>3. c1 = 1 /\ ~(c1 > K) /\ c1 # 0
    BY <1>1, <1>9
  <2> QED BY <2>2, <2>3 DEF ModeOK, K
<1>10. CASE c # 0 /\ ~(c = K /\ c1 = c + 1)
  <2>1. m1 = m
    BY <1>3, <1>4, <1>10 DEF m1, Flags
  <2>2. c1 # 0 /\ (c1 <= K <=> c <= K) /\ (c1 > K <=> c > K)
    BY <1>1, <1>2, <1>10
  <2> QED BY <1>7, <1>10, <2>1, <2>2 DEF ModeOK, K
<1>11. CASE c = K /\ c1 = c + 1
  <2>1. m1 = "decode"
    BY <1>3, <1>11 DEF m1, Flags
  <2>2. c1 # 0 /\ ~(c1 <= K)
    BY <1>1, <1>11
  <2> QED BY <2>1, <2>2 DEF ModeOK, K
<1> QED BY <1>1, <1>2, <1>8, <1>9, <1>10, <1>11

LEMMA BeforeBounds ==
  ASSUME NEW q, OrderOK(q), NEW r \in PipeRanks, NEW c \in Nat
  PROVE  /\ c <= PrefillRounds(q) /\ HasPass(r, q, c) => Before(r, q, c) <= q.chunks + 1
         /\ c > PrefillRounds(q) => Before(r, q, c) >= q.chunks + 2
         /\ c = PrefillRounds(q) => Before(r, q, c) = q.chunks + 1 /\ HasPass(r, q, c)
BY OrderIs, RanksAre DEF Before, HasPass

(* A rank at its receive, or the first rank at its layers.                 *)
LEMMA TakingAt ==
  ASSUME NEW q, OrderOK(q), NEW r \in PipeRanks, NEW c, NEW p, ProgOK(r, q, c, p), p # << >>,
         Head(p).op = Taking(r)
  PROVE  /\ HasPass(r, q, c) /\ Took(r, q, c, p) = Before(r, q, c) /\ Before(r, q, c) \in Nat
         /\ c \in Nat
<1>1. Taking(r) \in OpsIn(p) /\ Has(Taking(r), r, q, c) /\ c \in 0 .. AllRounds(q)
  BY HeadIs
<1>2. HasPass(r, q, c)
  BY <1>1 DEF Has, Taking
<1>3. Before(r, q, c) \in Nat /\ c \in Nat
  BY <1>1, BeforeStep, OrderIs
<1> QED BY <1>1, <1>2, <1>3 DEF Took, Num, Bit

(* A rank at its send.                                                     *)
LEMMA SendingAt ==
  ASSUME NEW q, OrderOK(q), NEW r \in PipeRanks, NEW c, NEW p, ProgOK(r, q, c, p), p # << >>,
         Head(p).op = "send"
  PROVE  /\ HasPass(r, q, c) /\ Gave(r, q, c, p) = Before(r, q, c) /\ Before(r, q, c) \in Nat
         /\ Took(r, q, c, p) = Before(r, q, c) + 1 /\ c \in Nat /\ r # LastStage
<1>1. "send" \in OpsIn(p) /\ Has("send", r, q, c) /\ c \in 0 .. AllRounds(q)
      /\ \A x \in OpsIn(p) : x = "send" \/ Place(x) > Place("send")
  BY HeadIs
<1>2. HasPass(r, q, c) /\ r # LastStage
  BY <1>1 DEF Has
<1>3. Before(r, q, c) \in Nat /\ c \in Nat
  BY <1>1, BeforeStep, OrderIs
<1>4. Taking(r) \notin OpsIn(p)
  <2>1. Taking(r) # "send" /\ ~(Place(Taking(r)) > Place("send"))
    BY DEF Taking, Place
  <2> QED BY <1>1, <2>1
<1> QED BY <1>1, <1>2, <1>3, <1>4 DEF Took, Gave, Num, Bit

(* What is sent is the activation of the pass that is next in turn.        *)
LEMMA LastRead ==
  ASSUME NEW q, OrderOK(q), NEW r \in PipeRanks, NEW c, NEW p, ProgOK(r, q, c, p), p # << >>,
         Head(p).op = "send", NEW rd \in Seq(Passes), ReadOK(r, q, c, p, rd)
  PROVE  Last(rd) = <<q.id, PosOf(q, Gave(r, q, c, p) + 1)>>
<1> DEFINE B == Before(r, q, c)  n == Len(rd)
<1>1. /\ HasPass(r, q, c) /\ Gave(r, q, c, p) = B /\ B \in Nat
      /\ Took(r, q, c, p) = B + 1 /\ c \in Nat
  BY SendingAt
<1>2. n \in Nat /\ n = B + 1 - (IF c > PrefillRounds(q) THEN 2 ELSE 0)
  BY <1>1 DEF ReadOK
<1>3. PrefillRounds(q) \in Nat /\ q.chunks \in Nat
  BY OrderIs
<1>4. /\ c <= PrefillRounds(q) => B <= q.chunks + 1
      /\ c > PrefillRounds(q) => B >= q.chunks + 2
  BY <1>1, BeforeBounds
<1>5. \A i \in 1 .. n : rd[i] = <<q.id, i>>
  BY DEF ReadOK
<1>6. Last(rd) = rd[n]
  BY DEF Last
<1> HIDE DEF B, n
<1>7. n >= 1 /\ PosOf(q, B + 1) = n
  BY <1>1, <1>2, <1>3, <1>4 DEF PosOf
<1>8. rd[n] = <<q.id, n>>
  BY <1>2, <1>5, <1>7
<1> QED BY <1>1, <1>6, <1>7, <1>8

(* What is read goes with the passes that were taken in.                   *)
LEMMA ReadGoesOn ==
  ASSUME NEW q, OrderOK(q), NEW r \in PipeRanks, NEW c, NEW p, ProgOK(r, q, c, p), p # << >>,
         NEW rd \in Seq(Passes), ReadOK(r, q, c, p, rd), NEW rd1,
         LET o == Head(p).op
         IN  /\ o = Taking(r) => rd1 = Append(rd, <<q.id, PosOf(q, Took(r, q, c, p) + 1)>>)
             /\ o = "decode" => rd1 = SubSeq(rd, 1, Len(rd) - 2)
             /\ o # Taking(r) /\ o # "decode" => rd1 = rd
  PROVE  /\ rd1 \in Seq(Passes)
         /\ ReadOK(r, q, RoundAfter(c, p), ProgAfter(r, q, c, p), rd1)
<1> DEFINE o == Head(p).op  c1 == RoundAfter(c, p)  p1 == ProgAfter(r, q, c, p)
           K == PrefillRounds(q)  n == Len(rd)  T == Took(r, q, c, p)
           off(d) == IF d > K THEN 2 ELSE 0
<1>1. /\ T \in Nat /\ Took(r, q, c1, p1) = T + Bit(o = Taking(r))
      /\ c \in Nat /\ K \in Nat /\ q.chunks \in Nat /\ q.id \in Nat
  BY TookGrows, HeadIs, OrderIs
<1>2. /\ c1 = c \/ c1 = c + 1
      /\ o = Taking(r) => c1 = c
      /\ o = "decode" => c = K /\ c1 = c + 1
      /\ c = K /\ c1 = c + 1 => o = "decode"
  BY LastOfRound
<1>3. n \in Nat /\ n = T - off(c) /\ \A i \in 1 .. n : rd[i] = <<q.id, i>>
  BY DEF ReadOK
<1>4. ReadOK(r, q, c1, p1, rd1) <=> /\ Len(rd1) = Took(r, q, c1, p1) - off(c1)
                                    /\ \A i \in 1 .. Len(rd1) : rd1[i] = <<q.id, i>>
  BY DEF ReadOK
<1>5. CASE o = Taking(r)
  <2>1. HasPass(r, q, c) /\ T = Before(r, q, c)
    BY <1>5, TakingAt
  <2>2. /\ c <= K => T <= q.chunks + 1
        /\ c > K => T >= q.chunks + 2
    BY <1>1, <2>1, BeforeBounds
  <2>3. PosOf(q, T + 1) = n + 1
    BY <1>1, <1>3, <2>2 DEF PosOf
  <2>4. <<q.id, n + 1>> \in Passes
    BY <1>1, <1>3 DEF Passes
  <2>5. rd1 = Append(rd, <<q.id, n + 1>>)
    BY <1>5, <2>3
  <2>6. /\ rd1 \in Seq(Passes) /\ Len(rd1) = n + 1 /\ rd1[n + 1] = <<q.id, n + 1>>
        /\ \A i \in 1 .. n : rd1[i] = rd[i]
    BY <2>4, <2>5
  <2>7. \A i \in 1 .. n + 1 : rd1[i] = <<q.id, i>>
    <3>1. \A i \in 1 .. n + 1 : i \in 1 .. n \/ i = n + 1
      BY <1>3
    <3> QED BY <1>3, <2>6, <3>1
  <2>8. n + 1 = T + 1 - off(c1)
    BY <1>1, <1>2, <1>3, <1>5
  <2> QED BY <1>1, <1>4, <1>5, <2>6, <2>7, <2>8 DEF Bit
<1>6. CASE o = "decode"
  <2>1. c = K /\ c1 = c + 1 /\ o # Taking(r)
    BY <1>2, <1>6 DEF Taking
  <2>2. T >= 2
    <3>1. Before(r, q, c) = q.chunks + 1 /\ HasPass(r, q, c) /\ q.chunks >= 1
      BY <1>1, <2>1, BeforeBounds, OrderIs
    <3>2. "decode" \in OpsIn(p) /\ \A x \in OpsIn(p) : x = "decode" \/ Place(x) > Place("decode")
      BY <1>6, HeadIs
    <3> QED BY <1>1, <3>1 DEF Took, Num, Bit
  <2>3. n = T /\ rd1 = SubSeq(rd, 1, n - 2) /\ n - 2 \in Nat /\ n - 2 <= n
    BY <1>1, <1>3, <1>6, <2>1, <2>2
  <2>4. /\ rd1 \in Seq(Passes) /\ Len(rd1) = n - 2
        /\ \A i \in 1 .. n - 2 : rd1[i] = rd[i] /\ i \in 1 .. n
    BY <2>3
  <2>5. off(c1) = 2 /\ Took(r, q, c1, p1) = T
    BY <1>1, <2>1 DEF Bit
  <2> QED BY <1>3, <1>4, <2>3, <2>4, <2>5
<1>7. CASE o # Taking(r) /\ o # "decode"
  <2>1. rd1 = rd /\ Took(r, q, c1, p1) = T
    BY <1>1, <1>7 DEF Bit
  <2>2. off(c1) = off(c)
    BY <1>1, <1>2, <1>7
  <2> QED BY <1>3, <1>4, <2>1, <2>2
<1> QED BY <1>5, <1>6, <1>7

(* The first on the wire is the next to be taken.                          *)
LEMMA LinkFirst ==
  ASSUME NEW q, NEW h, NEW w \in Seq(Passes), NEW took \in Nat, NEW gave, NEW back,
         LinkOK(q, h, w, took, gave, back), w # << >>
  PROVE  Head(w) = <<q.id, PosOf(q, took + 1)>>
<1>1. 1 \in 1 .. Len(w) /\ Head(w) = w[1]
  OBVIOUS
<1> QED BY <1>1 DEF LinkOK

(* Taking the first, sending, holding back and flushing, seen by the link. *)
LEMMA LinkTaken ==
  ASSUME NEW q, OrderOK(q), NEW h, NEW w \in Seq(Passes), NEW took \in Nat, NEW gave \in Nat,
         NEW back \in Nat, LinkOK(q, h, w, took, gave, back), w # << >>,
         NEW t, t = Tail(w)
  PROVE  LinkOK(q, h, t, took + 1, gave, back)
<1> DEFINE n == Len(w)
<1>1. /\ n \in Nat /\ n >= 1 /\ Head(w) = w[1] /\ Tail(w) \in Seq(Passes) /\ Len(Tail(w)) = n - 1
      /\ \A i \in 1 .. n - 1 : Tail(w)[i] = w[i + 1]
  OBVIOUS
<1>2. /\ Len(h) = back /\ took + n + Len(h) = gave
      /\ \A i \in 1 .. n : w[i] = <<q.id, PosOf(q, took + i)>>
      /\ \A i \in 1 .. Len(h) : h[i] = <<q.id, PosOf(q, gave)>>
  BY DEF LinkOK
<1>3. Len(h) \in Nat
  BY <1>2
<1> HIDE DEF n
<1>4. \A i \in 1 .. n - 1 : t[i] = <<q.id, PosOf(q, took + 1 + i)>>
  <2> SUFFICES ASSUME NEW i \in 1 .. n - 1 PROVE t[i] = <<q.id, PosOf(q, took + 1 + i)>>
    OBVIOUS
  <2>1. i + 1 \in 1 .. n /\ took + (i + 1) = took + 1 + i
    BY <1>1
  <2> QED BY <1>1, <1>2, <2>1
<1>5. took + 1 + (n - 1) + Len(h) = gave
  BY <1>1, <1>2, <1>3
<1>6. LinkOK(q, h, t, took + 1, gave, back)
  BY <1>1, <1>2, <1>4, <1>5 DEF LinkOK
<1> QED BY <1>6

LEMMA LinkSent ==
  ASSUME NEW q, OrderOK(q), NEW h, NEW w \in Seq(Passes), NEW took \in Nat, NEW gave \in Nat,
         LinkOK(q, h, w, took, gave, 0), NEW x, x = <<q.id, PosOf(q, gave + 1)>>,
         NEW v, v = Append(w, x)
  PROVE  v \in Seq(Passes) /\ LinkOK(q, h, v, took, gave + 1, 0)
<1> DEFINE n == Len(w)
<1>1. x \in Passes
  <2>1. q.id \in Nat /\ q.chunks \in Nat
    BY OrderIs
  <2>2. PosOf(q, gave + 1) \in Nat
    BY <2>1 DEF PosOf
  <2> QED BY <2>1, <2>2 DEF Passes
<1>2. /\ n \in Nat /\ v \in Seq(Passes) /\ Len(v) = n + 1 /\ v[n + 1] = x
      /\ \A i \in 1 .. n : v[i] = w[i]
  BY <1>1
<1>3. /\ Len(h) = 0 /\ took + n + Len(h) = gave
      /\ \A i \in 1 .. n : w[i] = <<q.id, PosOf(q, took + i)>>
  BY DEF LinkOK
<1> HIDE DEF n
<1>4. took + n = gave /\ took + (n + 1) = gave + 1
  BY <1>2, <1>3
<1>5. \A i \in 1 .. n + 1 : v[i] = <<q.id, PosOf(q, took + i)>>
  <2>1. \A i \in 1 .. n + 1 : i \in 1 .. n \/ i = n + 1
    BY <1>2
  <2> QED BY <1>2, <1>3, <1>4, <2>1
<1>6. LinkOK(q, h, v, took, gave + 1, 0)
  BY <1>2, <1>3, <1>4, <1>5 DEF LinkOK
<1> QED BY <1>2, <1>6

LEMMA LinkQueued ==
  ASSUME NEW q, OrderOK(q), NEW h \in Seq(Passes), NEW w \in Seq(Passes), NEW took \in Nat,
         NEW gave \in Nat, LinkOK(q, h, w, took, gave, 0),
         NEW x, x = <<q.id, PosOf(q, gave + 1)>>, NEW v, v = Append(h, x)
  PROVE  v \in Seq(Passes) /\ LinkOK(q, v, w, took, gave + 1, 1)
<1>1. x \in Passes
  <2>1. q.id \in Nat /\ q.chunks \in Nat
    BY OrderIs
  <2>2. PosOf(q, gave + 1) \in Nat
    BY <2>1 DEF PosOf
  <2> QED BY <2>1, <2>2 DEF Passes
<1>2. /\ Len(h) = 0 /\ took + Len(w) + Len(h) = gave /\ Len(w) \in Nat
      /\ \A i \in 1 .. Len(w) : w[i] = <<q.id, PosOf(q, took + i)>>
  BY DEF LinkOK
<1>3. v \in Seq(Passes) /\ Len(v) = 1 /\ v[1] = x
  BY <1>1, <1>2
<1>4. took + Len(w) + Len(v) = gave + 1
  BY <1>2, <1>3
<1>5. \A i \in 1 .. Len(v) : v[i] = <<q.id, PosOf(q, gave + 1)>>
  BY <1>3
<1>6. LinkOK(q, v, w, took, gave + 1, 1)
  BY <1>2, <1>3, <1>4, <1>5 DEF LinkOK
<1> QED BY <1>3, <1>6

LEMMA LinkFlushed ==
  ASSUME NEW q, OrderOK(q), NEW h \in Seq(Passes), NEW w \in Seq(Passes), NEW took \in Nat,
         NEW gave \in Nat, NEW back \in Nat, back <= 1, LinkOK(q, h, w, took, gave, back),
         NEW v, v = w \o h
  PROVE  v \in Seq(Passes) /\ LinkOK(q, << >>, v, took, gave, 0)
<1> DEFINE n == Len(w)  m == Len(h)
<1>1. /\ n \in Nat /\ m \in Nat /\ v \in Seq(Passes) /\ Len(v) = n + m
      /\ \A i \in 1 .. n : v[i] = w[i]
      /\ \A i \in 1 .. m : v[n + i] = h[i]
  OBVIOUS
<1>2. /\ m = back /\ took + n + m = gave
      /\ \A i \in 1 .. n : w[i] = <<q.id, PosOf(q, took + i)>>
      /\ \A i \in 1 .. m : h[i] = <<q.id, PosOf(q, gave)>>
  BY DEF LinkOK
<1> HIDE DEF n, m
<1>3. m \in {0, 1}
  BY <1>2
<1>4. \A i \in 1 .. n + m : v[i] = <<q.id, PosOf(q, took + i)>>
  <2> SUFFICES ASSUME NEW i \in 1 .. n + m, i \notin 1 .. n
               PROVE  v[i] = <<q.id, PosOf(q, took + i)>>
    BY <1>1, <1>2
  <2>1. i = n + 1 /\ m = 1 /\ 1 \in 1 .. m
    BY <1>1, <1>3
  <2>2. v[i] = h[1] /\ took + i = gave
    BY <1>1, <1>2, <2>1
  <2> QED BY <1>2, <2>1, <2>2
<1>5. took + (n + m) + 0 = gave
  BY <1>1, <1>2
<1>6. Len(<< >>) = 0 /\ 1 .. 0 = {}
  OBVIOUS
<1>7. LinkOK(q, << >>, v, took, gave, 0)
  BY <1>1, <1>4, <1>5, <1>6 DEF LinkOK
<1> QED BY <1>1, <1>7

-----------------------------------------------------------------------------
(* The invariant.                                                          *)

PipeTyped ==
  /\ program \in [PipeRanks -> Seq(PipeOps)] /\ round \in [PipeRanks -> Nat]
  /\ held \in [PipeRanks -> Seq(Passes)] /\ wire \in [PipeRanks -> Seq(Passes)]
  /\ read \in [PipeRanks -> Seq(Passes)] /\ mode \in [PipeRanks -> Flags]
  /\ nserved \in Nat /\ order.id \in Nat

TookBy(r) == Took(r, order, round[r], program[r])
GaveBy(r) == Gave(r, order, round[r], program[r])
HoldsBack(r) == Pending(r, order, round[r], program[r])
Back(r) == Bit(HoldsBack(r))
MetBy(r) == Meetings(order, round[r], program[r])
LinkBy(r) == LinkOK(order, held[r], wire[r + 1], TookBy(r + 1), GaveBy(r), Back(r))

(* While a request is served each rank is somewhere in its rounds, all     *)
(* ranks have met as often, and what one has given and the next has not    *)
(* taken is between them.                                                  *)
Serving ==
  /\ OrderOK(order)
  /\ \A r \in PipeRanks : /\ ProgOK(r, order, round[r], program[r])
                          /\ ModeOK(order, round[r], program[r], mode[r])
                          /\ ReadOK(r, order, round[r], program[r], read[r])
  /\ \A r \in PipeRanks : r # LastStage => LinkBy(r)
  /\ wire[0] = << >> /\ held[LastStage] = << >>
  /\ \A r, s \in PipeRanks : MetBy(r) = MetBy(s)

PipeInv == PipeTyped /\ (Serving \/ (Resting /\ PassesKeptApart))

(* A request that was served on all ranks leaves nothing behind.           *)
LEMMA ServingOwn ==
  ASSUME PipeTyped, Serving
  PROVE  OwnPasses
<1> SUFFICES ASSUME NEW r \in PipeRanks, NEW i \in DOMAIN read[r]
             PROVE  read[r][i] = <<order.id, i>>
  BY DEF OwnPasses
<1>1. read[r] \in Seq(Passes) /\ i \in 1 .. Len(read[r])
  BY DEF PipeTyped
<1> QED BY <1>1 DEF Serving, ReadOK

(* Done on all ranks, nothing is between any two.                          *)
LEMMA ServedClean ==
  ASSUME PipeTyped, Serving, Resting
  PROVE  NothingUnderWay
<1>1. OrderOK(order) /\ AllRounds(order) \in Nat /\ PrefillRounds(order) \in Nat
      /\ AllRounds(order) >= PrefillRounds(order) /\ order.chunks \in Nat
  BY OrderIs DEF Serving
<1>2. \A r \in PipeRanks : program[r] = << >> /\ round[r] = AllRounds(order) + 1
  BY DEF Serving, Resting, ProgOK
<1>3. ASSUME NEW r \in PipeRanks
      PROVE  /\ ~HasPass(r, order, round[r])
             /\ Before(r, order, round[r])
                  = order.chunks + 1 + (AllRounds(order) + 1) - PrefillRounds(order)
  <2>1. round[r] = AllRounds(order) + 1 /\ round[r] > PrefillRounds(order)
    BY <1>1, <1>2
  <2>2. ~HasPass(r, order, round[r])
    BY <1>1, <2>1, OrderIs, RanksAre DEF HasPass
  <2> QED BY <1>1, <2>1, <2>2 DEF Before
<1> DEFINE N == order.chunks + 1 + (AllRounds(order) + 1) - PrefillRounds(order)
<1>4. N \in Nat
  BY <1>1
<1>5. \A r \in PipeRanks : TookBy(r) = N /\ GaveBy(r) = N /\ Back(r) = 0
  BY <1>3, <1>4 DEF Back, TookBy, GaveBy, HoldsBack, Took, Gave, Num, Pending, Bit
<1>6. ASSUME NEW r \in PipeRanks, r # LastStage
      PROVE  wire[r + 1] = << >> /\ held[r] = << >>
  <2>1. r + 1 \in PipeRanks
    BY <1>6, RanksAre
  <2>2. LinkOK(order, held[r], wire[r + 1], TookBy(r + 1), GaveBy(r), Back(r))
    BY <1>6 DEF Serving, LinkBy
  <2>3. Len(held[r]) = 0 /\ N + Len(wire[r + 1]) + Len(held[r]) = N
    BY <1>5, <1>6, <2>1, <2>2 DEF LinkOK, Bit
  <2>4. held[r] \in Seq(Passes) /\ wire[r + 1] \in Seq(Passes)
    BY <2>1 DEF PipeTyped
  <2>5. Len(wire[r + 1]) = 0
    BY <1>4, <2>3, <2>4
  <2> QED BY <2>3, <2>4, <2>5
<1>7. ASSUME NEW r \in PipeRanks PROVE wire[r] = << >> /\ held[r] = << >>
  <2>1. held[r] = << >>
    BY <1>6, <1>7 DEF Serving
  <2>2. CASE r = 0
    BY <2>1, <2>2 DEF Serving
  <2>3. CASE r # 0
    <3>1. r - 1 \in PipeRanks /\ r - 1 # LastStage /\ (r - 1) + 1 = r
      BY <2>3, RanksAre DEF PipeRanks
    <3> QED BY <1>6, <2>1, <3>1
  <2> QED BY <2>2, <2>3
<1> QED BY <1>7 DEF NothingUnderWay

(* The invariant has the property.                                         *)
LEMMA InvKeptApart == PipeInv => PassesKeptApart
<1> SUFFICES ASSUME PipeTyped, Serving PROVE PassesKeptApart
  BY DEF PipeInv
<1>1. OwnPasses
  BY ServingOwn
<1>2. NothingUnderWay
  BY ServedClean DEF NothingUnderWay
<1> QED BY <1>1, <1>2 DEF PassesKeptApart

-----------------------------------------------------------------------------
(* One rank goes on, the others stay.                                      *)

MovesOn(s) ==
  /\ program[s] # << >> /\ program'[s] = Following(s)
  /\ round'[s] = IF RoundDone(s) THEN round[s] + 1 ELSE round[s]
Stays(s) == program'[s] = program[s] /\ round'[s] = round[s]

(* What the counts of the rank that goes on become.                        *)
LEMMA RankGoesOn ==
  ASSUME PipeTyped, Serving, NEW s \in PipeRanks, MovesOn(s), order' = order
  PROVE  LET o == Head(program[s]).op
         IN  /\ ProgOK(s, order, round'[s], program'[s])
             /\ program'[s] \in Seq(PipeOps) /\ round'[s] \in Nat
             /\ TookBy(s) \in Nat /\ TookBy(s)' = TookBy(s) + Bit(o = Taking(s))
             /\ s # LastStage =>
                  /\ GaveBy(s) \in Nat /\ GaveBy(s)' = GaveBy(s) + Bit(o = "send")
                  /\ o = "send" => ~HoldsBack(s)
                  /\ o = "send" =>
                       (HoldsBack(s)' <=> order.long /\ round[s] <= PrefillRounds(order))
                  /\ o = "clear" => ~HoldsBack(s)
                  /\ o = "flush" => ~HoldsBack(s)'
                  /\ o # "send" /\ o # "flush" => (HoldsBack(s)' <=> HoldsBack(s))
             /\ MetBy(s) \in Nat /\ MetBy(s)' = MetBy(s) + Bit(Meets(o, order, round[s]))
             /\ ModeOK(order, round'[s], program'[s], IF o \in Flags THEN o ELSE mode[s])
<1> DEFINE c == round[s]  p == program[s]
<1>1. /\ OrderOK(order) /\ ProgOK(s, order, c, p) /\ p # << >> /\ ModeOK(order, c, p, mode[s])
  BY DEF Serving, MovesOn
<1>2. round'[s] = RoundAfter(c, p) /\ program'[s] = ProgAfter(s, order, c, p)
  BY DEF MovesOn, RoundAfter, ProgAfter, RoundDone, Following
<1>3. /\ TookBy(s) = Took(s, order, c, p)
      /\ TookBy(s)' = Took(s, order, RoundAfter(c, p), ProgAfter(s, order, c, p))
      /\ GaveBy(s) = Gave(s, order, c, p)
      /\ GaveBy(s)' = Gave(s, order, RoundAfter(c, p), ProgAfter(s, order, c, p))
      /\ HoldsBack(s) <=> Pending(s, order, c, p)
      /\ HoldsBack(s)' <=> Pending(s, order, RoundAfter(c, p), ProgAfter(s, order, c, p))
      /\ MetBy(s) = Meetings(order, c, p)
      /\ MetBy(s)' = Meetings(order, RoundAfter(c, p), ProgAfter(s, order, c, p))
  BY <1>2 DEF TookBy, GaveBy, HoldsBack, MetBy
<1>4. ProgOK(s, order, round'[s], program'[s])
  BY <1>1, <1>2, ProgGoesOn
<1>5. program'[s] \in Seq(PipeOps) /\ round'[s] \in Nat
  BY <1>1, <1>4, OrderIs DEF ProgOK
<1> HIDE DEF c, p
<1> DEFINE o == Head(p).op
<1>6. TookBy(s) \in Nat /\ TookBy(s)' = TookBy(s) + Bit(o = Taking(s))
  BY <1>1, <1>3, TookGrows
<1>7. MetBy(s) \in Nat /\ MetBy(s)' = MetBy(s) + Bit(Meets(o, order, c))
  BY <1>1, <1>3, MeetingsGrow
<1>8. ModeOK(order, round'[s], program'[s], IF o \in Flags THEN o ELSE mode[s])
  BY <1>1, <1>2, ModeGoesOn
<1>9. ASSUME s # LastStage
      PROVE  /\ GaveBy(s) \in Nat /\ GaveBy(s)' = GaveBy(s) + Bit(o = "send")
             /\ o = "send" => ~HoldsBack(s)
             /\ o = "send" => (HoldsBack(s)' <=> order.long /\ c <= PrefillRounds(order))
             /\ o = "clear" => ~HoldsBack(s)
             /\ o = "flush" => ~HoldsBack(s)'
             /\ o # "send" /\ o # "flush" => (HoldsBack(s)' <=> HoldsBack(s))
  <2>1. GaveBy(s) \in Nat /\ GaveBy(s)' = GaveBy(s) + Bit(o = "send")
    BY <1>1, <1>3, <1>9, GaveGrows
  <2>2. /\ o = "send" => ~HoldsBack(s)
        /\ o = "send" => (HoldsBack(s)' <=> order.long /\ c <= PrefillRounds(order))
        /\ o = "clear" => ~HoldsBack(s)
        /\ o = "flush" => ~HoldsBack(s)'
        /\ o # "send" /\ o # "flush" => (HoldsBack(s)' <=> HoldsBack(s))
    BY <1>1, <1>3, <1>9, PendingChanges
  <2> QED BY <2>1, <2>2
<1> QED BY <1>4, <1>5, <1>6, <1>7, <1>8, <1>9 DEF c, p

(* Those of the others stay.                                               *)
LEMMA RankStays ==
  ASSUME PipeTyped, Serving, NEW s \in PipeRanks, Stays(s), order' = order
  PROVE  /\ ProgOK(s, order, round'[s], program'[s])
         /\ program'[s] \in Seq(PipeOps) /\ round'[s] \in Nat
         /\ TookBy(s)' = TookBy(s) /\ GaveBy(s)' = GaveBy(s) /\ Back(s)' = Back(s)
         /\ MetBy(s)' = MetBy(s)
         /\ ModeOK(order, round'[s], program'[s], mode[s])
         /\ ReadOK(s, order, round'[s], program'[s], read[s])
<1>1. program'[s] = program[s] /\ round'[s] = round[s]
  BY DEF Stays
<1>2. program[s] \in Seq(PipeOps) /\ round[s] \in Nat
  BY DEF PipeTyped
<1>3. /\ ProgOK(s, order, round[s], program[s]) /\ ModeOK(order, round[s], program[s], mode[s])
      /\ ReadOK(s, order, round[s], program[s], read[s])
  BY DEF Serving
<1>4. /\ TookBy(s)' = TookBy(s) /\ GaveBy(s)' = GaveBy(s) /\ Back(s)' = Back(s)
      /\ MetBy(s)' = MetBy(s)
  BY <1>1 DEF TookBy, GaveBy, Back, HoldsBack, MetBy
<1> QED BY <1>1, <1>2, <1>3, <1>4

(* Rank r does operation o, and the others nothing.                        *)
Does(r, o) ==
  /\ r \in PipeRanks /\ program[r] # << >> /\ Head(program[r]).op = o
  /\ MovesOn(r) /\ \A s \in PipeRanks : s # r => Stays(s)
  /\ order' = order /\ nserved' = nserved
  /\ program' = [program EXCEPT ![r] = Following(r)]
  /\ round' = [round EXCEPT ![r] = IF RoundDone(r) THEN @ + 1 ELSE @]

(* The steps of single ranks are of this kind.                             *)
LEMMA StepDoes ==
  ASSUME PipeTyped, NEW r \in PipeRanks, NEW o, Doing(r, o), Done(r), UNCHANGED <<order, nserved>>
  PROVE  Does(r, o)
BY DEF PipeTyped, Doing, Done, Does, MovesOn, Stays

(* The counts of a rank are numbers.                                       *)
LEMMA ServingCounts ==
  ASSUME PipeTyped, Serving, NEW s \in PipeRanks
  PROVE  /\ TookBy(s) \in Nat /\ GaveBy(s) \in Nat /\ Back(s) \in Nat /\ Back(s) <= 1
<1>1. OrderOK(order) /\ ProgOK(s, order, round[s], program[s])
  BY DEF Serving
<1>2. round[s] \in 0 .. AllRounds(order) + 1 /\ AllRounds(order) \in Nat
  BY <1>1, OrderIs DEF ProgOK
<1>3. Before(s, order, round[s]) \in Nat
  BY <1>1, <1>2, OrderIs, RanksAre DEF Before
<1> QED BY <1>3 DEF TookBy, GaveBy, Back, Took, Gave, Num, Bit

(* What is left to show of such a step.                                    *)
LEMMA ServingGoesOn ==
  ASSUME PipeTyped, Serving, NEW r, NEW o, Does(r, o), ~Meets(o, order, round[r]),
         \A s \in PipeRanks : mode'[s] = IF s = r /\ o \in Flags THEN o ELSE mode[s],
         mode' \in [PipeRanks -> Flags],
         held' \in [PipeRanks -> Seq(Passes)], wire' \in [PipeRanks -> Seq(Passes)],
         read' \in [PipeRanks -> Seq(Passes)],
         \A s \in PipeRanks : s # r => read'[s] = read[s],
         ReadOK(r, order, round'[r], program'[r], read'[r]),
         \A s \in PipeRanks : s # LastStage => LinkBy(s)',
         wire'[0] = << >>, held'[LastStage] = << >>
  PROVE  PipeInv'
<1>1. /\ r \in PipeRanks /\ program[r] # << >> /\ Head(program[r]).op = o
      /\ MovesOn(r) /\ (\A s \in PipeRanks : s # r => Stays(s))
      /\ order' = order /\ nserved' = nserved
  BY DEF Does
<1>2. ASSUME NEW s \in PipeRanks
      PROVE  /\ ProgOK(s, order, round'[s], program'[s])
             /\ program'[s] \in Seq(PipeOps) /\ round'[s] \in Nat
             /\ ModeOK(order, round'[s], program'[s], mode'[s])
             /\ ReadOK(s, order, round'[s], program'[s], read'[s])
             /\ MetBy(s)' = MetBy(s)
  <2>1. CASE s = r
    <3>1. /\ ProgOK(r, order, round'[r], program'[r])
          /\ program'[r] \in Seq(PipeOps) /\ round'[r] \in Nat
          /\ MetBy(r) \in Nat /\ MetBy(r)' = MetBy(r) + Bit(Meets(o, order, round[r]))
          /\ ModeOK(order, round'[r], program'[r], IF o \in Flags THEN o ELSE mode[r])
      BY <1>1, RankGoesOn
    <3>2. MetBy(r)' = MetBy(r)
      BY <3>1 DEF Bit
    <3>3. mode'[r] = IF o \in Flags THEN o ELSE mode[r]
      BY <1>1
    <3> QED BY <2>1, <3>1, <3>2, <3>3
  <2>2. CASE s # r
    BY <1>1, <2>2, RankStays
  <2> QED BY <2>1, <2>2
<1>3. program' \in [PipeRanks -> Seq(PipeOps)] /\ round' \in [PipeRanks -> Nat]
  <2>1. /\ program' = [program EXCEPT ![r] = Following(r)]
        /\ round' = [round EXCEPT ![r] = IF RoundDone(r) THEN @ + 1 ELSE @]
    BY DEF Does
  <2>2. DOMAIN program' = PipeRanks /\ DOMAIN round' = PipeRanks
    BY <2>1 DEF PipeTyped
  <2>3. program' = [s \in PipeRanks |-> program'[s]] /\ round' = [s \in PipeRanks |-> round'[s]]
    BY <2>1, <2>2 DEF PipeTyped
  <2> QED BY <1>2, <2>3
<1>4. PipeTyped'
  BY <1>1, <1>3 DEF PipeTyped
<1>5. OrderOK(order') /\ \A s, u \in PipeRanks : MetBy(s)' = MetBy(u)'
  BY <1>1, <1>2 DEF Serving
<1>6. Serving'
  BY <1>1, <1>2, <1>5 DEF Serving
<1> QED BY <1>4, <1>6 DEF PipeInv

(* An operation that neither takes, sends nor flushes leaves the links as  *)
(* they are; the first rank takes from nobody.                             *)
LEMMA LinksStay ==
  ASSUME PipeTyped, Serving, NEW r, NEW o, Does(r, o), o # "send", o # "flush",
         o = Taking(r) => r = 0, UNCHANGED <<held, wire>>
  PROVE  \A s \in PipeRanks : s # LastStage => LinkBy(s)'
<1> SUFFICES ASSUME NEW s \in PipeRanks, s # LastStage PROVE LinkBy(s)'
  OBVIOUS
<1>1. /\ r \in PipeRanks /\ program[r] # << >> /\ Head(program[r]).op = o
      /\ MovesOn(r) /\ (\A u \in PipeRanks : u # r => Stays(u)) /\ order' = order
  BY DEF Does
<1>2. s + 1 \in PipeRanks /\ s \in Nat /\ s + 1 # 0
  BY RanksAre
<1>3. TookBy(s + 1)' = TookBy(s + 1)
  <2>1. CASE s + 1 = r
    <3>1. o # Taking(s + 1)
      BY <1>2, <2>1
    <3>2. TookBy(r) \in Nat /\ TookBy(r)' = TookBy(r) + Bit(o = Taking(r))
      BY <1>1, RankGoesOn
    <3> QED BY <2>1, <3>1, <3>2 DEF Bit
  <2>2. CASE s + 1 # r
    BY <1>1, <1>2, <2>2, RankStays
  <2> QED BY <2>1, <2>2
<1>4. GaveBy(s)' = GaveBy(s) /\ Back(s)' = Back(s)
  <2>1. CASE s = r
    <3>1. /\ GaveBy(r) \in Nat /\ GaveBy(r)' = GaveBy(r) + Bit(o = "send")
          /\ HoldsBack(r)' <=> HoldsBack(r)
      BY <1>1, <2>1, RankGoesOn
    <3> QED BY <2>1, <3>1 DEF Back, Bit
  <2>2. CASE s # r
    BY <1>1, <2>2, RankStays
  <2> QED BY <2>1, <2>2
<1>5. LinkBy(s)
  BY DEF Serving
<1> QED BY <1>1, <1>3, <1>4, <1>5 DEF LinkBy

-----------------------------------------------------------------------------
(* The operations of one rank.                                             *)

(* What the rank is at, and what it has to do there.                       *)
LEMMA AtOp ==
  ASSUME PipeTyped, Serving, NEW r, NEW o, Does(r, o)
  PROVE  /\ r \in PipeRanks /\ r \in Nat /\ r <= LastStage
         /\ OrderOK(order) /\ order' = order
         /\ ProgOK(r, order, round[r], program[r]) /\ program[r] # << >>
         /\ Head(program[r]).op = o /\ Has(o, r, order, round[r])
         /\ round[r] \in 0 .. AllRounds(order) /\ round[r] \in Nat
         /\ ReadOK(r, order, round[r], program[r], read[r])
         /\ ModeOK(order, round[r], program[r], mode[r])
         /\ read[r] \in Seq(Passes) /\ held[r] \in Seq(Passes) /\ wire[r] \in Seq(Passes)
         /\ round'[r] = RoundAfter(round[r], program[r])
         /\ program'[r] = ProgAfter(r, order, round[r], program[r])
         /\ MovesOn(r) /\ \A s \in PipeRanks : s # r => Stays(s)
<1>1. /\ r \in PipeRanks /\ program[r] # << >> /\ Head(program[r]).op = o
      /\ MovesOn(r) /\ (\A s \in PipeRanks : s # r => Stays(s)) /\ order' = order
  BY DEF Does
<1>2. r \in Nat /\ r <= LastStage
  BY <1>1, RanksAre
<1>3. /\ OrderOK(order) /\ ProgOK(r, order, round[r], program[r])
      /\ ReadOK(r, order, round[r], program[r], read[r])
      /\ ModeOK(order, round[r], program[r], mode[r])
  BY <1>1 DEF Serving
<1>4. read[r] \in Seq(Passes) /\ held[r] \in Seq(Passes) /\ wire[r] \in Seq(Passes)
  BY <1>1 DEF PipeTyped
<1>5. round[r] \in 0 .. AllRounds(order) /\ Has(o, r, order, round[r])
  BY <1>1, <1>3, HeadIs
<1>6. round[r] \in Nat
  BY <1>5, <1>3, OrderIs
<1>7. /\ round'[r] = RoundAfter(round[r], program[r])
      /\ program'[r] = ProgAfter(r, order, round[r], program[r])
  BY <1>1 DEF MovesOn, RoundAfter, ProgAfter, RoundDone, Following
<1> QED BY <1>1, <1>2, <1>3, <1>4, <1>5, <1>6, <1>7

(* A step of rank r changes the link behind it, and by taking the link     *)
(* before it.                                                              *)
LEMMA OtherLinks ==
  ASSUME PipeTyped, Serving, NEW r, NEW o, Does(r, o), NEW s \in PipeRanks,
         s # LastStage, s # r, s + 1 = r => o # Taking(r),
         held'[s] = held[s], wire'[s + 1] = wire[s + 1]
  PROVE  LinkBy(s)'
<1>1. s + 1 \in PipeRanks
  BY RanksAre
<1>2. GaveBy(s)' = GaveBy(s) /\ Back(s)' = Back(s) /\ order' = order
  BY <1>1, AtOp, RankStays
<1>3. TookBy(s + 1)' = TookBy(s + 1)
  <2>1. CASE s + 1 = r
    <3>1. MovesOn(r) /\ order' = order /\ Head(program[r]).op = o /\ r \in PipeRanks
      BY AtOp
    <3>2. TookBy(r) \in Nat /\ TookBy(r)' = TookBy(r) + Bit(o = Taking(r))
      BY <3>1, RankGoesOn
    <3> QED BY <2>1, <3>2 DEF Bit
  <2>2. CASE s + 1 # r
    BY <1>1, <2>2, AtOp, RankStays
  <2> QED BY <2>1, <2>2
<1>4. LinkBy(s)
  BY DEF Serving
<1> QED BY <1>2, <1>3, <1>4 DEF LinkBy

(* Receiving.                                                              *)
LEMMA ReceiveKeeps ==
  ASSUME PipeTyped, Serving, NEW r \in PipeRanks, Receive(r)
  PROVE  PipeInv'
<1>1. Does(r, "recv") /\ wire[r] # << >>
      /\ wire' = [wire EXCEPT ![r] = Tail(@)]
      /\ read' = [read EXCEPT ![r] = Append(@, Head(wire[r]))]
      /\ UNCHANGED <<held, mode>>
  BY StepDoes DEF Receive
<1>2. /\ OrderOK(order) /\ ProgOK(r, order, round[r], program[r]) /\ program[r] # << >>
      /\ Head(program[r]).op = "recv" /\ Has("recv", r, order, round[r])
      /\ ReadOK(r, order, round[r], program[r], read[r])
      /\ read[r] \in Seq(Passes) /\ wire[r] \in Seq(Passes) /\ order' = order
      /\ round'[r] = RoundAfter(round[r], program[r])
      /\ program'[r] = ProgAfter(r, order, round[r], program[r])
      /\ MovesOn(r) /\ \A s \in PipeRanks : s # r => Stays(s)
  BY <1>1, AtOp
<1>3. r # 0 /\ Taking(r) = "recv" /\ "recv" \notin Flags /\ ~Meets("recv", order, round[r])
  BY <1>2 DEF Has, Taking, Flags, Meets
<1>4. r - 1 \in PipeRanks /\ r - 1 # LastStage /\ (r - 1) + 1 = r /\ r \in Nat /\ r # r - 1
  BY <1>3, RanksAre DEF PipeRanks
<1> DEFINE s == r - 1
<1>5. LinkOK(order, held[s], wire[r], TookBy(r), GaveBy(s), Back(s))
  BY <1>4 DEF Serving, LinkBy
<1>6. /\ TookBy(s + 1)' = TookBy(r) + 1 /\ TookBy(r) \in Nat
      /\ GaveBy(s)' = GaveBy(s) /\ Back(s)' = Back(s)
  <2>1. /\ TookBy(r) \in Nat /\ TookBy(r)' = TookBy(r) + Bit("recv" = Taking(r))
    BY <1>2, RankGoesOn
  <2>2. GaveBy(s)' = GaveBy(s) /\ Back(s)' = Back(s)
    BY <1>2, <1>4, RankStays
  <2> QED BY <1>3, <1>4, <2>1, <2>2 DEF Bit
<1>7. GaveBy(s) \in Nat /\ Back(s) \in Nat /\ Back(s) <= 1
  BY <1>4, ServingCounts
<1>8. /\ Head(wire[r]) = <<order.id, PosOf(order, TookBy(r) + 1)>>
      /\ Tail(wire[r]) \in Seq(Passes)
      /\ LinkOK(order, held[s], Tail(wire[r]), TookBy(r) + 1, GaveBy(s), Back(s))
  <2>1. wire[r] # << >> /\ wire[r] \in Seq(Passes) /\ TookBy(r) \in Nat /\ OrderOK(order)
    BY <1>1, <1>2, <1>6
  <2>2. PICK took \in Nat : took = TookBy(r)
    BY <2>1
  <2>3. PICK gave \in Nat : gave = GaveBy(s)
    BY <1>7
  <2>4. PICK back \in Nat : back = Back(s)
    BY <1>7
  <2>5. LinkOK(order, held[s], wire[r], took, gave, back)
    BY <1>5, <2>2, <2>3, <2>4
  <2>6. Head(wire[r]) = <<order.id, PosOf(order, took + 1)>>
    BY <2>1, <2>5, LinkFirst
  <2>7. LinkOK(order, held[s], Tail(wire[r]), took + 1, gave, back)
    <3> DEFINE t == Tail(wire[r])
    <3>1. t = Tail(wire[r])
      OBVIOUS
    <3> HIDE DEF t
    <3>2. LinkOK(order, held[s], t, took + 1, gave, back)
      BY <2>1, <2>5, <3>1, LinkTaken
    <3> QED BY <3>2 DEF t
  <2>8. Tail(wire[r]) \in Seq(Passes)
    BY <2>1
  <2> QED BY <2>2, <2>3, <2>4, <2>6, <2>7, <2>8
<1>9. /\ wire' \in [PipeRanks -> Seq(Passes)] /\ wire'[r] = Tail(wire[r])
      /\ \A u \in PipeRanks : u # r => wire'[u] = wire[u]
  BY <1>1, <1>8 DEF PipeTyped
<1>10. read'[r] = Append(read[r], <<order.id, PosOf(order, TookBy(r) + 1)>>)
       /\ \A u \in PipeRanks : u # r => read'[u] = read[u]
  BY <1>1, <1>8 DEF PipeTyped
<1>11. read'[r] \in Seq(Passes) /\ ReadOK(r, order, round'[r], program'[r], read'[r])
  <2>1. TookBy(r) = Took(r, order, round[r], program[r])
    BY DEF TookBy
  <2>2. LET o == Head(program[r]).op
        IN  /\ o = Taking(r) =>
                 read'[r] = Append(read[r], <<order.id, PosOf(order, Took(r, order, round[r], program[r]) + 1)>>)
            /\ o = "decode" => read'[r] = SubSeq(read[r], 1, Len(read[r]) - 2)
            /\ o # Taking(r) /\ o # "decode" => read'[r] = read[r]
    BY <1>2, <1>3, <1>10, <2>1
  <2>3. /\ read'[r] \in Seq(Passes)
        /\ ReadOK(r, order, RoundAfter(round[r], program[r]),
                  ProgAfter(r, order, round[r], program[r]), read'[r])
    BY <1>2, <2>2, ReadGoesOn
  <2> QED BY <1>2, <2>3
<1>12. read' \in [PipeRanks -> Seq(Passes)]
  BY <1>1, <1>11 DEF PipeTyped
<1>13. ASSUME NEW u \in PipeRanks, u # LastStage PROVE LinkBy(u)'
  <2>1. CASE u = s
    <3>1. /\ held' = held /\ order' = order /\ wire'[s + 1] = Tail(wire[r])
          /\ TookBy(s + 1)' = TookBy(r) + 1
          /\ GaveBy(s)' = GaveBy(s) /\ Back(s)' = Back(s)
      BY <1>1, <1>2, <1>4, <1>6, <1>9
    <3>2. LinkBy(s)'
      BY <1>8, <3>1 DEF LinkBy
    <3> QED BY <2>1, <3>2
  <2>2. CASE u = r
    <3>1. r + 1 \in PipeRanks /\ r + 1 # r
      BY <1>4, <1>13, <2>2, RanksAre
    <3>2. TookBy(r + 1)' = TookBy(r + 1)
      BY <1>2, <3>1, RankStays
    <3>3. GaveBy(r)' = GaveBy(r) /\ Back(r)' = Back(r)
      <4>1. /\ GaveBy(r) \in Nat /\ GaveBy(r)' = GaveBy(r) + Bit("recv" = "send")
            /\ HoldsBack(r)' <=> HoldsBack(r)
        BY <1>2, <1>13, <2>2, RankGoesOn
      <4> QED BY <4>1 DEF Bit, Back
    <3>4. LinkBy(r)
      BY <1>13, <2>2 DEF Serving
    <3>5. wire'[r + 1] = wire[r + 1] /\ held' = held /\ order' = order
      BY <1>1, <1>2, <1>9, <3>1
    <3> QED BY <2>2, <3>2, <3>3, <3>4, <3>5 DEF LinkBy
  <2>3. CASE u # s /\ u # r
    <3>1. u + 1 # r /\ u + 1 \in PipeRanks
      BY <1>4, <1>13, <2>3, RanksAre
    <3>2. held'[u] = held[u] /\ wire'[u + 1] = wire[u + 1]
      BY <1>1, <1>9, <3>1
    <3> QED BY <1>1, <1>13, <2>3, <3>1, <3>2, OtherLinks
  <2> QED BY <2>1, <2>2, <2>3
<1>14. wire'[0] = << >> /\ held'[LastStage] = << >>
  BY <1>1, <1>3, <1>9, RanksAre DEF Serving
<1>15. /\ mode' \in [PipeRanks -> Flags] /\ held' \in [PipeRanks -> Seq(Passes)]
       /\ \A u \in PipeRanks : mode'[u] = IF u = r /\ "recv" \in Flags THEN "recv" ELSE mode[u]
  BY <1>1, <1>3 DEF PipeTyped
<1>16. Does(r, "recv") /\ ~Meets("recv", order, round[r]) /\ wire' \in [PipeRanks -> Seq(Passes)]
       /\ ReadOK(r, order, round'[r], program'[r], read'[r])
       /\ \A u \in PipeRanks : u # r => read'[u] = read[u]
  BY <1>1, <1>3, <1>9, <1>10, <1>11
<1> HIDE DEF s
<1> QED BY <1>12, <1>13, <1>14, <1>15, <1>16, ServingGoesOn

(* The layers.                                                             *)
LEMMA ComputeKeeps ==
  ASSUME PipeTyped, Serving, NEW r \in PipeRanks, Compute(r)
  PROVE  PipeInv'
<1> DEFINE o == "compute"
<1>1. Does(r, o) /\ UNCHANGED <<held, wire, mode>>
      /\ read' = IF r = 0 THEN [read EXCEPT ![0] = Append(@, <<order.id, Pos(0)>>)] ELSE read
  BY StepDoes DEF Compute
<1>2. /\ OrderOK(order) /\ ProgOK(r, order, round[r], program[r]) /\ program[r] # << >>
      /\ Head(program[r]).op = o
      /\ ReadOK(r, order, round[r], program[r], read[r]) /\ read[r] \in Seq(Passes)
      /\ round'[r] = RoundAfter(round[r], program[r])
      /\ program'[r] = ProgAfter(r, order, round[r], program[r])
  BY <1>1, AtOp
<1>3. /\ o = Taking(r) <=> r = 0
      /\ o \notin Flags /\ ~Meets(o, order, round[r]) /\ o # "decode" /\ o # "send" /\ o # "flush"
  BY DEF Taking, Flags, Meets
<1>4. r = 0 => Pos(0) = PosOf(order, Took(r, order, round[r], program[r]) + 1)
  <2> SUFFICES ASSUME r = 0
               PROVE  Pos(0) = PosOf(order, Took(r, order, round[r], program[r]) + 1)
    OBVIOUS
  <2>1. Took(r, order, round[r], program[r]) = Before(r, order, round[r])
    BY <1>2, <1>3, TakingAt
  <2>2. Head(program[r]).at = PosOf(order, Before(r, order, round[r]) + 1)
    BY <1>2, HeadIs
  <2> QED BY <2>1, <2>2 DEF Pos
<1>5. /\ r = 0 => read'[r] = Append(read[r], <<order.id, PosOf(order, Took(r, order, round[r], program[r]) + 1)>>)
      /\ r # 0 => read'[r] = read[r]
      /\ \A u \in PipeRanks : u # r => read'[u] = read[u]
      /\ DOMAIN read' = PipeRanks
  BY <1>1, <1>4 DEF PipeTyped
<1>6. LET x == Head(program[r]).op
      IN  /\ x = Taking(r) =>
               read'[r] = Append(read[r], <<order.id, PosOf(order, Took(r, order, round[r], program[r]) + 1)>>)
          /\ x = "decode" => read'[r] = SubSeq(read[r], 1, Len(read[r]) - 2)
          /\ x # Taking(r) /\ x # "decode" => read'[r] = read[r]
  BY <1>2, <1>3, <1>5
<1>7. /\ read'[r] \in Seq(Passes)
      /\ ReadOK(r, order, RoundAfter(round[r], program[r]),
                ProgAfter(r, order, round[r], program[r]), read'[r])
  BY <1>2, <1>6, ReadGoesOn
<1>8. /\ read' \in [PipeRanks -> Seq(Passes)] /\ mode' \in [PipeRanks -> Flags]
      /\ held' \in [PipeRanks -> Seq(Passes)] /\ wire' \in [PipeRanks -> Seq(Passes)]
  <2>1. read' = IF r = 0 THEN [read EXCEPT ![r] = read'[r]] ELSE read
    BY <1>1, <1>5 DEF PipeTyped
  <2>2. read' \in [PipeRanks -> Seq(Passes)]
    BY <1>7, <2>1 DEF PipeTyped
  <2> QED BY <1>1, <2>2 DEF PipeTyped
<1>9. \A s \in PipeRanks : s # LastStage => LinkBy(s)'
  BY <1>1, <1>3, LinksStay
<1>10. wire'[0] = << >> /\ held'[LastStage] = << >>
  BY <1>1 DEF Serving
<1>11. \A u \in PipeRanks : mode'[u] = IF u = r /\ o \in Flags THEN o ELSE mode[u]
  BY <1>1, <1>3
<1>12. ReadOK(r, order, round'[r], program'[r], read'[r])
  BY <1>2, <1>7
<1> HIDE DEF o
<1> QED BY <1>1, <1>3, <1>5, <1>8, <1>9, <1>10, <1>11, <1>12, ServingGoesOn

(* An operation that reads nothing leaves what was read.                   *)
LEMMA ReadStays ==
  ASSUME PipeTyped, Serving, NEW r, NEW o, Does(r, o), o # Taking(r), o # "decode",
         read' = read
  PROVE  /\ ReadOK(r, order, round'[r], program'[r], read'[r])
         /\ read' \in [PipeRanks -> Seq(Passes)]
         /\ \A s \in PipeRanks : s # r => read'[s] = read[s]
<1>1. /\ OrderOK(order) /\ ProgOK(r, order, round[r], program[r]) /\ program[r] # << >>
      /\ Head(program[r]).op = o /\ r \in PipeRanks
      /\ ReadOK(r, order, round[r], program[r], read[r]) /\ read[r] \in Seq(Passes)
      /\ round'[r] = RoundAfter(round[r], program[r])
      /\ program'[r] = ProgAfter(r, order, round[r], program[r])
  BY AtOp
<1>2. LET x == Head(program[r]).op
      IN  /\ x = Taking(r) =>
               read'[r] = Append(read[r], <<order.id, PosOf(order, Took(r, order, round[r], program[r]) + 1)>>)
          /\ x = "decode" => read'[r] = SubSeq(read[r], 1, Len(read[r]) - 2)
          /\ x # Taking(r) /\ x # "decode" => read'[r] = read[r]
  BY <1>1
<1>3. ReadOK(r, order, RoundAfter(round[r], program[r]),
             ProgAfter(r, order, round[r], program[r]), read'[r])
  BY <1>1, <1>2, ReadGoesOn
<1> QED BY <1>1, <1>3 DEF PipeTyped

(* The gather that is left out in the prefill.                             *)
LEMMA SkipGatherKeeps ==
  ASSUME PipeTyped, Serving, NEW r \in PipeRanks, SkipGather(r)
  PROVE  PipeInv'
<1> DEFINE o == "gather"
<1>1. Does(r, o) /\ UNCHANGED <<held, wire, mode>> /\ read' = read /\ mode[r] # "decode"
  BY StepDoes DEF SkipGather
<1>2. o # Taking(r) /\ o \notin Flags /\ o # "decode" /\ o # "send" /\ o # "flush"
  BY DEF Taking, Flags
<1>3. ~Meets(o, order, round[r])
  <2>1. ModeOK(order, round[r], program[r], mode[r]) /\ round[r] \in Nat /\ OrderOK(order)
    BY <1>1, AtOp
  <2>2. ~(round[r] > PrefillRounds(order))
    BY <1>1, <2>1 DEF ModeOK
  <2> QED BY <2>2 DEF Meets
<1>4. /\ ReadOK(r, order, round'[r], program'[r], read'[r])
      /\ read' \in [PipeRanks -> Seq(Passes)]
      /\ \A s \in PipeRanks : s # r => read'[s] = read[s]
  BY <1>1, <1>2, ReadStays
<1>5. \A s \in PipeRanks : s # LastStage => LinkBy(s)'
  BY <1>1, <1>2, LinksStay
<1>6. /\ wire'[0] = << >> /\ held'[LastStage] = << >>
      /\ held' \in [PipeRanks -> Seq(Passes)] /\ wire' \in [PipeRanks -> Seq(Passes)]
      /\ mode' \in [PipeRanks -> Flags]
      /\ \A u \in PipeRanks : mode'[u] = IF u = r /\ o \in Flags THEN o ELSE mode[u]
  BY <1>1, <1>2 DEF Serving, PipeTyped
<1> HIDE DEF o
<1> QED BY <1>1, <1>3, <1>4, <1>5, <1>6, ServingGoesOn

(* Clearing finds nothing that is held back.                               *)
LEMMA ClearKeeps ==
  ASSUME PipeTyped, Serving, NEW r \in PipeRanks, Clear(r)
  PROVE  PipeInv'
<1> DEFINE o == "clear"
<1>1. /\ Does(r, o) /\ UNCHANGED <<wire, mode>> /\ read' = read
      /\ held' = [held EXCEPT ![r] = << >>]
  BY StepDoes DEF Clear
<1>2. /\ o # Taking(r) /\ o \notin Flags /\ o # "decode" /\ o # "send" /\ o # "flush"
      /\ ~Meets(o, order, round[r])
  BY DEF Taking, Flags, Meets
<1>3. held[r] = << >>
  <2>1. CASE r = LastStage
    BY <2>1 DEF Serving
  <2>2. CASE r # LastStage
    <3>1. ~HoldsBack(r)
      BY <1>1, <2>2, AtOp, RankGoesOn
    <3>2. LinkBy(r)
      BY <2>2 DEF Serving
    <3>3. Len(held[r]) = 0
      BY <3>1, <3>2 DEF LinkBy, LinkOK, Back, Bit
    <3>4. held[r] \in Seq(Passes)
      BY DEF PipeTyped
    <3> QED BY <3>3, <3>4
  <2> QED BY <2>1, <2>2
<1>4. held' = held
  BY <1>1, <1>3 DEF PipeTyped
<1>5. /\ ReadOK(r, order, round'[r], program'[r], read'[r])
      /\ read' \in [PipeRanks -> Seq(Passes)]
      /\ \A s \in PipeRanks : s # r => read'[s] = read[s]
  BY <1>1, <1>2, ReadStays
<1>6. \A s \in PipeRanks : s # LastStage => LinkBy(s)'
  BY <1>1, <1>2, <1>4, LinksStay
<1>7. /\ wire'[0] = << >> /\ held'[LastStage] = << >>
      /\ held' \in [PipeRanks -> Seq(Passes)] /\ wire' \in [PipeRanks -> Seq(Passes)]
      /\ mode' \in [PipeRanks -> Flags]
      /\ \A u \in PipeRanks : mode'[u] = IF u = r /\ o \in Flags THEN o ELSE mode[u]
  BY <1>1, <1>2, <1>4 DEF Serving, PipeTyped
<1> HIDE DEF o
<1> QED BY <1>1, <1>2, <1>5, <1>6, <1>7, ServingGoesOn

(* What was held back goes on the wire, behind what is there.              *)
LEMMA FlushKeeps ==
  ASSUME PipeTyped, Serving, NEW r \in PipeRanks, Flush(r)
  PROVE  PipeInv'
<1> DEFINE o == "flush"
<1>1. /\ Does(r, o) /\ mode' = mode /\ read' = read
      /\ wire' = IF r = LastStage THEN wire ELSE [wire EXCEPT ![r + 1] = @ \o held[r]]
      /\ held' = [held EXCEPT ![r] = << >>]
  BY StepDoes DEF Flush
<1>2. /\ o # Taking(r) /\ o \notin Flags /\ o # "decode" /\ o # "send"
      /\ ~Meets(o, order, round[r])
  BY DEF Taking, Flags, Meets
<1>3. /\ ReadOK(r, order, round'[r], program'[r], read'[r])
      /\ read' \in [PipeRanks -> Seq(Passes)]
      /\ \A s \in PipeRanks : s # r => read'[s] = read[s]
  BY <1>1, <1>2, ReadStays
<1>4. /\ held' \in [PipeRanks -> Seq(Passes)] /\ held'[r] = << >>
      /\ \A s \in PipeRanks : s # r => held'[s] = held[s]
  BY <1>1 DEF PipeTyped
<1>5. held[r] \in Seq(Passes) /\ r \in Nat /\ r <= LastStage
  BY RanksAre DEF PipeTyped
<1>6. CASE r = LastStage
  <2>1. wire' = wire /\ wire' \in [PipeRanks -> Seq(Passes)]
    BY <1>1, <1>6 DEF PipeTyped
  <2>2. ASSUME NEW s \in PipeRanks, s # LastStage PROVE LinkBy(s)'
    BY <1>1, <1>2, <1>4, <1>6, <2>1, <2>2, OtherLinks
  <2>3. /\ wire'[0] = << >> /\ held'[LastStage] = << >> /\ mode' \in [PipeRanks -> Flags]
        /\ \A u \in PipeRanks : mode'[u] = IF u = r /\ o \in Flags THEN o ELSE mode[u]
    BY <1>1, <1>2, <1>4, <1>6, <2>1 DEF Serving, PipeTyped
  <2> HIDE DEF o
  <2> QED BY <1>1, <1>2, <1>3, <1>4, <2>1, <2>2, <2>3, ServingGoesOn
<1>7. CASE r # LastStage
  <2>1. r + 1 \in PipeRanks /\ r + 1 # r /\ r + 1 # 0
    BY <1>5, <1>7, RanksAre
  <2>2. /\ wire'[r + 1] = wire[r + 1] \o held[r] /\ wire' \in [PipeRanks -> Seq(Passes)]
        /\ \A s \in PipeRanks : s # r + 1 => wire'[s] = wire[s]
    <3>1. wire[r + 1] \o held[r] \in Seq(Passes)
      BY <1>5, <2>1 DEF PipeTyped
    <3> QED BY <1>1, <1>7, <2>1, <3>1 DEF PipeTyped
  <2>3. LinkBy(r)'
    <3>1. /\ TookBy(r + 1) \in Nat /\ GaveBy(r) \in Nat /\ Back(r) \in Nat /\ Back(r) <= 1
      BY <2>1, ServingCounts
    <3>2. PICK took \in Nat : took = TookBy(r + 1)
      BY <3>1
    <3>3. PICK gave \in Nat : gave = GaveBy(r)
      BY <3>1
    <3>4. PICK back \in Nat : back = Back(r) /\ back <= 1
      BY <3>1
    <3>5. LinkBy(r)
      BY <1>7 DEF Serving
    <3>6. LinkOK(order, held[r], wire[r + 1], took, gave, back)
      BY <3>2, <3>3, <3>4, <3>5 DEF LinkBy
    <3>7. OrderOK(order) /\ wire[r + 1] \in Seq(Passes)
      BY <2>1 DEF Serving, PipeTyped
    <3> DEFINE v == wire[r + 1] \o held[r]
    <3>8. v = wire[r + 1] \o held[r]
      OBVIOUS
    <3> HIDE DEF v
    <3>9. LinkOK(order, << >>, v, took, gave, 0)
      BY <1>5, <3>4, <3>6, <3>7, <3>8, LinkFlushed
    <3>10. /\ MovesOn(r) /\ order' = order /\ Head(program[r]).op = o
           /\ \A s \in PipeRanks : s # r => Stays(s)
      BY <1>1, AtOp
    <3>11. TookBy(r + 1)' = TookBy(r + 1)
      BY <2>1, <3>10, RankStays
    <3>12. GaveBy(r)' = GaveBy(r) /\ Back(r)' = 0
      <4>1. GaveBy(r)' = GaveBy(r) + Bit(o = "send") /\ ~HoldsBack(r)'
        BY <1>7, <3>10, RankGoesOn
      <4> QED BY <1>2, <3>1, <4>1 DEF Back, Bit
    <3>13. held'[r] = << >> /\ wire'[r + 1] = v
      BY <1>4, <2>2, <3>8
    <3> QED BY <3>2, <3>3, <3>9, <3>10, <3>11, <3>12, <3>13 DEF LinkBy
  <2>4. ASSUME NEW s \in PipeRanks, s # LastStage PROVE LinkBy(s)'
    <3>1. CASE s = r
      BY <2>3, <3>1
    <3>2. CASE s # r
      <4>1. s + 1 \in PipeRanks /\ s + 1 # r + 1 /\ s \in Nat
        BY <1>5, <2>4, <3>2, RanksAre
      <4>2. held'[s] = held[s] /\ wire'[s + 1] = wire[s + 1]
        BY <1>4, <2>2, <3>2, <4>1
      <4> QED BY <1>1, <1>2, <2>4, <3>2, <4>2, OtherLinks
    <3> QED BY <3>1, <3>2
  <2>5. /\ wire'[0] = << >> /\ held'[LastStage] = << >> /\ mode' \in [PipeRanks -> Flags]
        /\ \A u \in PipeRanks : mode'[u] = IF u = r /\ o \in Flags THEN o ELSE mode[u]
    BY <1>1, <1>2, <1>4, <1>7, <2>1, <2>2, RanksAre DEF Serving, PipeTyped
  <2> HIDE DEF o
  <2> QED BY <1>1, <1>2, <1>3, <1>4, <2>2, <2>4, <2>5, ServingGoesOn
<1> QED BY <1>6, <1>7

(* The output goes on the wire, or, in a long prefill, is held back.       *)
LEMMA SendOutputKeeps ==
  ASSUME PipeTyped, Serving, NEW r \in PipeRanks, SendOutput(r)
  PROVE  PipeInv'
<1> DEFINE o == "send"  x == Last(read[r])  c == round[r]
<1>1. /\ Does(r, o) /\ mode' = mode /\ read' = read
      /\ IF mode[r] = "queue_sends"
         THEN held' = [held EXCEPT ![r] = Append(@, x)] /\ wire' = wire
         ELSE wire' = [wire EXCEPT ![r + 1] = Append(@, x)] /\ held' = held
  BY StepDoes DEF SendOutput
<1>2. /\ o # Taking(r) /\ o \notin Flags /\ o # "decode" /\ ~Meets(o, order, c)
  BY DEF Taking, Flags, Meets
<1>3. /\ ReadOK(r, order, round'[r], program'[r], read'[r])
      /\ read' \in [PipeRanks -> Seq(Passes)]
      /\ \A s \in PipeRanks : s # r => read'[s] = read[s]
  BY <1>1, <1>2, ReadStays
<1>4. /\ OrderOK(order) /\ ProgOK(r, order, c, program[r]) /\ program[r] # << >>
      /\ Head(program[r]).op = o /\ read[r] \in Seq(Passes)
      /\ ReadOK(r, order, c, program[r], read[r]) /\ ModeOK(order, c, program[r], mode[r])
      /\ MovesOn(r) /\ order' = order /\ c \in Nat /\ r \in Nat /\ r <= LastStage
      /\ held[r] \in Seq(Passes) /\ \A s \in PipeRanks : s # r => Stays(s)
  BY <1>1, AtOp
<1>5. HasPass(r, order, c) /\ r # LastStage
  BY <1>4, SendingAt
<1>6. r + 1 \in PipeRanks /\ r + 1 # r /\ r + 1 # 0 /\ wire[r + 1] \in Seq(Passes)
  <2>1. r + 1 \in PipeRanks
    BY <1>5, RanksAre
  <2> QED BY <1>4, <2>1 DEF PipeTyped
<1>7. mode[r] = "queue_sends" <=> order.long /\ c <= PrefillRounds(order)
  <2>1. c # 0
    BY <1>4, <1>5, OrderIs DEF HasPass
  <2> QED BY <1>4, <2>1, OrderIs DEF ModeOK
<1>8. x = <<order.id, PosOf(order, GaveBy(r) + 1)>>
  BY <1>4, LastRead DEF GaveBy
<1>9. /\ TookBy(r + 1) \in Nat /\ GaveBy(r) \in Nat /\ TookBy(r + 1)' = TookBy(r + 1)
      /\ GaveBy(r)' = GaveBy(r) + 1 /\ Back(r) = 0
      /\ Back(r)' = (IF mode[r] = "queue_sends" THEN 1 ELSE 0)
  <2>1. TookBy(r + 1) \in Nat /\ GaveBy(r) \in Nat
    BY <1>6, ServingCounts
  <2>2. TookBy(r + 1)' = TookBy(r + 1)
    BY <1>4, <1>6, RankStays
  <2>3. /\ GaveBy(r)' = GaveBy(r) + Bit(o = "send") /\ ~HoldsBack(r)
        /\ HoldsBack(r)' <=> order.long /\ c <= PrefillRounds(order)
    BY <1>4, <1>5, RankGoesOn
  <2> QED BY <1>7, <2>1, <2>2, <2>3 DEF Back, Bit
<1>10. PICK took \in Nat : took = TookBy(r + 1)
  BY <1>9
<1>11. PICK gave \in Nat : gave = GaveBy(r)
  BY <1>9
<1>12. LinkOK(order, held[r], wire[r + 1], took, gave, 0)
  <2>1. LinkBy(r)
    BY <1>5 DEF Serving
  <2> QED BY <1>9, <1>10, <1>11, <2>1 DEF LinkBy
<1>13. x = <<order.id, PosOf(order, gave + 1)>>
  BY <1>8, <1>11
<1>14. CASE mode[r] = "queue_sends"
  <2> DEFINE v == Append(held[r], x)
  <2>1. v = Append(held[r], x) /\ wire' = wire /\ held' = [held EXCEPT ![r] = v]
    BY <1>1, <1>14
  <2> HIDE DEF v, x
  <2>2. v \in Seq(Passes) /\ LinkOK(order, v, wire[r + 1], took, gave + 1, 1)
    BY <1>4, <1>6, <1>12, <1>13, <2>1, LinkQueued
  <2>3. /\ held' \in [PipeRanks -> Seq(Passes)] /\ wire' \in [PipeRanks -> Seq(Passes)]
        /\ held'[r] = v /\ \A s \in PipeRanks : s # r => held'[s] = held[s]
    BY <2>1, <2>2 DEF PipeTyped
  <2>4. LinkBy(r)'
    BY <1>4, <1>9, <1>10, <1>11, <1>14, <2>1, <2>2, <2>3 DEF LinkBy
  <2>5. ASSUME NEW s \in PipeRanks, s # LastStage PROVE LinkBy(s)'
    <3>1. CASE s = r
      BY <2>4, <3>1
    <3>2. CASE s # r
      BY <1>1, <1>2, <2>1, <2>3, <2>5, <3>2, OtherLinks
    <3> QED BY <3>1, <3>2
  <2>6. /\ wire'[0] = << >> /\ held'[LastStage] = << >> /\ mode' \in [PipeRanks -> Flags]
        /\ \A u \in PipeRanks : mode'[u] = IF u = r /\ o \in Flags THEN o ELSE mode[u]
    BY <1>1, <1>2, <1>5, <2>1, <2>3, RanksAre DEF Serving, PipeTyped
  <2> HIDE DEF o, c
  <2> QED BY <1>1, <1>2, <1>3, <2>3, <2>5, <2>6, ServingGoesOn DEF c
<1>15. CASE mode[r] # "queue_sends"
  <2> DEFINE v == Append(wire[r + 1], x)
  <2>1. v = Append(wire[r + 1], x) /\ held' = held /\ wire' = [wire EXCEPT ![r + 1] = v]
    BY <1>1, <1>15
  <2> HIDE DEF v, x
  <2>2. v \in Seq(Passes) /\ LinkOK(order, held[r], v, took, gave + 1, 0)
    BY <1>4, <1>6, <1>12, <1>13, <2>1, LinkSent
  <2>3. /\ held' \in [PipeRanks -> Seq(Passes)] /\ wire' \in [PipeRanks -> Seq(Passes)]
        /\ wire'[r + 1] = v /\ \A s \in PipeRanks : s # r + 1 => wire'[s] = wire[s]
    BY <1>6, <2>1, <2>2 DEF PipeTyped
  <2>4. LinkBy(r)'
    BY <1>4, <1>9, <1>10, <1>11, <1>15, <2>1, <2>2, <2>3 DEF LinkBy
  <2>5. ASSUME NEW s \in PipeRanks, s # LastStage PROVE LinkBy(s)'
    <3>1. CASE s = r
      BY <2>4, <3>1
    <3>2. CASE s # r
      <4>1. s + 1 \in PipeRanks /\ s + 1 # r + 1 /\ s \in Nat
        BY <1>4, <2>5, <3>2, RanksAre
      <4>2. held'[s] = held[s] /\ wire'[s + 1] = wire[s + 1]
        BY <2>1, <2>3, <4>1
      <4> QED BY <1>1, <1>2, <2>5, <3>2, <4>2, OtherLinks
    <3> QED BY <3>1, <3>2
  <2>6. /\ wire'[0] = << >> /\ held'[LastStage] = << >> /\ mode' \in [PipeRanks -> Flags]
        /\ \A u \in PipeRanks : mode'[u] = IF u = r /\ o \in Flags THEN o ELSE mode[u]
    BY <1>1, <1>2, <1>6, <2>1, <2>3, RanksAre DEF Serving, PipeTyped
  <2> HIDE DEF o, c
  <2> QED BY <1>1, <1>2, <1>3, <2>3, <2>5, <2>6, ServingGoesOn DEF c
<1> QED BY <1>14, <1>15

(* The flags; at the end of the prefill two passes are put back.           *)
LEMMA SetModeKeeps ==
  ASSUME PipeTyped, Serving, NEW r \in PipeRanks, SetMode(r)
  PROVE  PipeInv'
<1>1. PICK o \in Flags :
        /\ Doing(r, o) /\ mode' = [mode EXCEPT ![r] = o]
        /\ read' = IF o = "decode" THEN [read EXCEPT ![r] = SubSeq(@, 1, Len(@) - 2)] ELSE read
        /\ Done(r) /\ UNCHANGED <<held, wire, order, nserved>>
  BY DEF SetMode, Flags
<1>2. Does(r, o) /\ UNCHANGED <<held, wire>>
  BY <1>1, StepDoes
<1>3. o # Taking(r) /\ o # "send" /\ o # "flush" /\ ~Meets(o, order, round[r])
  BY <1>1 DEF Taking, Flags, Meets
<1>4. /\ OrderOK(order) /\ ProgOK(r, order, round[r], program[r]) /\ program[r] # << >>
      /\ Head(program[r]).op = o /\ read[r] \in Seq(Passes)
      /\ ReadOK(r, order, round[r], program[r], read[r])
      /\ round'[r] = RoundAfter(round[r], program[r])
      /\ program'[r] = ProgAfter(r, order, round[r], program[r])
  BY <1>2, AtOp
<1>5. /\ o = "decode" => read'[r] = SubSeq(read[r], 1, Len(read[r]) - 2)
      /\ o # "decode" => read'[r] = read[r]
      /\ \A s \in PipeRanks : s # r => read'[s] = read[s]
  BY <1>1 DEF PipeTyped
<1>6. LET y == Head(program[r]).op
      IN  /\ y = Taking(r) =>
               read'[r] = Append(read[r], <<order.id, PosOf(order, Took(r, order, round[r], program[r]) + 1)>>)
          /\ y = "decode" => read'[r] = SubSeq(read[r], 1, Len(read[r]) - 2)
          /\ y # Taking(r) /\ y # "decode" => read'[r] = read[r]
  BY <1>3, <1>4, <1>5
<1>7. /\ read'[r] \in Seq(Passes)
      /\ ReadOK(r, order, RoundAfter(round[r], program[r]),
                ProgAfter(r, order, round[r], program[r]), read'[r])
  BY <1>4, <1>6, ReadGoesOn
<1>8. read' \in [PipeRanks -> Seq(Passes)]
  <2>1. read' = IF o = "decode" THEN [read EXCEPT ![r] = read'[r]] ELSE read
    BY <1>1, <1>5 DEF PipeTyped
  <2> QED BY <1>7, <2>1 DEF PipeTyped
<1>9. \A s \in PipeRanks : s # LastStage => LinkBy(s)'
  BY <1>2, <1>3, LinksStay
<1>10. /\ wire'[0] = << >> /\ held'[LastStage] = << >>
       /\ held' \in [PipeRanks -> Seq(Passes)] /\ wire' \in [PipeRanks -> Seq(Passes)]
  BY <1>2 DEF Serving, PipeTyped
<1>11. /\ mode' \in [PipeRanks -> Flags]
       /\ \A u \in PipeRanks : mode'[u] = IF u = r /\ o \in Flags THEN o ELSE mode[u]
  BY <1>1 DEF PipeTyped
<1>12. ReadOK(r, order, round'[r], program'[r], read'[r])
  BY <1>4, <1>7
<1> QED BY <1>2, <1>3, <1>5, <1>8, <1>9, <1>10, <1>11, <1>12, ServingGoesOn

-----------------------------------------------------------------------------
(* The operations of all ranks.                                            *)

(* All ranks come to a collective and go on.                               *)
LEMMA CollectiveKeeps ==
  ASSUME PipeTyped, Serving, NEW op, Collective(op)
  PROVE  PipeInv'
<1>1. /\ op \in {"barrier", "callback", "gather"}
      /\ \A r \in PipeRanks : Doing(r, op)
      /\ op = "gather" => \A r \in PipeRanks : mode[r] = "decode"
      /\ program' = [r \in PipeRanks |-> Following(r)]
      /\ round' = [r \in PipeRanks |-> round[r] + (IF RoundDone(r) THEN 1 ELSE 0)]
      /\ UNCHANGED <<held, wire, read, mode, order, nserved>>
  BY DEF Collective, AllAt
<1>2. op \notin Flags /\ op # "send" /\ op # "flush" /\ op # "decode"
  BY <1>1 DEF Flags
<1>3. ASSUME NEW s \in PipeRanks
      PROVE  /\ ProgOK(s, order, round'[s], program'[s])
             /\ program'[s] \in Seq(PipeOps) /\ round'[s] \in Nat
             /\ ModeOK(order, round'[s], program'[s], mode[s])
             /\ ReadOK(s, order, round'[s], program'[s], read[s])
             /\ TookBy(s)' = TookBy(s)
             /\ s # LastStage => GaveBy(s)' = GaveBy(s) /\ Back(s)' = Back(s)
             /\ MetBy(s) \in Nat /\ MetBy(s)' = MetBy(s) + 1
  <2>1. program[s] # << >> /\ Head(program[s]).op = op
    BY <1>1 DEF Doing
  <2>2. round[s] \in Nat /\ order' = order /\ read[s] \in Seq(Passes)
    BY <1>1 DEF PipeTyped
  <2>3. MovesOn(s)
    BY <1>1, <2>1, <2>2 DEF MovesOn
  <2>4. op # Taking(s)
    BY <1>1 DEF Taking
  <2>5. /\ OrderOK(order) /\ ProgOK(s, order, round[s], program[s])
        /\ ModeOK(order, round[s], program[s], mode[s])
        /\ ReadOK(s, order, round[s], program[s], read[s])
    BY DEF Serving
  <2>6. Meets(op, order, round[s])
    <3>1. CASE op = "gather"
      <4>1. HasPass(s, order, round[s])
        BY <2>1, <2>5, <3>1, HeadIs DEF Has
      <4>2. round[s] # 0
        BY <2>2, <2>5, <4>1, OrderIs, RanksAre DEF HasPass
      <4>3. mode[s] = "decode"
        BY <1>1, <3>1
      <4>4. ~(round[s] <= PrefillRounds(order))
        BY <2>5, <4>2, <4>3 DEF ModeOK
      <4> QED BY <2>2, <2>5, <3>1, <4>4, OrderIs DEF Meets
    <3>2. CASE op # "gather"
      BY <1>1, <3>2 DEF Meets
    <3> QED BY <3>1, <3>2
  <2>7. /\ ProgOK(s, order, round'[s], program'[s])
        /\ program'[s] \in Seq(PipeOps) /\ round'[s] \in Nat
        /\ TookBy(s) \in Nat /\ TookBy(s)' = TookBy(s) + Bit(op = Taking(s))
        /\ MetBy(s) \in Nat /\ MetBy(s)' = MetBy(s) + Bit(Meets(op, order, round[s]))
        /\ ModeOK(order, round'[s], program'[s], IF op \in Flags THEN op ELSE mode[s])
    BY <2>1, <2>2, <2>3, RankGoesOn
  <2>8. ASSUME s # LastStage PROVE GaveBy(s)' = GaveBy(s) /\ Back(s)' = Back(s)
    <3>1. /\ GaveBy(s) \in Nat /\ GaveBy(s)' = GaveBy(s) + Bit(op = "send")
          /\ HoldsBack(s)' <=> HoldsBack(s)
      BY <1>2, <2>1, <2>2, <2>3, <2>8, RankGoesOn
    <3> QED BY <1>2, <3>1 DEF Back, Bit
  <2>9. ReadOK(s, order, round'[s], program'[s], read[s])
    <3>1. /\ round'[s] = RoundAfter(round[s], program[s])
          /\ program'[s] = ProgAfter(s, order, round[s], program[s])
      BY <2>3 DEF MovesOn, RoundAfter, ProgAfter, RoundDone, Following
    <3> DEFINE rd == read[s]
    <3>2. LET o == Head(program[s]).op
          IN  /\ o = Taking(s) =>
                   rd = Append(read[s], <<order.id, PosOf(order, Took(s, order, round[s], program[s]) + 1)>>)
              /\ o = "decode" => rd = SubSeq(read[s], 1, Len(read[s]) - 2)
              /\ o # Taking(s) /\ o # "decode" => rd = read[s]
      BY <1>2, <2>1, <2>4
    <3> HIDE DEF rd
    <3>3. ReadOK(s, order, RoundAfter(round[s], program[s]),
                 ProgAfter(s, order, round[s], program[s]), rd)
      BY <2>1, <2>2, <2>5, <3>2, ReadGoesOn
    <3> QED BY <3>1, <3>3 DEF rd
  <2>10. TookBy(s)' = TookBy(s) /\ MetBy(s)' = MetBy(s) + 1
    BY <2>4, <2>6, <2>7 DEF Bit
  <2>11. ModeOK(order, round'[s], program'[s], mode[s])
    BY <1>2, <2>7
  <2> QED BY <2>7, <2>8, <2>9, <2>10, <2>11
<1>4. PipeTyped'
  <2>1. DOMAIN program' = PipeRanks /\ DOMAIN round' = PipeRanks
    BY <1>1
  <2>2. program' = [s \in PipeRanks |-> program'[s]] /\ round' = [s \in PipeRanks |-> round'[s]]
    BY <1>1
  <2>3. program' \in [PipeRanks -> Seq(PipeOps)] /\ round' \in [PipeRanks -> Nat]
    BY <1>3, <2>2
  <2> QED BY <1>1, <2>3 DEF PipeTyped
<1>5. ASSUME NEW s \in PipeRanks, s # LastStage PROVE LinkBy(s)'
  <2>1. s + 1 \in PipeRanks /\ LinkBy(s)
    BY <1>5, RanksAre DEF Serving
  <2>2. TookBy(s + 1)' = TookBy(s + 1) /\ GaveBy(s)' = GaveBy(s) /\ Back(s)' = Back(s)
    BY <1>3, <1>5, <2>1
  <2> QED BY <1>1, <2>1, <2>2 DEF LinkBy
<1>6. \A r, s \in PipeRanks : MetBy(r)' = MetBy(s)'
  BY <1>3 DEF Serving
<1>7. Serving'
  BY <1>1, <1>3, <1>5, <1>6 DEF Serving
<1> QED BY <1>4, <1>7 DEF PipeInv

(* A rank at a callback.                                                   *)
LEMMA CallbackAt ==
  ASSUME NEW q, OrderOK(q), NEW r \in PipeRanks, NEW c, NEW p, ProgOK(r, q, c, p), p # << >>,
         Head(p).op = "callback"
  PROVE  /\ c \in Nat /\ CallsIn(q, c)
         /\ Meetings(q, c, p) = IF q.long THEN c ELSE IF c = 3 THEN 3 ELSE c + 1
         /\ Took(r, q, c, p) = Before(r, q, c) + Bit(HasPass(r, q, c))
         /\ Gave(r, q, c, p) = Before(r, q, c) + Bit(HasPass(r, q, c))
         /\ Pending(r, q, c, p) <=> HasPass(r, q, c) /\ q.long
<1>1. /\ "callback" \in OpsIn(p) /\ Has("callback", r, q, c) /\ c \in 0 .. AllRounds(q)
      /\ \A x \in OpsIn(p) : x = "callback" \/ Place(x) > Place("callback")
  BY HeadIs
<1>2. c \in Nat /\ CallsIn(q, c) /\ q.long \in BOOLEAN /\ PrefillRounds(q) \in Nat
      /\ (~q.long => PrefillRounds(q) = 3)
  BY <1>1, OrderIs DEF Has
<1>3. "barrier" \notin OpsIn(p) /\ "send" \notin OpsIn(p) /\ Taking(r) \notin OpsIn(p)
  <2>1. \A x \in {"barrier", "send", "recv", "compute"} :
          x # "callback" /\ ~(Place(x) > Place("callback"))
    BY DEF Place
  <2>2. Taking(r) \in {"barrier", "send", "recv", "compute"}
    BY DEF Taking
  <2> QED BY <1>1, <2>1, <2>2
<1>4. c <= PrefillRounds(q)
  BY <1>2 DEF CallsIn
<1>5. Meetings(q, c, p) = IF q.long THEN c ELSE IF c = 3 THEN 3 ELSE c + 1
  <2>1. Bit(CallsIn(q, c) /\ "callback" \notin OpsIn(p)) = 0
    BY <1>1 DEF Bit
  <2>2. Bit(Decodes(q, c) /\ "gather" \notin OpsIn(p)) = 0
    BY <1>2, <1>4 DEF Bit, Decodes
  <2>3. Bit(c = 0 /\ "barrier" \notin OpsIn(p)) = IF c = 0 THEN 1 ELSE 0
    BY <1>3 DEF Bit
  <2>4. MetBefore(q, c) + (IF c = 0 THEN 1 ELSE 0)
          = IF q.long THEN c ELSE IF c = 3 THEN 3 ELSE c + 1
    BY <1>2 DEF MetBefore, CallsIn
  <2>5. MetBefore(q, c) \in Nat
    BY <1>2 DEF MetBefore, CallsIn
  <2> QED BY <2>1, <2>2, <2>3, <2>4, <2>5 DEF Meetings
<1>6. Pending(r, q, c, p) <=> HasPass(r, q, c) /\ q.long
  <2>1. Has("flush", r, q, c) <=> q.long /\ HasPass(r, q, c)
    BY <1>4 DEF Has
  <2>2. "flush" \in OpsIn(p) => Has("flush", r, q, c)
    BY DEF ProgOK
  <2>3. Has("flush", r, q, c) => "flush" \in OpsIn(p)
    <3>1. "flush" \in OpNames /\ Place("callback") <= Place("flush")
      BY DEF OpNames, Place
    <3> QED BY <3>1 DEF ProgOK
  <2> QED BY <1>3, <2>1, <2>2, <2>3 DEF Pending
<1>7. /\ Took(r, q, c, p) = Before(r, q, c) + Bit(HasPass(r, q, c))
      /\ Gave(r, q, c, p) = Before(r, q, c) + Bit(HasPass(r, q, c))
  BY <1>3 DEF Took, Gave, Num, Bit
<1> QED BY <1>2, <1>5, <1>6, <1>7

(* In such a round a rank has taken in exactly the passes that the rank    *)
(* before it has given and does not hold back.                             *)
LEMMA NoneBetween ==
  ASSUME NEW q, OrderOK(q), NEW r \in PipeRanks, r # LastStage, NEW c \in Nat, CallsIn(q, c)
  PROVE  (Before(r, q, c) + Bit(HasPass(r, q, c))) - Bit(HasPass(r, q, c) /\ q.long)
           = Before(r + 1, q, c) + Bit(HasPass(r + 1, q, c))
<1>1. /\ r \in Nat /\ r + 1 <= LastStage /\ LastStage \in Nat
      /\ q.chunks \in Nat /\ q.chunks >= 1 /\ q.long \in BOOLEAN
      /\ PrefillRounds(q) = (IF q.long THEN q.chunks + LastStage + 2 ELSE 3)
  BY OrderIs, RanksAre
<1>2. CASE q.long
  <2>1. PrefillRounds(q) = q.chunks + LastStage + 2 /\ 1 <= c /\ c <= q.chunks + LastStage
    BY <1>1, <1>2 DEF CallsIn
  <2>2. ASSUME NEW s \in {r, r + 1}
        PROVE  /\ HasPass(s, q, c) <=> 1 <= c - s /\ c - s <= q.chunks
               /\ Before(s, q, c) = IF c <= s THEN 0
                                    ELSE IF c - s - 1 <= q.chunks THEN c - s - 1 ELSE q.chunks
    BY <1>1, <1>2, <2>1, <2>2 DEF HasPass, Before
  <2> QED BY <1>1, <1>2, <2>2 DEF Bit
<1>3. CASE ~q.long
  <2>1. PrefillRounds(q) = 3 /\ c <= 3
    BY <1>1, <1>3 DEF CallsIn
  <2>2. /\ HasPass(r, q, c) <=> HasPass(r + 1, q, c)
        /\ Before(r, q, c) = Before(r + 1, q, c)
    BY <1>1, <1>3, <2>1 DEF HasPass, Before
  <2>3. Before(r, q, c) \in Nat
    BY <1>1, <1>3, <2>1 DEF Before
  <2> QED BY <1>3, <2>2, <2>3 DEF Bit
<1> QED BY <1>1, <1>2, <1>3

(* All ranks are in the same round when they agree to leave it.            *)
LEMMA CancelKeeps ==
  ASSUME PipeTyped, Serving, CancelAgreed
  PROVE  PipeInv'
<1>1. /\ \A r \in PipeRanks : Doing(r, "callback")
      /\ program' = [r \in PipeRanks |-> << >>]
      /\ held' = [r \in PipeRanks |-> << >>]
      /\ mode' = [r \in PipeRanks |-> "decode"]
      /\ order' = [order EXCEPT !.cancelled = TRUE]
      /\ UNCHANGED <<round, wire, read, nserved>>
  BY DEF CancelAgreed, AllAt, AfterCancel
<1>2. OrderOK(order) /\ order'.id = order.id /\ order.long \in BOOLEAN
  BY <1>1, OrderIs DEF Serving, OrderOK, Orders
<1>3. ASSUME NEW r \in PipeRanks
      PROVE  LET c == round[r]
             IN  /\ c \in Nat /\ CallsIn(order, c)
                 /\ MetBy(r) = IF order.long THEN c ELSE IF c = 3 THEN 3 ELSE c + 1
                 /\ TookBy(r) = Before(r, order, c) + Bit(HasPass(r, order, c))
                 /\ GaveBy(r) = Before(r, order, c) + Bit(HasPass(r, order, c))
                 /\ Back(r) = Bit(HasPass(r, order, c) /\ order.long)
  <2>1. program[r] # << >> /\ Head(program[r]).op = "callback"
    BY <1>1 DEF Doing
  <2>2. ProgOK(r, order, round[r], program[r])
    BY DEF Serving
  <2>3. LET c == round[r]  p == program[r]
        IN  /\ c \in Nat /\ CallsIn(order, c)
            /\ Meetings(order, c, p) = IF order.long THEN c ELSE IF c = 3 THEN 3 ELSE c + 1
            /\ Took(r, order, c, p) = Before(r, order, c) + Bit(HasPass(r, order, c))
            /\ Gave(r, order, c, p) = Before(r, order, c) + Bit(HasPass(r, order, c))
            /\ Pending(r, order, c, p) <=> HasPass(r, order, c) /\ order.long
    BY <1>2, <2>1, <2>2, CallbackAt
  <2>4. Back(r) = Bit(HasPass(r, order, round[r]) /\ order.long)
    BY <2>3 DEF Back, HoldsBack, Bit
  <2> QED BY <2>3, <2>4 DEF MetBy, TookBy, GaveBy
<1>4. ASSUME NEW r \in PipeRanks, NEW s \in PipeRanks PROVE round[r] = round[s]
  <2>1. MetBy(r) = MetBy(s)
    BY DEF Serving
  <2>2. CASE order.long
    BY <1>3, <2>1, <2>2
  <2>3. CASE ~order.long
    <3>1. round[r] \in {0, 1, 3} /\ round[s] \in {0, 1, 3}
      BY <1>3, <2>3 DEF CallsIn
    <3> QED BY <1>3, <2>1, <2>3, <3>1
  <2> QED BY <1>2, <2>2, <2>3
<1>5. ASSUME NEW r \in PipeRanks, r # LastStage PROVE wire[r + 1] = << >>
  <2>1. r + 1 \in PipeRanks
    BY <1>5, RanksAre
  <2>2. round[r + 1] = round[r]
    BY <1>4, <2>1
  <2>3. GaveBy(r) - Back(r) = TookBy(r + 1)
    <3>1. (Before(r, order, round[r]) + Bit(HasPass(r, order, round[r])))
            - Bit(HasPass(r, order, round[r]) /\ order.long)
            = Before(r + 1, order, round[r]) + Bit(HasPass(r + 1, order, round[r]))
      BY <1>2, <1>3, <1>5, NoneBetween
    <3>2. TookBy(r + 1) = Before(r + 1, order, round[r]) + Bit(HasPass(r + 1, order, round[r]))
      <4>1. TookBy(r + 1) = Before(r + 1, order, round[r + 1])
                            + Bit(HasPass(r + 1, order, round[r + 1]))
        BY <1>3, <2>1
      <4> QED BY <2>2, <4>1
    <3>3. /\ GaveBy(r) = Before(r, order, round[r]) + Bit(HasPass(r, order, round[r]))
          /\ Back(r) = Bit(HasPass(r, order, round[r]) /\ order.long)
      BY <1>3
    <3> QED BY <3>1, <3>2, <3>3
  <2>4. TookBy(r + 1) + Len(wire[r + 1]) + Len(held[r]) = GaveBy(r) /\ Len(held[r]) = Back(r)
    BY <1>5 DEF Serving, LinkBy, LinkOK
  <2>5. TookBy(r + 1) \in Nat /\ GaveBy(r) \in Nat /\ Back(r) \in Nat
    BY <2>1, ServingCounts
  <2>6. wire[r + 1] \in Seq(Passes)
    BY <2>1 DEF PipeTyped
  <2>7. Len(wire[r + 1]) = 0
    BY <2>3, <2>4, <2>5, <2>6
  <2> QED BY <2>6, <2>7
<1>6. ASSUME NEW r \in PipeRanks PROVE wire[r] = << >>
  <2>1. CASE r = 0
    BY <2>1 DEF Serving
  <2>2. CASE r # 0
    <3>1. r - 1 \in PipeRanks /\ r - 1 # LastStage /\ (r - 1) + 1 = r
      BY <2>2, RanksAre DEF PipeRanks
    <3> QED BY <1>5, <3>1
  <2> QED BY <2>1, <2>2
<1>7. PipeTyped'
  <2>1. << >> \in Seq(PipeOps) /\ << >> \in Seq(Passes) /\ "decode" \in Flags
    BY DEF Flags
  <2> QED BY <1>1, <1>2, <2>1 DEF PipeTyped
<1>8. Resting' /\ NothingUnderWay'
  BY <1>1, <1>6 DEF Resting, NothingUnderWay
<1>9. OwnPasses'
  BY <1>1, <1>2, ServingOwn DEF OwnPasses
<1> QED BY <1>7, <1>8, <1>9 DEF PipeInv, PassesKeptApart

-----------------------------------------------------------------------------
(* A request begins where the one before it left nothing.                  *)

(* Nothing was done when the first round begins.                           *)
LEMMA FirstRound ==
  ASSUME NEW q, OrderOK(q), NEW r \in PipeRanks, NEW p, p = RoundOf(r, q, 0)
  PROVE  /\ ProgOK(r, q, 0, p) /\ p \in Seq(PipeOps)
         /\ \A m : ModeOK(q, 0, p, m)
         /\ Took(r, q, 0, p) = 0 /\ Gave(r, q, 0, p) = 0 /\ ~Pending(r, q, 0, p)
         /\ Meetings(q, 0, p) = 0
<1>1. PrefillRounds(q) \in Nat /\ PrefillRounds(q) >= 3 /\ AllRounds(q) \in Nat
      /\ q.long \in BOOLEAN /\ 0 \in 0 .. AllRounds(q) + 1 /\ r \in Nat /\ r >= 0
      /\ (q.long => PrefillRounds(q) - 1 # 0)
  BY OrderIs, RanksAre
<1>2. /\ ProgOK(r, q, 0, p)
      /\ \A o \in OpNames : o \in OpsIn(p) <=> Has(o, r, q, 0)
  BY <1>1, RoundFresh
<1>3. p \in Seq(PipeOps)
  BY <1>2 DEF ProgOK
<1>4. ~HasPass(r, q, 0) /\ Before(r, q, 0) = 0
  <2>1. ~HasPass(r, q, 0)
    BY <1>1, OrderIs DEF HasPass
  <2>2. Before(r, q, 0) = 0
    BY <1>1 DEF Before
  <2> QED BY <2>1, <2>2
<1>5. /\ q.long => "queue_sends" \in OpsIn(p)
      /\ "prefill" \in OpsIn(p) /\ "barrier" \in OpsIn(p)
      /\ CallsIn(q, 0) => "callback" \in OpsIn(p)
  BY <1>2 DEF OpNames, Has
<1>6. \A m : ModeOK(q, 0, p, m)
  BY <1>1, <1>5 DEF ModeOK
<1>7. Took(r, q, 0, p) = 0 /\ Gave(r, q, 0, p) = 0 /\ ~Pending(r, q, 0, p)
  BY <1>4 DEF Took, Gave, Num, Bit, Pending
<1>8. Meetings(q, 0, p) = 0
  <2>1. MetBefore(q, 0) = 0 /\ ~Decodes(q, 0)
    BY <1>1 DEF MetBefore, Decodes
  <2> QED BY <1>5, <2>1 DEF Meetings, Bit
<1> QED BY <1>2, <1>3, <1>6, <1>7, <1>8

LEMMA BeginKeeps ==
  ASSUME PipeInv, Begin
  PROVE  PipeInv'
<1>1. PipeTyped /\ PassesKeptApart /\ Resting
  BY InvKeptApart DEF PipeInv, Begin
<1>2. \A r \in PipeRanks : wire[r] = << >> /\ held[r] = << >>
  BY <1>1 DEF PassesKeptApart, NothingUnderWay
<1>3. /\ nserved' = nserved + 1
      /\ program' = [r \in PipeRanks |-> RoundOf(r, order', 0)]
      /\ round' = [r \in PipeRanks |-> 0]
      /\ read' = [r \in PipeRanks |-> << >>]
      /\ UNCHANGED <<held, wire, mode>>
  BY DEF Begin
<1>4. PICK long \in BOOLEAN, n \in 1 .. MaxChunks, k \in 0 .. MaxDecoded :
        /\ ~long => n = 1
        /\ order' = [id |-> nserved', long |-> long, chunks |-> n, tokens |-> k,
                     cancelled |-> FALSE]
  BY DEF Begin
<1>5. nserved' \in Nat /\ n \in Nat /\ n # 0 /\ k \in Nat
  BY <1>1, <1>3, <1>4 DEF PipeTyped
<1>6. OrderOK(order') /\ order'.id \in Nat
  BY <1>4, <1>5 DEF OrderOK, Orders
<1>7. ASSUME NEW r \in PipeRanks
      PROVE  /\ program'[r] \in Seq(PipeOps) /\ round'[r] = 0 /\ read'[r] = << >>
             /\ ProgOK(r, order', round'[r], program'[r])
             /\ ModeOK(order', round'[r], program'[r], mode'[r])
             /\ TookBy(r)' = 0 /\ GaveBy(r)' = 0 /\ Back(r)' = 0 /\ MetBy(r)' = 0
             /\ ReadOK(r, order', round'[r], program'[r], read'[r])
  <2>1. program'[r] = RoundOf(r, order', 0) /\ round'[r] = 0 /\ read'[r] = << >>
    BY <1>3
  <2> DEFINE p == program'[r]
  <2>2. /\ ProgOK(r, order', 0, p) /\ p \in Seq(PipeOps)
        /\ \A m : ModeOK(order', 0, p, m)
        /\ Took(r, order', 0, p) = 0 /\ Gave(r, order', 0, p) = 0 /\ ~Pending(r, order', 0, p)
        /\ Meetings(order', 0, p) = 0
    BY <1>6, <2>1, FirstRound
  <2>3. TookBy(r)' = 0 /\ GaveBy(r)' = 0 /\ MetBy(r)' = 0 /\ ~HoldsBack(r)'
    BY <2>1, <2>2 DEF TookBy, GaveBy, MetBy, HoldsBack
  <2>4. Back(r)' = 0
    BY <2>3 DEF Back, Bit
  <2>5. ReadOK(r, order', 0, p, read'[r])
    <3>1. Len(read'[r]) = 0 /\ 1 .. 0 = {}
      BY <2>1
    <3>2. ~(0 > PrefillRounds(order'))
      BY <1>6, OrderIs
    <3> QED BY <2>2, <3>1, <3>2 DEF ReadOK
  <2> QED BY <2>1, <2>2, <2>3, <2>4, <2>5
<1>8. PipeTyped'
  <2>1. program' = [r \in PipeRanks |-> program'[r]]
    BY <1>3
  <2>2. program' \in [PipeRanks -> Seq(PipeOps)]
    BY <1>7, <2>1
  <2>3. << >> \in Seq(Passes)
    OBVIOUS
  <2> QED BY <1>1, <1>3, <1>5, <1>6, <2>2, <2>3 DEF PipeTyped
<1>9. ASSUME NEW r \in PipeRanks, r # LastStage PROVE LinkBy(r)'
  <2>1. r + 1 \in PipeRanks
    BY <1>9, RanksAre
  <2>2. held'[r] = << >> /\ wire'[r + 1] = << >>
    BY <1>2, <1>3, <2>1
  <2>3. TookBy(r + 1)' = 0 /\ GaveBy(r)' = 0 /\ Back(r)' = 0
    BY <1>7, <2>1
  <2>4. LinkOK(order', << >>, << >>, 0, 0, 0)
    <3>1. Len(<< >>) = 0 /\ 1 .. 0 = {}
      OBVIOUS
    <3> QED BY <3>1 DEF LinkOK
  <2> QED BY <2>2, <2>3, <2>4 DEF LinkBy
<1>10. Serving'
  <2>1. wire'[0] = << >> /\ held'[LastStage] = << >>
    BY <1>2, <1>3, RanksAre
  <2>2. \A r, s \in PipeRanks : MetBy(r)' = MetBy(s)'
    BY <1>7
  <2> QED BY <1>6, <1>7, <1>9, <2>1, <2>2 DEF Serving
<1> QED BY <1>8, <1>10 DEF PipeInv

-----------------------------------------------------------------------------
LEMMA PipeStart == PipelineInit => PipeInv
<1> SUFFICES ASSUME PipelineInit PROVE PipeInv
  OBVIOUS
<1>1. << >> \in Seq(PipeOps) /\ << >> \in Seq(Passes) /\ "decode" \in Flags /\ 0 \in Nat
  BY DEF Flags
<1>2. PipeTyped
  BY <1>1 DEF PipelineInit, PipeTyped, NoOrder
<1>3. Resting /\ NothingUnderWay
  BY DEF PipelineInit, Resting, NothingUnderWay
<1>4. OwnPasses
  BY DEF PipelineInit, OwnPasses
<1> QED BY <1>2, <1>3, <1>4 DEF PipeInv, PassesKeptApart

(* The invariant is inductive.                                             *)
LEMMA PipeStep ==
  ASSUME PipeInv, [PipelineNext]_ppvars
  PROVE  PipeInv'
<1>1. CASE UNCHANGED ppvars
  <2>1. /\ PipeTyped' <=> PipeTyped
        /\ Resting' <=> Resting
        /\ PassesKeptApart' <=> PassesKeptApart
    BY <1>1 DEF ppvars, PipeTyped, Resting, PassesKeptApart, OwnPasses, NothingUnderWay
  <2>2. Serving' <=> Serving
    BY <1>1 DEF ppvars, Serving, LinkBy, TookBy, GaveBy, Back, HoldsBack, MetBy
  <2> QED BY <2>1, <2>2 DEF PipeInv
<1>2. CASE Begin
  BY <1>2, BeginKeeps
<1>3. CASE Resting /\ ~Begin /\ PipelineNext
  <2>1. \A r \in PipeRanks : \A o : ~Doing(r, o)
    BY <1>3 DEF Resting, Doing
  <2>2. ~Together
    BY <2>1, RanksAre DEF Together, CancelAgreed, Collective, AllAt
  <2>3. \A r \in PipeRanks : ~StageStep(r)
    BY <2>1 DEF StageStep, Receive, Compute, SendOutput, SkipGather, Flush, Clear, SetMode
  <2> QED BY <1>3, <2>2, <2>3 DEF PipelineNext
<1>4. CASE ~Resting /\ ~Begin /\ PipelineNext
  <2>1. PipeTyped /\ Serving
    BY <1>4 DEF PipeInv
  <2>2. CASE CancelAgreed
    BY <2>1, <2>2, CancelKeeps
  <2>3. CASE \E op \in {"barrier", "callback", "gather"} : Collective(op)
    BY <2>1, <2>3, CollectiveKeeps
  <2>4. ASSUME NEW r \in PipeRanks, StageStep(r) PROVE PipeInv'
    BY <2>1, <2>4, ReceiveKeeps, ComputeKeeps, SendOutputKeeps, SkipGatherKeeps, FlushKeeps,
       ClearKeeps, SetModeKeeps DEF StageStep
  <2> QED BY <1>4, <2>2, <2>3, <2>4 DEF PipelineNext, Together
<1> QED BY <1>1, <1>2, <1>3, <1>4

(* What a rank has in its cache are the passes of its request, in their    *)
(* order and without a gap, and once the ranks are done, or the request    *)
(* was cancelled at whatever callback, no activation is on its way between *)
(* two ranks or held back by one: the finally of pipeline_parallel_prefill *)
(* and the order of callback and flush see to it.                          *)
THEOREM PassesStayApart == PipelineSpec => []PassesKeptApart
<1>1. PipelineSpec => []PipeInv
  BY PipeStart, PipeStep, PTL DEF PipelineSpec
<1>2. PipeInv => PassesKeptApart
  BY InvKeptApart
<1> QED BY <1>1, <1>2, PTL
=============================================================================
