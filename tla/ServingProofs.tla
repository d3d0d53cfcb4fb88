---------------------------- MODULE ServingProofs ----------------------------
(***************************************************************************)
(* What a runner and a node keep of earlier work, and that it is what it   *)
(* is taken for.                                                           *)
(*                                                                         *)
(* The KV prefix cache, for any prompts, images, step sizes, thresholds    *)
(* and numbers of requests: what is decoded from a reused prefix is what   *)
(* would be decoded without.  The invariant says of every entry and of the *)
(* request in submit that what its cache has read are the first tokens of  *)
(* its prompt, and that each snapshot is a state its prompt leads to.      *)
(*                                                                         *)
(* The log of events on disk, for any payloads, cache size and number of   *)
(* logs: what is read is what was appended.  The invariant says where each *)
(* record of a file begins, that a header is there, and that each read, by *)
(* range or as a whole, is where a record begins and has got those in      *)
(* front of it.                                                            *)
(***************************************************************************)
EXTENDS PrefixCache, DiskEventLog, FiniteSetTheorems, SequenceTheorems,
        WellFoundedInduction, TLAPS

(* The layers of a cache that can be cut anywhere have read the same, and  *)
(* no snapshot is of more than the cache has read.                         *)
Caches ==
  {c \in [kv : Seq(Tokens), st : Seq(Tokens), far : BOOLEAN] : kind = "kv" => c.st = c.kv}
Snapshots == [n : Nat, st : Seq(Tokens)]
Pictures == [start : Nat \ {0}, hash : Tokens]
Fit(ss, c) == \A j \in 1 .. Len(ss) : ss[j].n <= Len(c.kv)
Entries ==
  {e \in [prompt : Seq(Tokens), cache : Caches, snaps : Seq(Snapshots),
          regions : SUBSET Pictures, used : Nat] : Fit(e.snaps, e.cache)}
Requests == [pc : {"idle", "prefill", "save", "decode"}, prompt : Seq(Tokens),
             cache : Caches, hit : Nat, at : Nat, snaps : Seq(Snapshots)]

Typed ==
  /\ kind \in {"kv", "ssm", "v4"} /\ clock \in Nat /\ nrequests \in Nat
  /\ entries \in Seq(Entries) /\ srv \in Seq(Entries)
  /\ abandoned \subseteq Seq(Tokens) \ {<< >>}
  /\ req \in Requests

(* s is the beginning of p.                                                *)
Begins(s, p) == Len(s) <= Len(p) /\ \A i \in 1 .. Len(s) : s[i] = p[i]

(* What the layers of c have read, and what the snapshots ss remember of   *)
(* it, is the beginning of p; of DeepSeek V4, what its windows have read.  *)
TrueTo(c, p) == ~c.far => Begins(c.kv, p) /\ (Restorable => c.st = c.kv)
Remembers(ss, c, p) ==
  Restorable /\ ~c.far => \A j \in 1 .. Len(ss) : Len(ss[j].st) = ss[j].n /\ Begins(ss[j].st, p)

EntryOK(e) ==
  /\ e.prompt \in Prompts /\ e.regions = Regions(e.prompt)
  /\ TrueTo(e.cache, e.prompt) /\ Remembers(e.snaps, e.cache, e.prompt)

(* How much of a prompt of length n stays in the cache after the prefill.  *)
Stay(n, hit) == IF n - hit <= 1 THEN hit ELSE n - 2

RequestOK ==
  /\ req.prompt \in Prompts /\ req.hit <= Len(req.prompt)
  /\ kind = "kv" => req.hit < Len(req.prompt)
  /\ TrueTo(req.cache, req.prompt)
  /\ req.pc = "prefill" => Len(req.cache.kv) = req.hit
  /\ req.pc # "prefill" =>
       /\ req.hit <= Len(req.cache.kv)
       /\ ~req.cache.far => Len(req.cache.kv) = Stay(Len(req.prompt), req.hit)
  /\ req.pc = "save" =>
       Fit(req.snaps, req.cache) /\ Remembers(req.snaps, req.cache, req.prompt)

(* The entry the request has copied agrees with its prompt that far.       *)
CopyOK ==
  /\ req.at <= Len(entries)
  /\ req.at # 0 => LET e == entries[req.at]
                   IN  /\ e.cache.far => req.cache.far
                       /\ req.hit <= Len(e.prompt)
                       /\ \A i \in 1 .. req.hit : e.prompt[i] = req.prompt[i]

Inv ==
  /\ Typed
  /\ \A i \in 1 .. Len(entries) : EntryOK(entries[i])
  /\ req.pc # "idle" => RequestOK
  /\ req.pc \in {"prefill", "save"} => CopyOK

-----------------------------------------------------------------------------
(* Numbers and sequences.                                                  *)

(* A nonempty set of naturals has a least element.                         *)
LEMMA Least ==
  ASSUME NEW S, S \subseteq Nat, S # {}
  PROVE  \E m \in S : \A x \in S : m <= x
<1> DEFINE R == StrictSubsetOrdering(Nat)
           T == {0 .. x : x \in S}
<1>1. IsWellFoundedOn(R, FiniteSubsetsOf(Nat))
  BY FS_StrictSubsetOrderingWellFounded
<1>2. T \subseteq FiniteSubsetsOf(Nat) /\ T # {}
  <2>1. ASSUME NEW x \in S PROVE 0 .. x \in FiniteSubsetsOf(Nat)
    <3>1. 0 \in Int /\ x \in Int /\ 0 .. x \subseteq Nat
      OBVIOUS
    <3> QED BY <3>1, FS_Interval DEF FiniteSubsetsOf
  <2> QED BY <2>1
<1>3. \E U \in T : \A V \in T : ~ (<<V, U>> \in R)
  <2> HIDE DEF T, R
  <2> QED BY <1>1, <1>2, WFMin
<1>4. PICK m \in S : \A V \in T : ~ (<<V, 0 .. m>> \in R)
  BY <1>3
<1>5. ASSUME NEW x \in S, ~(m <= x) PROVE FALSE
  <2>1. 0 .. x \subseteq 0 .. m /\ m \in 0 .. m /\ m \notin 0 .. x
    BY <1>5
  <2>2. 0 .. x \in SUBSET Nat /\ 0 .. m \in SUBSET Nat
    OBVIOUS
  <2>3. <<0 .. x, 0 .. m>> \in R
    BY <2>1, <2>2 DEF StrictSubsetOrdering
  <2> QED BY <1>4, <2>3
<1> QED BY <1>5

(* Min picks the least element of a nonempty set of naturals.              *)
LEMMA MinIsLeast ==
  ASSUME NEW S, S \subseteq Nat, S # {}
  PROVE  Min(S) \in S /\ \A x \in S : Min(S) <= x
<1> QED BY Least DEF Min

(* Max picks the greatest element of a nonempty bounded set of naturals.   *)
LEMMA MaxIsGreatest ==
  ASSUME NEW b \in Nat, NEW S, S \subseteq 0 .. b, S # {}
  PROVE  Max(S) \in S /\ \A x \in S : Max(S) >= x
<1> DEFINE D == {b - x : x \in S}
<1>1. D \subseteq Nat /\ D # {}
  <2>1. \A x \in S : x \in 0 .. b /\ b - x \in Nat
    OBVIOUS
  <2> QED BY <2>1
<1>2. PICK m \in D : \A d \in D : m <= d
  <2> HIDE DEF D
  <2> QED BY <1>1, Least
<1>3. PICK y \in S : m = b - y
  BY <1>2
<1>4. ASSUME NEW x \in S PROVE y >= x
  <2>1. m <= b - x /\ x \in Nat /\ y \in Nat
    BY <1>2
  <2> QED BY <1>3, <2>1
<1> QED BY <1>4 DEF Max

LEMMA TwoNumbers ==
  ASSUME NEW a \in Int, NEW b \in Int
  PROVE  /\ Min({a, b}) = IF a <= b THEN a ELSE b
         /\ Max({a, b}) = IF a >= b THEN a ELSE b
<1>1. Min({a, b}) = IF a <= b THEN a ELSE b
  BY DEF Min
<1>2. Max({a, b}) = IF a >= b THEN a ELSE b
  BY DEF Max
<1> QED BY <1>1, <1>2

(* A part of a sequence.                                                   *)
LEMMA Part ==
  ASSUME NEW T, NEW s \in Seq(T), NEW m \in Nat \ {0}, NEW n \in Int, n <= Len(s)
  PROVE  /\ SubSeq(s, m, n) \in Seq(T)
         /\ Len(SubSeq(s, m, n)) = IF m <= n THEN n - m + 1 ELSE 0
         /\ \A i \in 1 .. n - m + 1 : SubSeq(s, m, n)[i] = s[m + i - 1]
<1>1. \A i \in m .. n : s[i] \in T
  OBVIOUS
<1> QED BY <1>1, SubSeqProperties

(* The function Those is computed with exists.                             *)
LEMMA ThoseIsDefined ==
  ASSUME NEW T, NEW s \in Seq(T), NEW at
  PROVE  \E f : f = [n \in 0 .. Len(s) |->
                       IF n = 0 THEN << >>
                       ELSE IF n \in at THEN Append(f[n - 1], s[n]) ELSE f[n - 1]]
<1> DEFINE Good(f, k) == f = [n \in 0 .. k |->
                                IF n = 0 THEN << >>
                                ELSE IF n \in at THEN Append(f[n - 1], s[n]) ELSE f[n - 1]]
           Bad == {k \in 0 .. Len(s) : \A f : ~Good(f, k)}
<1>1. ASSUME Bad # {} PROVE FALSE
  <2>1. PICK m \in Bad : \A k \in Bad : m <= k
    <3>1. Bad \subseteq Nat
      OBVIOUS
    <3> HIDE DEF Bad
    <3> QED BY <1>1, <3>1, Least
  <2>2. m # 0
    <3>1. Good([n \in 0 .. 0 |-> << >>], 0)
      OBVIOUS
    <3> HIDE DEF Good
    <3> QED BY <3>1
  <2>3. PICK f : Good(f, m - 1)
    <3>1. m - 1 \in 0 .. Len(s) /\ ~(m <= m - 1)
      BY <2>2
    <3> HIDE DEF Good
    <3> QED BY <2>1, <3>1
  <2> DEFINE last == IF m \in at THEN Append(f[m - 1], s[m]) ELSE f[m - 1]
             g == [n \in 0 .. m |-> IF n = m THEN last ELSE f[n]]
  <2>4. ASSUME NEW n \in 0 .. m
        PROVE  g[n] = IF n = 0 THEN << >>
                      ELSE IF n \in at THEN Append(g[n - 1], s[n]) ELSE g[n - 1]
    <3>1. n # 0 => n - 1 \in 0 .. m /\ n - 1 # m
      OBVIOUS
    <3>2. n # 0 => g[n - 1] = f[n - 1]
      BY <3>1
    <3>3. CASE n = m
      BY <2>2, <3>2, <3>3
    <3>4. CASE n # m
      <4>1. n \in 0 .. m - 1
        BY <3>4
      <4>2. f[n] = IF n = 0 THEN << >>
                   ELSE IF n \in at THEN Append(f[n - 1], s[n]) ELSE f[n - 1]
        BY <2>3, <4>1
      <4>3. g[n] = f[n]
        BY <3>4
      <4> QED BY <3>2, <4>2, <4>3
    <3> QED BY <3>3, <3>4
  <2>5. Good(g, m)
    <3> HIDE DEF last
    <3>1. g = [n \in 0 .. m |-> g[n]]
      OBVIOUS
    <3> HIDE DEF g
    <3> QED BY <2>4, <3>1
  <2> HIDE DEF Good
  <2> QED BY <2>5
<1>2. Len(s) \notin Bad /\ Len(s) \in 0 .. Len(s)
  BY <1>1
<1> HIDE DEF Good
<1>3. \E f : Good(f, Len(s))
  BY <1>2
<1> QED BY <1>3 DEF Good

(* Those are elements of s, at positions in at.                            *)
LEMMA ThoseAreSome ==
  ASSUME NEW T, NEW s \in Seq(T), NEW at
  PROVE  Those(s, at) \in Seq({s[i] : i \in {j \in 1 .. Len(s) : j \in at}})
<1> DEFINE U == {s[i] : i \in {j \in 1 .. Len(s) : j \in at}}
           Upto(f) == f = [n \in 0 .. Len(s) |->
                             IF n = 0 THEN << >>
                             ELSE IF n \in at THEN Append(f[n - 1], s[n]) ELSE f[n - 1]]
           f == CHOOSE h : Upto(h)
           Bad == {n \in 0 .. Len(s) : f[n] \notin Seq(U)}
<1>1. f = [n \in 0 .. Len(s) |->
             IF n = 0 THEN << >>
             ELSE IF n \in at THEN Append(f[n - 1], s[n]) ELSE f[n - 1]]
  <2>1. \E h : Upto(h)
    BY ThoseIsDefined
  <2>2. Upto(f)
    <3> HIDE DEF Upto
    <3> QED BY <2>1
  <2> QED BY <2>2
<1>2. Those(s, at) = f[Len(s)]
  BY DEF Those
<1> HIDE DEF f
<1>3. ASSUME Bad # {} PROVE FALSE
  <2>1. PICK m \in Bad : \A k \in Bad : m <= k
    <3>1. Bad \subseteq Nat
      OBVIOUS
    <3> HIDE DEF Bad
    <3> QED BY <1>3, <3>1, Least
  <2>2. m # 0
    <3>1. f[0] = << >> /\ << >> \in Seq(U)
      BY <1>1
    <3> QED BY <3>1
  <2>3. m \in 1 .. Len(s) /\ f[m - 1] \in Seq(U)
    <3>1. m - 1 \in 0 .. Len(s) /\ ~(m <= m - 1)
      BY <2>2
    <3> QED BY <2>1, <2>2, <3>1
  <2>4. f[m] = IF m \in at THEN Append(f[m - 1], s[m]) ELSE f[m - 1]
    BY <1>1, <2>2
  <2>5. m \in at => s[m] \in U
    BY <2>3
  <2> HIDE DEF U
  <2>6. f[m] \in Seq(U)
    BY <2>3, <2>4, <2>5
  <2> QED BY <2>6
<1>4. Len(s) \notin Bad /\ Len(s) \in 0 .. Len(s)
  <2>1. Len(s) \in 0 .. Len(s)
    OBVIOUS
  <2> HIDE DEF Bad
  <2> QED BY <1>3, <2>1
<1> QED BY <1>2, <1>4

-----------------------------------------------------------------------------
(* Matching a prompt with an entry.                                        *)

LEMMA PrefixIsShared ==
  ASSUME NEW p \in Seq(Tokens), NEW q \in Seq(Tokens)
  PROVE  /\ PrefixLength(p, q) \in Nat
         /\ PrefixLength(p, q) <= Len(p) /\ PrefixLength(p, q) <= Len(q)
         /\ \A i \in 1 .. PrefixLength(p, q) : SameToken(p[i], q[i])
<1> DEFINE b == Min({Len(p), Len(q)})
           S == {n \in 0 .. b : \A i \in 1 .. n : SameToken(p[i], q[i])}
<1>1. b \in Nat /\ b <= Len(p) /\ b <= Len(q)
  BY TwoNumbers
<1> HIDE DEF b
<1>2. S \subseteq 0 .. b /\ 0 \in S
  BY <1>1
<1>3. Max(S) \in S
  <2> HIDE DEF S
  <2> QED BY <1>1, <1>2, MaxIsGreatest
<1>4. PrefixLength(p, q) = Max(S)
  BY DEF PrefixLength, b
<1> QED BY <1>1, <1>3, <1>4

LEMMA RegionsArePictures ==
  ASSUME NEW p \in Seq(Tokens)
  PROVE  Regions(p) \subseteq Pictures
<1> QED BY DEF Regions, Pictures

(* A match is cut before the first picture that differs.                   *)
LEMMA CutBeforeOther ==
  ASSUME NEW n \in Nat, NEW cached, cached \subseteq Pictures, NEW query
  PROVE  /\ ValidateMediaMatch(n, cached, query) \in 0 .. n
         /\ \A r \in cached, s \in query :
              s.start = r.start /\ s.hash # r.hash
                => ValidateMediaMatch(n, cached, query) < r.start
<1> DEFINE bad == {r \in cached : r.start <= n /\ \E s \in query : s.start = r.start
                                                 /\ s.hash # r.hash}
           S == {r.start : r \in bad}
<1>1. ValidateMediaMatch(n, cached, query) = IF bad = {} THEN n ELSE Min(S) - 1
  BY DEF ValidateMediaMatch
<1>2. \A r \in cached : r.start \in Nat \ {0}
  BY DEF Pictures
<1>3. S \subseteq 1 .. n
  BY <1>2
<1>4. ASSUME bad # {} PROVE Min(S) \in S /\ \A x \in S : Min(S) <= x
  <2>1. S \subseteq Nat /\ S # {}
    BY <1>3, <1>4
  <2> HIDE DEF S
  <2> QED BY <2>1, MinIsLeast
<1>5. \A r \in cached, s \in query :
        s.start = r.start /\ s.hash # r.hash /\ r.start <= n => r \in bad /\ r.start \in S
  OBVIOUS
<1> HIDE DEF bad, S
<1>6. bad # {} => Min(S) \in 1 .. n
  BY <1>3, <1>4
<1>7. CASE bad = {}
  BY <1>1, <1>2, <1>5, <1>7
<1>8. CASE bad # {}
  <2>1. ASSUME NEW r \in cached, NEW s \in query, s.start = r.start, s.hash # r.hash
        PROVE  Min(S) <= r.start
    <3>1. CASE r.start <= n
      BY <1>4, <1>5, <1>8, <2>1, <3>1
    <3>2. CASE ~(r.start <= n)
      BY <1>2, <1>6, <1>8, <3>2
    <3> QED BY <3>1, <3>2
  <2> QED BY <1>1, <1>2, <1>6, <1>8, <2>1
<1> QED BY <1>7, <1>8

LEMMA MatchIsBounded ==
  ASSUME NEW e \in Entries, NEW p \in Seq(Tokens)
  PROVE  /\ MatchLength(e, p) \in Nat
         /\ MatchLength(e, p) <= Len(p) /\ MatchLength(e, p) <= Len(e.prompt)
<1>1. e.prompt \in Seq(Tokens) /\ e.regions \subseteq Pictures
  BY DEF Entries
<1> DEFINE n == PrefixLength(p, e.prompt)
<1>2. n \in Nat /\ n <= Len(p) /\ n <= Len(e.prompt)
  BY <1>1, PrefixIsShared
<1> HIDE DEF n
<1>3. ValidateMediaMatch(n, e.regions, Regions(p)) \in 0 .. n
  BY <1>1, <1>2, CutBeforeOther
<1>4. MatchLength(e, p) \in 0 .. n
  BY <1>3 DEF MatchLength, n
<1>5. Len(p) \in Nat /\ Len(e.prompt) \in Nat
  BY <1>1
<1> QED BY <1>2, <1>4, <1>5

(* What matches is the same in both prompts, the pictures included: where  *)
(* they differ first a picture begins in both.                             *)
LEMMA MatchIsSame ==
  ASSUME NEW e \in Entries, EntryOK(e), NEW p \in Prompts
  PROVE  \A i \in 1 .. MatchLength(e, p) : e.prompt[i] = p[i]
<1> DEFINE q == e.prompt
           n == PrefixLength(p, q)
           m == MatchLength(e, p)
           Bad == {i \in 1 .. m : q[i] # p[i]}
<1>1. p \in Seq(Tokens) /\ q \in Seq(Tokens) /\ q \in Prompts /\ e.regions = Regions(q)
  BY PrefixCacheAssumption DEF EntryOK
<1>2. /\ n \in Nat /\ n <= Len(p) /\ n <= Len(q)
      /\ \A i \in 1 .. n : SameToken(p[i], q[i])
  BY <1>1, PrefixIsShared
<1>3. /\ m \in 0 .. n
      /\ \A r \in Regions(q), s \in Regions(p) : s.start = r.start /\ s.hash # r.hash => m < r.start
  BY <1>1, <1>2, CutBeforeOther, RegionsArePictures DEF MatchLength
<1> HIDE DEF q, n, m
<1>4. ASSUME Bad # {} PROVE FALSE
  <2>1. PICK i \in Bad : \A j \in Bad : i <= j
    <3>1. Bad \subseteq Nat
      OBVIOUS
    <3> HIDE DEF Bad
    <3> QED BY <1>4, <3>1, Least
  <2>2. i \in 1 .. n /\ i <= m /\ i <= Len(p) /\ i <= Len(q)
    BY <1>2, <1>3
  <2>3. p[i] \in ImageTokens /\ q[i] \in ImageTokens /\ p[i] # q[i]
    BY <1>2, <2>2 DEF SameToken
  <2>4. ASSUME i # 1 PROVE p[i - 1] \notin ImageTokens /\ q[i - 1] \notin ImageTokens
    <3>1. i - 1 \in 1 .. m /\ ~(i <= i - 1) /\ i - 1 \in 1 .. Len(p) - 1
          /\ i - 1 \in 1 .. Len(q) - 1 /\ i - 1 + 1 = i
      <4>1. i \in Nat /\ m \in Nat /\ Len(p) \in Nat /\ Len(q) \in Nat /\ i >= 1
        BY <1>1, <1>2, <1>3
      <4> QED BY <2>2, <2>4, <4>1
    <3>2. q[i - 1] = p[i - 1]
      BY <2>1, <3>1
    <3>3. {p[i - 1], p[i]} \subseteq ImageTokens => p[i - 1] = p[i]
      BY <1>1, <3>1, PrefixCacheAssumption
    <3>4. {q[i - 1], q[i]} \subseteq ImageTokens => q[i - 1] = q[i]
      BY <1>1, <3>1, PrefixCacheAssumption
    <3> QED BY <2>3, <3>2, <3>3, <3>4
  <2>5. [start |-> i, hash |-> p[i]] \in Regions(p) /\ [start |-> i, hash |-> q[i]] \in Regions(q)
    <3>1. i \in DOMAIN p /\ i \in DOMAIN q
      BY <1>1, <2>2
    <3> QED BY <2>3, <2>4, <3>1 DEF Regions
  <2>6. m < i
    <3> DEFINE s == [start |-> i, hash |-> p[i]]
               r == [start |-> i, hash |-> q[i]]
    <3>1. s.start = r.start /\ s.hash # r.hash /\ r.start = i
      BY <2>3
    <3> HIDE DEF s, r
    <3>2. s \in Regions(p) /\ r \in Regions(q)
      BY <2>5 DEF s, r
    <3> QED BY <1>3, <3>1, <3>2
  <2> QED BY <1>2, <1>3, <2>2, <2>6
<1> QED BY <1>4 DEF m, q

(* The best match is one, and a match of all but the last token if it says *)
(* so.                                                                     *)
LEMMA BestIsOne ==
  ASSUME NEW N \in Nat, NEW lens \in [1 .. N -> Nat], NEW n \in Nat
  PROVE  LET m == BestMatch(lens, n)
         IN  /\ m.at \in 0 .. N
             /\ m.at # 0 => /\ m.len = lens[m.at]
                            /\ m.exact => m.len >= n - 1
                            /\ ~m.exact => m.len < n - 1
<1> DEFINE E == ExactOnes(lens, n)
           L == LongestOnes(lens)
<1>1. E \subseteq 1 .. N /\ L \subseteq 1 .. N
  BY DEF ExactOnes, LongestOnes
<1>2. \A i \in 1 .. N : i \in E <=> lens[i] >= n - 1
  BY DEF ExactOnes
<1>3. BestMatch(lens, n) = BestOf(lens, E, L)
  BY DEF BestMatch
<1> HIDE DEF E, L
<1>4. ASSUME NEW S, S \subseteq 1 .. N, S # {} PROVE Min(S) \in S
  <2>1. S \subseteq Nat
    BY <1>4
  <2> QED BY <1>4, <2>1, MinIsLeast
<1>5. CASE E # {}
  <2>1. BestMatch(lens, n) = [at |-> Min(E), len |-> lens[Min(E)], exact |-> TRUE]
    BY <1>3, <1>5 DEF BestOf, FirstAmong
  <2>2. Min(E) \in E
    BY <1>1, <1>4, <1>5
  <2>3. Min(E) \in 1 .. N /\ lens[Min(E)] >= n - 1
    BY <1>1, <1>2, <2>2
  <2> QED BY <2>1, <2>3
<1>6. CASE E = {} /\ L # {}
  <2>1. BestMatch(lens, n) = [at |-> Min(L), len |-> lens[Min(L)], exact |-> FALSE]
    BY <1>3, <1>6 DEF BestOf, FirstAmong
  <2>2. Min(L) \in L
    BY <1>1, <1>4, <1>6
  <2>3. Min(L) \in 1 .. N /\ ~(lens[Min(L)] >= n - 1) /\ lens[Min(L)] \in Nat
    BY <1>1, <1>2, <1>6, <2>2
  <2> QED BY <2>1, <2>3
<1>7. CASE E = {} /\ L = {}
  <2>1. BestMatch(lens, n) = [at |-> 0, len |-> 0, exact |-> FALSE]
    BY <1>3, <1>7 DEF BestOf
  <2> QED BY <2>1
<1> QED BY <1>5, <1>6, <1>7

LEMMA NearestIsBelow ==
  ASSUME NEW ss \in Seq(Snapshots), NEW n \in Nat
  PROVE  /\ NearestSnapshot(ss, n) \in 0 .. Len(ss)
         /\ NearestSnapshot(ss, n) # 0 => ss[NearestSnapshot(ss, n)].n <= n
<1> DEFINE late == {i \in DOMAIN ss :
                      /\ ss[i].n <= n
                      /\ \A j \in DOMAIN ss : ss[j].n <= n => ss[j].n <= ss[i].n}
<1>1. NearestSnapshot(ss, n) = IF late = {} THEN 0 ELSE Min(late)
  BY DEF NearestSnapshot
<1>2. late \subseteq 1 .. Len(ss) /\ \A i \in late : ss[i].n <= n
  OBVIOUS
<1> HIDE DEF late
<1>3. late # {} => Min(late) \in late
  <2>1. late \subseteq Nat
    BY <1>2
  <2> QED BY <2>1, MinIsLeast
<1> DEFINE k == NearestSnapshot(ss, n)
<1>4. k = 0 \/ (k \in 1 .. Len(ss) /\ ss[k].n <= n)
  <2> HIDE DEF k
  <2>1. k = IF late = {} THEN 0 ELSE Min(late)
    BY <1>1 DEF k
  <2> QED BY <1>2, <1>3, <2>1
<1> HIDE DEF k
<1>5. k \in 0 .. Len(ss) /\ (k # 0 => ss[k].n <= n)
  BY <1>4
<1> QED BY <1>5 DEF k

(* What a cache and an entry are made of.                                  *)
LEMMA CacheFields ==
  ASSUME NEW c \in Caches
  PROVE  /\ c.kv \in Seq(Tokens) /\ c.st \in Seq(Tokens) /\ c.far \in BOOLEAN
         /\ kind = "kv" => c.st = c.kv
         /\ Len(c.kv) \in Nat
<1> QED BY DEF Caches

LEMMA CacheIs ==
  ASSUME NEW kv \in Seq(Tokens), NEW st \in Seq(Tokens), NEW far \in BOOLEAN,
         kind = "kv" => st = kv
  PROVE  /\ Cache(kv, st, far) \in Caches
         /\ Cache(kv, st, far).kv = kv /\ Cache(kv, st, far).st = st
         /\ Cache(kv, st, far).far = far
<1> QED BY DEF Cache, Caches

LEMMA EntryFields ==
  ASSUME NEW e \in Entries
  PROVE  /\ e.prompt \in Seq(Tokens) /\ e.cache \in Caches /\ e.snaps \in Seq(Snapshots)
         /\ e.regions \subseteq Pictures /\ e.used \in Nat /\ Fit(e.snaps, e.cache)
<1> QED BY DEF Entries

(* The first n tokens of a sequence begin what it begins.                  *)
LEMMA BeginsShorter ==
  ASSUME NEW s \in Seq(Tokens), NEW p \in Seq(Tokens), NEW n \in Nat, n <= Len(s), Begins(s, p)
  PROVE  /\ Begins(SubSeq(s, 1, n), p) /\ Len(SubSeq(s, 1, n)) = n
         /\ SubSeq(s, 1, n) \in Seq(Tokens)
<1> DEFINE u == SubSeq(s, 1, n)
<1>1. u \in Seq(Tokens) /\ Len(u) = n /\ \A i \in 1 .. n : u[i] = s[i]
  <2>1. 1 \in Nat \ {0} /\ n \in Int
    OBVIOUS
  <2>2. /\ u \in Seq(Tokens) /\ Len(u) = IF 1 <= n THEN n - 1 + 1 ELSE 0
        /\ \A i \in 1 .. n - 1 + 1 : u[i] = s[1 + i - 1]
    BY <2>1, Part
  <2> QED BY <2>2
<1> HIDE DEF u
<1>2. Begins(u, p)
  BY <1>1 DEF Begins
<1> QED BY <1>1, <1>2 DEF u

(* Two beginnings of a sequence that are as long are the same.             *)
LEMMA SameBeginning ==
  ASSUME NEW s \in Seq(Tokens), NEW t \in Seq(Tokens), NEW p, Begins(s, p), Begins(t, p),
         Len(s) = Len(t)
  PROVE  s = t
<1>1. \A i \in 1 .. Len(s) : s[i] = t[i]
  BY DEF Begins
<1> QED BY <1>1, SeqEqual

(* A cache cut back to n tokens, by itself or by a snapshot of so many.    *)
LEMMA TrimmedTo ==
  ASSUME kind \in {"kv", "ssm", "v4"}, NEW c \in Caches, NEW n \in Nat, n <= Len(c.kv), NEW snap,
         kind = "ssm" => snap.st \in Seq(Tokens)
  PROVE  LET d == Trimmed(c, n, snap)
         IN  /\ d \in Caches /\ Len(d.kv) = n /\ d.far = c.far
             /\ \A p \in Seq(Tokens) :
                  /\ TrueTo(c, p)
                  /\ kind = "ssm" /\ ~c.far => Begins(snap.st, p) /\ Len(snap.st) = n
                  => TrueTo(d, p)
<1> DEFINE d == Trimmed(c, n, snap)
           kv == SubSeq(c.kv, 1, n)
           st == PutBack(c.st, n, snap)
<1>1. /\ c.kv \in Seq(Tokens) /\ c.st \in Seq(Tokens) /\ c.far \in BOOLEAN
      /\ kind = "kv" => c.st = c.kv
      /\ Len(c.kv) \in Nat
  BY CacheFields
<1>2. d = IF n >= Len(c.kv) THEN c ELSE Cache(kv, st, c.far)
  BY DEF Trimmed, CacheLength
<1>3. kv \in Seq(Tokens) /\ Len(kv) = n
  <2>1. 1 \in Nat \ {0} /\ n \in Int
    OBVIOUS
  <2> QED BY <1>1, <2>1, Part
<1>4. st \in Seq(Tokens) /\ (kind = "kv" => st = kv) /\ (kind = "ssm" => st = snap.st)
  BY <1>1, <1>3 DEF PutBack
<1>5. n >= Len(c.kv) => n = Len(c.kv)
  BY <1>1
<1> DEFINE Goal(x) ==
      /\ x \in Caches /\ Len(x.kv) = n /\ x.far = c.far
      /\ \A p \in Seq(Tokens) :
           /\ TrueTo(c, p)
           /\ kind = "ssm" /\ ~c.far => Begins(snap.st, p) /\ Len(snap.st) = n
           => TrueTo(x, p)
<1> SUFFICES Goal(d)
  OBVIOUS
<1> HIDE DEF d
<1>6. CASE n >= Len(c.kv)
  <2>1. d = c
    BY <1>2, <1>6
  <2> QED BY <1>5, <1>6, <2>1
<1>7. CASE ~(n >= Len(c.kv))
  <2>1. d = Cache(kv, st, c.far)
    BY <1>2, <1>7
  <2> HIDE DEF kv, st
  <2>2. d \in Caches /\ d.kv = kv /\ d.st = st /\ d.far = c.far
    BY <1>1, <1>3, <1>4, <2>1, CacheIs
  <2>3. ASSUME NEW p \in Seq(Tokens), TrueTo(c, p),
               kind = "ssm" /\ ~c.far => Begins(snap.st, p) /\ Len(snap.st) = n
        PROVE  TrueTo(d, p)
    <3>1. ASSUME ~c.far PROVE Begins(kv, p) /\ (Restorable => st = kv)
      <4>1. Begins(c.kv, p)
        BY <2>3, <3>1 DEF TrueTo
      <4>2. Begins(kv, p)
        BY <1>1, <4>1, BeginsShorter DEF kv
      <4>3. ASSUME kind = "ssm" PROVE st = kv
        <5>1. st = snap.st
          BY <1>4, <4>3
        <5>2. Begins(st, p) /\ Len(st) = n
          BY <2>3, <3>1, <4>3, <5>1
        <5> QED BY <1>3, <1>4, <4>2, <5>2, SameBeginning
      <4> QED BY <1>4, <4>2, <4>3 DEF Restorable
    <3> QED BY <2>2, <3>1 DEF TrueTo
  <2> QED BY <1>3, <2>2, <2>3
<1> QED BY <1>6, <1>7

(* The beginning of one prompt begins another that agrees with it so far.  *)
LEMMA BeginsBoth ==
  ASSUME NEW s \in Seq(Tokens), NEW q \in Seq(Tokens), NEW p \in Seq(Tokens), Begins(s, q),
         Len(s) <= Len(p), \A i \in 1 .. Len(s) : q[i] = p[i]
  PROVE  Begins(s, p)
<1> QED BY DEF Begins

(* What is found of entry e for p: so much of its cache as p shares.       *)
FoundIn(g, e, p) ==
  /\ g.cache \in Caches /\ g.hit \in Nat /\ Len(g.cache.kv) = g.hit
  /\ g.hit <= MatchLength(e, p)
  /\ kind = "kv" => g.hit < Len(p)
  /\ g.cache.far = e.cache.far
  /\ EntryOK(e) => TrueTo(g.cache, e.prompt)

LEMMA CutIsFound ==
  ASSUME kind = "kv", NEW e \in Entries, NEW p \in Seq(Tokens), p # << >>, NEW m, NEW at,
         m.len = MatchLength(e, p),
         m.exact => m.len >= Len(p) - 1, ~m.exact => m.len < Len(p) - 1
  PROVE  FoundIn(CutTo(Target(e, m, p), e, at), e, p)
<1> DEFINE n == Target(e, m, p)
           wish == IF m.exact THEN Len(p) - 1 ELSE m.len
           d == Trimmed(e.cache, n, Fresh)
<1>1. /\ MatchLength(e, p) \in Nat
      /\ Len(p) \in Nat \ {0}
  <2>1. MatchLength(e, p) \in Nat
    BY MatchIsBounded
  <2> QED BY <2>1
<1>2. e.cache \in Caches /\ Len(e.cache.kv) \in Nat /\ e.prompt \in Seq(Tokens)
  BY EntryFields, CacheFields
<1>3. wish \in Nat /\ wish <= MatchLength(e, p) /\ wish < Len(p)
  <2>1. CASE m.exact
    BY <1>1, <2>1
  <2>2. CASE ~m.exact
    BY <1>1, <2>2
  <2> QED BY <2>1, <2>2
<1>4. n = Min({Len(e.cache.kv), wish})
  BY DEF Target, CacheLength
<1> HIDE DEF n, wish
<1>5. n \in Nat /\ n <= wish /\ n <= Len(e.cache.kv)
  <2>1. Len(e.cache.kv) \in Int /\ wish \in Int
    BY <1>2, <1>3
  <2>2. n = IF Len(e.cache.kv) <= wish THEN Len(e.cache.kv) ELSE wish
    BY <1>4, <2>1, TwoNumbers
  <2> QED BY <1>2, <1>3, <2>2
<1>6. /\ d \in Caches /\ Len(d.kv) = n /\ d.far = e.cache.far
      /\ TrueTo(e.cache, e.prompt) => TrueTo(d, e.prompt)
  BY <1>2, <1>5, TrimmedTo
<1> HIDE DEF d
<1>7. n <= MatchLength(e, p) /\ n < Len(p)
  BY <1>1, <1>3, <1>5
<1>8. EntryOK(e) => TrueTo(d, e.prompt)
  BY <1>6 DEF EntryOK
<1> DEFINE g == CutTo(n, e, at)
<1>9. g.cache = d /\ g.hit = n
  BY DEF CutTo, d
<1> HIDE DEF g
<1>10. FoundIn(g, e, p)
  BY <1>5, <1>6, <1>7, <1>8, <1>9 DEF FoundIn
<1> QED BY <1>10 DEF g, n

LEMMA RestoredIsFound ==
  ASSUME kind \in {"ssm", "v4"}, NEW e \in Entries, NEW p \in Seq(Tokens), NEW at,
         NEW k \in 1 .. Len(e.snaps), e.snaps[k].n <= MatchLength(e, p)
  PROVE  FoundIn(RestoreTo(k, e, at), e, p)
<1> DEFINE s == e.snaps[k]
           d == Trimmed(e.cache, s.n, s)
<1>1. /\ e.cache \in Caches /\ e.prompt \in Seq(Tokens) /\ e.snaps \in Seq(Snapshots)
      /\ Fit(e.snaps, e.cache)
  BY EntryFields
<1>2. s.n \in Nat /\ s.st \in Seq(Tokens) /\ s.n <= Len(e.cache.kv)
  <2>1. s \in Snapshots
    BY <1>1
  <2>2. s.n <= Len(e.cache.kv)
    BY <1>1 DEF Fit
  <2> QED BY <2>1, <2>2 DEF Snapshots
<1>3. EntryOK(e) =>
        (kind = "ssm" /\ ~e.cache.far => Begins(s.st, e.prompt) /\ Len(s.st) = s.n)
  BY DEF EntryOK, Remembers, Restorable
<1>4. EntryOK(e) => TrueTo(e.cache, e.prompt)
  BY DEF EntryOK
<1> DEFINE n == s.n
           g == RestoreTo(k, e, at)
<1>5. g.cache = Trimmed(e.cache, n, s) /\ g.hit = n
  <2>1. k # 0
    OBVIOUS
  <2> QED BY <2>1 DEF RestoreTo
<1>6. n \in Nat /\ n <= Len(e.cache.kv) /\ n <= MatchLength(e, p)
  BY <1>2
<1> HIDE DEF s, n, g
<1>7. /\ d \in Caches /\ Len(d.kv) = n /\ d.far = e.cache.far
      /\ EntryOK(e) => TrueTo(d, e.prompt)
  <2>1. d = Trimmed(e.cache, n, s) /\ n = s.n
    BY DEF n
  <2>2. /\ d \in Caches /\ Len(d.kv) = n /\ d.far = e.cache.far
        /\ \A q \in Seq(Tokens) :
             /\ TrueTo(e.cache, q)
             /\ kind = "ssm" /\ ~e.cache.far => Begins(s.st, q) /\ Len(s.st) = n
             => TrueTo(d, q)
    <3> DEFINE c == e.cache
    <3>1. /\ c \in Caches /\ n \in Nat /\ n <= Len(c.kv) /\ d = Trimmed(c, n, s)
          /\ s.st \in Seq(Tokens) /\ kind \in {"kv", "ssm", "v4"}
      BY <1>1, <1>2, <1>6, <2>1
    <3> HIDE DEF c, d
    <3>2. /\ d \in Caches /\ Len(d.kv) = n /\ d.far = c.far
          /\ \A q \in Seq(Tokens) :
               /\ TrueTo(c, q)
               /\ kind = "ssm" /\ ~c.far => Begins(s.st, q) /\ Len(s.st) = n
               => TrueTo(d, q)
      BY <3>1, TrimmedTo
    <3> QED BY <3>2 DEF c
  <2> HIDE DEF d
  <2> QED BY <1>1, <1>3, <1>4, <2>1, <2>2
<1> HIDE DEF d
<1>8. g.cache = d
  BY <1>5 DEF d, n
<1>9. FoundIn(g, e, p)
  BY <1>5, <1>6, <1>7, <1>8 DEF FoundIn
<1> QED BY <1>9 DEF g

LEMMA FreshIs ==
  ASSUME NEW p \in Seq(Tokens)
  PROVE  Fresh \in Caches /\ Fresh.kv = << >> /\ Fresh.far = FALSE /\ TrueTo(Fresh, p)
<1>1. << >> \in Seq(Tokens) /\ Begins(<< >>, p)
  BY DEF Begins
<1>2. /\ Fresh \in Caches /\ Fresh.kv = << >> /\ Fresh.st = << >> /\ Fresh.far = FALSE
  <2>1. FALSE \in BOOLEAN
    OBVIOUS
  <2> QED BY <1>1, <2>1, CacheIs DEF Fresh
<1>3. TrueTo(Fresh, p)
  BY <1>1, <1>2 DEF TrueTo
<1> QED BY <1>2, <1>3

(* What get_kv_cache gives for p: a fresh cache, or what it finds of an    *)
(* entry.                                                                  *)
LEMMA Found ==
  ASSUME kind \in {"kv", "ssm", "v4"}, NEW es \in Seq(Entries), NEW p \in Seq(Tokens), p # << >>
  PROVE  LET g == GetKvCache(es, p)
         IN  \/ g = NoHit
             \/ g.at \in 1 .. Len(es) /\ FoundIn(g, es[g.at], p)
<1> DEFINE lens == [i \in DOMAIN es |-> MatchLength(es[i], p)]
           m == BestMatch(lens, Len(p))
           g == GetKvCache(es, p)
<1>1. Len(es) \in Nat /\ Len(p) \in Nat /\ DOMAIN es = 1 .. Len(es)
  OBVIOUS
<1>2. \A i \in 1 .. Len(es) : es[i] \in Entries /\ MatchLength(es[i], p) \in Nat
  <2>1. \A i \in 1 .. Len(es) : es[i] \in Entries
    OBVIOUS
  <2> QED BY <2>1, MatchIsBounded
<1>3. lens \in [1 .. Len(es) -> Nat] /\ \A i \in 1 .. Len(es) : lens[i] = MatchLength(es[i], p)
  BY <1>1, <1>2
<1>4. g = Reuse(m, es, p)
  BY DEF GetKvCache
<1> HIDE DEF lens
<1>5. /\ m.at \in 0 .. Len(es)
      /\ m.at # 0 => /\ m.len = lens[m.at]
                     /\ m.exact => m.len >= Len(p) - 1
                     /\ ~m.exact => m.len < Len(p) - 1
  BY <1>1, <1>3, BestIsOne
<1> HIDE DEF m, g
<1>6. CASE m.at = 0
  BY <1>4, <1>6 DEF Reuse, g
<1> DEFINE e == es[m.at]
<1>7. ASSUME m.at # 0 PROVE m.at \in 1 .. Len(es) /\ e \in Entries /\ m.len = MatchLength(e, p)
  BY <1>2, <1>3, <1>5, <1>7
<1> HIDE DEF e
<1>8. CASE m.at # 0 /\ kind = "kv"
  <2>1. g = CutTo(Target(e, m, p), e, m.at)
    BY <1>4, <1>8 DEF Reuse, e
  <2>2. g.at = m.at
    BY <2>1 DEF CutTo
  <2>3. FoundIn(g, e, p)
    BY <1>5, <1>7, <1>8, <2>1, CutIsFound
  <2> QED BY <1>7, <1>8, <2>2, <2>3 DEF g, e
<1>9. CASE m.at # 0 /\ kind # "kv"
  <2> DEFINE k == NearestSnapshot(e.snaps, Target(e, m, p))
  <2>1. g = RestoreTo(k, e, m.at)
    BY <1>4, <1>9 DEF Reuse, e
  <2>2. Target(e, m, p) = MatchLength(e, p)
    BY <1>7, <1>9 DEF Target
  <2>3. MatchLength(e, p) \in Nat /\ e.snaps \in Seq(Snapshots)
    BY <1>7, <1>9, MatchIsBounded, EntryFields
  <2>4. k \in 0 .. Len(e.snaps) /\ (k # 0 => e.snaps[k].n <= MatchLength(e, p))
    BY <2>2, <2>3, NearestIsBelow
  <2> HIDE DEF k
  <2>5. CASE k = 0
    BY <2>1, <2>5 DEF RestoreTo, g
  <2>6. CASE k # 0
    <3>1. k \in 1 .. Len(e.snaps)
      BY <2>3, <2>4, <2>6
    <3>2. FoundIn(g, e, p)
      BY <1>7, <1>9, <2>1, <2>4, <2>6, <3>1, RestoredIsFound
    <3>3. g.at = m.at
      BY <2>1, <2>6 DEF RestoreTo
    <3> QED BY <1>7, <1>9, <3>2, <3>3 DEF g, e
  <2> QED BY <2>5, <2>6
<1> QED BY <1>1, <1>5, <1>6, <1>8, <1>9

(* In general: a cache of hit tokens, that are the first of p when the     *)
(* entry is true to its prompt.                                            *)
LEMMA FoundIsTrue ==
  ASSUME kind \in {"kv", "ssm", "v4"}, NEW es \in Seq(Entries), NEW p \in Seq(Tokens), p # << >>
  PROVE  LET g == GetKvCache(es, p)
         IN  /\ g.cache \in Caches /\ g.hit \in Nat /\ g.at \in 0 .. Len(es)
             /\ Len(g.cache.kv) = g.hit /\ g.hit <= Len(p)
             /\ kind = "kv" => g.hit < Len(p)
             /\ g.at = 0 => TrueTo(g.cache, p)
             /\ g.at # 0 =>
                  /\ g.cache.far = es[g.at].cache.far
                  /\ g.hit <= Len(es[g.at].prompt)
                  /\ EntryOK(es[g.at]) /\ p \in Prompts =>
                       /\ TrueTo(g.cache, p)
                       /\ \A i \in 1 .. g.hit : es[g.at].prompt[i] = p[i]
<1> DEFINE g == GetKvCache(es, p)
           Goal(x) ==
             /\ x.cache \in Caches /\ x.hit \in Nat /\ x.at \in 0 .. Len(es)
             /\ Len(x.cache.kv) = x.hit /\ x.hit <= Len(p)
             /\ kind = "kv" => x.hit < Len(p)
             /\ x.at = 0 => TrueTo(x.cache, p)
             /\ x.at # 0 =>
                  /\ x.cache.far = es[x.at].cache.far
                  /\ x.hit <= Len(es[x.at].prompt)
                  /\ EntryOK(es[x.at]) /\ p \in Prompts =>
                       /\ TrueTo(x.cache, p)
                       /\ \A i \in 1 .. x.hit : es[x.at].prompt[i] = p[i]
<1> SUFFICES Goal(g)
  OBVIOUS
<1>1. g = NoHit \/ (g.at \in 1 .. Len(es) /\ FoundIn(g, es[g.at], p))
  BY Found
<1> HIDE DEF g
<1>2. CASE g = NoHit
  <2>1. g.cache = Fresh /\ g.hit = 0 /\ g.at = 0
    BY <1>2 DEF NoHit
  <2>2. Len(<< >>) = 0 /\ Len(p) \in Nat /\ Len(p) > 0 /\ Len(es) \in Nat
    OBVIOUS
  <2>3. Fresh \in Caches /\ Len(Fresh.kv) = 0 /\ TrueTo(Fresh, p)
    BY <2>2, FreshIs
  <2> QED BY <2>1, <2>2, <2>3
<1>3. CASE g.at \in 1 .. Len(es) /\ FoundIn(g, es[g.at], p)
  <2> DEFINE e == es[g.at]
  <2>1. e \in Entries
    BY <1>3
  <2> HIDE DEF e
  <2>2. /\ MatchLength(e, p) \in Nat /\ MatchLength(e, p) <= Len(p)
        /\ MatchLength(e, p) <= Len(e.prompt)
    BY <2>1, MatchIsBounded
  <2>3. /\ g.cache \in Caches /\ g.hit \in Nat /\ Len(g.cache.kv) = g.hit
        /\ g.hit <= MatchLength(e, p)
        /\ kind = "kv" => g.hit < Len(p)
        /\ g.cache.far = e.cache.far
        /\ EntryOK(e) => TrueTo(g.cache, e.prompt)
    BY <1>3 DEF FoundIn, e
  <2>4. g.hit <= Len(p) /\ g.hit <= Len(e.prompt)
    <3>1. Len(p) \in Nat /\ Len(e.prompt) \in Nat
      BY <2>1, EntryFields
    <3> QED BY <2>2, <2>3, <3>1
  <2>5. ASSUME EntryOK(e), p \in Prompts
        PROVE  TrueTo(g.cache, p) /\ \A i \in 1 .. g.hit : e.prompt[i] = p[i]
    <3>1. \A i \in 1 .. MatchLength(e, p) : e.prompt[i] = p[i]
      BY <2>1, <2>5, MatchIsSame
    <3>2. \A i \in 1 .. g.hit : e.prompt[i] = p[i]
      BY <2>2, <2>3, <3>1
    <3>3. ASSUME ~g.cache.far
          PROVE  Begins(g.cache.kv, p) /\ (Restorable => g.cache.st = g.cache.kv)
      <4>1. Begins(g.cache.kv, e.prompt) /\ (Restorable => g.cache.st = g.cache.kv)
        BY <2>3, <2>5, <3>3 DEF TrueTo
      <4>2. g.cache.kv \in Seq(Tokens) /\ e.prompt \in Seq(Tokens)
        BY <2>1, <2>3, CacheFields, EntryFields
      <4> QED BY <2>3, <2>4, <3>2, <4>1, <4>2, BeginsBoth
    <3> QED BY <3>2, <3>3 DEF TrueTo
  <2>6. g.at # 0 /\ g.at \in 0 .. Len(es)
    BY <1>3
  <2> QED BY <2>3, <2>4, <2>5, <2>6 DEF e
<1> QED BY <1>1, <1>2, <1>3

-----------------------------------------------------------------------------
(* Prefilling.                                                             *)

(* toks are the tokens of p after the first h, or some of them.            *)
Follows(toks, h, p) ==
  h + Len(toks) <= Len(p) /\ \A i \in 1 .. Len(toks) : toks[i] = p[h + i]

LEMMA ReadOn ==
  ASSUME NEW c \in Caches, NEW toks \in Seq(Tokens)
  PROVE  /\ Read(c, toks) \in Caches /\ Len(Read(c, toks).kv) = Len(c.kv) + Len(toks)
         /\ Read(c, toks).far = c.far
         /\ \A p \in Seq(Tokens) :
              TrueTo(c, p) /\ Follows(toks, Len(c.kv), p) => TrueTo(Read(c, toks), p)
<1> DEFINE kv == c.kv \o toks
           st == c.st \o toks
           d == Read(c, toks)
<1>1. /\ c.kv \in Seq(Tokens) /\ c.st \in Seq(Tokens) /\ c.far \in BOOLEAN
      /\ kind = "kv" => c.st = c.kv
  BY CacheFields
<1>2. /\ kv \in Seq(Tokens) /\ st \in Seq(Tokens) /\ (c.st = c.kv => st = kv)
      /\ Len(kv) = Len(c.kv) + Len(toks)
      /\ \A i \in 1 .. Len(c.kv) + Len(toks) :
           kv[i] = IF i <= Len(c.kv) THEN c.kv[i] ELSE toks[i - Len(c.kv)]
  BY <1>1, ConcatProperties
<1>3. d = Cache(kv, st, c.far)
  BY DEF Read
<1> HIDE DEF kv, st, d
<1>4. d \in Caches /\ d.kv = kv /\ d.st = st /\ d.far = c.far
  BY <1>1, <1>2, <1>3, CacheIs
<1>5. ASSUME NEW p \in Seq(Tokens), TrueTo(c, p), Follows(toks, Len(c.kv), p)
      PROVE  TrueTo(d, p)
  <2>1. ASSUME ~c.far PROVE Begins(kv, p) /\ (Restorable => st = kv)
    <3>1. Begins(c.kv, p) /\ (Restorable => c.st = c.kv)
      BY <1>5, <2>1 DEF TrueTo
    <3>2. ASSUME NEW i \in 1 .. Len(kv) PROVE kv[i] = p[i]
      <4>1. i \in Nat /\ Len(c.kv) \in Nat /\ Len(toks) \in Nat /\ i >= 1
            /\ i <= Len(c.kv) + Len(toks)
        BY <1>1, <1>2
      <4>2. CASE i <= Len(c.kv)
        <5>1. i \in 1 .. Len(c.kv)
          BY <4>1, <4>2
        <5>2. c.kv[i] = p[i]
          BY <3>1, <5>1 DEF Begins
        <5> QED BY <1>2, <4>1, <4>2, <5>2
      <4>3. CASE ~(i <= Len(c.kv))
        <5>1. i - Len(c.kv) \in 1 .. Len(toks) /\ Len(c.kv) + (i - Len(c.kv)) = i
          BY <4>1, <4>3
        <5>2. toks[i - Len(c.kv)] = p[i]
          BY <1>5, <5>1 DEF Follows
        <5> QED BY <1>2, <4>1, <4>3, <5>2
      <4> QED BY <4>2, <4>3
    <3>3. Len(kv) <= Len(p)
      BY <1>2, <1>5 DEF Follows
    <3> QED BY <1>2, <3>1, <3>2, <3>3 DEF Begins
  <2> QED BY <1>4, <2>1 DEF TrueTo
<1> QED BY <1>2, <1>4, <1>5 DEF d

(* The first tokens of what follows follow.                                *)
LEMMA FollowsShorter ==
  ASSUME NEW toks \in Seq(Tokens), NEW n \in Nat, n <= Len(toks)
  PROVE  /\ SubSeq(toks, 1, n) \in Seq(Tokens) /\ Len(SubSeq(toks, 1, n)) = n
         /\ \A h \in Nat, p \in Seq(Tokens) :
              Follows(toks, h, p) => Follows(SubSeq(toks, 1, n), h, p)
<1> DEFINE u == SubSeq(toks, 1, n)
<1>1. u \in Seq(Tokens) /\ Len(u) = n /\ \A i \in 1 .. n : u[i] = toks[i]
  <2>1. 1 \in Nat \ {0} /\ n \in Int
    OBVIOUS
  <2>2. /\ u \in Seq(Tokens) /\ Len(u) = IF 1 <= n THEN n - 1 + 1 ELSE 0
        /\ \A i \in 1 .. n - 1 + 1 : u[i] = toks[1 + i - 1]
    BY <2>1, Part
  <2> QED BY <2>2
<1> HIDE DEF u
<1>2. ASSUME NEW h \in Nat, NEW p \in Seq(Tokens), Follows(toks, h, p)
      PROVE  Follows(u, h, p)
  <2>1. h + Len(toks) <= Len(p) /\ \A i \in 1 .. Len(toks) : toks[i] = p[h + i]
    BY <1>2 DEF Follows
  <2>2. h + Len(u) <= Len(p)
    BY <1>1, <2>1
  <2>3. \A i \in 1 .. Len(u) : u[i] = p[h + i]
    BY <1>1, <2>1
  <2> QED BY <2>2, <2>3 DEF Follows
<1> QED BY <1>1, <1>2 DEF u

LEMMA StopsAreWithin ==
  ASSUME NEW stay \in Nat
  PROVE  \E k \in Nat : Stops(stay) \in [1 .. k -> 0 .. stay]
<1> DEFINE k == (stay + StepSize - 1) \div StepSize + 1
<1>1. k \in Nat
  <2>1. StepSize \in Nat \ {0}
    BY PrefixCacheAssumption
  <2>2. stay + StepSize - 1 \in Nat
    BY <2>1
  <2> QED BY <2>1, <2>2
<1> HIDE DEF k
<1>2. ASSUME NEW i \in 1 .. k PROVE Min({(i - 1) * StepSize, stay}) \in 0 .. stay
  <2>1. (i - 1) * StepSize \in Nat
    BY <1>1, PrefixCacheAssumption
  <2> DEFINE a == (i - 1) * StepSize
  <2> HIDE DEF a
  <2>2. a \in Nat
    BY <2>1 DEF a
  <2>3. Min({a, stay}) \in 0 .. stay
    BY <2>2, TwoNumbers
  <2> QED BY <2>3 DEF a
<1>3. Stops(stay) = [i \in 1 .. k |-> Min({(i - 1) * StepSize, stay})]
  BY DEF Stops, k
<1> QED BY <1>1, <1>2, <1>3

(* The cache after so many tokens, as a snapshot.                          *)
LEMMA SnapIs ==
  ASSUME NEW c \in Caches
  PROVE  /\ Snap(c) \in Snapshots /\ Snap(c).n = Len(c.kv) /\ Snap(c).st = c.st
         /\ \A p \in Seq(Tokens) :
              TrueTo(c, p) /\ Restorable /\ ~c.far =>
                Len(Snap(c).st) = Snap(c).n /\ Begins(Snap(c).st, p)
<1>1. Snap(c) \in Snapshots /\ Snap(c).n = Len(c.kv) /\ Snap(c).st = c.st
  BY CacheFields DEF Snap, Snapshots, CacheLength
<1> QED BY <1>1 DEF TrueTo

LEMMA SnapsAlong ==
  ASSUME NEW c \in Caches, NEW toks \in Seq(Tokens), NEW stay \in Nat, stay <= Len(toks)
  PROVE  LET ss == SnapsAt(c, toks, Stops(stay))
         IN  /\ ss \in Seq(Snapshots)
             /\ \A j \in 1 .. Len(ss) : ss[j].n <= Len(c.kv) + stay
             /\ \A p \in Seq(Tokens) :
                  TrueTo(c, p) /\ Follows(toks, Len(c.kv), p) => Remembers(ss, c, p)
<1> DEFINE stops == Stops(stay)
           ss == SnapsAt(c, toks, stops)
           r(i) == Read(c, SubSeq(toks, 1, stops[i]))
<1>1. PICK k \in Nat : stops \in [1 .. k -> 0 .. stay]
  BY StopsAreWithin
<1>2. ss = [i \in 1 .. k |-> Snap(r(i))]
  BY <1>1 DEF SnapsAt
<1>3. Len(c.kv) \in Nat
  BY CacheFields
<1> HIDE DEF stops, ss
<1>4. ASSUME NEW i \in 1 .. k
      PROVE  /\ r(i) \in Caches /\ Len(r(i).kv) <= Len(c.kv) + stay /\ r(i).far = c.far
             /\ \A p \in Seq(Tokens) :
                  TrueTo(c, p) /\ Follows(toks, Len(c.kv), p) => TrueTo(r(i), p)
  <2>1. stops[i] \in Nat /\ stops[i] <= stay /\ stops[i] <= Len(toks)
    BY <1>1
  <2> DEFINE n == stops[i]
             u == SubSeq(toks, 1, n)
  <2> HIDE DEF n
  <2>2. /\ u \in Seq(Tokens) /\ Len(u) = n
        /\ \A h \in Nat, p \in Seq(Tokens) : Follows(toks, h, p) => Follows(u, h, p)
    BY <2>1, FollowsShorter DEF n
  <2> HIDE DEF u
  <2>3. /\ Read(c, u) \in Caches /\ Len(Read(c, u).kv) = Len(c.kv) + n /\ Read(c, u).far = c.far
        /\ \A p \in Seq(Tokens) :
             TrueTo(c, p) /\ Follows(u, Len(c.kv), p) => TrueTo(Read(c, u), p)
    BY <2>2, ReadOn
  <2>4. Len(Read(c, u).kv) <= Len(c.kv) + stay
    BY <1>3, <2>1, <2>3 DEF n
  <2>5. r(i) = Read(c, u)
    BY DEF u, n
  <2> HIDE DEF r
  <2> QED BY <1>3, <2>2, <2>3, <2>4, <2>5
<1> HIDE DEF r
<1>5. ASSUME NEW i \in 1 .. k
      PROVE  /\ Snap(r(i)) \in Snapshots /\ Snap(r(i)).n <= Len(c.kv) + stay
             /\ \A p \in Seq(Tokens) :
                  TrueTo(c, p) /\ Follows(toks, Len(c.kv), p) /\ Restorable /\ ~c.far
                    => Len(Snap(r(i)).st) = Snap(r(i)).n /\ Begins(Snap(r(i)).st, p)
  BY <1>4, SnapIs
<1>6. ss \in Seq(Snapshots) /\ Len(ss) = k /\ \A j \in 1 .. k : ss[j] = Snap(r(j))
  BY <1>2, <1>5
<1>7. \A j \in 1 .. Len(ss) : ss[j].n <= Len(c.kv) + stay
  BY <1>5, <1>6
<1>8. ASSUME NEW p \in Seq(Tokens), TrueTo(c, p), Follows(toks, Len(c.kv), p)
      PROVE  Remembers(ss, c, p)
  BY <1>5, <1>6, <1>8 DEF Remembers
<1> QED BY <1>6, <1>7, <1>8 DEF ss, stops

(* What a prefill leaves: all but the last of its tokens are read.         *)
LEMMA PrefilledIs ==
  ASSUME NEW c \in Caches, NEW toks \in Seq(Tokens)
  PROVE  LET r == Prefilled(c, toks)
         IN  /\ r.cache \in Caches /\ r.snaps \in Seq(Snapshots) /\ Fit(r.snaps, r.cache)
             /\ Len(r.cache.kv) = IF toks = << >> THEN Len(c.kv) ELSE Len(c.kv) + Len(toks) - 1
             /\ r.cache.far = c.far
             /\ \A p \in Seq(Tokens) :
                  TrueTo(c, p) /\ Follows(toks, Len(c.kv), p)
                    => TrueTo(r.cache, p) /\ Remembers(r.snaps, r.cache, p)
<1> DEFINE r == Prefilled(c, toks)
           Goal(x) ==
             /\ x.cache \in Caches /\ x.snaps \in Seq(Snapshots) /\ Fit(x.snaps, x.cache)
             /\ Len(x.cache.kv) = IF toks = << >> THEN Len(c.kv) ELSE Len(c.kv) + Len(toks) - 1
             /\ x.cache.far = c.far
             /\ \A p \in Seq(Tokens) :
                  TrueTo(c, p) /\ Follows(toks, Len(c.kv), p)
                    => TrueTo(x.cache, p) /\ Remembers(x.snaps, x.cache, p)
<1> SUFFICES Goal(r)
  OBVIOUS
<1>1. << >> \in Seq(Snapshots) /\ \A x, p : Fit(<< >>, x) /\ Remembers(<< >>, x, p)
  BY DEF Fit, Remembers
<1>2. CASE toks = << >>
  <2>1. r.cache = c /\ r.snaps = << >>
    BY <1>2 DEF Prefilled
  <2> HIDE DEF r
  <2> QED BY <1>1, <1>2, <2>1
<1>3. CASE toks # << >>
  <2> DEFINE stay == Len(toks) - 1
             u == SubSeq(toks, 1, stay)
             ss == SnapsAt(c, toks, Stops(stay))
  <2>1. stay \in Nat /\ stay <= Len(toks) /\ Len(c.kv) \in Nat /\ stay = Len(toks) - 1
    BY <1>3, CacheFields
  <2>2. r.cache = Read(c, u) /\ r.snaps = IF kind = "kv" THEN << >> ELSE ss
    BY <1>3 DEF Prefilled, Front
  <2> HIDE DEF stay, r
  <2>3. /\ u \in Seq(Tokens) /\ Len(u) = stay
        /\ \A h \in Nat, p \in Seq(Tokens) : Follows(toks, h, p) => Follows(u, h, p)
    BY <2>1, FollowsShorter
  <2> HIDE DEF u
  <2>4. /\ r.cache \in Caches /\ Len(r.cache.kv) = Len(c.kv) + stay /\ r.cache.far = c.far
        /\ \A p \in Seq(Tokens) :
             TrueTo(c, p) /\ Follows(u, Len(c.kv), p) => TrueTo(r.cache, p)
    BY <2>2, <2>3, ReadOn
  <2>5. /\ ss \in Seq(Snapshots)
        /\ \A j \in 1 .. Len(ss) : ss[j].n <= Len(c.kv) + stay
        /\ \A p \in Seq(Tokens) :
             TrueTo(c, p) /\ Follows(toks, Len(c.kv), p) => Remembers(ss, c, p)
    BY <2>1, SnapsAlong
  <2> HIDE DEF ss
  <2>6. r.snaps \in Seq(Snapshots) /\ Fit(r.snaps, r.cache)
    <3>1. Fit(ss, r.cache)
      BY <2>4, <2>5 DEF Fit
    <3> QED BY <1>1, <2>2, <2>5, <3>1
  <2>7. ASSUME NEW p \in Seq(Tokens), TrueTo(c, p), Follows(toks, Len(c.kv), p)
        PROVE  TrueTo(r.cache, p) /\ Remembers(r.snaps, r.cache, p)
    <3>1. TrueTo(r.cache, p)
      BY <2>1, <2>3, <2>4, <2>7
    <3>2. Remembers(ss, r.cache, p)
      BY <2>4, <2>5, <2>7 DEF Remembers
    <3> QED BY <1>1, <2>2, <3>1, <3>2
  <2>8. Len(r.cache.kv) = Len(c.kv) + Len(toks) - 1
    BY <2>1, <2>4
  <2> QED BY <1>3, <2>4, <2>6, <2>7, <2>8
<1> QED BY <1>2, <1>3

-----------------------------------------------------------------------------
(* Saving.                                                                 *)

LEMMA ThoseAreOf ==
  ASSUME NEW T, NEW s \in Seq(T), NEW at
  PROVE  /\ Those(s, at) \in Seq(T)
         /\ \A j \in 1 .. Len(Those(s, at)) :
              \E i \in 1 .. Len(s) : i \in at /\ Those(s, at)[j] = s[i]
<1> DEFINE U == {s[i] : i \in {j \in 1 .. Len(s) : j \in at}}
           u == Those(s, at)
<1>1. u \in Seq(U)
  BY ThoseAreSome
<1>2. U \subseteq T
  OBVIOUS
<1> HIDE DEF u
<1>3. u \in Seq(T)
  <2> HIDE DEF U
  <2> QED BY <1>1, <1>2, SeqMonotonic
<1>4. \A j \in 1 .. Len(u) : u[j] \in U
  <2> HIDE DEF U
  <2> QED BY <1>1
<1>5. \A j \in 1 .. Len(u) : \E i \in 1 .. Len(s) : i \in at /\ u[j] = s[i]
  BY <1>4
<1> QED BY <1>3, <1>5 DEF u

(* Entries es2 are entries es but for the order they were used in.         *)
LEMMA Touched ==
  ASSUME NEW es \in Seq(Entries), NEW i \in 0 .. Len(es), NEW t \in Nat
  PROVE  /\ Touch(es, i, t) \in Seq(Entries) /\ Len(Touch(es, i, t)) = Len(es)
         /\ \A j \in 1 .. Len(es) :
              /\ Touch(es, i, t)[j].prompt = es[j].prompt
              /\ Touch(es, i, t)[j].cache = es[j].cache
              /\ Touch(es, i, t)[j].snaps = es[j].snaps
              /\ EntryOK(es[j]) => EntryOK(Touch(es, i, t)[j])
<1>1. CASE i = 0
  BY <1>1 DEF Touch
<1>2. CASE i # 0
  <2> DEFINE d == [es[i] EXCEPT !.used = t]
             fs == [es EXCEPT ![i] = d]
  <2>1. i \in 1 .. Len(es) /\ es[i] \in Entries
    BY <1>2
  <2>2. Touch(es, i, t) = fs
    BY <1>2 DEF Touch
  <2>3. /\ d.prompt = es[i].prompt /\ d.cache = es[i].cache /\ d.snaps = es[i].snaps
        /\ d.regions = es[i].regions /\ d \in Entries
    BY <2>1 DEF Entries
  <2> HIDE DEF d
  <2>4. EntryOK(es[i]) => EntryOK(d)
    BY <2>3 DEF EntryOK
  <2>5. /\ fs \in Seq(Entries) /\ Len(fs) = Len(es)
        /\ \A j \in 1 .. Len(es) : fs[j] = IF j = i THEN d ELSE es[j]
    BY <2>1, <2>3, ExceptSeq
  <2> HIDE DEF fs
  <2> QED BY <2>2, <2>3, <2>4, <2>5
<1> QED BY <1>1, <1>2

LEMMA EntryIs ==
  ASSUME NEW p \in Seq(Tokens), NEW c \in Caches, NEW ss \in Seq(Snapshots), Fit(ss, c),
         NEW t \in Nat
  PROVE  /\ Entry(p, c, ss, t) \in Entries /\ Entry(p, c, ss, t).cache = c
         /\ p \in Prompts /\ TrueTo(c, p) /\ Remembers(ss, c, p) => EntryOK(Entry(p, c, ss, t))
<1> DEFINE e == Entry(p, c, ss, t)
<1>1. /\ e.prompt = p /\ e.cache = c /\ e.snaps = ss /\ e.regions = Regions(p) /\ e.used = t
      /\ e = [prompt |-> p, cache |-> c, snaps |-> ss, regions |-> Regions(p), used |-> t]
  BY DEF Entry
<1>2. Regions(p) \in SUBSET Pictures
  BY RegionsArePictures
<1> HIDE DEF e
<1>3. e \in Entries
  BY <1>1, <1>2 DEF Entries
<1>4. p \in Prompts /\ TrueTo(c, p) /\ Remembers(ss, c, p) => EntryOK(e)
  BY <1>1 DEF EntryOK
<1> QED BY <1>1, <1>3, <1>4 DEF e

(* A new entry is added, after older ones may have been evicted.           *)
LEMMA Added ==
  ASSUME NEW es \in Seq(Entries), NEW p \in Seq(Tokens), NEW c \in Caches,
         NEW ss \in Seq(Snapshots), Fit(ss, c), NEW t \in Nat, NEW next \in Adds(es, p, c, ss, t)
  PROVE  /\ next \in Seq(Entries)
         /\ /\ \A j \in 1 .. Len(es) : EntryOK(es[j])
            /\ p \in Prompts /\ TrueTo(c, p) /\ Remembers(ss, c, p)
            => \A j \in 1 .. Len(next) : EntryOK(next[j])
<1> DEFINE e == Entry(p, c, ss, t)
<1>1. PICK kept \in Evicted(es) : next = Append(kept, e)
  BY DEF Adds
<1>2. PICK at : kept = Those(es, at)
  BY DEF Evicted
<1>3. /\ kept \in Seq(Entries)
      /\ \A j \in 1 .. Len(kept) : \E i \in 1 .. Len(es) : kept[j] = es[i]
  <2> DEFINE u == Those(es, at)
  <2>1. u \in Seq(Entries) /\ \A j \in 1 .. Len(u) : \E i \in 1 .. Len(es) : i \in at /\ u[j] = es[i]
    <3> HIDE DEF e
    <3> QED BY ThoseAreOf
  <2> HIDE DEF u
  <2>2. kept = u
    BY <1>2 DEF u
  <2> QED BY <2>1, <2>2
<1>4. /\ e \in Entries
      /\ p \in Prompts /\ TrueTo(c, p) /\ Remembers(ss, c, p) => EntryOK(e)
  BY EntryIs
<1> HIDE DEF e
<1>5. /\ next \in Seq(Entries) /\ Len(next) = Len(kept) + 1 /\ Len(kept) \in Nat
      /\ \A j \in 1 .. Len(kept) : next[j] = kept[j]
      /\ next[Len(kept) + 1] = e
  BY <1>1, <1>3, <1>4, AppendProperties
<1>6. ASSUME \A j \in 1 .. Len(es) : EntryOK(es[j]), EntryOK(e), NEW j \in 1 .. Len(next)
      PROVE  EntryOK(next[j])
  <2>1. j \in 1 .. Len(kept) \/ j = Len(kept) + 1
    BY <1>5
  <2>2. CASE j \in 1 .. Len(kept)
    <3>1. PICK i \in 1 .. Len(es) : kept[j] = es[i]
      BY <1>3, <2>2
    <3>2. next[j] = es[i]
      BY <1>5, <2>2, <3>1
    <3> QED BY <1>6, <3>2
  <2>3. CASE j = Len(kept) + 1
    BY <1>5, <1>6, <2>3
  <2> QED BY <2>1, <2>2, <2>3
<1> QED BY <1>4, <1>5, <1>6

(* The snapshots that are kept of an entry's are of no more than pos       *)
(* tokens, and true to a prompt that agrees with it that far.              *)
LEMMA KeptAre ==
  ASSUME NEW e \in Entries, NEW pos \in Nat, NEW c \in Caches, pos <= Len(c.kv)
  PROVE  LET ks == KeptSnapshots(e.snaps, pos)
         IN  /\ ks \in Seq(Snapshots) /\ Fit(ks, c)
             /\ \A p \in Seq(Tokens) :
                  /\ EntryOK(e) /\ (e.cache.far => c.far) /\ pos <= Len(p)
                  /\ \A i \in 1 .. pos : e.prompt[i] = p[i]
                  => Remembers(ks, c, p)
<1> DEFINE ks == KeptSnapshots(e.snaps, pos)
<1>1. e.snaps \in Seq(Snapshots) /\ e.prompt \in Seq(Tokens)
  BY EntryFields
<1>2. /\ ks \in Seq(Snapshots)
      /\ \A j \in 1 .. Len(ks) : \E i \in 1 .. Len(e.snaps) :
           e.snaps[i].n <= pos /\ ks[j] = e.snaps[i]
  <2> DEFINE at == {i \in DOMAIN e.snaps : e.snaps[i].n <= pos}
  <2>1. ks = Those(e.snaps, at)
    BY DEF KeptSnapshots
  <2>2. \A i \in at : e.snaps[i].n <= pos
    OBVIOUS
  <2> HIDE DEF at, ks
  <2> QED BY <1>1, <2>1, <2>2, ThoseAreOf
<1> HIDE DEF ks
<1>3. \A j \in 1 .. Len(ks) : ks[j].n <= pos /\ ks[j].n \in Nat /\ ks[j].st \in Seq(Tokens)
  <2>1. ASSUME NEW j \in 1 .. Len(ks) PROVE ks[j] \in Snapshots /\ ks[j].n <= pos
    BY <1>2
  <2> QED BY <2>1 DEF Snapshots
<1>4. Fit(ks, c)
  <2>1. Len(c.kv) \in Nat
    BY CacheFields
  <2> QED BY <1>3, <2>1 DEF Fit
<1>5. ASSUME NEW p \in Seq(Tokens), EntryOK(e), e.cache.far => c.far, pos <= Len(p),
             \A i \in 1 .. pos : e.prompt[i] = p[i]
      PROVE  Remembers(ks, c, p)
  <2>1. ASSUME Restorable, ~c.far, NEW j \in 1 .. Len(ks)
        PROVE  Len(ks[j].st) = ks[j].n /\ Begins(ks[j].st, p)
    <3>1. PICK i \in 1 .. Len(e.snaps) : ks[j] = e.snaps[i]
      BY <1>2, <2>1
    <3>2. Len(ks[j].st) = ks[j].n /\ Begins(ks[j].st, e.prompt)
      BY <1>5, <2>1, <3>1 DEF EntryOK, Remembers
    <3>3. ks[j].n <= pos /\ ks[j].n \in Nat /\ ks[j].st \in Seq(Tokens)
      BY <1>3, <2>1
    <3> DEFINE s == ks[j].st
    <3> HIDE DEF s
    <3>4. Len(s) <= pos /\ Len(s) \in Nat /\ s \in Seq(Tokens) /\ Begins(s, e.prompt)
      BY <3>2, <3>3 DEF s
    <3>5. Len(s) <= Len(p) /\ \A k \in 1 .. Len(s) : e.prompt[k] = p[k]
      BY <1>5, <3>4
    <3>6. Begins(s, p)
      BY <1>1, <3>4, <3>5, BeginsBoth
    <3> QED BY <3>2, <3>6 DEF s
  <2> QED BY <2>1 DEF Remembers
<1> QED BY <1>2, <1>4, <1>5 DEF ks

(* An entry agrees with p for hit tokens, and a far one gives a far cache. *)
Agrees(e, p, hit, c) ==
  /\ e.cache.far => c.far
  /\ \A k \in 1 .. hit : e.prompt[k] = p[k]

(* The entry that was found takes the new prompt and cache, with the old   *)
(* snapshots it keeps.                                                     *)
LEMMA Updated ==
  ASSUME NEW es \in Seq(Entries), NEW i \in 1 .. Len(es), NEW p \in Seq(Tokens),
         NEW c \in Caches, NEW ss \in Seq(Snapshots), Fit(ss, c),
         NEW hit \in Nat, hit <= Len(c.kv), hit <= Len(p), NEW t \in Nat
  PROVE  LET next == UpdateKvCache(es, i, p, c, ss, hit, t)
         IN  /\ next \in Seq(Entries)
             /\ /\ \A j \in 1 .. Len(es) : EntryOK(es[j])
                /\ p \in Prompts /\ TrueTo(c, p) /\ Remembers(ss, c, p)
                /\ Agrees(es[i], p, hit, c)
                => \A j \in 1 .. Len(next) : EntryOK(next[j])
<1> DEFINE e == es[i]
           ks == KeptSnapshots(e.snaps, hit)
           all == ks \o ss
           d == Entry(p, c, all, t)
           next == UpdateKvCache(es, i, p, c, ss, hit, t)
<1>1. e \in Entries
  OBVIOUS
<1>2. next = [es EXCEPT ![i] = d]
  BY DEF UpdateKvCache
<1> HIDE DEF e, next
<1>3. /\ ks \in Seq(Snapshots) /\ Fit(ks, c)
      /\ EntryOK(e) /\ Agrees(e, p, hit, c) => Remembers(ks, c, p)
  BY <1>1, KeptAre DEF Agrees
<1> HIDE DEF ks
<1>4. /\ all \in Seq(Snapshots) /\ Len(all) = Len(ks) + Len(ss)
      /\ \A j \in 1 .. Len(ks) + Len(ss) :
           all[j] = IF j <= Len(ks) THEN ks[j] ELSE ss[j - Len(ks)]
  BY <1>3, ConcatProperties
<1> HIDE DEF all
<1>5. \A j \in 1 .. Len(all) : (\E k \in 1 .. Len(ks) : all[j] = ks[k])
                               \/ (\E k \in 1 .. Len(ss) : all[j] = ss[k])
  <2>1. Len(ks) \in Nat /\ Len(ss) \in Nat
    BY <1>3
  <2> SUFFICES ASSUME NEW j \in 1 .. Len(all)
               PROVE  (\E k \in 1 .. Len(ks) : all[j] = ks[k])
                      \/ (\E k \in 1 .. Len(ss) : all[j] = ss[k])
    OBVIOUS
  <2>2. CASE j <= Len(ks)
    <3>1. j \in 1 .. Len(ks) /\ all[j] = ks[j]
      BY <1>4, <2>1, <2>2
    <3> QED BY <3>1
  <2>3. CASE ~(j <= Len(ks))
    <3>1. j - Len(ks) \in 1 .. Len(ss) /\ all[j] = ss[j - Len(ks)]
      BY <1>4, <2>1, <2>3
    <3> QED BY <3>1
  <2> QED BY <2>2, <2>3
<1>6. Fit(all, c)
  BY <1>3, <1>5 DEF Fit
<1>7. Remembers(ks, c, p) /\ Remembers(ss, c, p) => Remembers(all, c, p)
  BY <1>5 DEF Remembers
<1>8. /\ d \in Entries
      /\ p \in Prompts /\ TrueTo(c, p) /\ Remembers(all, c, p) => EntryOK(d)
  BY <1>4, <1>6, EntryIs
<1> HIDE DEF d
<1>9. /\ next \in Seq(Entries) /\ Len(next) = Len(es)
      /\ \A j \in 1 .. Len(es) : next[j] = IF j = i THEN d ELSE es[j]
  BY <1>2, <1>8, ExceptSeq
<1>10. ASSUME \A j \in 1 .. Len(es) : EntryOK(es[j]), p \in Prompts, TrueTo(c, p),
              Remembers(ss, c, p), Agrees(e, p, hit, c), NEW j \in 1 .. Len(next)
       PROVE  EntryOK(next[j])
  <2>1. EntryOK(e)
    BY <1>10 DEF e
  <2>2. EntryOK(d)
    BY <1>3, <1>7, <1>8, <1>10, <2>1
  <2> QED BY <1>9, <1>10, <2>2
<1> QED BY <1>9, <1>10 DEF e, next

LEMMA Saved ==
  ASSUME NEW es \in Seq(Entries), NEW i \in 0 .. Len(es), NEW p \in Seq(Tokens),
         NEW c \in Caches, NEW ss \in Seq(Snapshots), Fit(ss, c),
         NEW hit \in Nat, hit <= Len(c.kv), hit <= Len(p), NEW least, NEW t \in Nat,
         NEW next \in Saves(es, i, p, c, ss, hit, least, t)
  PROVE  /\ next \in Seq(Entries)
         /\ /\ \A j \in 1 .. Len(es) : EntryOK(es[j])
            /\ p \in Prompts /\ TrueTo(c, p) /\ Remembers(ss, c, p)
            /\ i # 0 => Agrees(es[i], p, hit, c)
            => \A j \in 1 .. Len(next) : EntryOK(next[j])
<1>1. CASE i # 0 /\ next = UpdateKvCache(es, i, p, c, ss, hit, t)
  <2>1. i \in 1 .. Len(es)
    BY <1>1
  <2> QED BY <1>1, <2>1, Updated
<1>2. CASE next \in Adds(es, p, c, ss, t)
  BY <1>2, Added
<1>3. \/ i # 0 /\ next = UpdateKvCache(es, i, p, c, ss, hit, t)
      \/ next \in Adds(es, p, c, ss, t)
  BY DEF Saves
<1> QED BY <1>1, <1>2, <1>3

(* What the prefill server does keeps its entries typed.                   *)
LEMMA ServedIs ==
  ASSUME kind \in {"kv", "ssm", "v4"}, srv \in Seq(Entries), clock \in Nat,
         NEW toks \in Seq(Tokens), toks # << >>
  PROVE  Served(toks).cache \in Caches /\ \A next \in Served(toks).next : next \in Seq(Entries)
<1> DEFINE g == GetKvCache(srv, toks)
           rest == SubSeq(toks, g.hit + 1, Max({g.hit, Len(toks) - 2}))
           c == Prefilled(g.cache, rest).cache
           touched == Touch(srv, g.at, clock + 1)
           snaps == <<Snap(c)>>
<1>1. /\ g.cache \in Caches /\ g.hit \in Nat /\ g.at \in 0 .. Len(srv)
      /\ Len(g.cache.kv) = g.hit /\ g.hit <= Len(toks)
  BY FoundIsTrue
<1>2. /\ Served(toks).cache = c
      /\ Served(toks).next = Saves(touched, g.at, toks, c, snaps, g.hit, 0, clock + 2)
  BY DEF Served, PrefillServed, Answer
<1> HIDE DEF g
<1>3. rest \in Seq(Tokens)
  <2> DEFINE n == Max({g.hit, Len(toks) - 2})
  <2>1. n \in Int /\ n <= Len(toks) /\ g.hit + 1 \in Nat \ {0}
    <3>1. g.hit \in Int /\ Len(toks) - 2 \in Int /\ Len(toks) \in Nat
      BY <1>1
    <3>2. n = IF g.hit >= Len(toks) - 2 THEN g.hit ELSE Len(toks) - 2
      BY <3>1, TwoNumbers
    <3> HIDE DEF n
    <3> QED BY <1>1, <3>1, <3>2
  <2> HIDE DEF n
  <2>2. SubSeq(toks, g.hit + 1, n) \in Seq(Tokens)
    BY <2>1, Part
  <2> QED BY <2>2 DEF n
<1> HIDE DEF rest
<1>4. /\ c \in Caches
      /\ Len(c.kv) = IF rest = << >> THEN g.hit ELSE g.hit + Len(rest) - 1
  BY <1>1, <1>3, PrefilledIs
<1> HIDE DEF c
<1>5. g.hit <= Len(c.kv)
  <2>1. rest # << >> => Len(rest) > 0 /\ Len(rest) \in Nat
    BY <1>3
  <2> QED BY <1>1, <1>4, <2>1
<1>6. touched \in Seq(Entries) /\ Len(touched) = Len(srv)
  <2>1. clock + 1 \in Nat
    OBVIOUS
  <2> QED BY <1>1, <2>1, Touched
<1> HIDE DEF touched
<1>7. snaps \in Seq(Snapshots) /\ Fit(snaps, c)
  <2>1. Snap(c) \in Snapshots /\ Snap(c).n = Len(c.kv) /\ Len(c.kv) \in Nat
    BY <1>4, SnapIs, CacheFields
  <2>2. snaps \in Seq(Snapshots) /\ Len(snaps) = 1 /\ snaps[1] = Snap(c)
    BY <2>1
  <2> HIDE DEF snaps
  <2> QED BY <2>1, <2>2 DEF Fit
<1> HIDE DEF snaps
<1>8. ASSUME NEW next \in Served(toks).next PROVE next \in Seq(Entries)
  <2>1. next \in Saves(touched, g.at, toks, c, snaps, g.hit, 0, clock + 2)
    BY <1>2, <1>8
  <2>2. clock + 2 \in Nat
    OBVIOUS
  <2> QED BY <1>1, <1>4, <1>5, <1>6, <1>7, <2>1, <2>2, Saved
<1> QED BY <1>2, <1>4, <1>8

(* What the server sends is put behind what the client has.                *)
LEMMA IngestedIs ==
  ASSUME kind \in {"kv", "ssm", "v4"}, NEW c \in Caches, NEW a \in Caches, NEW start \in Nat,
         start = Len(c.kv)
  PROVE  LET d == Ingested(c, start, a)
         IN  d \in Caches /\ d.far = TRUE /\ start <= Len(d.kv)
<1> DEFINE got == SubSeq(a.kv, start + 1, Len(a.kv))
           had == SubSeq(c.kv, 1, start)
           kv == IF got = << >> THEN c.kv ELSE had \o got
           st == IF kind = "ssm" THEN a.st ELSE IF got = << >> THEN c.st ELSE had \o got
           d == Ingested(c, start, a)
<1>1. /\ c.kv \in Seq(Tokens) /\ c.st \in Seq(Tokens) /\ (kind = "kv" => c.st = c.kv)
      /\ a.kv \in Seq(Tokens) /\ a.st \in Seq(Tokens) /\ Len(a.kv) \in Nat
  BY CacheFields
<1>2. d = [kv |-> kv, st |-> st, far |-> TRUE]
  BY DEF Ingested
<1> HIDE DEF d
<1>3. got \in Seq(Tokens)
  <2>1. start + 1 \in Nat \ {0} /\ Len(a.kv) \in Int
    BY <1>1
  <2> QED BY <1>1, <2>1, Part
<1>4. had \in Seq(Tokens) /\ Len(had) = start
  <2>1. 1 \in Nat \ {0} /\ start \in Int /\ start <= Len(c.kv)
    BY <1>1
  <2> QED BY <1>1, <2>1, Part
<1> HIDE DEF got, had
<1>5. had \o got \in Seq(Tokens) /\ Len(had \o got) = start + Len(got) /\ Len(got) \in Nat
  <2>1. had \o got \in Seq(Tokens) /\ Len(had \o got) = Len(had) + Len(got)
    BY <1>3, <1>4, ConcatProperties
  <2>2. Len(got) \in Nat
    BY <1>3
  <2> QED BY <1>4, <2>1, <2>2
<1>6. kv \in Seq(Tokens) /\ st \in Seq(Tokens) /\ (kind = "kv" => st = kv) /\ start <= Len(kv)
  BY <1>1, <1>5
<1> HIDE DEF kv, st
<1>7. d \in Caches /\ d.far = TRUE /\ start <= Len(d.kv)
  BY <1>2, <1>6 DEF Caches
<1> QED BY <1>7 DEF d

-----------------------------------------------------------------------------
(* The invariant.                                                          *)

LEMMA RequestFields ==
  ASSUME req \in Requests
  PROVE  /\ req.pc \in {"idle", "prefill", "save", "decode"} /\ req.prompt \in Seq(Tokens)
         /\ req.cache \in Caches /\ req.hit \in Nat /\ req.at \in Nat
         /\ req.snaps \in Seq(Snapshots)
<1> QED BY DEF Requests

(* The kind of the layers does not change.                                 *)
LEMMA SameKind ==
  ASSUME kind' = kind
  PROVE  Caches' = Caches /\ Entries' = Entries /\ Requests' = Requests
<1>1. Caches' = Caches
  BY DEF Caches
<1> QED BY <1>1 DEF Entries, Requests, Fit

(* The next entries are true to their prompts when what they are now to be *)
(* is, in the present kind.                                                *)
LEMMA NextEntriesOK ==
  ASSUME kind' = kind, \A i \in 1 .. Len(entries') : EntryOK(entries'[i])
  PROVE  (\A i \in 1 .. Len(entries) : EntryOK(entries[i]))'
<1> QED BY DEF EntryOK, TrueTo, Remembers, Restorable

LEMMA EntriesStayOK ==
  ASSUME kind' = kind, entries' = entries, \A i \in 1 .. Len(entries) : EntryOK(entries[i])
  PROVE  (\A i \in 1 .. Len(entries) : EntryOK(entries[i]))'
<1> QED BY NextEntriesOK

LEMMA InitInv ==
  ASSUME PrefixCacheInit
  PROVE  Inv
<1>1. << >> \in Seq(Tokens) /\ << >> \in Seq(Entries) /\ << >> \in Seq(Snapshots)
  OBVIOUS
<1>2. Fresh \in Caches
  BY <1>1, FreshIs
<1>3. req.pc = "idle" /\ req \in Requests
  BY <1>1, <1>2 DEF PrefixCacheInit, Idle, Requests
<1>4. Typed
  BY <1>1, <1>3 DEF PrefixCacheInit, Typed
<1>5. Len(entries) = 0
  BY DEF PrefixCacheInit
<1> QED BY <1>3, <1>4, <1>5 DEF Inv

(* The rest of the prompt, and all but its last token.                     *)
LEMMA RestFollows ==
  ASSUME req \in Requests, req.hit <= Len(req.prompt)
  PROVE  /\ Rest \in Seq(Tokens) /\ Len(Rest) = Len(req.prompt) - req.hit
         /\ \A i \in 1 .. Len(Rest) : Rest[i] = req.prompt[req.hit + i]
         /\ ToPrefill \in Seq(Tokens) /\ Follows(ToPrefill, req.hit, req.prompt)
         /\ ToPrefill = << >> <=> Len(Rest) <= 1
         /\ ToPrefill # << >> => Len(ToPrefill) = Len(Rest) - 1
<1> DEFINE p == req.prompt
           h == req.hit
           r == Rest
           f == ToPrefill
<1>1. p \in Seq(Tokens) /\ h \in Nat /\ Len(p) \in Nat /\ h <= Len(p)
  BY RequestFields
<1>2. r = SubSeq(p, h + 1, Len(p))
  BY DEF Rest
<1>3. f = IF r = << >> THEN << >> ELSE SubSeq(r, 1, Len(r) - 1)
  BY DEF ToPrefill, Front
<1> HIDE DEF p, h, r, f
<1>4. /\ r \in Seq(Tokens) /\ Len(r) = Len(p) - h /\ Len(r) \in Nat
      /\ \A i \in 1 .. Len(r) : r[i] = p[h + i]
  <2>1. h + 1 \in Nat \ {0} /\ Len(p) \in Int /\ Len(p) <= Len(p)
    BY <1>1
  <2>2. /\ r \in Seq(Tokens)
        /\ Len(r) = IF h + 1 <= Len(p) THEN Len(p) - (h + 1) + 1 ELSE 0
        /\ \A i \in 1 .. Len(p) - (h + 1) + 1 : r[i] = p[(h + 1) + i - 1]
    BY <1>1, <1>2, <2>1, Part
  <2>3. Len(r) = Len(p) - h
    BY <1>1, <2>2
  <2>4. ASSUME NEW i \in 1 .. Len(r) PROVE r[i] = p[h + i]
    <3>1. i \in 1 .. Len(p) - (h + 1) + 1 /\ (h + 1) + i - 1 = h + i
      BY <1>1, <2>3
    <3> QED BY <2>2, <3>1
  <2> QED BY <1>1, <2>2, <2>3, <2>4
<1>5. CASE r = << >>
  <2>1. f = << >> /\ Len(r) = 0
    BY <1>3, <1>5
  <2>2. Follows(f, h, p)
    BY <1>1, <2>1 DEF Follows
  <2> QED BY <1>4, <2>1, <2>2 DEF p, h, r, f
<1>6. CASE r # << >>
  <2> DEFINE n == Len(r) - 1
  <2>1. n \in Nat /\ n <= Len(r) /\ n = Len(r) - 1
    BY <1>4, <1>6
  <2>2. f = SubSeq(r, 1, n)
    BY <1>3, <1>6
  <2> HIDE DEF n
  <2>3. Follows(r, h, p)
    <3>1. h + Len(r) <= Len(p)
      BY <1>1, <1>4
    <3> QED BY <1>4, <3>1 DEF Follows
  <2>4. f \in Seq(Tokens) /\ Len(f) = n /\ Follows(f, h, p)
    BY <1>1, <1>4, <2>1, <2>2, <2>3, FollowsShorter
  <2>5. f = << >> <=> n = 0
    BY <2>4
  <2> QED BY <1>4, <2>1, <2>4, <2>5 DEF p, h, r, f
<1> QED BY <1>5, <1>6

(* A prefill here keeps the request true to its prompt.                    *)
LEMMA PrefillHere ==
  ASSUME Inv, req.pc = "prefill", kind' = kind, entries' = entries,
         NEW r, r = Prefilled(req.cache, ToPrefill),
         req' = [req EXCEPT !.pc = "save", !.cache = r.cache, !.snaps = r.snaps]
  PROVE  req' \in Requests' /\ req'.pc = "save" /\ RequestOK' /\ CopyOK'
<1> DEFINE p == req.prompt
           h == req.hit
           toks == ToPrefill
<1>1. /\ req \in Requests /\ RequestOK /\ CopyOK
      /\ Len(req.cache.kv) = h /\ h <= Len(p) /\ p \in Prompts /\ TrueTo(req.cache, p)
  BY DEF Inv, Typed, RequestOK
<1>2. /\ p \in Seq(Tokens) /\ h \in Nat /\ req.cache \in Caches /\ req.at \in Nat
  BY <1>1, RequestFields
<1>3. /\ toks \in Seq(Tokens) /\ Follows(toks, h, p)
      /\ toks = << >> <=> Len(p) - h <= 1
      /\ toks # << >> => Len(toks) = Len(p) - h - 1
  BY <1>1, RestFollows
<1> HIDE DEF toks
<1>4. /\ r.cache \in Caches /\ r.snaps \in Seq(Snapshots) /\ Fit(r.snaps, r.cache)
      /\ Len(r.cache.kv) = IF toks = << >> THEN h ELSE h + Len(toks) - 1
      /\ r.cache.far = req.cache.far
      /\ TrueTo(r.cache, p) /\ Remembers(r.snaps, r.cache, p)
  <2> DEFINE c == req.cache
             q == p
  <2>1. /\ c \in Caches /\ Len(c.kv) = h /\ TrueTo(c, q) /\ q \in Seq(Tokens)
        /\ Follows(toks, Len(c.kv), q) /\ r = Prefilled(c, toks)
    BY <1>1, <1>2, <1>3 DEF toks
  <2> HIDE DEF c, q
  <2>2. /\ r.cache \in Caches /\ r.snaps \in Seq(Snapshots) /\ Fit(r.snaps, r.cache)
        /\ Len(r.cache.kv) = IF toks = << >> THEN Len(c.kv) ELSE Len(c.kv) + Len(toks) - 1
        /\ r.cache.far = c.far
        /\ TrueTo(r.cache, q) /\ Remembers(r.snaps, r.cache, q)
    BY <1>3, <2>1, PrefilledIs
  <2> QED BY <2>1, <2>2 DEF c, q
<1>5. Len(r.cache.kv) = Stay(Len(p), h) /\ h <= Len(r.cache.kv)
  <2> DEFINE n == Len(p)
             k == Len(r.cache.kv)
  <2>1. n \in Nat /\ h \in Nat /\ h <= n
    BY <1>1, <1>2
  <2>2. CASE toks = << >>
    <3>1. k = h /\ n - h <= 1
      BY <1>3, <1>4, <2>2
    <3> HIDE DEF n, k, h
    <3>2. k = Stay(n, h) /\ h <= k
      BY <2>1, <3>1 DEF Stay
    <3> QED BY <3>2 DEF n, k
  <2>3. CASE toks # << >>
    <3>1. k = h + (n - h - 1) - 1 /\ ~(n - h <= 1)
      BY <1>3, <1>4, <2>3
    <3> HIDE DEF n, k, h
    <3>2. k = n - 2 /\ h <= k
      BY <2>1, <3>1
    <3>3. k = Stay(n, h)
      BY <3>1, <3>2 DEF Stay
    <3> QED BY <3>2, <3>3 DEF n, k
  <2> QED BY <2>2, <2>3
<1>6. /\ req'.pc = "save" /\ req'.prompt = p /\ req'.cache = r.cache /\ req'.hit = h
      /\ req'.at = req.at /\ req'.snaps = r.snaps /\ req' \in Requests
  BY <1>1, <1>4 DEF Requests
<1>7. kind = "kv" => h < Len(p)
  BY <1>1 DEF RequestOK
<1> HIDE DEF p, h
<1>8. RequestOK'
  BY <1>1, <1>4, <1>5, <1>6, <1>7 DEF RequestOK, TrueTo, Remembers, Restorable
<1>9. CopyOK'
  BY <1>1, <1>4, <1>6 DEF CopyOK, p, h
<1> QED BY <1>6, <1>8, <1>9, SameKind

LEMMA LocalPrefillInv ==
  ASSUME Inv, LocalPrefill
  PROVE  Inv'
<1>1. /\ req.pc = "prefill" /\ UNCHANGED <<kind, entries, srv, abandoned, clock, nrequests>>
      /\ \E r \in {Prefilled(req.cache, ToPrefill)} :
           req' = [req EXCEPT !.pc = "save", !.cache = r.cache, !.snaps = r.snaps]
  BY DEF LocalPrefill
<1>2. req' \in Requests' /\ req'.pc = "save" /\ RequestOK' /\ CopyOK'
  BY <1>1, PrefillHere
<1>3. Typed'
  BY <1>1, <1>2, SameKind DEF Inv, Typed
<1> QED BY <1>1, <1>2, <1>3, EntriesStayOK DEF Inv

LEMMA PickupTimeoutInv ==
  ASSUME Inv, PickupTimeout
  PROVE  Inv'
<1>1. /\ req.pc = "prefill" /\ UNCHANGED <<kind, entries, srv, clock, nrequests>>
      /\ abandoned' = abandoned \cup {ToPrefill} /\ Len(Rest) > RemoteMin
      /\ \E r \in {Prefilled(req.cache, ToPrefill)} :
           req' = [req EXCEPT !.pc = "save", !.cache = r.cache, !.snaps = r.snaps]
  BY DEF PickupTimeout, UsesRemote
<1>2. req' \in Requests' /\ req'.pc = "save" /\ RequestOK' /\ CopyOK'
  BY <1>1, PrefillHere
<1>3. ToPrefill \in Seq(Tokens) \ {<< >>}
  <2>1. req \in Requests /\ req.hit <= Len(req.prompt)
    BY <1>1 DEF Inv, Typed, RequestOK
  <2>2. ToPrefill \in Seq(Tokens) /\ Len(Rest) \in Nat /\ (ToPrefill = << >> <=> Len(Rest) <= 1)
    BY <2>1, RestFollows
  <2> QED BY <1>1, <2>2, PrefixCacheAssumption
<1>4. Typed'
  BY <1>1, <1>2, <1>3, SameKind DEF Inv, Typed
<1> QED BY <1>1, <1>2, <1>4, EntriesStayOK DEF Inv

LEMMA CancelPrefillInv ==
  ASSUME Inv, CancelPrefill
  PROVE  Inv'
<1>1. UNCHANGED <<kind, entries, srv, abandoned, clock, nrequests>> /\ req' = Idle
  BY DEF CancelPrefill
<1>2. req'.pc = "idle" /\ Idle \in Requests
  <2>1. << >> \in Seq(Tokens) /\ << >> \in Seq(Snapshots)
    OBVIOUS
  <2>2. Fresh \in Caches
    BY <2>1, FreshIs
  <2> QED BY <1>1, <2>1, <2>2 DEF Idle, Requests
<1>3. Typed'
  BY <1>1, <1>2, SameKind DEF Inv, Typed
<1> QED BY <1>1, <1>2, <1>3, EntriesStayOK DEF Inv

LEMMA ServeLateInv ==
  ASSUME Inv, NEW toks \in abandoned, ServeLate(toks)
  PROVE  Inv'
<1>1. /\ abandoned' = abandoned \ {toks} /\ srv' \in Served(toks).next /\ clock' = clock + 2
      /\ UNCHANGED <<kind, entries, req, nrequests>>
  BY DEF ServeLate
<1>2. /\ kind \in {"kv", "ssm", "v4"} /\ srv \in Seq(Entries) /\ clock \in Nat
      /\ toks \in Seq(Tokens) /\ toks # << >>
  BY DEF Inv, Typed
<1>3. srv' \in Seq(Entries)
  BY <1>1, <1>2, ServedIs
<1>4. clock' \in Nat
  BY <1>1, <1>2
<1>5. Typed'
  BY <1>1, <1>3, <1>4, SameKind DEF Inv, Typed
<1>6. RequestOK => RequestOK'
  BY <1>1 DEF RequestOK, TrueTo, Remembers, Restorable
<1>7. CopyOK => CopyOK'
  BY <1>1 DEF CopyOK
<1> QED BY <1>1, <1>5, <1>6, <1>7, EntriesStayOK DEF Inv

LEMMA RemotePrefillInv ==
  ASSUME Inv, RemotePrefill
  PROVE  Inv'
<1> DEFINE s == Served(ToPrefill)
           c == Ingested(req.cache, req.hit, s.cache)
           ss == <<Snap(c)>>
<1>1. /\ req.pc = "prefill" /\ Len(Rest) > RemoteMin
      /\ req' = [req EXCEPT !.pc = "save", !.cache = c, !.snaps = ss]
      /\ srv' \in s.next /\ clock' = clock + 2
      /\ UNCHANGED <<kind, entries, abandoned, nrequests>>
  BY DEF RemotePrefill, UsesRemote
<1>2. /\ kind \in {"kv", "ssm", "v4"} /\ srv \in Seq(Entries) /\ clock \in Nat /\ req \in Requests
      /\ RequestOK /\ CopyOK
  BY <1>1 DEF Inv, Typed
<1>3. /\ req.hit <= Len(req.prompt) /\ Len(req.cache.kv) = req.hit
      /\ req.cache \in Caches /\ req.hit \in Nat
  BY <1>1, <1>2, RequestFields DEF RequestOK
<1>4. ToPrefill \in Seq(Tokens) /\ ToPrefill # << >>
  <2>1. ToPrefill \in Seq(Tokens) /\ Len(Rest) \in Nat /\ (ToPrefill = << >> <=> Len(Rest) <= 1)
    BY <1>2, <1>3, RestFollows
  <2> QED BY <1>1, <2>1, PrefixCacheAssumption
<1>5. s.cache \in Caches /\ \A next \in s.next : next \in Seq(Entries)
  BY <1>2, <1>4, ServedIs
<1> HIDE DEF s
<1>6. c \in Caches /\ c.far = TRUE /\ req.hit <= Len(c.kv)
  BY <1>2, <1>3, <1>5, IngestedIs
<1> HIDE DEF c
<1>7. ss \in Seq(Snapshots) /\ Fit(ss, c)
  <2>1. Snap(c) \in Snapshots /\ Snap(c).n = Len(c.kv) /\ Len(c.kv) \in Nat
    BY <1>6, SnapIs, CacheFields
  <2>2. ss \in Seq(Snapshots) /\ Len(ss) = 1 /\ ss[1] = Snap(c)
    BY <2>1
  <2> HIDE DEF ss
  <2> QED BY <2>1, <2>2 DEF Fit
<1> HIDE DEF ss
<1>8. /\ req'.pc = "save" /\ req'.prompt = req.prompt /\ req'.cache = c /\ req'.hit = req.hit
      /\ req'.at = req.at /\ req'.snaps = ss /\ req' \in Requests
  BY <1>1, <1>2, <1>6, <1>7 DEF Requests
<1>9. RequestOK'
  BY <1>1, <1>2, <1>6, <1>7, <1>8 DEF RequestOK, TrueTo, Remembers
<1>10. CopyOK'
  BY <1>1, <1>2, <1>6, <1>8 DEF CopyOK
<1>11. clock' \in Nat
  BY <1>1, <1>2
<1>12. Typed'
  BY <1>1, <1>5, <1>8, <1>11, SameKind DEF Inv, Typed
<1> QED BY <1>1, <1>8, <1>9, <1>10, <1>12, EntriesStayOK DEF Inv

LEMMA SubmitInv ==
  ASSUME Inv, NEW p \in Prompts, Submit(p)
  PROVE  Inv'
<1> DEFINE g == GetKvCache(entries, p)
           fs == Touch(entries, g.at, clock + 1)
<1>1. /\ req' = [pc |-> "prefill", prompt |-> p, cache |-> g.cache, hit |-> g.hit,
                 at |-> g.at, snaps |-> << >>]
      /\ entries' = fs /\ clock' = clock + 1 /\ nrequests' = nrequests + 1
      /\ UNCHANGED <<kind, srv, abandoned>>
  BY DEF Submit
<1>2. /\ kind \in {"kv", "ssm", "v4"} /\ entries \in Seq(Entries) /\ clock \in Nat
      /\ nrequests \in Nat /\ \A i \in 1 .. Len(entries) : EntryOK(entries[i])
  BY DEF Inv, Typed
<1>3. p \in Seq(Tokens) /\ p # << >>
  BY PrefixCacheAssumption
<1>4. /\ g.cache \in Caches /\ g.hit \in Nat /\ g.at \in 0 .. Len(entries)
      /\ Len(g.cache.kv) = g.hit /\ g.hit <= Len(p)
      /\ kind = "kv" => g.hit < Len(p)
      /\ g.at = 0 => TrueTo(g.cache, p)
      /\ g.at # 0 =>
           /\ g.cache.far = entries[g.at].cache.far
           /\ g.hit <= Len(entries[g.at].prompt)
           /\ EntryOK(entries[g.at]) /\ p \in Prompts =>
                /\ TrueTo(g.cache, p)
                /\ \A i \in 1 .. g.hit : entries[g.at].prompt[i] = p[i]
  BY <1>2, <1>3, FoundIsTrue
<1> HIDE DEF g
<1>5. g.at # 0 => g.at \in 1 .. Len(entries) /\ EntryOK(entries[g.at])
  BY <1>2, <1>4
<1>6. TrueTo(g.cache, p)
  BY <1>4, <1>5
<1>7. /\ fs \in Seq(Entries) /\ Len(fs) = Len(entries)
      /\ \A j \in 1 .. Len(entries) :
           /\ fs[j].prompt = entries[j].prompt /\ fs[j].cache = entries[j].cache
           /\ EntryOK(fs[j])
  <2>1. clock + 1 \in Nat
    BY <1>2
  <2> QED BY <1>2, <1>4, <2>1, Touched
<1> HIDE DEF fs
<1>8. /\ req'.pc = "prefill" /\ req'.prompt = p /\ req'.cache = g.cache /\ req'.hit = g.hit
      /\ req'.at = g.at /\ req' \in Requests
  <2>1. << >> \in Seq(Snapshots) /\ g.at \in Nat
    BY <1>2, <1>4
  <2> QED BY <1>1, <1>3, <1>4, <2>1 DEF Requests
<1>9. RequestOK'
  BY <1>1, <1>4, <1>6, <1>8 DEF RequestOK, TrueTo, Remembers, Restorable
<1>10. CopyOK'
  <2>1. g.at <= Len(fs)
    BY <1>2, <1>4, <1>7
  <2>2. ASSUME g.at # 0
        PROVE  /\ fs[g.at].cache.far => g.cache.far
               /\ g.hit <= Len(fs[g.at].prompt)
               /\ \A i \in 1 .. g.hit : fs[g.at].prompt[i] = p[i]
    <3>1. fs[g.at].prompt = entries[g.at].prompt /\ fs[g.at].cache = entries[g.at].cache
      BY <1>5, <1>7, <2>2
    <3> QED BY <1>4, <1>5, <2>2, <3>1
  <2> QED BY <1>1, <1>8, <2>1, <2>2 DEF CopyOK
<1>11. Typed'
  <2>1. clock' \in Nat /\ nrequests' \in Nat
    BY <1>1, <1>2
  <2> QED BY <1>1, <1>7, <1>8, <2>1, SameKind DEF Inv, Typed
<1>12. (\A i \in 1 .. Len(entries) : EntryOK(entries[i]))'
  BY <1>1, <1>7, NextEntriesOK
<1> QED BY <1>8, <1>9, <1>10, <1>11, <1>12 DEF Inv

LEMMA SaveInv ==
  ASSUME Inv, Save
  PROVE  Inv'
<1> DEFINE p == req.prompt
           c == req.cache
           e == entries[req.at]
<1>1. /\ req.pc = "save" /\ req' = [req EXCEPT !.pc = "decode"] /\ clock' = clock + 1
      /\ entries' \in Saves(entries, req.at, p, c, req.snaps, req.hit, MinHit, clock + 1)
      /\ UNCHANGED <<kind, srv, abandoned, nrequests>>
  BY DEF Save
<1>2. /\ entries \in Seq(Entries) /\ clock \in Nat /\ req \in Requests /\ RequestOK /\ CopyOK
      /\ \A i \in 1 .. Len(entries) : EntryOK(entries[i])
  BY <1>1 DEF Inv, Typed
<1>3. /\ p \in Seq(Tokens) /\ c \in Caches /\ req.hit \in Nat /\ req.at \in Nat
      /\ req.snaps \in Seq(Snapshots)
  BY <1>2, RequestFields
<1>4. /\ p \in Prompts /\ req.hit <= Len(p) /\ TrueTo(c, p) /\ req.hit <= Len(c.kv)
      /\ Fit(req.snaps, c) /\ Remembers(req.snaps, c, p)
  BY <1>1, <1>2 DEF RequestOK
<1>5. req.at \in 0 .. Len(entries) /\ (req.at # 0 => Agrees(e, p, req.hit, c))
  <2>1. req.at <= Len(entries) /\ Len(entries) \in Nat
    BY <1>2 DEF CopyOK
  <2>2. req.at # 0 => Agrees(e, p, req.hit, c)
    BY <1>2 DEF CopyOK, Agrees
  <2> QED BY <1>3, <2>1, <2>2
<1>6. /\ entries' \in Seq(Entries)
      /\ \A i \in 1 .. Len(entries') : EntryOK(entries'[i])
  <2> DEFINE t == clock + 1
             i == req.at
             ss == req.snaps
             hit == req.hit
             next == entries'
  <2>1. t \in Nat /\ i \in 0 .. Len(entries) /\ ss \in Seq(Snapshots) /\ hit \in Nat
        /\ Fit(ss, c) /\ hit <= Len(c.kv) /\ hit <= Len(p)
        /\ next \in Saves(entries, i, p, c, ss, hit, MinHit, t)
    BY <1>1, <1>2, <1>3, <1>4, <1>5
  <2>2. /\ \A j \in 1 .. Len(entries) : EntryOK(entries[j])
        /\ p \in Prompts /\ TrueTo(c, p) /\ Remembers(ss, c, p)
        /\ i # 0 => Agrees(entries[i], p, hit, c)
    BY <1>2, <1>4, <1>5
  <2> HIDE DEF t, i, ss, hit, next, p, c
  <2>3. next \in Seq(Entries) /\ \A j \in 1 .. Len(next) : EntryOK(next[j])
    BY <1>2, <1>3, <2>1, <2>2, Saved
  <2> QED BY <2>3 DEF next
<1>7. /\ req'.pc = "decode" /\ req'.prompt = p /\ req'.cache = c /\ req'.hit = req.hit
      /\ req' \in Requests
  BY <1>1, <1>2 DEF Requests
<1>8. RequestOK'
  BY <1>1, <1>2, <1>7 DEF RequestOK, TrueTo, Remembers, Restorable
<1>9. Typed'
  <2>1. clock' \in Nat
    BY <1>1, <1>2
  <2> QED BY <1>1, <1>6, <1>7, <2>1, SameKind DEF Inv, Typed
<1>10. (\A i \in 1 .. Len(entries) : EntryOK(entries[i]))'
  BY <1>1, <1>6, NextEntriesOK
<1> QED BY <1>7, <1>8, <1>9, <1>10 DEF Inv

LEMMA NextInv ==
  ASSUME Inv, [PrefixCacheNext]_pcvars
  PROVE  Inv'
<1>1. ASSUME NEW p \in Prompts, Submit(p) PROVE Inv'
  BY <1>1, SubmitInv
<1>2. CASE LocalPrefill
  BY <1>2, LocalPrefillInv
<1>3. CASE CancelPrefill
  BY <1>3, CancelPrefillInv
<1>4. CASE RemotePrefill
  BY <1>4, RemotePrefillInv
<1>5. CASE PickupTimeout
  BY <1>5, PickupTimeoutInv
<1>6. CASE Save
  BY <1>6, SaveInv
<1>7. ASSUME NEW toks \in abandoned, ServeLate(toks) PROVE Inv'
  BY <1>7, ServeLateInv
<1>8. CASE UNCHANGED pcvars
  <2>1. Typed'
    BY <1>8, SameKind DEF pcvars, Inv, Typed
  <2>2. (RequestOK => RequestOK') /\ (CopyOK => CopyOK')
    BY <1>8 DEF pcvars, RequestOK, CopyOK, TrueTo, Remembers, Restorable
  <2> QED BY <1>8, <2>1, <2>2, EntriesStayOK DEF pcvars, Inv
<1> QED BY <1>1, <1>2, <1>3, <1>4, <1>5, <1>6, <1>7, <1>8 DEF PrefixCacheNext

-----------------------------------------------------------------------------
(* What is decoded.                                                        *)

(* The last two of what follows, or what there is of it.                   *)
LEMMA LastTwoAre ==
  ASSUME NEW s \in Seq(Tokens)
  PROVE  /\ LastTwo(s) \in Seq(Tokens)
         /\ Len(LastTwo(s)) = IF Len(s) <= 1 THEN Len(s) ELSE 2
         /\ \A i \in 1 .. Len(LastTwo(s)) :
              LastTwo(s)[i] = s[IF Len(s) <= 1 THEN i ELSE Len(s) - 2 + i]
<1> DEFINE n == Len(s)
           m == Max({1, n - 1})
           u == LastTwo(s)
<1>1. n \in Nat /\ n - 1 \in Int
  OBVIOUS
<1>2. m = IF n <= 2 THEN 1 ELSE n - 1
  <2>1. m = IF 1 >= n - 1 THEN 1 ELSE n - 1
    <3> DEFINE k == n - 1
    <3>1. 1 \in Int /\ k \in Int
      BY <1>1
    <3> HIDE DEF k
    <3>2. Max({1, k}) = IF 1 >= k THEN 1 ELSE k
      BY <3>1, TwoNumbers
    <3> QED BY <3>2 DEF k
  <2> HIDE DEF m
  <2> QED BY <1>1, <2>1
<1>3. m \in Nat \ {0} /\ n \in Int /\ n <= Len(s)
  BY <1>1, <1>2
<1>4. u = SubSeq(s, m, n)
  BY DEF LastTwo
<1> HIDE DEF m, u
<1>5. /\ u \in Seq(Tokens) /\ Len(u) = IF m <= n THEN n - m + 1 ELSE 0
      /\ \A i \in 1 .. n - m + 1 : u[i] = s[m + i - 1]
  BY <1>3, <1>4, Part
<1> HIDE DEF n
<1>6. Len(u) = IF n <= 1 THEN n ELSE 2
  BY <1>1, <1>2, <1>5
<1>7. ASSUME NEW i \in 1 .. Len(u) PROVE u[i] = s[IF n <= 1 THEN i ELSE n - 2 + i]
  <2>1. i \in 1 .. n - m + 1 /\ m + i - 1 = IF n <= 1 THEN i ELSE n - 2 + i
    BY <1>1, <1>2, <1>6
  <2> QED BY <1>5, <2>1
<1> QED BY <1>5, <1>6, <1>7 DEF n, u

(* A beginning of a prompt and the rest make the prompt.                   *)
LEMMA TogetherThePrompt ==
  ASSUME NEW p \in Seq(Tokens), NEW s \in Seq(Tokens), NEW t \in Seq(Tokens), Begins(s, p),
         Len(s) + Len(t) = Len(p), \A i \in 1 .. Len(t) : t[i] = p[Len(s) + i]
  PROVE  s \o t = p
<1> DEFINE u == s \o t
<1>1. /\ u \in Seq(Tokens) /\ Len(u) = Len(s) + Len(t)
      /\ \A i \in 1 .. Len(s) + Len(t) : u[i] = IF i <= Len(s) THEN s[i] ELSE t[i - Len(s)]
  BY ConcatProperties
<1> HIDE DEF u
<1>2. Len(s) \in Nat /\ Len(t) \in Nat
  OBVIOUS
<1>3. ASSUME NEW i \in 1 .. Len(u) PROVE u[i] = p[i]
  <2>1. CASE i <= Len(s)
    <3>1. i \in 1 .. Len(s)
      BY <1>1, <1>2, <2>1
    <3>2. s[i] = p[i]
      BY <3>1 DEF Begins
    <3> QED BY <1>1, <2>1, <3>2
  <2>2. CASE ~(i <= Len(s))
    <3>1. i - Len(s) \in 1 .. Len(t) /\ Len(s) + (i - Len(s)) = i
      BY <1>1, <1>2, <2>2
    <3>2. t[i - Len(s)] = p[i]
      BY <3>1
    <3> QED BY <1>1, <2>2, <3>2
  <2> QED BY <2>1, <2>2
<1>4. u = p
  BY <1>1, <1>3, SeqEqual
<1> QED BY <1>4 DEF u

LEMMA DecodesIt ==
  ASSUME Inv
  PROVE  DecodesThePrompt /\ SomethingToDecode
<1>1. SUFFICES ASSUME req.pc = "decode"
               PROVE  /\ kind = "kv" => Rest # << >>
                      /\ ~req.cache.far =>
                           /\ req.cache.kv \o LastTwo(Rest) = req.prompt
                           /\ Restorable => State(req.cache) \o LastTwo(Rest) = req.prompt
  BY DEF DecodesThePrompt, SomethingToDecode
<1> DEFINE p == req.prompt
           h == req.hit
           kv == req.cache.kv
           r == Rest
           t == LastTwo(r)
<1>2. /\ req \in Requests /\ h <= Len(p) /\ TrueTo(req.cache, p)
      /\ kind = "kv" => h < Len(p)
      /\ ~req.cache.far => Len(kv) = Stay(Len(p), h)
  BY <1>1 DEF Inv, Typed, RequestOK
<1>3. p \in Seq(Tokens) /\ kv \in Seq(Tokens) /\ h \in Nat /\ Len(p) \in Nat
  BY <1>2, RequestFields, CacheFields
<1>4. /\ r \in Seq(Tokens) /\ Len(r) = Len(p) - h
      /\ \A i \in 1 .. Len(r) : r[i] = p[h + i]
  BY <1>2, RestFollows
<1> HIDE DEF r
<1>5. /\ t \in Seq(Tokens) /\ Len(t) = IF Len(r) <= 1 THEN Len(r) ELSE 2
      /\ \A i \in 1 .. Len(t) : t[i] = r[IF Len(r) <= 1 THEN i ELSE Len(r) - 2 + i]
  BY <1>4, LastTwoAre
<1> HIDE DEF t
<1>6. kind = "kv" => r # << >>
  <2>1. kind = "kv" => Len(r) > 0
    BY <1>2, <1>3, <1>4
  <2> QED BY <2>1
<1>7. ASSUME ~req.cache.far PROVE kv \o t = p /\ (Restorable => State(req.cache) = kv)
  <2>1. Begins(kv, p) /\ (Restorable => req.cache.st = kv)
    BY <1>2, <1>7 DEF TrueTo
  <2>2. Len(kv) = IF Len(r) <= 1 THEN h ELSE Len(p) - 2
    BY <1>2, <1>4, <1>7 DEF Stay
  <2> HIDE DEF p, h, kv
  <2>3. Len(kv) + Len(t) = Len(p)
    BY <1>3, <1>4, <1>5, <2>2
  <2>4. ASSUME NEW i \in 1 .. Len(t) PROVE t[i] = p[Len(kv) + i]
    <3> DEFINE k == IF Len(r) <= 1 THEN i ELSE Len(r) - 2 + i
    <3>1. k \in 1 .. Len(r) /\ h + k = Len(kv) + i
      <4> DEFINE rest == Len(r)
                 n == Len(p)
      <4>1. n \in Nat /\ h \in Nat /\ rest = n - h /\ rest \in Nat
        BY <1>2, <1>3, <1>4 DEF p, h
      <4>2. i \in Nat /\ i >= 1 /\ i <= IF rest <= 1 THEN rest ELSE 2
        BY <1>5
      <4>3. Len(kv) = IF rest <= 1 THEN h ELSE n - 2
        BY <2>2
      <4>4. k = IF rest <= 1 THEN i ELSE rest - 2 + i
        OBVIOUS
      <4> HIDE DEF rest, n, k
      <4>5. k \in 1 .. rest /\ h + k = Len(kv) + i
        BY <4>1, <4>2, <4>3, <4>4
      <4> QED BY <4>5 DEF rest
    <3>2. t[i] = r[k]
      BY <1>5
    <3> HIDE DEF k
    <3> QED BY <1>4, <3>1, <3>2 DEF p, h
  <2>5. kv \o t = p
    BY <1>3, <1>5, <2>1, <2>3, <2>4, TogetherThePrompt DEF p
  <2> QED BY <2>1, <2>5 DEF State, kv
<1> QED BY <1>6, <1>7 DEF r, t

LEMMA SnapshotsAreOfIt ==
  ASSUME Inv
  PROVE  SnapshotsOfThePrompt
<1>1. SUFFICES ASSUME NEW i \in 1 .. Len(entries), NEW j \in 1 .. Len(entries[i].snaps),
                      ~entries[i].cache.far, Restorable
               PROVE  entries[i].snaps[j].st
                        = SubSeq(entries[i].prompt, 1, entries[i].snaps[j].n)
  <2>1. entries \in Seq(Entries)
    BY DEF Inv, Typed
  <2>2. DOMAIN entries = 1 .. Len(entries)
    BY <2>1
  <2>3. \A i \in 1 .. Len(entries) : DOMAIN entries[i].snaps = 1 .. Len(entries[i].snaps)
    <3>1. \A i \in 1 .. Len(entries) : entries[i].snaps \in Seq(Snapshots)
      BY <2>1, EntryFields
    <3> QED BY <3>1
  <2> QED BY <1>1, <2>2, <2>3 DEF SnapshotsOfThePrompt
<1> DEFINE e == entries[i]
           s == e.snaps[j].st
           n == e.snaps[j].n
<1>2. e \in Entries /\ EntryOK(e)
  BY DEF Inv, Typed
<1>3. e.prompt \in Seq(Tokens) /\ e.snaps[j] \in Snapshots
  BY <1>2, EntryFields
<1>4. s \in Seq(Tokens) /\ n \in Nat /\ Len(s) = n /\ Begins(s, e.prompt)
  BY <1>1, <1>2, <1>3 DEF EntryOK, Remembers, Snapshots
<1> HIDE DEF e, s, n
<1>5. n <= Len(e.prompt) /\ Begins(e.prompt, e.prompt)
  BY <1>3, <1>4 DEF Begins
<1> DEFINE u == SubSeq(e.prompt, 1, n)
<1>6. u \in Seq(Tokens) /\ Len(u) = n /\ Begins(u, e.prompt)
  BY <1>3, <1>4, <1>5, BeginsShorter
<1> HIDE DEF u
<1>7. s = u
  BY <1>4, <1>6, SameBeginning
<1> QED BY <1>7 DEF s, u, n, e

(* ReuseIsExact, for all prompts: what is decoded from a reused prefix is  *)
(* what would be decoded without (KVPrefixCache.get_kv_cache, trim_cache,  *)
(* update_kv_cache and add_kv_cache, around prefill and remote_prefill).   *)
THEOREM ReuseStaysExact == PrefixCacheSpec => []ReuseIsExact
<1>1. PrefixCacheInit => Inv
  BY InitInv
<1>2. Inv /\ [PrefixCacheNext]_pcvars => Inv'
  BY NextInv
<1>3. Inv => ReuseIsExact
  BY DecodesIt, SnapshotsAreOfIt DEF ReuseIsExact
<1> QED BY <1>1, <1>2, <1>3, PTL DEF PrefixCacheSpec

-----------------------------------------------------------------------------
(* The log on disk.                                                        *)

(* Where the record of event k + 1 of a file begins: behind that of event  *)
(* k.                                                                      *)
StartAt(f, k) == IF k = 0 THEN 0 ELSE f.recs[k].at + 1 + PayloadSizes[f.recs[k].ev]

Units == [ev : Events, part : Nat]
Records == [ev : Events, at : Nat]
Files == [written : Seq(Units), ondisk : Nat, recs : Seq(Records)]
Offsets == [idx : Nat, off : Nat]
RangeReads == [pc : {"idle", "reading", "done"}, log : Nat, pos : Nat, left : Nat,
               start : Nat, end : Nat, got : Seq(Events)]
WholeReads == [pc : {"idle", "flush", "open", "reading"}, self : Nat, log : Nat, pos : Nat,
               left : Nat, got : Seq(Events)]
LogTyped ==
  /\ logs \in Seq(Files) /\ logs # << >>
  /\ lcount \in Nat /\ appending \in {"idle", "header", "payload"}
  /\ offsets \in Seq(Offsets)
  /\ ranged \in RangeReads /\ whole \in WholeReads

(* The records of a file follow each other, each with its header in front; *)
(* a file may end early, and the disk holds a part of it.                  *)
FileOK(f) ==
  /\ f.ondisk <= Len(f.written) /\ Len(f.written) <= StartAt(f, Len(f.recs))
  /\ \A k \in 1 .. Len(f.recs) :
       /\ f.recs[k].at = StartAt(f, k - 1)
       /\ \A j \in 0 .. k - 1 : StartAt(f, j) <= f.recs[k].at
       /\ f.recs[k].at < Len(f.written) =>
            f.written[f.recs[k].at + 1] = Header(f.recs[k].ev)

(* The open file has all that append has written.                          *)
OpenOK(f) ==
  LET n == Len(f.recs)
  IN  /\ appending # "idle" => n > 0
      /\ lcount = IF appending = "idle" THEN n ELSE n - 1
      /\ Len(f.written) = IF appending = "header" THEN f.recs[n].at + 1 ELSE StartAt(f, n)

(* What offsets c are cached are those of records in front of record n.    *)
CacheOK(c, f, n) ==
  \A i \in 1 .. Len(c) : c[i].idx < n /\ c[i].off = f.recs[c[i].idx + 1].at

(* A range read has got the events from its start to where it is, and the  *)
(* disk has all it will read.                                              *)
RangeOK(r, ls) ==
  r.pc # "idle" =>
    /\ r.log \in 1 .. Len(ls)
    /\ r.pc = "done" => r.left = 0
    /\ LET f == ls[r.log]  k == r.end - r.left
       IN  /\ r.start <= k /\ k <= r.end /\ r.end <= Len(f.recs)
           /\ r.pos = StartAt(f, k) /\ StartAt(f, r.end) <= f.ondisk
           /\ Len(r.got) = k - r.start
           /\ \A i \in 1 .. k - r.start : r.got[i] = f.recs[r.start + i].ev

(* A read of the whole log has got the first events of the file it found.  *)
WholeOK(w, ls) ==
  /\ w.pc = "reading" <=> w.log # 0
  /\ w.log = 0 => w.pos = 0 /\ w.got = << >>
  /\ w.pc \in {"flush", "open"} => w.self \in 1 .. Len(ls)
  /\ w.log # 0 =>
       /\ w.log \in 1 .. Len(ls)
       /\ LET f == ls[w.log]
          IN  /\ Len(w.got) <= Len(f.recs)
              /\ \A i \in 1 .. Len(w.got) : w.got[i] = f.recs[i].ev
              /\ w.pos = StartAt(f, Len(w.got)) /\ w.pos <= f.ondisk

LogInv ==
  /\ LogTyped
  /\ \A l \in 1 .. Len(logs) : FileOK(logs[l])
  /\ OpenOK(logs[Open])
  /\ CacheOK(offsets, logs[Open], lcount)
  /\ RangeOK(ranged, logs) /\ WholeOK(whole, logs)

-----------------------------------------------------------------------------
(* Where records begin.                                                    *)

LEMMA FileFields ==
  ASSUME NEW f \in Files
  PROVE  /\ f.written \in Seq(Units) /\ f.ondisk \in Nat /\ f.recs \in Seq(Records)
         /\ \A k \in 1 .. Len(f.recs) : /\ f.recs[k] \in Records /\ f.recs[k].ev \in Events
                                        /\ f.recs[k].at \in Nat
                                        /\ PayloadSizes[f.recs[k].ev] \in Nat \ {0}
         /\ \A k \in 0 .. Len(f.recs) : StartAt(f, k) \in Nat
         /\ \A k \in 1 .. Len(f.recs) : StartAt(f, k) > f.recs[k].at
<1>1. f.written \in Seq(Units) /\ f.ondisk \in Nat /\ f.recs \in Seq(Records)
  BY DEF Files
<1>2. ASSUME NEW k \in 1 .. Len(f.recs)
      PROVE  /\ f.recs[k] \in Records /\ f.recs[k].ev \in Events /\ f.recs[k].at \in Nat
             /\ PayloadSizes[f.recs[k].ev] \in Nat \ {0}
  <2>1. f.recs[k] \in Records
    BY <1>1
  <2>2. f.recs[k].ev \in Events /\ f.recs[k].at \in Nat
    BY <2>1 DEF Records
  <2> QED BY <2>1, <2>2, DiskEventLogAssumption DEF Events
<1>3. ASSUME NEW k \in 0 .. Len(f.recs), k # 0
      PROVE  StartAt(f, k) \in Nat /\ StartAt(f, k) > f.recs[k].at
  BY <1>2, <1>3 DEF StartAt
<1>4. StartAt(f, 0) \in Nat
  BY DEF StartAt
<1> QED BY <1>1, <1>2, <1>3, <1>4

LEMMA NextAt ==
  ASSUME NEW f \in Files, FileOK(f), NEW k \in 0 .. Len(f.recs) - 1
  PROVE  k + 1 \in 1 .. Len(f.recs) /\ f.recs[k + 1].at = StartAt(f, k)
<1>1. Len(f.recs) \in Nat
  BY FileFields
<1>2. k + 1 \in 1 .. Len(f.recs) /\ k + 1 - 1 = k
  BY <1>1
<1>3. \A i \in 1 .. Len(f.recs) : f.recs[i].at = StartAt(f, i - 1)
  BY DEF FileOK
<1> QED BY <1>2, <1>3

(* Later records begin further behind.                                     *)
LEMMA StartsGrow ==
  ASSUME NEW f \in Files, FileOK(f), NEW k \in 0 .. Len(f.recs), NEW j \in 0 .. k
  PROVE  StartAt(f, j) <= StartAt(f, k)
<1>1. CASE j = k
  BY <1>1, FileFields
<1>2. CASE j # k
  <2>1. k \in 1 .. Len(f.recs) /\ j \in 0 .. k - 1 /\ j \in 0 .. Len(f.recs)
    BY <1>2
  <2>2. StartAt(f, j) <= f.recs[k].at
    BY <2>1 DEF FileOK
  <2>3. /\ StartAt(f, k) > f.recs[k].at /\ StartAt(f, k) \in Nat
        /\ StartAt(f, j) \in Nat /\ f.recs[k].at \in Nat
    BY <2>1, FileFields
  <2> QED BY <2>2, <2>3
<1> QED BY <1>1, <1>2

(* The first m units of a file.                                            *)
LEMMA FirstUnits ==
  ASSUME NEW f \in Files, NEW m \in 0 .. Len(f.written)
  PROVE  /\ SubSeq(f.written, 1, m) \in Seq(Units) /\ Len(SubSeq(f.written, 1, m)) = m
         /\ \A i \in 1 .. m : SubSeq(f.written, 1, m)[i] = f.written[i]
<1>1. f.written \in Seq(Units)
  BY FileFields
<1> QED BY <1>1, Part

(* A record that is all there is read, and it is the next.                 *)
LEMMA NextIsThere ==
  ASSUME NEW f \in Files, FileOK(f), NEW m \in 0 .. Len(f.written),
         NEW k \in 0 .. Len(f.recs) - 1, StartAt(f, k) < m
  PROVE  LET g == SubSeq(f.written, 1, m)
         IN  /\ g[StartAt(f, k) + 1].ev = f.recs[k + 1].ev
             /\ RecordEnd(g, StartAt(f, k)) =
                  IF StartAt(f, k + 1) <= m THEN StartAt(f, k + 1) ELSE 0
             /\ StartAt(f, k) + 1 + PayloadSizes[g[StartAt(f, k) + 1].ev] = StartAt(f, k + 1)
<1> DEFINE g == SubSeq(f.written, 1, m)
           s == StartAt(f, k)
<1>1. k + 1 \in 1 .. Len(f.recs) /\ k \in 0 .. Len(f.recs)
  BY FileFields
<1>2. Len(g) = m /\ \A i \in 1 .. m : g[i] = f.written[i]
  BY FirstUnits
<1>3. s \in Nat /\ m \in Nat /\ f.recs[k + 1].at = s
  <2>1. f.recs[k + 1].at = StartAt(f, k + 1 - 1) /\ k + 1 - 1 = k
    BY <1>1 DEF FileOK
  <2> QED BY <1>1, <2>1, FileFields
<1>4. f.written[s + 1] = Header(f.recs[k + 1].ev)
  <2>1. s < Len(f.written)
    BY FileFields
  <2> QED BY <1>1, <1>3, <2>1 DEF FileOK
<1>5. g[s + 1].ev = f.recs[k + 1].ev
  BY <1>2, <1>3, <1>4 DEF Header
<1>6. s + 1 + PayloadSizes[g[s + 1].ev] = StartAt(f, k + 1)
  <2>1. StartAt(f, k + 1) = f.recs[k + 1].at + 1 + PayloadSizes[f.recs[k + 1].ev]
    BY <1>1 DEF StartAt
  <2> HIDE DEF g, s
  <2> QED BY <1>3, <1>5, <2>1
<1> HIDE DEF g, s
<1>7. RecordEnd(g, s) = IF StartAt(f, k + 1) <= m THEN StartAt(f, k + 1) ELSE 0
  <2>1. s < m
    BY DEF s
  <2>2. ~(s >= Len(g))
    BY <1>2, <1>3, <2>1
  <2> QED BY <1>2, <1>6, <2>2 DEF RecordEnd
<1> QED BY <1>5, <1>6, <1>7 DEF g, s

(* Whatever is read from where a record begins is that record.             *)
LEMMA ReadIsNext ==
  ASSUME NEW f \in Files, FileOK(f), NEW m \in 0 .. Len(f.written), NEW k \in 0 .. Len(f.recs),
         RecordEnd(SubSeq(f.written, 1, m), StartAt(f, k)) # 0
  PROVE  LET g == SubSeq(f.written, 1, m)
         IN  /\ k < Len(f.recs) /\ g[StartAt(f, k) + 1].ev = f.recs[k + 1].ev
             /\ RecordEnd(g, StartAt(f, k)) = StartAt(f, k + 1) /\ StartAt(f, k + 1) <= m
<1>1. StartAt(f, k) < m
  <2>1. Len(SubSeq(f.written, 1, m)) = m /\ StartAt(f, k) \in Nat /\ m \in Nat
    BY FirstUnits, FileFields
  <2>2. ~(StartAt(f, k) >= m)
    BY <2>1 DEF RecordEnd
  <2> QED BY <2>1, <2>2
<1>2. k < Len(f.recs)
  <2>1. StartAt(f, k) < StartAt(f, Len(f.recs))
    <3>1. Len(f.written) <= StartAt(f, Len(f.recs))
      BY DEF FileOK
    <3>2. Len(f.recs) \in 0 .. Len(f.recs) /\ f.written \in Seq(Units) /\ f.recs \in Seq(Records)
      BY FileFields
    <3>3. StartAt(f, Len(f.recs)) \in Nat /\ StartAt(f, k) \in Nat
      BY <3>2, FileFields
    <3> QED BY <1>1, <3>1, <3>2, <3>3
  <2>2. f.recs \in Seq(Records) /\ StartAt(f, k) \in Nat
    BY FileFields
  <2>3. k # Len(f.recs)
    BY <2>1, <2>2
  <2> QED BY <2>2, <2>3
<1>3. k \in 0 .. Len(f.recs) - 1
  BY <1>2, FileFields
<1> QED BY <1>1, <1>2, <1>3, NextIsThere

(* Skipping records from where one begins ends where another begins.       *)
LEMMA SkippedIs ==
  ASSUME NEW f \in Files, FileOK(f), Len(f.written) = StartAt(f, Len(f.recs)),
         NEW k \in 0 .. Len(f.recs), NEW d \in Nat, k + d <= Len(f.recs)
  PROVE  Skipped(SubSeq(f.written, 1, Len(f.written)), StartAt(f, k), d) = StartAt(f, k + d)
<1> DEFINE g == SubSeq(f.written, 1, Len(f.written))
           Upto(h) == h = [i \in 0 .. d |->
                             IF i = 0 THEN StartAt(f, k)
                             ELSE IF h[i - 1] >= Len(g) THEN h[i - 1]
                             ELSE h[i - 1] + 1 + PayloadSizes[g[h[i - 1] + 1].ev]]
           good == [i \in 0 .. d |-> StartAt(f, k + i)]
<1>1. Len(g) = Len(f.written) /\ Len(f.written) \in Nat
  <2>1. Len(f.written) \in 0 .. Len(f.written)
    BY FileFields
  <2> QED BY <2>1, FirstUnits
<1>2. ASSUME NEW i \in 1 .. d
      PROVE  /\ StartAt(f, k + (i - 1)) < Len(g)
             /\ StartAt(f, k + (i - 1)) \in Nat
             /\ StartAt(f, k + (i - 1)) + 1 + PayloadSizes[g[StartAt(f, k + (i - 1)) + 1].ev]
                  = StartAt(f, k + i)
  <2> DEFINE j == k + (i - 1)
  <2>1. j \in 0 .. Len(f.recs) - 1 /\ j + 1 = k + i /\ j + 1 \in 0 .. Len(f.recs) /\ j \in 0 .. j + 1
        /\ j + 1 \in 1 .. Len(f.recs) /\ Len(f.recs) \in 0 .. Len(f.recs) /\ j \in 0 .. Len(f.recs)
    <3>1. Len(f.recs) \in Nat
      BY FileFields
    <3> QED BY <3>1
  <2> HIDE DEF j
  <2>2. StartAt(f, j) < StartAt(f, j + 1)
    <3>1. f.recs[j + 1].at = StartAt(f, j + 1 - 1) /\ j + 1 - 1 = j
      BY <2>1 DEF FileOK
    <3> QED BY <2>1, <3>1, FileFields
  <2>3. StartAt(f, j + 1) <= StartAt(f, Len(f.recs))
    BY <2>1, StartsGrow
  <2>4. StartAt(f, j) < Len(f.written) /\ StartAt(f, j) \in Nat
    <3>1. StartAt(f, j) \in Nat /\ StartAt(f, j + 1) \in Nat /\ StartAt(f, Len(f.recs)) \in Nat
      BY <2>1, FileFields
    <3> QED BY <2>2, <2>3, <3>1
  <2>5. Len(f.written) \in 0 .. Len(f.written)
    BY <1>1
  <2>6. StartAt(f, j) + 1 + PayloadSizes[g[StartAt(f, j) + 1].ev] = StartAt(f, j + 1)
    BY <2>1, <2>4, <2>5, NextIsThere
  <2> HIDE DEF g
  <2>7. StartAt(f, j) < Len(g)
    BY <1>1, <2>4
  <2> QED BY <2>1, <2>4, <2>6, <2>7 DEF j
<1> HIDE DEF g
<1>3. Upto(good)
  <2>1. ASSUME NEW i \in 0 .. d
        PROVE  good[i] = IF i = 0 THEN StartAt(f, k)
                         ELSE IF good[i - 1] >= Len(g) THEN good[i - 1]
                         ELSE good[i - 1] + 1 + PayloadSizes[g[good[i - 1] + 1].ev]
    <3>1. CASE i = 0
      BY <3>1
    <3>2. CASE i # 0
      <4>1. i \in 1 .. d /\ i - 1 \in 0 .. d
        BY <3>2
      <4>2. good[i - 1] = StartAt(f, k + (i - 1)) /\ good[i] = StartAt(f, k + i)
        BY <4>1
      <4> HIDE DEF good
      <4>3. ~(good[i - 1] >= Len(g))
        BY <1>1, <1>2, <4>1, <4>2
      <4> QED BY <1>2, <3>2, <4>1, <4>2, <4>3
    <3> QED BY <3>1, <3>2
  <2>2. good = [i \in 0 .. d |-> good[i]]
    OBVIOUS
  <2> HIDE DEF good
  <2> QED BY <2>1, <2>2
<1>4. ASSUME NEW h, Upto(h) PROVE h[d] = StartAt(f, k + d)
  <2> DEFINE Bad == {i \in 0 .. d : h[i] # StartAt(f, k + i)}
  <2>1. ASSUME Bad # {} PROVE FALSE
    <3>1. PICK i \in Bad : \A b \in Bad : i <= b
      <4>1. Bad \subseteq Nat
        OBVIOUS
      <4> HIDE DEF Bad
      <4> QED BY <2>1, <4>1, Least
    <3>2. h[0] = StartAt(f, k) /\ k + 0 = k
      BY <1>4
    <3>3. i \in 1 .. d
      BY <3>2
    <3>4. i - 1 \in 0 .. d /\ i - 1 \notin Bad
      BY <3>1, <3>3
    <3>5. h[i - 1] = StartAt(f, k + (i - 1))
      BY <3>4
    <3>6. h[i] = IF h[i - 1] >= Len(g) THEN h[i - 1]
                 ELSE h[i - 1] + 1 + PayloadSizes[g[h[i - 1] + 1].ev]
      <4>1. i \in 0 .. d /\ i # 0
        BY <3>3
      <4> HIDE DEF Bad
      <4> QED BY <1>4, <4>1
    <3>7. h[i] = StartAt(f, k + i)
      <4>1. ~(h[i - 1] >= Len(g))
        BY <1>1, <1>2, <3>3, <3>5
      <4> QED BY <1>2, <3>3, <3>5, <3>6, <4>1
    <3> QED BY <3>7
  <2>2. d \in 0 .. d
    OBVIOUS
  <2> QED BY <2>1, <2>2
<1>5. \E h : Upto(h)
  <2> HIDE DEF Upto
  <2> QED BY <1>3
<1>6. Skipped(g, StartAt(f, k), d) = (CHOOSE h : Upto(h))[d]
  BY DEF Skipped
<1>7. Upto(CHOOSE h : Upto(h))
  <2> HIDE DEF Upto
  <2> QED BY <1>5
<1>8. (CHOOSE h : Upto(h))[d] = StartAt(f, k + d)
  <2> HIDE DEF Upto
  <2> QED BY <1>4, <1>7
<1> QED BY <1>6, <1>8 DEF g

-----------------------------------------------------------------------------
(* The offset cache.                                                       *)

LEMMA TailIs ==
  ASSUME NEW T, NEW s \in Seq(T), s # << >>
  PROVE  Tail(s) \in Seq(T) /\ Len(Tail(s)) = Len(s) - 1
         /\ \A i \in 1 .. Len(s) - 1 : Tail(s)[i] = s[i + 1]
<1> QED OBVIOUS

LEMMA ThoseOffsets ==
  ASSUME NEW c \in Seq(Offsets), NEW at
  PROVE  /\ Those(c, at) \in Seq(Offsets)
         /\ \A j \in 1 .. Len(Those(c, at)) :
              \E k \in 1 .. Len(c) : k \in at /\ Those(c, at)[j] = c[k]
<1> QED BY ThoseAreOf

(* What CacheOffset keeps is the new offset and others of the cache.       *)
LEMMA CacheOffsetIs ==
  ASSUME NEW c \in Seq(Offsets), NEW i \in Nat, NEW off \in Nat
  PROVE  /\ CacheOffset(c, i, off) \in Seq(Offsets)
         /\ \A j \in 1 .. Len(CacheOffset(c, i, off)) :
              \/ CacheOffset(c, i, off)[j] = [idx |-> i, off |-> off]
              \/ \E k \in 1 .. Len(c) : CacheOffset(c, i, off)[j] = c[k]
<1> DEFINE at == {j \in DOMAIN c : c[j].idx # i}
           new == [idx |-> i, off |-> off]
           kept == Those(c, at)
           moved == Append(kept, new)
           Is(x) == x = new \/ \E k \in 1 .. Len(c) : x = c[k]
<1>1. new \in Offsets
  BY DEF Offsets
<1>2. kept \in Seq(Offsets) /\ \A j \in 1 .. Len(kept) : \E k \in 1 .. Len(c) : kept[j] = c[k]
  <2> HIDE DEF at
  <2>1. kept \in Seq(Offsets)
        /\ \A j \in 1 .. Len(kept) : \E k \in 1 .. Len(c) : k \in at /\ kept[j] = c[k]
    BY ThoseAreOf
  <2> QED BY <2>1
<1>3. CacheOffset(c, i, off) = IF Len(moved) > CacheSize THEN Tail(moved) ELSE moved
  BY DEF CacheOffset
<1> HIDE DEF kept, new
<1>4. /\ moved \in Seq(Offsets) /\ moved # << >> /\ Len(moved) = Len(kept) + 1
      /\ \A j \in 1 .. Len(moved) : moved[j] = IF j <= Len(kept) THEN kept[j] ELSE new
  BY <1>1, <1>2
<1>5. \A j \in 1 .. Len(moved) : Is(moved[j])
  <2>1. Len(kept) \in Nat
    BY <1>2
  <2> QED BY <1>2, <1>4, <2>1
<1> HIDE DEF moved, Is
<1>6. Tail(moved) \in Seq(Offsets) /\ \A j \in 1 .. Len(Tail(moved)) : Is(Tail(moved)[j])
  <2>1. Tail(moved) \in Seq(Offsets) /\ Len(Tail(moved)) = Len(moved) - 1
        /\ \A j \in 1 .. Len(moved) - 1 : Tail(moved)[j] = moved[j + 1]
    BY <1>4, TailIs
  <2>2. \A j \in 1 .. Len(moved) - 1 : j + 1 \in 1 .. Len(moved)
    BY <1>4
  <2> QED BY <1>5, <2>1, <2>2
<1>7. /\ CacheOffset(c, i, off) \in Seq(Offsets)
      /\ \A j \in 1 .. Len(CacheOffset(c, i, off)) : Is(CacheOffset(c, i, off)[j])
  BY <1>3, <1>4, <1>5, <1>6
<1> QED BY <1>7 DEF Is, new

LEMMA CacheStaysOK ==
  ASSUME NEW c \in Seq(Offsets), NEW f, NEW n \in Nat, CacheOK(c, f, n),
         NEW i \in Nat, i < n, NEW off \in Nat, off = f.recs[i + 1].at
  PROVE  CacheOffset(c, i, off) \in Seq(Offsets) /\ CacheOK(CacheOffset(c, i, off), f, n)
<1> DEFINE d == CacheOffset(c, i, off)
<1>1. d \in Seq(Offsets) /\ \A j \in 1 .. Len(d) : \/ d[j] = [idx |-> i, off |-> off]
                                                   \/ \E k \in 1 .. Len(c) : d[j] = c[k]
  BY CacheOffsetIs
<1> HIDE DEF d
<1>2. ASSUME NEW j \in 1 .. Len(d) PROVE d[j].idx < n /\ d[j].off = f.recs[d[j].idx + 1].at
  <2>1. CASE d[j] = [idx |-> i, off |-> off]
    BY <2>1
  <2>2. CASE \E k \in 1 .. Len(c) : d[j] = c[k]
    BY <2>2 DEF CacheOK
  <2> QED BY <1>1, <2>1, <2>2
<1>3. CacheOK(d, f, n)
  BY <1>2 DEF CacheOK
<1> QED BY <1>1, <1>3 DEF d

(* The first and the last of those at some positions are at such.          *)
LEMMA FirstAndLast ==
  ASSUME NEW c \in Seq(Offsets), NEW at, Those(c, at) # << >>
  PROVE  /\ \E k \in 1 .. Len(c) : k \in at /\ Those(c, at)[1] = c[k]
         /\ \E k \in 1 .. Len(c) : k \in at /\ Last(Those(c, at)) = c[k]
<1> DEFINE s == Those(c, at)
<1>1. s \in Seq(Offsets)
      /\ \A j \in 1 .. Len(s) : \E k \in 1 .. Len(c) : k \in at /\ s[j] = c[k]
  BY ThoseOffsets
<1>2. s # << >>
  OBVIOUS
<1> HIDE DEF s
<1>3. 1 \in 1 .. Len(s) /\ Len(s) \in 1 .. Len(s)
  BY <1>1, <1>2
<1> QED BY <1>1, <1>3 DEF s, Last

(* _seek_to finds where a record begins, from the cache or from a scan.    *)
LEMMA SeekToIs ==
  ASSUME NEW f \in Files, FileOK(f), Len(f.written) = StartAt(f, Len(f.recs)),
         NEW c \in Seq(Offsets), CacheOK(c, f, Len(f.recs)),
         NEW i \in Nat, i < Len(f.recs)
  PROVE  LET s == SeekTo(SubSeq(f.written, 1, Len(f.written)), c, i)
         IN  /\ s.off = StartAt(f, i) /\ s.cache \in Seq(Offsets)
             /\ CacheOK(s.cache, f, Len(f.recs))
<1> DEFINE n == Len(f.recs)
           g == SubSeq(f.written, 1, Len(f.written))
           here == {j \in DOMAIN c : c[j].idx = i}
           below == {j \in DOMAIN c : c[j].idx < i}
           hit == Those(c, here)
           before == Those(c, below)
           from == ScanFrom(before)
           off == IF hit # << >> THEN hit[1].off ELSE Skipped(g, from.off, i - from.idx)
<1>1. n \in Nat
  BY FileFields
<1>2. ASSUME NEW e, \E k \in 1 .. Len(c) : e = c[k]
      PROVE  e.idx \in 0 .. n - 1 /\ e.off = StartAt(f, e.idx)
  <2>1. PICK k \in 1 .. Len(c) : e = c[k]
    BY <1>2
  <2>2. e \in Offsets
    BY <2>1
  <2>3. e.idx \in Nat /\ e.idx < n /\ e.off = f.recs[e.idx + 1].at
    BY <2>1, <2>2 DEF CacheOK, Offsets
  <2>4. e.idx + 1 \in 1 .. n /\ e.idx + 1 - 1 = e.idx
    BY <1>1, <2>3
  <2>5. f.recs[e.idx + 1].at = StartAt(f, e.idx)
    BY <1>1, <2>3, <2>4 DEF FileOK
  <2> QED BY <1>1, <2>3, <2>5
<1>3. ASSUME hit # << >> PROVE off = StartAt(f, i)
  <2>3. PICK k \in 1 .. Len(c) : k \in here /\ hit[1] = c[k]
    <3> HIDE DEF here
    <3> QED BY <1>3, FirstAndLast
  <2> HIDE DEF hit
  <2>4. hit[1].idx = i
    BY <2>3
  <2>5. hit[1].off = StartAt(f, hit[1].idx)
    BY <1>2, <2>3
  <2> QED BY <1>3, <2>4, <2>5
<1>4. ASSUME hit = << >> PROVE off = StartAt(f, i)
  <2>1. before # << >> => \E k \in 1 .. Len(c) : k \in below /\ Last(before) = c[k]
    <3> HIDE DEF below
    <3> QED BY FirstAndLast
  <2> HIDE DEF before
  <2>2. from.idx \in 0 .. i /\ from.off = StartAt(f, from.idx)
    <3>1. CASE before = << >>
      BY <3>1 DEF ScanFrom, StartAt
    <3>2. CASE before # << >>
      <4>1. from = Last(before)
        BY <3>2 DEF ScanFrom
      <4> HIDE DEF from
      <4>2. PICK k \in 1 .. Len(c) : k \in below /\ from = c[k]
        BY <2>1, <3>2, <4>1
      <4>3. from.idx < i
        BY <4>2
      <4>4. from.idx \in 0 .. n - 1 /\ from.off = StartAt(f, from.idx)
        BY <1>2, <4>2
      <4> QED BY <4>3, <4>4
    <3> QED BY <3>1, <3>2
  <2> HIDE DEF from
  <2>3. from.idx \in 0 .. n /\ i - from.idx \in Nat /\ from.idx + (i - from.idx) = i
    BY <1>1, <2>2
  <2>4. Skipped(g, StartAt(f, from.idx), i - from.idx) = StartAt(f, from.idx + (i - from.idx))
    <3>1. from.idx + (i - from.idx) <= Len(f.recs) /\ from.idx \in 0 .. Len(f.recs)
      BY <2>3
    <3> QED BY <2>3, <3>1, SkippedIs
  <2>5. Skipped(g, from.off, i - from.idx) = StartAt(f, i)
    BY <2>2, <2>3, <2>4
  <2> HIDE DEF hit, g
  <2> QED BY <1>4, <2>5
<1>5. off = StartAt(f, i)
  BY <1>3, <1>4
<1>6. SeekTo(g, c, i) = [off |-> off, cache |-> CacheOffset(c, i, off)]
  BY DEF SeekTo
<1> HIDE DEF off, g
<1>7. off \in Nat /\ off = f.recs[i + 1].at
  <2>1. i \in 0 .. n /\ i + 1 \in 1 .. n /\ i + 1 - 1 = i
    BY <1>1
  <2>2. f.recs[i + 1].at = StartAt(f, i)
    BY <2>1 DEF FileOK
  <2> QED BY <1>5, <2>1, <2>2, FileFields
<1>8. CacheOffset(c, i, off) \in Seq(Offsets) /\ CacheOK(CacheOffset(c, i, off), f, n)
  BY <1>1, <1>7, CacheStaysOK
<1> QED BY <1>5, <1>6, <1>8 DEF g

-----------------------------------------------------------------------------
(* Files that grow.                                                        *)

Extends(g, f) ==
  /\ Len(f.recs) <= Len(g.recs) /\ f.ondisk <= g.ondisk
  /\ \A i \in 1 .. Len(f.recs) : g.recs[i] = f.recs[i]

LEMMA StartStays ==
  ASSUME NEW f \in Files, NEW g \in Files, Extends(g, f), NEW k \in 0 .. Len(f.recs)
  PROVE  StartAt(g, k) = StartAt(f, k)
<1>1. Len(f.recs) \in Nat
  BY FileFields
<1>2. k # 0 => g.recs[k] = f.recs[k]
  BY <1>1 DEF Extends
<1> QED BY <1>2 DEF StartAt

LEMMA CacheStays ==
  ASSUME NEW f \in Files, NEW g \in Files, Extends(g, f), NEW c \in Seq(Offsets),
         NEW n \in 0 .. Len(f.recs), NEW m \in Nat, n <= m, CacheOK(c, f, n)
  PROVE  CacheOK(c, g, m)
<1>1. ASSUME NEW i \in 1 .. Len(c) PROVE c[i].idx < m /\ c[i].off = g.recs[c[i].idx + 1].at
  <2>1. c[i] \in Offsets
    OBVIOUS
  <2>2. c[i].idx \in Nat /\ c[i].idx < n /\ c[i].off = f.recs[c[i].idx + 1].at
    BY <2>1 DEF CacheOK, Offsets
  <2>3. n \in Nat /\ Len(f.recs) \in Nat /\ n <= Len(f.recs)
    BY FileFields
  <2>4. c[i].idx + 1 \in 1 .. Len(f.recs) /\ c[i].idx < m
    BY <2>2, <2>3
  <2> QED BY <2>2, <2>4 DEF Extends
<1> QED BY <1>1 DEF CacheOK

LEMMA RangeStaysOK ==
  ASSUME NEW ls \in Seq(Files), NEW ms \in Seq(Files), Len(ls) <= Len(ms),
         \A l \in 1 .. Len(ls) : Extends(ms[l], ls[l]),
         NEW r \in RangeReads, RangeOK(r, ls)
  PROVE  RangeOK(r, ms)
<1> SUFFICES ASSUME r.pc # "idle" PROVE RangeOK(r, ms)
  BY DEF RangeOK
<1> DEFINE f == ls[r.log]
           g == ms[r.log]
           k == r.end - r.left
<1>1. r.log \in 1 .. Len(ls) /\ r.log \in 1 .. Len(ms)
  <2>1. r.log \in 1 .. Len(ls)
    BY DEF RangeOK
  <2> QED BY <2>1
<1>2. f \in Files /\ g \in Files /\ Extends(g, f)
  BY <1>1
<1>3. r.end \in Nat /\ r.left \in Nat /\ r.start \in Nat
  BY DEF RangeReads
<1>4. r.start <= k /\ k <= r.end /\ r.end <= Len(f.recs)
  BY DEF RangeOK
<1>0. /\ r.pos = StartAt(f, k) /\ StartAt(f, r.end) <= f.ondisk
      /\ Len(r.got) = k - r.start
      /\ \A i \in 1 .. k - r.start : r.got[i] = f.recs[r.start + i].ev
      /\ r.pc = "done" => r.left = 0
  BY DEF RangeOK
<1>10. k \in Int
  BY <1>3
<1> HIDE DEF f, g, k
<1>5. Len(f.recs) \in Nat /\ Len(g.recs) \in Nat /\ f.ondisk \in Nat /\ g.ondisk \in Nat
      /\ StartAt(f, r.end) \in Nat
  <2>1. Len(f.recs) \in Nat /\ Len(g.recs) \in Nat /\ f.ondisk \in Nat /\ g.ondisk \in Nat
    BY <1>2, FileFields
  <2>2. r.end \in 0 .. Len(f.recs)
    BY <1>3, <1>4, <2>1
  <2> QED BY <1>2, <2>1, <2>2, FileFields
<1>6. k \in 0 .. Len(f.recs) /\ r.end \in 0 .. Len(f.recs)
  BY <1>3, <1>4, <1>5, <1>10
<1>7. StartAt(g, k) = StartAt(f, k) /\ StartAt(g, r.end) = StartAt(f, r.end)
  BY <1>2, <1>6, StartStays
<1>8. r.end <= Len(g.recs) /\ StartAt(g, r.end) <= g.ondisk
  <2>1. Len(f.recs) <= Len(g.recs) /\ f.ondisk <= g.ondisk
    BY <1>2 DEF Extends
  <2> QED BY <1>0, <1>3, <1>4, <1>5, <1>7, <2>1
<1>9. ASSUME NEW i \in 1 .. k - r.start PROVE r.got[i] = g.recs[r.start + i].ev
  <2>1. r.start + i \in 1 .. Len(f.recs)
    <3>1. i \in Nat \ {0} /\ r.start + i <= k
      BY <1>3, <1>10
    <3>2. k <= Len(f.recs) /\ Len(f.recs) \in Nat
      BY <1>5, <1>6
    <3> QED BY <1>3, <1>10, <3>1, <3>2
  <2>2. r.got[i] = f.recs[r.start + i].ev
    BY <1>0
  <2> QED BY <1>2, <2>1, <2>2 DEF Extends
<1> QED BY <1>0, <1>1, <1>4, <1>7, <1>8, <1>9 DEF RangeOK, g, k

LEMMA WholeStaysOK ==
  ASSUME NEW ls \in Seq(Files), NEW ms \in Seq(Files), Len(ls) <= Len(ms),
         \A l \in 1 .. Len(ls) : Extends(ms[l], ls[l]),
         NEW w \in WholeReads, WholeOK(w, ls)
  PROVE  WholeOK(w, ms)
<1> DEFINE f == ls[w.log]
           g == ms[w.log]
<1>1. w.pc \in {"flush", "open"} => w.self \in 1 .. Len(ms)
  <2>1. w.pc \in {"flush", "open"} => w.self \in 1 .. Len(ls)
    BY DEF WholeOK
  <2> QED BY <2>1
<1>2. ASSUME w.log # 0
      PROVE  /\ w.log \in 1 .. Len(ms) /\ Len(w.got) <= Len(g.recs)
             /\ \A i \in 1 .. Len(w.got) : w.got[i] = g.recs[i].ev
             /\ w.pos = StartAt(g, Len(w.got)) /\ w.pos <= g.ondisk
  <2>1. w.log \in 1 .. Len(ls) /\ w.log \in 1 .. Len(ms)
    <3>1. w.log \in 1 .. Len(ls)
      BY <1>2 DEF WholeOK
    <3> QED BY <3>1
  <2>2. f \in Files /\ g \in Files /\ Extends(g, f)
    BY <2>1
  <2>3. w.got \in Seq(Events) /\ Len(w.got) \in Nat /\ w.pos \in Nat
    <3>1. w.got \in Seq(Events) /\ w.pos \in Nat
      BY DEF WholeReads
    <3> QED BY <3>1
  <2>4. /\ Len(w.got) <= Len(f.recs)
        /\ \A i \in 1 .. Len(w.got) : w.got[i] = f.recs[i].ev
        /\ w.pos = StartAt(f, Len(w.got)) /\ w.pos <= f.ondisk
    BY <1>2 DEF WholeOK
  <2> HIDE DEF f, g
  <2>5. Len(f.recs) \in Nat /\ Len(g.recs) \in Nat /\ f.ondisk \in Nat /\ g.ondisk \in Nat
    BY <2>2, FileFields
  <2>6. Len(w.got) \in 0 .. Len(f.recs)
    BY <2>3, <2>4, <2>5
  <2>7. w.pos = StartAt(g, Len(w.got))
    BY <2>2, <2>4, <2>6, StartStays
  <2>8. Len(w.got) <= Len(g.recs) /\ w.pos <= g.ondisk
    BY <2>2, <2>3, <2>4, <2>5 DEF Extends
  <2>9. ASSUME NEW i \in 1 .. Len(w.got) PROVE w.got[i] = g.recs[i].ev
    <3>1. i \in 1 .. Len(f.recs)
      BY <2>3, <2>5, <2>6
    <3> QED BY <2>2, <2>4, <3>1 DEF Extends
  <2> QED BY <2>1, <2>7, <2>8, <2>9
<1>3. (w.pc = "reading" <=> w.log # 0) /\ (w.log = 0 => w.pos = 0 /\ w.got = << >>)
  BY DEF WholeOK
<1> QED BY <1>1, <1>2, <1>3 DEF WholeOK

(* A header is appended.                                                   *)
LEMMA HeaderIsWritten ==
  ASSUME NEW f \in Files, FileOK(f), Len(f.written) = StartAt(f, Len(f.recs)), NEW e \in Events
  PROVE  LET g == LogAfter(f, <<Header(e)>>, <<[ev |-> e, at |-> Len(f.written)]>>)
         IN  /\ g \in Files /\ FileOK(g) /\ Extends(g, f)
             /\ Len(g.recs) = Len(f.recs) + 1 /\ g.ondisk = f.ondisk
             /\ Len(g.written) = g.recs[Len(g.recs)].at + 1
<1> DEFINE n == Len(f.recs)
           rec == [ev |-> e, at |-> Len(f.written)]
           g == LogAfter(f, <<Header(e)>>, <<rec>>)
<1>1. f.written \in Seq(Units) /\ f.recs \in Seq(Records) /\ f.ondisk \in Nat /\ n \in Nat
  BY FileFields
<1>2. Header(e) \in Units /\ rec \in Records
  BY <1>1 DEF Header, Units, Records
<1>3. /\ g.written = f.written \o <<Header(e)>> /\ g.recs = f.recs \o <<rec>>
      /\ g.ondisk = f.ondisk /\ g \in Files
  <2>1. f.written \o <<Header(e)>> \in Seq(Units) /\ f.recs \o <<rec>> \in Seq(Records)
    BY <1>1, <1>2
  <2> HIDE DEF rec
  <2> QED BY <2>1 DEF LogAfter, Files
<1> HIDE DEF g, rec
<1>4. /\ Len(g.written) = Len(f.written) + 1 /\ Len(g.recs) = n + 1
      /\ \A i \in 1 .. Len(f.written) : g.written[i] = f.written[i]
      /\ g.written[Len(f.written) + 1] = Header(e)
      /\ \A i \in 1 .. n : g.recs[i] = f.recs[i]
      /\ g.recs[n + 1] = rec
  <2>1. /\ Len(g.written) = Len(f.written) + 1
        /\ \A i \in 1 .. Len(f.written) : g.written[i] = f.written[i]
        /\ g.written[Len(f.written) + 1] = Header(e)
    BY <1>1, <1>2, <1>3
  <2>2. Len(g.recs) = n + 1 /\ (\A i \in 1 .. n : g.recs[i] = f.recs[i]) /\ g.recs[n + 1] = rec
    BY <1>1, <1>2, <1>3
  <2> QED BY <2>1, <2>2
<1>5. Extends(g, f)
  BY <1>1, <1>3, <1>4 DEF Extends
<1>6. rec.at = Len(f.written) /\ rec.ev = e
  BY DEF rec
<1>7. \A k \in 0 .. n : StartAt(g, k) = StartAt(f, k) /\ StartAt(f, k) \in Nat
  BY <1>3, <1>5, StartStays, FileFields
<1>8. StartAt(g, n + 1) \in Nat /\ StartAt(g, n + 1) > Len(f.written)
  <2>1. n + 1 \in 1 .. Len(g.recs) /\ n + 1 \in 0 .. Len(g.recs)
    BY <1>1, <1>4
  <2> QED BY <1>3, <1>4, <1>6, <2>1, FileFields
<1>9. FileOK(g)
  <2>1. g.ondisk <= Len(g.written) /\ Len(g.written) <= StartAt(g, Len(g.recs))
    <3>1. f.ondisk <= Len(f.written) /\ Len(f.written) \in Nat
      BY <1>1 DEF FileOK
    <3>2. g.ondisk <= Len(g.written)
      <4>1. Len(g.written) = Len(f.written) + 1 /\ g.ondisk = f.ondisk
        BY <1>3, <1>4
      <4> QED BY <1>1, <3>1, <4>1
    <3> QED BY <1>4, <1>8, <3>1, <3>2
  <2>2. ASSUME NEW k \in 1 .. n
        PROVE  /\ g.recs[k].at = StartAt(g, k - 1)
               /\ \A j \in 0 .. k - 1 : StartAt(g, j) <= g.recs[k].at
               /\ g.recs[k].at < Len(g.written) =>
                    g.written[g.recs[k].at + 1] = Header(g.recs[k].ev)
    <3>1. g.recs[k] = f.recs[k] /\ k - 1 \in 0 .. n
      BY <1>1, <1>4
    <3>2. g.recs[k].at = StartAt(g, k - 1)
      BY <1>7, <3>1 DEF FileOK
    <3>3. ASSUME NEW j \in 0 .. k - 1 PROVE StartAt(g, j) <= g.recs[k].at
      <4>1. j \in 0 .. n
        BY <1>1
      <4>2. StartAt(f, j) <= f.recs[k].at
        BY DEF FileOK
      <4> QED BY <1>7, <3>1, <4>1, <4>2
    <3>4. f.recs[k].at \in Nat /\ f.recs[k].at < Len(f.written)
      <4>1. f.recs[k].at = StartAt(f, k - 1) /\ f.recs[k].at < StartAt(f, k) /\ f.recs[k].at \in Nat
        BY FileFields DEF FileOK
      <4>2. StartAt(f, k) <= StartAt(f, n)
        <5>1. n \in 0 .. Len(f.recs) /\ k \in 0 .. n
          BY <1>1
        <5> QED BY <5>1, StartsGrow
      <4>3. StartAt(f, k) \in Nat /\ StartAt(f, n) \in Nat
        BY <1>1, <1>7
      <4> QED BY <4>1, <4>2, <4>3
    <3>5. g.written[f.recs[k].at + 1] = Header(f.recs[k].ev)
      <4>1. f.written[f.recs[k].at + 1] = Header(f.recs[k].ev)
        BY <3>4 DEF FileOK
      <4>2. f.recs[k].at + 1 \in 1 .. Len(f.written)
        BY <1>1, <3>4
      <4> QED BY <1>4, <4>1, <4>2
    <3> QED BY <3>1, <3>2, <3>3, <3>5
  <2>3. /\ g.recs[n + 1].at = StartAt(g, n)
        /\ \A j \in 0 .. n : StartAt(g, j) <= g.recs[n + 1].at
        /\ g.recs[n + 1].at < Len(g.written) =>
             g.written[g.recs[n + 1].at + 1] = Header(g.recs[n + 1].ev)
    <3>1. g.recs[n + 1].at = StartAt(g, n)
      BY <1>1, <1>4, <1>6, <1>7
    <3>2. ASSUME NEW j \in 0 .. n PROVE StartAt(g, j) <= StartAt(g, n)
      <4>1. StartAt(f, j) <= StartAt(f, n)
        <5>1. n \in 0 .. Len(f.recs)
          BY <1>1
        <5> QED BY <5>1, StartsGrow
      <4> QED BY <1>1, <1>7, <4>1
    <3>3. g.written[g.recs[n + 1].at + 1] = Header(g.recs[n + 1].ev)
      BY <1>4, <1>6
    <3> QED BY <3>1, <3>2, <3>3
  <2>4. ASSUME NEW k \in 1 .. Len(g.recs)
        PROVE  /\ g.recs[k].at = StartAt(g, k - 1)
               /\ \A j \in 0 .. k - 1 : StartAt(g, j) <= g.recs[k].at
               /\ g.recs[k].at < Len(g.written) =>
                    g.written[g.recs[k].at + 1] = Header(g.recs[k].ev)
    <3>1. CASE k \in 1 .. n
      BY <2>2, <3>1
    <3>2. CASE k = n + 1
      <4>1. k - 1 = n
        BY <1>1, <3>2
      <4> QED BY <2>3, <3>2, <4>1
    <3> QED BY <1>1, <1>4, <3>1, <3>2
  <2> QED BY <2>1, <2>4 DEF FileOK
<1> QED BY <1>3, <1>4, <1>5, <1>6, <1>9 DEF g, rec

(* The payload is appended behind its header.                              *)
LEMMA PayloadIsWritten ==
  ASSUME NEW f \in Files, FileOK(f), Len(f.recs) > 0,
         Len(f.written) = f.recs[Len(f.recs)].at + 1
  PROVE  LET g == LogAfter(f, Payload(Last(f.written).ev), << >>)
         IN  /\ g \in Files /\ FileOK(g) /\ Extends(g, f)
             /\ g.recs = f.recs /\ g.ondisk = f.ondisk
             /\ Len(g.written) = StartAt(g, Len(g.recs))
<1> DEFINE n == Len(f.recs)
           e == f.recs[n].ev
           g == LogAfter(f, Payload(Last(f.written).ev), << >>)
<1>1. f.written \in Seq(Units) /\ f.recs \in Seq(Records) /\ f.ondisk \in Nat /\ n \in Nat
  BY FileFields
<1>2. n \in 1 .. n /\ e \in Events /\ f.recs[n].at \in Nat /\ PayloadSizes[e] \in Nat \ {0}
  <2>1. n \in 1 .. Len(f.recs)
    BY <1>1
  <2> QED BY <2>1, FileFields
<1>3. Last(f.written).ev = e
  <2>1. f.recs[n].at < Len(f.written)
    BY <1>2
  <2>2. f.written[f.recs[n].at + 1] = Header(e)
    BY <1>2, <2>1 DEF FileOK
  <2>3. Last(f.written) = Header(e)
    BY <1>1, <1>2, <2>2 DEF Last
  <2> QED BY <2>3 DEF Header
<1>4. Payload(e) \in Seq(Units) /\ Len(Payload(e)) = PayloadSizes[e]
  <2>1. \A i \in 1 .. PayloadSizes[e] : [ev |-> e, part |-> i] \in Units
    BY <1>2 DEF Units
  <2> HIDE DEF e
  <2>2. Payload(e) \in [1 .. PayloadSizes[e] -> Units]
    BY <2>1 DEF Payload
  <2> QED BY <1>2, <2>2
<1>5. g.written = f.written \o Payload(e) /\ g.recs = f.recs \o << >> /\ g.ondisk = f.ondisk
  BY <1>3 DEF LogAfter, Files
<1>6. g.recs = f.recs
  BY <1>1, <1>5
<1> HIDE DEF e
<1>7. g.written \in Seq(Units) /\ Len(g.written) = Len(f.written) + PayloadSizes[e]
      /\ \A i \in 1 .. Len(f.written) : g.written[i] = f.written[i]
  <2> DEFINE p == Payload(e)
  <2>1. p \in Seq(Units) /\ Len(p) = PayloadSizes[e]
    BY <1>4
  <2>2. g.written = f.written \o p
    BY <1>5
  <2> HIDE DEF g, p
  <2>3. g.written \in Seq(Units) /\ Len(g.written) = Len(f.written) + Len(p)
        /\ \A i \in 1 .. Len(f.written) : g.written[i] = f.written[i]
    <3>1. /\ f.written \o p \in Seq(Units) /\ Len(f.written \o p) = Len(f.written) + Len(p)
          /\ \A i \in 1 .. Len(f.written) + Len(p) :
               (f.written \o p)[i] = IF i <= Len(f.written) THEN f.written[i]
                                      ELSE p[i - Len(f.written)]
      BY <1>1, <2>1, ConcatProperties
    <3>2. \A i \in 1 .. Len(f.written) : i \in 1 .. Len(f.written) + Len(p) /\ i <= Len(f.written)
      BY <1>1, <2>1
    <3> QED BY <2>2, <3>1, <3>2
  <2> QED BY <2>1, <2>3
<1>8. g \in Files
  <2>1. f.written \o Payload(e) \in Seq(Units) /\ f.recs \o << >> \in Seq(Records)
    BY <1>1, <1>4
  <2> QED BY <1>3, <2>1 DEF LogAfter, Files
<1> HIDE DEF g
<1>9. Extends(g, f)
  BY <1>1, <1>5, <1>6 DEF Extends
<1>10. \A k \in 0 .. n : StartAt(g, k) = StartAt(f, k)
  BY <1>6 DEF StartAt
<1>11. Len(g.written) = StartAt(f, n)
  <2>1. StartAt(f, n) = f.recs[n].at + 1 + PayloadSizes[e]
    BY <1>2 DEF StartAt, e
  <2> QED BY <1>2, <1>7, <2>1
<1>12. FileOK(g)
  <2>1. g.ondisk <= Len(g.written) /\ Len(g.written) <= StartAt(g, Len(g.recs))
    <3>1. f.ondisk <= Len(f.written) /\ Len(f.written) \in Nat
      BY <1>1 DEF FileOK
    <3>2. Len(g.written) = Len(f.written) + PayloadSizes[e] /\ g.ondisk = f.ondisk
      BY <1>5, <1>7
    <3>3. g.ondisk <= Len(g.written) /\ Len(g.written) \in Nat
      BY <1>1, <1>2, <3>1, <3>2
    <3>4. StartAt(g, Len(g.recs)) = StartAt(f, n)
      BY <1>2, <1>6, <1>10
    <3> QED BY <1>11, <3>3, <3>4
  <2>2. ASSUME NEW k \in 1 .. n
        PROVE  /\ g.recs[k].at = StartAt(g, k - 1)
               /\ \A j \in 0 .. k - 1 : StartAt(g, j) <= g.recs[k].at
               /\ g.recs[k].at < Len(g.written) =>
                    g.written[g.recs[k].at + 1] = Header(g.recs[k].ev)
    <3>1. \A j \in 0 .. k - 1 : j \in 0 .. n
      BY <1>1
    <3>2. k - 1 \in 0 .. k - 1
      BY <1>1
    <3>3. /\ f.recs[k].at = StartAt(f, k - 1)
          /\ \A j \in 0 .. k - 1 : StartAt(f, j) <= f.recs[k].at
      BY DEF FileOK
    <3>4. g.recs[k].at = StartAt(g, k - 1)
          /\ \A j \in 0 .. k - 1 : StartAt(g, j) <= g.recs[k].at
      BY <1>6, <1>10, <3>1, <3>2, <3>3
    <3>5. f.recs[k].at < Len(f.written) /\ f.recs[k].at \in Nat
      <4>1. f.recs[k].at \in Nat
        BY FileFields
      <4>2. CASE k = n
        BY <1>2, <4>1, <4>2
      <4>3. CASE k # n
        <5>1. k \in 0 .. n - 1 /\ k \in 0 .. n
          BY <1>1, <4>3
        <5>2. StartAt(f, k) <= f.recs[n].at /\ StartAt(f, k) \in Nat /\ StartAt(f, k) > f.recs[k].at
          BY <1>2, <5>1, FileFields DEF FileOK
        <5> QED BY <1>2, <4>1, <5>2
      <4> QED BY <4>2, <4>3
    <3>6. g.written[f.recs[k].at + 1] = Header(f.recs[k].ev)
      <4>1. f.written[f.recs[k].at + 1] = Header(f.recs[k].ev)
        BY <3>5 DEF FileOK
      <4>2. f.recs[k].at + 1 \in 1 .. Len(f.written)
        BY <1>1, <3>5
      <4> QED BY <1>7, <4>1, <4>2
    <3> QED BY <1>6, <3>4, <3>6
  <2> QED BY <1>6, <2>1, <2>2 DEF FileOK
<1>13. Len(g.written) = StartAt(g, Len(g.recs))
  BY <1>2, <1>6, <1>10, <1>11
<1> QED BY <1>5, <1>6, <1>8, <1>9, <1>12, <1>13 DEF g

(* More of the file gets to the disk.                                      *)
LEMMA DiskGetsMore ==
  ASSUME NEW f \in Files, FileOK(f), NEW m \in f.ondisk .. Len(f.written)
  PROVE  LET g == [f EXCEPT !.ondisk = m]
         IN  /\ g \in Files /\ FileOK(g) /\ Extends(g, f)
             /\ g.written = f.written /\ g.recs = f.recs /\ g.ondisk = m
<1> DEFINE g == [f EXCEPT !.ondisk = m]
<1>1. f.ondisk \in Nat /\ Len(f.written) \in Nat
  BY FileFields
<1>2. m \in Nat /\ m <= Len(f.written) /\ f.ondisk <= m
  BY <1>1
<1>3. g \in Files /\ g.written = f.written /\ g.recs = f.recs /\ g.ondisk = m
  BY <1>2 DEF Files
<1> HIDE DEF g
<1>4. \A k : StartAt(g, k) = StartAt(f, k)
  BY <1>3 DEF StartAt
<1>5. FileOK(g)
  BY <1>2, <1>3, <1>4 DEF FileOK
<1>6. Extends(g, f)
  <2>1. Len(f.recs) \in Nat
    BY FileFields
  <2> QED BY <1>2, <1>3, <2>1 DEF Extends
<1> QED BY <1>3, <1>5, <1>6 DEF g

LEMMA FlushGetsAll ==
  ASSUME NEW f \in Files, FileOK(f)
  PROVE  /\ Flushed(f) \in Files /\ FileOK(Flushed(f)) /\ Extends(Flushed(f), f)
         /\ Flushed(f).written = f.written /\ Flushed(f).recs = f.recs
         /\ Flushed(f).ondisk = Len(f.written)
<1>1. f.ondisk \in Nat /\ f.written \in Seq(Units) /\ f.ondisk <= Len(f.written)
  BY FileFields DEF FileOK
<1>2. Len(f.written) \in f.ondisk .. Len(f.written)
  BY <1>1
<1> QED BY <1>2, DiskGetsMore DEF Flushed

(* A crash loses what was in the buffer.                                   *)
LEMMA CrashCuts ==
  ASSUME NEW f \in Files, FileOK(f)
  PROVE  LET g == [f EXCEPT !.written = SubSeq(f.written, 1, f.ondisk)]
         IN  g \in Files /\ FileOK(g)
<1> DEFINE w == SubSeq(f.written, 1, f.ondisk)
           g == [f EXCEPT !.written = w]
<1>1. f.ondisk \in Nat /\ Len(f.written) \in Nat /\ f.ondisk <= Len(f.written)
      /\ StartAt(f, Len(f.recs)) \in Nat /\ Len(f.written) <= StartAt(f, Len(f.recs))
  <2>1. f.ondisk \in Nat /\ Len(f.written) \in Nat /\ Len(f.recs) \in Nat
    BY FileFields
  <2>2. StartAt(f, Len(f.recs)) \in Nat
    BY <2>1, FileFields
  <2> QED BY <2>1, <2>2 DEF FileOK
<1>2. w \in Seq(Units) /\ Len(w) = f.ondisk /\ \A i \in 1 .. f.ondisk : w[i] = f.written[i]
  <2>1. f.ondisk \in 0 .. Len(f.written)
    BY <1>1
  <2> QED BY <2>1, FirstUnits
<1> HIDE DEF w
<1>3. g \in Files /\ g.written = w /\ g.recs = f.recs /\ g.ondisk = f.ondisk
  BY <1>2 DEF Files
<1> HIDE DEF g
<1>4. \A k : StartAt(g, k) = StartAt(f, k)
  BY <1>3 DEF StartAt
<1>5. ASSUME NEW k \in 1 .. Len(f.recs), f.recs[k].at < f.ondisk
      PROVE  w[f.recs[k].at + 1] = Header(f.recs[k].ev)
  <2>1. f.recs[k].at \in Nat
    BY FileFields
  <2>2. f.recs[k].at + 1 \in 1 .. f.ondisk /\ f.recs[k].at < Len(f.written)
    BY <1>1, <1>5, <2>1
  <2>3. f.written[f.recs[k].at + 1] = Header(f.recs[k].ev)
    BY <2>2 DEF FileOK
  <2> QED BY <1>2, <2>2, <2>3
<1>6. g.ondisk <= Len(g.written) /\ Len(g.written) <= StartAt(g, Len(g.recs))
  BY <1>1, <1>2, <1>3, <1>4
<1>7. \A k \in 1 .. Len(g.recs) :
        /\ g.recs[k].at = StartAt(g, k - 1)
        /\ \A j \in 0 .. k - 1 : StartAt(g, j) <= g.recs[k].at
  BY <1>3, <1>4 DEF FileOK
<1>8. FileOK(g)
  BY <1>2, <1>3, <1>5, <1>6, <1>7 DEF FileOK
<1> QED BY <1>3, <1>8 DEF g, w

-----------------------------------------------------------------------------
(* The invariant.                                                          *)

LEMMA LogFields ==
  ASSUME LogTyped
  PROVE  /\ Open \in Nat /\ Open >= 1 /\ Open \in 1 .. Open
         /\ logs[Open] \in Files /\ \A l \in 1 .. Open : logs[l] \in Files
<1>1. logs \in Seq(Files) /\ logs # << >>
  BY DEF LogTyped
<1>2. Open \in Nat /\ Open >= 1
  BY <1>1 DEF Open
<1>3. \A l \in 1 .. Open : logs[l] \in Files
  BY <1>1 DEF Open
<1> QED BY <1>2, <1>3

(* A change of the open file that extends it leaves everything else.       *)
LEMMA OpenChanges ==
  ASSUME LogInv, NEW g \in Files, FileOK(g), Extends(g, logs[Open])
  PROVE  LET ms == [logs EXCEPT ![Open] = g]
         IN  /\ ms \in Seq(Files) /\ ms # << >> /\ Len(ms) = Open /\ ms[Open] = g
             /\ \A l \in 1 .. Open : FileOK(ms[l]) /\ Extends(ms[l], logs[l])
             /\ RangeOK(ranged, ms) /\ WholeOK(whole, ms)
<1> DEFINE ms == [logs EXCEPT ![Open] = g]
<1>1. LogTyped /\ RangeOK(ranged, logs) /\ WholeOK(whole, logs)
      /\ \A l \in 1 .. Len(logs) : FileOK(logs[l])
  BY DEF LogInv
<1>2. logs \in Seq(Files) /\ logs # << >> /\ ranged \in RangeReads /\ whole \in WholeReads
  BY <1>1 DEF LogTyped
<1>3. Open \in 1 .. Open /\ Open = Len(logs) /\ Open \in Nat
  BY <1>1, LogFields DEF Open
<1>4. /\ ms \in Seq(Files) /\ Len(ms) = Open
      /\ \A l \in 1 .. Open : ms[l] = IF l = Open THEN g ELSE logs[l]
  BY <1>2, <1>3
<1> HIDE DEF ms
<1>5. ms # << >>
  BY <1>3, <1>4
<1>6. ASSUME NEW l \in 1 .. Open PROVE FileOK(ms[l]) /\ Extends(ms[l], logs[l])
  <2>1. Extends(logs[l], logs[l])
    <3>1. logs[l] \in Files
      BY <1>2, <1>3
    <3>2. Len(logs[l].recs) \in Nat /\ logs[l].ondisk \in Nat
      BY <3>1, FileFields
    <3> QED BY <3>2 DEF Extends
  <2> QED BY <1>1, <1>3, <1>4, <2>1
<1>7. RangeOK(ranged, ms) /\ WholeOK(whole, ms)
  <2>1. Len(logs) <= Len(ms) /\ \A l \in 1 .. Len(logs) : Extends(ms[l], logs[l])
    BY <1>3, <1>4, <1>6
  <2> QED BY <1>1, <1>2, <1>4, <2>1, RangeStaysOK, WholeStaysOK
<1> QED BY <1>3, <1>4, <1>5, <1>6, <1>7 DEF ms

LEMMA LogInitInv == LogInit => LogInv
<1> SUFFICES ASSUME LogInit PROVE LogInv
  OBVIOUS
<1>1. NewFile \in Files
  BY DEF NewFile, Files
<1>2. logs = <<NewFile>> /\ Len(logs) = 1 /\ Open = 1 /\ logs[Open] = NewFile
  BY DEF LogInit, Open
<1>3. LogTyped
  BY <1>1, <1>2 DEF LogInit, LogTyped, NoRange, NoWhole, RangeReads, WholeReads
<1>4. FileOK(NewFile) /\ StartAt(NewFile, 0) = 0 /\ Len(NewFile.recs) = 0 /\ NewFile.written = << >>
  BY DEF FileOK, NewFile, StartAt
<1>5. \A l \in 1 .. Len(logs) : FileOK(logs[l])
  BY <1>2, <1>4
<1>6. OpenOK(logs[Open])
  BY <1>2, <1>4 DEF OpenOK, LogInit
<1>7. CacheOK(offsets, logs[Open], lcount) /\ RangeOK(ranged, logs) /\ WholeOK(whole, logs)
  BY DEF LogInit, CacheOK, RangeOK, WholeOK, NoRange, NoWhole
<1> QED BY <1>3, <1>5, <1>6, <1>7 DEF LogInv

LEMMA AppendHeaderInv ==
  ASSUME LogInv, AppendHeader
  PROVE  LogInv'
<1> DEFINE f == logs[Open]
           e == Latest + 1
           g == LogAfter(f, <<Header(e)>>, <<[ev |-> e, at |-> Len(f.written)]>>)
<1>1. LogTyped /\ OpenOK(f) /\ FileOK(f) /\ f \in Files /\ Open \in 1 .. Open /\ e \in Events
  <2>1. LogTyped /\ OpenOK(f) /\ \A l \in 1 .. Len(logs) : FileOK(logs[l])
    BY DEF LogInv
  <2>2. Open \in 1 .. Len(logs) /\ f \in Files
    BY <2>1, LogFields DEF Open
  <2> QED BY <2>1, <2>2 DEF AppendHeader, Open
<1>2. appending = "idle" /\ lcount = Len(f.recs) /\ Len(f.written) = StartAt(f, Len(f.recs))
  BY <1>1 DEF AppendHeader, OpenOK
<1> HIDE DEF e
<1>3. /\ g \in Files /\ FileOK(g) /\ Extends(g, f) /\ Len(g.recs) = Len(f.recs) + 1
      /\ Len(g.written) = g.recs[Len(g.recs)].at + 1
  BY <1>1, <1>2, HeaderIsWritten
<1>4. logs' = [logs EXCEPT ![Open] = g] /\ appending' = "header"
      /\ UNCHANGED <<lcount, offsets, ranged, whole, archives, nreads>>
  BY DEF AppendHeader, Write, e
<1> HIDE DEF g, f
<1>5. /\ logs' \in Seq(Files) /\ logs' # << >> /\ Open' = Open /\ logs'[Open'] = g
      /\ \A l \in 1 .. Open : FileOK(logs'[l])
      /\ RangeOK(ranged, logs') /\ WholeOK(whole, logs')
  BY <1>3, <1>4, OpenChanges DEF f, Open
<1>6. LogTyped'
  BY <1>1, <1>4, <1>5 DEF LogTyped
<1>7. CacheOK(offsets, g, lcount)
  <2>1. CacheOK(offsets, f, lcount) /\ offsets \in Seq(Offsets) /\ lcount \in Nat
    BY <1>1 DEF LogInv, LogTyped, f
  <2>2. lcount \in 0 .. Len(f.recs)
    BY <1>2, <2>1
  <2> QED BY <1>1, <1>3, <2>1, <2>2, CacheStays
<1>8. OpenOK(logs[Open])'
  <2>1. Len(f.recs) \in Nat
    BY <1>1, FileFields
  <2> QED BY <1>2, <1>3, <1>4, <1>5, <2>1 DEF OpenOK
<1>9. CacheOK(offsets, logs[Open], lcount)'
  BY <1>4, <1>5, <1>7
<1>10. (\A l \in 1 .. Len(logs) : FileOK(logs[l]))' /\ RangeOK(ranged, logs)' /\ WholeOK(whole, logs)'
  BY <1>4, <1>5 DEF Open
<1> QED BY <1>6, <1>8, <1>9, <1>10 DEF LogInv

LEMMA OpenFile ==
  ASSUME LogInv
  PROVE  LET f == logs[Open]
         IN  /\ f \in Files /\ FileOK(f) /\ OpenOK(f) /\ Open \in 1 .. Len(logs)
             /\ Len(f.recs) \in Nat /\ lcount \in 0 .. Len(f.recs)
             /\ offsets \in Seq(Offsets) /\ CacheOK(offsets, f, lcount)
             /\ \A l \in 1 .. Len(logs) : logs[l] \in Files /\ FileOK(logs[l])
<1> DEFINE f == logs[Open]
<1>1. LogTyped /\ OpenOK(f) /\ CacheOK(offsets, f, lcount)
      /\ \A l \in 1 .. Len(logs) : FileOK(logs[l])
  BY DEF LogInv
<1>2. Open \in 1 .. Len(logs) /\ f \in Files /\ \A l \in 1 .. Len(logs) : logs[l] \in Files
  BY <1>1, LogFields DEF Open
<1>3. Len(f.recs) \in Nat
  BY <1>2, FileFields
<1> HIDE DEF f
<1>4. lcount \in 0 .. Len(f.recs)
  BY <1>1, <1>3 DEF OpenOK, LogTyped
<1>5. offsets \in Seq(Offsets)
  BY <1>1 DEF LogTyped
<1> QED BY <1>1, <1>2, <1>3, <1>4, <1>5 DEF f

(* What stays as it is when no file changes.                               *)
LEMMA SameFiles ==
  ASSUME LogInv, UNCHANGED <<logs, lcount, appending>>
  PROVE  /\ logs' \in Seq(Files) /\ logs' # << >> /\ lcount' \in Nat
         /\ appending' \in {"idle", "header", "payload"}
         /\ (\A l \in 1 .. Len(logs) : FileOK(logs[l]))'
         /\ OpenOK(logs[Open])'
<1> QED BY DEF LogInv, LogTyped, OpenOK, Open

LEMMA AppendPayloadInv ==
  ASSUME LogInv, AppendPayload
  PROVE  LogInv'
<1> DEFINE f == logs[Open]
           g == LogAfter(f, Payload(Last(f.written).ev), << >>)
<1>1. f \in Files /\ FileOK(f) /\ OpenOK(f) /\ Len(f.recs) \in Nat /\ Open \in 1 .. Len(logs)
  BY OpenFile
<1>2. appending = "header" /\ Len(f.recs) > 0 /\ lcount = Len(f.recs) - 1
      /\ Len(f.written) = f.recs[Len(f.recs)].at + 1
  BY <1>1 DEF AppendPayload, OpenOK
<1>3. /\ g \in Files /\ FileOK(g) /\ Extends(g, f) /\ g.recs = f.recs
      /\ Len(g.written) = StartAt(g, Len(g.recs))
  <2> HIDE DEF f
  <2> QED BY <1>1, <1>2, PayloadIsWritten
<1>4. logs' = [logs EXCEPT ![Open] = g] /\ appending' = "payload"
      /\ UNCHANGED <<lcount, offsets, ranged, whole, archives, nreads>>
  BY DEF AppendPayload, Write
<1> HIDE DEF g, f
<1>5. /\ logs' \in Seq(Files) /\ logs' # << >> /\ Open' = Open /\ logs'[Open'] = g
      /\ \A l \in 1 .. Open : FileOK(logs'[l])
      /\ RangeOK(ranged, logs') /\ WholeOK(whole, logs')
  BY <1>3, <1>4, OpenChanges DEF f, Open
<1>6. LogTyped'
  BY <1>4, <1>5 DEF LogInv, LogTyped
<1>7. CacheOK(offsets, g, lcount)
  <2>1. CacheOK(offsets, f, lcount) /\ offsets \in Seq(Offsets) /\ lcount \in 0 .. Len(f.recs)
    BY OpenFile DEF f
  <2> QED BY <1>1, <1>3, <2>1, CacheStays
<1>8. OpenOK(logs[Open])'
  BY <1>2, <1>3, <1>4, <1>5 DEF OpenOK
<1>9. CacheOK(offsets, logs[Open], lcount)'
  BY <1>4, <1>5, <1>7
<1>10. (\A l \in 1 .. Len(logs) : FileOK(logs[l]))' /\ RangeOK(ranged, logs)' /\ WholeOK(whole, logs)'
  BY <1>4, <1>5 DEF Open
<1> QED BY <1>6, <1>8, <1>9, <1>10 DEF LogInv

LEMMA AppendCountInv ==
  ASSUME LogInv, AppendCount
  PROVE  LogInv'
<1> DEFINE f == logs[Open]
<1>1. f \in Files /\ OpenOK(f) /\ Len(f.recs) \in Nat /\ lcount \in 0 .. Len(f.recs)
      /\ offsets \in Seq(Offsets) /\ CacheOK(offsets, f, lcount)
  BY OpenFile
<1>2. logs' = logs /\ lcount' = lcount + 1 /\ appending = "payload" /\ appending' = "idle"
      /\ UNCHANGED <<offsets, ranged, whole, archives, nreads>> /\ Open' = Open
  BY DEF AppendCount, Open
<1> HIDE DEF f
<1>3. LogTyped'
  BY <1>1, <1>2 DEF LogInv, LogTyped
<1>4. OpenOK(f)'
  BY <1>1, <1>2 DEF OpenOK, f
<1>5. CacheOK(offsets, f, lcount + 1)
  <2>1. Extends(f, f)
    <3>1. f.ondisk \in Nat
      BY <1>1, FileFields
    <3> QED BY <1>1, <3>1 DEF Extends
  <2> QED BY <1>1, <2>1, CacheStays
<1>6. CacheOK(offsets, logs[Open], lcount)'
  BY <1>2, <1>5 DEF f
<1>7. (\A l \in 1 .. Len(logs) : FileOK(logs[l]))' /\ RangeOK(ranged, logs)' /\ WholeOK(whole, logs)'
  BY <1>2 DEF LogInv
<1> QED BY <1>3, <1>4, <1>6, <1>7 DEF LogInv, f

(* More of the open file gets to the disk.                                 *)
LEMMA MoreOnDisk ==
  ASSUME LogInv, NEW m \in logs[Open].ondisk .. Len(logs[Open].written),
         logs' = [logs EXCEPT ![Open] = [logs[Open] EXCEPT !.ondisk = m]],
         UNCHANGED <<lcount, appending>>
  PROVE  /\ logs' \in Seq(Files) /\ logs' # << >> /\ Open' = Open /\ Len(logs') = Len(logs)
         /\ logs'[Open'].written = logs[Open].written
         /\ logs'[Open'].recs = logs[Open].recs /\ logs'[Open'].ondisk = m
         /\ lcount' \in Nat /\ appending' \in {"idle", "header", "payload"}
         /\ (\A l \in 1 .. Len(logs) : FileOK(logs[l]))'
         /\ OpenOK(logs[Open])'
         /\ CacheOK(offsets, logs'[Open'], lcount)
         /\ RangeOK(ranged, logs') /\ WholeOK(whole, logs')
<1> DEFINE f == logs[Open]
           g == [f EXCEPT !.ondisk = m]
<1>1. f \in Files /\ FileOK(f) /\ OpenOK(f) /\ lcount \in 0 .. Len(f.recs)
      /\ offsets \in Seq(Offsets) /\ CacheOK(offsets, f, lcount)
  BY OpenFile
<1>2. g \in Files /\ FileOK(g) /\ Extends(g, f) /\ g.written = f.written /\ g.recs = f.recs
      /\ g.ondisk = m
  <2>1. m \in f.ondisk .. Len(f.written)
    OBVIOUS
  <2> HIDE DEF f
  <2> QED BY <1>1, <2>1, DiskGetsMore
<1>3. logs' = [logs EXCEPT ![Open] = g]
  OBVIOUS
<1> HIDE DEF f, g
<1>4. /\ logs' \in Seq(Files) /\ logs' # << >> /\ Open' = Open /\ logs'[Open'] = g
      /\ \A l \in 1 .. Open : FileOK(logs'[l])
      /\ RangeOK(ranged, logs') /\ WholeOK(whole, logs')
  <2> DEFINE ms == [logs EXCEPT ![Open] = g]
  <2>1. /\ ms \in Seq(Files) /\ ms # << >> /\ Len(ms) = Open /\ ms[Open] = g
        /\ \A l \in 1 .. Open : FileOK(ms[l])
        /\ RangeOK(ranged, ms) /\ WholeOK(whole, ms)
    <3>1. Extends(g, logs[Open])
      BY <1>2 DEF f
    <3> QED BY <1>2, <3>1, OpenChanges
  <2>2. logs' = ms
    BY <1>3
  <2> HIDE DEF ms
  <2>3. Open' = Len(ms)
    BY <2>2 DEF Open
  <2> QED BY <2>1, <2>2, <2>3
<1>5. CacheOK(offsets, g, lcount)
  <2>1. lcount \in Nat
    BY DEF LogInv, LogTyped
  <2> QED BY <1>1, <1>2, <2>1, CacheStays
<1>6. \A k : StartAt(g, k) = StartAt(f, k)
  BY <1>2 DEF StartAt
<1>7. OpenOK(logs[Open])'
  BY <1>1, <1>2, <1>4, <1>6 DEF OpenOK
<1>8. (\A l \in 1 .. Len(logs) : FileOK(logs[l]))' /\ Len(logs') = Len(logs)
  BY <1>4 DEF Open
<1>9. lcount' \in Nat /\ appending' \in {"idle", "header", "payload"}
  BY DEF LogInv, LogTyped
<1> QED BY <1>2, <1>4, <1>5, <1>7, <1>8, <1>9 DEF f

LEMMA SpillInv ==
  ASSUME LogInv, Spill
  PROVE  LogInv'
<1>1. PICK m \in logs[Open].ondisk + 1 .. Len(logs[Open].written) :
        logs' = [logs EXCEPT ![Open].ondisk = m]
  BY DEF Spill
<1>2. UNCHANGED <<lcount, offsets, appending, ranged, whole, archives, nreads>>
  BY DEF Spill
<1>3. logs[Open].ondisk \in Nat /\ Len(logs[Open].written) \in Nat
  BY OpenFile, FileFields
<1>4. m \in logs[Open].ondisk .. Len(logs[Open].written)
  BY <1>3
<1>5. logs' = [logs EXCEPT ![Open] = [logs[Open] EXCEPT !.ondisk = m]]
  BY <1>1
<1>6. /\ logs' \in Seq(Files) /\ logs' # << >>
      /\ (\A l \in 1 .. Len(logs) : FileOK(logs[l]))' /\ OpenOK(logs[Open])'
      /\ CacheOK(offsets, logs'[Open'], lcount)
      /\ RangeOK(ranged, logs') /\ WholeOK(whole, logs')
  BY <1>2, <1>4, <1>5, MoreOnDisk
<1>7. LogTyped'
  BY <1>2, <1>6 DEF LogInv, LogTyped
<1>8. CacheOK(offsets, logs[Open], lcount)' /\ RangeOK(ranged, logs)' /\ WholeOK(whole, logs)'
  BY <1>2, <1>6
<1> QED BY <1>6, <1>7, <1>8 DEF LogInv

LEMMA RangeStartInv ==
  ASSUME LogInv, NEW start \in 0 .. Len(PayloadSizes), NEW upto \in 1 .. Len(PayloadSizes),
         RangeStart(start, upto)
  PROVE  LogInv'
<1> DEFINE end == Min({upto, lcount})
           f == Flushed(logs[Open])
           s == SeekTo(SubSeq(f.written, 1, f.ondisk), offsets, start)
<1>1. start \in Nat /\ upto \in Nat /\ lcount \in Nat /\ upto \in Int /\ lcount \in Int
  BY DiskEventLogAssumption, OpenFile
<1>2. end \in Nat /\ end <= lcount
  BY <1>1, TwoNumbers
<1>3. appending = "idle" /\ UNCHANGED <<lcount, appending, whole, archives>>
  BY DEF RangeStart
<1>4. CASE start >= end
  <2>1. UNCHANGED <<logs, offsets, ranged>>
    BY <1>4 DEF RangeStart
  <2>2. /\ (\A l \in 1 .. Len(logs) : FileOK(logs[l]))' /\ OpenOK(logs[Open])'
    BY <1>3, <2>1, SameFiles
  <2>3. LogTyped'
    BY <1>3, <2>1 DEF LogInv, LogTyped
  <2>4. CacheOK(offsets, logs[Open], lcount)' /\ RangeOK(ranged, logs)' /\ WholeOK(whole, logs)'
    BY <1>3, <2>1 DEF LogInv, Open
  <2> QED BY <2>2, <2>3, <2>4 DEF LogInv
<1>5. CASE start < end
  <2> DEFINE r == [pc |-> "reading", log |-> Open, pos |-> s.off, left |-> end - start,
                   start |-> start, end |-> end, got |-> << >>]
             w == logs[Open].written
  <2>1. logs' = [logs EXCEPT ![Open] = f] /\ offsets' = s.cache /\ ranged' = r
    <3>1. ~(start >= end)
      BY <1>1, <1>2, <1>5
    <3> HIDE DEF end
    <3> QED BY <3>1 DEF RangeStart, end
  <2>2. /\ logs[Open] \in Files /\ FileOK(logs[Open]) /\ OpenOK(logs[Open])
        /\ Open \in Nat /\ offsets \in Seq(Offsets) /\ Open \in 1 .. Len(logs)
    BY OpenFile, LogFields DEF LogInv
  <2>3. Len(w) \in logs[Open].ondisk .. Len(w) /\ Len(w) \in Nat
    <3>1. logs[Open].ondisk \in Nat /\ Len(w) \in Nat /\ logs[Open].ondisk <= Len(w)
      BY <2>2, FileFields DEF FileOK
    <3> QED BY <3>1
  <2>4. f = [logs[Open] EXCEPT !.ondisk = Len(w)]
    BY DEF Flushed
  <2>5. /\ logs' \in Seq(Files) /\ logs' # << >> /\ Open' = Open
        /\ (\A l \in 1 .. Len(logs) : FileOK(logs[l]))' /\ OpenOK(logs[Open])'
        /\ CacheOK(offsets, logs'[Open'], lcount)
        /\ WholeOK(whole, logs')
    BY <1>3, <2>1, <2>3, <2>4, MoreOnDisk
  <2>6. /\ f \in Files /\ FileOK(f) /\ f.written = w /\ f.recs = logs[Open].recs
        /\ f.ondisk = Len(w)
    BY <2>2, FlushGetsAll
  <2>7. logs'[Open'] = f
    <3> HIDE DEF f
    <3> QED BY <2>1, <2>2, <2>5 DEF LogInv, LogTyped
  <2>8. lcount = Len(f.recs) /\ Len(w) = StartAt(f, Len(f.recs))
    BY <1>3, <2>2, <2>6 DEF OpenOK, StartAt
  <2> HIDE DEF w
  <2>9. s.off = StartAt(f, start) /\ s.cache \in Seq(Offsets) /\ CacheOK(s.cache, f, lcount)
    <3>1. CacheOK(offsets, f, Len(f.recs)) /\ start < Len(f.recs)
      BY <1>1, <1>2, <1>5, <2>5, <2>7, <2>8
    <3>2. s = SeekTo(SubSeq(f.written, 1, Len(f.written)), offsets, start)
      BY <2>6
    <3> HIDE DEF s, f
    <3> QED BY <1>1, <2>2, <2>6, <2>8, <3>1, <3>2, SeekToIs
  <2> HIDE DEF s, f, end
  <2>10. start \in 0 .. Len(f.recs) /\ end \in 0 .. Len(f.recs) /\ Len(f.recs) \in 0 .. Len(f.recs)
         /\ end - start \in Nat /\ end - (end - start) = start
    BY <1>1, <1>2, <1>5, <2>8
  <2>11. s.off \in Nat
    BY <2>6, <2>9, <2>10, FileFields
  <2>12. r \in RangeReads
    <3>1. << >> \in Seq(Events)
      OBVIOUS
    <3> QED BY <1>1, <1>2, <2>2, <2>10, <2>11, <3>1 DEF RangeReads
  <2>13. RangeOK(r, logs')
    <3>1. r.log = Open /\ r.end = end /\ r.left = end - start /\ r.start = start /\ r.pos = s.off
          /\ r.got = << >> /\ r.pc = "reading"
      OBVIOUS
    <3> HIDE DEF r
    <3>2. r.log \in 1 .. Len(logs') /\ logs'[r.log] = f
      BY <2>2, <2>5, <2>7, <3>1 DEF Open
    <3>3. StartAt(f, end) <= f.ondisk
      <4>1. StartAt(f, end) <= StartAt(f, Len(f.recs))
        BY <2>6, <2>10, StartsGrow
      <4> QED BY <2>6, <2>8, <4>1
    <3>4. Len(r.got) = 0 /\ start - start = 0 /\ start <= end /\ end <= Len(f.recs)
      BY <1>1, <1>2, <1>5, <2>8, <3>1
    <3>5. \A i \in 1 .. start - start : FALSE
      BY <1>1
    <3> QED BY <1>1, <2>9, <2>10, <3>1, <3>2, <3>3, <3>4, <3>5 DEF RangeOK
  <2>14. LogTyped'
    BY <1>3, <2>1, <2>5, <2>9, <2>12 DEF LogInv, LogTyped
  <2>15. CacheOK(offsets, logs[Open], lcount)' /\ RangeOK(ranged, logs)' /\ WholeOK(whole, logs)'
    BY <1>3, <2>1, <2>5, <2>7, <2>9, <2>13
  <2> QED BY <2>5, <2>14, <2>15 DEF LogInv
<1> QED BY <1>1, <1>2, <1>4, <1>5

(* A read that is where a record begins, of what is on the disk.           *)
LEMMA DiskIs ==
  ASSUME LogInv, NEW l \in 1 .. Len(logs)
  PROVE  LET f == logs[l]
         IN  /\ f \in Files /\ FileOK(f) /\ f.ondisk \in 0 .. Len(f.written) /\ f.ondisk \in Nat
             /\ Len(f.recs) \in Nat /\ OnDisk(l) = SubSeq(f.written, 1, f.ondisk)
<1> DEFINE f == logs[l]
<1>1. f \in Files /\ FileOK(f)
  BY OpenFile
<1>2. f.ondisk \in Nat /\ Len(f.written) \in Nat /\ Len(f.recs) \in Nat
  BY <1>1, FileFields
<1>3. f.ondisk <= Len(f.written)
  BY <1>1 DEF FileOK
<1>4. f.ondisk \in 0 .. Len(f.written)
  <2> HIDE DEF f
  <2> QED BY <1>2, <1>3
<1> QED BY <1>1, <1>2, <1>4 DEF OnDisk

(* A range read finds the next record it wants.                            *)
LEMMA RangeFindsNext ==
  ASSUME LogInv, ranged.pc = "reading", ranged.left > 0
  PROVE  LET f == logs[ranged.log]
             k == ranged.end - ranged.left
         IN  /\ k \in 0 .. Len(f.recs) - 1 /\ ranged.pos = StartAt(f, k)
             /\ RecordEnd(OnDisk(ranged.log), ranged.pos) = StartAt(f, k + 1)
             /\ StartAt(f, k + 1) \in Nat \ {0}
             /\ OnDisk(ranged.log)[ranged.pos + 1].ev = f.recs[k + 1].ev
<1> DEFINE f == logs[ranged.log]
           k == ranged.end - ranged.left
           m == f.ondisk
<1>1. RangeOK(ranged, logs) /\ ranged \in RangeReads
  BY DEF LogInv, LogTyped
<1>2. ranged.end \in Nat /\ ranged.left \in Nat /\ ranged.start \in Nat
  BY <1>1 DEF RangeReads
<1>3. ranged.log \in 1 .. Len(logs)
  BY <1>1 DEF RangeOK
<1>4. f \in Files /\ FileOK(f) /\ m \in 0 .. Len(f.written) /\ m \in Nat /\ Len(f.recs) \in Nat
      /\ OnDisk(ranged.log) = SubSeq(f.written, 1, m)
  BY <1>3, DiskIs
<1>5. ranged.start <= k /\ k <= ranged.end /\ ranged.end <= Len(f.recs)
      /\ ranged.pos = StartAt(f, k) /\ StartAt(f, ranged.end) <= m
  BY <1>1 DEF RangeOK
<1> HIDE DEF f, m
<1>6. /\ k \in 0 .. Len(f.recs) - 1 /\ k + 1 \in 0 .. ranged.end /\ k + 1 \in 1 .. Len(f.recs)
      /\ ranged.end \in 0 .. Len(f.recs) /\ k \in 0 .. k + 1 /\ k + 1 \in 0 .. Len(f.recs)
      /\ k \in 0 .. Len(f.recs) /\ k + 1 - 1 = k
  BY <1>2, <1>4, <1>5
<1> HIDE DEF k
<1>7. StartAt(f, k + 1) <= m /\ StartAt(f, k) < StartAt(f, k + 1) /\ StartAt(f, k) \in Nat
      /\ StartAt(f, k + 1) \in Nat
  <2>1. StartAt(f, k + 1) <= StartAt(f, ranged.end)
    BY <1>4, <1>6, StartsGrow
  <2>2. StartAt(f, k) \in Nat /\ StartAt(f, k + 1) \in Nat /\ StartAt(f, ranged.end) \in Nat
    BY <1>4, <1>6, FileFields
  <2>3. f.recs[k + 1].at = StartAt(f, k)
    BY <1>4, <1>6, NextAt
  <2>4. StartAt(f, k + 1) > f.recs[k + 1].at
    BY <1>4, <1>6, FileFields
  <2> QED BY <1>4, <1>5, <2>1, <2>2, <2>3, <2>4
<1>8. StartAt(f, k) < m
  BY <1>4, <1>7
<1>9. /\ OnDisk(ranged.log)[StartAt(f, k) + 1].ev = f.recs[k + 1].ev
      /\ RecordEnd(OnDisk(ranged.log), StartAt(f, k)) = StartAt(f, k + 1)
  BY <1>4, <1>6, <1>7, <1>8, NextIsThere
<1>10. StartAt(f, k + 1) \in Nat \ {0}
  BY <1>7
<1> QED BY <1>5, <1>6, <1>9, <1>10 DEF f, k

LEMMA RangeNextInv ==
  ASSUME LogInv, RangeNext
  PROVE  LogInv'
<1> DEFINE f == logs[ranged.log]
           k == ranged.end - ranged.left
           e == f.recs[k + 1].ev
<1>1. RangeOK(ranged, logs) /\ ranged \in RangeReads /\ ranged.pc = "reading" /\ ranged.left > 0
      /\ UNCHANGED <<logs, lcount, offsets, appending, whole, archives, nreads>>
  BY DEF LogInv, LogTyped, RangeNext
<1>2. /\ k \in 0 .. Len(f.recs) - 1 /\ ranged.pos = StartAt(f, k)
      /\ RecordEnd(OnDisk(ranged.log), ranged.pos) = StartAt(f, k + 1)
      /\ StartAt(f, k + 1) \in Nat \ {0}
      /\ OnDisk(ranged.log)[ranged.pos + 1].ev = e
  BY <1>1, RangeFindsNext
<1>3. ranged' = [ranged EXCEPT !.pos = StartAt(f, k + 1), !.left = ranged.left - 1,
                               !.got = Append(ranged.got, e)]
  <2>1. RecordEnd(OnDisk(ranged.log), ranged.pos) # 0
    BY <1>2
  <2> HIDE DEF f, k, e
  <2> QED BY <1>2, <2>1 DEF RangeNext
<1>4. ranged.end \in Nat /\ ranged.left \in Nat \ {0} /\ ranged.start \in Nat
      /\ ranged.got \in Seq(Events)
  BY <1>1 DEF RangeReads
<1>5. ranged.log \in 1 .. Len(logs)
  BY <1>1 DEF RangeOK
<1>6. f \in Files /\ Len(f.recs) \in Nat
  BY <1>5, DiskIs
<1>7. e \in Events
  <2>1. k + 1 \in 1 .. Len(f.recs)
    BY <1>2, <1>6
  <2> QED BY <1>6, <2>1, FileFields
<1>8. /\ ranged.start <= k /\ k <= ranged.end /\ ranged.end <= Len(f.recs)
      /\ StartAt(f, ranged.end) <= f.ondisk
      /\ Len(ranged.got) = k - ranged.start
      /\ \A i \in 1 .. k - ranged.start : ranged.got[i] = f.recs[ranged.start + i].ev
  BY <1>1 DEF RangeOK
<1> DEFINE r == [ranged EXCEPT !.pos = StartAt(f, k + 1), !.left = ranged.left - 1,
                               !.got = Append(ranged.got, e)]
<1>9. /\ r.pc = "reading" /\ r.log = ranged.log /\ r.pos = StartAt(f, k + 1)
      /\ r.left = ranged.left - 1 /\ r.start = ranged.start /\ r.end = ranged.end
      /\ r.got = Append(ranged.got, e)
  <2> HIDE DEF f, k, e
  <2> QED BY <1>1 DEF RangeReads
<1>10. r \in RangeReads
  <2>1. ranged.left - 1 \in Nat /\ Append(ranged.got, e) \in Seq(Events) /\ StartAt(f, k + 1) \in Nat
    BY <1>2, <1>4, <1>7
  <2> HIDE DEF f, k, e
  <2> QED BY <1>1, <2>1 DEF RangeReads
<1> HIDE DEF r
<1>11. r.end - r.left = k + 1 /\ k \in Nat /\ k + 1 <= ranged.end
  <2>1. r.end = ranged.end /\ r.left = ranged.left - 1 /\ ranged.start <= k
    BY <1>8, <1>9
  <2>2. ranged.end - (ranged.left - 1) = k + 1 /\ k + 1 <= ranged.end /\ k \in Int
    BY <1>4
  <2> HIDE DEF k
  <2> QED BY <1>4, <2>1, <2>2
<1>12. Len(r.got) = k + 1 - r.start
       /\ \A i \in 1 .. k + 1 - r.start : r.got[i] = f.recs[r.start + i].ev
  <2> DEFINE n == k - ranged.start
  <2>1. n \in Nat /\ Len(ranged.got) = n /\ ranged.start + (n + 1) = k + 1 /\ k + 1 - ranged.start = n + 1
    BY <1>4, <1>8, <1>11
  <2> HIDE DEF n, e
  <2>2. Len(r.got) = n + 1 /\ r.got[n + 1] = e
        /\ \A i \in 1 .. n : r.got[i] = ranged.got[i]
    <3> DEFINE h == ranged.got
    <3>1. h \in Seq(Events) /\ Len(h) = n /\ r.got = Append(h, e)
      BY <1>4, <1>9, <2>1
    <3> HIDE DEF h
    <3>2. Len(r.got) = n + 1 /\ r.got[n + 1] = e /\ \A i \in 1 .. n : r.got[i] = h[i]
      BY <1>7, <2>1, <3>1
    <3> QED BY <3>2 DEF h
  <2>3. \A i \in 1 .. n : r.got[i] = f.recs[r.start + i].ev
    BY <1>8, <1>9, <2>2 DEF n
  <2>4. r.got[n + 1] = f.recs[r.start + (n + 1)].ev
    BY <1>9, <2>1, <2>2 DEF e
  <2>5. \A i \in 1 .. n + 1 : i \in 1 .. n \/ i = n + 1
    BY <2>1
  <2>6. \A i \in 1 .. n + 1 : r.got[i] = f.recs[r.start + i].ev
    BY <2>3, <2>4, <2>5
  <2> QED BY <1>9, <2>1, <2>2, <2>6
<1> HIDE DEF f, e
<1>13. RangeOK(r, logs)
  <2>1. r.start <= k + 1
    BY <1>4, <1>8, <1>9, <1>11
  <2> HIDE DEF k
  <2>2. logs[r.log] = f /\ r.pc # "done" /\ r.log \in 1 .. Len(logs)
    BY <1>5, <1>9 DEF f
  <2>3. r.start <= r.end - r.left /\ r.end - r.left <= r.end /\ r.end <= Len(f.recs)
    BY <1>8, <1>9, <1>11, <2>1
  <2>4. r.pos = StartAt(f, r.end - r.left) /\ StartAt(f, r.end) <= f.ondisk
    BY <1>8, <1>9, <1>11
  <2>5. Len(r.got) = r.end - r.left - r.start
        /\ \A i \in 1 .. r.end - r.left - r.start : r.got[i] = f.recs[r.start + i].ev
    <3> DEFINE m == r.end - r.left - r.start
    <3>1. m = k + 1 - r.start
      <4>1. r.end \in Nat /\ r.left \in Int /\ r.start \in Nat
        BY <1>4, <1>9
      <4> QED BY <1>11, <4>1
    <3> HIDE DEF m
    <3>2. Len(r.got) = m /\ \A i \in 1 .. m : r.got[i] = f.recs[r.start + i].ev
      BY <1>12, <3>1
    <3> QED BY <3>2 DEF m
  <2> QED BY <2>2, <2>3, <2>4, <2>5 DEF RangeOK
<1>14. /\ (\A l \in 1 .. Len(logs) : FileOK(logs[l]))' /\ OpenOK(logs[Open])'
  BY <1>1, SameFiles
<1>15. ranged' = r
  BY <1>3 DEF r, f, e
<1>16. LogTyped'
  BY <1>1, <1>10, <1>15 DEF LogInv, LogTyped
<1>17. CacheOK(offsets, logs[Open], lcount)' /\ RangeOK(ranged, logs)' /\ WholeOK(whole, logs)'
  BY <1>1, <1>13, <1>15 DEF LogInv, Open
<1> QED BY <1>14, <1>16, <1>17 DEF LogInv

LEMMA RangeEndInv ==
  ASSUME LogInv, RangeEnd
  PROVE  LogInv'
<1> DEFINE f == logs[Open]
<1>1. RangeOK(ranged, logs) /\ ranged \in RangeReads /\ ranged.pc = "reading" /\ ranged.left = 0
      /\ UNCHANGED <<logs, lcount, appending, whole, archives, nreads>>
      /\ ranged' = [ranged EXCEPT !.pc = "done"]
      /\ offsets' = IF ranged.log = Open /\ ranged.end < lcount
                    THEN CacheOffset(offsets, ranged.end, ranged.pos) ELSE offsets
  BY DEF LogInv, LogTyped, RangeEnd
<1>2. /\ f \in Files /\ FileOK(f) /\ Len(f.recs) \in Nat /\ lcount \in 0 .. Len(f.recs)
      /\ offsets \in Seq(Offsets) /\ CacheOK(offsets, f, lcount)
  BY OpenFile
<1>3. ranged.end \in Nat /\ ranged.pos \in Nat
  BY <1>1 DEF RangeReads
<1>4. offsets' \in Seq(Offsets) /\ CacheOK(offsets', f, lcount)
  <2>1. CASE ranged.log = Open /\ ranged.end < lcount
    <3>1. ranged.pos = StartAt(f, ranged.end)
      <4>1. ranged.end - ranged.left = ranged.end
        BY <1>1, <1>3
      <4> QED BY <1>1, <2>1, <4>1 DEF RangeOK
    <3> HIDE DEF f
    <3>2. ranged.end + 1 \in 1 .. Len(f.recs) /\ ranged.end + 1 - 1 = ranged.end /\ lcount \in Nat
      BY <1>2, <1>3, <2>1
    <3>3. f.recs[ranged.end + 1].at = ranged.pos
      BY <1>2, <1>3, <3>1, <3>2 DEF FileOK
    <3> QED BY <1>1, <1>2, <1>3, <2>1, <3>2, <3>3, CacheStaysOK
  <2>2. CASE ~(ranged.log = Open /\ ranged.end < lcount)
    BY <1>1, <1>2, <2>2
  <2> QED BY <2>1, <2>2
<1> DEFINE r == [ranged EXCEPT !.pc = "done"]
<1>5. /\ r.pc = "done" /\ r.log = ranged.log /\ r.pos = ranged.pos
      /\ r.left = ranged.left /\ r.start = ranged.start /\ r.end = ranged.end
      /\ r.got = ranged.got /\ r \in RangeReads
  BY <1>1 DEF RangeReads
<1> HIDE DEF r
<1>6. RangeOK(r, logs)
  BY <1>1, <1>5 DEF RangeOK
<1>7. /\ (\A l \in 1 .. Len(logs) : FileOK(logs[l]))' /\ OpenOK(logs[Open])'
  BY <1>1, SameFiles
<1>8. ranged' = r
  BY <1>1 DEF r
<1>9. LogTyped'
  BY <1>1, <1>4, <1>5, <1>8 DEF LogInv, LogTyped
<1>10. CacheOK(offsets, logs[Open], lcount)' /\ RangeOK(ranged, logs)' /\ WholeOK(whole, logs)'
  BY <1>1, <1>4, <1>6, <1>8 DEF LogInv, Open
<1> QED BY <1>7, <1>9, <1>10 DEF LogInv

LEMMA NoneOK ==
  ASSUME NEW ls
  PROVE  /\ NoRange \in RangeReads /\ NoWhole \in WholeReads
         /\ RangeOK(NoRange, ls) /\ WholeOK(NoWhole, ls)
<1>1. << >> \in Seq(Events)
  OBVIOUS
<1> QED BY <1>1 DEF NoRange, NoWhole, RangeReads, WholeReads, RangeOK, WholeOK

(* A step that changes only the reads.                                     *)
LEMMA OnlyReads ==
  ASSUME LogInv, UNCHANGED <<logs, lcount, offsets, appending>>,
         ranged' \in RangeReads, whole' \in WholeReads, RangeOK(ranged', logs), WholeOK(whole', logs)
  PROVE  LogInv'
<1>1. /\ (\A l \in 1 .. Len(logs) : FileOK(logs[l]))' /\ OpenOK(logs[Open])'
  BY SameFiles
<1>2. LogTyped'
  BY DEF LogInv, LogTyped
<1>3. CacheOK(offsets, logs[Open], lcount)' /\ RangeOK(ranged, logs)' /\ WholeOK(whole, logs)'
  BY DEF LogInv, Open
<1> QED BY <1>1, <1>2, <1>3 DEF LogInv

LEMMA RangeForgottenInv ==
  ASSUME LogInv, RangeForgotten
  PROVE  LogInv'
<1>1. UNCHANGED <<logs, lcount, offsets, appending, whole>> /\ ranged' = NoRange
  BY DEF RangeForgotten
<1>2. whole' \in WholeReads /\ WholeOK(whole', logs)
  BY <1>1 DEF LogInv, LogTyped
<1> QED BY <1>1, <1>2, NoneOK, OnlyReads

LEMMA WholeStartInv ==
  ASSUME LogInv, WholeStart
  PROVE  LogInv'
<1>1. /\ UNCHANGED <<logs, lcount, offsets, appending, ranged>>
      /\ whole' = [whole EXCEPT !.pc = "flush", !.self = Open] /\ whole.pc = "idle"
      /\ whole \in WholeReads /\ WholeOK(whole, logs)
      /\ ranged' \in RangeReads /\ RangeOK(ranged', logs)
  BY DEF WholeStart, LogInv, LogTyped
<1>2. Open \in 1 .. Len(logs) /\ Open \in Nat
  BY OpenFile
<1> DEFINE w == [whole EXCEPT !.pc = "flush", !.self = Open]
<1>3. /\ w \in WholeReads /\ w.pc = "flush" /\ w.self = Open /\ w.log = whole.log
      /\ w.pos = whole.pos /\ w.got = whole.got
  BY <1>1, <1>2 DEF WholeReads
<1> HIDE DEF w
<1>4. WholeOK(w, logs)
  BY <1>1, <1>2, <1>3 DEF WholeOK
<1>5. whole' = w
  BY <1>1 DEF w
<1> QED BY <1>1, <1>3, <1>4, <1>5, OnlyReads

LEMMA WholeFlushInv ==
  ASSUME LogInv, WholeFlush
  PROVE  LogInv'
<1>1. CASE whole.self # Open
  <2>1. UNCHANGED <<logs, lcount, offsets, appending, ranged>> /\ whole' = NoWhole
    BY <1>1 DEF WholeFlush
  <2>2. ranged' \in RangeReads /\ RangeOK(ranged', logs)
    BY <2>1 DEF LogInv, LogTyped
  <2> QED BY <2>1, <2>2, NoneOK, OnlyReads
<1>2. CASE whole.self = Open
  <2> DEFINE n == Len(logs[Open].written)
             w == [whole EXCEPT !.pc = "open"]
  <2>1. logs' = [logs EXCEPT ![Open] = Flushed(logs[Open])] /\ whole' = w /\ whole.pc = "flush"
        /\ UNCHANGED <<lcount, offsets, appending, ranged, archives, nreads>>
    BY <1>2 DEF WholeFlush
  <2>2. Flushed(logs[Open]) = [logs[Open] EXCEPT !.ondisk = n]
    BY DEF Flushed
  <2>3. n \in logs[Open].ondisk .. n
    <3>1. logs[Open] \in Files /\ FileOK(logs[Open])
      BY OpenFile
    <3>2. logs[Open].ondisk \in Nat /\ n \in Nat /\ logs[Open].ondisk <= n
      BY <3>1, FileFields DEF FileOK
    <3> QED BY <3>2
  <2>4. logs' = [logs EXCEPT ![Open] = [logs[Open] EXCEPT !.ondisk = n]]
    BY <2>1, <2>2
  <2> HIDE DEF w
  <2>5. /\ logs' \in Seq(Files) /\ logs' # << >> /\ Len(logs') = Len(logs)
        /\ (\A l \in 1 .. Len(logs) : FileOK(logs[l]))' /\ OpenOK(logs[Open])'
        /\ CacheOK(offsets, logs'[Open'], lcount)
        /\ RangeOK(ranged, logs') /\ WholeOK(whole, logs')
    BY <2>1, <2>3, <2>4, MoreOnDisk
  <2>6. /\ w \in WholeReads /\ w.pc = "open" /\ w.self = whole.self /\ w.log = whole.log
        /\ w.pos = whole.pos /\ w.got = whole.got
    BY DEF LogInv, LogTyped, WholeReads, w
  <2>7. WholeOK(w, logs')
    BY <2>1, <2>5, <2>6 DEF WholeOK
  <2>8. LogTyped'
    BY <2>1, <2>5, <2>6 DEF LogInv, LogTyped
  <2>9. CacheOK(offsets, logs[Open], lcount)' /\ RangeOK(ranged, logs)' /\ WholeOK(whole, logs)'
    BY <2>1, <2>5, <2>7
  <2> QED BY <2>5, <2>8, <2>9 DEF LogInv
<1> QED BY <1>1, <1>2

(* The events of a file, and that they are events.                         *)
LEMMA RecordedIs ==
  ASSUME LogInv, NEW l \in 1 .. Len(logs)
  PROVE  /\ Recorded(l) \in Seq(Events) /\ Len(Recorded(l)) = Len(logs[l].recs)
         /\ \A i \in 1 .. Len(logs[l].recs) : Recorded(l)[i] = logs[l].recs[i].ev
<1> DEFINE s == logs[l].recs
<1>1. s \in Seq(Records) /\ Len(s) \in Nat /\ \A i \in 1 .. Len(s) : s[i].ev \in Events
  BY DiskIs, FileFields
<1>2. Recorded(l) = [i \in 1 .. Len(s) |-> s[i].ev]
  <2>1. DOMAIN s = 1 .. Len(s)
    BY <1>1
  <2> QED BY <2>1 DEF Recorded
<1> HIDE DEF s
<1> QED BY <1>1, <1>2 DEF s

LEMMA WholeOpenInv ==
  ASSUME LogInv, WholeOpen
  PROVE  LogInv'
<1> DEFINE left == IF whole.self = Open THEN lcount ELSE Len(Recorded(whole.self))
           w == [whole EXCEPT !.pc = "reading", !.log = Open, !.left = left]
<1>1. /\ UNCHANGED <<logs, lcount, offsets, appending, ranged>>
      /\ whole' = w /\ whole.pc = "open"
      /\ whole \in WholeReads /\ WholeOK(whole, logs) /\ lcount \in Nat
      /\ ranged' \in RangeReads /\ RangeOK(ranged', logs)
  BY DEF WholeOpen, LogInv, LogTyped
<1>2. Open \in 1 .. Len(logs) /\ Open \in Nat \ {0}
  BY OpenFile
<1>3. left \in Nat
  <2>1. whole.self \in 1 .. Len(logs)
    BY <1>1 DEF WholeOK
  <2>2. Len(Recorded(whole.self)) \in Nat
    <3>1. Recorded(whole.self) \in Seq(Events)
      BY <2>1, RecordedIs
    <3> QED BY <3>1
  <2> QED BY <1>1, <2>2
<1> HIDE DEF left
<1>4. /\ w \in WholeReads /\ w.pc = "reading" /\ w.log = Open
      /\ w.pos = whole.pos /\ w.got = whole.got
  BY <1>1, <1>2, <1>3 DEF WholeReads
<1>5. w.pos = 0 /\ w.got = << >>
  BY <1>1, <1>4 DEF WholeOK
<1> HIDE DEF w
<1>6. logs[Open].ondisk \in Nat /\ Len(logs[Open].recs) \in Nat /\ StartAt(logs[Open], 0) = 0
  BY <1>2, DiskIs DEF StartAt
<1>7. WholeOK(w, logs)
  <2>1. Len(w.got) = 0
    BY <1>5
  <2> QED BY <1>2, <1>4, <1>5, <1>6, <2>1 DEF WholeOK
<1> QED BY <1>1, <1>4, <1>7, OnlyReads

LEMMA WholeNextInv ==
  ASSUME LogInv, WholeNext
  PROVE  LogInv'
<1> DEFINE f == logs[whole.log]
           k == Len(whole.got)
           g == OnDisk(whole.log)
           to == RecordEnd(g, whole.pos)
<1>1. /\ UNCHANGED <<logs, lcount, offsets, appending, ranged>> /\ whole.pc = "reading"
      /\ whole \in WholeReads /\ WholeOK(whole, logs)
      /\ ranged' \in RangeReads /\ RangeOK(ranged', logs)
  BY DEF WholeNext, LogInv, LogTyped
<1>2. CASE whole.left = 0 \/ to = 0
  <2>1. whole' = NoWhole
    BY <1>2 DEF WholeNext
  <2> QED BY <1>1, <2>1, NoneOK, OnlyReads
<1>3. CASE ~(whole.left = 0 \/ to = 0)
  <2>1. whole.log \in 1 .. Len(logs) /\ k <= Len(f.recs) /\ whole.pos = StartAt(f, k)
        /\ whole.log # 0 /\ \A i \in 1 .. k : whole.got[i] = f.recs[i].ev
    BY <1>1 DEF WholeOK
  <2>2. /\ f \in Files /\ FileOK(f) /\ f.ondisk \in 0 .. Len(f.written)
        /\ Len(f.recs) \in Nat /\ g = SubSeq(f.written, 1, f.ondisk)
    BY <2>1, DiskIs
  <2>3. whole.got \in Seq(Events) /\ whole.left \in Nat /\ whole.left # 0
    BY <1>1, <1>3 DEF WholeReads
  <2>4. k \in Nat /\ k \in 0 .. Len(f.recs)
    BY <2>1, <2>2, <2>3
  <2> DEFINE e == f.recs[k + 1].ev
             w == [whole EXCEPT !.pos = to, !.left = whole.left - 1,
                                !.got = Append(whole.got, g[whole.pos + 1].ev)]
  <2>5. whole' = w
    BY <1>3 DEF WholeNext
  <2> HIDE DEF f, k
  <2>6. k < Len(f.recs) /\ g[whole.pos + 1].ev = e /\ to = StartAt(f, k + 1)
        /\ StartAt(f, k + 1) <= f.ondisk
    BY <1>3, <2>1, <2>2, <2>4, ReadIsNext
  <2>7. k + 1 \in 1 .. Len(f.recs) /\ k + 1 \in 0 .. Len(f.recs)
    BY <2>2, <2>4, <2>6
  <2>8. e \in Events /\ to \in Nat /\ whole.left - 1 \in Nat
    BY <2>2, <2>3, <2>6, <2>7, FileFields
  <2> HIDE DEF e, to, g
  <2>9. Append(whole.got, e) \in Seq(Events)
    BY <2>3, <2>8
  <2>10. /\ w \in WholeReads /\ w.pc = "reading" /\ w.log = whole.log
         /\ w.pos = to /\ w.got = Append(whole.got, e)
    BY <1>1, <2>6, <2>8, <2>9 DEF WholeReads
  <2> HIDE DEF w
  <2>11. Len(w.got) = k + 1 /\ \A i \in 1 .. k + 1 : w.got[i] = f.recs[i].ev
    <3> DEFINE h == whole.got
    <3>1. h \in Seq(Events) /\ Len(h) = k /\ w.got = Append(h, e)
          /\ \A i \in 1 .. k : h[i] = f.recs[i].ev
      BY <2>1, <2>3, <2>10 DEF k
    <3> HIDE DEF h
    <3>2. Len(w.got) = k + 1 /\ w.got[k + 1] = e /\ \A i \in 1 .. k : w.got[i] = h[i]
      BY <2>4, <2>8, <3>1
    <3>3. \A i \in 1 .. k + 1 : i \in 1 .. k \/ i = k + 1
      BY <2>4
    <3> QED BY <3>1, <3>2, <3>3 DEF e
  <2>12. WholeOK(w, logs)
    <3>1. logs[w.log] = f /\ w.log \in 1 .. Len(logs) /\ w.log # 0
      BY <2>1, <2>10 DEF f
    <3>2. w.pos = StartAt(f, Len(w.got)) /\ w.pos <= f.ondisk /\ Len(w.got) <= Len(f.recs)
      BY <2>6, <2>7, <2>10, <2>11
    <3>3. \A i \in 1 .. Len(w.got) : w.got[i] = f.recs[i].ev
      BY <2>11
    <3> QED BY <2>10, <3>1, <3>2, <3>3 DEF WholeOK
  <2> QED BY <1>1, <2>5, <2>10, <2>12, OnlyReads
<1> QED BY <1>2, <1>3

(* A new file at the path of the old one.                                  *)
LEMMA NewFileOpens ==
  ASSUME NEW ms \in Seq(Files), \A l \in 1 .. Len(ms) : FileOK(ms[l]),
         logs' = Append(ms, NewFile), lcount' = 0, offsets' = << >>, appending' = "idle",
         ranged' \in RangeReads, whole' \in WholeReads, RangeOK(ranged', ms), WholeOK(whole', ms)
  PROVE  LogInv'
<1>1. NewFile \in Files /\ NewFile.recs = << >> /\ NewFile.written = << >> /\ NewFile.ondisk = 0
  BY DEF NewFile, Files
<1> HIDE DEF NewFile
<1>2. FileOK(NewFile) /\ StartAt(NewFile, 0) = 0 /\ Len(NewFile.recs) = 0 /\ Len(NewFile.written) = 0
  BY <1>1 DEF FileOK, StartAt
<1>3. /\ logs' \in Seq(Files) /\ logs' # << >> /\ Len(logs') = Len(ms) + 1
      /\ logs'[Len(ms) + 1] = NewFile /\ \A l \in 1 .. Len(ms) : logs'[l] = ms[l]
  BY <1>1
<1>4. Open' = Len(ms) + 1 /\ Len(ms) \in Nat
  BY <1>3 DEF Open
<1>5. (\A l \in 1 .. Len(logs) : FileOK(logs[l]))'
  <2>1. \A l \in 1 .. Len(ms) + 1 : l \in 1 .. Len(ms) \/ l = Len(ms) + 1
    BY <1>4
  <2>2. \A l \in 1 .. Len(ms) + 1 : FileOK(logs'[l])
    BY <1>2, <1>3, <2>1
  <2> QED BY <1>3, <2>2
<1>6. OpenOK(logs[Open])'
  BY <1>2, <1>3, <1>4 DEF OpenOK
<1>7. RangeOK(ranged', logs') /\ WholeOK(whole', logs')
  <2>1. ASSUME NEW l \in 1 .. Len(ms) PROVE Extends(logs'[l], ms[l])
    <3>1. ms[l] \in Files
      OBVIOUS
    <3>2. Len(ms[l].recs) \in Nat /\ ms[l].ondisk \in Nat
      BY <3>1, FileFields
    <3> QED BY <1>3, <3>2 DEF Extends
  <2>2. Len(ms) <= Len(logs')
    BY <1>3, <1>4
  <2> QED BY <1>3, <2>1, <2>2, RangeStaysOK, WholeStaysOK
<1>8. LogTyped'
  BY <1>3 DEF LogTyped
<1>9. CacheOK(offsets, logs[Open], lcount)'
  BY DEF CacheOK
<1> QED BY <1>5, <1>6, <1>7, <1>8, <1>9 DEF LogInv

LEMMA ReopenInv ==
  ASSUME LogInv, Reopen
  PROVE  LogInv'
<1> DEFINE g == Flushed(logs[Open])
           ms == [logs EXCEPT ![Open] = g]
<1>1. /\ logs' = Append(ms, NewFile) /\ lcount' = 0 /\ offsets' = << >>
      /\ appending' = "idle" /\ ranged' = ranged /\ whole' = whole
  BY DEF Reopen
<1>2. g \in Files /\ FileOK(g) /\ Extends(g, logs[Open])
  BY OpenFile, FlushGetsAll
<1> HIDE DEF g
<1>3. /\ ms \in Seq(Files) /\ Len(ms) = Open /\ \A l \in 1 .. Open : FileOK(ms[l])
      /\ RangeOK(ranged, ms) /\ WholeOK(whole, ms)
  BY <1>2, OpenChanges
<1> HIDE DEF ms
<1>4. ranged \in RangeReads /\ whole \in WholeReads
  BY DEF LogInv, LogTyped
<1> QED BY <1>1, <1>3, <1>4, NewFileOpens

LEMMA LogCrashInv ==
  ASSUME LogInv, LogCrash
  PROVE  LogInv'
<1> DEFINE f == logs[Open]
           g == [f EXCEPT !.written = SubSeq(f.written, 1, f.ondisk)]
           ms == [logs EXCEPT ![Open] = g]
<1>1. /\ logs' = Append(ms, NewFile) /\ lcount' = 0 /\ offsets' = << >>
      /\ appending' = "idle" /\ ranged' = NoRange /\ whole' = NoWhole
  BY DEF LogCrash, OnDisk
<1>2. g \in Files /\ FileOK(g)
  <2>1. f \in Files /\ FileOK(f)
    BY OpenFile
  <2> HIDE DEF f
  <2> QED BY <2>1, CrashCuts
<1> HIDE DEF g
<1>3. Open \in 1 .. Len(logs) /\ logs \in Seq(Files) /\ \A l \in 1 .. Len(logs) : FileOK(logs[l])
  BY OpenFile DEF LogInv, LogTyped
<1>4. ms \in Seq(Files) /\ \A l \in 1 .. Len(ms) : FileOK(ms[l])
  BY <1>2, <1>3
<1> HIDE DEF ms
<1> QED BY <1>1, <1>4, NoneOK, NewFileOpens

LEMMA LogNextInv == LogInv /\ [LogNext]_logvars => LogInv'
<1> SUFFICES ASSUME LogInv, [LogNext]_logvars PROVE LogInv'
  OBVIOUS
<1>1. CASE UNCHANGED logvars
  <2>1. UNCHANGED <<logs, lcount, offsets, appending>> /\ ranged' = ranged /\ whole' = whole
    BY <1>1 DEF logvars
  <2>2. /\ ranged \in RangeReads /\ whole \in WholeReads
        /\ RangeOK(ranged, logs) /\ WholeOK(whole, logs)
    BY DEF LogInv, LogTyped
  <2> QED BY <2>1, <2>2, OnlyReads
<1>2. CASE LogNext
  BY <1>2, AppendHeaderInv, AppendPayloadInv, AppendCountInv, SpillInv, RangeStartInv,
     RangeNextInv, RangeEndInv, RangeForgottenInv, WholeStartInv, WholeFlushInv,
     WholeOpenInv, WholeNextInv, ReopenInv, LogCrashInv DEF LogNext
<1> QED BY <1>1, <1>2

(* Each read has what was appended.                                        *)
LEMMA RangeIsExact == LogInv => RangeExact
<1> SUFFICES ASSUME LogInv, ranged.pc = "done"
             PROVE  ranged.got = SubSeq(Recorded(ranged.log), ranged.start + 1, ranged.end)
  BY DEF RangeExact
<1> DEFINE f == logs[ranged.log]
           s == Recorded(ranged.log)
           part == SubSeq(s, ranged.start + 1, ranged.end)
           n == ranged.end - ranged.start
<1>1. ranged \in RangeReads /\ RangeOK(ranged, logs)
  BY DEF LogInv, LogTyped
<1>2. ranged.end \in Nat /\ ranged.start \in Nat /\ ranged.got \in Seq(Events)
  BY <1>1 DEF RangeReads
<1>3. ranged.log \in 1 .. Len(logs) /\ ranged.left = 0
  BY <1>1 DEF RangeOK
<1>4. ranged.end - ranged.left = ranged.end
  BY <1>2, <1>3
<1>5. /\ ranged.start <= ranged.end /\ ranged.end <= Len(f.recs)
      /\ Len(ranged.got) = n /\ \A i \in 1 .. n : ranged.got[i] = f.recs[ranged.start + i].ev
  BY <1>1, <1>4 DEF RangeOK
<1>6. /\ s \in Seq(Events) /\ Len(s) = Len(f.recs) /\ Len(f.recs) \in Nat
      /\ \A i \in 1 .. Len(f.recs) : s[i] = f.recs[i].ev
  BY <1>3, RecordedIs, DiskIs
<1> HIDE DEF s, f
<1>7. part \in Seq(Events) /\ Len(part) = n /\ \A i \in 1 .. n : part[i] = s[ranged.start + i]
  <2>1. ranged.start + 1 \in Nat \ {0} /\ ranged.end \in Int /\ ranged.end <= Len(s)
        /\ ranged.end - (ranged.start + 1) + 1 = n
    BY <1>2, <1>5, <1>6
  <2>0. n \in Nat /\ \A i \in 1 .. n : ranged.start + 1 + i - 1 = ranged.start + i
    <3>1. n \in Nat
      BY <1>2, <1>5
    <3> HIDE DEF n
    <3> QED BY <1>2, <3>1
  <2>2. /\ part \in Seq(Events)
        /\ Len(part) = IF ranged.start + 1 <= ranged.end
                       THEN ranged.end - (ranged.start + 1) + 1 ELSE 0
        /\ \A i \in 1 .. ranged.end - (ranged.start + 1) + 1 : part[i] = s[ranged.start + 1 + i - 1]
    BY <1>6, <2>1, Part
  <2>3. Len(part) = n
    <3>1. n = 0 \/ ranged.start + 1 <= ranged.end
      BY <1>2, <1>5
    <3>2. n = 0 => ~(ranged.start + 1 <= ranged.end)
      BY <1>2
    <3> HIDE DEF n
    <3> QED BY <2>0, <2>1, <2>2, <3>1, <3>2
  <2> HIDE DEF n
  <2> QED BY <2>0, <2>1, <2>2, <2>3
<1>8. \A i \in 1 .. n : ranged.start + i \in 1 .. Len(f.recs)
  BY <1>2, <1>5, <1>6
<1> HIDE DEF part, n
<1>9. \A i \in 1 .. n : part[i] = ranged.got[i]
  BY <1>5, <1>6, <1>7, <1>8
<1> QED BY <1>2, <1>5, <1>7, <1>9, SeqEqual DEF part, s

LEMMA OffsetsAreExact == LogInv => OffsetsExact
<1> SUFFICES ASSUME LogInv PROVE OffsetsExact
  OBVIOUS
<1>1. offsets \in Seq(Offsets) /\ CacheOK(offsets, logs[Open], lcount)
  BY DEF LogInv, LogTyped
<1> QED BY <1>1 DEF OffsetsExact, CacheOK

LEMMA WholeIsAPrefix == LogInv => WholeIsPrefix
<1> SUFFICES ASSUME LogInv, whole.log # 0
             PROVE  IsPrefix(whole.got, Recorded(whole.log)) /\ whole.pos <= logs[whole.log].ondisk
  BY DEF WholeIsPrefix
<1> DEFINE f == logs[whole.log]
           s == Recorded(whole.log)
           h == whole.got
<1>1. whole \in WholeReads /\ WholeOK(whole, logs)
  BY DEF LogInv, LogTyped
<1>2. /\ whole.log \in 1 .. Len(logs) /\ Len(h) <= Len(f.recs)
      /\ \A i \in 1 .. Len(h) : h[i] = f.recs[i].ev
      /\ whole.pos <= f.ondisk /\ h \in Seq(Events)
  BY <1>1 DEF WholeOK, WholeReads
<1>3. /\ s \in Seq(Events) /\ Len(s) = Len(f.recs) /\ Len(f.recs) \in Nat
      /\ \A i \in 1 .. Len(f.recs) : s[i] = f.recs[i].ev
  BY <1>2, RecordedIs, DiskIs
<1> HIDE DEF s, f, h
<1>4. Len(h) <= Len(s) /\ \A i \in 1 .. Len(h) : h[i] = s[i]
  <2>1. \A i \in 1 .. Len(h) : i \in 1 .. Len(f.recs)
    BY <1>2, <1>3
  <2> QED BY <1>2, <1>3, <2>1
<1>5. IsPrefix(h, s)
  <2>1. SubSeq(s, 1, Len(h)) = h
    <3>1. Len(h) \in Nat /\ Len(h) \in Int
      BY <1>2
    <3>2. /\ SubSeq(s, 1, Len(h)) \in Seq(Events)
          /\ Len(SubSeq(s, 1, Len(h))) = IF 1 <= Len(h) THEN Len(h) - 1 + 1 ELSE 0
          /\ \A i \in 1 .. Len(h) - 1 + 1 : SubSeq(s, 1, Len(h))[i] = s[1 + i - 1]
      BY <1>3, <1>4, <3>1, Part
    <3>3. Len(SubSeq(s, 1, Len(h))) = Len(h)
          /\ \A i \in 1 .. Len(h) : i \in 1 .. Len(h) - 1 + 1 /\ 1 + i - 1 = i
      BY <3>1, <3>2
    <3>4. \A i \in 1 .. Len(h) : SubSeq(s, 1, Len(h))[i] = h[i]
      BY <1>4, <3>2, <3>3
    <3> QED BY <1>2, <3>2, <3>3, <3>4, SeqEqual
  <2> QED BY <1>2, <1>3, <1>4, <2>1 DEF IsPrefix
<1> QED BY <1>2, <1>5 DEF f, s, h

(* Whoever reads the log reads what was appended: a range read has the     *)
(* events of its range, a whole read the first events of one log, and the  *)
(* cached offsets are those of their records, whatever the payloads, the   *)
(* size of the cache and the interleaving of appends, spills, flushes,     *)
(* reads, reopenings and crashes (disk_event_log.py).                      *)
THEOREM LogIsReadExactly == LogSpec => []LogReadExactly
<1>1. LogInit => LogInv
  BY LogInitInv
<1>2. LogInv /\ [LogNext]_logvars => LogInv'
  BY LogNextInv
<1>3. LogInv => LogReadExactly
  BY RangeIsExact, OffsetsAreExact, WholeIsAPrefix DEF LogReadExactly
<1> QED BY <1>1, <1>2, <1>3, PTL DEF LogSpec

=============================================================================
