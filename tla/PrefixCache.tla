----------------------------- MODULE PrefixCache -----------------------------
(***************************************************************************)
(* The KV prefix cache of an LLM runner (engines/mlx/cache.py) and the     *)
(* requests that go through it (ExoBatchGenerator.submit, mlx_generate):   *)
(* look up the entry that shares the longest prefix with the prompt, copy  *)
(* and trim it, prefill the rest here or at a prefill server, save the     *)
(* cache, decode from the last tokens.  A cache is modelled by the tokens  *)
(* it has read.  kind says what layers the model has: key-value layers     *)
(* only ("kv"), which can be cut anywhere; recurrent or rotating ones too  *)
(* ("ssm"), whose state can only be put back to a snapshot; or those of    *)
(* DeepSeek V4 ("v4"), a window with an offset and compressor branches,    *)
(* whose trim (external) cuts the first and leaves the branches.           *)
(* An image token carries the image it stands for, which the token         *)
(* comparison does not see and the media regions record.                   *)
(*                                                                         *)
(* The prefill server (disaggregated/serve.py, runner.py) is a runner with *)
(* a prefix cache of its own.  Ranks of an instance see the same requests  *)
(* and share the memory pressure, so one rank stands for all.              *)
(***************************************************************************)
EXTENDS Integers, Sequences, SequencesExt, FiniteSets, FiniteSetsExt, Selections

CONSTANTS Prompts,       \* the token sequences requests send
          ImageTokens,   \* the tokens that stand for (different) images
          StepSize,      \* prefill_step_size
          MinHit,        \* min_prefix_hit_length
          RemoteMin,     \* REMOTE_PREFILL_MIN_TOKENS
          MaxRequests    \* bound: requests

Tokens == UNION {{p[i] : i \in DOMAIN p} : p \in Prompts}

(* An image is one run of image tokens in a prompt: _find_media_regions    *)
(* takes the i-th run for the i-th image.                                  *)
ASSUME PrefixCacheAssumption ==
  /\ Prompts \subseteq Seq(Tokens) /\ << >> \notin Prompts
  /\ \A p \in Prompts : \A i \in 1 .. Len(p) - 1 :
       {p[i], p[i + 1]} \subseteq ImageTokens => p[i] = p[i + 1]
  /\ StepSize \in Nat \ {0} /\ MinHit \in Nat /\ RemoteMin \in Nat \ {0} /\ MaxRequests \in Nat

VARIABLES kind,     \* "kv", "ssm" or "v4"
          entries,  \* the parallel lists of KVPrefixCache
          srv,      \* those of the prefill server's
          abandoned, \* requests of timed out pickups, still in its work queue
          clock,    \* _access_counter of both
          req,      \* the request in submit
          nrequests \* number of requests so far

pcvars == <<kind, entries, srv, abandoned, clock, req, nrequests>>

(* A cache: what its key-value layers and its other layers have read, and  *)
(* (for the properties only) whether a prefill server had a part in it.    *)
Cache(kv, st, far) == [kv |-> kv, st |-> st, far |-> far]
Fresh == Cache(<< >>, << >>, FALSE)
CacheLength(c) == Len(c.kv)
Idle == [pc |-> "idle", prompt |-> << >>, cache |-> Fresh, hit |-> 0, at |-> 0,
         snaps |-> << >>]

-----------------------------------------------------------------------------
(* Looking up.                                                             *)

(* get_prefix_length compares tokens, and all image tokens are the same.   *)
SameToken(a, b) == a = b \/ {a, b} \subseteq ImageTokens
PrefixLength(p, q) ==
  Max({n \in 0 .. Min({Len(p), Len(q)}) : \A i \in 1 .. n : SameToken(p[i], q[i])})

(* _find_media_regions: the runs of image tokens, with what they show.     *)
Regions(p) ==
  {[start |-> i, hash |-> p[i]] :
     i \in {j \in DOMAIN p : p[j] \in ImageTokens /\ (j = 1 \/ p[j - 1] \notin ImageTokens)}}

\* A seeded fault: regions are compared only when both end before the match does.
InsideOnly(n, cached, query) ==
  LET bad == {r \in cached : r.start < n /\ \E q \in query : q.start = r.start
                                                 /\ q.hash # r.hash /\ r.start + 1 < n}
  IN  IF bad = {} THEN n ELSE Min({r.start : r \in bad})

(* _validate_media_match: cut the match before the first region that shows *)
(* something else; start counts from 1 here.                               *)
ValidateMediaMatch(n, cached, query) ==
  LET bad == {r \in cached : r.start <= n /\ \E q \in query : q.start = r.start
                                                 /\ q.hash # r.hash}
  IN  IF bad = {} THEN n ELSE Min({r.start : r \in bad}) - 1

MatchLength(e, p) == ValidateMediaMatch(PrefixLength(p, e.prompt), e.regions, Regions(p))

(* The loop of get_kv_cache: the first entry that matches all but the last *)
(* token at most, else the first of the longest matches; 0 for none.       *)
FirstAmong(is, lens, exact) == [at |-> Min(is), len |-> lens[Min(is)], exact |-> exact]
ExactOnes(lens, n) == {i \in DOMAIN lens : lens[i] >= n - 1}
LongestOnes(lens) == {i \in DOMAIN lens : lens[i] > 0 /\ \A j \in DOMAIN lens : lens[j] <= lens[i]}
BestOf(lens, exact, longest) ==
  CASE exact # {} -> FirstAmong(exact, lens, TRUE)
    [] exact = {} /\ longest # {} -> FirstAmong(longest, lens, FALSE)
    [] OTHER -> [at |-> 0, len |-> 0, exact |-> FALSE]
BestMatch(lens, n) == BestOf(lens, ExactOnes(lens, n), LongestOnes(lens))

(* _find_nearest_snapshot: the first of the latest at or before n, or 0.   *)
NearestSnapshot(snaps, n) ==
  LET late == {i \in DOMAIN snaps :
                 /\ snaps[i].n <= n
                 /\ \A j \in DOMAIN snaps : snaps[j].n <= n => snaps[j].n <= snaps[i].n}
  IN  IF late = {} THEN 0 ELSE Min(late)

\* A seeded fault: an exact match keeps the whole cached prompt.
WholeMatch(e, m, p) == Min({CacheLength(e.cache), m.len})

(* How much of the entry's cache may be kept: one token is left to start   *)
(* with, unless there are snapshots to go by.                              *)
Target(e, m, p) ==
  IF kind # "kv" THEN m.len
  ELSE Min({CacheLength(e.cache), IF m.exact THEN Len(p) - 1 ELSE m.len})

(* trim_cache: cut the key-value layers, put the others back.  It does not *)
(* count the layers of DeepSeek V4 among the others, and trims them.       *)
PutBack(st, n, snap) ==
  CASE kind = "kv" -> SubSeq(st, 1, n) [] kind = "ssm" -> snap.st [] kind = "v4" -> st
Trimmed(c, n, snap) ==
  IF n >= CacheLength(c) THEN c
  ELSE Cache(SubSeq(c.kv, 1, n), PutBack(c.st, n, snap), c.far)

(* get_kv_cache: the cache, how many tokens of the prompt are in it, and   *)
(* the entry it came from (0: a fresh one).                                *)
NoHit == [cache |-> Fresh, hit |-> 0, at |-> 0]
RestoreTo(i, e, at) ==
  IF i = 0 THEN NoHit
  ELSE [cache |-> Trimmed(e.cache, e.snaps[i].n, e.snaps[i]), hit |-> e.snaps[i].n, at |-> at]
CutTo(n, e, at) == [cache |-> Trimmed(e.cache, n, Fresh), hit |-> n, at |-> at]
Reuse(m, es, p) ==
  CASE m.at = 0 -> NoHit
    [] m.at # 0 /\ kind = "kv" -> CutTo(Target(es[m.at], m, p), es[m.at], m.at)
    [] m.at # 0 /\ kind # "kv" ->
         RestoreTo(NearestSnapshot(es[m.at].snaps, Target(es[m.at], m, p)), es[m.at], m.at)
GetKvCache(es, p) == Reuse(BestMatch([i \in DOMAIN es |-> MatchLength(es[i], p)], Len(p)), es, p)

Touch(es, i, t) == IF i = 0 THEN es ELSE [es EXCEPT ![i].used = t]

-----------------------------------------------------------------------------
(* Prefilling and saving.                                                  *)

Read(c, toks) == Cache(c.kv \o toks, c.st \o toks, c.far)
Snap(c) == [n |-> CacheLength(c), st |-> c.st]

(* prefill: the model reads the tokens in steps and one token more, the    *)
(* caches are then put back by two: all but the last token stay.  A        *)
(* snapshot is taken before every step, and after the last but one token.  *)
Stops(stay) ==
  [i \in 1 .. (stay + StepSize - 1) \div StepSize + 1 |-> Min({(i - 1) * StepSize, stay})]
SnapsAt(c, toks, stops) == [i \in DOMAIN stops |-> Snap(Read(c, SubSeq(toks, 1, stops[i])))]
Prefilled(c, toks) ==
  IF toks = << >> THEN [cache |-> c, snaps |-> << >>]
  ELSE [cache |-> Read(c, Front(toks)),
        snaps |-> IF kind = "kv" THEN << >> ELSE SnapsAt(c, toks, Stops(Len(toks) - 1))]

(* _evict_if_needed: while memory is short, the least recently used goes.  *)
Evicted(es) ==
  {Those(es, {i \in DOMAIN es : es[i].used > t}) : t \in {0} \cup {es[i].used : i \in DOMAIN es}}

Entry(p, c, snaps, t) ==
  [prompt |-> p, cache |-> c, snaps |-> snaps, regions |-> Regions(p), used |-> t]

(* add_kv_cache.                                                           *)
Adds(es, p, c, snaps, t) == {Append(kept, Entry(p, c, snaps, t)) : kept \in Evicted(es)}

\* A seeded fault: the old prompt's snapshots are all kept.
KeepAll(snaps, pos) == snaps

(* update_kv_cache keeps the snapshots up to the restored position.        *)
KeptSnapshots(snaps, pos) == Those(snaps, {i \in DOMAIN snaps : snaps[i].n <= pos})

UpdateKvCache(es, i, p, c, snaps, pos, t) ==
  [es EXCEPT ![i] = Entry(p, c, KeptSnapshots(@.snaps, pos) \o snaps, t)]

(* _save_prefix_cache: a long match is replaced, a short one left alone.   *)
Saves(es, i, p, c, snaps, hit, least, t) ==
  IF i # 0 /\ hit >= least /\ 2 * hit >= Len(p)
  THEN {UpdateKvCache(es, i, p, c, snaps, hit, t)}
  ELSE Adds(es, p, c, snaps, t)

-----------------------------------------------------------------------------
PrefixCacheInit ==
  /\ kind \in {"kv", "ssm", "v4"}
  /\ entries = << >> /\ srv = << >> /\ abandoned = {} /\ clock = 0
  /\ req = Idle /\ nrequests = 0

Rest == SubSeq(req.prompt, req.hit + 1, Len(req.prompt))

(* The head of ExoBatchGenerator.submit and of mlx_generate.               *)
Submit(p) ==
  /\ req.pc \in {"idle", "decode"} /\ nrequests < MaxRequests
  /\ \E g \in {GetKvCache(entries, p)} :
       /\ req' = [pc |-> "prefill", prompt |-> p, cache |-> g.cache, hit |-> g.hit,
                  at |-> g.at, snaps |-> << >>]
       /\ entries' = Touch(entries, g.at, clock + 1)
  /\ clock' = clock + 1 /\ nrequests' = nrequests + 1
  /\ UNCHANGED <<kind, srv, abandoned>>

(* Front(Rest): all but the last token are prefilled.                      *)
ToPrefill == IF Rest = << >> THEN << >> ELSE Front(Rest)

LocalPrefill ==
  /\ req.pc = "prefill"
  /\ \E r \in {Prefilled(req.cache, ToPrefill)} :
       req' = [req EXCEPT !.pc = "save", !.cache = r.cache, !.snaps = r.snaps]
  /\ UNCHANGED <<kind, entries, srv, abandoned, clock, nrequests>>

(* A progress callback raises PrefillCancelled: the entries have copies.   *)
CancelPrefill ==
  /\ req.pc = "prefill"
  /\ req' = Idle
  /\ UNCHANGED <<kind, entries, srv, abandoned, clock, nrequests>>

(* run_prefill_for_request: the tokens it is sent are all it knows of, and *)
(* two of them are left out.                                               *)
Answer(c, g, toks) ==
  [cache |-> c,
   next |-> Saves(Touch(srv, g.at, clock + 1), g.at, toks, c, <<Snap(c)>>, g.hit, 0, clock + 2)]
PrefillServed(g, toks) ==
  Answer(Prefilled(g.cache, SubSeq(toks, g.hit + 1, Max({g.hit, Len(toks) - 2}))).cache, g, toks)
Served(toks) == PrefillServed(GetKvCache(srv, toks), toks)

(* send_mlx_kv_cache sends what lies after start_pos of the server's       *)
(* cache, ingest_into_mlx_cache appends it to what the client has.         *)
Ingested(c, start, answer) ==
  LET got == SubSeq(answer.kv, start + 1, Len(answer.kv))
  IN  [kv |-> IF got = << >> THEN c.kv ELSE SubSeq(c.kv, 1, start) \o got,
       st |-> IF kind = "ssm" THEN answer.st
              ELSE IF got = << >> THEN c.st ELSE SubSeq(c.kv, 1, start) \o got,
       far |-> TRUE]

UsesRemote == req.pc = "prefill" /\ Len(Rest) > RemoteMin

(* remote_prefill, and the server's side of it.  A server has no way to    *)
(* send the layers of DeepSeek V4 (send_mlx_kv_cache raises): the client   *)
(* falls back to its own prefill and the server keeps what it has read, as *)
(* after a PickupTimeout and a ServeLate.                                  *)
RemotePrefill ==
  /\ UsesRemote /\ kind # "v4"
  /\ \E s \in {Served(ToPrefill)} :
       /\ \E c \in {Ingested(req.cache, req.hit, s.cache)} :
            req' = [req EXCEPT !.pc = "save", !.cache = c, !.snaps = <<Snap(c)>>]
       /\ srv' \in s.next
  /\ clock' = clock + 2
  /\ UNCHANGED <<kind, entries, abandoned, nrequests>>

(* The server does not pick the request up in time and answers 503; the    *)
(* client prefills itself, the request stays in the server's work queue.   *)
PickupTimeout ==
  /\ UsesRemote /\ ToPrefill \notin abandoned
  /\ abandoned' = abandoned \cup {ToPrefill}
  /\ \E r \in {Prefilled(req.cache, ToPrefill)} :
       req' = [req EXCEPT !.pc = "save", !.cache = r.cache, !.snaps = r.snaps]
  /\ UNCHANGED <<kind, entries, srv, clock, nrequests>>

ServeLate(toks) ==
  /\ toks \in abandoned
  /\ abandoned' = abandoned \ {toks}
  /\ srv' \in Served(toks).next
  /\ clock' = clock + 2
  /\ UNCHANGED <<kind, entries, req, nrequests>>

(* _save_prefix_cache, and the sequence enters the batch.                  *)
Save ==
  /\ req.pc = "save"
  /\ entries' \in Saves(entries, req.at, req.prompt, req.cache, req.snaps, req.hit,
                        MinHit, clock + 1)
  /\ clock' = clock + 1
  /\ req' = [req EXCEPT !.pc = "decode"]
  /\ UNCHANGED <<kind, srv, abandoned, nrequests>>

PrefixCacheNext ==
  \/ \E p \in Prompts : Submit(p)
  \/ LocalPrefill \/ CancelPrefill \/ RemotePrefill \/ PickupTimeout \/ Save
  \/ \E toks \in abandoned : ServeLate(toks)

PrefixCacheSpec == PrefixCacheInit /\ [][PrefixCacheNext]_pcvars

-----------------------------------------------------------------------------
(* Properties.                                                             *)

LastTwo(s) == SubSeq(s, Max({1, Len(s) - 1}), Len(s))
State(c) == IF kind = "kv" THEN c.kv ELSE c.st

(* Layers whose state a trim puts back whole: not those of DeepSeek V4,    *)
(* the exception named in what follows.                                    *)
Restorable == kind # "v4"

(* Decoding starts from the last two tokens of what was not in the cache:  *)
(* whatever entry was copied, cut, put back, prefilled and saved, the      *)
(* layers have then read exactly the prompt, its images included, once and *)
(* in order.  (Caches a prefill server had a part in are another matter.)  *)
(* Of DeepSeek V4 that holds for the window, not for the branches.         *)
DecodesThePrompt ==
  (req.pc = "decode" /\ ~req.cache.far) =>
    /\ req.cache.kv \o LastTwo(Rest) = req.prompt
    /\ Restorable => State(req.cache) \o LastTwo(Rest) = req.prompt

(* There is a token to start with when the cache can be cut anywhere.      *)
SomethingToDecode == (req.pc = "decode" /\ kind = "kv") => Rest # << >>

(* An entry never holds a state of another conversation: each snapshot,    *)
(* also one kept from the prompts the entry held before, is a state the    *)
(* layers had after so many tokens of this entry's prompt.                 *)
SnapshotsOfThePrompt ==
  \A i \in DOMAIN entries : \A j \in DOMAIN entries[i].snaps :
    LET s == entries[i].snaps[j]
    IN  Restorable /\ ~entries[i].cache.far => s.st = SubSeq(entries[i].prompt, 1, s.n)

(* What get_kv_cache says of its result, and is_non_trimmable_cache_entry  *)
(* of DeepSeek V4: the state of the layers is put back to the snapshot the *)
(* remaining tokens are counted from.                                      *)
StatePutBack ==
  (req.pc = "prefill" /\ ~req.cache.far) =>
    State(req.cache) = SubSeq(req.prompt, 1, req.hit)

(* What get_kv_cache says of its result: there is always a token left.     *)
AlwaysAToken == req.pc = "decode" => Rest # << >>

(* A cache a prefill server filled is the cache a local prefill fills.     *)
RemoteAsLocal ==
  req.pc = "decode" => req.cache.kv \o LastTwo(Rest) = req.prompt

(* What is decoded from a reused prefix is what would be decoded without:  *)
(* the layers have read the prompt, something is left to start from, and   *)
(* what is saved for the next request is true of it.                       *)
ReuseIsExact == DecodesThePrompt /\ SomethingToDecode /\ SnapshotsOfThePrompt
=============================================================================
