----------------------------- MODULE FileDownload -----------------------------
(***************************************************************************)
(* How the files of a repository reach the disk:                           *)
(* src/exo/download/download_utils.py.  A file is written to               *)
(* "<name>.partial", resumed there after an interruption, checked against  *)
(* the remote hash and renamed.  The remote side is the moving head of a   *)
(* branch.  asyncio.gather does not cancel the other files when one fails, *)
(* so the jobs of an earlier call of download_shard may outlive it and     *)
(* share a partial file with those of the next.                            *)
(*                                                                         *)
(* A file's content is the sequence of the bytes it holds, each with the   *)
(* version it belongs to and its place there.                              *)
(*                                                                         *)
(*   remote   the version of each file at the head of the branch           *)
(*   part     the content of the partial file, Absent without one          *)
(*   final    the content of the file in place, Absent without one         *)
(*   fetch    download_file_with_retry, by call and file: where it is, its *)
(*            attempt, the version file_meta has promised, the version the *)
(*            response is of, the bytes it has had, and the file behind    *)
(*            its open handle                                              *)
(*   call     the call of download_shard that is awaited, 0 without one    *)
(*   shared   files whose partial two calls have worked on at once         *)
(*   troubles a request that failed, a commit to the repository            *)
(***************************************************************************)
EXTENDS Integers, Sequences

CONSTANTS
  RepoFiles,      \* the files of the repository
  SizeOf,         \* the size of each version of a file
  ShardCalls,     \* calls of download_shard that have jobs (bound)
  MaxAttempts,    \* n_attempts of download_file_with_retry
  Troubles        \* what may happen, once each: "drop", "commit" (bound)

Versions == DOMAIN SizeOf

ASSUME FileDownloadConstants ==
  /\ Versions \subseteq Nat \ {0} /\ 1 \in Versions
  /\ \A v \in Versions : SizeOf[v] \in Nat \ {0}
  /\ ShardCalls \subseteq Nat \ {0}
  /\ MaxAttempts \in Nat \ {0} /\ Troubles \subseteq {"drop", "commit"}

VARIABLES remote, part, final, fetch, call, shared, troubles

fdvars == <<remote, part, final, fetch, call, shared, troubles>>

Absent == << <<0, 0>> >>
NoJob == [at |-> "off", attempt |-> 1, meta |-> 0, of |-> 0, had |-> 0, fd |-> "none"]

Size(content) == IF content = Absent THEN 0 ELSE Len(content)
WholeFile(v) == [i \in 1 .. SizeOf[v] |-> <<v, i>>]

FileDownloadInit ==
  /\ remote = [f \in RepoFiles |-> 1]
  /\ part = [f \in RepoFiles |-> Absent]
  /\ final = [f \in RepoFiles |-> Absent]
  /\ fetch = [c \in ShardCalls |-> [f \in RepoFiles |-> NoJob]]
  /\ call = 0
  /\ shared = {}
  /\ troubles = {}

Resting(j) == j.at \in {"off", "done", "failed"}

-----------------------------------------------------------------------------
(* download_shard, called again while the directory is incomplete: one job *)
(* per file, all at once.                                                  *)
DownloadShard(c) ==
  /\ call = 0
  /\ \E f \in RepoFiles : final[f] = Absent
  /\ \A f \in RepoFiles : Resting(fetch[c][f])
  /\ call' = c
  /\ fetch' = [fetch EXCEPT ![c] = [f \in RepoFiles |-> [NoJob EXCEPT !.at = "begin"]]]
  /\ UNCHANGED <<remote, part, final, shared, troubles>>

(* Every file of the call is in place.                                     *)
AllDone(c) == \A f \in RepoFiles : fetch[c][f].at = "done"

(* gather() returns when every file is in place and raises as soon as one  *)
(* job has failed; the other jobs go on.                                   *)
Gathered ==
  /\ call # 0
  /\ AllDone(call) \/ \E f \in RepoFiles : fetch[call][f].at = "failed"
  /\ call' = 0
  /\ UNCHANGED <<remote, part, final, fetch, shared, troubles>>

-----------------------------------------------------------------------------
(* _download_file, from one request or file operation to the next.         *)

Become(c, f, j) == fetch' = [fetch EXCEPT ![c][f] = j]

(* A seeded fault: one attempt too many.                                   *)
AttemptAgain(j) == [NoJob EXCEPT !.at = "begin", !.attempt = j.attempt + 1]

(* download_file_with_retry after an exception.                            *)
Attempt(j) ==
  IF j.attempt < MaxAttempts
  THEN [NoJob EXCEPT !.at = "begin", !.attempt = j.attempt + 1]
  ELSE [NoJob EXCEPT !.at = "failed"]

(* Open handles follow their file to where it goes: a file that is removed *)
(* or replaced is gone for everyone but them.                              *)
MoveHandles(f, to) ==
  [c \in ShardCalls |-> [fetch[c] EXCEPT ![f].fd = IF @ \in DOMAIN to THEN to[@] ELSE @]]

(* A file in place is kept if its size is that of the remote file.         *)
Begin(c, f) ==
  /\ fetch[c][f].at = "begin"
  /\ IF final[f] # Absent /\ Size(final[f]) = SizeOf[remote[f]]
     THEN Become(c, f, [NoJob EXCEPT !.at = "done"]) /\ UNCHANGED final
     ELSE /\ fetch' = [MoveHandles(f, [final |-> "gone"]) EXCEPT ![c][f].at = "meta"]
          /\ final' = [final EXCEPT ![f] = Absent]
  /\ UNCHANGED <<remote, part, call, shared, troubles>>

Users(f) == {c \in ShardCalls : fetch[c][f].at \in {"get", "read", "hash", "rename"}}

(* file_meta, then the size of the partial file: the request is for the    *)
(* bytes after it, and is left out if they are all there.                  *)
FileMeta(c, f) ==
  /\ fetch[c][f].at = "meta"
  /\ Become(c, f, [fetch[c][f] EXCEPT
                     !.meta = remote[f],
                     !.had = Size(part[f]),
                     !.at = IF Size(part[f]) = SizeOf[remote[f]] THEN "hash" ELSE "get"])
  /\ shared' = IF Users(f) = {} THEN shared ELSE shared \cup {f}
  /\ UNCHANGED <<remote, part, final, call, troubles>>

(* The server refuses a range that starts beyond the end of the file;      *)
(* otherwise the partial file is opened, emptied if nothing is resumed.    *)
Get(c, f) ==
  LET j == fetch[c][f] IN
  /\ j.at = "get"
  /\ IF j.had > 0 /\ j.had >= SizeOf[remote[f]]
     THEN Become(c, f, Attempt(j)) /\ UNCHANGED part
     ELSE /\ Become(c, f, [j EXCEPT !.at = "read", !.of = remote[f], !.fd = "part"])
          /\ part' = [part EXCEPT ![f] = IF j.had = 0 \/ @ = Absent THEN << >> ELSE @]
  /\ UNCHANGED <<remote, final, call, shared, troubles>>

(* A chunk is written to the file behind the handle, wherever it is now.   *)
ReadSome(c, f) ==
  LET j == fetch[c][f]
      byte == <<j.of, j.had + 1>>
  IN
  /\ j.at = "read" /\ j.had < SizeOf[j.of]
  /\ Become(c, f, [j EXCEPT !.had = @ + 1])
  /\ part' = IF j.fd = "part" THEN [part EXCEPT ![f] = Append(@, byte)] ELSE part
  /\ final' = IF j.fd = "final" THEN [final EXCEPT ![f] = Append(@, byte)] ELSE final
  /\ UNCHANGED <<remote, call, shared, troubles>>

ReadEnds(c, f) ==
  LET j == fetch[c][f] IN
  /\ j.at = "read" /\ j.had = SizeOf[j.of]
  /\ Become(c, f, [j EXCEPT !.at = "hash", !.fd = "none"])
  /\ UNCHANGED <<remote, part, final, call, shared, troubles>>

(* A seeded fault: the length alone is checked.                            *)
SameLength(j, content) == Size(content) = SizeOf[j.meta]

Integrity(j, content) == content = WholeFile(j.meta)

(* A seeded fault: a partial file that fails the check is kept.            *)
KeepPartial(content) == content

AfterMismatch(content) == Absent

(* calc_hash raises FileNotFoundError, which is not retried, when another  *)
(* job has taken the partial file away; otherwise the hash decides.        *)
Hash(c, f) ==
  LET j == fetch[c][f] IN
  /\ j.at = "hash"
  /\ CASE part[f] = Absent ->
            Become(c, f, [NoJob EXCEPT !.at = "failed"]) /\ UNCHANGED part
       [] part[f] # Absent /\ Integrity(j, part[f]) ->
            Become(c, f, [j EXCEPT !.at = "rename"]) /\ UNCHANGED part
       [] part[f] # Absent /\ ~Integrity(j, part[f]) ->
            /\ part' = [part EXCEPT ![f] = AfterMismatch(@)]
            /\ fetch' = [MoveHandles(f, [part |-> "gone"]) EXCEPT ![c][f] = Attempt(j)]
  /\ UNCHANGED <<remote, final, call, shared, troubles>>

Rename(c, f) ==
  /\ fetch[c][f].at = "rename"
  /\ IF part[f] = Absent
     THEN /\ Become(c, f, [NoJob EXCEPT !.at = "failed"])
          /\ UNCHANGED <<part, final>>
     ELSE /\ final' = [final EXCEPT ![f] = part[f]]
          /\ part' = [part EXCEPT ![f] = Absent]
          /\ fetch' = [MoveHandles(f, [part |-> "final", final |-> "gone"])
                      EXCEPT ![c][f] = [NoJob EXCEPT !.at = "done"]]
  /\ UNCHANGED <<remote, call, shared, troubles>>

(* A request fails: the file in place is then trusted, and without one the *)
(* attempt is over.                                                        *)
LoseConnection(c, f) ==
  LET j == fetch[c][f] IN
  /\ "drop" \in Troubles \ troubles
  /\ troubles' = troubles \cup {"drop"}
  /\ \/ j.at = "begin" /\ final[f] # Absent
     \/ j.at \in {"meta", "get", "read"}
  /\ Become(c, f, IF j.at = "begin" THEN [NoJob EXCEPT !.at = "done"] ELSE Attempt(j))
  /\ UNCHANGED <<remote, part, final, call, shared>>

(* Somebody pushes to the repository.                                      *)
Commit(f) ==
  /\ "commit" \in Troubles \ troubles
  /\ troubles' = troubles \cup {"commit"}
  /\ \E v \in Versions \ {remote[f]} : remote' = [remote EXCEPT ![f] = v]
  /\ UNCHANGED <<part, final, fetch, call, shared>>

FileStep(c, f) ==
  \/ Begin(c, f) \/ FileMeta(c, f) \/ Get(c, f) \/ ReadSome(c, f) \/ ReadEnds(c, f)
  \/ Hash(c, f) \/ Rename(c, f)

FileDownloadNext ==
  \/ Gathered
  \/ \E c \in ShardCalls : DownloadShard(c)
  \/ \E c \in ShardCalls, f \in RepoFiles : FileStep(c, f) \/ LoseConnection(c, f)
  \/ \E f \in RepoFiles : Commit(f)

FileDownloadSpec == FileDownloadInit /\ [][FileDownloadNext]_fdvars

-----------------------------------------------------------------------------
Contents == {Absent} \cup Seq(Versions \X Nat)

(* Every variable has its type, and no job goes past its last attempt.     *)
FileDownloadTypeOK ==
  /\ \A f \in RepoFiles : part[f] \in Contents /\ final[f] \in Contents
  /\ \A c \in ShardCalls, f \in RepoFiles :
       /\ fetch[c][f].attempt \in 1 .. MaxAttempts
       /\ fetch[c][f].meta \in {0} \cup Versions /\ fetch[c][f].of \in {0} \cup Versions
       /\ fetch[c][f].fd \in {"none", "part", "final", "gone"}
  /\ call \in {0} \cup ShardCalls

(* What is in place is one whole version of the file, never a partial file *)
(* begun from one commit and resumed from another, cut short or written    *)
(* twice; except where two calls worked on the partial file at once, when  *)
(* one may still write to it after the other has checked it.               *)
Intact ==
  \A f \in RepoFiles \ shared :
    final[f] # Absent => \E v \in Versions : final[f] = WholeFile(v)

(* A partial file that has outgrown the remote file is never removed: its  *)
(* range is refused at every attempt.                                      *)
Stuck == \E f \in RepoFiles : Size(part[f]) > SizeOf[remote[f]]

AskedFor == \E c \in ShardCalls, f \in RepoFiles : fetch[c][f] # NoJob

(* However requests fail and the repository moves, the files of a model    *)
(* that was asked for all arrive, unless a partial file has outgrown its   *)
(* remote file, or two calls keep spoiling the partial file they share.    *)
FilesArrive ==
  <>[](~AskedFor \/ Stuck \/ shared # {} \/ \A f \in RepoFiles : final[f] # Absent)

(* What a download leaves in place is what the repository has.             *)
WholeFiles == FileDownloadTypeOK /\ Intact
=============================================================================
