----------------------------- MODULE DownloadProofs -----------------------------
(***************************************************************************)
(* How a node gets a model.  The downloads of a repository's files, for    *)
(* any files, versions, sizes, calls and attempts: what is left in place   *)
(* is one whole version of its file, unless two calls worked on its        *)
(* partial file at once.  The books of the DownloadCoordinator, for any    *)
(* number of shards, of downloads at once and of upsets.                   *)
(***************************************************************************)
EXTENDS Downloads, FileDownload, TLAPS

-----------------------------------------------------------------------------
(* The files.                                                              *)

JobStates ==
  {"off", "begin", "meta", "get", "read", "hash", "rename", "done", "failed"}

Job == [at : JobStates, attempt : 1 .. MaxAttempts,
        meta : {0} \cup Versions, of : {0} \cup Versions, had : Nat,
        fd : {"none", "part", "final", "gone"}]

FilesTyped ==
  /\ remote \in [RepoFiles -> Versions]
  /\ part \in [RepoFiles -> Contents]
  /\ final \in [RepoFiles -> Contents]
  /\ fetch \in [ShardCalls -> [RepoFiles -> Job]]
  /\ call \in {0} \cup ShardCalls

(* A handle is open only while a response is read, and leads to a file     *)
(* that is there; a job knows the version it asked for, and the version it *)
(* reads.                                                                  *)
Held(c, f) ==
  /\ fetch[c][f].fd # "none" => fetch[c][f].at = "read"
  /\ fetch[c][f].at = "read" => fetch[c][f].of \in Versions
  /\ fetch[c][f].at \in {"get", "read", "hash", "rename"} => fetch[c][f].meta \in Versions
  /\ fetch[c][f].fd = "part" => part[f] # Absent
  /\ fetch[c][f].fd = "final" => final[f] # Absent

(* A file whose partial file was never shared has one job at work on it    *)
(* and no handle on what is in place; its content, once checked, stays.    *)
Alone(f) ==
  /\ \A c, d \in Users(f) : c = d
  /\ \A c \in ShardCalls :
       /\ fetch[c][f].fd # "final"
       /\ fetch[c][f].at = "rename" => part[f] = WholeFile(fetch[c][f].meta)
  /\ final[f] # Absent => \E v \in Versions : final[f] = WholeFile(v)

FilesInv ==
  /\ FilesTyped
  /\ \A c \in ShardCalls, f \in RepoFiles : Held(c, f)
  /\ \A f \in RepoFiles \ shared : Alone(f)

-----------------------------------------------------------------------------
(* A file of a repository never has the content that stands for no file.   *)
LEMMA ContentsAreThere ==
  /\ Absent \notin Seq(Versions \X Nat)
  /\ \A s \in Seq(Versions \X Nat), v \in Versions, n \in Nat :
       Append(s, <<v, n>>) \in Contents /\ Append(s, <<v, n>>) # Absent
  /\ << >> \in Contents /\ << >> # Absent
<1>1. 0 \notin Versions
  BY FileDownloadConstants
<1>2. Absent \notin Seq(Versions \X Nat)
  <2>1. SUFFICES ASSUME Absent \in Seq(Versions \X Nat) PROVE FALSE
    OBVIOUS
  <2>2. Len(Absent) = 1 /\ Absent[1] = <<0, 0>>
    BY DEF Absent
  <2>3. Absent[1] \in Versions \X Nat
    BY <2>1, <2>2
  <2> QED BY <1>1, <2>2, <2>3
<1>3. ASSUME NEW s \in Seq(Versions \X Nat), NEW v \in Versions, NEW n \in Nat
      PROVE  Append(s, <<v, n>>) \in Seq(Versions \X Nat)
  OBVIOUS
<1>4. << >> \in Seq(Versions \X Nat)
  OBVIOUS
<1> QED BY <1>2, <1>3, <1>4 DEF Contents

(* The beginning of an attempt, and its end, are jobs.                     *)
LEMMA JobsMade ==
  /\ NoJob \in Job
  /\ \A a \in JobStates : [NoJob EXCEPT !.at = a] \in Job
  /\ \A j \in Job :
       /\ Attempt(j) \in Job
       /\ Attempt(j).at \in {"begin", "failed"} /\ Attempt(j).fd = "none"
<1>1. NoJob \in Job /\ \A a \in JobStates : [NoJob EXCEPT !.at = a] \in Job
  BY FileDownloadConstants DEF NoJob, Job, JobStates
<1>2. ASSUME NEW j \in Job
      PROVE  /\ Attempt(j) \in Job
             /\ Attempt(j).at \in {"begin", "failed"} /\ Attempt(j).fd = "none"
  <2>1. CASE j.attempt < MaxAttempts
    <3>1. j.attempt + 1 \in 1 .. MaxAttempts
      BY <2>1, FileDownloadConstants DEF Job
    <3>2. Attempt(j) = [at |-> "begin", attempt |-> j.attempt + 1, meta |-> 0,
                        of |-> 0, had |-> 0, fd |-> "none"]
      BY <2>1 DEF Attempt, NoJob
    <3>3. Attempt(j) \in Job
      BY <3>1, <3>2 DEF Job, JobStates
    <3>4. Attempt(j).at = "begin" /\ Attempt(j).fd = "none"
      BY <3>2
    <3> QED BY <3>3, <3>4
  <2>2. CASE ~(j.attempt < MaxAttempts)
    <3>1. Attempt(j) = [NoJob EXCEPT !.at = "failed"]
      BY <2>2 DEF Attempt
    <3> QED BY <3>1, <1>1 DEF NoJob, JobStates
  <2> QED BY <2>1, <2>2
<1> QED BY <1>1, <1>2

(* What a job becomes leaves every other job as it was.                    *)
LEMMA BecomeOne ==
  ASSUME fetch \in [ShardCalls -> [RepoFiles -> Job]],
         NEW c \in ShardCalls, NEW f \in RepoFiles, NEW j \in Job, Become(c, f, j)
  PROVE  /\ fetch' \in [ShardCalls -> [RepoFiles -> Job]]
         /\ fetch'[c][f] = j
         /\ \A d \in ShardCalls, g \in RepoFiles :
              d # c \/ g # f => fetch'[d][g] = fetch[d][g]
  BY DEF Become

(* Where handles may go.                                                   *)
Elsewhere(to) == \A h \in DOMAIN to : to[h] \in {"none", "part", "final", "gone"}

(* A job, once handles have moved.                                         *)
Moved(j, to) == IF j.fd \in DOMAIN to THEN [j EXCEPT !.fd = to[j.fd]] ELSE j

(* A job whose handle moves is otherwise the job it was.                   *)
LEMMA MovedIsJob ==
  ASSUME NEW to, Elsewhere(to), NEW j \in Job
  PROVE  /\ Moved(j, to) \in Job
         /\ [j EXCEPT !.fd = IF @ \in DOMAIN to THEN to[@] ELSE @] = Moved(j, to)
         /\ j.fd \notin DOMAIN to => Moved(j, to) = j
         /\ j.fd \in DOMAIN to => Moved(j, to).fd = to[j.fd]
         /\ Moved(j, to).at = j.at /\ Moved(j, to).of = j.of
         /\ Moved(j, to).meta = j.meta
<1>1. CASE j.fd \in DOMAIN to
  <2>1. to[j.fd] \in {"none", "part", "final", "gone"}
    BY <1>1 DEF Elsewhere
  <2>2. Moved(j, to) = [j EXCEPT !.fd = to[j.fd]]
    BY <1>1 DEF Moved
  <2> QED BY <1>1, <2>1, <2>2 DEF Job
<1>2. CASE j.fd \notin DOMAIN to
  <2>1. Moved(j, to) = j
    BY <1>2 DEF Moved
  <2>2. [j EXCEPT !.fd = j.fd] = j
    BY DEF Job
  <2> QED BY <1>2, <2>1, <2>2
<1> QED BY <1>1, <1>2

(* Handles move at one file.                                               *)
LEMMA HandlesMove ==
  ASSUME fetch \in [ShardCalls -> [RepoFiles -> Job]], NEW f \in RepoFiles, NEW to,
         Elsewhere(to)
  PROVE  /\ MoveHandles(f, to) \in [ShardCalls -> [RepoFiles -> Job]]
         /\ \A d \in ShardCalls, g \in RepoFiles :
              MoveHandles(f, to)[d][g] = IF g = f THEN Moved(fetch[d][f], to) ELSE fetch[d][g]
<1>1. ASSUME NEW d \in ShardCalls
      PROVE  [fetch[d] EXCEPT ![f].fd = IF @ \in DOMAIN to THEN to[@] ELSE @]
               = [fetch[d] EXCEPT ![f] = Moved(fetch[d][f], to)]
  <2>1. fetch[d] \in [RepoFiles -> Job] /\ fetch[d][f] \in Job
    OBVIOUS
  <2>2. [fetch[d][f] EXCEPT !.fd = IF @ \in DOMAIN to THEN to[@] ELSE @]
          = Moved(fetch[d][f], to)
    BY <2>1, MovedIsJob
  <2> QED BY <2>1, <2>2
<1>2. MoveHandles(f, to) =
        [d \in ShardCalls |-> [fetch[d] EXCEPT ![f] = Moved(fetch[d][f], to)]]
  BY <1>1, Zenon DEF MoveHandles
<1>3. \A d \in ShardCalls : fetch[d] \in [RepoFiles -> Job] /\ Moved(fetch[d][f], to) \in Job
  BY MovedIsJob
<1> QED BY <1>2, <1>3

(* One job of one file of M is replaced.                                   *)
Replaced(M, c, f, j) == fetch' = [M EXCEPT ![c][f] = j]

(* The others stay.                                                        *)
LEMMA ReplaceOne ==
  ASSUME NEW M, M \in [ShardCalls -> [RepoFiles -> Job]],
         NEW c \in ShardCalls, NEW f \in RepoFiles, NEW j \in Job, Replaced(M, c, f, j)
  PROVE  /\ fetch' \in [ShardCalls -> [RepoFiles -> Job]]
         /\ fetch'[c][f] = j
         /\ \A d \in ShardCalls, g \in RepoFiles : d # c \/ g # f => fetch'[d][g] = M[d][g]
  BY DEF Replaced

(* What the jobs are once the handles on a file have moved and one job of  *)
(* that file has become another.                                           *)
LEMMA MoveOne ==
  ASSUME fetch \in [ShardCalls -> [RepoFiles -> Job]],
         NEW c \in ShardCalls, NEW f \in RepoFiles, NEW j \in Job, NEW to, Elsewhere(to),
         Replaced(MoveHandles(f, to), c, f, j)
  PROVE  /\ fetch' \in [ShardCalls -> [RepoFiles -> Job]]
         /\ fetch'[c][f] = j
         /\ \A d \in ShardCalls, g \in RepoFiles : g # f => fetch'[d][g] = fetch[d][g]
         /\ \A d \in ShardCalls \ {c} : fetch'[d][f] = Moved(fetch[d][f], to)
<1> DEFINE M == MoveHandles(f, to)
<1>1. /\ M \in [ShardCalls -> [RepoFiles -> Job]]
      /\ \A d \in ShardCalls, g \in RepoFiles :
           M[d][g] = IF g = f THEN Moved(fetch[d][f], to) ELSE fetch[d][g]
  BY HandlesMove
<1> HIDE DEF M
<1>2. /\ fetch' \in [ShardCalls -> [RepoFiles -> Job]] /\ fetch'[c][f] = j
      /\ \A d \in ShardCalls, g \in RepoFiles : d # c \/ g # f => fetch'[d][g] = M[d][g]
  BY <1>1, ReplaceOne DEF M
<1> QED BY <1>1, <1>2

-----------------------------------------------------------------------------
(* A step about one file leaves the invariant true of the others.          *)
LEMMA OneFile ==
  ASSUME FilesInv, NEW f \in RepoFiles, FilesTyped',
         \A g \in RepoFiles \ {f} :
           /\ part'[g] = part[g] /\ final'[g] = final[g]
           /\ \A c \in ShardCalls : fetch'[c][g] = fetch[c][g],
         shared \subseteq shared', shared' \subseteq shared \cup {f},
         \A c \in ShardCalls : Held(c, f)',
         f \notin shared' => Alone(f)'
  PROVE  FilesInv'
<1>1. ASSUME NEW g \in RepoFiles \ {f}, NEW c \in ShardCalls PROVE Held(c, g)'
  BY <1>1 DEF FilesInv, Held
<1>2. ASSUME NEW g \in RepoFiles \ {f}, g \notin shared' PROVE Alone(g)'
  <2>1. Alone(g)
    BY <1>2 DEF FilesInv
  <2>2. Users(g)' = Users(g)
    BY DEF Users
  <2> QED BY <2>1, <2>2 DEF Alone
<1> QED BY <1>1, <1>2 DEF FilesInv

(* A step in which one job moves on and no handle of another does: what    *)
(* its file must satisfy afterwards.                                       *)
LEMMA OneJob ==
  ASSUME FilesInv, NEW c \in ShardCalls, NEW f \in RepoFiles, NEW j \in Job, Become(c, f, j),
         part' \in [RepoFiles -> Contents], final' \in [RepoFiles -> Contents],
         \A g \in RepoFiles \ {f} : part'[g] = part[g] /\ final'[g] = final[g],
         remote' = remote, call' = call, shared' = shared,
         part[f] # Absent => part'[f] # Absent,
         final[f] # Absent => final'[f] # Absent,
         Held(c, f)',
         f \notin shared =>
           /\ j.at \in {"get", "read", "hash", "rename"} => c \in Users(f)
           /\ j.fd # "final"
           /\ j.at = "rename" => part'[f] = WholeFile(j.meta)
           /\ part'[f] # part[f] => c \in Users(f)
           /\ final'[f] = final[f]
  PROVE  FilesInv'
<1>1. /\ fetch' \in [ShardCalls -> [RepoFiles -> Job]]
      /\ fetch'[c][f] = j
      /\ \A d \in ShardCalls, g \in RepoFiles : d # c \/ g # f => fetch'[d][g] = fetch[d][g]
  BY BecomeOne DEF FilesInv, FilesTyped
<1>2. FilesTyped'
  BY <1>1 DEF FilesInv, FilesTyped
<1>3. ASSUME NEW d \in ShardCalls PROVE Held(d, f)'
  <2>1. CASE d # c
    BY <1>1, <2>1 DEF FilesInv, Held
  <2> QED BY <2>1
<1>4. ASSUME f \notin shared PROVE Alone(f)'
  <2>1. Alone(f)
    BY <1>4 DEF FilesInv
  <2>2. Users(f)' \subseteq Users(f)
    BY <1>1, <1>4 DEF Users
  <2>3. \A d, e \in Users(f)' : d = e
    BY <2>1, <2>2 DEF Alone
  <2>4. ASSUME NEW d \in ShardCalls
        PROVE  /\ fetch'[d][f].fd # "final"
               /\ fetch'[d][f].at = "rename" => part'[f] = WholeFile(fetch'[d][f].meta)
    <3>1. CASE d = c
      BY <3>1, <1>1, <1>4
    <3>2. CASE d # c
      <4>1. fetch'[d][f] = fetch[d][f]
        BY <3>2, <1>1
      <4>2. fetch[d][f].at = "rename" => part'[f] = part[f]
        BY <2>1, <1>4, <3>2 DEF Alone, Users
      <4> QED BY <4>1, <4>2, <2>1 DEF Alone
    <3> QED BY <3>1, <3>2
  <2>5. final'[f] # Absent => \E v \in Versions : final'[f] = WholeFile(v)
    BY <2>1, <1>4 DEF Alone
  <2> QED BY <2>3, <2>4, <2>5 DEF Alone
<1> QED BY <1>1, <1>2, <1>3, <1>4, OneFile

-----------------------------------------------------------------------------
(* The steps of a job.                                                     *)

(* A file is looked at, and taken away if its size is not the remote one.  *)
LEMMA BeginKeepsInv ==
  ASSUME FilesInv, NEW c \in ShardCalls, NEW f \in RepoFiles, Begin(c, f)
  PROVE  FilesInv'
<1> USE DEF FilesInv
<1>1. CASE final[f] # Absent /\ Size(final[f]) = SizeOf[remote[f]]
  <2>1. Become(c, f, [NoJob EXCEPT !.at = "done"]) /\ final' = final
    BY <1>1 DEF Begin
  <2>2. /\ [NoJob EXCEPT !.at = "done"] \in Job
        /\ [NoJob EXCEPT !.at = "done"].at = "done"
        /\ [NoJob EXCEPT !.at = "done"].fd = "none"
    BY JobsMade DEF NoJob, JobStates
  <2>3. fetch'[c][f] = [NoJob EXCEPT !.at = "done"]
    BY <2>1, <2>2, BecomeOne DEF FilesTyped
  <2>4. Held(c, f)'
    BY <2>2, <2>3 DEF Held
  <2> QED BY <2>1, <2>2, <2>4, OneJob DEF Begin, FilesTyped
<1>2. CASE ~(final[f] # Absent /\ Size(final[f]) = SizeOf[remote[f]])
  <2> DEFINE to == [final |-> "gone"]
             j == [fetch[c][f] EXCEPT !.at = "meta"]
  <2>1. fetch[c][f].fd = "none" /\ fetch[c][f].at = "begin" /\ fetch[c][f] \in Job
    BY DEF Begin, Held, FilesTyped, Job
  <2>2. j \in Job /\ j.at = "meta" /\ j.fd = "none"
    BY <2>1 DEF Job, JobStates
  <2>3. final' = [final EXCEPT ![f] = Absent] /\ part' = part /\ shared' = shared
    BY <1>2 DEF Begin
  <2>9. Elsewhere(to) /\ DOMAIN to = {"final"} /\ to["final"] = "gone"
    BY DEF Elsewhere
  <2> HIDE DEF j, to
  <2>4. Replaced(MoveHandles(f, to), c, f, j)
    <3>1. /\ MoveHandles(f, to) \in [ShardCalls -> [RepoFiles -> Job]]
          /\ MoveHandles(f, to)[c][f] = fetch[c][f]
      BY <2>1, <2>9, HandlesMove, MovedIsJob DEF FilesTyped
    <3>2. fetch' = [MoveHandles(f, to) EXCEPT ![c][f].at = "meta"]
      BY <1>2 DEF Begin, to
    <3> QED BY <3>1, <3>2 DEF Replaced, j
  <2>5. /\ fetch' \in [ShardCalls -> [RepoFiles -> Job]]
        /\ fetch'[c][f] = j
        /\ \A d \in ShardCalls, g \in RepoFiles : g # f => fetch'[d][g] = fetch[d][g]
        /\ \A d \in ShardCalls \ {c} :
             /\ fetch'[d][f].at = fetch[d][f].at /\ fetch'[d][f].of = fetch[d][f].of
             /\ fetch'[d][f].meta = fetch[d][f].meta
             /\ fetch[d][f].fd # "final" => fetch'[d][f] = fetch[d][f]
             /\ fetch[d][f].fd = "final" => fetch'[d][f].fd = "gone"
    <3>1. /\ fetch' \in [ShardCalls -> [RepoFiles -> Job]]
          /\ fetch'[c][f] = j
          /\ \A d \in ShardCalls, g \in RepoFiles : g # f => fetch'[d][g] = fetch[d][g]
          /\ \A d \in ShardCalls \ {c} : fetch'[d][f] = Moved(fetch[d][f], to)
      BY <2>2, <2>4, <2>9, MoveOne DEF FilesTyped
    <3>2. \A d \in ShardCalls : fetch[d][f] \in Job
      BY DEF FilesTyped
    <3> QED BY <2>9, <3>1, <3>2, MovedIsJob
  <2>6. FilesTyped'
    BY <2>3, <2>5 DEF FilesTyped, Begin, Contents
  <2>7. ASSUME NEW d \in ShardCalls PROVE Held(d, f)'
    BY <2>2, <2>3, <2>5 DEF Held
  <2>8. ASSUME f \notin shared PROVE Alone(f)'
    <3>1. Alone(f)
      BY <2>8
    <3>2. \A d \in ShardCalls \ {c} : fetch'[d][f] = fetch[d][f]
      BY <2>5, <3>1 DEF Alone
    <3>3. Users(f)' \subseteq Users(f)
      BY <2>2, <2>5, <3>2 DEF Users
    <3> QED BY <2>2, <2>3, <2>5, <3>1, <3>2, <3>3 DEF Alone, FilesTyped
  <2> QED BY <2>3, <2>5, <2>6, <2>7, <2>8, OneFile DEF FilesTyped
<1> QED BY <1>1, <1>2

(* The head of the branch and the size of the partial file are noted; the  *)
(* partial file is shared if somebody else is at work on it.               *)
LEMMA FileMetaKeepsInv ==
  ASSUME FilesInv, NEW c \in ShardCalls, NEW f \in RepoFiles, FileMeta(c, f)
  PROVE  FilesInv'
<1> USE DEF FilesInv
<1> DEFINE j == [fetch[c][f] EXCEPT
                   !.meta = remote[f],
                   !.had = Size(part[f]),
                   !.at = IF Size(part[f]) = SizeOf[remote[f]] THEN "hash" ELSE "get"]
<1>1. Become(c, f, j) /\ UNCHANGED <<remote, part, final, call>>
  BY DEF FileMeta
<1>2. fetch[c][f] \in Job /\ fetch[c][f].fd = "none" /\ fetch[c][f].at = "meta"
  BY DEF FilesTyped, Held, FileMeta, Job
<1>3. /\ j \in Job /\ j.fd = "none" /\ j.at \in {"hash", "get"}
      /\ j.meta \in Versions
  <2>1. Size(part[f]) \in Nat
    BY DEF FilesTyped, Size, Contents
  <2> QED BY <1>2, <2>1 DEF FilesTyped, Job, JobStates
<1> HIDE DEF j
<1>4. /\ fetch' \in [ShardCalls -> [RepoFiles -> Job]]
      /\ fetch'[c][f] = j
      /\ \A d \in ShardCalls, g \in RepoFiles : d # c \/ g # f => fetch'[d][g] = fetch[d][g]
  BY <1>1, <1>3, BecomeOne DEF FilesTyped
<1>5. FilesTyped'
  BY <1>1, <1>4 DEF FilesTyped
<1>6. ASSUME NEW d \in ShardCalls PROVE Held(d, f)'
  BY <1>1, <1>3, <1>4 DEF Held
<1>7. ASSUME f \notin shared' PROVE Alone(f)'
  <2>1. f \notin shared /\ Users(f) = {}
    BY <1>7 DEF FileMeta
  <2>2. Users(f)' \subseteq {c}
    BY <1>4, <2>1 DEF Users
  <2> QED BY <1>1, <1>3, <1>4, <2>1, <2>2 DEF Alone
<1>8. shared \subseteq shared' /\ shared' \subseteq shared \cup {f}
  BY DEF FileMeta
<1> QED BY <1>1, <1>4, <1>5, <1>6, <1>7, <1>8, OneFile

(* The response begins, or the server refuses the range.                   *)
LEMMA GetKeepsInv ==
  ASSUME FilesInv, NEW c \in ShardCalls, NEW f \in RepoFiles, Get(c, f)
  PROVE  FilesInv'
<1> USE DEF FilesInv
<1>1. fetch[c][f] \in Job /\ fetch[c][f].at = "get" /\ c \in Users(f)
  BY DEF FilesTyped, Get, Users
<1>2. CASE fetch[c][f].had > 0 /\ fetch[c][f].had >= SizeOf[remote[f]]
  <2>1. Become(c, f, Attempt(fetch[c][f])) /\ UNCHANGED <<remote, part, final, call, shared>>
    BY <1>2 DEF Get
  <2>2. /\ Attempt(fetch[c][f]) \in Job
        /\ Attempt(fetch[c][f]).at \in {"begin", "failed"}
        /\ Attempt(fetch[c][f]).fd = "none"
    BY <1>1, JobsMade
  <2>3. Held(c, f)'
    BY <2>1, <2>2, BecomeOne DEF FilesTyped, Held
  <2> QED BY <2>1, <2>2, <2>3, OneJob DEF FilesTyped
<1>3. CASE ~(fetch[c][f].had > 0 /\ fetch[c][f].had >= SizeOf[remote[f]])
  <2> DEFINE j == [fetch[c][f] EXCEPT !.at = "read", !.of = remote[f], !.fd = "part"]
             p == IF fetch[c][f].had = 0 \/ part[f] = Absent THEN << >> ELSE part[f]
  <2>1. /\ Become(c, f, j) /\ UNCHANGED <<remote, final, call, shared>>
        /\ part' = [part EXCEPT ![f] = p]
    BY <1>3 DEF Get
  <2>2. /\ j \in Job /\ j.at = "read" /\ j.of \in Versions /\ j.fd = "part"
        /\ j.meta \in Versions
    BY <1>1 DEF FilesTyped, Job, JobStates, Held
  <2>3. p \in Contents /\ p # Absent
    BY ContentsAreThere DEF FilesTyped
  <2> HIDE DEF j, p
  <2>4. Held(c, f)'
    BY <2>1, <2>2, <2>3, BecomeOne DEF FilesTyped, Held
  <2>5. part' \in [RepoFiles -> Contents] /\ part'[f] = p
        /\ \A g \in RepoFiles \ {f} : part'[g] = part[g]
    BY <2>1, <2>3 DEF FilesTyped
  <2> QED BY <1>1, <2>1, <2>2, <2>3, <2>4, <2>5, OneJob DEF FilesTyped
<1> QED BY <1>2, <1>3

(* A chunk is written where the handle leads, and nobody else's checked    *)
(* partial file is touched unless it is shared.                            *)
LEMMA ReadKeepsInv ==
  ASSUME FilesInv, NEW c \in ShardCalls, NEW f \in RepoFiles, ReadSome(c, f)
  PROVE  FilesInv'
<1> USE DEF FilesInv
<1> DEFINE j == [fetch[c][f] EXCEPT !.had = @ + 1]
           byte == <<fetch[c][f].of, fetch[c][f].had + 1>>
<1>1. /\ fetch[c][f] \in Job /\ fetch[c][f].at = "read" /\ c \in Users(f)
      /\ fetch[c][f].of \in Versions
  BY DEF FilesTyped, ReadSome, Users, Held
<1>2. /\ Become(c, f, j) /\ UNCHANGED <<remote, call, shared>>
      /\ part' = IF fetch[c][f].fd = "part" THEN [part EXCEPT ![f] = Append(@, byte)] ELSE part
      /\ final' = IF fetch[c][f].fd = "final" THEN [final EXCEPT ![f] = Append(@, byte)] ELSE final
  BY DEF ReadSome
<1>3. /\ j \in Job /\ j.at = "read" /\ j.of \in Versions /\ j.fd = fetch[c][f].fd
      /\ j.meta = fetch[c][f].meta
  BY <1>1 DEF Job
<1>4. \A s \in Contents \ {Absent} :
        Append(s, byte) \in Contents /\ Append(s, byte) # Absent
  <2>1. fetch[c][f].had + 1 \in Nat
    BY <1>1 DEF Job
  <2> QED BY <1>1, <2>1, ContentsAreThere DEF Contents
<1>5. /\ fetch[c][f].fd = "part" => part[f] \in Contents \ {Absent}
      /\ fetch[c][f].fd = "final" => final[f] \in Contents \ {Absent}
  BY DEF FilesTyped, Held
<1> HIDE DEF j, byte
<1>6. /\ part' \in [RepoFiles -> Contents]
      /\ \A g \in RepoFiles \ {f} : part'[g] = part[g]
      /\ part[f] # Absent => part'[f] # Absent
  BY <1>2, <1>4, <1>5 DEF FilesTyped
<1>7. /\ final' \in [RepoFiles -> Contents]
      /\ \A g \in RepoFiles \ {f} : final'[g] = final[g]
      /\ final[f] # Absent => final'[f] # Absent
  BY <1>2, <1>4, <1>5 DEF FilesTyped
<1>8. Held(c, f)'
  <2>1. fetch'[c][f] = j
    BY <1>2, <1>3, BecomeOne DEF FilesTyped
  <2>2. j.meta \in Versions
    BY <1>1, <1>3 DEF Held
  <2> QED BY <1>3, <1>5, <1>6, <1>7, <2>1, <2>2 DEF Held
<1>9. ASSUME f \notin shared PROVE j.fd # "final" /\ final'[f] = final[f]
  BY <1>2, <1>3, <1>9 DEF Alone
<1> QED BY <1>1, <1>2, <1>3, <1>6, <1>7, <1>8, <1>9, OneJob

(* The response has been read to its end, and the handle is closed.        *)
LEMMA ReadEndsKeepsInv ==
  ASSUME FilesInv, NEW c \in ShardCalls, NEW f \in RepoFiles, ReadEnds(c, f)
  PROVE  FilesInv'
<1> USE DEF FilesInv
<1> DEFINE j == [fetch[c][f] EXCEPT !.at = "hash", !.fd = "none"]
<1>1. fetch[c][f] \in Job /\ fetch[c][f].at = "read" /\ c \in Users(f)
  BY DEF FilesTyped, ReadEnds, Users
<1>2. Become(c, f, j) /\ UNCHANGED <<remote, part, final, call, shared>>
  BY DEF ReadEnds
<1>3. j \in Job /\ j.at = "hash" /\ j.fd = "none" /\ j.meta \in Versions
  BY <1>1 DEF Job, JobStates, Held
<1> HIDE DEF j
<1>4. Held(c, f)'
  BY <1>2, <1>3, BecomeOne DEF FilesTyped, Held
<1> QED BY <1>1, <1>2, <1>3, <1>4, OneJob DEF FilesTyped

(* The hash passes, fails and has the partial file removed, or finds none. *)
LEMMA HashKeepsInv ==
  ASSUME FilesInv, NEW c \in ShardCalls, NEW f \in RepoFiles, Hash(c, f)
  PROVE  FilesInv'
<1> USE DEF FilesInv
<1>1. /\ fetch[c][f] \in Job /\ fetch[c][f].at = "hash" /\ fetch[c][f].fd = "none"
      /\ c \in Users(f) /\ fetch[c][f].meta \in Versions
      /\ UNCHANGED <<remote, final, call, shared>>
  BY DEF FilesTyped, Hash, Users, Held
<1>2. CASE part[f] = Absent
  <2> DEFINE j == [NoJob EXCEPT !.at = "failed"]
  <2>1. Become(c, f, j) /\ part' = part
    BY <1>2 DEF Hash
  <2>2. j \in Job /\ j.at = "failed" /\ j.fd = "none"
    BY JobsMade DEF NoJob, JobStates
  <2> HIDE DEF j
  <2>3. Held(c, f)'
    BY <2>1, <2>2, BecomeOne DEF FilesTyped, Held
  <2> QED BY <1>1, <2>1, <2>2, <2>3, OneJob DEF FilesTyped
<1>3. CASE part[f] # Absent /\ Integrity(fetch[c][f], part[f])
  <2> DEFINE j == [fetch[c][f] EXCEPT !.at = "rename"]
  <2>1. Become(c, f, j) /\ part' = part
    BY <1>3 DEF Hash
  <2>2. /\ j \in Job /\ j.at = "rename" /\ j.fd = "none"
        /\ j.meta = fetch[c][f].meta
    BY <1>1 DEF Job, JobStates
  <2>3. part[f] = WholeFile(j.meta)
    BY <1>3, <2>2 DEF Integrity
  <2> HIDE DEF j
  <2>4. Held(c, f)'
    BY <1>1, <2>1, <2>2, BecomeOne DEF FilesTyped, Held
  <2> QED BY <1>1, <2>1, <2>2, <2>3, <2>4, OneJob DEF FilesTyped
<1>4. CASE part[f] # Absent /\ ~Integrity(fetch[c][f], part[f])
  <2> DEFINE to == [part |-> "gone"]
             j == Attempt(fetch[c][f])
  <2>1. part' = [part EXCEPT ![f] = Absent] /\ Replaced(MoveHandles(f, to), c, f, j)
    BY <1>4 DEF Hash, AfterMismatch, Replaced
  <2>9. Elsewhere(to) /\ DOMAIN to = {"part"} /\ to["part"] = "gone"
    BY DEF Elsewhere
  <2>2. j \in Job /\ j.at \in {"begin", "failed"} /\ j.fd = "none"
    BY <1>1, JobsMade
  <2> HIDE DEF j, to
  <2>3. /\ fetch' \in [ShardCalls -> [RepoFiles -> Job]]
        /\ fetch'[c][f] = j
        /\ \A d \in ShardCalls, g \in RepoFiles : g # f => fetch'[d][g] = fetch[d][g]
        /\ \A d \in ShardCalls \ {c} :
             /\ fetch'[d][f].at = fetch[d][f].at /\ fetch'[d][f].of = fetch[d][f].of
             /\ fetch'[d][f].meta = fetch[d][f].meta
             /\ fetch[d][f].fd # "part" => fetch'[d][f] = fetch[d][f]
             /\ fetch[d][f].fd = "part" => fetch'[d][f].fd = "gone"
    <3>1. /\ fetch' \in [ShardCalls -> [RepoFiles -> Job]]
          /\ fetch'[c][f] = j
          /\ \A d \in ShardCalls, g \in RepoFiles : g # f => fetch'[d][g] = fetch[d][g]
          /\ \A d \in ShardCalls \ {c} : fetch'[d][f] = Moved(fetch[d][f], to)
      BY <2>1, <2>2, <2>9, MoveOne DEF FilesTyped
    <3>2. \A d \in ShardCalls : fetch[d][f] \in Job
      BY DEF FilesTyped
    <3> QED BY <2>9, <3>1, <3>2, MovedIsJob
  <2>4. FilesTyped'
    BY <1>1, <2>1, <2>3 DEF FilesTyped, Contents
  <2>5. ASSUME NEW d \in ShardCalls PROVE Held(d, f)'
    BY <1>1, <2>1, <2>2, <2>3 DEF Held
  <2>6. ASSUME f \notin shared PROVE Alone(f)'
    <3>1. Alone(f)
      BY <2>6
    <3>2. ASSUME NEW d \in ShardCalls \ {c}
          PROVE  fetch'[d][f] = fetch[d][f] /\ d \notin Users(f)
      BY <1>1, <2>3, <3>1 DEF Alone, Held, Users
    <3>3. Users(f)' = {}
      BY <2>2, <2>3, <3>2 DEF Users
    <3>4. ASSUME NEW d \in ShardCalls PROVE fetch'[d][f].fd # "final" /\ fetch'[d][f].at # "rename"
      BY <2>2, <2>3, <3>1, <3>2 DEF Alone, Users
    <3> QED BY <1>1, <3>1, <3>3, <3>4 DEF Alone
  <2> QED BY <1>1, <2>1, <2>3, <2>4, <2>5, <2>6, OneFile DEF FilesTyped
<1> QED BY <1>2, <1>3, <1>4

(* A checked partial file is put in place: it is whole if nobody else was  *)
(* at work on it.                                                          *)
LEMMA RenameKeepsInv ==
  ASSUME FilesInv, NEW c \in ShardCalls, NEW f \in RepoFiles, Rename(c, f)
  PROVE  FilesInv'
<1> USE DEF FilesInv
<1>1. /\ fetch[c][f] \in Job /\ fetch[c][f].at = "rename" /\ fetch[c][f].fd = "none"
      /\ c \in Users(f) /\ fetch[c][f].meta \in Versions
      /\ UNCHANGED <<remote, call, shared>>
  BY DEF FilesTyped, Rename, Users, Held
<1>2. CASE part[f] = Absent
  <2> DEFINE j == [NoJob EXCEPT !.at = "failed"]
  <2>1. Become(c, f, j) /\ UNCHANGED <<part, final>>
    BY <1>2 DEF Rename
  <2>2. j \in Job /\ j.at = "failed" /\ j.fd = "none"
    BY JobsMade DEF NoJob, JobStates
  <2> HIDE DEF j
  <2>3. Held(c, f)'
    BY <2>1, <2>2, BecomeOne DEF FilesTyped, Held
  <2> QED BY <1>1, <2>1, <2>2, <2>3, OneJob DEF FilesTyped
<1>3. CASE part[f] # Absent
  <2> DEFINE to == [part |-> "final", final |-> "gone"]
             j == [NoJob EXCEPT !.at = "done"]
  <2>1. /\ final' = [final EXCEPT ![f] = part[f]]
        /\ part' = [part EXCEPT ![f] = Absent]
        /\ Replaced(MoveHandles(f, to), c, f, j)
    BY <1>3 DEF Rename, Replaced
  <2>9. /\ Elsewhere(to) /\ DOMAIN to = {"part", "final"}
        /\ to["part"] = "final" /\ to["final"] = "gone"
    BY DEF Elsewhere
  <2>2. j \in Job /\ j.at = "done" /\ j.fd = "none"
    BY JobsMade DEF NoJob, JobStates
  <2> HIDE DEF j, to
  <2>3. /\ fetch' \in [ShardCalls -> [RepoFiles -> Job]]
        /\ fetch'[c][f] = j
        /\ \A d \in ShardCalls, g \in RepoFiles : g # f => fetch'[d][g] = fetch[d][g]
        /\ \A d \in ShardCalls \ {c} :
             /\ fetch'[d][f].at = fetch[d][f].at /\ fetch'[d][f].of = fetch[d][f].of
             /\ fetch'[d][f].meta = fetch[d][f].meta
             /\ fetch[d][f].fd \notin {"part", "final"} => fetch'[d][f] = fetch[d][f]
             /\ fetch[d][f].fd = "part" => fetch'[d][f].fd = "final"
             /\ fetch[d][f].fd = "final" => fetch'[d][f].fd = "gone"
    <3>1. /\ fetch' \in [ShardCalls -> [RepoFiles -> Job]]
          /\ fetch'[c][f] = j
          /\ \A d \in ShardCalls, g \in RepoFiles : g # f => fetch'[d][g] = fetch[d][g]
          /\ \A d \in ShardCalls \ {c} : fetch'[d][f] = Moved(fetch[d][f], to)
      BY <2>1, <2>2, <2>9, MoveOne DEF FilesTyped
    <3>2. \A d \in ShardCalls : fetch[d][f] \in Job
      BY DEF FilesTyped
    <3> QED BY <2>9, <3>1, <3>2, MovedIsJob
  <2>4. FilesTyped'
    BY <1>1, <2>1, <2>3 DEF FilesTyped, Contents
  <2>5. ASSUME NEW d \in ShardCalls PROVE Held(d, f)'
    <3>1. final'[f] # Absent
      BY <1>3, <2>1 DEF FilesTyped
    <3>2. CASE d = c
      BY <2>2, <2>3, <3>2 DEF Held
    <3>3. CASE d # c /\ fetch[d][f].fd \notin {"part", "final"}
      BY <2>3, <3>1, <3>3 DEF Held
    <3>4. CASE d # c /\ fetch[d][f].fd \in {"part", "final"}
      BY <2>3, <3>1, <3>4 DEF Held
    <3> QED BY <3>2, <3>3, <3>4
  <2>6. ASSUME f \notin shared PROVE Alone(f)'
    <3>1. Alone(f)
      BY <2>6
    <3>2. ASSUME NEW d \in ShardCalls \ {c}
          PROVE  fetch'[d][f] = fetch[d][f] /\ d \notin Users(f)
      <4>1. d \notin Users(f)
        BY <1>1, <3>1 DEF Alone
      <4>2. fetch[d][f].fd = "none"
        BY <4>1 DEF Held, Users
      <4> QED BY <2>3, <4>1, <4>2
    <3>3. Users(f)' = {}
      BY <2>2, <2>3, <3>2 DEF Users
    <3>4. ASSUME NEW d \in ShardCalls PROVE fetch'[d][f].fd # "final" /\ fetch'[d][f].at # "rename"
      BY <2>2, <2>3, <3>1, <3>2 DEF Alone, Users
    <3>5. final'[f] = WholeFile(fetch[c][f].meta)
      BY <1>1, <2>1, <3>1 DEF Alone, FilesTyped
    <3> QED BY <1>1, <3>3, <3>4, <3>5 DEF Alone
  <2> QED BY <1>1, <2>1, <2>3, <2>4, <2>5, <2>6, OneFile DEF FilesTyped
<1> QED BY <1>2, <1>3

(* A request fails, and the attempt with it.                               *)
LEMMA DropKeepsInv ==
  ASSUME FilesInv, NEW c \in ShardCalls, NEW f \in RepoFiles, LoseConnection(c, f)
  PROVE  FilesInv'
<1> USE DEF FilesInv
<1> DEFINE j == IF fetch[c][f].at = "begin" THEN [NoJob EXCEPT !.at = "done"]
                ELSE Attempt(fetch[c][f])
<1>1. Become(c, f, j) /\ UNCHANGED <<remote, part, final, call, shared>>
  BY DEF LoseConnection
<1>2. j \in Job /\ j.at \in {"begin", "done", "failed"} /\ j.fd = "none"
  <2>1. fetch[c][f] \in Job
    BY DEF FilesTyped
  <2> QED BY <2>1, JobsMade DEF NoJob, JobStates
<1> HIDE DEF j
<1>3. Held(c, f)'
  BY <1>1, <1>2, BecomeOne DEF FilesTyped, Held
<1> QED BY <1>1, <1>2, <1>3, OneJob DEF FilesTyped

-----------------------------------------------------------------------------
(* The invariant holds initially.                                          *)
LEMMA FilesInitInv == FileDownloadInit => FilesInv
<1> SUFFICES ASSUME FileDownloadInit PROVE FilesInv
  OBVIOUS
<1> USE DEF FileDownloadInit
<1>1. FilesTyped
  BY JobsMade, FileDownloadConstants DEF FilesTyped, Contents
<1>2. \A c \in ShardCalls, f \in RepoFiles : Held(c, f) /\ fetch[c][f].at = "off"
                                       /\ fetch[c][f].fd = "none"
  BY DEF Held, NoJob
<1>3. ASSUME NEW f \in RepoFiles PROVE Alone(f)
  BY <1>2 DEF Alone, Users
<1> QED BY <1>1, <1>2, <1>3 DEF FilesInv

(* A call of download_shard begins where it has no job at work.            *)
LEMMA DownloadShardKeepsInv ==
  ASSUME FilesInv, NEW c \in ShardCalls, DownloadShard(c)
  PROVE  FilesInv'
<1> USE DEF FilesInv
<1> DEFINE j == [NoJob EXCEPT !.at = "begin"]
<1>1. /\ fetch' = [fetch EXCEPT ![c] = [f \in RepoFiles |-> j]] /\ call' = c
      /\ UNCHANGED <<remote, part, final, shared>>
  BY DEF DownloadShard
<1>2. j \in Job /\ j.at = "begin" /\ j.fd = "none"
  BY JobsMade DEF NoJob, JobStates
<1> HIDE DEF j
<1>3. /\ fetch' \in [ShardCalls -> [RepoFiles -> Job]]
      /\ \A d \in ShardCalls, f \in RepoFiles :
           fetch'[d][f] = IF d = c THEN j ELSE fetch[d][f]
  BY <1>1, <1>2 DEF FilesTyped
<1>4. FilesTyped'
  BY <1>1, <1>3 DEF FilesTyped
<1>5. ASSUME NEW d \in ShardCalls, NEW f \in RepoFiles PROVE Held(d, f)'
  BY <1>1, <1>2, <1>3 DEF Held
<1>6. ASSUME NEW f \in RepoFiles \ shared PROVE Alone(f)'
  <2>1. Users(f)' \subseteq Users(f)
    BY <1>2, <1>3 DEF Users
  <2> QED BY <1>1, <1>2, <1>3, <2>1 DEF Alone
<1> QED BY <1>1, <1>4, <1>5, <1>6

(* Every step keeps the invariant.                                         *)
LEMMA FilesNextInv == FilesInv /\ [FileDownloadNext]_fdvars => FilesInv'
<1> SUFFICES ASSUME FilesInv, [FileDownloadNext]_fdvars PROVE FilesInv'
  OBVIOUS
<1>1. CASE UNCHANGED fdvars
  BY <1>1 DEF FilesInv, FilesTyped, Held, Alone, Users, fdvars
<1>2. CASE Gathered
  BY <1>2 DEF FilesInv, FilesTyped, Held, Alone, Users, Gathered
<1>3. ASSUME NEW c \in ShardCalls, DownloadShard(c) PROVE FilesInv'
  BY <1>3, DownloadShardKeepsInv
<1>4. ASSUME NEW c \in ShardCalls, NEW f \in RepoFiles, FileStep(c, f) PROVE FilesInv'
  BY <1>4, BeginKeepsInv, FileMetaKeepsInv, GetKeepsInv, ReadKeepsInv,
     ReadEndsKeepsInv, HashKeepsInv, RenameKeepsInv DEF FileStep
<1>5. ASSUME NEW c \in ShardCalls, NEW f \in RepoFiles, LoseConnection(c, f) PROVE FilesInv'
  BY <1>5, DropKeepsInv
<1>6. ASSUME NEW f \in RepoFiles, Commit(f) PROVE FilesInv'
  <2>1. FilesTyped'
    BY <1>6 DEF FilesInv, FilesTyped, Commit
  <2> QED BY <1>6, <2>1 DEF FilesInv, Held, Alone, Users, Commit
<1> QED BY <1>1, <1>2, <1>3, <1>4, <1>5, <1>6 DEF FileDownloadNext

(* However calls of download_shard follow one another, requests fail and   *)
(* commits come in, a file in place that two calls never worked on at once *)
(* is one whole version of it, and no job goes past its last attempt.      *)
THEOREM FilesAreWhole == FileDownloadSpec => []WholeFiles
<1>1. FilesInv => WholeFiles
  <2> SUFFICES ASSUME FilesInv PROVE WholeFiles
    OBVIOUS
  <2>1. FileDownloadTypeOK
    BY DEF FilesInv, FilesTyped, FileDownloadTypeOK, Job
  <2>2. Intact
    BY DEF FilesInv, Alone, Intact
  <2> QED BY <2>1, <2>2 DEF WholeFiles
<1> QED BY <1>1, FilesInitInv, FilesNextInv, PTL DEF FileDownloadSpec

-----------------------------------------------------------------------------
(* The books.                                                              *)

Disks == {"none", "partial", "complete"}

Wrapper == [state : {"new", "waiting"} \cup Results, cancelled : BOOLEAN, shard : Shards]

Task == [state : {"none", "running", "report", "cancelling"} \cup Results]

Cmd == [kind : {"start"}, shard : Shards] \cup [kind : {"delete", "cancel"}]

BooksTyped ==
  /\ disk \in Disks
  /\ status \in Reports /\ heard \in Reports
  /\ cmds \in Seq(Cmd)
  /\ cp \in {Waiting} \cup [at : {"resolve", "probe"}, shard : Shards] \cup [at : {"rmtree"}]
  /\ wrap \in [1 .. MaxLive -> {NoWrapper} \cup Wrapper]
  /\ active \in {0} \cup 1 .. MaxLive
  /\ task \in [Shards -> Task]
  /\ scan \in {Waiting} \cup [at : {"check", "resolve"}, read : Disks]
  /\ fin \in BOOLEAN /\ raced \in BOOLEAN

(* An entry of active_downloads is that of a download that still runs.     *)
Entered == active # 0 => wrap[active] \in Wrapper

Real == Found \/ raced

(* Whoever is about to report the model complete has seen it complete, and *)
(* so it is, unless it was deleted since.                                  *)
SeenComplete ==
  /\ status = "completed" => Real
  /\ fin => Real
  /\ \A s \in Shards : task[s].state = "report" => Real
  /\ scan.at # "idle" /\ scan.read = "complete" => Real

BooksInv == BooksTyped /\ Entered /\ SeenComplete

-----------------------------------------------------------------------------
(* A download that runs is not the absence of one.                         *)
LEMMA WrappersDiffer ==
  /\ NoWrapper \notin Wrapper
  /\ \A v \in Wrapper : /\ v # NoWrapper
                        /\ \A b \in BOOLEAN : [v EXCEPT !.cancelled = b] \in Wrapper
                        /\ \A x \in {"waiting"} \cup Results :
                             [v EXCEPT !.state = x] \in Wrapper
  BY DEF NoWrapper, Wrapper, Results

(* Cancelling what is active leaves it in place.                           *)
LEMMA CancelledRuns ==
  ASSUME BooksInv, wrap' = Cancelled, active' = active
  PROVE  wrap' \in [1 .. MaxLive -> {NoWrapper} \cup Wrapper] /\ Entered'
<1>1. CASE active = 0
  BY <1>1 DEF BooksInv, BooksTyped, Entered, Cancelled
<1>2. CASE active # 0
  <2>1. active \in 1 .. MaxLive /\ wrap[active] \in Wrapper
    BY <1>2 DEF BooksInv, BooksTyped, Entered
  <2>2. wrap' = [wrap EXCEPT ![active] = [wrap[active] EXCEPT !.cancelled = TRUE]]
    BY <1>2 DEF Cancelled
  <2>3. [wrap[active] EXCEPT !.cancelled = TRUE] \in Wrapper
    BY <2>1, WrappersDiffer
  <2> QED BY <2>1, <2>2, <2>3 DEF BooksInv, BooksTyped, Entered
<1> QED BY <1>1, <1>2

(* The end of a task wakes those who wait for it, and ends none of them.   *)
LEMMA SettledRuns ==
  ASSUME BooksInv, NEW s \in Shards, NEW result \in Results, Settle(s, result), active' = active
  PROVE  /\ wrap' \in [1 .. MaxLive -> {NoWrapper} \cup Wrapper] /\ Entered'
         /\ task' \in [Shards -> Task]
         /\ \A t \in Shards : task'[t].state = "report" => task[t].state = "report"
<1>1. ASSUME NEW w \in 1 .. MaxLive
      PROVE  /\ wrap'[w] \in {NoWrapper} \cup Wrapper
             /\ wrap[w] \in Wrapper => wrap'[w] \in Wrapper
  <2>1. wrap[w] \in {NoWrapper} \cup Wrapper
    BY DEF BooksInv, BooksTyped
  <2>2. wrap'[w] = IF wrap[w].state = "waiting" /\ wrap[w].shard = s
                   THEN [wrap[w] EXCEPT !.state = result] ELSE wrap[w]
    BY DEF Settle, BooksInv, BooksTyped
  <2>3. wrap[w].state = "waiting" => wrap[w] \in Wrapper
    BY <2>1 DEF NoWrapper
  <2> QED BY <2>1, <2>2, <2>3, WrappersDiffer
<1>2. wrap' \in [1 .. MaxLive -> {NoWrapper} \cup Wrapper]
  <2>1. wrap' = [w \in 1 .. MaxLive |->
                   IF wrap[w].state = "waiting" /\ wrap[w].shard = s
                   THEN [wrap[w] EXCEPT !.state = result] ELSE wrap[w]]
    BY DEF Settle, BooksInv, BooksTyped
  <2> QED BY <1>1, <2>1
<1>3. Entered'
  BY <1>1 DEF BooksInv, BooksTyped, Entered
<1>4. task' \in [Shards -> Task] /\ task'[s].state = result
      /\ \A t \in Shards \ {s} : task'[t] = task[t]
  BY DEF Settle, BooksInv, BooksTyped, Task
<1> QED BY <1>2, <1>3, <1>4 DEF Results

-----------------------------------------------------------------------------
(* The books are empty at first.                                           *)
LEMMA BooksInitInv == DownloadsInit => BooksInv
<1> SUFFICES ASSUME DownloadsInit PROVE BooksInv
  OBVIOUS
<1>1. BooksTyped
  <2>1. wrap \in [1 .. MaxLive -> {NoWrapper} \cup Wrapper]
    BY DEF DownloadsInit
  <2>2. task \in [Shards -> Task]
    BY DEF DownloadsInit, NoTask, Task
  <2>3. << >> \in Seq(Cmd)
    OBVIOUS
  <2> QED BY <2>1, <2>2, <2>3 DEF DownloadsInit, BooksTyped, Disks, Reports
<1>2. Entered /\ SeenComplete
  BY DEF DownloadsInit, Entered, SeenComplete, NoTask, Waiting
<1> QED BY <1>1, <1>2 DEF BooksInv

(* The commands of the worker, the API and the master only wait.           *)
LEMMA SendersKeepInv ==
  ASSUME BooksInv,
         \/ \E s \in Shards : WorkerAsks(s)
         \/ \E k \in {"delete", "cancel"} : SendCommand(k)
  PROVE  BooksInv'
<1> USE DEF BooksInv
<1>1. ASSUME NEW s \in Shards, WorkerAsks(s) PROVE BooksInv'
  <2>1. cmds' \in Seq(Cmd) /\ heard' \in Reports
    <3>1. [kind |-> "start", shard |-> s] \in Cmd
      BY DEF Cmd
    <3> QED BY <1>1, <3>1 DEF WorkerAsks, BooksTyped, Reports
  <2> QED BY <1>1, <2>1 DEF WorkerAsks, BooksTyped, Entered, SeenComplete, Real, Found
<1>2. ASSUME NEW k \in {"delete", "cancel"}, SendCommand(k) PROVE BooksInv'
  <2>1. cmds' \in Seq(Cmd)
    <3>1. [kind |-> k] \in Cmd
      BY DEF Cmd
    <3> QED BY <1>2, <3>1 DEF SendCommand, BooksTyped
  <2> QED BY <1>2, <2>1 DEF SendCommand, BooksTyped, Entered, SeenComplete, Real, Found
<1> QED BY <1>1, <1>2

(* The command processor: it reports the model complete when it has found  *)
(* it, and a deletion that overtakes a check is marked as a race.          *)
LEMMA CoordinatorKeepsInv ==
  ASSUME BooksInv, CoordinatorStep
  PROVE  BooksInv'
<1> USE DEF BooksInv
<1>0. ASSUME cmds # << >> PROVE Head(cmds) \in Cmd /\ Tail(cmds) \in Seq(Cmd)
  BY <1>0 DEF BooksTyped
<1>1. CASE CancelDownload
  <2>1. wrap' \in [1 .. MaxLive -> {NoWrapper} \cup Wrapper] /\ Entered'
    BY <1>1, CancelledRuns DEF CancelDownload, BooksTyped, Entered
  <2>2. status' \in Reports /\ heard' \in Reports /\ (status' = "completed" => Real)
    BY <1>1 DEF CancelDownload, BooksTyped, Report, Reports, SeenComplete
  <2> QED BY <1>0, <1>1, <2>1, <2>2 DEF CancelDownload, BooksTyped, SeenComplete, Real, Found
<1>2. CASE StartDownload
  <2>1. Head(cmds).shard \in Shards
    BY <1>0, <1>2 DEF StartDownload, Cmd
  <2>2. cp' = Waiting \/ cp' = [at |-> "resolve", shard |-> Head(cmds).shard]
    BY <1>2 DEF StartDownload
  <2> QED BY <1>0, <1>2, <2>1, <2>2
          DEF StartDownload, BooksTyped, Entered, SeenComplete, Real, Found
<1>3. CASE StartResolved
  <2>1. cp' = Waiting \/ cp' \in [at : {"resolve", "probe"}, shard : Shards]
    BY <1>3 DEF StartResolved, BooksTyped, Waiting
  <2>2. status' \in Reports /\ heard' \in Reports /\ (status' = "completed" => Real)
    BY <1>3 DEF StartResolved, Report, Reports, Real
  <2> QED BY <1>3, <2>1, <2>2 DEF StartResolved, BooksTyped, Entered, SeenComplete, Real, Found
<1>4. CASE StartProbed
  <2>1. status' \in Reports /\ heard' \in Reports /\ (status' = "completed" => Real)
    BY <1>4 DEF StartProbed, Report, Reports, Real
  <2>2. /\ wrap' \in [1 .. MaxLive -> {NoWrapper} \cup Wrapper]
        /\ active' \in {0} \cup 1 .. MaxLive /\ Entered'
    <3>1. CASE UNCHANGED <<active, wrap>>
      BY <3>1 DEF BooksTyped, Entered
    <3>2. CASE ~UNCHANGED <<active, wrap>>
      <4>1. PICK w \in DOMAIN wrap :
              /\ wrap' = [wrap EXCEPT ![w] =
                            [state |-> "new", cancelled |-> FALSE, shard |-> cp.shard]]
              /\ active' = w
        BY <1>4, <3>2 DEF StartProbed
      <4>2. [state |-> "new", cancelled |-> FALSE, shard |-> cp.shard] \in Wrapper
        BY <1>4 DEF StartProbed, BooksTyped, Wrapper, Waiting
      <4> QED BY <4>1, <4>2 DEF BooksTyped, Entered
    <3> QED BY <3>1, <3>2
  <2> QED BY <1>4, <2>1, <2>2 DEF StartProbed, BooksTyped, SeenComplete, Real, Found
<1>5. CASE DeleteDownload
  <2>1. wrap' \in [1 .. MaxLive -> {NoWrapper} \cup Wrapper] /\ Entered'
    BY <1>5, CancelledRuns DEF DeleteDownload
  <2> QED BY <1>0, <1>5, <2>1 DEF DeleteDownload, BooksTyped, SeenComplete, Real, Found
<1>6. CASE Deleted
  <2>1. BooksTyped'
    BY <1>6 DEF Deleted, BooksTyped, Reports, Disks
  <2>2. SeenComplete'
    BY <1>6 DEF Deleted, SeenComplete, Real, Checking, BooksTyped, Disks
  <2> QED BY <1>6, <2>1, <2>2 DEF Deleted, Entered
<1> QED BY <1>1, <1>2, <1>3, <1>4, <1>5, <1>6 DEF CoordinatorStep

(* download_wrapper: when one ends, nothing is active any more.            *)
LEMMA WrappersKeepInv ==
  ASSUME BooksInv, NEW w \in DOMAIN wrap, Downloading(w)
  PROVE  BooksInv'
<1> USE DEF BooksInv
<1>0. w \in 1 .. MaxLive /\ wrap[w] \in {NoWrapper} \cup Wrapper
  BY DEF BooksTyped
<1>1. CASE WrapperBegins(w)
  <2> DEFINE t == Join(wrap[w].shard)
  <2>1. wrap[w] \in Wrapper /\ wrap[w].shard \in Shards
    BY <1>0, <1>1 DEF WrapperBegins, NoWrapper, Wrapper
  <2>2. t \in Task /\ (t.state = "report" => task[wrap[w].shard].state = "report")
    BY <2>1 DEF BooksTyped, Join, Task
  <2>3. /\ wrap' = [wrap EXCEPT ![w] = [wrap[w] EXCEPT
                      !.state = IF t.state \in Results THEN t.state ELSE "waiting"]]
        /\ task' = [task EXCEPT ![wrap[w].shard] = t]
    BY <1>1 DEF WrapperBegins
  <2>4. [wrap[w] EXCEPT !.state = IF t.state \in Results THEN t.state ELSE "waiting"]
          \in Wrapper
    BY <2>1, WrappersDiffer
  <2> HIDE DEF t
  <2>5. wrap' \in [1 .. MaxLive -> {NoWrapper} \cup Wrapper] /\ Entered'
    BY <1>0, <1>1, <2>3, <2>4 DEF BooksTyped, Entered, WrapperBegins
  <2>6. /\ task' \in [Shards -> Task]
        /\ \A s \in Shards : task'[s].state = "report" => task[s].state = "report"
    BY <2>1, <2>2, <2>3 DEF BooksTyped
  <2> QED BY <1>1, <2>5, <2>6 DEF WrapperBegins, BooksTyped, SeenComplete, Real, Found
<1>2. CASE CancelReachesTask(w)
  <2>1. wrap[w] \in Wrapper /\ wrap[w].shard \in Shards
    BY <1>0, <1>2 DEF CancelReachesTask, NoWrapper, Wrapper
  <2>2. /\ task' \in [Shards -> Task]
        /\ \A s \in Shards : task'[s].state = "report" => task[s].state = "report"
    BY <1>2, <2>1 DEF CancelReachesTask, BooksTyped, Task
  <2> QED BY <1>2, <2>2 DEF CancelReachesTask, BooksTyped, Entered, SeenComplete, Real, Found
<1>3. CASE WrapperEnds(w)
  <2>1. wrap[w] \in Wrapper /\ wrap[w].shard \in Shards
    BY <1>0, <1>3 DEF WrapperEnds, NoWrapper, Wrapper, Results
  <2>2. wrap' \in [1 .. MaxLive -> {NoWrapper} \cup Wrapper] /\ active' = 0
    BY <1>0, <1>3 DEF WrapperEnds, BooksTyped, Popped
  <2>3. /\ task' \in [Shards -> Task]
        /\ \A s \in Shards : task'[s].state = "report" => task[s].state = "report"
    <3>1. task' = [task EXCEPT ![wrap[w].shard] =
                     IF task[wrap[w].shard].state \in Results THEN NoTask
                     ELSE task[wrap[w].shard]]
      BY <1>3 DEF WrapperEnds
    <3>2. NoTask \in Task /\ NoTask.state = "none"
      BY DEF NoTask, Task
    <3> QED BY <2>1, <3>1, <3>2 DEF BooksTyped
  <2>4. status' \in Reports /\ heard' \in Reports /\ (status' = "completed" => Real)
    BY <1>3 DEF WrapperEnds, Report, Reports, BooksTyped, SeenComplete
  <2> QED BY <1>3, <2>2, <2>3, <2>4 DEF WrapperEnds, BooksTyped, Entered, SeenComplete, Real, Found
<1> QED BY <1>1, <1>2, <1>3 DEF Downloading

(* The task: what it reports complete it has completed.                    *)
LEMMA TasksKeepInv ==
  ASSUME BooksInv, NEW s \in Shards,
         \/ Receive(s) \/ DownloadComplete(s) \/ TaskReports(s) \/ Fail(s) \/ TaskCancelled(s)
  PROVE  BooksInv'
<1> USE DEF BooksInv
<1>1. CASE Receive(s)
  BY <1>1 DEF Receive, BooksTyped, Entered, SeenComplete, Real, Found, Disks
<1>2. CASE DownloadComplete(s)
  <2>1. task' \in [Shards -> Task]
    BY <1>2 DEF DownloadComplete, BooksTyped, Task
  <2> QED BY <1>2, <2>1 DEF DownloadComplete, BooksTyped, Entered, SeenComplete, Real, Found, Disks
<1>3. CASE TaskReports(s)
  <2>1. Settle(s, "ok") /\ active' = active /\ Real
    BY <1>3 DEF TaskReports, SeenComplete
  <2>2. /\ wrap' \in [1 .. MaxLive -> {NoWrapper} \cup Wrapper] /\ Entered'
        /\ task' \in [Shards -> Task]
        /\ \A t \in Shards : task'[t].state = "report" => task[t].state = "report"
    BY <2>1, SettledRuns DEF Results
  <2> QED BY <1>3, <2>1, <2>2
          DEF TaskReports, Report, Reports, BooksTyped, SeenComplete, Real, Found
<1>4. CASE Fail(s)
  <2>1. /\ wrap' \in [1 .. MaxLive -> {NoWrapper} \cup Wrapper] /\ Entered'
        /\ task' \in [Shards -> Task]
        /\ \A t \in Shards : task'[t].state = "report" => task[t].state = "report"
    BY <1>4, SettledRuns DEF Fail, Results
  <2> QED BY <1>4, <2>1 DEF Fail, BooksTyped, SeenComplete, Real, Found
<1>5. CASE TaskCancelled(s)
  <2>1. /\ wrap' \in [1 .. MaxLive -> {NoWrapper} \cup Wrapper] /\ Entered'
        /\ task' \in [Shards -> Task]
        /\ \A t \in Shards : task'[t].state = "report" => task[t].state = "report"
    BY <1>5, SettledRuns DEF TaskCancelled, Results
  <2> QED BY <1>5, <2>1 DEF TaskCancelled, BooksTyped, SeenComplete, Real, Found
<1> QED BY <1>1, <1>2, <1>3, <1>4, <1>5

(* The callbacks: only the last one reports the model complete.            *)
LEMMA CallbacksKeepInv ==
  ASSUME BooksInv, ProgressCallback \/ CompleteCallback
  PROVE  BooksInv'
<1> USE DEF BooksInv
<1>1. CASE ProgressCallback
  BY <1>1 DEF ProgressCallback, Report, Reports, BooksTyped, Entered, SeenComplete, Real, Found
<1>2. CASE CompleteCallback
  BY <1>2 DEF CompleteCallback, Report, Reports, BooksTyped, Entered, SeenComplete, Real, Found
<1> QED BY <1>1, <1>2

(* The scan: what it writes was true when it read, or is true as it looks  *)
(* again.                                                                  *)
LEMMA ScanKeepsInv ==
  ASSUME BooksInv, ScanStep
  PROVE  BooksInv'
<1> USE DEF BooksInv
<1>1. CASE ScanReads
  <2>1. scan' \in [at : {"check", "resolve"}, read : Disks] /\ scan'.read = disk
    BY <1>1 DEF ScanReads, BooksTyped
  <2> QED BY <1>1, <2>1 DEF ScanReads, BooksTyped, Entered, SeenComplete, Real, Found
<1>2. CASE ScanChecks
  <2>1. scan \in [at : {"check", "resolve"}, read : Disks]
    BY <1>2 DEF ScanChecks, BooksTyped, Waiting
  <2>2. \/ scan' = Waiting
        \/ scan' \in [at : {"check", "resolve"}, read : Disks] /\ scan'.read = scan.read
    BY <1>2, <2>1 DEF ScanChecks
  <2> QED BY <1>2, <2>1, <2>2 DEF ScanChecks, BooksTyped, Entered, SeenComplete, Real, Found, Waiting
<1>3. CASE ScanWrites
  <2>1. status' \in Reports /\ heard' \in Reports /\ (status' = "completed" => Real)
    BY <1>3 DEF ScanWrites, Report, Reports, TakenForComplete, SeenComplete, Real
  <2> QED BY <1>3, <2>1 DEF ScanWrites, BooksTyped, Entered, SeenComplete, Real, Found, Waiting
<1> QED BY <1>1, <1>2, <1>3 DEF ScanStep

(* Every step keeps the invariant.                                         *)
LEMMA BooksNextInv == BooksInv /\ [DownloadsNext]_dlvars => BooksInv'
<1> SUFFICES ASSUME BooksInv, [DownloadsNext]_dlvars PROVE BooksInv'
  OBVIOUS
<1>1. CASE UNCHANGED dlvars
  BY <1>1 DEF BooksInv, BooksTyped, Entered, SeenComplete, Real, Found, dlvars
<1>2. CASE DownloadsNext
  BY <1>2, SendersKeepInv, CoordinatorKeepsInv, WrappersKeepInv, TasksKeepInv,
     CallbacksKeepInv, ScanKeepsInv DEF DownloadsNext
<1> QED BY <1>1, <1>2

(* What the coordinator takes for complete is on the disk, unless it was   *)
(* deleted while somebody was checking it, and what it takes for running   *)
(* runs: however commands, callbacks, scans and failures interleave.       *)
THEOREM BooksStayTrue == DownloadsSpec => []BooksAreTrue
<1>1. BooksInv => BooksAreTrue
  <2> SUFFICES ASSUME BooksInv PROVE BooksAreTrue
    OBVIOUS
  <2>1. DOMAIN wrap = 1 .. MaxLive
    BY DEF BooksInv, BooksTyped
  <2>2. \A w \in DOMAIN wrap : wrap[w].state \in {"new", "waiting", "over"} \cup Results
    BY DEF BooksInv, BooksTyped, NoWrapper, Wrapper
  <2>3. active = 0 \/ (active \in DOMAIN wrap /\ wrap[active] # NoWrapper)
    BY <2>1, WrappersDiffer DEF BooksInv, BooksTyped, Entered
  <2>4. DownloadsTypeOK
    BY <2>2, <2>3 DEF BooksInv, BooksTyped, DownloadsTypeOK, Disks
  <2>5. CompletedIsReal
    BY DEF BooksInv, SeenComplete, CompletedIsReal, Real
  <2> QED BY <2>4, <2>5 DEF BooksAreTrue
<1> QED BY <1>1, BooksInitInv, BooksNextInv, PTL DEF DownloadsSpec
=============================================================================
