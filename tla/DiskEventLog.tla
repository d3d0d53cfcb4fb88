---------------------------- MODULE DiskEventLog ----------------------------
(***************************************************************************)
(* The append-only log the master and the API keep of the events           *)
(* (utils/disk_event_log.py).  A record is a header that holds the length  *)
(* of a payload, and the payload; writes are buffered, so that the disk    *)
(* holds a prefix, torn anywhere, of what was written.  A bounded cache of *)
(* byte offsets makes reads from the middle fast.  A log that is closed,   *)
(* or found after a crash, is compressed into an archive.                  *)
(*                                                                         *)
(* read_range is a generator of the event loop: RequestEventLog sends the  *)
(* events one by one, and events are appended in between.  read_all runs   *)
(* in a thread (GET /events), so that each of its steps can fall between   *)
(* two steps of append.  API.reset and a new Master close the log and open *)
(* a new one at the same path.                                             *)
(***************************************************************************)
EXTENDS Integers, Sequences, SequencesExt, FiniteSets, FiniteSetsExt, Selections

CONSTANTS PayloadSizes,   \* sequence: the payload length of event 1, 2, ...
          CacheSize,      \* _OFFSET_CACHE_SIZE
          MaxArchives,    \* _MAX_ARCHIVES
          MaxLogs,        \* bound: logs opened one after the other
          MaxReads        \* bound: range reads

ASSUME DiskEventLogAssumption ==
  /\ PayloadSizes \in Seq(Nat \ {0})
  /\ CacheSize \in Nat \ {0} /\ MaxArchives \in Nat \ {0}
  /\ MaxLogs \in Nat \ {0} /\ MaxReads \in Nat

VARIABLES logs,      \* the files, by the log that wrote them: written and on disk,
                     \* and the events that were appended, with their offsets (history)
          lcount,    \* _count of the open log
          offsets,   \* _offset_cache, least recently used first
          appending, \* where append is: "idle", "header", "payload"
          ranged,    \* the read_range generator
          whole,     \* the read_all generator
          archives,  \* the archived logs, oldest first
          nreads     \* number of range reads so far

logvars == <<logs, lcount, offsets, appending, ranged, whole, archives, nreads>>

Events == DOMAIN PayloadSizes

(* The units of a file: a header unit, and units of a payload.             *)
Header(e) == [ev |-> e, part |-> 0]
Payload(e) == [i \in 1 .. PayloadSizes[e] |-> [ev |-> e, part |-> i]]

NewFile == [written |-> << >>, ondisk |-> 0, recs |-> << >>]
Open == Len(logs)
OnDisk(l) == SubSeq(logs[l].written, 1, logs[l].ondisk)

(* The events that were appended to a log, in order.                       *)
Recorded(l) == [i \in DOMAIN logs[l].recs |-> logs[l].recs[i].ev]

NoRange == [pc |-> "idle", log |-> 0, pos |-> 0, left |-> 0, start |-> 0, end |-> 0, got |-> << >>]
NoWhole == [pc |-> "idle", self |-> 0, log |-> 0, pos |-> 0, left |-> 0, got |-> << >>]

LogInit ==
  /\ logs = <<NewFile>> /\ lcount = 0 /\ offsets = << >> /\ appending = "idle"
  /\ ranged = NoRange /\ whole = NoWhole /\ archives = << >> /\ nreads = 0

-----------------------------------------------------------------------------
(* Reading a file.                                                         *)

\* A seeded fault: the payload is taken to be there when the header is.
HeaderOnly(f, pos) == IF pos >= Len(f) THEN 0 ELSE pos + 1 + PayloadSizes[f[pos + 1].ev]

(* _read_record: where the next record ends, 0 if it is not all there.     *)
RecordEnd(f, pos) ==
  IF pos >= Len(f) THEN 0
  ELSE LET end == pos + 1 + PayloadSizes[f[pos + 1].ev]
       IN  IF end <= Len(f) THEN end ELSE 0

(* _skip_record, n times.                                                  *)
Skipped(f, pos, n) ==
  LET at[i \in 0 .. n] ==
        IF i = 0 THEN pos
        ELSE IF at[i - 1] >= Len(f) THEN at[i - 1]
        ELSE at[i - 1] + 1 + PayloadSizes[f[at[i - 1] + 1].ev]
  IN  at[n]

(* _cache_offset.                                                          *)
CacheOffset(c, i, off) ==
  LET moved == Append(Those(c, {j \in DOMAIN c : c[j].idx # i}), [idx |-> i, off |-> off])
  IN  IF Len(moved) > CacheSize THEN Tail(moved) ELSE moved

\* A seeded fault: the scan starts behind the record the offset belongs to.
OneBehind(before) == IF before = << >> THEN [idx |-> 0, off |-> 0]
                     ELSE [Last(before) EXCEPT !.idx = @ + 1]

(* Where the scan of _seek_to starts: the last entry that its loop over    *)
(* the cache finds before the target.                                      *)
ScanFrom(before) == IF before = << >> THEN [idx |-> 0, off |-> 0] ELSE Last(before)

(* _seek_to: the offset of event i, and the cache after it.                *)
SeekTo(f, c, i) ==
  LET hit == Those(c, {j \in DOMAIN c : c[j].idx = i})
      from == ScanFrom(Those(c, {j \in DOMAIN c : c[j].idx < i}))
      off == IF hit # << >> THEN hit[1].off ELSE Skipped(f, from.off, i - from.idx)
  IN  [off |-> off, cache |-> CacheOffset(c, i, off)]

-----------------------------------------------------------------------------
(* append, in the three steps a thread can tell apart.                     *)

LogAfter(f, units, recs) ==
  [f EXCEPT !.written = f.written \o units, !.recs = f.recs \o recs]
Write(units, recs) == logs' = [logs EXCEPT ![Open] = LogAfter(logs[Open], units, recs)]

Latest == Max({0} \cup UNION {{u.ev : u \in Range(logs[l].written)} : l \in DOMAIN logs})

AppendHeader ==
  /\ appending = "idle" /\ Latest + 1 \in Events
  /\ Write(<<Header(Latest + 1)>>, <<[ev |-> Latest + 1, at |-> Len(logs[Open].written)]>>)
  /\ appending' = "header"
  /\ UNCHANGED <<lcount, offsets, ranged, whole, archives, nreads>>

AppendPayload ==
  /\ appending = "header"
  /\ Write(Payload(Last(logs[Open].written).ev), << >>)
  /\ appending' = "payload"
  /\ UNCHANGED <<lcount, offsets, ranged, whole, archives, nreads>>

AppendCount ==
  /\ appending = "payload"
  /\ lcount' = lcount + 1
  /\ appending' = "idle"
  /\ UNCHANGED <<logs, offsets, ranged, whole, archives, nreads>>

(* The buffer of the file is full: a part of it goes to the disk.          *)
Spill ==
  /\ \E n \in logs[Open].ondisk + 1 .. Len(logs[Open].written) :
       logs' = [logs EXCEPT ![Open].ondisk = n]
  /\ UNCHANGED <<lcount, offsets, appending, ranged, whole, archives, nreads>>

-----------------------------------------------------------------------------
(* read_range, from the event loop.                                        *)

\* A seeded fault: the file is read without a flush.
NotFlushed(f) == f

Flushed(f) == [f EXCEPT !.ondisk = Len(f.written)]

RangeStart(start, upto) ==
  /\ appending = "idle" /\ ranged.pc = "idle" /\ nreads < MaxReads
  /\ nreads' = nreads + 1
  /\ LET end == Min({upto, lcount})
         f == Flushed(logs[Open])
         s == SeekTo(SubSeq(f.written, 1, f.ondisk), offsets, start)
     IN  IF start >= end
         THEN UNCHANGED <<logs, offsets, ranged>>
         ELSE /\ logs' = [logs EXCEPT ![Open] = f]
              /\ offsets' = s.cache
              /\ ranged' = [pc |-> "reading", log |-> Open, pos |-> s.off,
                            left |-> end - start, start |-> start, end |-> end,
                            got |-> << >>]
  /\ UNCHANGED <<lcount, appending, whole, archives>>

RangeNext ==
  /\ appending = "idle" /\ ranged.pc = "reading" /\ ranged.left > 0
  /\ LET f == OnDisk(ranged.log)
         to == RecordEnd(f, ranged.pos)
     IN  ranged' = IF to = 0 THEN [ranged EXCEPT !.left = 0]
                   ELSE [ranged EXCEPT !.pos = to, !.left = @ - 1,
                                       !.got = Append(@, f[ranged.pos + 1].ev)]
  /\ UNCHANGED <<logs, lcount, offsets, appending, whole, archives, nreads>>

(* The end of the generator, which remembers where it ended.  The cache is *)
(* that of the log it belongs to: one that is closed has no use of it.     *)
RangeEnd ==
  /\ appending = "idle" /\ ranged.pc = "reading" /\ ranged.left = 0
  /\ offsets' = IF ranged.log = Open /\ ranged.end < lcount
                THEN CacheOffset(offsets, ranged.end, ranged.pos) ELSE offsets
  /\ ranged' = [ranged EXCEPT !.pc = "done"]
  /\ UNCHANGED <<logs, lcount, appending, whole, archives, nreads>>

RangeForgotten ==
  /\ ranged.pc = "done" /\ ranged' = NoRange
  /\ UNCHANGED <<logs, lcount, offsets, appending, whole, archives, nreads>>

-----------------------------------------------------------------------------
(* read_all, from a thread.                                                *)

WholeStart ==
  /\ whole.pc = "idle" /\ lcount > 0
  /\ whole' = [whole EXCEPT !.pc = "flush", !.self = Open]
  /\ UNCHANGED <<logs, lcount, offsets, appending, ranged, archives, nreads>>

(* A flush of a closed file raises.                                        *)
WholeFlush ==
  /\ whole.pc = "flush"
  /\ IF whole.self = Open
     THEN /\ logs' = [logs EXCEPT ![Open] = Flushed(logs[Open])]
          /\ whole' = [whole EXCEPT !.pc = "open"]
     ELSE whole' = NoWhole /\ UNCHANGED logs
  /\ UNCHANGED <<lcount, offsets, appending, ranged, archives, nreads>>

(* open finds whatever log is at the path by then; range(self._count) is   *)
(* the count of the generator's own log, closed or not.                    *)
WholeOpen ==
  /\ whole.pc = "open"
  /\ whole' = [whole EXCEPT !.pc = "reading", !.log = Open,
                            !.left = IF whole.self = Open THEN lcount
                                     ELSE Len(Recorded(whole.self))]
  /\ UNCHANGED <<logs, lcount, offsets, appending, ranged, archives, nreads>>

WholeNext ==
  /\ whole.pc = "reading"
  /\ LET f == OnDisk(whole.log)
         to == RecordEnd(f, whole.pos)
     IN  whole' = IF whole.left = 0 \/ to = 0 THEN NoWhole
                  ELSE [whole EXCEPT !.pos = to, !.left = @ - 1,
                                     !.got = Append(@, f[whole.pos + 1].ev)]
  /\ UNCHANGED <<logs, lcount, offsets, appending, ranged, archives, nreads>>

-----------------------------------------------------------------------------
(* Closing, crashing, archiving.                                           *)

Pruned(as) == SubSeq(as, Max({1, Len(as) - MaxArchives + 1}), Len(as))

(* _rotate: compress, delete the source, prune; whatever goes wrong, the   *)
(* source is gone.                                                         *)
Rotate(l) ==
  \/ archives' = Pruned(Append(archives, l))
  \/ UNCHANGED archives

(* close and the next log's __init__.  A log without events is removed.    *)
Reopen ==
  /\ appending = "idle" /\ Open < MaxLogs
  /\ logs' = Append([logs EXCEPT ![Open] = Flushed(logs[Open])], NewFile)
  /\ IF lcount > 0 THEN Rotate(Open) ELSE UNCHANGED archives
  /\ lcount' = 0 /\ offsets' = << >>
  /\ UNCHANGED <<appending, ranged, whole, nreads>>

(* The process dies, at any point, with what is in its buffer; the next    *)
(* one rotates the file it finds.                                          *)
LogCrash ==
  /\ Open < MaxLogs
  /\ logs' = Append([logs EXCEPT ![Open].written = OnDisk(Open)], NewFile)
  /\ Rotate(Open)
  /\ lcount' = 0 /\ offsets' = << >> /\ appending' = "idle"
  /\ ranged' = NoRange /\ whole' = NoWhole
  /\ UNCHANGED nreads

LogNext ==
  \/ AppendHeader \/ AppendPayload \/ AppendCount \/ Spill
  \/ \E start \in 0 .. Len(PayloadSizes), upto \in 1 .. Len(PayloadSizes) : RangeStart(start, upto)
  \/ RangeNext \/ RangeEnd \/ RangeForgotten
  \/ WholeStart \/ WholeFlush \/ WholeOpen \/ WholeNext
  \/ Reopen \/ LogCrash

LogSpec == LogInit /\ [][LogNext]_logvars

-----------------------------------------------------------------------------
(* Properties.                                                             *)

(* A range read that has ended has yielded the events from its start to    *)
(* its end, all of them and in order, whatever was appended, read, cached  *)
(* and evicted in the meantime: a node that asks for the events it lacks   *)
(* gets those and not others under their indices.                          *)
RangeExact ==
  ranged.pc = "done" =>
    ranged.got = SubSeq(Recorded(ranged.log), ranged.start + 1, ranged.end)

(* Each cached offset is where its event's record begins.                  *)
OffsetsExact ==
  \A i \in DOMAIN offsets :
    offsets[i].off = logs[Open].recs[offsets[i].idx + 1].at

(* A thread that reads the whole log while events are appended, spilled    *)
(* and flushed, or the log is replaced, sees a prefix of one log: events   *)
(* in order, and none whose record is not all on the disk.                 *)
WholeIsPrefix ==
  whole.log # 0 => /\ IsPrefix(whole.got, Recorded(whole.log))
                   /\ whole.pos <= logs[whole.log].ondisk

(* Whoever reads the log, by range through the offset cache or as a whole  *)
(* from another thread, reads what was appended.                           *)
LogReadExactly == RangeExact /\ OffsetsExact /\ WholeIsPrefix
=============================================================================
