--------------------------- MODULE OrderedBuffer ---------------------------
(***************************************************************************)
(* The resequencing buffer of src/exo/utils/event_buffer.py as operators   *)
(* on a value [store, next]: store is the dict from an index to the event  *)
(* held there, next is next_idx_to_release.  MultiSourceBuffer is a        *)
(* function from sources to these values.                                  *)
(*                                                                         *)
(* drain() and drain_indexed() return the contiguous run that starts at    *)
(* next, and both callers then walk that list with an await per element.   *)
(* Release(b) is one element of the walk; a caller may ingest again only   *)
(* when the whole run is gone, that is when ~Releasable(b).                *)
(***************************************************************************)
EXTENDS Naturals

EmptyBuffer == [store |-> << >>, next |-> 0]

(* Mutant of Ingest: released indices are taken in again.                  *)
IngestReleased(b, idx, t) ==
  [store |-> [i \in DOMAIN b.store \cup {idx} |->
                IF i = idx THEN t ELSE b.store[i]],
   next  |-> b.next]

(* Indices already released, or already held, leave the buffer alone.      *)
Ingest(b, idx, t) ==
  IF idx < b.next \/ idx \in DOMAIN b.store
  THEN b
  ELSE [store |-> [i \in DOMAIN b.store \cup {idx} |->
                     IF i = idx THEN t ELSE b.store[i]],
        next  |-> b.next]

(* The condition under which ingest's assert fires and kills its task.     *)
Conflicts(b, idx, t) ==
  /\ idx >= b.next
  /\ idx \in DOMAIN b.store
  /\ b.store[idx] # t

Releasable(b) == b.next \in DOMAIN b.store

FirstHeld(b) == b.store[b.next]

(* Mutant of Release: the next index to release stays where it is.         *)
ReleaseInPlace(b) ==
  [store |-> [i \in DOMAIN b.store \ {b.next} |-> b.store[i]],
   next  |-> b.next]

Release(b) ==
  [store |-> [i \in DOMAIN b.store \ {b.next} |-> b.store[i]],
   next  |-> b.next + 1]

(* What every buffer of elements of T looks like.                          *)
IsBuffer(b, T) ==
  /\ b = [store |-> b.store, next |-> b.next]
  /\ b.next \in Nat
  /\ b.store = [i \in DOMAIN b.store |-> b.store[i]]
  /\ DOMAIN b.store \subseteq Nat
  /\ \A i \in DOMAIN b.store : b.store[i] \in T /\ i >= b.next
=============================================================================
