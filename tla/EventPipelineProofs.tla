------------------------ MODULE EventPipelineProofs ------------------------
(***************************************************************************)
(* Proofs about EventPipeline, for every set of routers, producers and     *)
(* receivers, every bound and every leftover of other sessions.            *)
(*                                                                         *)
(* The invariants of EventPipeline are not inductive: what a receiver is   *)
(* fed next depends on what its router holds, which depends on what is in  *)
(* flight, which depends on the master's log and buffers.  Inv below       *)
(* relates each of these to the log.                                       *)
(***************************************************************************)
EXTENDS EventPipeline, TLAPS

(* Every local event of this session is one its producer sent.             *)
LocalInv ==
  \A m \in local_events : m.session = Session =>
    /\ m.origin \in Producers
    /\ m.origin_idx \in Nat
    /\ m.origin_idx < sent[m.origin]
    /\ m.event = <<m.origin, m.origin_idx>>

(* The master holds only such events, each at its own index.               *)
MasterInv ==
  \A p \in Origins : \A i \in DOMAIN multi_buffer[p].store :
    /\ p \in Producers
    /\ i < sent[p]
    /\ multi_buffer[p].store[i] = <<p, i>>

(* The log has all the events the master has released, and no others.      *)
LogInv ==
  /\ \A i \in DOMAIN event_log :
       /\ event_log[i][1] \in Producers
       /\ event_log[i][2] < sent[event_log[i][1]]
       /\ event_log[i][2] < multi_buffer[event_log[i][1]].next
  /\ \A p \in Origins : \A k \in 0 .. multi_buffer[p].next - 1 :
       <<p, k>> \in Logged \cup traces

(* A global event of this session and master says what the log says.       *)
GlobalInv ==
  \A m \in global_events : m.session = Session /\ m.origin = Master =>
    /\ m.origin_idx \in 0 .. Len(event_log) - 1
    /\ m.event = event_log[m.origin_idx + 1]

(* So does what a router holds, and it has released a part of the log.     *)
RouterInv ==
  \A r \in Routers :
    /\ buf[r].next <= Len(event_log)
    /\ \A i \in DOMAIN buf[r].store :
         i < Len(event_log) /\ buf[r].store[i] = event_log[i + 1]

(* A receiver has been fed what its router released while it was open.     *)
FeedInv ==
  \A r \in Routers, c \in Consumers :
    /\ Len(feed[r][c]) <= buf[r].next
    /\ c \in internal_outbound[r] => Len(feed[r][c]) = buf[r].next
    /\ \A i \in DOMAIN feed[r][c] :
         feed[r][c][i] = [idx |-> i - 1, event |-> event_log[i]]

(* What is, or is about to be, out for delivery was sent.                  *)
SenderInv ==
  \A r \in Routers : \A e \in out_for_delivery[r] \cup sweep[r] :
    e[2] < sent[e[1]]

Inv ==
  /\ TypeOK
  /\ LocalInv
  /\ MasterInv
  /\ LogInv
  /\ ProducerOrder
  /\ IndexedOnce
  /\ GlobalInv
  /\ RouterInv
  /\ FeedInv
  /\ SenderInv
  /\ NothingForgotten

-----------------------------------------------------------------------------
(* Ingest keeps a buffer a buffer, releases nothing, and adds at most the  *)
(* given element at the given index (OrderedBuffer.ingest).                *)
LEMMA IngestBuffer ==
  ASSUME NEW T, NEW b, IsBuffer(b, T), NEW idx \in Nat, NEW t \in T
  PROVE  /\ IsBuffer(Ingest(b, idx, t), T)
         /\ Ingest(b, idx, t).next = b.next
         /\ \A i \in DOMAIN Ingest(b, idx, t).store :
              \/ i \in DOMAIN b.store /\ Ingest(b, idx, t).store[i] = b.store[i]
              \/ i = idx /\ Ingest(b, idx, t).store[i] = t
  BY DEF IsBuffer, Ingest

(* Release keeps a buffer a buffer, moves next by one and takes out the    *)
(* element at next (one turn of the loop of OrderedBuffer.drain).          *)
LEMMA ReleaseBuffer ==
  ASSUME NEW T, NEW b, IsBuffer(b, T), Releasable(b)
  PROVE  /\ IsBuffer(Release(b), T)
         /\ Release(b).next = b.next + 1
         /\ FirstHeld(b) \in T
         /\ DOMAIN Release(b).store \subseteq DOMAIN b.store
         /\ \A i \in DOMAIN Release(b).store : Release(b).store[i] = b.store[i]
  BY DEF IsBuffer, Release, Releasable, FirstHeld

(* An empty buffer is a buffer.                                            *)
LEMMA EmptyIsBuffer == ASSUME NEW T PROVE IsBuffer(EmptyBuffer, T)
  BY DEF IsBuffer, EmptyBuffer

-----------------------------------------------------------------------------
(* The initial state satisfies Inv.                                        *)
LEMMA InitInv == Init => Inv
<1> SUFFICES ASSUME Init PROVE Inv
  OBVIOUS
<1>1. TypeOK
  BY EmptyIsBuffer DEF Init, TypeOK, EmptyBuffer, IndexedEvent, NoNack
<1>2. LocalInv /\ GlobalInv
  BY StaleAssumption DEF Init, LocalInv, GlobalInv
<1>3. MasterInv /\ RouterInv
  BY DEF Init, MasterInv, RouterInv, EmptyBuffer
<1>4. LogInv /\ ProducerOrder /\ IndexedOnce
  BY DEF Init, LogInv, ProducerOrder, IndexedOnce, EmptyBuffer
<1>5. FeedInv
  BY DEF Init, FeedInv, EmptyBuffer
<1>6. SenderInv /\ NothingForgotten
  BY HomeAssumption DEF Init, SenderInv, NothingForgotten
<1> QED
  BY <1>1, <1>2, <1>3, <1>4, <1>5, <1>6 DEF Inv

-----------------------------------------------------------------------------
(* Facts about the types that the steps below use.                         *)
LEMMA Types ==
  ASSUME TypeOK
  PROVE  /\ \A p \in Producers : sent[p] \in Nat
         /\ \A p \in Origins :
              /\ multi_buffer[p].next \in Nat
              /\ DOMAIN multi_buffer[p].store \subseteq Nat
         /\ \A i \in DOMAIN event_log :
              /\ i \in Nat
              /\ event_log[i][2] \in Nat
              /\ event_log[i] = <<event_log[i][1], event_log[i][2]>>
         /\ Len(event_log) \in Nat
         /\ \A r \in Routers :
              /\ buf[r].next \in Nat
              /\ DOMAIN buf[r].store \subseteq Nat
              /\ \A e \in out_for_delivery[r] \cup sweep[r] :
                   e \in Producers \X Nat
         /\ \A r \in Routers, c \in Consumers :
              feed[r][c] \in Seq(IndexedEvent)
<1>1. \A p \in Producers : sent[p] \in Nat
  BY DEF TypeOK
<1>2. \A p \in Origins : /\ multi_buffer[p].next \in Nat
                        /\ DOMAIN multi_buffer[p].store \subseteq Nat
  BY DEF TypeOK, IsBuffer
<1>3. \A r \in Routers : /\ buf[r].next \in Nat
                        /\ DOMAIN buf[r].store \subseteq Nat
  BY DEF TypeOK, IsBuffer
<1>4. \A i \in DOMAIN event_log :
              /\ i \in Nat
              /\ event_log[i][2] \in Nat
              /\ event_log[i] = <<event_log[i][1], event_log[i][2]>>
  BY DEF TypeOK, Event
<1> QED
  BY <1>1, <1>2, <1>3, <1>4 DEF TypeOK

-----------------------------------------------------------------------------
(* Each action preserves Inv.                                              *)

(* EventRouter._ingest hands over one more event.                          *)
LEMMA SendEventInv ==
  ASSUME Inv, NEW p \in Producers, SendEvent(p)
  PROVE  Inv'
<1> USE DEF Inv
<1>0. /\ sent' = [sent EXCEPT ![p] = @ + 1]
      /\ out_for_delivery' =
           [out_for_delivery EXCEPT ![Home[p]] = @ \cup {<<p, sent[p]>>}]
      /\ local_events' = local_events \cup {LocalMsg(p, sent[p])}
      /\ multi_buffer' = multi_buffer /\ event_log' = event_log
      /\ traces' = traces /\ sweep' = sweep /\ buf' = buf
      /\ nack' = nack /\ internal_outbound' = internal_outbound
      /\ feed' = feed /\ global_events' = global_events
      /\ requests' = requests
  BY DEF SendEvent, masterVars, routerVars
<1>t. /\ sent \in [Producers -> Nat] /\ sent' \in [Producers -> Nat]
      /\ \A o \in Producers : sent[o] <= sent'[o]
      /\ sent'[p] = sent[p] + 1
      /\ \A o \in Producers : o # p => sent'[o] = sent[o]
  BY <1>0 DEF TypeOK
<1>o. /\ \A r \in Routers : out_for_delivery[r] \subseteq out_for_delivery'[r]
      /\ <<p, sent[p]>> \in out_for_delivery'[Home[p]]
      /\ \A r \in Routers :
           out_for_delivery'[r] \subseteq out_for_delivery[r] \cup {<<p, sent[p]>>}
  BY <1>0, HomeAssumption DEF TypeOK
<1>1. TypeOK'
  BY <1>0, <1>t, HomeAssumption DEF TypeOK, IsBuffer
<1>2. LocalInv'
  BY <1>0, <1>t DEF LocalInv, LocalMsg
<1>3. MasterInv'
  BY <1>0, <1>t, Types DEF MasterInv
<1>4. LogInv'
  BY <1>0, <1>t, Types DEF LogInv, Logged
<1>5. ProducerOrder'
  <2> SUFFICES ASSUME NEW i \in DOMAIN event_log
               PROVE  event_log[i][2] < sent'[event_log[i][1]]
    BY <1>0 DEF ProducerOrder
  <2> QED
    BY <1>t, Types DEF ProducerOrder
<1>6. IndexedOnce' /\ GlobalInv' /\ RouterInv' /\ FeedInv'
  BY <1>0 DEF IndexedOnce, GlobalInv, RouterInv, FeedInv
<1>7. SenderInv'
  BY <1>0, <1>t, <1>o, Types DEF SenderInv
<1>8. NothingForgotten'
  <2> SUFFICES ASSUME NEW o \in Producers, NEW k \in 0 .. sent'[o] - 1
               PROVE  <<o, k>> \in out_for_delivery'[Home[o]] \cup Logged
    BY <1>0 DEF NothingForgotten, Logged
  <2>1. CASE k \in 0 .. sent[o] - 1
    BY <2>1, <1>o, HomeAssumption DEF NothingForgotten
  <2>2. CASE k \notin 0 .. sent[o] - 1
    <3> o = p /\ k = sent[p]
      BY <2>2, <1>t
    <3> QED
      BY <1>o
  <2> QED
    BY <2>1, <2>2
<1> QED
  BY <1>1, <1>2, <1>3, <1>4, <1>5, <1>6, <1>7, <1>8

(* _simple_retry sends an event again that it holds out for delivery.      *)
LEMMA ResendInv ==
  ASSUME Inv, NEW r \in Routers, NEW e, NEW rest, Resend(r, e, rest),
         e \in out_for_delivery[r] \cup sweep[r],
         rest \subseteq out_for_delivery[r] \cup sweep[r]
  PROVE  Inv'
<1> USE DEF Inv
<1>0. /\ sweep' = [sweep EXCEPT ![r] = rest]
      /\ out_for_delivery' = [out_for_delivery EXCEPT ![r] = @ \cup {e}]
      /\ local_events' = local_events \cup {LocalMsg(e[1], e[2])}
      /\ sent' = sent /\ multi_buffer' = multi_buffer
      /\ event_log' = event_log /\ traces' = traces /\ buf' = buf
      /\ nack' = nack /\ internal_outbound' = internal_outbound
      /\ feed' = feed /\ global_events' = global_events
      /\ requests' = requests
  BY DEF Resend, masterVars, routerVars
<1>e. e \in Producers \X Nat /\ e[2] < sent[e[1]]
  BY Types DEF SenderInv
<1>o. /\ \A q \in Routers :
           out_for_delivery[q] \subseteq out_for_delivery'[q]
      /\ \A q \in Routers :
           out_for_delivery'[q] \cup sweep'[q]
             \subseteq out_for_delivery[q] \cup sweep[q]
  BY <1>0 DEF TypeOK
<1>1. TypeOK'
  BY <1>0, <1>e DEF TypeOK, IsBuffer
<1>2. LocalInv'
  BY <1>0, <1>e DEF LocalInv, LocalMsg
<1>3. MasterInv' /\ IndexedOnce'
  BY <1>0 DEF MasterInv, IndexedOnce
<1>4. LogInv'
  BY <1>0 DEF LogInv, Logged
<1>5. ProducerOrder'
  BY <1>0 DEF ProducerOrder
<1>6. GlobalInv' /\ RouterInv' /\ FeedInv'
  BY <1>0 DEF GlobalInv, RouterInv, FeedInv
<1>7. SenderInv'
  BY <1>0, <1>o DEF SenderInv
<1>8. NothingForgotten'
  BY <1>0, <1>o, HomeAssumption DEF NothingForgotten, Logged
<1> QED
  BY <1>1, <1>2, <1>3, <1>4, <1>5, <1>6, <1>7, <1>8

(* _event_processor takes a local event into the sender's buffer.          *)
LEMMA MasterReceiveInv ==
  ASSUME Inv, NEW m \in local_events, MasterReceive(m)
  PROVE  Inv'
<1> USE DEF Inv
<1>0. /\ multi_buffer' = [multi_buffer EXCEPT ![m.origin] =
                            Ingest(multi_buffer[m.origin], m.origin_idx, m.event)]
      /\ sent' = sent /\ out_for_delivery' = out_for_delivery
      /\ sweep' = sweep /\ local_events' = local_events
      /\ event_log' = event_log /\ traces' = traces /\ buf' = buf
      /\ nack' = nack /\ internal_outbound' = internal_outbound
      /\ feed' = feed /\ global_events' = global_events
      /\ requests' = requests
  BY DEF MasterReceive, senderVars, routerVars, networkVars
<1> DEFINE p == m.origin
           b == Ingest(multi_buffer[p], m.origin_idx, m.event)
<1>m. /\ p \in Producers /\ p \in Origins
      /\ m.origin_idx \in Nat /\ m.origin_idx < sent[p]
      /\ m.event = <<p, m.origin_idx>> /\ m.event \in Event
  <2>1. /\ p \in Producers /\ p \in Origins
        /\ m.origin_idx \in Nat /\ m.origin_idx < sent[p]
        /\ m.event = <<p, m.origin_idx>>
    BY DEF MasterReceive, LocalInv, Origins
  <2> QED
    BY <2>1 DEF Event
<1>b. /\ IsBuffer(b, Event)
      /\ b.next = multi_buffer[p].next
      /\ \A i \in DOMAIN b.store :
           \/ i \in DOMAIN multi_buffer[p].store
              /\ b.store[i] = multi_buffer[p].store[i]
           \/ i = m.origin_idx /\ b.store[i] = m.event
  <2>1. IsBuffer(multi_buffer[p], Event)
    BY <1>m DEF TypeOK
  <2> QED
    BY <2>1, <1>m, IngestBuffer
<1>c. /\ DOMAIN multi_buffer' = Origins
      /\ multi_buffer'[p] = b
      /\ \A o \in Origins : o # p => multi_buffer'[o] = multi_buffer[o]
  BY <1>0, <1>m DEF TypeOK
<1> HIDE DEF b
<1>1. TypeOK'
  <2>1. \A o \in Origins : IsBuffer(multi_buffer'[o], Event)
    BY <1>b, <1>c DEF TypeOK
  <2> QED
    BY <1>0, <1>c, <2>1 DEF TypeOK
<1>2. LocalInv' /\ IndexedOnce' /\ GlobalInv' /\ RouterInv' /\ FeedInv'
  BY <1>0 DEF LocalInv, IndexedOnce, GlobalInv, RouterInv, FeedInv
<1>3. MasterInv'
  <2> SUFFICES ASSUME NEW o \in Origins,
                      NEW i \in DOMAIN multi_buffer'[o].store
               PROVE  /\ o \in Producers /\ i < sent[o]
                      /\ multi_buffer'[o].store[i] = <<o, i>>
    BY <1>0 DEF MasterInv
  <2>1. CASE o = p
    BY <2>1, <1>b, <1>c, <1>m DEF MasterInv
  <2>2. CASE o # p
    BY <2>2, <1>c DEF MasterInv
  <2> QED
    BY <2>1, <2>2
<1>4. \A o \in Origins : multi_buffer'[o].next = multi_buffer[o].next
  BY <1>b, <1>c
<1>5. LogInv'
  BY <1>0, <1>4 DEF LogInv, Logged, Origins
<1>6. ProducerOrder'
  BY <1>0 DEF ProducerOrder
<1>7. SenderInv'
  BY <1>0 DEF SenderInv
<1>8. NothingForgotten'
  BY <1>0 DEF NothingForgotten, Logged
<1> QED
  BY <1>1, <1>2, <1>3, <1>5, <1>6, <1>7, <1>8

(* _event_processor consumes a trace, or indexes, logs and broadcasts.     *)
LEMMA MasterIndexInv ==
  ASSUME Inv, NEW p \in Origins, MasterIndex(p)
  PROVE  Inv'
<1> USE DEF Inv
<1> DEFINE b == multi_buffer[p]
           k == multi_buffer[p].next
<1>0. /\ multi_buffer' = [multi_buffer EXCEPT ![p] = Release(multi_buffer[p])]
      /\ sent' = sent /\ out_for_delivery' = out_for_delivery
      /\ sweep' = sweep /\ local_events' = local_events
      /\ buf' = buf /\ nack' = nack /\ feed' = feed
      /\ internal_outbound' = internal_outbound /\ requests' = requests
  BY DEF MasterIndex, senderVars, routerVars
<1>k. /\ FirstHeld(b) = <<p, k>> /\ p \in Producers
      /\ k \in Nat /\ k < sent[p] /\ <<p, k>> \in Event
  BY Types DEF MasterIndex, Releasable, FirstHeld, MasterInv, Event
<1>b. /\ IsBuffer(Release(b), Event)
      /\ Release(b).next = k + 1
      /\ DOMAIN Release(b).store \subseteq DOMAIN b.store
      /\ \A i \in DOMAIN Release(b).store : Release(b).store[i] = b.store[i]
  BY ReleaseBuffer DEF MasterIndex, TypeOK
<1>c. /\ DOMAIN multi_buffer' = Origins
      /\ multi_buffer'[p] = Release(b)
      /\ \A o \in Origins : o # p => multi_buffer'[o] = multi_buffer[o]
  BY <1>0 DEF TypeOK
<1>d. \/ /\ <<p, k>> \in Traces
         /\ traces' = traces \cup {<<p, k>>}
         /\ event_log' = event_log /\ global_events' = global_events
      \/ /\ event_log' = Append(event_log, <<p, k>>)
         /\ global_events' =
              global_events \cup {GlobalMsg(Len(event_log), <<p, k>>)}
         /\ traces' = traces
  BY <1>k DEF MasterIndex
<1>e. \A o \in Origins : \A i \in DOMAIN multi_buffer'[o].store :
         i \in DOMAIN multi_buffer[o].store
         /\ multi_buffer'[o].store[i] = multi_buffer[o].store[i]
  BY <1>b, <1>c
<1>f. /\ multi_buffer'[p].next = k + 1
      /\ \A o \in Origins : o # p => multi_buffer'[o].next = multi_buffer[o].next
  BY <1>b, <1>c
<1>1. TypeOK'
  <2>1. \A o \in Origins : IsBuffer(multi_buffer'[o], Event)
    BY <1>b, <1>c DEF TypeOK
  <2>2. event_log' \in Seq(Event) /\ traces' \subseteq Traces
    <3>1. /\ event_log \in Seq(Event) /\ traces \subseteq Traces
      BY DEF TypeOK
    <3>2. Append(event_log, <<p, k>>) \in Seq(Event)
      BY <3>1, <1>k
    <3> QED
      BY <1>d, <3>1, <3>2
  <2> QED
    BY <1>0, <1>c, <2>1, <2>2 DEF TypeOK, IsBuffer
<1>2. MasterInv'
  BY <1>0, <1>e DEF MasterInv
<1>3. LocalInv' /\ SenderInv'
  BY <1>0 DEF LocalInv, SenderInv
<1>g. /\ Len(event_log) \in Nat
      /\ event_log \in Seq(Event)
      /\ DOMAIN event_log = 1 .. Len(event_log)
  BY DEF TypeOK
<1>h. <<p, k>> \notin Logged
  BY <1>k, Types DEF LogInv, Logged
<1>4. CASE /\ <<p, k>> \in Traces
           /\ traces' = traces \cup {<<p, k>>}
           /\ event_log' = event_log /\ global_events' = global_events
  <2>1. LogInv'
    <3>1. \A i \in DOMAIN event_log :
             event_log[i][2] < multi_buffer'[event_log[i][1]].next
      BY <1>f, <1>k, Types DEF LogInv, Origins
    <3>2. ASSUME NEW o \in Origins, NEW j \in 0 .. multi_buffer'[o].next - 1
          PROVE  <<o, j>> \in Logged \cup traces'
      BY <3>2, <1>4, <1>f, <1>k, Types DEF LogInv
    <3> QED
      BY <3>1, <3>2, <1>0, <1>4 DEF LogInv, Logged
  <2>2. ProducerOrder'
    BY <1>0, <1>4 DEF ProducerOrder
  <2>3. IndexedOnce' /\ GlobalInv' /\ RouterInv' /\ FeedInv'
    BY <1>0, <1>4 DEF IndexedOnce, GlobalInv, RouterInv, FeedInv
  <2>4. NothingForgotten'
    BY <1>0, <1>4 DEF NothingForgotten, Logged
  <2> QED
    BY <1>1, <1>2, <1>3, <2>1, <2>2, <2>3, <2>4
<1>5. CASE /\ event_log' = Append(event_log, <<p, k>>)
           /\ global_events' =
                global_events \cup {GlobalMsg(Len(event_log), <<p, k>>)}
           /\ traces' = traces
  <2> DEFINE n == Len(event_log)
  <2>1. /\ Len(event_log') = n + 1
        /\ DOMAIN event_log' = 1 .. n + 1
        /\ event_log'[n + 1] = <<p, k>>
        /\ \A i \in 1 .. n : event_log'[i] = event_log[i]
    BY <1>5, <1>g, <1>k
  <2>l. Logged' = Logged \cup {<<p, k>>}
    <3>1. \A i \in 1 .. n + 1 : i \in 1 .. n \/ i = n + 1
      BY <1>g
    <3>2. n + 1 \in 1 .. n + 1 /\ 1 .. n \subseteq 1 .. n + 1
      BY <1>g
    <3>3. Logged' = {event_log'[i] : i \in 1 .. n + 1}
      BY <2>1 DEF Logged
    <3>4. Logged = {event_log[i] : i \in 1 .. n}
      BY <1>g DEF Logged
    <3> HIDE DEF n
    <3> QED
      BY <3>1, <3>2, <3>3, <3>4, <2>1
  <2> HIDE DEF n
  <2>2. LogInv'
    <3>1. \A i \in DOMAIN event_log' :
             /\ event_log'[i][1] \in Producers
             /\ event_log'[i][2] < sent[event_log'[i][1]]
             /\ event_log'[i][2] < multi_buffer'[event_log'[i][1]].next
      BY <2>1, <1>f, <1>g, <1>k, Types DEF LogInv, Origins, n
    <3>2. ASSUME NEW o \in Origins, NEW j \in 0 .. multi_buffer'[o].next - 1
          PROVE  <<o, j>> \in Logged \cup {<<p, k>>} \cup traces
      BY <3>2, <1>f, <1>k, Types DEF LogInv
    <3> QED
      BY <3>1, <3>2, <2>l, <1>0, <1>5 DEF LogInv
  <2>3. ProducerOrder'
    <3> SUFFICES ASSUME NEW i \in 1 .. n + 1
                 PROVE  /\ event_log'[i][1] \in Producers
                        /\ event_log'[i][2] < sent[event_log'[i][1]]
                        /\ \A j \in 0 .. event_log'[i][2] - 1 :
                             \/ <<event_log'[i][1], j>> \in traces
                             \/ \E h \in 1 .. i - 1 :
                                  event_log'[h] = <<event_log'[i][1], j>>
      BY <2>1, <1>0, <1>5 DEF ProducerOrder
    <3>1. CASE i = n + 1
      <4>1. event_log'[i][1] = p /\ event_log'[i][2] = k
        BY <3>1, <2>1
      <4>2. ASSUME NEW j \in 0 .. k - 1, <<p, j>> \notin traces
            PROVE  \E h \in 1 .. i - 1 : event_log'[h] = <<p, j>>
        <5>1. <<p, j>> \in Logged
          BY <4>2 DEF LogInv
        <5>2. PICK h \in 1 .. n : event_log[h] = <<p, j>>
          BY <5>1, <1>g DEF Logged, n
        <5> QED
          BY <5>2, <3>1, <2>1, <1>g DEF n
      <4> QED
        BY <4>1, <4>2, <1>k
    <3>2. CASE i # n + 1
      <4>1. i \in 1 .. n /\ i \in DOMAIN event_log
        BY <3>2, <1>g DEF n
      <4>2. event_log'[i] = event_log[i]
        BY <4>1, <2>1
      <4>3. \A h \in 1 .. i - 1 : event_log'[h] = event_log[h]
        BY <4>1, <2>1, <1>g DEF n
      <4>4. /\ event_log[i][1] \in Producers
            /\ event_log[i][2] < sent[event_log[i][1]]
            /\ \A j \in 0 .. event_log[i][2] - 1 :
                 \/ <<event_log[i][1], j>> \in traces
                 \/ \E h \in 1 .. i - 1 : event_log[h] = <<event_log[i][1], j>>
        BY <4>1 DEF ProducerOrder
      <4> QED
        BY <4>2, <4>3, <4>4
    <3> QED
      BY <3>1, <3>2
  <2>4. IndexedOnce'
    BY <2>1, <1>g, <1>h DEF IndexedOnce, Logged, n
  <2>5. GlobalInv'
    BY <2>1, <1>5, <1>g DEF GlobalInv, GlobalMsg, n
  <2>6. RouterInv'
    BY <2>1, <1>0, <1>g, Types DEF RouterInv, n
  <2>7. FeedInv'
    <3> SUFFICES ASSUME NEW r \in Routers, NEW c \in Consumers,
                        NEW i \in DOMAIN feed[r][c]
                 PROVE  event_log'[i] = event_log[i]
      BY <1>0 DEF FeedInv
    <3>1. i \in 1 .. Len(feed[r][c]) /\ Len(feed[r][c]) \in Nat
      BY Types
    <3>2. Len(feed[r][c]) <= n /\ buf[r].next \in Nat
      BY <3>1, <1>g, Types DEF FeedInv, RouterInv, n
    <3> QED
      BY <3>1, <3>2, <2>1, <1>g DEF n
  <2>8. NothingForgotten'
    BY <2>l, <1>0 DEF NothingForgotten
  <2> QED
    BY <1>1, <1>2, <1>3, <2>2, <2>3, <2>4, <2>5, <2>6, <2>7, <2>8
<1> QED
  BY <1>d, <1>4, <1>5

(* The RequestEventLog case of _command_processor replays log entries.     *)
LEMMA MasterReplayInv ==
  ASSUME Inv, NEW since \in requests, MasterReplay(since)
  PROVE  Inv'
<1> USE DEF Inv
<1>0. /\ global_events' = global_events \cup
           {GlobalMsg(i, event_log[i + 1]) : i \in ReplayRange(since)}
      /\ sent' = sent /\ out_for_delivery' = out_for_delivery
      /\ sweep' = sweep /\ multi_buffer' = multi_buffer
      /\ event_log' = event_log /\ traces' = traces /\ buf' = buf
      /\ nack' = nack /\ internal_outbound' = internal_outbound
      /\ feed' = feed /\ local_events' = local_events
      /\ requests' = requests
  BY DEF MasterReplay, senderVars, masterVars, routerVars
<1>1. TypeOK'
  BY <1>0 DEF TypeOK, IsBuffer
<1>2. LocalInv' /\ MasterInv' /\ IndexedOnce' /\ RouterInv' /\ FeedInv' /\ SenderInv'
  BY <1>0 DEF LocalInv, MasterInv, IndexedOnce, RouterInv, FeedInv, SenderInv
<1>3. LogInv' /\ NothingForgotten'
  BY <1>0 DEF LogInv, NothingForgotten, Logged
<1>4. ProducerOrder'
  BY <1>0 DEF ProducerOrder
<1>5. GlobalInv'
  <2>1. since \in Nat /\ Len(event_log) \in Nat
    BY DEF TypeOK
  <2>2. ReplayRange(since) \subseteq 0 .. Len(event_log) - 1
    BY <2>1, BoundAssumption DEF ReplayRange
  <2> QED
    BY <1>0, <2>2 DEF GlobalInv, GlobalMsg
<1> QED
  BY <1>1, <1>2, <1>3, <1>4, <1>5

(* _run_ext_in takes a global event into its buffer and acknowledges it.   *)
LEMMA ReceiveGlobalInv ==
  ASSUME Inv, NEW r \in Routers, NEW m \in global_events, ReceiveGlobal(r, m)
  PROVE  Inv'
<1> USE DEF Inv
<1> DEFINE b == Ingest(buf[r], m.origin_idx, m.event)
<1>0. /\ buf' = [buf EXCEPT ![r] = b]
      /\ nack' = [nack EXCEPT ![r] = NackAfter(b, nack[r])]
      /\ out_for_delivery' = [out_for_delivery EXCEPT ![r] = @ \ {m.event}]
      /\ sent' = sent /\ sweep' = sweep /\ multi_buffer' = multi_buffer
      /\ event_log' = event_log /\ traces' = traces
      /\ internal_outbound' = internal_outbound /\ feed' = feed
      /\ local_events' = local_events /\ global_events' = global_events
      /\ requests' = requests
  BY DEF ReceiveGlobal, masterVars, networkVars
<1>g. Len(event_log) \in Nat /\ DOMAIN event_log = 1 .. Len(event_log)
  BY DEF TypeOK
<1>m. /\ m.origin_idx \in Nat /\ m.origin_idx < Len(event_log)
      /\ m.event = event_log[m.origin_idx + 1]
  BY <1>g DEF ReceiveGlobal, GlobalInv
<1>n. m.event \in Logged /\ m.event \in Event
  <2>1. m.origin_idx + 1 \in DOMAIN event_log
    BY <1>m, <1>g
  <2> QED
    BY <2>1, <1>m DEF Logged, TypeOK
<1>b. /\ IsBuffer(b, Event)
      /\ b.next = buf[r].next
      /\ \A i \in DOMAIN b.store :
           \/ i \in DOMAIN buf[r].store /\ b.store[i] = buf[r].store[i]
           \/ i = m.origin_idx /\ b.store[i] = m.event
  <2>1. IsBuffer(buf[r], Event)
    BY DEF TypeOK
  <2> QED
    BY <2>1, <1>m, <1>n, IngestBuffer
<1>c. /\ DOMAIN buf' = Routers /\ buf'[r] = b
      /\ \A q \in Routers : q # r => buf'[q] = buf[q]
  BY <1>0 DEF TypeOK
<1>o. \A q \in Routers :
        /\ out_for_delivery'[q] \subseteq out_for_delivery[q]
        /\ out_for_delivery[q] \subseteq out_for_delivery'[q] \cup Logged
  BY <1>0, <1>n DEF TypeOK
<1> HIDE DEF b
<1>1. TypeOK'
  <2>1. \A q \in Routers : IsBuffer(buf'[q], Event)
    BY <1>b, <1>c DEF TypeOK
  <2>2. NackAfter(b, nack[r]) \in Nat \cup {NoNack}
    BY <1>b DEF NackAfter, TypeOK, IsBuffer
  <2>3. nack' \in [Routers -> Nat \cup {NoNack}]
    BY <1>0, <2>2 DEF TypeOK
  <2>4. out_for_delivery' \in [Routers -> SUBSET (Producers \X Nat)]
    BY <1>0 DEF TypeOK
  <2> QED
    BY <1>0, <1>c, <2>1, <2>3, <2>4 DEF TypeOK, IsBuffer
<1>2. LocalInv' /\ MasterInv' /\ IndexedOnce' /\ GlobalInv'
  BY <1>0 DEF LocalInv, MasterInv, IndexedOnce, GlobalInv
<1>3. LogInv'
  BY <1>0 DEF LogInv, Logged
<1>4. ProducerOrder'
  BY <1>0 DEF ProducerOrder
<1>5. RouterInv'
  <2> SUFFICES ASSUME NEW q \in Routers
               PROVE  /\ buf'[q].next <= Len(event_log)
                      /\ \A i \in DOMAIN buf'[q].store :
                           /\ i < Len(event_log)
                           /\ buf'[q].store[i] = event_log[i + 1]
    BY <1>0 DEF RouterInv
  <2>1. CASE q = r
    BY <2>1, <1>b, <1>c, <1>m DEF RouterInv
  <2>2. CASE q # r
    BY <2>2, <1>c DEF RouterInv
  <2> QED
    BY <2>1, <2>2
<1>6. FeedInv'
  <2>1. \A q \in Routers : buf'[q].next = buf[q].next
    BY <1>b, <1>c
  <2> QED
    BY <2>1, <1>0 DEF FeedInv
<1>7. SenderInv'
  BY <1>0, <1>o DEF SenderInv
<1>8. NothingForgotten'
  <2>1. Logged' = Logged
    BY <1>0 DEF Logged
  <2> QED
    BY <2>1, <1>0, <1>o, HomeAssumption DEF NothingForgotten
<1> QED
  BY <1>1, <1>2, <1>3, <1>4, <1>5, <1>6, <1>7, <1>8

(* _run_ext_in feeds the next event of the log to the open receivers.      *)
LEMMA ForwardInv ==
  ASSUME Inv, NEW r \in Routers, Forward(r)
  PROVE  Inv'
<1> USE DEF Inv
<1> DEFINE b == buf[r]
           x == [idx |-> buf[r].next, event |-> FirstHeld(buf[r])]
           f == [c \in Consumers |-> IF c \in internal_outbound[r]
                                     THEN Append(feed[r][c], x)
                                     ELSE feed[r][c]]
<1>0. /\ buf' = [buf EXCEPT ![r] = Release(b)]
      /\ feed' = [feed EXCEPT ![r] = f]
      /\ sent' = sent /\ out_for_delivery' = out_for_delivery
      /\ sweep' = sweep /\ multi_buffer' = multi_buffer
      /\ event_log' = event_log /\ traces' = traces /\ nack' = nack
      /\ internal_outbound' = internal_outbound
      /\ local_events' = local_events /\ global_events' = global_events
      /\ requests' = requests
  BY DEF Forward, senderVars, masterVars, networkVars
<1>b. /\ IsBuffer(Release(b), Event)
      /\ Release(b).next = b.next + 1
      /\ FirstHeld(b) \in Event
      /\ DOMAIN Release(b).store \subseteq DOMAIN b.store
      /\ \A i \in DOMAIN Release(b).store : Release(b).store[i] = b.store[i]
  BY ReleaseBuffer DEF Forward, TypeOK
<1>c. /\ DOMAIN buf' = Routers /\ buf'[r] = Release(b)
      /\ \A q \in Routers : q # r => buf'[q] = buf[q]
  BY <1>0 DEF TypeOK
<1>f. /\ feed'[r] = f
      /\ \A q \in Routers : q # r => feed'[q] = feed[q]
  BY <1>0 DEF TypeOK
<1>n. /\ b.next \in Nat /\ b.next < Len(event_log)
      /\ FirstHeld(b) = event_log[b.next + 1]
      /\ Len(event_log) \in Nat
  BY Types DEF Forward, Releasable, FirstHeld, RouterInv
<1>u. event_log' = event_log /\ internal_outbound' = internal_outbound
  BY <1>0
<1>x. x \in IndexedEvent
  BY <1>b, <1>n DEF IndexedEvent
<1> HIDE DEF x
<1>1. TypeOK'
  <2>1. \A q \in Routers : IsBuffer(buf'[q], Event)
    BY <1>b, <1>c DEF TypeOK
  <2>2. \A c \in Consumers : feed[r][c] \in Seq(IndexedEvent)
    BY Types
  <2>3. f \in [Consumers -> Seq(IndexedEvent)]
    BY <2>2, <1>x
  <2>4. feed' \in [Routers -> [Consumers -> Seq(IndexedEvent)]]
    BY <1>0, <2>3 DEF TypeOK
  <2> QED
    BY <1>0, <1>c, <2>1, <2>4 DEF TypeOK, IsBuffer
<1>2. LocalInv' /\ MasterInv' /\ IndexedOnce' /\ GlobalInv' /\ SenderInv'
  BY <1>0 DEF LocalInv, MasterInv, IndexedOnce, GlobalInv, SenderInv
<1>3. LogInv' /\ NothingForgotten'
  BY <1>0 DEF LogInv, NothingForgotten, Logged
<1>4. ProducerOrder'
  BY <1>0 DEF ProducerOrder
<1>5. RouterInv'
  <2> SUFFICES ASSUME NEW q \in Routers
               PROVE  /\ buf'[q].next <= Len(event_log)
                      /\ \A i \in DOMAIN buf'[q].store :
                           /\ i < Len(event_log)
                           /\ buf'[q].store[i] = event_log[i + 1]
    BY <1>0 DEF RouterInv
  <2>1. CASE q = r
    BY <2>1, <1>b, <1>c, <1>n DEF RouterInv
  <2>2. CASE q # r
    BY <2>2, <1>c DEF RouterInv
  <2> QED
    BY <2>1, <2>2
<1>6. FeedInv'
  <2> SUFFICES ASSUME NEW q \in Routers, NEW c \in Consumers
               PROVE  /\ Len(feed'[q][c]) <= buf'[q].next
                      /\ c \in internal_outbound[q] =>
                           Len(feed'[q][c]) = buf'[q].next
                      /\ \A i \in DOMAIN feed'[q][c] :
                           feed'[q][c][i] = [idx |-> i - 1, event |-> event_log[i]]
    BY <1>u DEF FeedInv
  <2>1. CASE q # r
    <3>1. feed'[q] = feed[q] /\ buf'[q] = buf[q]
      BY <2>1, <1>c, <1>f
    <3> QED
      BY <3>1 DEF FeedInv
  <2>2. CASE q = r /\ c \notin internal_outbound[r]
    <3>1. feed'[q][c] = feed[r][c]
      BY <2>2, <1>f
    <3>2. buf'[q].next = b.next + 1 /\ Len(feed[r][c]) \in Nat
      BY <2>2, <1>b, <1>c, Types
    <3> QED
      BY <3>1, <3>2, <2>2, <1>n DEF FeedInv
  <2>3. CASE q = r /\ c \in internal_outbound[r]
    <3>1. feed'[q][c] = Append(feed[r][c], x)
      BY <2>3, <1>f
    <3>2. /\ feed[r][c] \in Seq(IndexedEvent)
          /\ Len(feed[r][c]) = b.next
          /\ \A i \in DOMAIN feed[r][c] :
               feed[r][c][i] = [idx |-> i - 1, event |-> event_log[i]]
      BY <2>3, Types DEF FeedInv
    <3>3. /\ Len(feed'[q][c]) = b.next + 1
          /\ DOMAIN feed'[q][c] = 1 .. b.next + 1
          /\ feed'[q][c][b.next + 1] = x
          /\ \A i \in 1 .. b.next :
               i \in DOMAIN feed[r][c] /\ feed'[q][c][i] = feed[r][c][i]
      BY <3>1, <3>2, <1>x, <1>n
    <3>4. x = [idx |-> (b.next + 1) - 1, event |-> event_log[b.next + 1]]
      BY <1>n DEF x
    <3>5. ASSUME NEW i \in 1 .. b.next + 1
          PROVE  feed'[q][c][i] = [idx |-> i - 1, event |-> event_log[i]]
      <4>1. CASE i = b.next + 1
        BY <4>1, <3>3, <3>4
      <4>2. CASE i \in 1 .. b.next
        BY <4>2, <3>2, <3>3
      <4> QED
        BY <4>1, <4>2, <1>n
    <3>6. buf'[q].next = b.next + 1
      BY <2>3, <1>b, <1>c
    <3> QED
      BY <3>3, <3>5, <3>6, <1>n
  <2> QED
    BY <2>1, <2>2, <2>3
<1> QED
  BY <1>1, <1>2, <1>3, <1>4, <1>5, <1>6

(* Nacks, closing receivers, losses and later traffic touch none of what   *)
(* the log's invariants speak about.                                       *)
LEMMA OtherInv ==
  ASSUME Inv,
         \/ \E r \in Routers : NackSend(r) \/ LaterTraffic(r)
         \/ \E r \in Routers, c \in Consumers : CloseReceiver(r, c)
         \/ Lose
         \/ UNCHANGED vars
  PROVE  Inv'
<1> USE DEF Inv
<1>0. /\ sent' = sent /\ out_for_delivery' = out_for_delivery
      /\ sweep' = sweep /\ multi_buffer' = multi_buffer
      /\ event_log' = event_log /\ traces' = traces
      /\ buf' = buf /\ feed' = feed
      /\ local_events' \subseteq local_events
      /\ global_events' \subseteq global_events
  BY DEF NackSend, LaterTraffic, CloseReceiver, Lose, vars, senderVars,
         masterVars, routerVars, networkVars
<1>1. nack' \in [Routers -> Nat \cup {NoNack}] /\ requests' \subseteq Nat
  <2>1. ASSUME NEW r \in Routers, NackSend(r)
        PROVE  nack' \in [Routers -> Nat \cup {NoNack}] /\ requests' \subseteq Nat
    BY <2>1 DEF NackSend, TypeOK, NoNack
  <2>2. ASSUME NEW r \in Routers, LaterTraffic(r)
        PROVE  nack' \in [Routers -> Nat \cup {NoNack}] /\ requests' \subseteq Nat
    <3>1. NackAfter(buf[r], nack[r]) \in Nat \cup {NoNack}
      BY Types DEF NackAfter, TypeOK
    <3> QED
      BY <2>2, <3>1 DEF LaterTraffic, TypeOK, networkVars
  <2>3. ASSUME \/ \E r \in Routers, c \in Consumers : CloseReceiver(r, c)
               \/ Lose
               \/ UNCHANGED vars
        PROVE  nack' \in [Routers -> Nat \cup {NoNack}] /\ requests' \subseteq Nat
    BY <2>3 DEF CloseReceiver, Lose, vars, TypeOK, routerVars, networkVars
  <2> QED
    BY <2>1, <2>2, <2>3
<1>2. /\ internal_outbound' \in [Routers -> SUBSET Consumers]
      /\ \A r \in Routers : internal_outbound'[r] \subseteq internal_outbound[r]
  <2>1. ASSUME NEW r \in Routers, NEW c \in Consumers, CloseReceiver(r, c)
        PROVE  <1>2!:
    BY <2>1 DEF CloseReceiver, TypeOK
  <2>2. ASSUME internal_outbound' = internal_outbound
        PROVE  <1>2!:
    BY <2>2 DEF TypeOK
  <2> QED
    BY <2>1, <2>2 DEF NackSend, LaterTraffic, Lose, vars, routerVars
<1>3. TypeOK'
  BY <1>0, <1>1, <1>2 DEF TypeOK, IsBuffer
<1>4. LocalInv' /\ MasterInv' /\ IndexedOnce' /\ GlobalInv' /\ RouterInv'
  BY <1>0 DEF LocalInv, MasterInv, IndexedOnce, GlobalInv, RouterInv
<1>5. LogInv' /\ NothingForgotten'
  BY <1>0 DEF LogInv, NothingForgotten, Logged
<1>6. ProducerOrder' /\ SenderInv'
  BY <1>0 DEF ProducerOrder, SenderInv
<1>7. FeedInv'
  BY <1>0, <1>2 DEF FeedInv
<1> QED
  BY <1>3, <1>4, <1>5, <1>6, <1>7

(* Every step of the specification preserves Inv.                          *)
LEMMA NextInv == Inv /\ [Next]_vars => Inv'
<1> SUFFICES ASSUME Inv, [Next]_vars PROVE Inv'
  OBVIOUS
<1>1. ASSUME NEW r \in Routers, NEW e \in out_for_delivery[r], RetryWake(r, e)
      PROVE  Inv'
  BY <1>1, ResendInv DEF RetryWake
<1>2. ASSUME NEW r \in Routers, NEW e \in sweep[r], RetryNext(r, e)
      PROVE  Inv'
  BY <1>2, ResendInv DEF RetryNext
<1> QED
  BY <1>1, <1>2, SendEventInv, MasterReceiveInv, MasterIndexInv,
     MasterReplayInv, ReceiveGlobalInv, ForwardInv, OtherInv DEF Next

-----------------------------------------------------------------------------
(* The inductive invariant holds in every reachable state: Init            *)
(* establishes it and each handler of the router and of the master keeps   *)
(* it.                                                                     *)
THEOREM InvHolds == Spec => []Inv
  BY InitInv, NextInv, PTL DEF Spec

(* Every variable keeps its type, and no OrderedBuffer ever holds an index *)
(* below the one it releases next.                                         *)
THEOREM TypeCorrect == Spec => []TypeOK
<1>1. Inv => TypeOK
  BY DEF Inv
<1> QED
  BY <1>1, InvHolds, PTL

(* Whatever the network loses, repeats or reorders, every receiver of      *)
(* every router has been fed a prefix of the master's log under contiguous *)
(* indices: the assertion in apply() of shared/apply.py holds.             *)
THEOREM ReplicasReadTheLogHolds == Spec => []ReplicasReadTheLog
<1>1. Inv => ReplicasReadTheLog
  <2> SUFFICES ASSUME Inv, NEW r \in Routers, NEW c \in Consumers
               PROVE  Len(feed[r][c]) <= Len(event_log)
    BY DEF ReplicasReadTheLog, Inv, FeedInv
  <2> QED
    BY Types DEF Inv, FeedInv, RouterInv
<1> QED
  BY <1>1, InvHolds, PTL

(* _event_processor indexes no event twice, however often it is resent.    *)
THEOREM IndexedOnceHolds == Spec => []IndexedOnce
<1>1. Inv => IndexedOnce
  BY DEF Inv
<1> QED
  BY <1>1, InvHolds, PTL

(* _event_processor indexes a sender's events in the order in which        *)
(* EventRouter._ingest stamped them, and none of another session.          *)
THEOREM ProducerOrderHolds == Spec => []ProducerOrder
<1>1. Inv => ProducerOrder
  BY DEF Inv
<1> QED
  BY <1>1, InvHolds, PTL

(* The assert in OrderedBuffer.ingest fires neither at the master nor at a *)
(* router.                                                                 *)
THEOREM NoIndexConflictHolds == Spec => []NoIndexConflict
<1>1. Inv => NoIndexConflict
  BY DEF Inv, NoIndexConflict, Conflicts, LocalInv, MasterInv, GlobalInv,
         RouterInv, Origins
<1> QED
  BY <1>1, InvHolds, PTL

(* out_for_delivery lets go of an event only once the master has it in its *)
(* log.                                                                    *)
THEOREM NothingForgottenHolds == Spec => []NothingForgotten
<1>1. Inv => NothingForgotten
  BY DEF Inv
<1> QED
  BY <1>1, InvHolds, PTL

-----------------------------------------------------------------------------
(* No producer is ever beyond the bound.                                   *)
BoundInv == \A p \in Producers : sent[p] \in 0 .. MaxEvents

(* SendEvent is the only action that moves sent, and stops at the bound.   *)
LEMMA BoundHolds == Spec => []BoundInv
<1>1. Init => BoundInv
  BY BoundAssumption DEF Init, BoundInv
<1>2. TypeOK /\ BoundInv /\ [Next]_vars => BoundInv'
  <2> SUFFICES ASSUME TypeOK, BoundInv, [Next]_vars PROVE BoundInv'
    OBVIOUS
  <2>1. ASSUME NEW p \in Producers, SendEvent(p) PROVE BoundInv'
    BY <2>1, BoundAssumption DEF SendEvent, BoundInv, TypeOK
  <2>2. ASSUME sent' = sent PROVE BoundInv'
    BY <2>2 DEF BoundInv
  <2> QED
    BY <2>1, <2>2
    DEF Next, vars, MasterIndex, MasterReceive, MasterReplay, RetryWake,
        RetryNext, Resend, ReceiveGlobal, Forward, NackSend, LaterTraffic,
        CloseReceiver, Lose, senderVars
<1> QED
  BY <1>1, <1>2, TypeCorrect, PTL DEF Spec

(* Indexing an event is a step of the abstract log.                        *)
LEMMA MasterIndexRefines ==
  ASSUME Inv, BoundInv, NEW p \in Origins, MasterIndex(p)
  PROVE  [Abstract!Next]_Abstract!rlVars
<1> DEFINE k == multi_buffer[p].next
           e == <<p, multi_buffer[p].next>>
<1>1. /\ FirstHeld(multi_buffer[p]) = e /\ p \in Producers
      /\ k \in Nat /\ k < sent[p]
  BY Types DEF Inv, MasterIndex, Releasable, FirstHeld, MasterInv
<1>2. View' = View
  BY DEF MasterIndex, routerVars, View
<1>3. CASE e \in Traces
  BY <1>1, <1>2, <1>3 DEF MasterIndex, Abstract!rlVars
<1>4. CASE e \notin Traces
  <2>1. event_log' = Append(event_log, e)
    BY <1>1, <1>4 DEF MasterIndex
  <2>2. e \in AllEvents
    <3>1. k \in 0 .. MaxEvents - 1
      BY <1>1, BoundAssumption DEF BoundInv
    <3> QED
      BY <3>1, <1>1 DEF AllEvents
  <2>3. e \notin Logged
    BY <1>1, Types DEF Inv, LogInv, Logged
  <2>4. \A j \in 0 .. k - 1 : <<p, j>> \in Logged \cup Traces
    BY DEF Inv, LogInv, TypeOK
  <2>5. Abstract!Index(e)
    BY <1>2, <1>4, <2>1, <2>3, <2>4 DEF Abstract!Index, Abstract!Logged, Logged
  <2> QED
    BY <2>2, <2>5 DEF Abstract!Next
<1> QED
  BY <1>3, <1>4

(* Feeding the open receivers of a router is a step of the abstract log.   *)
LEMMA ForwardRefines ==
  ASSUME Inv, NEW r \in Routers, Forward(r)
  PROVE  [Abstract!Next]_Abstract!rlVars
<1> DEFINE R == {rc \in Routers \X Consumers :
                   rc[1] = r /\ rc[2] \in internal_outbound[r]}
           n == buf[r].next
           x == [idx |-> buf[r].next, event |-> FirstHeld(buf[r])]
<1>1. /\ n \in Nat /\ n < Len(event_log)
      /\ FirstHeld(buf[r]) = event_log[n + 1]
  BY Types DEF Inv, Forward, Releasable, FirstHeld, RouterInv
<1>2. /\ event_log' = event_log
      /\ feed' = [feed EXCEPT ![r] = [c \in Consumers |->
                     IF c \in internal_outbound[r]
                     THEN Append(feed[r][c], x) ELSE feed[r][c]]]
  BY DEF Forward, masterVars
<1>3. \A rc \in R : Len(View[rc]) = n
  BY DEF View, Inv, FeedInv
<1>4. /\ \A rc \in R : View'[rc] = Append(View[rc], x)
      /\ \A rc \in (Routers \X Consumers) \ R : View'[rc] = View[rc]
  BY <1>2 DEF View, Inv, TypeOK
<1>5. View' = [rc \in Routers \X Consumers |-> View'[rc]]
  BY DEF View
<1>6. Abstract!Read(R)
  <2>1. \A rc \in R : Len(View[rc]) < Len(event_log)
    BY <1>1, <1>3
  <2>2. \A rc \in R :
          x = [idx |-> Len(View[rc]), event |-> event_log[Len(View[rc]) + 1]]
    BY <1>1, <1>3
  <2> HIDE DEF x
  <2>3. View' = [rc \in Routers \X Consumers |->
                   IF rc \in R
                   THEN Append(View[rc],
                               [idx   |-> Len(View[rc]),
                                event |-> event_log[Len(View[rc]) + 1]])
                   ELSE View[rc]]
    BY <1>4, <1>5, <2>2
  <2> QED
    BY <1>2, <2>1, <2>3 DEF Abstract!Read
<1>7. R \in SUBSET (Routers \X Consumers)
  OBVIOUS
<1> QED
  BY <1>6, <1>7 DEF Abstract!Next

(* The EventRouters and the master together implement ReplicatedLog: with  *)
(* the log and the receivers' streams as the abstract state, every step is *)
(* a step of the abstract specification or changes nothing it speaks of.   *)
THEOREM Refinement == Spec => ImplementsReplicatedLog
<1>1. Init => Abstract!Init
  BY DEF Init, Abstract!Init, View
<1>2. Inv /\ BoundInv /\ [Next]_vars => [Abstract!Next]_Abstract!rlVars
  <2> SUFFICES ASSUME Inv, BoundInv, [Next]_vars
               PROVE  [Abstract!Next]_Abstract!rlVars
    OBVIOUS
  <2>1. ASSUME event_log' = event_log, feed' = feed
        PROVE  [Abstract!Next]_Abstract!rlVars
    BY <2>1 DEF Abstract!rlVars, View
  <2> QED
    BY <2>1, MasterIndexRefines, ForwardRefines
    DEF Next, vars, SendEvent, MasterReceive, MasterReplay, RetryWake,
        RetryNext, Resend, ReceiveGlobal, NackSend, LaterTraffic,
        CloseReceiver, Lose, masterVars, routerVars
<1> QED
  BY <1>1, <1>2, InvHolds, BoundHolds, PTL
  DEF Spec, ImplementsReplicatedLog, Abstract!Spec

=============================================================================
