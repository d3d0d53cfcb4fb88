--------------------------- MODULE EventPipeline ---------------------------
(***************************************************************************)
(* One session of exo's event plane.  Components hand events to a sender   *)
(* of their node's EventRouter; the router stamps them and publishes them  *)
(* on local_events; the master resequences each sender's events, gives     *)
(* each a global index, appends it to its log and broadcasts it on         *)
(* global_events; every router resequences that stream and feeds it to the *)
(* replicas (worker, API) of its node.                                     *)
(*                                                                         *)
(* The inbound hop drops messages silently and neither topic keeps order,  *)
(* so a topic is the set of messages that may still be delivered: a        *)
(* delivery leaves the message in the set (it may be delivered again, and  *)
(* to other routers) and Lose takes it out.  The code's own answer to loss *)
(* is the sender's retry until the event comes back, and the receiver's    *)
(* nack, answered by a replay of the log.                                  *)
(*                                                                         *)
(* Time is abstracted: a retry sweep may find any entry of                 *)
(* out_for_delivery older than five seconds, and a nack's back-off may     *)
(* elapse at any moment.                                                   *)
(***************************************************************************)
EXTENDS Integers, Sequences, FiniteSets, OrderedBuffer

CONSTANTS
  Routers,      \* one EventRouter per node
  Producers,    \* this session's senders: one SystemId per sender() call
  Foreign,      \* the SystemIds of the senders of other sessions
  Consumers,    \* the receivers a router feeds: EventRouter.receiver()
  Home,         \* the router each producer belongs to
  Traces,       \* the events that are TracesCollected
  Master,       \* session_id.master_node_id
  Session,      \* this session
  StaleLocal,   \* messages other sessions left on local_events
  StaleGlobal,  \* messages other sessions and masters left on global_events
  Lossy,        \* whether messages are lost; see Lose
  ReplayLimit,  \* events sent per RequestEventLog: 1000 in the code
  MaxEvents     \* BOUND: events a producer sends in one behaviour

Origins == Producers \cup Foreign

(* The k-th event a producer is handed is <<p, k>>: event_ids are unique.  *)
Event == Origins \X Nat

ASSUME OriginAssumption == Producers \cap Foreign = {}

ASSUME HomeAssumption == Home \in [Producers -> Routers]

ASSUME TracesAssumption == Traces \subseteq Event

ASSUME BoundAssumption ==
  MaxEvents \in Nat /\ ReplayLimit \in Nat \ {0} /\ Lossy \in BOOLEAN

ASSUME StaleAssumption ==
  /\ \A m \in StaleLocal  : m.session # Session /\ m.origin \in Foreign
  /\ \A m \in StaleGlobal : m.session # Session \/ m.origin # Master

VARIABLES
  sent,               \* _ingest's idx, per producer
  out_for_delivery,   \* per router: events not yet seen to come back
  sweep,              \* per router: the rest of _simple_retry's snapshot
  local_events,       \* the LocalForwarderEvents that may still arrive
  multi_buffer,       \* the master's MultiSourceBuffer
  event_log,          \* the master's log; entry i has index i - 1
  traces,             \* the TracesCollected the master has consumed
  global_events,      \* the GlobalForwarderEvents that may still arrive
  buf,                \* per router: the OrderedBuffer of _run_ext_in
  nack,               \* per router: since_idx of the live _nack_request
  requests,           \* the RequestEventLog commands that may still arrive
  internal_outbound,  \* per router: the receivers that are still open
  feed                \* per router and receiver: the IndexedEvents sent to it

vars == <<sent, out_for_delivery, sweep, local_events, multi_buffer,
          event_log, traces, global_events, buf, nack, requests,
          internal_outbound, feed>>

senderVars == <<sent, out_for_delivery, sweep>>
masterVars == <<multi_buffer, event_log, traces>>
routerVars == <<buf, nack, internal_outbound, feed>>
networkVars == <<local_events, global_events, requests>>

NoNack == -1

LocalMsg(p, k) ==
  [origin |-> p, origin_idx |-> k, session |-> Session, event |-> <<p, k>>]

GlobalMsg(idx, e) ==
  [origin |-> Master, origin_idx |-> idx, session |-> Session, event |-> e]

Init ==
  /\ sent = [p \in Producers |-> 0]
  /\ out_for_delivery = [r \in Routers |-> {}]
  /\ sweep = [r \in Routers |-> {}]
  /\ local_events = StaleLocal
  /\ multi_buffer = [p \in Origins |-> EmptyBuffer]
  /\ event_log = << >>
  /\ traces = {}
  /\ global_events = StaleGlobal
  /\ buf = [r \in Routers |-> EmptyBuffer]
  /\ nack = [r \in Routers |-> NoNack]
  /\ requests = {}
  /\ internal_outbound = [r \in Routers |-> Consumers]
  /\ feed = [r \in Routers |-> [c \in Consumers |-> << >>]]

-----------------------------------------------------------------------------
(* The sending side of an EventRouter.                                     *)

(* _ingest: the event is sent and recorded without a yield in between.     *)
SendEvent(p) ==
  /\ sent[p] < MaxEvents
  /\ sent' = [sent EXCEPT ![p] = @ + 1]
  /\ local_events' = local_events \cup {LocalMsg(p, sent[p])}
  /\ out_for_delivery' =
       [out_for_delivery EXCEPT ![Home[p]] = @ \cup {<<p, sent[p]>>}]
  /\ UNCHANGED <<sweep, masterVars, routerVars, global_events, requests>>

(* Mutant of Resend: the entry leaves out_for_delivery as it is sent.      *)
ResendOnce(r, e, rest) ==
  /\ sweep' = [sweep EXCEPT ![r] = rest]
  /\ out_for_delivery' = [out_for_delivery EXCEPT ![r] = @ \ {e}]
  /\ local_events' = local_events \cup {LocalMsg(e[1], e[2])}
  /\ UNCHANGED <<sent, masterVars, routerVars, global_events, requests>>

(* One turn of _simple_retry's loop writes the entry back, with the time   *)
(* of now, and sends the event again; rest is what the snapshot has left.  *)
Resend(r, e, rest) ==
  /\ sweep' = [sweep EXCEPT ![r] = rest]
  /\ out_for_delivery' = [out_for_delivery EXCEPT ![r] = @ \cup {e}]
  /\ local_events' = local_events \cup {LocalMsg(e[1], e[2])}
  /\ UNCHANGED <<sent, masterVars, routerVars, global_events, requests>>

(* Mutant of RetryWake: an entry is retried only while the log is empty.   *)
RetryWakeBeforeFirst(r, e) ==
  /\ sweep[r] = {} /\ event_log = << >>
  /\ \E S \in SUBSET out_for_delivery[r] :
       e \in S /\ Resend(r, e, S \ {e})

(* _simple_retry wakes and takes its snapshot of the entries; those that   *)
(* turn out to be older than five seconds are S, and e is the first.       *)
RetryWake(r, e) ==
  /\ sweep[r] = {}
  /\ \E S \in SUBSET out_for_delivery[r] :
       e \in S /\ Resend(r, e, S \ {e})

(* A later turn of the same sweep: the send before it has yielded, so      *)
(* other tasks have run since the snapshot was taken.                      *)
RetryNext(r, e) == e \in sweep[r] /\ Resend(r, e, sweep[r] \ {e})

-----------------------------------------------------------------------------
(* The master.                                                             *)

(* The list that drain() returned has been walked to its end.              *)
EventProcessorIdle == \A p \in Origins : ~Releasable(multi_buffer[p])

(* Mutant of MasterReceive: events are taken in the order they arrive.     *)
MasterReceiveAsArrived(m) ==
  /\ EventProcessorIdle
  /\ m \in local_events
  /\ m.session = Session
  /\ multi_buffer' =
       [multi_buffer EXCEPT ![m.origin] = Ingest(@, @.next, m.event)]
  /\ UNCHANGED <<senderVars, event_log, traces, routerVars, networkVars>>

(* _event_processor receives a local event.                                *)
MasterReceive(m) ==
  /\ EventProcessorIdle
  /\ m \in local_events
  /\ m.session = Session
  /\ multi_buffer' =
       [multi_buffer EXCEPT ![m.origin] = Ingest(@, m.origin_idx, m.event)]
  /\ UNCHANGED <<senderVars, event_log, traces, routerVars, networkVars>>

(* One turn of the loop over the drained events: traces are consumed, any  *)
(* other event is indexed, logged and broadcast.                           *)
MasterIndex(p) ==
  /\ Releasable(multi_buffer[p])
  /\ multi_buffer' = [multi_buffer EXCEPT ![p] = Release(@)]
  /\ LET e == FirstHeld(multi_buffer[p]) IN
       \/ /\ e \in Traces
          /\ traces' = traces \cup {e}
          /\ UNCHANGED <<event_log, global_events>>
       \/ /\ e \notin Traces
          /\ event_log' = Append(event_log, e)
          /\ global_events' =
               global_events \cup {GlobalMsg(Len(event_log), e)}
          /\ UNCHANGED traces
  /\ UNCHANGED <<senderVars, routerVars, local_events, requests>>

(* The RequestEventLog case of _command_processor: indices since up to,    *)
(* not including, min(since + ReplayLimit, len(log)) are sent again.       *)
ReplayRange(since) ==
  {i \in since .. since + ReplayLimit - 1 : i < Len(event_log)}

(* Mutant of MasterReplay: the replayed events are numbered from 0.        *)
MasterReplayFromZero(since) ==
  /\ since \in requests
  /\ global_events' = global_events \cup
       {GlobalMsg(i - since, event_log[i + 1]) : i \in ReplayRange(since)}
  /\ UNCHANGED <<senderVars, masterVars, routerVars, local_events, requests>>

MasterReplay(since) ==
  /\ since \in requests
  /\ global_events' = global_events \cup
       {GlobalMsg(i, event_log[i + 1]) : i \in ReplayRange(since)}
  /\ UNCHANGED <<senderVars, masterVars, routerVars, local_events, requests>>

-----------------------------------------------------------------------------
(* The receiving side of an EventRouter.                                   *)

ExtInIdle(r) == ~Releasable(buf[r])

(* Mutant of NackAfter: a gap is never reported.                           *)
NackNever(b, pending) == NoNack

(* The check on nack: a pending request is cancelled by an arrival that    *)
(* releases something; one that releases nothing starts a request, unless  *)
(* one is pending.                                                         *)
NackAfter(b, pending) ==
  IF Releasable(b) THEN NoNack
  ELSE IF pending = NoNack THEN b.next ELSE pending

(* Mutant of ReceiveGlobal: events of any session and master are taken.    *)
ReceiveGlobalFromAnyone(r, m) ==
  /\ ExtInIdle(r)
  /\ m \in global_events
  /\ LET b == Ingest(buf[r], m.origin_idx, m.event) IN
       /\ buf' = [buf EXCEPT ![r] = b]
       /\ nack' = [nack EXCEPT ![r] = NackAfter(b, @)]
  /\ out_for_delivery' = [out_for_delivery EXCEPT ![r] = @ \ {m.event}]
  /\ UNCHANGED <<sent, sweep, masterVars, internal_outbound, feed, networkVars>>

(* _run_ext_in receives a global event of its session and master: any      *)
(* arrival, in order or not, acknowledges the event.                       *)
ReceiveGlobal(r, m) ==
  /\ ExtInIdle(r)
  /\ m \in global_events
  /\ m.session = Session
  /\ m.origin = Master
  /\ LET b == Ingest(buf[r], m.origin_idx, m.event) IN
       /\ buf' = [buf EXCEPT ![r] = b]
       /\ nack' = [nack EXCEPT ![r] = NackAfter(b, @)]
  /\ out_for_delivery' = [out_for_delivery EXCEPT ![r] = @ \ {m.event}]
  /\ UNCHANGED <<sent, sweep, masterVars, internal_outbound, feed, networkVars>>

(* Mutant of Forward: the index sent is the one to release next.           *)
ForwardNext(r) ==
  /\ Releasable(buf[r])
  /\ buf' = [buf EXCEPT ![r] = Release(@)]
  /\ feed' = [feed EXCEPT ![r] = [c \in Consumers |->
                IF c \in internal_outbound[r]
                THEN Append(@[c], [idx   |-> buf[r].next + 1,
                                   event |-> FirstHeld(buf[r])])
                ELSE @[c]]]
  /\ UNCHANGED <<senderVars, masterVars, nack, internal_outbound, networkVars>>

(* One turn of the loop over the drained events: every open receiver is    *)
(* sent the IndexedEvent.                                                  *)
Forward(r) ==
  /\ Releasable(buf[r])
  /\ buf' = [buf EXCEPT ![r] = Release(@)]
  /\ feed' = [feed EXCEPT ![r] = [c \in Consumers |->
                IF c \in internal_outbound[r]
                THEN Append(@[c], [idx   |-> buf[r].next,
                                   event |-> FirstHeld(buf[r])])
                ELSE @[c]]]
  /\ UNCHANGED <<senderVars, masterVars, nack, internal_outbound, networkVars>>

(* _nack_request, its back-off elapsed.                                    *)
NackSend(r) ==
  /\ nack[r] # NoNack
  /\ requests' = requests \cup {nack[r]}
  /\ nack' = [nack EXCEPT ![r] = NoNack]
  /\ UNCHANGED <<senderVars, masterVars, buf, internal_outbound, feed,
                 local_events, global_events>>

(* A receiver closes: a later send to it raises and the router drops it.   *)
CloseReceiver(r, c) ==
  /\ c \in internal_outbound[r]
  /\ internal_outbound' = [internal_outbound EXCEPT ![r] = @ \ {c}]
  /\ UNCHANGED <<senderVars, masterVars, buf, nack, feed, networkVars>>

-----------------------------------------------------------------------------
(* The network, and the traffic beyond the bound.                          *)

(* No receiver has to take a message, so a message nobody takes is as good *)
(* as lost: for safety Lose adds nothing, and Lossy = FALSE leaves it out. *)
(* For liveness it is what a retry and a nack have to overcome.            *)
Lose ==
  /\ Lossy
  /\ \/ /\ \E m \in local_events : local_events' = local_events \ {m}
        /\ UNCHANGED <<global_events, requests>>
     \/ /\ \E m \in global_events : global_events' = global_events \ {m}
        /\ UNCHANGED <<local_events, requests>>
     \/ /\ \E s \in requests : requests' = requests \ {s}
        /\ UNCHANGED <<local_events, global_events>>
  /\ UNCHANGED <<senderVars, masterVars, routerVars>>

(* Workers never stop reporting telemetry, so events are indexed past the  *)
(* bound on this model's log.  When one of them reaches a router that is   *)
(* still missing an event below the bound, it is out of sequence.          *)
LaterTraffic(r) ==
  /\ \A p \in Producers : sent[p] = MaxEvents
  /\ ExtInIdle(r)
  /\ buf[r].next < Len(event_log)
  /\ nack' = [nack EXCEPT ![r] = NackAfter(buf[r], @)]
  /\ UNCHANGED <<senderVars, masterVars, buf, internal_outbound, feed,
                 networkVars>>

Next ==
  \/ \E p \in Producers : SendEvent(p)
  \/ \E p \in Origins : MasterIndex(p)
  \/ \E m \in local_events : MasterReceive(m)
  \/ \E s \in requests : MasterReplay(s)
  \/ \E r \in Routers :
       \/ \E e \in out_for_delivery[r] : RetryWake(r, e)
       \/ \E e \in sweep[r] : RetryNext(r, e)
       \/ \E m \in global_events : ReceiveGlobal(r, m)
       \/ Forward(r) \/ NackSend(r) \/ LaterTraffic(r)
       \/ \E c \in Consumers : CloseReceiver(r, c)
  \/ Lose

Spec == Init /\ [][Next]_vars

-----------------------------------------------------------------------------
(* Fairness: tasks of a running event loop are eventually resumed (WF);    *)
(* components keep handing events over; a message sent again and again is  *)
(* eventually let through by the lossy hop (SF); an entry that stays out   *)
(* for delivery grows older than five seconds and every sweep takes all    *)
(* such entries (SF).                                                      *)
AllEvents == Producers \X (0 .. MaxEvents - 1)

LocalMsgs == {LocalMsg(p, k) : p \in Producers, k \in 0 .. MaxEvents - 1}

Fairness ==
  /\ \A p \in Producers : WF_vars(SendEvent(p)) /\ WF_vars(MasterIndex(p))
  /\ \A m \in LocalMsgs : SF_vars(MasterReceive(m))
  /\ \A r \in Routers :
       /\ \A e \in AllEvents : SF_vars(RetryWake(r, e) \/ RetryNext(r, e))
       /\ WF_vars(Forward(r)) /\ WF_vars(NackSend(r))
       /\ WF_vars(LaterTraffic(r))
       /\ \A i \in 0 .. MaxEvents * Cardinality(Producers) - 1 :
            SF_vars(\E m \in global_events :
                      m.origin_idx = i /\ ReceiveGlobal(r, m))
  /\ \A s \in 0 .. MaxEvents * Cardinality(Producers) - 1 :
       SF_vars(MasterReplay(s))

FairSpec == Spec /\ Fairness

-----------------------------------------------------------------------------
(* Properties.                                                             *)

IndexedEvent == [idx : Nat, event : Event]

(* Every variable has its type; a buffer holds nothing below the index it  *)
(* releases next, so what ingest should have dropped never piles up.       *)
TypeOK ==
  /\ sent \in [Producers -> Nat]
  /\ out_for_delivery \in [Routers -> SUBSET (Producers \X Nat)]
  /\ sweep \in [Routers -> SUBSET (Producers \X Nat)]
  /\ DOMAIN multi_buffer = Origins
  /\ \A p \in Origins : IsBuffer(multi_buffer[p], Event)
  /\ event_log \in Seq(Event)
  /\ traces \subseteq Traces
  /\ DOMAIN buf = Routers
  /\ \A r \in Routers : IsBuffer(buf[r], Event)
  /\ nack \in [Routers -> Nat \cup {NoNack}]
  /\ requests \subseteq Nat
  /\ internal_outbound \in [Routers -> SUBSET Consumers]
  /\ feed \in [Routers -> [Consumers -> Seq(IndexedEvent)]]

Logged == {event_log[i] : i \in DOMAIN event_log}

(* What a receiver was sent is the log from its start, under contiguous    *)
(* indices: the assertion of apply() in shared/apply.py never fires and no *)
(* two replicas diverge, whatever was lost, repeated or reordered, and     *)
(* whatever other sessions left on the topics.                             *)
ReplicasReadTheLog ==
  \A r \in Routers, c \in Consumers :
    /\ Len(feed[r][c]) <= Len(event_log)
    /\ \A i \in DOMAIN feed[r][c] :
         feed[r][c][i] = [idx |-> i - 1, event |-> event_log[i]]

(* Retries and duplicates never make the master index an event twice.      *)
IndexedOnce ==
  \A i, j \in DOMAIN event_log : event_log[i] = event_log[j] => i = j

(* The master indexes a producer's events in the order the producer handed *)
(* them over, without a gap, and only events of its own session.           *)
ProducerOrder ==
  \A i \in DOMAIN event_log :
    LET e == event_log[i] IN
      /\ e[1] \in Producers /\ e[2] < sent[e[1]]
      /\ \A k \in 0 .. e[2] - 1 :
           \/ <<e[1], k>> \in traces
           \/ \E j \in 1 .. i - 1 : event_log[j] = <<e[1], k>>

(* No message that can still arrive trips the assert of                    *)
(* OrderedBuffer.ingest, "different messages with identical indices", at   *)
(* the master or at a router.                                              *)
NoIndexConflict ==
  /\ \A m \in local_events :
       m.session = Session =>
         ~Conflicts(multi_buffer[m.origin], m.origin_idx, m.event)
  /\ \A r \in Routers, m \in global_events :
       m.session = Session /\ m.origin = Master =>
         ~Conflicts(buf[r], m.origin_idx, m.event)

(* An event leaves out_for_delivery only once the master has indexed it:   *)
(* no event is given up while it could still be lost.                      *)
NothingForgotten ==
  \A p \in Producers : \A k \in 0 .. sent[p] - 1 :
    <<p, k>> \in out_for_delivery[Home[p]] \cup Logged

(* The event plane implements the abstract log.                            *)
View == [rc \in Routers \X Consumers |-> feed[rc[1]][rc[2]]]

Abstract == INSTANCE ReplicatedLog WITH
              Events <- AllEvents, Unlogged <- Traces,
              Replicas <- Routers \X Consumers,
              log <- event_log, view <- View

ImplementsReplicatedLog == Abstract!Spec

(* The retry of _simple_retry gets every event handed over to the master,  *)
(* however often the network drops it.                                     *)
EventuallyIndexed ==
  \A p \in Producers : \A k \in 0 .. MaxEvents - 1 :
    (sent[p] > k) ~> (<<p, k>> \in Logged \cup traces)

(* The nack of _run_ext_in and the master's replay get every indexed event *)
(* to every receiver that stays open, even when the broadcast was dropped. *)
EventuallyApplied ==
  \A r \in Routers, c \in Consumers :
    \A i \in 1 .. MaxEvents * Cardinality(Producers) :
      (i <= Len(event_log))
        ~> (i <= Len(feed[r][c]) \/ c \notin internal_outbound[r])

(* An event whose broadcast has reached its router is acknowledged: the    *)
(* router does not keep it out for delivery, so it is not sent again.      *)
CameBack(r, e) ==
  \E i \in DOMAIN event_log :
    event_log[i] = e /\ (i <= buf[r].next \/ i - 1 \in DOMAIN buf[r].store)

AcknowledgedIsSettled ==
  \A r \in Routers : \A e \in out_for_delivery[r] : ~CameBack(r, e)
=============================================================================
