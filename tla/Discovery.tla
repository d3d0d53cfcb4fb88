------------------------------ MODULE Discovery ------------------------------
(***************************************************************************)
(* How nodes find each other (rust/networking: discovery.rs, lib.rs).      *)
(* Each second a node multicasts a Hello with a new nonce on every         *)
(* interface of its list; whoever is in the same namespace answers the     *)
(* sender with a WhatsUp that repeats the nonce, and the node connects to  *)
(* it when the answer comes before the next Hello and its own id is the    *)
(* greater one.  The loop of the discovery task does one thing at a time;  *)
(* the callback that keeps the list of interfaces runs in another thread.  *)
(*                                                                         *)
(* Nodes are numbered in the order of their zenoh ids.  Datagrams can be   *)
(* lost, delayed and overtaken.  A nonce is a number that no datagram and  *)
(* no node has at the time it is drawn.                                    *)
(***************************************************************************)
EXTENDS Integers, Sequences, SequencesExt, FiniteSets, FiniteSetsExt

CONSTANTS Peers,        \* the nodes: a set of numbers
          Namespaces,   \* the namespaces nodes may be in
          Ifaces,       \* the network interfaces, the same names on all nodes
          MaxFaults     \* bound: interfaces that come up or go down, datagrams lost or late

ASSUME DiscoveryAssumption ==
  Peers \subseteq Nat /\ IsFiniteSet(Peers) /\ MaxFaults \in Nat

VARIABLES namespace,  \* the namespace of each node
          linkUp,     \* of each node, the interfaces that are up
          joined,     \* the multicast groups its socket has joined
          ifaceList,  \* Discovery.ifaces
          nonce,      \* Discovery.last_nonce
          announcing, \* what is left of the list that announce goes through
          panicked,   \* the discovery task is gone
          cut,        \* history: the last address announce removed, and the one meant
          datagrams,  \* the datagrams under way
          connected,  \* pairs: the first has connected to the second
          nfaults     \* how many faults there were

dsvars == <<namespace, linkUp, joined, ifaceList, nonce, announcing, panicked, cut, datagrams,
            connected, nfaults>>

Nonces == 1 .. 2 * Cardinality(Peers) * Cardinality(Peers) + Cardinality(Peers) + 1
FreshNonce == Min(Nonces \ ({d.nonce : d \in datagrams} \cup {nonce[n] : n \in Peers}))

Hello(from, to, x) == [kind |-> "Hello", from |-> from, to |-> to, nonce |-> x]
WhatsUp(from, to, x) == [kind |-> "WhatsUp", from |-> from, to |-> to, nonce |-> x]

DiscoveryInit ==
  /\ namespace \in [Peers -> Namespaces]
  /\ linkUp = [n \in Peers |-> Ifaces] /\ joined = [n \in Peers |-> {}]
  /\ ifaceList = [n \in Peers |-> << >>]
  /\ nonce = [n \in Peers |-> 0] /\ announcing = [n \in Peers |-> << >>]
  /\ panicked = [n \in Peers |-> FALSE]
  /\ cut = << >> /\ datagrams = {} /\ connected = {} /\ nfaults = 0

-----------------------------------------------------------------------------
Spends(k) == nfaults + k <= MaxFaults /\ nfaults' = nfaults + k

(* An interface comes up or goes down.                                     *)
Flap(n, i) ==
  /\ Spends(1)
  /\ linkUp' = [linkUp EXCEPT ![n] = IF i \in @ THEN @ \ {i} ELSE @ \cup {i}]
  /\ UNCHANGED <<namespace, joined, ifaceList, nonce, announcing, panicked, cut, datagrams, connected>>

(* The callback of netwatcher: join the group of each interface that is    *)
(* there, which fails with AddrInUse where it was joined before, and leave *)
(* those that are gone.                                                    *)
WatchInterfaces(n) ==
  /\ joined[n] # linkUp[n]
  /\ joined' = [joined EXCEPT ![n] = linkUp[n]]
  /\ LET added == SetToSeq(linkUp[n] \ joined[n])
         gone == joined[n] \ linkUp[n]
     IN  ifaceList' = [ifaceList EXCEPT ![n] =
                         SelectSeq(@ \o added, LAMBDA i : i \notin gone)]
  /\ UNCHANGED <<namespace, linkUp, nonce, announcing, panicked, cut, datagrams, connected, nfaults>>

-----------------------------------------------------------------------------
(* announce: the list is copied, and gone through from its end.            *)
Resume(n) == announcing[n] = << >> /\ ~panicked[n]

(* A second is longer than a Hello and its answer take, but for a fault.   *)
UnderWay(n) == \E d \in datagrams : d.nonce = nonce[n] /\ ~panicked[d.to]

Tick(n) ==
  /\ Resume(n) /\ ifaceList[n] # << >>
  /\ Spends(IF UnderWay(n) THEN 1 ELSE 0)
  /\ nonce' = [nonce EXCEPT ![n] = FreshNonce]
  /\ announcing' = [announcing EXCEPT ![n] = ifaceList[n]]
  /\ UNCHANGED <<namespace, linkUp, joined, ifaceList, panicked, cut, datagrams, connected>>

Target(n) == Last(announcing[n])
Announced(n) == announcing' = [announcing EXCEPT ![n] = Front(@)]

(* A multicast reaches the nodes whose sockets joined the group there, or  *)
(* some of them, a fault; other errors are only logged.  (It also reaches  *)
(* the sender, which drops it by the nonce or, later, its own answer by    *)
(* the id.)  Of one kind, one datagram of a node to another is under way:  *)
(* one that is overtaken is lost.                                          *)
Heard(n) == {m \in Peers \ {n} : Target(n) \in joined[m] \cap linkUp[m]}
Sent(ds) == {d \in datagrams : \A x \in ds : <<x.kind, x.from, x.to>> # <<d.kind, d.from, d.to>>}
            \cup ds

SendHello(n) ==
  /\ announcing[n] # << >> /\ Target(n) \in linkUp[n]
  /\ \E got \in SUBSET Heard(n) :
       /\ datagrams' = Sent({Hello(n, m, nonce[n]) : m \in got})
       /\ Spends(Cardinality(Heard(n) \ got))
  /\ Announced(n)
  /\ UNCHANGED <<namespace, linkUp, joined, ifaceList, nonce, panicked, cut, connected>>

SwapRemove(s, i) == Front(IF i = Len(s) THEN s ELSE [s EXCEPT ![i] = Last(s)])

(* HostUnreachable: the address is taken out of the list, by the place it  *)
(* has in the copy.  A place that is not there any more is a panic.        *)
HostUnreachable(n) ==
  /\ announcing[n] # << >> /\ Target(n) \notin linkUp[n]
  /\ LET i == Len(announcing[n]) IN
     IF i <= Len(ifaceList[n])
     THEN /\ cut' = <<ifaceList[n][i], Target(n)>>
          /\ ifaceList' = [ifaceList EXCEPT ![n] = SwapRemove(@, i)]
          /\ Announced(n) /\ UNCHANGED panicked
     ELSE /\ panicked' = [panicked EXCEPT ![n] = TRUE]
          /\ cut' = <<"panic", Target(n)>>
          /\ announcing' = [announcing EXCEPT ![n] = << >>]
          /\ UNCHANGED ifaceList
  /\ UNCHANGED <<namespace, linkUp, joined, nonce, datagrams, connected, nfaults>>

-----------------------------------------------------------------------------
(* respond.                                                                *)

\* A seeded fault: the namespace of a Hello is not looked at.
AnyNamespace(n, d) == nonce[n] # d.nonce

(* A Hello of one's own, or of another namespace, is dropped.              *)
Answers(n, d) == nonce[n] # d.nonce /\ namespace[n] = namespace[d.from]

\* A seeded fault: the answer carries the nonce of who answers.
OwnNonce(n, d) == WhatsUp(n, d.from, nonce[n])

Reply(n, d) == WhatsUp(n, d.from, d.nonce)

(* The reply is sent, after some attempts; if none of them succeeds it is  *)
(* as good as lost.                                                        *)
RecvHello(n, d) ==
  /\ Resume(n) /\ d \in datagrams /\ d.kind = "Hello" /\ d.to = n
  /\ datagrams' = Sent(IF Answers(n, d) THEN {Reply(n, d)} ELSE {}) \ {d}
  /\ UNCHANGED <<namespace, linkUp, joined, ifaceList, nonce, announcing, panicked, cut, connected, nfaults>>

(* A WhatsUp for the last Hello of another node; open then connects to     *)
(* nodes with a smaller id.                                                *)
RecvWhatsUp(n, d) ==
  /\ Resume(n) /\ d \in datagrams /\ d.kind = "WhatsUp" /\ d.to = n
  /\ datagrams' = datagrams \ {d}
  /\ connected' = IF d.nonce = nonce[n] /\ d.from < n
                  THEN connected \cup {<<n, d.from>>} ELSE connected
  /\ UNCHANGED <<namespace, linkUp, joined, ifaceList, nonce, announcing, panicked, cut, nfaults>>

Lost(d) ==
  /\ d \in datagrams /\ datagrams' = datagrams \ {d}
  /\ Spends(1)
  /\ UNCHANGED <<namespace, linkUp, joined, ifaceList, nonce, announcing, panicked, cut,
                 connected>>

Announce(n) == Tick(n) \/ SendHello(n) \/ HostUnreachable(n)

Greeted(n) == \E d \in datagrams : RecvHello(n, d)
Answered(n) == \E d \in datagrams : RecvWhatsUp(n, d)

DiscoveryNext ==
  \/ \E n \in Peers :
       \/ Announce(n) \/ Greeted(n) \/ Answered(n) \/ WatchInterfaces(n)
       \/ \E i \in Ifaces : Flap(n, i)
  \/ \E d \in datagrams : Lost(d)

-----------------------------------------------------------------------------
(* Properties.                                                             *)

(* Nodes of different namespaces never connect, although the answer does   *)
(* not name the namespace: it is checked by who answers only.              *)
NamespacesApart ==
  \A c \in connected : namespace[c[1]] = namespace[c[2]]

Reaches(n, m) ==
  /\ ~panicked[n] /\ ~panicked[m]
  /\ \E i \in Range(ifaceList[n]) : i \in linkUp[n] /\ i \in joined[m] \cap linkUp[m]

(* Exactly the nodes of one namespace get connected.  Two of them that can *)
(* reach each other on an interface from some time on are, by the one with *)
(* the greater id: announcing, answering and taking interfaces out of the  *)
(* list do not starve a pair.                                              *)
PeersConnect ==
  []NamespacesApart /\ \A p \in {q \in Peers \X Peers : q[1] > q[2]} :
    (namespace[p[1]] = namespace[p[2]] /\ <>[]Reaches(p[1], p[2])) => <>(p \in connected)

(* "rev so .remove() doesn't break things": the address that is removed    *)
(* after a failed send is the address of that send.                        *)
RemovesTheUnreachable == cut = << >> \/ cut[1] = cut[2]

=============================================================================
