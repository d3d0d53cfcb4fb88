---------------------------- MODULE NodeElection ----------------------------
(***************************************************************************)
(* What a node makes of its election: Node._elect_loop (src/exo/main.py)   *)
(* replaces the EventRouter when the master changes, starts or stops the   *)
(* node's own Master, and resumes the API, which stops sending commands as *)
(* soon as it hears of a round it has not seen the result of.              *)
(*                                                                         *)
(* A process may also die.  It would come back as another node: a node id  *)
(* is drawn at random at every start (get_node_zid).                       *)
(***************************************************************************)
EXTENDS Election

CONSTANT MaxCrashes   \* BOUND: processes that die

ASSUME CrashAssumption == MaxCrashes \in Nat

VARIABLES
  master,         \* per node: the session of its Master, or NoSession
  router,         \* per node: the EventRouter's session
  last_completed, \* per node: the API's last_completed_election
  paused,         \* per node: the API's paused flag
  failed          \* the nodes whose _elect_loop failed its assertion

nodeVars == <<master, router, last_completed, paused, failed>>

vars == <<electionVars, nodeVars>>

NoSession == SessionId(-1, -1)

(* Node.create: every node starts with a master.                           *)
Init ==
  /\ ElectionInit
  /\ master = [n \in Nodes |-> SessionId(n, 0)]
  /\ router = [n \in Nodes |-> SessionId(n, 0)]
  /\ last_completed = [n \in Nodes |-> 0]
  /\ paused = [n \in Nodes |-> FALSE]
  /\ failed = {}

(* Mutant of PauseOnNewElection: the round just completed pauses again.    *)
PauseOnAnyElection(n, c) ==
  paused' = [paused EXCEPT ![n] = @ \/ c >= last_completed[n]]

(* The topic hands every ballot, the node's own too, to the API as well:   *)
(* _pause_on_new_election.                                                 *)
PauseOnNewElection(n, c) ==
  paused' = [paused EXCEPT ![n] = @ \/ c > last_completed[n]]

(* One turn of _elect_loop.                                                *)
HandleResult(n) ==
  /\ results[n] # << >>
  /\ results' = [results EXCEPT ![n] = Tail(@)]
  /\ LET r == Head(results[n])
         mine == r.session_id.master_node_id = n IN
       /\ ~(mine /\ master[n] # NoSession /\ r.is_new_master)
       /\ router' = [router EXCEPT ![n] =
                       IF r.is_new_master THEN r.session_id ELSE @]
       /\ \/ /\ mine /\ master[n] = NoSession
             /\ master' = [master EXCEPT ![n] = r.session_id]
          \/ /\ mine /\ master[n] # NoSession
             /\ UNCHANGED master
          \/ /\ ~mine
             /\ master' = [master EXCEPT ![n] = NoSession]
       /\ last_completed' = [last_completed EXCEPT ![n] = r.won_clock]
       /\ paused' = [paused EXCEPT ![n] = FALSE]
  /\ UNCHANGED <<alive, clock, seniority, commands_seen, current_session,
                 campaigns, entered, channel, pending, flaps, failed>>

(* The process is gone with all it knew, and every other node notices.     *)
GoDown(n) ==
  /\ alive' = alive \ {n}
  /\ campaigns' = [campaigns EXCEPT ![n] = << >>]
  /\ channel' = [p \in Nodes \X Nodes |->
                   IF p[2] = n THEN << >> ELSE channel[p]]
  /\ results' = [results EXCEPT ![n] = << >>]
  /\ master' = [master EXCEPT ![n] = NoSession]
  /\ pending' = (pending \cup alive) \ {n}
  /\ clock' = [clock EXCEPT ![n] = 0]
  /\ seniority' = [seniority EXCEPT ![n] = 0]
  /\ commands_seen' = [commands_seen EXCEPT ![n] = 0]
  /\ current_session' = [current_session EXCEPT ![n] = SessionId(n, 0)]
  /\ entered' = [entered EXCEPT ![n] = 0]
  /\ router' = [router EXCEPT ![n] = SessionId(n, 0)]
  /\ last_completed' = [last_completed EXCEPT ![n] = 0]
  /\ paused' = [paused EXCEPT ![n] = FALSE]
  /\ UNCHANGED flaps

(* _elect_loop's assertion fails, which ends the node's task group.        *)
FailAssertion(n) ==
  /\ results[n] # << >>
  /\ Head(results[n]).session_id.master_node_id = n
  /\ Head(results[n]).is_new_master
  /\ master[n] # NoSession
  /\ failed' = failed \cup {n}
  /\ GoDown(n)

Crash(n) ==
  /\ n \in alive /\ Cardinality(Nodes \ (alive \cup failed)) < MaxCrashes
  /\ GoDown(n)
  /\ UNCHANGED failed

ElectionStep(n) ==
  \/ \E from \in Nodes \ {n} :
       /\ ReceiveBallot(n, from)
       /\ PauseOnNewElection(n, Head(channel[<<from, n>>]).clock)
       /\ UNCHANGED <<master, router, last_completed, failed>>
  \/ \E i \in DOMAIN campaigns[n] :
       \/ /\ Begin(n, i) \/ Enter(n, i) \/ Decide(n, i) \/ Report(n, i)
          /\ UNCHANGED nodeVars
       \/ /\ Announce(n, i) \/ Wake(n, i)
          /\ PauseOnNewElection(n, campaigns[n][i].status.clock)
          /\ UNCHANGED <<master, router, last_completed, failed>>
  \/ ConnectionChange(n) /\ UNCHANGED nodeVars

Next ==
  \E n \in Nodes :
    \/ ElectionStep(n)
    \/ HandleResult(n)
    \/ FailAssertion(n)
    \/ (SeeCommand(n) \/ Flap(n)) /\ UNCHANGED nodeVars
    \/ Crash(n)

Spec == Init /\ [][Next]_vars

(* The event loop of every node keeps running its tasks, and the network   *)
(* delivers.                                                               *)
Fairness ==
  \A n \in Nodes : /\ WF_vars(ElectionStep(n))
                  /\ WF_vars(HandleResult(n) \/ FailAssertion(n))

FairSpec == Spec /\ Fairness

-----------------------------------------------------------------------------
Sessions == [master_node_id : Nodes, election_clock : Nat]

(* The bookkeeping of the campaigns is sound: one list at most takes the   *)
(* ballots in, no ballot in it is of a round the node has not reached, and *)
(* a campaign waits for one that was there before it.                      *)
TypeOK ==
  /\ alive \subseteq Nodes /\ pending \subseteq alive
  /\ current_session \in [Nodes -> Sessions]
  /\ master \in [Nodes -> Sessions \cup {NoSession}]
  /\ router \in [Nodes -> Sessions]
  /\ paused \in [Nodes -> BOOLEAN]
  /\ \A n \in Nodes :
       /\ {clock[n], seniority[n], commands_seen[n], last_completed[n]}
            \subseteq Nat
       /\ last_completed[n] <= clock[n]
       /\ entered[n] \in 0 .. Len(campaigns[n])
       /\ Cardinality({i \in DOMAIN campaigns[n] :
                         campaigns[n][i].listening}) <= 1
       /\ \A i \in DOMAIN campaigns[n] :
            /\ campaigns[n][i].awaits \in 0 .. i - 1
            /\ \A m \in campaigns[n][i].candidates : m.clock <= clock[n]

(* The cluster is at rest: nothing is left to do anywhere.                 *)
Settled ==
  /\ pending = {}
  /\ \A p \in Nodes \X Nodes : channel[p] = << >>
  /\ \A n \in alive :
       /\ results[n] = << >>
       /\ \A i \in DOMAIN campaigns[n] : campaigns[n][i].pc = "done"

(* When the network is fast against the timeout, a cluster at rest agrees  *)
(* on a session, and of its nodes exactly the one that session names runs  *)
(* a Master: it is not one that has died, and _elect_loop has demoted all  *)
(* others.                                                                 *)
OneMaster ==
  Settled => \A n \in alive :
    LET k == current_session[n].master_node_id IN
      /\ k \in alive
      /\ \A m \in alive : current_session[m] = current_session[n]
      /\ \A m \in alive : master[m] # NoSession <=> m = k

(* A cluster at rest follows its master: every node's EventRouter is in    *)
(* the session the node has elected, as _elect_loop replaces it for every  *)
(* new master.                                                             *)
RoutersFollow ==
  Settled => \A n \in alive : router[n] = current_session[n]

(* A cluster at rest answers its users: no API stays paused.               *)
NobodyStaysPaused == Settled => \A n \in alive : ~paused[n]

(* Whatever changes, the cluster comes to rest: no campaign waits for ever *)
(* for the one before it, and the ballots of a round do not keep starting  *)
(* new ones.                                                               *)
EventuallySettled == <>[]Settled
=============================================================================
