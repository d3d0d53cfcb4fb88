------------------------------ MODULE Election ------------------------------
(***************************************************************************)
(* exo's election (src/exo/shared/election.py) on every node at once.      *)
(*                                                                         *)
(* A change of connectivity, or a ballot of a later round, starts a        *)
(* campaign: a task that cancels the campaign it finds, waits for it to    *)
(* end, casts the node's own ballot, sleeps, casts it again, and elects    *)
(* the greatest ballot it has collected.  One event loop runs the tasks of *)
(* a node; they yield at every await, so a campaign is modelled by the     *)
(* await it is suspended at:                                               *)
(*   created    start_soon has been called, the task has not run yet       *)
(*   waiting    at _campaign_done.wait()                                   *)
(*   announcing at the first send of its ballot                            *)
(*   sleeping   at anyio.sleep(campaign_timeout)                           *)
(*   deciding   at the checkpoint after the second send                    *)
(*   reporting  in elect(), at the send of the result                      *)
(*   done       finished or cancelled: its done event is set               *)
(* A campaign can be cancelled from announcing to reporting, the states in *)
(* which it is inside its CancelScope.                                     *)
(***************************************************************************)
EXTENDS Integers, Sequences, FiniteSets, FiniteSetsExt, SequencesExt

CONSTANTS
  Nodes,           \* node ids: numbers, compared as the code compares them
  InitSeniority,   \* per node: 0, or 1 000 000 with --force-master
  Timely,          \* whether the network is fast against the timeout
  Noticing,        \* the nodes that find a peer as they start
  MaxFlaps,        \* BOUND: connectivity changes beyond those of a crash
  MaxCommands      \* BOUND: commands a node sees

ASSUME ElectionAssumption ==
  /\ Nodes \subseteq Nat
  /\ InitSeniority \in [Nodes -> Nat]
  /\ Timely \in BOOLEAN
  /\ Noticing \subseteq Nodes
  /\ MaxFlaps \in Nat /\ MaxCommands \in Nat

VARIABLES
  alive,         \* the nodes whose process is running
  clock, seniority, commands_seen, current_session,
  campaigns,     \* per node: its campaigns, in the order they were created
  entered,       \* per node: the campaign that set _campaign_done last
  channel,       \* per pair of nodes: election messages on their way
  results,       \* per node: the ElectionResults the Node has yet to handle
  pending,       \* the nodes with unread connection messages
  flaps          \* connectivity changes so far

electionVars == <<alive, clock, seniority, commands_seen, current_session,
                  campaigns, entered, channel, results, pending, flaps>>

SessionId(n, c) == [master_node_id |-> n, election_clock |-> c]

(* ElectionMessage.__lt__ is the lexicographic order of these tuples.      *)
Key(m) == <<m.clock, m.seniority, m.commands_seen,
            m.proposed_session.master_node_id>>

Less(m1, m2) ==
  \E i \in 1 .. 4 :
    /\ Key(m1)[i] < Key(m2)[i]
    /\ \A j \in 1 .. i - 1 : Key(m1)[j] = Key(m2)[j]

Greatest(S) == CHOOSE m \in S : \A x \in S : ~Less(m, x)

(* What n casts in round c: a master proposes the session it already has.  *)
ElectionStatus(n, c) ==
  [proposed_session |-> IF current_session[n].master_node_id = n
                        THEN current_session[n] ELSE SessionId(n, c),
   clock |-> c, seniority |-> seniority[n], commands_seen |-> commands_seen[n]]

None == [clock |-> -1]

(* candidates is the campaign's list: as max() and len() are all that is   *)
(* asked of it, the set of its ballots and its length.  listening is       *)
(* whether it is the list that self._candidates refers to, awaits the      *)
(* campaign whose done event this one waits for, if any.                   *)
NewCampaign(ballots) ==
  [pc |-> "created", clock |-> 0, candidates |-> ballots,
   length |-> Cardinality(ballots), listening |-> TRUE, awaits |-> 0,
   status |-> None, result |-> None]

(* Mutant of Finished: a campaign that is over does not set its event.     *)
NotSignalled ==
  [pc |-> "over", clock |-> 0, candidates |-> {}, length |-> 0,
   listening |-> FALSE, awaits |-> 0, status |-> None, result |-> None]

Finished ==
  [pc |-> "done", clock |-> 0, candidates |-> {}, length |-> 0,
   listening |-> FALSE, awaits |-> 0, status |-> None, result |-> None]

(* The nodes have started and are about to find one another.  The campaign *)
(* of run(), which has no timeout, is over before there is a peer to hear  *)
(* it: every node has elected itself, with the one ballot it had.          *)
ElectionInit ==
  /\ alive = Nodes
  /\ clock = [n \in Nodes |-> 0]
  /\ seniority = [n \in Nodes |-> Max({InitSeniority[n], 1})]
  /\ commands_seen = [n \in Nodes |-> 0]
  /\ current_session = [n \in Nodes |-> SessionId(n, 0)]
  /\ campaigns = [n \in Nodes |-> << >>]
  /\ entered = [n \in Nodes |-> 0]
  /\ channel = [p \in Nodes \X Nodes |-> << >>]
  /\ results = [n \in Nodes |-> << >>]
  /\ pending = Noticing
  /\ flaps = 0

-----------------------------------------------------------------------------
(* Mutant of StartCampaign: earlier lists go on taking ballots in.         *)
StartAnotherCampaign(n, ballots) ==
  campaigns' = [campaigns EXCEPT ![n] = Append(@, NewCampaign(ballots))]

(* start_soon(_campaign, candidates, timeout), the new list taking the     *)
(* place of self._candidates.                                              *)
StartCampaign(n, ballots) ==
  campaigns' = [campaigns EXCEPT ![n] =
    Append([i \in DOMAIN @ |-> [@[i] EXCEPT !.listening = FALSE]],
           NewCampaign(ballots))]

(* Mutant of ReceiveBallot: a later round is noted, but not joined.        *)
ReceiveBallotOnly(n, from) ==
  /\ channel[<<from, n>>] # << >>
  /\ channel' = [channel EXCEPT ![<<from, n>>] = Tail(@)]
  /\ LET m == Head(channel[<<from, n>>]) IN
       clock' = [clock EXCEPT ![n] = Max({@, m.clock})]
  /\ UNCHANGED <<seniority, commands_seen, current_session, campaigns,
                 entered, results, pending, flaps, alive>>

(* A ballot of this round goes to the list in use.                         *)
Counted(c, m) ==
  IF c.listening THEN [c EXCEPT !.candidates = @ \cup {m}, !.length = @ + 1] ELSE c

(* _election_receiver: a later round is joined with a campaign of its own, *)
(* an earlier one is ignored, a ballot of this round goes to the current   *)
(* list, which nobody reads any more once its campaign is over.            *)
ReceiveBallot(n, from) ==
  /\ channel[<<from, n>>] # << >>
  /\ channel' = [channel EXCEPT ![<<from, n>>] = Tail(@)]
  /\ LET m == Head(channel[<<from, n>>]) IN
       \/ /\ m.clock > clock[n]
          /\ clock' = [clock EXCEPT ![n] = m.clock]
          /\ StartCampaign(n, {m})
       \/ /\ m.clock < clock[n]
          /\ UNCHANGED <<clock, campaigns>>
       \/ /\ m.clock = clock[n]
          /\ campaigns' = [campaigns EXCEPT ![n] = [i \in DOMAIN @ |-> Counted(@[i], m)]]
          /\ UNCHANGED clock
  /\ UNCHANGED <<seniority, commands_seen, current_session, entered, results,
                 pending, flaps, alive>>

(* A peer is lost or found: its liveliness token changes.                  *)
Flap(n) ==
  /\ n \in alive /\ flaps < MaxFlaps
  /\ flaps' = flaps + 1
  /\ pending' = pending \cup {n}
  /\ UNCHANGED <<alive, clock, seniority, commands_seen, current_session,
                 campaigns, entered, channel, results>>

(* _connection_receiver: 0.2 s after the first message it takes the rest   *)
(* with it.  A peer whose ballots are still on their way is not yet lost.  *)
ConnectionChange(n) ==
  /\ n \in pending
  /\ Timely => \A p \in Nodes \ alive : channel[<<p, n>>] = << >>
  /\ pending' = pending \ {n}
  /\ clock' = [clock EXCEPT ![n] = @ + 1]
  /\ StartCampaign(n, {})
  /\ UNCHANGED <<alive, seniority, commands_seen, current_session, entered,
                 channel, results, flaps>>

(* _command_counter                                                        *)
SeeCommand(n) ==
  /\ n \in alive /\ commands_seen[n] < MaxCommands
  /\ commands_seen' = [commands_seen EXCEPT ![n] = @ + 1]
  /\ UNCHANGED <<clock, seniority, current_session, campaigns, entered,
                 channel, results, pending, flaps, alive>>

-----------------------------------------------------------------------------
(* The steps of a campaign.                                                *)

Cast(n, m) ==
  channel' = [p \in Nodes \X Nodes |->
                IF p[1] = n /\ p[2] \in alive \ {n} THEN Append(channel[p], m)
                ELSE channel[p]]

(* The event loop runs its ready tasks, and fires its timers, in order: a  *)
(* campaign does not overtake an earlier one of the same node.             *)
InTurn(n, i) ==
  \A j \in 1 .. i - 1 : campaigns[n][j].pc # campaigns[n][i].pc

Cancellable == {"announcing", "sleeping", "deciding", "reporting"}

(* The task first runs: it notes the round, and cancels the campaign whose *)
(* scope is installed.  That campaign's done event is set before the wait  *)
(* for it returns, but not before other tasks have run.                    *)
Begin(n, i) ==
  /\ campaigns[n][i].pc = "created" /\ InTurn(n, i)
  /\ campaigns' = [campaigns EXCEPT ![n] = [j \in DOMAIN @ |->
       IF j = i THEN [@[j] EXCEPT !.pc = "waiting", !.clock = clock[n],
                                  !.awaits = entered[n]]
       ELSE IF j = entered[n] /\ @[j].pc \in Cancellable THEN Finished
       ELSE @[j]]]
  /\ UNCHANGED <<clock, seniority, commands_seen, current_session, entered,
                 channel, results, pending, flaps, alive>>

(* The wait returns: the campaign installs its own event and scope, and    *)
(* adds its ballot to its list.                                            *)
Enter(n, i) ==
  /\ campaigns[n][i].pc = "waiting" /\ InTurn(n, i)
  /\ LET a == campaigns[n][i].awaits IN a # 0 => campaigns[n][a].pc = "done"
  /\ entered' = [entered EXCEPT ![n] = i]
  /\ LET c == campaigns[n][i]
         status == ElectionStatus(n, c.clock)
     IN  campaigns' = [campaigns EXCEPT ![n][i] =
           [c EXCEPT !.pc = "announcing", !.status = status, !.awaits = 0,
                     !.candidates = c.candidates \cup {status}, !.length = c.length + 1]]
  /\ UNCHANGED <<clock, seniority, commands_seen, current_session, channel,
                 results, pending, flaps, alive>>

Announce(n, i) ==
  /\ campaigns[n][i].pc = "announcing" /\ InTurn(n, i)
  /\ Cast(n, campaigns[n][i].status)
  /\ campaigns' = [campaigns EXCEPT ![n][i].pc = "sleeping"]
  /\ UNCHANGED <<clock, seniority, commands_seen, current_session, entered,
                 results, pending, flaps, alive>>

(* With a network that is fast against the three seconds of the timeout,   *)
(* the timeout elapses only when every ballot cast has arrived and every   *)
(* campaign that has been started has cast its own.                        *)
InTime ==
  /\ \A p \in Nodes \X Nodes : channel[p] = << >>
  /\ \A k \in Nodes : \A j \in DOMAIN campaigns[k] :
       campaigns[k][j].pc \notin {"created", "waiting", "announcing"}

(* The sleep is over and the ballot is cast once more.                     *)
Wake(n, i) ==
  /\ campaigns[n][i].pc = "sleeping" /\ InTurn(n, i)
  /\ Timely => InTime
  /\ Cast(n, campaigns[n][i].status)
  /\ campaigns' = [campaigns EXCEPT ![n][i].pc = "deciding"]
  /\ UNCHANGED <<clock, seniority, commands_seen, current_session, entered,
                 results, pending, flaps, alive>>

(* The greatest ballot is elected: the winner's seniority is the number of *)
(* ballots it collected, if that is more.  elect() sets the session, then  *)
(* awaits the send of the result.                                          *)
Decide(n, i) ==
  /\ campaigns[n][i].pc = "deciding" /\ InTurn(n, i)
  /\ LET c == campaigns[n][i]
         elected == Greatest(c.candidates) IN
       /\ seniority' = [seniority EXCEPT ![n] =
            IF elected.proposed_session.master_node_id = n /\ c.length > @
            THEN c.length ELSE @]
       /\ current_session' = [current_session EXCEPT
                                ![n] = elected.proposed_session]
       /\ campaigns' = [campaigns EXCEPT
            ![n][i].pc = "reporting",
            ![n][i].result =
               [session_id    |-> elected.proposed_session,
                won_clock     |-> elected.clock,
                is_new_master |-> elected.proposed_session
                                    # current_session[n]]]
  /\ UNCHANGED <<clock, commands_seen, entered, channel, results, pending, flaps, alive>>

Report(n, i) ==
  /\ campaigns[n][i].pc = "reporting" /\ InTurn(n, i)
  /\ results' = [results EXCEPT ![n] = Append(@, campaigns[n][i].result)]
  /\ campaigns' = [campaigns EXCEPT ![n][i] = Finished]
  /\ UNCHANGED <<clock, seniority, commands_seen, current_session, entered,
                 channel, pending, flaps, alive>>
=============================================================================
