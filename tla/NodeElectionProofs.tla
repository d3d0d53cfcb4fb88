-------------------------- MODULE NodeElectionProofs --------------------------
(***************************************************************************)
(* The bookkeeping of campaigns, and that no API stays paused, for any     *)
(* nodes, seniorities, network, and number of changes and deaths.          *)
(*                                                                         *)
(* Several campaigns of a node can be under way at once: one that has      *)
(* begun cancels only the campaign whose scope is installed, and two that  *)
(* wait for the same one both enter.  What makes the last of them count is *)
(* that they keep their order: it is never cancelled, and when it reports  *)
(* the others have.                                                        *)
(***************************************************************************)
EXTENDS NodeElection, FiniteSetTheorems, TLAPS

Ballots == [proposed_session : Sessions, clock : Nat, seniority : Nat, commands_seen : Nat]

Outcomes == [session_id : Sessions, won_clock : Nat, is_new_master : BOOLEAN]

(* How far a campaign has come.                                            *)
Pcs == {"created", "waiting", "announcing", "sleeping", "deciding", "reporting", "done"}

Rank ==
  [pc \in Pcs |->
    IF pc = "created" THEN 0 ELSE IF pc = "waiting" THEN 1
    ELSE IF pc = "announcing" THEN 2 ELSE IF pc = "sleeping" THEN 3
    ELSE IF pc = "deciding" THEN 4 ELSE IF pc = "reporting" THEN 5 ELSE 6]

Campaign ==
  [pc : Pcs, clock : Nat, candidates : SUBSET Ballots, length : Nat,
   listening : BOOLEAN, awaits : Nat,
   status : Ballots \cup {None}, result : Outcomes \cup {None}]

Typed ==
  /\ alive \subseteq Nodes /\ pending \subseteq alive
  /\ clock \in [Nodes -> Nat] /\ seniority \in [Nodes -> Nat]
  /\ commands_seen \in [Nodes -> Nat]
  /\ current_session \in [Nodes -> Sessions]
  /\ campaigns \in [Nodes -> Seq(Campaign)]
  /\ entered \in [Nodes -> Nat]
  /\ channel \in [Nodes \X Nodes -> Seq(Ballots)]
  /\ results \in [Nodes -> Seq(Outcomes)]
  /\ master \in [Nodes -> Sessions \cup {NoSession}]
  /\ router \in [Nodes -> Sessions]
  /\ last_completed \in [Nodes -> Nat]
  /\ paused \in [Nodes -> BOOLEAN]

(* Campaign c is the i-th of a node with l of them whose round is k.  The  *)
(* last one is in the round of the node, and reports that it was won.      *)
CampaignOK(c, i, l, k) ==
  /\ c.awaits \in 0 .. i - 1
  /\ c.listening => i = l
  /\ IsFiniteSet(c.candidates) /\ \A m \in c.candidates : m.clock <= k
  /\ c.pc = "waiting" => c.clock <= k
  /\ c.pc \in Cancellable =>
       c.status \in Ballots /\ c.status \in c.candidates /\ c.status.clock = c.clock
  /\ c.pc = "reporting" => c.result \in Outcomes /\ c.result.won_clock <= k
  /\ i = l =>
       /\ c.pc \notin {"created", "done"} => c.clock = k
       /\ c.pc = "reporting" => c.result.won_clock = k

(* Campaign c is earlier than d and not overtaken by it, unless either has *)
(* been cancelled; only what has entered can be.                           *)
Ahead(c, d) ==
  \/ c.pc = "done" \/ Rank[c.pc] >= Rank[d.pc]
  \/ d.pc = "done" /\ c.pc \in Cancellable

Ordered(cs) ==
  \A i \in 1 .. Len(cs) : \A j \in 1 .. Len(cs) : j < i => Ahead(cs[j], cs[i])

Over(cs) == \A i \in 1 .. Len(cs) : cs[i].pc = "done"

(* A node whose campaigns are over has reported the last of them, in its   *)
(* own round, and if the Node has handled that the API is not paused.      *)
Reported(cs, rs, k, last, p) ==
  /\ cs # << >> /\ cs[Len(cs)].pc = "done" => Over(cs)
  /\ Over(cs) /\ rs = << >> => last = k /\ p = FALSE
  /\ Over(cs) /\ rs # << >> => rs[Len(rs)].won_clock = k

(* The campaigns, entered, results, clock, last_completed and paused of a  *)
(* node.                                                                   *)
NodeOK(cs, e, rs, k, last, p) ==
  /\ e \in 0 .. Len(cs)
  /\ e # 0 => cs[e].pc \notin {"created", "waiting"}
  /\ \A i \in 1 .. Len(cs) : CampaignOK(cs[i], i, Len(cs), k)
  /\ Ordered(cs)
  /\ \A x \in 1 .. Len(rs) : rs[x].won_clock <= k
  /\ last <= k
  /\ Reported(cs, rs, k, last, p)

Sound(n) ==
  NodeOK(campaigns[n], entered[n], results[n], clock[n], last_completed[n], paused[n])

Inv == Typed /\ \A n \in Nodes : Sound(n)

-----------------------------------------------------------------------------
(* Ballots.                                                                *)

(* The order of the ballots is one.                                        *)
LEMMA LessIsAnOrder ==
  ASSUME NEW a \in Ballots, NEW b \in Ballots, NEW c \in Ballots
  PROVE  ~Less(a, a) /\ (Less(a, b) /\ Less(b, c) => Less(a, c))
         /\ (a.clock < b.clock => Less(a, b))
<1>1. ASSUME NEW x \in Ballots
      PROVE  /\ Key(x)[1] = x.clock /\ Key(x)[2] = x.seniority
             /\ Key(x)[3] = x.commands_seen
             /\ Key(x)[4] = x.proposed_session.master_node_id
             /\ Key(x)[1] \in Nat /\ Key(x)[2] \in Nat /\ Key(x)[3] \in Nat /\ Key(x)[4] \in Nat
  BY <1>1, ElectionAssumption DEF Key, Ballots, Sessions
<1>2. ASSUME NEW x \in Ballots, NEW y \in Ballots
      PROVE  Less(x, y) <=>
               \/ Key(x)[1] < Key(y)[1]
               \/ Key(x)[1] = Key(y)[1] /\ Key(x)[2] < Key(y)[2]
               \/ Key(x)[1] = Key(y)[1] /\ Key(x)[2] = Key(y)[2] /\ Key(x)[3] < Key(y)[3]
               \/ /\ Key(x)[1] = Key(y)[1] /\ Key(x)[2] = Key(y)[2] /\ Key(x)[3] = Key(y)[3]
                  /\ Key(x)[4] < Key(y)[4]
  <2> DEFINE f == Key(x)
             g == Key(y)
  <2> HIDE DEF f, g
  <2>1. Less(x, y) <=> \E i \in 1 .. 4 : f[i] < g[i] /\ \A j \in 1 .. i - 1 : f[j] = g[j]
    BY DEF Less, f, g
  <2>2. /\ 1 .. 1 - 1 = {} /\ 1 .. 2 - 1 = {1} /\ 1 .. 3 - 1 = {1, 2} /\ 1 .. 4 - 1 = {1, 2, 3}
        /\ 1 .. 4 = {1, 2, 3, 4}
    OBVIOUS
  <2>3. Less(x, y) <=>
          \/ f[1] < g[1] /\ \A j \in {} : f[j] = g[j]
          \/ f[2] < g[2] /\ \A j \in {1} : f[j] = g[j]
          \/ f[3] < g[3] /\ \A j \in {1, 2} : f[j] = g[j]
          \/ f[4] < g[4] /\ \A j \in {1, 2, 3} : f[j] = g[j]
    BY <2>1, <2>2
  <2> QED BY <2>3 DEF f, g
<1> QED BY <1>1, <1>2

(* Of any finite set of ballots one is the greatest: the sets of ballots   *)
(* above each of them are finite, and a least such set is empty.           *)
LEMMA GreatestExists ==
  ASSUME NEW S, S \subseteq Ballots, IsFiniteSet(S), S # {}
  PROVE  Greatest(S) \in S /\ \A x \in S : ~Less(Greatest(S), x)
<1> DEFINE Above(m) == {x \in S : Less(m, x)}
           R == StrictSubsetOrdering(S)
           T == {Above(m) : m \in S}
<1>1. IsWellFoundedOn(R, SUBSET S)
  BY FS_StrictSubsetOrderingWellFounded, FS_FiniteSubsetsOfFinite
<1>2. T \subseteq SUBSET S /\ T # {}
  OBVIOUS
<1>3. \E U \in T : \A V \in T : ~ (<<V, U>> \in R)
  <2> HIDE DEF T, R
  <2> QED BY <1>1, <1>2, WFMin
<1>4. PICK m \in S : \A V \in T : ~ (<<V, Above(m)>> \in R)
  BY <1>3
<1>5. ASSUME NEW x \in S, Less(m, x) PROVE FALSE
  <2>1. Above(x) \subseteq Above(m)
    BY <1>5, LessIsAnOrder
  <2>2. x \in Above(m) /\ x \notin Above(x)
    BY <1>5, LessIsAnOrder
  <2>3. <<Above(x), Above(m)>> \in R
    BY <2>1, <2>2 DEF StrictSubsetOrdering
  <2> QED BY <1>4, <2>3
<1> QED BY <1>5 DEF Greatest

-----------------------------------------------------------------------------
(* The campaigns of a node.                                                *)

(* What a campaign is made of.                                             *)
LEMMA Fields ==
  ASSUME NEW c \in Campaign
  PROVE  /\ c.pc \in Pcs /\ c.clock \in Nat /\ c.candidates \subseteq Ballots
         /\ c.length \in Nat /\ c.listening \in BOOLEAN /\ c.awaits \in Nat
<1> QED BY DEF Campaign

(* A member of a list of campaigns is one.                                 *)
LEMMA Member ==
  ASSUME NEW cs \in Seq(Campaign), NEW i \in 1 .. Len(cs)
  PROVE  cs[i] \in Campaign /\ cs[i].pc \in Pcs
<1>1. cs[i] \in Campaign
  OBVIOUS
<1> QED BY <1>1, Fields

(* One campaign of a list is replaced.                                     *)
LEMMA Replaced ==
  ASSUME NEW cs \in Seq(Campaign), NEW i \in 1 .. Len(cs), NEW d \in Campaign
  PROVE  /\ [cs EXCEPT ![i] = d] \in Seq(Campaign)
         /\ Len([cs EXCEPT ![i] = d]) = Len(cs)
         /\ [cs EXCEPT ![i] = d] # << >>
         /\ \A j \in 1 .. Len(cs) : [cs EXCEPT ![i] = d][j] = IF j = i THEN d ELSE cs[j]
<1> QED OBVIOUS

(* The i-th campaign is ahead of those that stand where it does.           *)
Turn(cs, i) == \A j \in 1 .. i - 1 : cs[j].pc # cs[i].pc

(* A campaign whose turn it is takes a step, and is still ahead of those   *)
(* after it and behind those before it.                                    *)
LEMMA StepInTurn ==
  ASSUME NEW cs \in Seq(Campaign), NEW i \in 1 .. Len(cs), NEW d \in Campaign, Ordered(cs),
         Rank[d.pc] = Rank[cs[i].pc] + 1,
         Turn(cs, i)
  PROVE  Ordered([cs EXCEPT ![i] = d])
<1> DEFINE ds == [cs EXCEPT ![i] = d]
<1>1. /\ Len(ds) = Len(cs)
      /\ \A j \in 1 .. Len(cs) : ds[j] = IF j = i THEN d ELSE cs[j]
  BY Replaced
<1>2. \A j \in 1 .. Len(cs) : cs[j].pc \in Pcs
  BY Member
<1>3. d.pc \in Pcs
  BY Fields
<1> HIDE DEF ds
<1>4. ASSUME NEW a \in 1 .. Len(ds), NEW b \in 1 .. Len(ds), b < a
      PROVE  Ahead(ds[b], ds[a])
  <2>1. a \in 1 .. Len(cs) /\ b \in 1 .. Len(cs) /\ Ahead(cs[b], cs[a])
    BY <1>1, <1>4 DEF Ordered
  <2>2. CASE a = i
    <3>1. b \in 1 .. i - 1 /\ ds[b] = cs[b] /\ ds[a] = d
      BY <1>1, <1>4, <2>1, <2>2
    <3>2. cs[b].pc # cs[i].pc /\ cs[b].pc \in Pcs /\ cs[i].pc \in Pcs
      BY <1>2, <2>1, <3>1 DEF Turn
    <3>3. Ahead(cs[b], cs[i]) => Ahead(cs[b], d)
      BY <3>2, <1>3 DEF Ahead, Rank, Pcs, Cancellable
    <3> QED BY <3>1, <3>3, <2>1, <2>2
  <2>3. CASE a # i /\ b = i
    <3>1. ds[b] = d /\ ds[a] = cs[a] /\ cs[a].pc \in Pcs /\ cs[i].pc \in Pcs
      BY <1>1, <1>2, <2>1, <2>3
    <3>2. Ahead(cs[i], cs[a]) => Ahead(d, cs[a])
      BY <3>1, <1>3 DEF Ahead, Rank, Pcs, Cancellable
    <3> QED BY <3>1, <3>2, <2>1, <2>3
  <2>4. CASE a # i /\ b # i
    BY <1>1, <2>1, <2>4
  <2> QED BY <2>2, <2>3, <2>4
<1> QED BY <1>4 DEF Ordered, ds

(* A campaign that is over is one.                                         *)
LEMMA FinishedIs ==
  Finished \in Campaign /\ Finished.pc = "done"
  /\ \A i \in Nat \ {0}, l, k \in Nat : CampaignOK(Finished, i, l, k)
<1>1. IsFiniteSet({}) /\ Finished.candidates = {}
  BY FS_EmptySet DEF Finished
<1> QED BY <1>1 DEF Finished, Campaign, CampaignOK, Pcs, Cancellable

(* A step of a campaign that ends neither it nor its node's round.         *)
LEMMA StepKeepsNode ==
  ASSUME NEW cs \in Seq(Campaign), NEW e \in Nat, NEW rs, NEW k \in Nat, NEW last, NEW p,
         NodeOK(cs, e, rs, k, last, p),
         NEW i \in 1 .. Len(cs), NEW d \in Campaign, CampaignOK(d, i, Len(cs), k),
         d.pc # "done", Rank[d.pc] = Rank[cs[i].pc] + 1,
         Turn(cs, i),
         NEW f, f = e \/ f = i, f = i => d.pc \notin {"created", "waiting"}, NEW q
  PROVE  NodeOK([cs EXCEPT ![i] = d], f, rs, k, last, q)
<1> DEFINE ds == [cs EXCEPT ![i] = d]
<1>1. /\ Len(ds) = Len(cs) /\ ds # << >>
      /\ \A j \in 1 .. Len(cs) : ds[j] = IF j = i THEN d ELSE cs[j]
  BY Replaced
<1>2. Ordered(ds)
  BY StepInTurn DEF NodeOK
<1> HIDE DEF ds
<1>3. f \in 0 .. Len(ds)
  BY <1>1 DEF NodeOK
<1>4. f # 0 => ds[f].pc \notin {"created", "waiting"}
  BY <1>1, <1>3 DEF NodeOK
<1>5. ASSUME NEW j \in 1 .. Len(ds) PROVE CampaignOK(ds[j], j, Len(ds), k)
  BY <1>1, <1>5 DEF NodeOK
<1>6. cs[i].pc # "done"
  <2>1. cs[i].pc \in Pcs /\ d.pc \in Pcs
    BY Member, Fields
  <2> QED BY <2>1 DEF Rank, Pcs
<1>7. ~Over(ds)
  BY <1>1 DEF Over
<1>8. ~(ds # << >> /\ ds[Len(ds)].pc = "done")
  <2>1. Len(cs) \in 1 .. Len(cs)
    OBVIOUS
  <2>2. SUFFICES ASSUME ds[Len(ds)].pc = "done" PROVE FALSE
    OBVIOUS
  <2>3. cs # << >> /\ cs[Len(cs)].pc = "done"
    BY <1>1, <2>1, <2>2
  <2>4. Over(cs)
    BY <2>3 DEF NodeOK, Reported
  <2> QED BY <2>4, <1>6 DEF Over
<1>9. Reported(ds, rs, k, last, q)
  BY <1>7, <1>8 DEF Reported
<1> QED BY <1>2, <1>3, <1>4, <1>5, <1>9 DEF NodeOK, ds

(* A campaign reports: if it is the last one, the others have.             *)
LEMMA ReportKeepsNode ==
  ASSUME NEW cs \in Seq(Campaign), NEW e \in Nat, NEW rs \in Seq(Outcomes), NEW k \in Nat,
         NEW last, NEW p,
         NodeOK(cs, e, rs, k, last, p),
         NEW i \in 1 .. Len(cs), cs[i].pc = "reporting",
         Turn(cs, i)
  PROVE  NodeOK([cs EXCEPT ![i] = Finished], e, Append(rs, cs[i].result), k, last, p)
<1> DEFINE ds == [cs EXCEPT ![i] = Finished]
           o == cs[i].result
           os == Append(rs, o)
<1>1. /\ Len(ds) = Len(cs) /\ ds # << >>
      /\ \A j \in 1 .. Len(cs) : ds[j] = IF j = i THEN Finished ELSE cs[j]
  BY Replaced, FinishedIs
<1>2. Ordered(ds)
  <2>1. Rank[Finished.pc] = Rank[cs[i].pc] + 1
    BY FinishedIs DEF Rank, Pcs
  <2> QED BY <2>1, StepInTurn, FinishedIs DEF NodeOK
<1>3. o \in Outcomes /\ o.won_clock <= k /\ (i = Len(cs) => o.won_clock = k)
  BY DEF NodeOK, CampaignOK
<1>4. /\ os # << >> /\ Len(os) = Len(rs) + 1 /\ os[Len(os)] = o
      /\ \A x \in 1 .. Len(rs) : os[x] = rs[x]
  BY <1>3
<1> HIDE DEF ds, os, o
<1>5. e \in 0 .. Len(ds) /\ (e # 0 => ds[e].pc \notin {"created", "waiting"})
  BY <1>1, FinishedIs DEF NodeOK
<1>6. ASSUME NEW j \in 1 .. Len(ds) PROVE CampaignOK(ds[j], j, Len(ds), k)
  BY <1>1, <1>6, FinishedIs DEF NodeOK
<1>7. ASSUME NEW x \in 1 .. Len(os) PROVE os[x].won_clock <= k
  BY <1>3, <1>4, <1>7 DEF NodeOK
<1>8. ASSUME ds[Len(ds)].pc = "done" PROVE i = Len(cs) /\ Over(ds)
  <2>1. Len(cs) \in 1 .. Len(cs) /\ cs # << >>
    OBVIOUS
  <2>2. i = Len(cs)
    <3>1. SUFFICES ASSUME i # Len(cs) PROVE FALSE
      OBVIOUS
    <3>2. Over(cs)
      BY <1>1, <1>8, <2>1, <3>1 DEF NodeOK, Reported
    <3> QED BY <3>2 DEF Over
  <2>3. ASSUME NEW j \in 1 .. Len(cs), j # i PROVE cs[j].pc = "done"
    <3>1. j \in 1 .. i - 1 /\ j < i
      BY <2>2, <2>3
    <3>2. Ahead(cs[j], cs[i]) /\ cs[j].pc # "reporting" /\ cs[j].pc \in Pcs
      BY <3>1, Member DEF NodeOK, Ordered, Turn
    <3> QED BY <3>2 DEF Ahead, Rank, Pcs
  <2> QED BY <1>1, <2>2, <2>3, FinishedIs DEF Over
<1>9. Over(ds) => ds[Len(ds)].pc = "done"
  BY <1>1 DEF Over
<1>10. Reported(ds, os, k, last, p)
  BY <1>3, <1>4, <1>8, <1>9 DEF Reported
<1> QED BY <1>2, <1>5, <1>6, <1>7, <1>10 DEF NodeOK, ds, os, o

(* The campaign whose scope is installed is cancelled.                     *)
LEMMA CancelledOrdered ==
  ASSUME NEW cs \in Seq(Campaign), NEW e \in 1 .. Len(cs), Ordered(cs), cs[e].pc \in Cancellable
  PROVE  Ordered([cs EXCEPT ![e] = Finished])
<1> DEFINE ds == [cs EXCEPT ![e] = Finished]
<1>1. /\ Len(ds) = Len(cs)
      /\ \A j \in 1 .. Len(cs) : ds[j] = IF j = e THEN Finished ELSE cs[j]
  BY Replaced, FinishedIs
<1> HIDE DEF ds
<1>2. ASSUME NEW a \in 1 .. Len(ds), NEW b \in 1 .. Len(ds), b < a
      PROVE  Ahead(ds[b], ds[a])
  <2>1. a \in 1 .. Len(cs) /\ b \in 1 .. Len(cs) /\ Ahead(cs[b], cs[a])
    BY <1>1, <1>2 DEF Ordered
  <2>2. CASE b = e
    BY <1>1, <2>1, <2>2, FinishedIs DEF Ahead
  <2>3. CASE a = e /\ b # e
    <3>1. cs[b].pc \in Pcs /\ Ahead(cs[b], cs[e])
      BY <2>1, <2>3, Member
    <3>2. cs[b].pc = "done" \/ cs[b].pc \in Cancellable
      BY <3>1 DEF Ahead, Rank, Pcs, Cancellable
    <3> QED BY <1>1, <2>1, <2>3, <3>2, FinishedIs DEF Ahead
  <2>4. CASE a # e /\ b # e
    BY <1>1, <2>1, <2>4
  <2> QED BY <2>2, <2>3, <2>4
<1> QED BY <1>2 DEF Ordered, ds

(* The campaign a new one waits for was there before it, so the last one   *)
(* is never cancelled.                                                     *)
LEMMA AwaitsAnEarlierOne ==
  ASSUME NEW cs \in Seq(Campaign), NEW e \in 0 .. Len(cs), Ordered(cs),
         e # 0 => cs[e].pc \notin {"created", "waiting"},
         NEW i \in 1 .. Len(cs), cs[i].pc = "created"
  PROVE  e \in 0 .. i - 1
<1>1. SUFFICES ASSUME e >= i PROVE FALSE
  OBVIOUS
<1>2. e # 0 /\ e # i /\ e \in 1 .. Len(cs) /\ i < e
  BY <1>1
<1>3. Ahead(cs[i], cs[e]) /\ cs[e].pc \in Pcs /\ cs[e].pc # "created"
  BY <1>2, Member DEF Ordered
<1> QED BY <1>3 DEF Ahead, Rank, Pcs, Cancellable

(* What Begin makes of the campaigns.                                      *)
Begun(cs, i, e, k) ==
  [j \in DOMAIN cs |->
    IF j = i THEN [cs[j] EXCEPT !.pc = "waiting", !.clock = k, !.awaits = e]
    ELSE IF j = e /\ cs[j].pc \in Cancellable THEN Finished ELSE cs[j]]

(* A campaign begins, and cancels the one whose scope is installed.        *)
LEMMA BeginKeepsNode ==
  ASSUME NEW cs \in Seq(Campaign), NEW e \in Nat, NEW rs, NEW k \in Nat, NEW last, NEW p,
         NodeOK(cs, e, rs, k, last, p),
         NEW i \in 1 .. Len(cs), cs[i].pc = "created",
         Turn(cs, i)
  PROVE  Begun(cs, i, e, k) \in Seq(Campaign) /\ NodeOK(Begun(cs, i, e, k), e, rs, k, last, p)
<1> DEFINE ds == Begun(cs, i, e, k)
           d == [cs[i] EXCEPT !.pc = "waiting", !.clock = k, !.awaits = e]
           es == IF e # 0 /\ cs[e].pc \in Cancellable THEN [cs EXCEPT ![e] = Finished] ELSE cs
<1>1. e \in 0 .. i - 1 /\ e # i /\ Ordered(cs) /\ e \in 0 .. Len(cs)
  BY AwaitsAnEarlierOne DEF NodeOK
<1>2. cs[i] \in Campaign
  BY Member
<1>3. /\ d \in Campaign /\ d.pc = "waiting" /\ d.clock = k /\ d.awaits = e
      /\ d.candidates = cs[i].candidates /\ d.listening = cs[i].listening
  BY <1>2 DEF Campaign, Pcs
<1> HIDE DEF d
<1>4. CampaignOK(cs[i], i, Len(cs), k)
  BY DEF NodeOK
<1>5. CampaignOK(d, i, Len(cs), k)
  BY <1>1, <1>3, <1>4 DEF CampaignOK, Cancellable
<1>6. /\ es \in Seq(Campaign) /\ Len(es) = Len(cs) /\ Ordered(es)
      /\ \A j \in 1 .. Len(cs) : es[j] = IF j = e /\ cs[j].pc \in Cancellable THEN Finished
                                        ELSE cs[j]
  <2>1. CASE e # 0 /\ cs[e].pc \in Cancellable
    <3>1. e \in 1 .. Len(cs)
      BY <1>1, <2>1
    <3> QED BY <2>1, <3>1, <1>1, Replaced, FinishedIs, CancelledOrdered
  <2>2. CASE ~(e # 0 /\ cs[e].pc \in Cancellable)
    BY <2>2, <1>1
  <2> QED BY <2>1, <2>2
<1> HIDE DEF es, ds
<1>7. es[i] = cs[i] /\ Turn(es, i)
  <2>1. ASSUME NEW j \in 1 .. i - 1 PROVE es[j].pc # "created"
    BY <1>6, <2>1, FinishedIs DEF Turn
  <2> QED BY <1>1, <1>6, <2>1 DEF Turn
<1>8. ds = [es EXCEPT ![i] = d]
  <2>1. DOMAIN cs = 1 .. Len(cs) /\ DOMAIN es = 1 .. Len(cs)
    BY <1>6
  <2>2. DOMAIN ds = 1 .. Len(cs) /\ ds = [j \in 1 .. Len(cs) |-> ds[j]]
    BY <2>1 DEF ds, Begun
  <2>3. \A j \in 1 .. Len(cs) : ds[j] = IF j = i THEN d ELSE es[j]
    BY <1>1, <1>6, <2>1 DEF d, ds, Begun
  <2> HIDE DEF ds, d
  <2> QED BY <1>6, <2>1, <2>2, <2>3
<1>9. Rank[d.pc] = Rank[es[i].pc] + 1
  BY <1>3, <1>7 DEF Rank, Pcs
<1>10. /\ ds \in Seq(Campaign) /\ Len(ds) = Len(cs) /\ Ordered(ds) /\ ds # << >>
       /\ \A j \in 1 .. Len(cs) : ds[j] = IF j = i THEN d ELSE es[j]
  <2>1. es \in Seq(Campaign) /\ i \in 1 .. Len(es) /\ d \in Campaign /\ Ordered(es)
    BY <1>3, <1>6
  <2>2. Ordered([es EXCEPT ![i] = d])
    BY <2>1, <1>7, <1>9, StepInTurn
  <2> QED BY <2>1, <2>2, <1>6, <1>8, Replaced
<1>11. ASSUME NEW j \in 1 .. Len(ds) PROVE CampaignOK(ds[j], j, Len(ds), k)
  <2>1. CampaignOK(cs[j], j, Len(cs), k)
    BY <1>10, <1>11 DEF NodeOK
  <2> QED BY <2>1, <1>5, <1>6, <1>10, <1>11, FinishedIs
<1>12. ds[i].pc = "waiting" /\ ~Over(ds) /\ ~Over(cs)
  BY <1>3, <1>10 DEF Over
<1>13. e # 0 => ds[e].pc \notin {"created", "waiting"}
  BY <1>1, <1>6, <1>10, FinishedIs DEF NodeOK
<1>14. ASSUME ds[Len(ds)].pc = "done" PROVE FALSE
  <2>1. Len(cs) \in 1 .. Len(cs) /\ cs # << >>
    OBVIOUS
  <2>2. i # Len(cs) /\ e # Len(cs)
    BY <1>1, <1>12, <1>10, <1>14
  <2>3. cs[Len(cs)].pc = "done"
    BY <1>6, <1>10, <1>14, <2>1, <2>2
  <2> QED BY <1>12, <2>1, <2>3 DEF NodeOK, Reported
<1>15. Reported(ds, rs, k, last, p)
  BY <1>12, <1>14 DEF Reported
<1>16. e \in 0 .. Len(ds)
  BY <1>1, <1>10
<1> QED BY <1>10, <1>11, <1>13, <1>15, <1>16 DEF NodeOK, ds

(* A campaign whose list takes no more ballots in.                         *)
Unheard(c) == [c EXCEPT !.listening = FALSE]

(* What StartCampaign makes of them.                                       *)
Joined(cs, ballots) ==
  Append([i \in DOMAIN cs |-> [cs[i] EXCEPT !.listening = FALSE]], NewCampaign(ballots))

(* A new campaign takes the place of the others' list.                     *)
LEMMA StartKeepsNode ==
  ASSUME NEW cs \in Seq(Campaign), NEW e \in Nat, NEW rs \in Seq(Outcomes), NEW k \in Nat,
         NEW last, NEW p,
         NodeOK(cs, e, rs, k, last, p), last \in Nat,
         NEW l \in Nat, l > k, NEW ballots, ballots \subseteq Ballots, IsFiniteSet(ballots),
         \A m \in ballots : m.clock <= l, NEW q
  PROVE  /\ Joined(cs, ballots) \in Seq(Campaign)
         /\ NodeOK(Joined(cs, ballots), e, rs, l, last, q)
<1> DEFINE ds == Joined(cs, ballots)
           d == NewCampaign(ballots)
           es == [i \in DOMAIN cs |-> [cs[i] EXCEPT !.listening = FALSE]]
<1>1. /\ d \in Campaign /\ d.pc = "created" /\ d.candidates = ballots /\ d.awaits = 0
  <2>1. Cardinality(ballots) \in Nat
    BY FS_CardinalityType
  <2> QED BY <2>1 DEF NewCampaign, Campaign, Pcs
<1>2. ASSUME NEW j \in 1 .. Len(cs)
      PROVE  /\ Unheard(cs[j]) \in Campaign /\ Unheard(cs[j]).listening = FALSE
             /\ Unheard(cs[j]).pc = cs[j].pc /\ Unheard(cs[j]).awaits = cs[j].awaits
             /\ Unheard(cs[j]).candidates = cs[j].candidates
             /\ Unheard(cs[j]).clock = cs[j].clock
             /\ Unheard(cs[j]).status = cs[j].status
             /\ Unheard(cs[j]).result = cs[j].result
  BY <1>2, Member DEF Campaign, Unheard
<1>3. es \in Seq(Campaign) /\ Len(es) = Len(cs)
      /\ \A j \in 1 .. Len(cs) : es[j] = Unheard(cs[j])
  <2>1. DOMAIN cs = 1 .. Len(cs) /\ Len(cs) \in Nat
    OBVIOUS
  <2>2. es = [j \in 1 .. Len(cs) |-> Unheard(cs[j])]
    BY <2>1 DEF Unheard
  <2>3. \A j \in 1 .. Len(cs) : Unheard(cs[j]) \in Campaign
    BY <1>2
  <2> HIDE DEF es
  <2>4. es \in [1 .. Len(cs) -> Campaign]
    BY <2>2, <2>3
  <2> QED BY <2>1, <2>2, <2>4
<1> HIDE DEF es, d, ds
<1>4. ds = Append(es, d)
  BY DEF es, d, ds, Joined
<1>5. /\ ds \in Seq(Campaign) /\ Len(ds) = Len(cs) + 1 /\ ds[Len(cs) + 1] = d /\ ds # << >>
      /\ \A j \in 1 .. Len(cs) : ds[j] = es[j]
  BY <1>1, <1>3, <1>4
<1>6. \A j \in 1 .. Len(cs) : ds[j].pc = cs[j].pc
  BY <1>2, <1>3, <1>5
<1>7. ASSUME NEW j \in 1 .. Len(ds) PROVE CampaignOK(ds[j], j, Len(ds), l)
  <2>1. CASE j = Len(cs) + 1
    <3>1. d.awaits \in 0 .. j - 1 /\ IsFiniteSet(d.candidates) /\ d.pc = "created"
          /\ (d.listening => j = Len(ds)) /\ \A m \in d.candidates : m.clock <= l
      BY <1>1, <1>5, <2>1
    <3> QED BY <3>1, <1>5, <2>1 DEF CampaignOK, Cancellable
  <2>2. CASE j # Len(cs) + 1
    <3>1. j \in 1 .. Len(cs) /\ j # Len(ds)
      BY <1>5, <2>2
    <3>2. CampaignOK(cs[j], j, Len(cs), k)
      BY <3>1 DEF NodeOK
    <3>3. /\ ds[j].pc = cs[j].pc /\ ds[j].awaits = cs[j].awaits /\ ds[j].listening = FALSE
          /\ ds[j].candidates = cs[j].candidates /\ ds[j].clock = cs[j].clock
          /\ ds[j].status = cs[j].status /\ ds[j].result = cs[j].result
      BY <1>2, <1>3, <1>5, <3>1
    <3>4. /\ cs[j].candidates \subseteq Ballots /\ cs[j].clock \in Nat
      BY <3>1, Member, Fields
    <3>5. \A m \in ds[j].candidates : m.clock <= l
      BY <3>2, <3>3, <3>4 DEF CampaignOK, Ballots
    <3>6. cs[j].pc = "waiting" => cs[j].clock <= l
      BY <3>2, <3>4 DEF CampaignOK
    <3>7. cs[j].pc = "reporting" => cs[j].result \in Outcomes /\ cs[j].result.won_clock <= l
      BY <3>2 DEF CampaignOK, Outcomes
    <3> HIDE DEF NodeOK
    <3> QED BY <3>1, <3>2, <3>3, <3>5, <3>6, <3>7 DEF CampaignOK
  <2> QED BY <2>1, <2>2
<1>8. ASSUME NEW a \in 1 .. Len(ds), NEW b \in 1 .. Len(ds), b < a
      PROVE  Ahead(ds[b], ds[a])
  <2>1. b \in 1 .. Len(cs) /\ ds[b].pc = cs[b].pc /\ cs[b].pc \in Pcs
    BY <1>5, <1>6, <1>8, Member
  <2>2. CASE a = Len(cs) + 1
    BY <2>1, <2>2, <1>1, <1>5 DEF Ahead, Rank, Pcs
  <2>3. CASE a # Len(cs) + 1
    <3>1. a \in 1 .. Len(cs) /\ ds[a].pc = cs[a].pc /\ Ahead(cs[b], cs[a])
      BY <1>5, <1>6, <1>8, <2>1, <2>3 DEF NodeOK, Ordered
    <3> QED BY <2>1, <3>1 DEF Ahead
  <2> QED BY <2>2, <2>3
<1>9. ds[Len(ds)].pc # "done" /\ ~Over(ds)
  BY <1>1, <1>5 DEF Over
<1>10. e \in 0 .. Len(ds) /\ (e # 0 => ds[e].pc \notin {"created", "waiting"})
  BY <1>5, <1>6 DEF NodeOK
<1>11. \A x \in 1 .. Len(rs) : rs[x].won_clock <= l
  <2>1. ASSUME NEW x \in 1 .. Len(rs) PROVE rs[x].won_clock <= l
    <3>1. rs[x] \in Outcomes
      OBVIOUS
    <3>2. rs[x].won_clock \in Nat /\ rs[x].won_clock <= k
      BY <3>1 DEF NodeOK, Outcomes
    <3> QED BY <3>2
  <2> QED BY <2>1
<1>12. last <= l
  BY DEF NodeOK
<1> QED BY <1>5, <1>7, <1>8, <1>9, <1>10, <1>11, <1>12 DEF NodeOK, Ordered, Reported, ds

(* What a ballot of the round makes of the campaigns: the list in use      *)
(* takes it in.                                                            *)
Heard(cs, m) == [i \in DOMAIN cs |-> Counted(cs[i], m)]

(* A ballot of the round changes no campaign but for its candidates.       *)
LEMMA BallotKeepsNode ==
  ASSUME NEW cs \in Seq(Campaign), NEW e \in Nat, NEW rs, NEW k \in Nat, NEW last, NEW p,
         NodeOK(cs, e, rs, k, last, p),
         NEW m \in Ballots, m.clock = k
  PROVE  Heard(cs, m) \in Seq(Campaign) /\ NodeOK(Heard(cs, m), e, rs, k, last, p)
<1> DEFINE ds == Heard(cs, m)
<1>1. ASSUME NEW c \in Campaign
      PROVE  /\ Counted(c, m) \in Campaign
             /\ Counted(c, m).pc = c.pc /\ Counted(c, m).awaits = c.awaits
             /\ Counted(c, m).listening = c.listening /\ Counted(c, m).clock = c.clock
             /\ Counted(c, m).status = c.status /\ Counted(c, m).result = c.result
             /\ Counted(c, m).candidates \in {c.candidates, c.candidates \cup {m}}
  <2>1. CASE c.listening
    <3>1. /\ c.candidates \cup {m} \in SUBSET Ballots /\ c.length + 1 \in Nat
      BY <1>1, Fields
    <3>2. Counted(c, m) = [c EXCEPT !.candidates = @ \cup {m}, !.length = @ + 1]
      BY <2>1 DEF Counted
    <3>3. Counted(c, m) = [c EXCEPT !.candidates = c.candidates \cup {m}, !.length = c.length + 1]
      BY <3>2
    <3> QED BY <1>1, <3>1, <3>3 DEF Campaign
  <2>2. CASE ~c.listening
    BY <1>1, <2>2 DEF Counted
  <2> QED BY <2>1, <2>2
<1>2. DOMAIN cs = 1 .. Len(cs) /\ Len(cs) \in Nat
  OBVIOUS
<1>3. ds \in Seq(Campaign) /\ Len(ds) = Len(cs) /\ (ds = << >> <=> cs = << >>)
      /\ \A j \in 1 .. Len(cs) : ds[j] = Counted(cs[j], m)
  <2>1. \A j \in 1 .. Len(cs) : Counted(cs[j], m) \in Campaign
    BY <1>1, Member
  <2>2. ds = [j \in 1 .. Len(cs) |-> Counted(cs[j], m)]
    BY <1>2 DEF Heard
  <2> HIDE DEF ds
  <2>3. ds \in [1 .. Len(cs) -> Campaign]
    BY <2>1, <2>2
  <2> QED BY <1>2, <2>2, <2>3
<1> HIDE DEF ds
<1>4. \A j \in 1 .. Len(cs) : ds[j].pc = cs[j].pc
  BY <1>1, <1>3, Member
<1>5. ASSUME NEW j \in 1 .. Len(ds) PROVE CampaignOK(ds[j], j, Len(ds), k)
  <2>1. CampaignOK(cs[j], j, Len(cs), k) /\ cs[j] \in Campaign /\ ds[j] = Counted(cs[j], m)
    BY <1>3, <1>5, Member DEF NodeOK
  <2>2. IsFiniteSet(cs[j].candidates) => IsFiniteSet(cs[j].candidates \cup {m})
    BY FS_AddElement
  <2>3. IsFiniteSet(ds[j].candidates) /\ \A x \in ds[j].candidates : x.clock <= k
    <3>1. ds[j].candidates \in {cs[j].candidates, cs[j].candidates \cup {m}}
      BY <1>1, <2>1
    <3>2. IsFiniteSet(cs[j].candidates) /\ \A x \in cs[j].candidates : x.clock <= k
      BY <2>1 DEF CampaignOK
    <3>3. m.clock <= k
      OBVIOUS
    <3>4. CASE ds[j].candidates = cs[j].candidates
      BY <3>2, <3>4
    <3>5. CASE ds[j].candidates = cs[j].candidates \cup {m}
      BY <2>2, <3>2, <3>3, <3>5
    <3> QED BY <3>1, <3>4, <3>5
  <2>4. /\ ds[j].pc = cs[j].pc /\ ds[j].awaits = cs[j].awaits
        /\ ds[j].listening = cs[j].listening /\ ds[j].clock = cs[j].clock
        /\ ds[j].status = cs[j].status /\ ds[j].result = cs[j].result
        /\ cs[j].candidates \subseteq ds[j].candidates
    BY <1>1, <2>1
  <2> HIDE DEF NodeOK
  <2> QED BY <1>3, <2>1, <2>3, <2>4 DEF CampaignOK
<1>6. Ordered(ds)
  BY <1>3, <1>4 DEF NodeOK, Ordered, Ahead
<1>7. Over(ds) <=> Over(cs)
  BY <1>3, <1>4 DEF Over
<1>8. ds # << >> /\ ds[Len(ds)].pc = "done" => cs # << >> /\ cs[Len(cs)].pc = "done"
  <2>1. cs # << >> => Len(cs) \in 1 .. Len(cs)
    OBVIOUS
  <2> QED BY <2>1, <1>3, <1>4
<1>9. Reported(ds, rs, k, last, p)
  BY <1>7, <1>8 DEF NodeOK, Reported
<1>10. e \in 0 .. Len(ds) /\ (e # 0 => ds[e].pc \notin {"created", "waiting"})
  BY <1>3, <1>4 DEF NodeOK
<1> QED BY <1>3, <1>5, <1>6, <1>9, <1>10 DEF NodeOK, ds

(* What is left of a list without its first element.                       *)
LEMMA TailIs ==
  ASSUME NEW rs \in Seq(Outcomes), rs # << >>
  PROVE  /\ Len(Tail(rs)) = Len(rs) - 1 /\ Len(rs) \in Nat /\ Len(rs) >= 1
         /\ Head(rs) = rs[1]
         /\ \A x \in 1 .. Len(Tail(rs)) :
              x + 1 \in 1 .. Len(rs) /\ Tail(rs)[x] = rs[x + 1]
         /\ (Tail(rs) = << >> <=> Len(rs) = 1)
<1>1. /\ Len(Tail(rs)) = Len(rs) - 1 /\ Len(rs) \in Nat /\ Len(rs) >= 1
      /\ Head(rs) = rs[1] /\ Tail(rs) \in Seq(Outcomes)
  OBVIOUS
<1>2. \A x \in 1 .. Len(rs) - 1 : x + 1 \in 1 .. Len(rs) /\ Tail(rs)[x] = rs[x + 1]
  OBVIOUS
<1>3. Tail(rs) = << >> <=> Len(Tail(rs)) = 0
  <2> DEFINE t == Tail(rs)
  <2>1. t \in Seq(Outcomes)
    BY <1>1
  <2> HIDE DEF t
  <2>2. t = << >> <=> Len(t) = 0
    BY <2>1
  <2> QED BY <2>2 DEF t
<1> QED BY <1>1, <1>2, <1>3

(* The Node handles a result: it has then completed a round it has been    *)
(* in, its own round if that was the last result and nothing goes on.      *)
LEMMA HandleKeepsNode ==
  ASSUME NEW cs \in Seq(Campaign), NEW e, NEW rs \in Seq(Outcomes), NEW k \in Nat,
         NEW last, NEW p,
         NodeOK(cs, e, rs, k, last, p), rs # << >>
  PROVE  NodeOK(cs, e, Tail(rs), k, Head(rs).won_clock, FALSE)
<1> DEFINE ts == Tail(rs)
<1>1. /\ Len(ts) = Len(rs) - 1 /\ Len(rs) \in Nat /\ Len(rs) >= 1 /\ Head(rs) = rs[1]
      /\ \A x \in 1 .. Len(ts) : x + 1 \in 1 .. Len(rs) /\ ts[x] = rs[x + 1]
      /\ (ts = << >> <=> Len(rs) = 1)
  BY TailIs
<1> HIDE DEF ts
<1>2. \A x \in 1 .. Len(ts) : ts[x].won_clock <= k
  BY <1>1 DEF NodeOK
<1>3. Head(rs).won_clock <= k
  BY <1>1 DEF NodeOK
<1>4. ts # << >> => ts[Len(ts)] = rs[Len(rs)]
  BY <1>1
<1>5. Reported(cs, ts, k, Head(rs).won_clock, FALSE)
  BY <1>1, <1>4 DEF NodeOK, Reported
<1> QED BY <1>2, <1>3, <1>5 DEF NodeOK, ts

(* The API hears of a round its node has not completed: it pauses only if  *)
(* a campaign or a result of that node is to come.                         *)
LEMMA PauseKeepsNode ==
  ASSUME NEW cs, NEW e, NEW rs, NEW k \in Nat, NEW last, NEW p \in BOOLEAN,
         NodeOK(cs, e, rs, k, last, p), NEW c \in Nat, c <= k
  PROVE  NodeOK(cs, e, rs, k, last, p \/ c > last)
<1>1. Reported(cs, rs, k, last, p \/ c > last)
  <2>1. ASSUME Over(cs), rs = << >> PROVE last = k /\ (p \/ c > last) = FALSE
    BY <2>1 DEF NodeOK, Reported
  <2> QED BY <2>1 DEF NodeOK, Reported
<1> QED BY <1>1 DEF NodeOK

(* A node that has just started, or is gone.                               *)
LEMMA FreshNode == NodeOK(<< >>, 0, << >>, 0, 0, FALSE)
<1> QED BY DEF NodeOK, Ordered, Over, Reported

-----------------------------------------------------------------------------
(* The steps of a node.                                                    *)

(* What a step leaves of the other nodes.                                  *)
Others(n) ==
  \A m \in Nodes \ {n} :
    /\ campaigns'[m] = campaigns[m] /\ entered'[m] = entered[m]
    /\ results'[m] = results[m] /\ clock'[m] = clock[m]
    /\ last_completed'[m] = last_completed[m] /\ paused'[m] = paused[m]

(* A step about one node leaves the invariant true of the others.          *)
LEMMA OneNode ==
  ASSUME Inv, Typed', NEW n \in Nodes, Others(n), Sound(n)'
  PROVE  Inv'
<1>1. ASSUME NEW m \in Nodes, m # n PROVE Sound(m)'
  BY <1>1 DEF Inv, Others, Sound
<1> QED BY <1>1 DEF Inv

(* Nothing has happened at first.                                          *)
LEMMA InitInv == Init => Inv
<1> SUFFICES ASSUME Init PROVE Inv
  OBVIOUS
<1>1. \A n \in Nodes : InitSeniority[n] \in Nat
  BY ElectionAssumption
<1>2. ASSUME NEW a \in Nat PROVE Max({a, 1}) \in Nat
  <2>1. \E x \in {a, 1} : \A y \in {a, 1} : x >= y
    BY <1>2
  <2> QED BY <1>2, <2>1 DEF Max
<1>3. seniority \in [Nodes -> Nat]
  BY <1>1, <1>2 DEF Init, ElectionInit
<1>4. << >> \in Seq(Campaign) /\ << >> \in Seq(Ballots) /\ << >> \in Seq(Outcomes)
  OBVIOUS
<1>5. \A n \in Nodes : SessionId(n, 0) \in Sessions
  BY DEF Sessions, SessionId
<1>6. Typed
  BY <1>3, <1>4, <1>5, ElectionAssumption DEF Typed, Init, ElectionInit
<1>7. ASSUME NEW n \in Nodes PROVE Sound(n)
  BY <1>7, FreshNode DEF Sound, Init, ElectionInit
<1> QED BY <1>6, <1>7 DEF Inv

(* A later round starts a campaign, a ballot of this round is counted, and *)
(* an earlier one is past.                                                 *)
LEMMA ReceiveKeepsInv ==
  ASSUME Inv, NEW n \in Nodes, NEW from \in Nodes, ReceiveBallot(n, from),
         PauseOnNewElection(n, Head(channel[<<from, n>>]).clock),
         UNCHANGED <<master, router, last_completed, failed>>
  PROVE  Inv'
<1> DEFINE m == Head(channel[<<from, n>>])
           cs == campaigns[n]
           k == clock[n]
<1>1. channel[<<from, n>>] \in Seq(Ballots) /\ channel[<<from, n>>] # << >>
  BY DEF Inv, Typed, ReceiveBallot
<1>2. m \in Ballots /\ m.clock \in Nat /\ Tail(channel[<<from, n>>]) \in Seq(Ballots)
  <2>1. m \in Ballots /\ Tail(channel[<<from, n>>]) \in Seq(Ballots)
    BY <1>1
  <2> HIDE DEF m
  <2> QED BY <2>1 DEF Ballots
<1>3. /\ channel' = [channel EXCEPT ![<<from, n>>] = Tail(@)]
      /\ paused' = [paused EXCEPT ![n] = @ \/ m.clock > last_completed[n]]
      /\ UNCHANGED <<seniority, commands_seen, current_session, entered, results, pending,
                     alive, master, router, last_completed>>
  BY DEF ReceiveBallot, PauseOnNewElection
<1>4. \/ m.clock > k /\ clock' = [clock EXCEPT ![n] = m.clock] /\ StartCampaign(n, {m})
      \/ m.clock < k /\ UNCHANGED <<clock, campaigns>>
      \/ /\ m.clock = k /\ UNCHANGED clock
         /\ campaigns' = [campaigns EXCEPT ![n] = Heard(cs, m)]
  BY DEF ReceiveBallot, Heard
<1>5. /\ cs \in Seq(Campaign) /\ k \in Nat /\ entered[n] \in Nat /\ results[n] \in Seq(Outcomes)
      /\ last_completed[n] \in Nat /\ paused[n] \in BOOLEAN
      /\ NodeOK(cs, entered[n], results[n], k, last_completed[n], paused[n])
  BY DEF Inv, Typed, Sound
<1>6. paused' \in [Nodes -> BOOLEAN] /\ paused'[n] = (paused[n] \/ m.clock > last_completed[n])
  BY <1>3 DEF Inv, Typed
<1>7. channel' \in [Nodes \X Nodes -> Seq(Ballots)]
  BY <1>2, <1>3 DEF Inv, Typed
<1> HIDE DEF m
<1>8. /\ clock' \in [Nodes -> Nat] /\ campaigns' \in [Nodes -> Seq(Campaign)]
      /\ \A x \in Nodes \ {n} : clock'[x] = clock[x] /\ campaigns'[x] = campaigns[x]
      /\ NodeOK(campaigns'[n], entered[n], results[n], clock'[n], last_completed[n], paused'[n])
  <2>1. CASE m.clock > k /\ clock' = [clock EXCEPT ![n] = m.clock] /\ StartCampaign(n, {m})
    <3>1. campaigns' = [campaigns EXCEPT ![n] = Joined(cs, {m})]
      BY <2>1 DEF StartCampaign, Joined
    <3>2. IsFiniteSet({m}) /\ {m} \subseteq Ballots /\ \A x \in {m} : x.clock <= m.clock
      <4>1. IsFiniteSet({m})
        BY FS_Singleton
      <4> QED BY <1>2, <4>1
    <3>3. /\ Joined(cs, {m}) \in Seq(Campaign)
          /\ NodeOK(Joined(cs, {m}), entered[n], results[n], m.clock, last_completed[n], paused'[n])
      BY <1>2, <1>5, <2>1, <3>2, StartKeepsNode
    <3> QED BY <1>2, <2>1, <3>1, <3>3 DEF Inv, Typed
  <2>2. CASE m.clock < k /\ UNCHANGED <<clock, campaigns>>
    <3>1. NodeOK(cs, entered[n], results[n], k, last_completed[n],
                 paused[n] \/ m.clock > last_completed[n])
      BY <1>2, <1>5, <2>2, PauseKeepsNode
    <3> QED BY <1>6, <2>2, <3>1 DEF Inv, Typed
  <2>3. CASE /\ m.clock = k /\ UNCHANGED clock
             /\ campaigns' = [campaigns EXCEPT ![n] = Heard(cs, m)]
    <3>1. /\ Heard(cs, m) \in Seq(Campaign)
          /\ NodeOK(Heard(cs, m), entered[n], results[n], k, last_completed[n], paused[n])
      BY <1>2, <1>5, <2>3, BallotKeepsNode
    <3>2. NodeOK(Heard(cs, m), entered[n], results[n], k, last_completed[n],
                 paused[n] \/ m.clock > last_completed[n])
      BY <1>2, <1>5, <2>3, <3>1, PauseKeepsNode
    <3> QED BY <1>6, <2>3, <3>1, <3>2 DEF Inv, Typed
  <2> QED BY <1>4, <2>1, <2>2, <2>3
<1>9. Typed'
  BY <1>3, <1>6, <1>7, <1>8 DEF Inv, Typed
<1>10. Others(n)
  BY <1>3, <1>8 DEF Others, Inv, Typed
<1>11. Sound(n)'
  BY <1>3, <1>8 DEF Sound
<1> QED BY <1>9, <1>10, <1>11, OneNode

(* A change of connectivity starts a round.                                *)
LEMMA ConnectionKeepsInv ==
  ASSUME Inv, NEW n \in Nodes, ConnectionChange(n), UNCHANGED nodeVars
  PROVE  Inv'
<1> DEFINE cs == campaigns[n]
           k == clock[n]
<1>1. /\ cs \in Seq(Campaign) /\ k \in Nat /\ entered[n] \in Nat /\ results[n] \in Seq(Outcomes)
      /\ last_completed[n] \in Nat /\ paused[n] \in BOOLEAN
      /\ NodeOK(cs, entered[n], results[n], k, last_completed[n], paused[n])
  BY DEF Inv, Typed, Sound
<1>2. /\ clock' = [clock EXCEPT ![n] = @ + 1] /\ pending' = pending \ {n}
      /\ campaigns' = [campaigns EXCEPT ![n] = Joined(cs, {})]
      /\ UNCHANGED <<alive, seniority, commands_seen, current_session, entered, channel,
                     results, master, router, last_completed, paused>>
  BY DEF ConnectionChange, StartCampaign, Joined, nodeVars
<1>3. /\ Joined(cs, {}) \in Seq(Campaign)
      /\ NodeOK(Joined(cs, {}), entered[n], results[n], k + 1, last_completed[n], paused[n])
  <2>1. IsFiniteSet({}) /\ {} \subseteq Ballots /\ \A x \in {} : x.clock <= k + 1
    BY FS_EmptySet
  <2>2. k + 1 \in Nat /\ k + 1 > k
    BY <1>1
  <2> HIDE DEF cs, k
  <2> QED BY <1>1, <2>1, <2>2, StartKeepsNode
<1>4. /\ clock' \in [Nodes -> Nat] /\ campaigns' \in [Nodes -> Seq(Campaign)]
      /\ clock'[n] = k + 1 /\ campaigns'[n] = Joined(cs, {})
      /\ \A x \in Nodes \ {n} : clock'[x] = clock[x] /\ campaigns'[x] = campaigns[x]
  BY <1>1, <1>2, <1>3 DEF Inv, Typed
<1>5. Typed'
  BY <1>2, <1>4 DEF Inv, Typed
<1>6. Others(n)
  BY <1>2, <1>4 DEF Others
<1>7. Sound(n)'
  BY <1>2, <1>3, <1>4 DEF Sound
<1> QED BY <1>5, <1>6, <1>7, OneNode

(* A step of the i-th campaign of n.                                       *)
Becomes(n, i, d) == campaigns' = [campaigns EXCEPT ![n] = [campaigns[n] EXCEPT ![i] = d]]

(* A campaign goes on in its turn, and is not over yet.                    *)
LEMMA CampaignStep ==
  ASSUME Inv, NEW n \in Nodes, NEW i \in 1 .. Len(campaigns[n]), InTurn(n, i),
         NEW d \in Campaign, CampaignOK(d, i, Len(campaigns[n]), clock[n]),
         d.pc # "done", Rank[d.pc] = Rank[campaigns[n][i].pc] + 1,
         Becomes(n, i, d),
         UNCHANGED <<alive, pending, clock, commands_seen, results, master, router, last_completed>>,
         entered' = entered \/ (entered' = [entered EXCEPT ![n] = i] /\ d.pc \in Cancellable),
         seniority' \in [Nodes -> Nat], current_session' \in [Nodes -> Sessions],
         channel' \in [Nodes \X Nodes -> Seq(Ballots)],
         \/ UNCHANGED paused
         \/ \E c : PauseOnNewElection(n, c)
  PROVE  Inv'
<1> DEFINE cs == campaigns[n]
<1>1. /\ cs \in Seq(Campaign) /\ clock[n] \in Nat /\ entered[n] \in Nat
      /\ NodeOK(cs, entered[n], results[n], clock[n], last_completed[n], paused[n])
  BY DEF Inv, Typed, Sound
<1>2. /\ paused' \in [Nodes -> BOOLEAN] /\ \A m \in Nodes \ {n} : paused'[m] = paused[m]
  <2>1. CASE UNCHANGED paused
    BY <2>1 DEF Inv, Typed
  <2>2. CASE \E c : PauseOnNewElection(n, c)
    <3>1. PICK c : paused' = [paused EXCEPT ![n] = @ \/ c > last_completed[n]]
      BY <2>2 DEF PauseOnNewElection
    <3> QED BY <3>1 DEF Inv, Typed
  <2> QED BY <2>1, <2>2
<1>3. /\ entered' \in [Nodes -> Nat] /\ entered'[n] \in {entered[n], i}
      /\ \A m \in Nodes \ {n} : entered'[m] = entered[m]
  <2>1. entered \in [Nodes -> Nat] /\ i \in Nat
    BY DEF Inv, Typed
  <2> QED BY <2>1
<1>4. d.pc \in Pcs
  BY Fields
<1>5. entered'[n] = i => d.pc \notin {"created", "waiting"}
  <2>1. CASE d.pc \in Cancellable
    BY <2>1 DEF Cancellable
  <2>2. CASE entered' = entered
    <3>1. ASSUME entered[n] = i PROVE cs[i].pc \notin {"created", "waiting"} /\ cs[i].pc \in Pcs
      BY <1>1, <3>1, Member DEF NodeOK
    <3> QED BY <1>4, <2>2, <3>1 DEF Rank, Pcs
  <2> QED BY <2>1, <2>2
<1>6. Turn(cs, i)
  BY DEF InTurn, Turn
<1>7. /\ [cs EXCEPT ![i] = d] \in Seq(Campaign)
      /\ NodeOK([cs EXCEPT ![i] = d], entered'[n], results[n], clock[n], last_completed[n], paused'[n])
  <2>1. i \in 1 .. Len(cs) /\ Rank[d.pc] = Rank[cs[i].pc] + 1 /\ CampaignOK(d, i, Len(cs), clock[n])
    OBVIOUS
  <2> DEFINE f == entered'[n]
             q == paused'[n]
  <2> HIDE DEF cs, f, q
  <2>2. (f = entered[n] \/ f = i) /\ (f = i => d.pc \notin {"created", "waiting"})
    BY <1>3, <1>5 DEF f
  <2>3. NodeOK([cs EXCEPT ![i] = d], f, results[n], clock[n], last_completed[n], q)
    BY <1>1, <1>6, <2>1, <2>2, StepKeepsNode
  <2>4. [cs EXCEPT ![i] = d] \in Seq(Campaign)
    BY <1>1, <2>1, Replaced
  <2> QED BY <2>3, <2>4 DEF f, q
<1>8. /\ campaigns' \in [Nodes -> Seq(Campaign)] /\ campaigns'[n] = [cs EXCEPT ![i] = d]
      /\ \A m \in Nodes \ {n} : campaigns'[m] = campaigns[m]
  <2> DEFINE ds == [cs EXCEPT ![i] = d]
  <2>1. campaigns' = [campaigns EXCEPT ![n] = ds] /\ ds \in Seq(Campaign)
    BY <1>7 DEF Becomes
  <2> HIDE DEF ds
  <2>2. campaigns \in [Nodes -> Seq(Campaign)]
    BY DEF Inv, Typed
  <2>3. /\ campaigns' \in [Nodes -> Seq(Campaign)] /\ campaigns'[n] = ds
        /\ \A m \in Nodes \ {n} : campaigns'[m] = campaigns[m]
    BY <2>1, <2>2
  <2> QED BY <2>3 DEF ds
<1>9. Typed'
  BY <1>2, <1>3, <1>8 DEF Inv, Typed
<1>10. Others(n)
  BY <1>2, <1>3, <1>8 DEF Others
<1>11. Sound(n)'
  BY <1>7, <1>8 DEF Sound
<1> QED BY <1>9, <1>10, <1>11, OneNode

(* Ballots are cast on typed channels.                                     *)
LEMMA CastTyped ==
  ASSUME channel \in [Nodes \X Nodes -> Seq(Ballots)], NEW n \in Nodes, NEW m \in Ballots, Cast(n, m)
  PROVE  channel' \in [Nodes \X Nodes -> Seq(Ballots)]
<1>1. \A p \in Nodes \X Nodes : Append(channel[p], m) \in Seq(Ballots) /\ channel[p] \in Seq(Ballots)
  OBVIOUS
<1> QED BY <1>1 DEF Cast

(* The ballot is cast, for the first time or the second.                   *)
LEMMA AnnounceKeepsInv ==
  ASSUME Inv, NEW n \in Nodes, NEW i \in 1 .. Len(campaigns[n]), Announce(n, i) \/ Wake(n, i),
         PauseOnNewElection(n, campaigns[n][i].status.clock),
         UNCHANGED <<master, router, last_completed, failed>>
  PROVE  Inv'
<1> DEFINE c == campaigns[n][i]
           x == IF c.pc = "announcing" THEN "sleeping" ELSE "deciding"
           d == [c EXCEPT !.pc = x]
<1>1. /\ c \in Campaign /\ CampaignOK(c, i, Len(campaigns[n]), clock[n])
  BY Member DEF Inv, Typed, Sound, NodeOK
<1>2. /\ c.pc \in {"announcing", "sleeping"} /\ InTurn(n, i) /\ Cast(n, c.status)
      /\ campaigns' = [campaigns EXCEPT ![n][i].pc =
                          IF c.pc = "announcing" THEN "sleeping" ELSE "deciding"]
      /\ UNCHANGED <<clock, seniority, commands_seen, current_session, entered, results,
                     pending, alive>>
  BY DEF Announce, Wake
<1>3. Becomes(n, i, d)
  BY <1>2 DEF Becomes
<1>4. /\ d \in Campaign /\ d.pc \in {"sleeping", "deciding"} /\ Rank[d.pc] = Rank[c.pc] + 1
      /\ d.awaits = c.awaits /\ d.listening = c.listening /\ d.candidates = c.candidates
      /\ d.clock = c.clock /\ d.status = c.status
  <2>1. x \in {"sleeping", "deciding"} /\ Rank[x] = Rank[c.pc] + 1
    BY <1>2 DEF Pcs, Rank
  <2> HIDE DEF x
  <2>2. x \in Pcs
    BY <2>1 DEF Pcs
  <2> QED BY <1>1, <2>1, <2>2 DEF Campaign
<1>5. c.status \in Ballots
  BY <1>1, <1>2 DEF CampaignOK, Cancellable
<1> HIDE DEF c, d
<1>6. CampaignOK(d, i, Len(campaigns[n]), clock[n])
  BY <1>1, <1>2, <1>4 DEF CampaignOK, Cancellable
<1>7. channel' \in [Nodes \X Nodes -> Seq(Ballots)]
  BY <1>2, <1>5, CastTyped DEF Inv, Typed
<1>8. seniority' \in [Nodes -> Nat] /\ current_session' \in [Nodes -> Sessions]
  BY <1>2 DEF Inv, Typed
<1>9. Rank[d.pc] = Rank[campaigns[n][i].pc] + 1 /\ d.pc # "done"
  BY <1>4 DEF c
<1> QED BY <1>2, <1>3, <1>4, <1>6, <1>7, <1>8, <1>9, CampaignStep

(* The wait returns, and the campaign counts its own ballot.               *)
LEMMA EnterKeepsInv ==
  ASSUME Inv, NEW n \in Nodes, NEW i \in 1 .. Len(campaigns[n]), Enter(n, i), UNCHANGED nodeVars
  PROVE  Inv'
<1> DEFINE c == campaigns[n][i]
           status == ElectionStatus(n, c.clock)
           d == [c EXCEPT !.pc = "announcing", !.status = status, !.awaits = 0,
                          !.candidates = c.candidates \cup {status}, !.length = c.length + 1]
<1>1. /\ c \in Campaign /\ CampaignOK(c, i, Len(campaigns[n]), clock[n])
  BY Member DEF Inv, Typed, Sound, NodeOK
<1>2. /\ c.pc = "waiting" /\ InTurn(n, i) /\ entered' = [entered EXCEPT ![n] = i]
      /\ UNCHANGED <<clock, seniority, commands_seen, current_session, channel, results,
                     pending, alive, master, router, last_completed, paused>>
  BY DEF Enter, nodeVars
<1>3. c.clock \in Nat /\ c.candidates \subseteq Ballots /\ c.length \in Nat
  BY <1>1, Fields
<1>4. status \in Ballots /\ status.clock = c.clock
  <2>1. SessionId(n, c.clock) \in Sessions /\ current_session[n] \in Sessions
    BY <1>3 DEF SessionId, Sessions, Inv, Typed
  <2>2. seniority[n] \in Nat /\ commands_seen[n] \in Nat
    BY DEF Inv, Typed
  <2> HIDE DEF c
  <2> QED BY <1>3, <2>1, <2>2 DEF ElectionStatus, Ballots
<1> HIDE DEF status
<1>5. Becomes(n, i, d)
  <2>1. campaigns' = [campaigns EXCEPT ![n][i] = d]
    BY DEF Enter, status
  <2> HIDE DEF d
  <2> QED BY <2>1 DEF Becomes
<1>6. /\ d \in Campaign /\ d.pc = "announcing" /\ d.awaits = 0 /\ d.listening = c.listening
      /\ d.candidates = c.candidates \cup {status} /\ d.clock = c.clock /\ d.status = status
  <2>1. "announcing" \in Pcs /\ c.length + 1 \in Nat /\ c.candidates \cup {status} \in SUBSET Ballots
    BY <1>3, <1>4 DEF Pcs
  <2> QED BY <1>1, <1>4, <2>1 DEF Campaign
<1>7. IsFiniteSet(c.candidates \cup {status})
  BY <1>1, FS_AddElement DEF CampaignOK
<1>8. Rank[d.pc] = Rank[c.pc] + 1 /\ d.pc # "done" /\ d.pc \in Cancellable
  BY <1>2, <1>6 DEF Rank, Pcs, Cancellable
<1> HIDE DEF c, d
<1>9. CampaignOK(d, i, Len(campaigns[n]), clock[n])
  <2>1. \A m \in d.candidates : m.clock <= clock[n]
    BY <1>1, <1>2, <1>4, <1>6 DEF CampaignOK
  <2> QED BY <1>1, <1>2, <1>4, <1>6, <1>7, <2>1 DEF CampaignOK
<1>10. /\ seniority' \in [Nodes -> Nat] /\ current_session' \in [Nodes -> Sessions]
       /\ channel' \in [Nodes \X Nodes -> Seq(Ballots)]
  BY <1>2 DEF Inv, Typed
<1>11. Rank[d.pc] = Rank[campaigns[n][i].pc] + 1
  BY <1>8 DEF c
<1> QED BY <1>2, <1>5, <1>6, <1>8, <1>9, <1>10, <1>11, CampaignStep

(* The greatest ballot is elected; no ballot is of a later round than the  *)
(* campaign's own, if this is the last campaign.                           *)
LEMMA DecideKeepsInv ==
  ASSUME Inv, NEW n \in Nodes, NEW i \in 1 .. Len(campaigns[n]), Decide(n, i), UNCHANGED nodeVars
  PROVE  Inv'
<1> DEFINE c == campaigns[n][i]
           g == Greatest(c.candidates)
           o == [session_id |-> g.proposed_session, won_clock |-> g.clock,
                 is_new_master |-> g.proposed_session # current_session[n]]
           d == [c EXCEPT !.pc = "reporting", !.result = o]
<1>1. /\ c \in Campaign /\ CampaignOK(c, i, Len(campaigns[n]), clock[n])
  BY Member DEF Inv, Typed, Sound, NodeOK
<1>2. /\ c.pc = "deciding" /\ InTurn(n, i)
      /\ seniority' = [seniority EXCEPT ![n] =
           IF g.proposed_session.master_node_id = n /\ c.length > @ THEN c.length ELSE @]
      /\ current_session' = [current_session EXCEPT ![n] = g.proposed_session]
      /\ UNCHANGED <<clock, commands_seen, entered, channel, results, pending, alive,
                     master, router, last_completed, paused>>
  BY DEF Decide, nodeVars
<1>3. c.clock \in Nat /\ c.candidates \subseteq Ballots /\ c.length \in Nat /\ clock[n] \in Nat
  BY <1>1, Fields DEF Inv, Typed
<1>4. c.status \in c.candidates /\ c.status.clock = c.clock /\ IsFiniteSet(c.candidates)
      /\ c.status \in Ballots
  BY <1>1, <1>2 DEF CampaignOK, Cancellable
<1>5. /\ g \in c.candidates /\ g \in Ballots /\ ~Less(g, c.status)
  <2> HIDE DEF c
  <2> QED BY <1>3, <1>4, GreatestExists
<1>6. Becomes(n, i, d)
  BY DEF Decide, Becomes
<1> HIDE DEF g
<1>7. /\ g.clock \in Nat /\ g.clock <= clock[n] /\ g.clock >= c.clock
      /\ g.proposed_session \in Sessions
  <2>1. g.clock \in Nat /\ g.proposed_session \in Sessions
    BY <1>5 DEF Ballots
  <2>2. ~(g.clock < c.status.clock)
    BY <1>4, <1>5, LessIsAnOrder
  <2> HIDE DEF c
  <2> QED BY <1>1, <1>3, <1>4, <1>5, <2>1, <2>2 DEF CampaignOK
<1>8. o \in Outcomes /\ o.won_clock = g.clock
  BY <1>7 DEF Outcomes
<1> HIDE DEF o
<1>9. /\ d \in Campaign /\ d.pc = "reporting" /\ d.result = o /\ d.awaits = c.awaits
      /\ d.listening = c.listening /\ d.candidates = c.candidates /\ d.clock = c.clock
      /\ d.status = c.status
  <2>1. "reporting" \in Pcs
    BY DEF Pcs
  <2> QED BY <1>1, <1>8, <2>1 DEF Campaign
<1>10. Rank[d.pc] = Rank[c.pc] + 1 /\ d.pc # "done"
  BY <1>2, <1>9 DEF Rank, Pcs
<1> HIDE DEF c, d
<1>11. CampaignOK(d, i, Len(campaigns[n]), clock[n])
  <2>1. i = Len(campaigns[n]) => c.clock = clock[n]
    BY <1>1, <1>2 DEF CampaignOK
  <2>2. /\ o.won_clock <= clock[n] /\ (i = Len(campaigns[n]) => o.won_clock = clock[n])
    BY <1>3, <1>7, <1>8, <2>1
  <2> QED BY <1>1, <1>2, <1>4, <1>8, <1>9, <2>1, <2>2 DEF CampaignOK
<1>12. /\ seniority' \in [Nodes -> Nat] /\ current_session' \in [Nodes -> Sessions]
       /\ channel' \in [Nodes \X Nodes -> Seq(Ballots)]
  BY <1>2, <1>3, <1>7 DEF Inv, Typed
<1>13. Rank[d.pc] = Rank[campaigns[n][i].pc] + 1
  BY <1>10 DEF c
<1> QED BY <1>2, <1>6, <1>9, <1>10, <1>11, <1>12, <1>13, CampaignStep

(* A campaign begins.                                                      *)
LEMMA BeginKeepsInv ==
  ASSUME Inv, NEW n \in Nodes, NEW i \in 1 .. Len(campaigns[n]), Begin(n, i), UNCHANGED nodeVars
  PROVE  Inv'
<1> DEFINE cs == campaigns[n]
           ds == Begun(cs, i, entered[n], clock[n])
<1>1. /\ cs \in Seq(Campaign) /\ clock[n] \in Nat /\ entered[n] \in Nat
      /\ NodeOK(cs, entered[n], results[n], clock[n], last_completed[n], paused[n])
  BY DEF Inv, Typed, Sound
<1>2. /\ cs[i].pc = "created" /\ Turn(cs, i) /\ campaigns' = [campaigns EXCEPT ![n] = ds]
      /\ UNCHANGED <<clock, seniority, commands_seen, current_session, entered, channel,
                     results, pending, alive, master, router, last_completed, paused>>
  BY DEF Begin, Begun, InTurn, Turn, nodeVars
<1>3. /\ ds \in Seq(Campaign)
      /\ NodeOK(ds, entered[n], results[n], clock[n], last_completed[n], paused[n])
  <2> HIDE DEF cs
  <2>1. i \in 1 .. Len(cs)
    BY DEF cs
  <2> QED BY <1>1, <1>2, <2>1, BeginKeepsNode
<1> HIDE DEF ds
<1>4. /\ campaigns' \in [Nodes -> Seq(Campaign)] /\ campaigns'[n] = ds
      /\ \A m \in Nodes \ {n} : campaigns'[m] = campaigns[m]
  BY <1>2, <1>3 DEF Inv, Typed
<1>5. Typed'
  BY <1>2, <1>4 DEF Inv, Typed
<1>6. Others(n)
  BY <1>2, <1>4 DEF Others
<1>7. Sound(n)'
  BY <1>2, <1>3, <1>4 DEF Sound
<1> QED BY <1>5, <1>6, <1>7, OneNode

(* A campaign reports.                                                     *)
LEMMA ReportKeepsInv ==
  ASSUME Inv, NEW n \in Nodes, NEW i \in 1 .. Len(campaigns[n]), Report(n, i), UNCHANGED nodeVars
  PROVE  Inv'
<1> DEFINE cs == campaigns[n]
           ds == [cs EXCEPT ![i] = Finished]
           os == Append(results[n], cs[i].result)
<1>1. /\ cs \in Seq(Campaign) /\ clock[n] \in Nat /\ entered[n] \in Nat
      /\ results[n] \in Seq(Outcomes)
      /\ NodeOK(cs, entered[n], results[n], clock[n], last_completed[n], paused[n])
  BY DEF Inv, Typed, Sound
<1>2. /\ cs[i].pc = "reporting" /\ Turn(cs, i)
      /\ campaigns' = [campaigns EXCEPT ![n] = ds] /\ results' = [results EXCEPT ![n] = os]
      /\ UNCHANGED <<clock, seniority, commands_seen, current_session, entered, channel,
                     pending, alive, master, router, last_completed, paused>>
  BY DEF Report, InTurn, Turn, nodeVars
<1>3. /\ ds \in Seq(Campaign) /\ os \in Seq(Outcomes)
      /\ NodeOK(ds, entered[n], os, clock[n], last_completed[n], paused[n])
  <2> HIDE DEF cs
  <2>1. i \in 1 .. Len(cs)
    BY DEF cs
  <2>2. cs[i].result \in Outcomes
    BY <1>1, <1>2, <2>1 DEF NodeOK, CampaignOK
  <2>3. ds \in Seq(Campaign)
    BY <1>1, <2>1, Replaced, FinishedIs
  <2>4. os \in Seq(Outcomes)
    BY <1>1, <2>2
  <2>5. NodeOK(ds, entered[n], os, clock[n], last_completed[n], paused[n])
    BY <1>1, <1>2, <2>1, ReportKeepsNode
  <2> QED BY <2>3, <2>4, <2>5
<1> HIDE DEF ds, os
<1>4. /\ campaigns' \in [Nodes -> Seq(Campaign)] /\ campaigns'[n] = ds
      /\ results' \in [Nodes -> Seq(Outcomes)] /\ results'[n] = os
      /\ \A m \in Nodes \ {n} : campaigns'[m] = campaigns[m] /\ results'[m] = results[m]
  BY <1>2, <1>3 DEF Inv, Typed
<1>5. Typed'
  BY <1>2, <1>4 DEF Inv, Typed
<1>6. Others(n)
  BY <1>2, <1>4 DEF Others
<1>7. Sound(n)'
  BY <1>2, <1>3, <1>4 DEF Sound
<1> QED BY <1>5, <1>6, <1>7, OneNode

(* The Node handles the result of a campaign.                              *)
LEMMA HandleKeepsInv ==
  ASSUME Inv, NEW n \in Nodes, HandleResult(n)
  PROVE  Inv'
<1> DEFINE r == Head(results[n])
           ts == Tail(results[n])
<1>1. /\ campaigns[n] \in Seq(Campaign) /\ clock[n] \in Nat /\ entered[n] \in Nat
      /\ results[n] \in Seq(Outcomes) /\ results[n] # << >>
      /\ NodeOK(campaigns[n], entered[n], results[n], clock[n], last_completed[n], paused[n])
  BY DEF Inv, Typed, Sound, HandleResult
<1>2. r \in Outcomes /\ ts \in Seq(Outcomes)
  BY <1>1
<1>3. /\ results' = [results EXCEPT ![n] = ts]
      /\ router' = [router EXCEPT ![n] = IF r.is_new_master THEN r.session_id ELSE @]
      /\ \/ master' = [master EXCEPT ![n] = r.session_id] \/ master' = master
         \/ master' = [master EXCEPT ![n] = NoSession]
      /\ last_completed' = [last_completed EXCEPT ![n] = r.won_clock]
      /\ paused' = [paused EXCEPT ![n] = FALSE]
      /\ UNCHANGED <<alive, clock, seniority, commands_seen, current_session, campaigns,
                     entered, channel, pending>>
  BY DEF HandleResult
<1>4. NodeOK(campaigns[n], entered[n], ts, clock[n], r.won_clock, FALSE)
  <2> DEFINE cs == campaigns[n]
             rs == results[n]
  <2> HIDE DEF cs, rs
  <2>1. NodeOK(cs, entered[n], Tail(rs), clock[n], Head(rs).won_clock, FALSE)
    BY <1>1, HandleKeepsNode DEF cs, rs
  <2> QED BY <2>1 DEF cs, rs
<1> HIDE DEF r, ts
<1>5. r.session_id \in Sessions /\ r.won_clock \in Nat
  BY <1>2 DEF Outcomes
<1>6. /\ router' \in [Nodes -> Sessions] /\ master' \in [Nodes -> Sessions \cup {NoSession}]
      /\ results' \in [Nodes -> Seq(Outcomes)] /\ results'[n] = ts
      /\ last_completed' \in [Nodes -> Nat] /\ last_completed'[n] = r.won_clock
      /\ paused' \in [Nodes -> BOOLEAN] /\ paused'[n] = FALSE
      /\ \A m \in Nodes \ {n} : /\ results'[m] = results[m] /\ paused'[m] = paused[m]
                               /\ last_completed'[m] = last_completed[m]
  BY <1>2, <1>3, <1>5 DEF Inv, Typed
<1>7. Typed'
  BY <1>3, <1>6 DEF Inv, Typed
<1>8. Others(n)
  BY <1>3, <1>6 DEF Others
<1>9. Sound(n)'
  BY <1>3, <1>4, <1>6 DEF Sound
<1> QED BY <1>7, <1>8, <1>9, OneNode

(* A node that is gone knows nothing, and the others notice.               *)
LEMMA DownKeepsInv ==
  ASSUME Inv, NEW n \in Nodes, GoDown(n)
  PROVE  Inv'
<1>1. << >> \in Seq(Campaign) /\ << >> \in Seq(Ballots) /\ << >> \in Seq(Outcomes)
  OBVIOUS
<1>2. SessionId(n, 0) \in Sessions
  BY DEF Sessions, SessionId
<1>3. /\ alive' \subseteq Nodes /\ pending' \subseteq alive'
      /\ clock' \in [Nodes -> Nat] /\ seniority' \in [Nodes -> Nat]
      /\ commands_seen' \in [Nodes -> Nat] /\ entered' \in [Nodes -> Nat]
      /\ last_completed' \in [Nodes -> Nat] /\ paused' \in [Nodes -> BOOLEAN]
  BY DEF Inv, Typed, GoDown
<1>4. /\ current_session' \in [Nodes -> Sessions] /\ router' \in [Nodes -> Sessions]
      /\ master' \in [Nodes -> Sessions \cup {NoSession}]
  BY <1>2 DEF Inv, Typed, GoDown
<1>5. /\ campaigns' \in [Nodes -> Seq(Campaign)] /\ results' \in [Nodes -> Seq(Outcomes)]
      /\ channel' \in [Nodes \X Nodes -> Seq(Ballots)]
  BY <1>1 DEF Inv, Typed, GoDown
<1>6. Typed'
  BY <1>3, <1>4, <1>5 DEF Typed
<1>7. Others(n)
  BY DEF Inv, Typed, GoDown, Others
<1>8. /\ campaigns'[n] = << >> /\ entered'[n] = 0 /\ results'[n] = << >> /\ clock'[n] = 0
      /\ last_completed'[n] = 0 /\ paused'[n] = FALSE
  BY DEF Inv, Typed, GoDown
<1>9. Sound(n)'
  BY <1>8, FreshNode DEF Sound
<1> QED BY <1>6, <1>7, <1>9, OneNode

(* Commands that are seen, and changes that are noticed later.             *)
LEMMA InputKeepsInv ==
  ASSUME Inv, NEW n \in Nodes, SeeCommand(n) \/ Flap(n), UNCHANGED nodeVars
  PROVE  Inv'
<1>1. /\ commands_seen' \in [Nodes -> Nat] /\ pending' \subseteq alive
      /\ UNCHANGED <<campaigns, clock, seniority, current_session, entered, channel, results,
                     alive, master, router, last_completed, paused>>
  <2>1. CASE SeeCommand(n)
    BY <2>1 DEF Inv, Typed, SeeCommand, nodeVars
  <2>2. CASE Flap(n)
    BY <2>2 DEF Inv, Typed, Flap, nodeVars
  <2> QED BY <2>1, <2>2
<1>2. Typed'
  BY <1>1 DEF Inv, Typed
<1>3. ASSUME NEW m \in Nodes PROVE Sound(m)'
  BY <1>1, <1>3 DEF Inv, Sound
<1> QED BY <1>2, <1>3 DEF Inv

(* Every step keeps the invariant.                                         *)
LEMMA NextInv == Inv /\ [Next]_vars => Inv'
<1> SUFFICES ASSUME Inv, [Next]_vars PROVE Inv'
  OBVIOUS
<1>1. CASE UNCHANGED vars
  <2>1. Typed'
    BY <1>1 DEF Inv, Typed, vars, electionVars, nodeVars
  <2>2. ASSUME NEW m \in Nodes PROVE Sound(m)'
    BY <1>1, <2>2 DEF Inv, Sound, vars, electionVars, nodeVars
  <2> QED BY <2>1, <2>2 DEF Inv
<1>2. ASSUME NEW n \in Nodes, ElectionStep(n) PROVE Inv'
  <2>1. ASSUME NEW from \in Nodes \ {n}, ReceiveBallot(n, from),
               PauseOnNewElection(n, Head(channel[<<from, n>>]).clock),
               UNCHANGED <<master, router, last_completed, failed>>
        PROVE  Inv'
    BY <2>1, ReceiveKeepsInv
  <2>2. DOMAIN campaigns[n] = 1 .. Len(campaigns[n])
    BY DEF Inv, Typed
  <2>3. ASSUME NEW i \in DOMAIN campaigns[n],
               Begin(n, i) \/ Enter(n, i) \/ Decide(n, i) \/ Report(n, i), UNCHANGED nodeVars
        PROVE  Inv'
    BY <2>2, <2>3, BeginKeepsInv, EnterKeepsInv, DecideKeepsInv, ReportKeepsInv
  <2>4. ASSUME NEW i \in DOMAIN campaigns[n], Announce(n, i) \/ Wake(n, i),
               PauseOnNewElection(n, campaigns[n][i].status.clock),
               UNCHANGED <<master, router, last_completed, failed>>
        PROVE  Inv'
    BY <2>2, <2>4, AnnounceKeepsInv
  <2>5. CASE ConnectionChange(n) /\ UNCHANGED nodeVars
    BY <2>5, ConnectionKeepsInv
  <2> QED BY <1>2, <2>1, <2>3, <2>4, <2>5 DEF ElectionStep
<1>3. ASSUME NEW n \in Nodes, HandleResult(n) PROVE Inv'
  BY <1>3, HandleKeepsInv
<1>4. ASSUME NEW n \in Nodes, FailAssertion(n) \/ Crash(n) PROVE Inv'
  BY <1>4, DownKeepsInv DEF FailAssertion, Crash
<1>5. ASSUME NEW n \in Nodes, SeeCommand(n) \/ Flap(n), UNCHANGED nodeVars PROVE Inv'
  BY <1>5, InputKeepsInv
<1> QED BY <1>1, <1>2, <1>3, <1>4, <1>5 DEF Next

-----------------------------------------------------------------------------
(* The bookkeeping follows: the only list in use is that of the last       *)
(* campaign.                                                               *)
LEMMA InvType == Inv => TypeOK
<1> SUFFICES ASSUME Inv PROVE TypeOK
  OBVIOUS
<1>1. /\ alive \subseteq Nodes /\ pending \subseteq alive
      /\ current_session \in [Nodes -> Sessions]
      /\ master \in [Nodes -> Sessions \cup {NoSession}]
      /\ router \in [Nodes -> Sessions] /\ paused \in [Nodes -> BOOLEAN]
  BY DEF Inv, Typed
<1>2. ASSUME NEW n \in Nodes
      PROVE  /\ {clock[n], seniority[n], commands_seen[n], last_completed[n]} \subseteq Nat
             /\ last_completed[n] <= clock[n]
             /\ entered[n] \in 0 .. Len(campaigns[n])
             /\ DOMAIN campaigns[n] = 1 .. Len(campaigns[n])
             /\ \A i \in DOMAIN campaigns[n] :
                  CampaignOK(campaigns[n][i], i, Len(campaigns[n]), clock[n])
  BY <1>2 DEF Inv, Typed, Sound, NodeOK
<1>3. ASSUME NEW n \in Nodes
      PROVE  Cardinality({i \in DOMAIN campaigns[n] : campaigns[n][i].listening}) <= 1
  <2> DEFINE S == {i \in DOMAIN campaigns[n] : campaigns[n][i].listening}
             l == Len(campaigns[n])
  <2>1. S \subseteq {l}
    BY <1>2, <1>3 DEF CampaignOK
  <2>2. IsFiniteSet({l}) /\ Cardinality({l}) = 1
    BY FS_Singleton
  <2> HIDE DEF S, l
  <2>3. Cardinality(S) <= Cardinality({l})
    BY <2>1, <2>2, FS_Subset
  <2> QED BY <2>2, <2>3 DEF S
<1>4. ASSUME NEW n \in Nodes, NEW i \in DOMAIN campaigns[n]
      PROVE  /\ campaigns[n][i].awaits \in 0 .. i - 1
             /\ \A m \in campaigns[n][i].candidates : m.clock <= clock[n]
  BY <1>2, <1>4 DEF CampaignOK
<1> QED BY <1>1, <1>2, <1>3, <1>4 DEF TypeOK

(* A node at rest has reported its last round, so its API goes on.         *)
LEMMA InvAnswers == Inv => NobodyStaysPaused
<1> SUFFICES ASSUME Inv, Settled, NEW n \in alive PROVE ~paused[n]
  BY DEF NobodyStaysPaused
<1>1. n \in Nodes /\ results[n] = << >> /\ Over(campaigns[n])
  BY DEF Inv, Typed, Settled, Over
<1>2. NodeOK(campaigns[n], entered[n], results[n], clock[n], last_completed[n], paused[n])
  BY <1>1 DEF Inv, Sound
<1> QED BY <1>1, <1>2 DEF NodeOK, Reported

(* The invariant is one of every behaviour.                                *)
THEOREM InvHolds == Spec => []Inv
<1> QED BY InitInv, NextInv, PTL DEF Spec

(* Campaigns wait for earlier ones only, one list takes ballots in, and no *)
(* node completes a round, or holds a ballot of one, that it has not       *)
(* reached: however rounds overtake and cancel one another.                *)
THEOREM BookkeepingHolds == Spec => []TypeOK
<1> QED BY InvHolds, InvType, PTL

(* An API that pauses for a round is let go on: the last campaign of a     *)
(* node is not cancelled by those before it, reports after them, and       *)
(* reports the round the node is in.                                       *)
THEOREM ApiGoesOn == Spec => []NobodyStaysPaused
<1> QED BY InvHolds, InvAnswers, PTL

=============================================================================
