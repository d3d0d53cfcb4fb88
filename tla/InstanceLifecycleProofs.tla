----------------------- MODULE InstanceLifecycleProofs ------------------------
(***************************************************************************)
(* What a runner is asked to do fits the state it is in, and what it says  *)
(* that it has completed is what its supervisor takes it to be doing, for  *)
(* any number of ranks, attempts and deaths.  Neither process waits for    *)
(* the other: the invariant says how far a supervisor can be behind, and   *)
(* that nothing is left unread that a plan could have missed once the last *)
(* task is acknowledged.                                                   *)
(***************************************************************************)
EXTENDS InstanceLifecycle, TLAPS

Ack == "TaskAcknowledged"
Done == "TaskComplete"
Ops == {"Connecting", "Loading", "WarmingUp"}
TaskNames == {"ConnectToGroup", "LoadModel", "StartWarmup", "Shutdown"}
Told == Statuses \cup EndMarks \cup {Ack, Done}
Procs == Statuses \cup {"starting", "exited", "dead"}

Supervisor ==
  [status : Statuses, phase : {"running", "checking", "reporting", "ended"},
   forwarding : BOOLEAN, pending : BOOLEAN, proc : Procs,
   tasks : {<< >>} \cup {<< t >> : t \in TaskNames}, events : Seq(Told),
   group : {<< >>} \cup [Ranks -> Nat]]

Views == [instance : BOOLEAN, complete : SUBSET Ranks,
          runners : [Ranks -> Statuses \cup {"none", "completed"}]]

Events == [kind : {"runner", "download", "deleted"}, rank : Ranks,
           status : Statuses \cup {"none", "completed"}]

(* Every variable but those of the supervisors has its type.               *)
Typed ==
  /\ deleted \in BOOLEAN /\ down \subseteq Ranks /\ crashes \in 0 .. MaxCrashes
  /\ inbox \in [Ranks -> Seq(Events)]
  /\ view \in [Ranks -> Views]
  /\ attempts \in [Ranks -> 0 .. MaxRetries]
  /\ download \in [Ranks -> {"absent", "requested", "reported"}]

Has(q, e) == \E k \in 1 .. Len(q) : q[k] = e

Tells(s, e) == Has(s.events, e)

(* At most one acknowledgement.                                            *)
Once(q) == \A j, k \in 1 .. Len(q) : q[j] = Ack /\ q[k] = Ack => j = k

(* How far the supervisor is behind its process: what it still has to read *)
(* leads from the status it knows to what the process is doing.            *)
Starting(s) == s.proc = "starting" /\ s.events = << >> /\ s.status = "Idle"

Started(s) ==
  s.proc = "Idle" /\ s.events \in {<< >>, << "Idle" >>} /\ s.status = "Idle"

Working(s) ==
  /\ s.proc \in Ops
  /\ \/ s.events \in {<< "Idle", s.proc, Ack >>, << s.proc, Ack >>}
     \/ s.events \in {<< Ack >>, << >>} /\ s.status = s.proc

Finished(s) ==
  \E op \in Ops :
    /\ s.proc = After[op]
    /\ \/ s.events \in {<< "Idle", op, Ack, Done, s.proc >>,
                        << op, Ack, Done, s.proc >>}
       \/ /\ s.events \in {<< Ack, Done, s.proc >>, << Done, s.proc >>,
                           << s.proc >>}
          /\ s.status = op
       \/ s.events = << >> /\ s.status = s.proc

Flow(s) == Starting(s) \/ Started(s) \/ Working(s) \/ Finished(s)

(* A completion comes right after the acknowledgement of its task, and     *)
(* that after a status of which the supervisor takes a completion.  Until  *)
(* it reads that status, only the watch can have changed the one it knows. *)
Busy == Ops \cup {"ShuttingDown"}

Expects(s) ==
  s.status \in Busy \/ (s.phase = "reporting" /\ s.status = "Failed")

Completes(s) ==
  \A k \in 1 .. Len(s.events) : s.events[k] = Done =>
    \/ k = 1 /\ Expects(s)
    \/ k = 2 /\ s.events[1] = Ack /\ Expects(s)
    \/ k >= 3 /\ s.events[k - 1] = Ack /\ s.events[k - 2] \in Busy

(* Of any supervisor: what has ended has nothing left to do, one whose     *)
(* failure is being looked into has no process, nor has one that says so.  *)
SupOK(s) ==
  /\ s.phase = "ended" => s.tasks = << >> /\ ~s.pending /\ ~s.forwarding
  /\ s.phase \in {"checking", "reporting"} => ~Lives(s)
  /\ s.phase = "checking" => ~s.forwarding
  /\ Lives(s) => \A e \in EndMarks : ~Tells(s, e)
  /\ Lives(s) /\ s.phase # "ended" => Flow(s)
  /\ s.forwarding => Completes(s)

(* The process takes, or will take, the task it has been sent.             *)
Asked(s) ==
  s.tasks # << >> =>
    \/ s.proc = "starting" /\ Head(s.tasks) \in {"ConnectToGroup", "LoadModel"}
    \/ /\ Takes(s, Head(s.tasks))
       /\ s.proc = "Idle" \/ s.events = << >>

(* Of the supervisor in Worker.runners: it is never asked to shut down,    *)
(* start_task waits for the one task under way, which is acknowledged once.*)
CurOK(s) ==
  /\ s.tasks # << >> => Head(s.tasks) # "Shutdown" /\ s.pending /\ ~Tells(s, Ack)
  /\ Tells(s, Ack) => s.pending
  /\ Once(s.events)
  /\ ~Tells(s, "EndOfStream")
  /\ Lives(s) /\ s.phase # "ended" => Asked(s)

(* Of those it had before: they are only told to shut down.                *)
KilledOK(s) == s.tasks \in {<< >>, << "Shutdown" >>}

RankOK(r) ==
  /\ current[r] \in {0, Len(sups[r])}
  /\ waits[r] \in 0 .. Len(sups[r])
  /\ waits[r] # 0 => current[r] \in {0, waits[r]}
  /\ waits[r] = 0 /\ current[r] # 0 => ~Sup(r).pending
  /\ \A i \in 1 .. Len(sups[r]) :
       /\ SupOK(sups[r][i])
       /\ IF i = current[r] THEN CurOK(sups[r][i]) ELSE KilledOK(sups[r][i])

SupsTyped ==
  /\ sups \in [Ranks -> Seq(Supervisor)]
  /\ current \in [Ranks -> Nat] /\ waits \in [Ranks -> Nat]

Supervised == SupsTyped /\ \A r \in Ranks : RankOK(r)

Inv == Typed /\ Supervised

-----------------------------------------------------------------------------
(* Sequences.                                                              *)

(* What is sent is appended to what has not been read.                     *)
LEMMA TwoSent ==
  ASSUME NEW s \in Seq(Told), NEW d \in Told, NEW e \in Told
  PROVE  /\ s \o << d, e >> \in Seq(Told)
         /\ Len(s \o << d, e >>) = Len(s) + 2
         /\ \A k \in Nat \ {0} : k <= Len(s) => (s \o << d, e >>)[k] = s[k]
         /\ (s \o << d, e >>)[Len(s) + 1] = d
         /\ (s \o << d, e >>)[Len(s) + 2] = e
  OBVIOUS

(* A sequence is its elements.                                             *)
LEMMA Same3 ==
  ASSUME NEW l \in Seq(Told), Len(l) = 3
  PROVE  l = << l[1], l[2], l[3] >>
  OBVIOUS

(* Of four.                                                                *)
LEMMA Same4 ==
  ASSUME NEW l \in Seq(Told), Len(l) = 4
  PROVE  l = << l[1], l[2], l[3], l[4] >>
  OBVIOUS

(* Of five.                                                                *)
LEMMA Same5 ==
  ASSUME NEW l \in Seq(Told), Len(l) = 5
  PROVE  l = << l[1], l[2], l[3], l[4], l[5] >>
  OBVIOUS

(* Two more than one.                                                      *)
LEMMA OneAndTwo ==
  ASSUME NEW a \in Told, NEW d \in Told, NEW e \in Told
  PROVE  << a >> \o << d, e >> = << a, d, e >>
<1> DEFINE s == << a >>
           l == s \o << d, e >>
<1>1. s \in Seq(Told) /\ Len(s) = 1 /\ s[1] = a
  OBVIOUS
<1>2. s \in Seq(Told)
  BY <1>1
<1> HIDE DEF s
<1>3. l \in Seq(Told) /\ Len(l) = 3 /\ l[2] = d /\ l[3] = e
  <2>1. /\ l \in Seq(Told) /\ Len(l) = Len(s) + 2
        /\ l[Len(s) + 1] = d /\ l[Len(s) + 2] = e
    BY <1>2, TwoSent
  <2>2. Len(s) + 1 = 2 /\ Len(s) + 2 = 3
    BY <1>1
  <2> HIDE DEF l
  <2> QED BY <2>1, <2>2
<1>4. \A k \in Nat \ {0} : k <= 1 => l[k] = s[k]
  <2>1. \A k \in Nat \ {0} : k <= Len(s) => l[k] = s[k]
    BY <1>2, TwoSent
  <2> HIDE DEF l
  <2> QED BY <1>1, <2>1
<1> HIDE DEF l
<1>5. l = << a, d, e >>
  BY <1>1, <1>3, <1>4, Same3
<1> QED BY <1>5 DEF l, s

(* Two more than two.                                                      *)
LEMMA TwoAndTwo ==
  ASSUME NEW a \in Told, NEW b \in Told, NEW d \in Told, NEW e \in Told
  PROVE  << a, b >> \o << d, e >> = << a, b, d, e >>
<1> DEFINE s == << a, b >>
           l == s \o << d, e >>
<1>1. s \in Seq(Told) /\ Len(s) = 2 /\ s[1] = a /\ s[2] = b
  OBVIOUS
<1>2. s \in Seq(Told)
  BY <1>1
<1> HIDE DEF s
<1>3. l \in Seq(Told) /\ Len(l) = 4 /\ l[3] = d /\ l[4] = e
  <2>1. /\ l \in Seq(Told) /\ Len(l) = Len(s) + 2
        /\ l[Len(s) + 1] = d /\ l[Len(s) + 2] = e
    BY <1>2, TwoSent
  <2>2. Len(s) + 1 = 3 /\ Len(s) + 2 = 4
    BY <1>1
  <2> HIDE DEF l
  <2> QED BY <2>1, <2>2
<1>4. \A k \in Nat \ {0} : k <= 2 => l[k] = s[k]
  <2>1. \A k \in Nat \ {0} : k <= Len(s) => l[k] = s[k]
    BY <1>2, TwoSent
  <2> HIDE DEF l
  <2> QED BY <1>1, <2>1
<1> HIDE DEF l
<1>5. l = << a, b, d, e >>
  BY <1>1, <1>3, <1>4, Same4
<1> QED BY <1>5 DEF l, s

(* Two more than three.                                                    *)
LEMMA ThreeAndTwo ==
  ASSUME NEW a \in Told, NEW b \in Told, NEW c \in Told, NEW d \in Told, NEW e \in Told
  PROVE  << a, b, c >> \o << d, e >> = << a, b, c, d, e >>
<1> DEFINE s == << a, b, c >>
           l == s \o << d, e >>
<1>1. s \in Seq(Told) /\ Len(s) = 3 /\ s[1] = a /\ s[2] = b /\ s[3] = c
  OBVIOUS
<1>2. s \in Seq(Told)
  BY <1>1
<1> HIDE DEF s
<1>3. l \in Seq(Told) /\ Len(l) = 5 /\ l[4] = d /\ l[5] = e
  <2>1. /\ l \in Seq(Told) /\ Len(l) = Len(s) + 2
        /\ l[Len(s) + 1] = d /\ l[Len(s) + 2] = e
    BY <1>2, TwoSent
  <2>2. Len(s) + 1 = 4 /\ Len(s) + 2 = 5
    BY <1>1
  <2> HIDE DEF l
  <2> QED BY <2>1, <2>2
<1>4. \A k \in Nat \ {0} : k <= 3 => l[k] = s[k]
  <2>1. \A k \in Nat \ {0} : k <= Len(s) => l[k] = s[k]
    BY <1>2, TwoSent
  <2> HIDE DEF l
  <2> QED BY <1>1, <2>1
<1> HIDE DEF l
<1>5. l = << a, b, c, d, e >>
  BY <1>1, <1>3, <1>4, Same5
<1> QED BY <1>5 DEF l, s

-----------------------------------------------------------------------------
(* The supervisor reads what its process has sent.                         *)

(* Keeps(s, t): a step of a supervisor, from s to t, keeps what is said of *)
(* it.                                                                     *)
Keeps(s, t) ==
  /\ t \in Supervisor /\ SupOK(t)
  /\ CurOK(s) => CurOK(t)
  /\ KilledOK(s) => KilledOK(t)
  /\ t.pending => s.pending

(* After[op] is a status, and no two operations have the same.             *)
LEMMA Afters ==
  /\ DOMAIN After = Ops
  /\ \A op \in Ops : After[op] \in {"Connected", "Loaded", "Ready"}
  /\ \A o, p \in Ops : After[o] = After[p] => o = p
  BY DEF After, Ops

(* Nothing is read or sent, and the status stays.                          *)
LEMMA Alike ==
  ASSUME NEW s, NEW t, t.events = s.events, t.status = s.status, t.proc = s.proc,
         t.phase = s.phase
  PROVE  /\ \A x : Tells(t, x) = Tells(s, x)
         /\ Flow(s) => Flow(t)
         /\ Completes(s) => Completes(t)
  BY DEF Tells, Flow, Starting, Started, Working, Finished, Completes,
         Expects

(* A queue with no completion, or two with what they need.                 *)
LEMMA NoneToComplete ==
  ASSUME NEW s, ~Tells(s, Done)
  PROVE  Completes(s)
  BY DEF Tells, Has, Completes

(* A process that lives has closed nothing: the queue is read in order.    *)
LEMMA ReceivedKeeps ==
  ASSUME NEW s \in Supervisor, SupOK(s), s.events # << >>, NEW t \in Received(s)
  PROVE  Keeps(s, t) /\ t.events # << >>
<1>1. CASE t = s
  BY <1>1 DEF Keeps
<1>2. CASE t # s
  <2> DEFINE end == s.events[Len(s.events)]
  <2>1. end \in EndMarks /\ t = [s EXCEPT !.events = << end >>]
    BY <1>2 DEF Received
  <2>2. Len(s.events) \in Nat \ {0} /\ Tells(s, end)
    BY DEF Supervisor, Tells, Has
  <2>3. ~Lives(s)
    BY <2>1, <2>2 DEF SupOK
  <2> HIDE DEF end
  <2>4. t \in Supervisor
    BY <2>1 DEF Supervisor, Told
  <2>5. /\ t.events = << end >>
        /\ t.status = s.status /\ t.phase = s.phase /\ t.forwarding = s.forwarding
        /\ t.pending = s.pending /\ t.proc = s.proc /\ t.tasks = s.tasks
    BY <2>1 DEF Supervisor
  <2>6. \A e : Tells(t, e) <=> e = end
    BY <2>5 DEF Tells, Has
  <2>7. ~Tells(t, Ack)
    BY <2>6, <2>1 DEF EndMarks, Ack
  <2>8. SupOK(t)
    <3>1. Completes(t)
      BY <2>1, <2>6, NoneToComplete DEF EndMarks, Done
    <3>2. ~Lives(t)
      BY <2>3, <2>5 DEF Lives
    <3> QED BY <2>3, <2>5, <3>1, <3>2 DEF SupOK
  <2>9. CurOK(s) => CurOK(t)
    BY <2>1, <2>2, <2>3, <2>5, <2>6, <2>7 DEF CurOK, Lives, Once
  <2> QED BY <2>4, <2>5, <2>8, <2>9 DEF Keeps, KilledOK
<1> QED BY <1>1, <1>2

(* One turn of _forward_events.                                            *)
LEMMA Turn ==
  ASSUME NEW s \in Supervisor, s.events # << >>
  PROVE  LET t == ForwardEvent(s)
             e == Head(s.events) IN
         /\ t \in Supervisor
         /\ t.events = Tail(s.events) /\ t.proc = s.proc /\ t.tasks = s.tasks
         /\ t.status = IF e \in Statuses THEN e ELSE s.status
         /\ t.pending = IF e \in {Ack, "EndOfStream"} THEN FALSE ELSE s.pending
         /\ t.forwarding = IF e \in EndMarks THEN FALSE ELSE s.forwarding
         /\ t.phase = IF e = "RunnerTerminationError" /\ s.phase = "running"
                      THEN "checking" ELSE s.phase
<1> DEFINE e == Head(s.events)
           u == [s EXCEPT !.events = Tail(@)]
           v == ForwardEvent(s)
<1>1. e \in Told /\ Tail(s.events) \in Seq(Told)
  BY DEF Supervisor
<1> HIDE DEF e
<1>2. u \in Supervisor /\ u.events = Tail(s.events) /\ u.proc = s.proc
      /\ u.tasks = s.tasks /\ u.status = s.status /\ u.pending = s.pending
      /\ u.forwarding = s.forwarding /\ u.phase = s.phase
  BY <1>1 DEF Supervisor
<1> HIDE DEF u
<1>3. CASE e \in Statuses
  <2>1. ForwardEvent(s) = [u EXCEPT !.status = e]
    BY <1>3 DEF ForwardEvent, Statuses, e, u
  <2>2. v \in Supervisor /\ v = [u EXCEPT !.status = e]
    BY <1>2, <1>3, <2>1 DEF Supervisor, v
  <2>3. /\ v.events = u.events /\ v.proc = u.proc /\ v.tasks = u.tasks /\ v.status = e
        /\ v.pending = u.pending /\ v.forwarding = u.forwarding /\ v.phase = u.phase
    BY <1>2, <2>2 DEF Supervisor
  <2>4. e \notin {Ack, "EndOfStream"} /\ e \notin EndMarks
    BY <1>3 DEF Statuses, EndMarks, Ack
  <2> HIDE DEF v
  <2> QED BY <1>2, <1>3, <2>2, <2>3, <2>4 DEF EndMarks, v, e
<1>4. CASE e = Ack
  <2>1. ForwardEvent(s) = [u EXCEPT !.pending = FALSE]
    BY <1>4 DEF ForwardEvent, Statuses, Ack, e, u
  <2>2. v \in Supervisor /\ v = [u EXCEPT !.pending = FALSE]
    BY <1>2, <2>1 DEF Supervisor, v
  <2>3. /\ v.events = u.events /\ v.proc = u.proc /\ v.tasks = u.tasks /\ v.status = u.status
        /\ v.pending = FALSE /\ v.forwarding = u.forwarding /\ v.phase = u.phase
    BY <1>2, <2>2 DEF Supervisor
  <2>4. e \notin Statuses /\ e \notin EndMarks
    BY <1>4 DEF Statuses, EndMarks, Ack
  <2> HIDE DEF v
  <2> QED BY <1>2, <1>4, <2>2, <2>3, <2>4 DEF EndMarks, v, e
<1>5. CASE e = Done
  <2>1. ForwardEvent(s) = u
    BY <1>5 DEF ForwardEvent, Statuses, Done, e, u
  <2> QED BY <1>2, <1>5, <2>1 DEF Statuses, EndMarks, Ack, Done, e
<1>6. CASE e = "RunnerTerminationError"
  <2>1. ForwardEvent(s) = [u EXCEPT !.forwarding = FALSE,
                                    !.phase = IF @ = "running" THEN "checking" ELSE @]
    BY <1>6 DEF ForwardEvent, Statuses, e, u
  <2>2. v \in Supervisor
    BY <1>2, <2>1 DEF Supervisor, v
  <2>3. /\ v.events = u.events /\ v.proc = u.proc /\ v.tasks = u.tasks /\ v.status = u.status
        /\ v.pending = u.pending /\ v.forwarding = FALSE
        /\ v.phase = IF u.phase = "running" THEN "checking" ELSE u.phase
    BY <1>2, <2>1 DEF Supervisor, v
  <2>4. e \notin Statuses /\ e \in EndMarks /\ e \notin {Ack, "EndOfStream"}
    BY <1>6 DEF Statuses, EndMarks, Ack
  <2> HIDE DEF v
  <2> QED BY <1>2, <1>6, <2>2, <2>3, <2>4 DEF v, e
<1>7. CASE e = "EndOfStream"
  <2>1. ForwardEvent(s) = [u EXCEPT !.forwarding = FALSE, !.pending = FALSE]
    BY <1>7 DEF ForwardEvent, Statuses, e, u
  <2>2. v \in Supervisor /\ v = [u EXCEPT !.forwarding = FALSE, !.pending = FALSE]
    BY <1>2, <2>1 DEF Supervisor, v
  <2>3. /\ v.events = u.events /\ v.proc = u.proc /\ v.tasks = u.tasks /\ v.status = u.status
        /\ v.pending = FALSE /\ v.forwarding = FALSE /\ v.phase = u.phase
    BY <1>2, <2>2 DEF Supervisor
  <2>4. e \notin Statuses /\ e \in EndMarks /\ e \in {Ack, "EndOfStream"}
    BY <1>7 DEF Statuses, EndMarks
  <2> HIDE DEF v
  <2> QED BY <1>2, <1>7, <2>2, <2>3, <2>4 DEF v, e
<1> QED BY <1>1, <1>3, <1>4, <1>5, <1>6, <1>7 DEF Told, EndMarks

(* What is left of a queue.                                                *)
LEMMA Rest ==
  ASSUME NEW q \in Seq(Told), q # << >>
  PROVE  /\ Head(q) = q[1] /\ Head(q) \in Told /\ Len(q) \in Nat \ {0}
         /\ Tail(q) \in Seq(Told) /\ Len(Tail(q)) = Len(q) - 1
         /\ \A k \in 1 .. Len(Tail(q)) :
              k + 1 \in 1 .. Len(q) /\ Tail(q)[k] = q[k + 1]
  OBVIOUS

(* It comes one step closer to its process.                                *)
LEMMA FlowForward ==
  ASSUME NEW s \in Supervisor, Flow(s), s.events # << >>,
         NEW t \in Supervisor, t.events = Tail(s.events), t.proc = s.proc,
         t.tasks = s.tasks,
         t.status = IF Head(s.events) \in Statuses THEN Head(s.events) ELSE s.status
  PROVE  Flow(t) /\ (Asked(s) => Asked(t))
<1>1. Flow(t)
  <2>1. CASE Starting(s)
    BY <2>1 DEF Starting
  <2>2. CASE Started(s)
    <3>1. s.events = << "Idle" >>
      BY <2>2 DEF Started
    <3>2. t.events = << >> /\ Head(s.events) = "Idle"
      BY <3>1
    <3>3. t.status = "Idle"
      BY <3>2, <2>2 DEF Started
    <3> QED BY <3>2, <3>3, <2>2 DEF Started, Flow
  <2>3. CASE Working(s)
    <3>1. s.proc \in Statuses /\ "Idle" \in Statuses /\ Ack \notin Statuses
      BY <2>3 DEF Working, Ops, Statuses, Ack
    <3>2. CASE s.events = << "Idle", s.proc, Ack >>
      <4>1. t.events = << s.proc, Ack >>
        BY <3>2
      <4> QED BY <4>1, <2>3 DEF Working, Flow
    <3>3. CASE s.events = << s.proc, Ack >>
      <4>1. t.events = << Ack >> /\ Head(s.events) = s.proc
        BY <3>3
      <4> QED BY <4>1, <3>1, <2>3 DEF Working, Flow
    <3>4. CASE s.events = << Ack >> /\ s.status = s.proc
      <4>1. t.events = << >> /\ Head(s.events) = Ack
        BY <3>4
      <4> QED BY <4>1, <3>1, <3>4, <2>3 DEF Working, Flow
    <3> QED BY <2>3, <3>2, <3>3, <3>4 DEF Working
  <2>4. CASE Finished(s)
    <3>1. PICK op \in Ops :
            /\ s.proc = After[op]
            /\ \/ s.events \in {<< "Idle", op, Ack, Done, s.proc >>,
                                << op, Ack, Done, s.proc >>}
               \/ /\ s.events \in {<< Ack, Done, s.proc >>, << Done, s.proc >>,
                                   << s.proc >>}
                  /\ s.status = op
               \/ s.events = << >> /\ s.status = s.proc
      BY <2>4 DEF Finished
    <3>2. op \in Statuses /\ s.proc \in Statuses
          /\ Ack \notin Statuses /\ Done \notin Statuses
      BY <3>1, Afters DEF Ops, Statuses, Ack, Done
    <3>3. CASE s.events = << "Idle", op, Ack, Done, s.proc >>
      <4>1. t.events = << op, Ack, Done, t.proc >>
        BY <3>3
      <4> QED BY <4>1, <3>1 DEF Finished, Flow
    <3>4. CASE s.events = << op, Ack, Done, s.proc >>
      <4>1. t.events = << Ack, Done, t.proc >> /\ Head(s.events) = op
        BY <3>4
      <4> QED BY <4>1, <3>1, <3>2 DEF Finished, Flow
    <3>5. CASE s.events = << Ack, Done, s.proc >> /\ s.status = op
      <4>1. t.events = << Done, t.proc >> /\ Head(s.events) = Ack
        BY <3>5
      <4> QED BY <4>1, <3>1, <3>2, <3>5 DEF Finished, Flow
    <3>6. CASE s.events = << Done, s.proc >> /\ s.status = op
      <4>1. t.events = << t.proc >> /\ Head(s.events) = Done
        BY <3>6
      <4> QED BY <4>1, <3>1, <3>2, <3>6 DEF Finished, Flow
    <3>7. CASE s.events = << s.proc >> /\ s.status = op
      <4>1. t.events = << >> /\ Head(s.events) = s.proc
        BY <3>7
      <4> QED BY <4>1, <3>1, <3>2 DEF Finished, Flow
    <3> QED BY <3>1, <3>3, <3>4, <3>5, <3>6, <3>7
  <2> QED BY <2>1, <2>2, <2>3, <2>4 DEF Flow
<1>2. ASSUME Asked(s) PROVE Asked(t)
  <2> SUFFICES ASSUME s.tasks # << >> PROVE Asked(t)
    BY DEF Asked
  <2>1. s.proc # "starting"
    BY Afters DEF Flow, Starting, Started, Working, Finished, Ops
  <2> QED BY <1>2, <2>1 DEF Asked, Takes
<1> QED BY <1>1, <1>2

(* The first of a queue is read: a completion is still preceded by what it *)
(* needs, or the supervisor knows it.                                      *)
LEMMA CompletesForward ==
  ASSUME NEW s \in Supervisor, Completes(s), s.events # << >>,
         NEW t \in Supervisor, t.events = Tail(s.events),
         t.status = IF Head(s.events) \in Statuses THEN Head(s.events) ELSE s.status,
         s.phase = "reporting" => t.phase = "reporting"
  PROVE  Completes(t)
<1>1. /\ Head(s.events) = s.events[1] /\ Len(s.events) \in Nat \ {0}
      /\ Len(t.events) = Len(s.events) - 1
      /\ \A k \in 1 .. Len(t.events) :
           k + 1 \in 1 .. Len(s.events) /\ t.events[k] = s.events[k + 1]
  BY Rest DEF Supervisor
<1>2. Busy \subseteq Statuses /\ Ack \notin Statuses
  BY DEF Busy, Ops, Statuses, Ack
<1>3. ASSUME NEW k \in 1 .. Len(t.events), t.events[k] = Done
      PROVE  \/ k = 1 /\ Expects(t)
             \/ k = 2 /\ t.events[1] = Ack /\ Expects(t)
             \/ k >= 3 /\ t.events[k - 1] = Ack /\ t.events[k - 2] \in Busy
  <2>1. k \in Nat \ {0} /\ k + 1 \in 1 .. Len(s.events) /\ s.events[k + 1] = Done
    BY <1>1, <1>3
  <2>2. \/ k + 1 = 2 /\ s.events[1] = Ack /\ Expects(s)
        \/ k + 1 >= 3 /\ s.events[(k + 1) - 1] = Ack /\ s.events[(k + 1) - 2] \in Busy
    BY <2>1 DEF Completes
  <2>3. CASE k = 1
    BY <2>1, <2>2, <2>3, <1>1, <1>2 DEF Expects
  <2>4. CASE k = 2
    <3>1. s.events[2] = Ack /\ s.events[1] \in Busy
      BY <2>1, <2>2, <2>4
    <3>2. t.events[1] = s.events[2]
      BY <1>1, <2>4
    <3>3. Expects(t)
      BY <3>1, <1>1, <1>2 DEF Expects
    <3> QED BY <3>1, <3>2, <3>3, <2>4
  <2>5. CASE k >= 3
    <3>1. s.events[k] = Ack /\ s.events[k - 1] \in Busy
      BY <2>1, <2>2, <2>5
    <3>2. k - 1 \in 1 .. Len(t.events) /\ k - 2 \in 1 .. Len(t.events)
      BY <2>1, <2>5, <1>1
    <3>3. t.events[k - 1] = s.events[(k - 1) + 1] /\ t.events[k - 2] = s.events[(k - 2) + 1]
      BY <3>2, <1>1
    <3>4. (k - 1) + 1 = k /\ (k - 2) + 1 = k - 1
      BY <2>1
    <3> QED BY <3>1, <3>3, <3>4, <2>5
  <2> QED BY <2>1, <2>3, <2>4, <2>5
<1> QED BY <1>3 DEF Completes

(* One turn of _forward_events, whatever is read.                          *)
LEMMA ForwardKeeps ==
  ASSUME NEW s \in Supervisor, SupOK(s), s.events # << >>
  PROVE  Keeps(s, ForwardEvent(s))
<1> DEFINE t == ForwardEvent(s)
           e == Head(s.events)
<1>1. /\ t \in Supervisor
      /\ t.events = Tail(s.events) /\ t.proc = s.proc /\ t.tasks = s.tasks
      /\ t.status = IF e \in Statuses THEN e ELSE s.status
      /\ t.pending = IF e \in {Ack, "EndOfStream"} THEN FALSE ELSE s.pending
      /\ t.forwarding = IF e \in EndMarks THEN FALSE ELSE s.forwarding
      /\ t.phase = IF e = "RunnerTerminationError" /\ s.phase = "running"
                   THEN "checking" ELSE s.phase
  BY Turn
<1> HIDE DEF t
<1>2. s.events \in Seq(Told) /\ s.pending \in BOOLEAN
  BY DEF Supervisor
<1>3. /\ e = s.events[1] /\ 1 \in 1 .. Len(s.events)
      /\ \A k \in 1 .. Len(t.events) :
           k + 1 \in 1 .. Len(s.events) /\ t.events[k] = s.events[k + 1]
  BY <1>1, <1>2, Rest
<1> HIDE DEF e
<1>4. \A x : Tells(t, x) => Tells(s, x)
  <2> SUFFICES ASSUME NEW x, Tells(t, x) PROVE Tells(s, x)
    OBVIOUS
  <2>1. PICK k \in 1 .. Len(t.events) : t.events[k] = x
    BY DEF Tells, Has
  <2>2. k + 1 \in 1 .. Len(s.events) /\ s.events[k + 1] = x
    BY <2>1, <1>3
  <2> QED BY <2>2 DEF Tells, Has
<1>5. Tells(s, e)
  BY <1>3 DEF Tells, Has
<1>6. Lives(t) = Lives(s)
  BY <1>1 DEF Lives
<1>7. SupOK(t)
  <2>1. t.phase = "ended" => s.phase = "ended"
    BY <1>1
  <2>2. t.phase \in {"checking", "reporting"} => ~Lives(s)
    BY <1>1, <1>5 DEF SupOK, EndMarks
  <2>3. t.phase = "checking" => ~t.forwarding
    BY <1>1 DEF SupOK, EndMarks
  <2>4. Lives(t) /\ t.phase # "ended" => Flow(t)
    BY <1>1, <1>6, FlowForward DEF SupOK, e
  <2>5. t.forwarding => Completes(t)
    BY <1>1, CompletesForward DEF SupOK, e
  <2> QED BY <1>1, <1>4, <1>6, <2>1, <2>2, <2>3, <2>4, <2>5 DEF SupOK
<1>8. ASSUME CurOK(s) PROVE CurOK(t)
  <2> USE <1>8
  <2>1. e # "EndOfStream"
    BY <1>5 DEF CurOK
  <2>2. e = Ack => ~Tells(t, Ack) /\ s.tasks = << >>
    <3> SUFFICES ASSUME e = Ack PROVE ~Tells(t, Ack) /\ s.tasks = << >>
      OBVIOUS
    <3>1. s.tasks = << >>
      BY <1>5 DEF CurOK
    <3>2. ASSUME Tells(t, Ack) PROVE FALSE
      <4>1. PICK k \in 1 .. Len(t.events) : t.events[k] = Ack
        BY <3>2 DEF Tells, Has
      <4>2. k + 1 \in 1 .. Len(s.events) /\ s.events[k + 1] = Ack /\ s.events[1] = Ack
            /\ 1 \in 1 .. Len(s.events) /\ k + 1 # 1
        BY <4>1, <1>3
      <4> QED BY <4>2 DEF CurOK, Once
    <3> QED BY <3>1, <3>2
  <2>3. t.tasks # << >> => Head(t.tasks) # "Shutdown" /\ t.pending /\ ~Tells(t, Ack)
    BY <2>1, <2>2, <1>1, <1>4 DEF CurOK
  <2>4. Tells(t, Ack) => t.pending
    BY <2>1, <2>2, <1>1, <1>4 DEF CurOK
  <2>5. ASSUME NEW j \in 1 .. Len(t.events), NEW k \in 1 .. Len(t.events),
               t.events[j] = Ack, t.events[k] = Ack
        PROVE  j = k
    <3>1. j + 1 \in 1 .. Len(s.events) /\ k + 1 \in 1 .. Len(s.events)
          /\ s.events[j + 1] = Ack /\ s.events[k + 1] = Ack
      BY <2>5, <1>3
    <3> QED BY <3>1 DEF CurOK, Once
  <2>6. ~Tells(t, "EndOfStream")
    BY <1>4 DEF CurOK
  <2>7. Lives(t) /\ t.phase # "ended" => Asked(t)
    BY <1>1, <1>6, FlowForward DEF CurOK, SupOK, e
  <2> QED BY <2>3, <2>4, <2>5, <2>6, <2>7 DEF CurOK, Once
<1>9. t.pending => s.pending
  BY <1>1, <1>2
<1> QED BY <1>1, <1>7, <1>8, <1>9 DEF Keeps, KilledOK, t

-----------------------------------------------------------------------------
(* The supervisor ends, or its process does.                               *)

(* run() is over.                                                          *)
LEMMA EndKeeps ==
  ASSUME NEW s \in Supervisor
  PROVE  /\ Keeps(s, End(s))
         /\ End(s).phase = "ended" /\ End(s).tasks = << >> /\ ~End(s).pending
<1> DEFINE t == [s EXCEPT !.phase = "ended", !.forwarding = FALSE,
                          !.pending = FALSE, !.tasks = << >>, !.events = << >>]
           u == [t EXCEPT !.proc = "dead", !.group = << >>]
<1>1. t \in Supervisor /\ t.phase = "ended" /\ ~t.forwarding /\ ~t.pending
      /\ t.tasks = << >> /\ t.events = << >>
  <2>1. << >> \in Seq(Told)
    OBVIOUS
  <2>2. t \in Supervisor
    BY <2>1 DEF Supervisor
  <2> QED BY <2>2 DEF Supervisor
<1> HIDE DEF t
<1>2. u \in Supervisor /\ u.phase = "ended" /\ ~u.forwarding /\ ~u.pending
      /\ u.tasks = << >> /\ u.events = << >>
  BY <1>1 DEF Supervisor, Procs
<1> HIDE DEF u
<1>3. End(s) \in {t, u}
  BY DEF End, Dead, t, u
<1>4. ASSUME NEW v \in {t, u}
      PROVE  Keeps(s, v) /\ v.phase = "ended" /\ v.tasks = << >> /\ ~v.pending
  <2>1. \A x : ~Tells(v, x)
    BY <1>1, <1>2 DEF Tells, Has
  <2>2. Once(v.events)
    BY <1>1, <1>2 DEF Once
  <2> QED BY <1>1, <1>2, <2>1, <2>2 DEF Keeps, SupOK, CurOK, KilledOK
<1> QED BY <1>3, <1>4

(* The process is gone, what it has sent is still there.                   *)
LEMMA DeadKeeps ==
  ASSUME NEW s \in Supervisor, SupOK(s)
  PROVE  Keeps(s, Dead(s)) /\ ~Lives(Dead(s))
         /\ Dead(s).phase = s.phase /\ Dead(s).tasks = s.tasks
         /\ Dead(s).pending = s.pending
<1> DEFINE t == Dead(s)
<1>1. /\ t \in Supervisor /\ t.status = s.status
      /\ t.proc = "dead" /\ t.events = s.events /\ t.tasks = s.tasks
      /\ t.phase = s.phase /\ t.forwarding = s.forwarding /\ t.pending = s.pending
  BY DEF Dead, Supervisor, Procs
<1> HIDE DEF t
<1>2. ~Lives(t)
  BY <1>1 DEF Lives
<1>3. SupOK(t)
  <2>1. t.forwarding => Completes(t)
    BY <1>1 DEF SupOK, Completes, Expects
  <2> QED BY <1>1, <1>2, <2>1 DEF SupOK
<1>4. CurOK(s) => CurOK(t)
  BY <1>1, <1>2 DEF CurOK, Tells
<1> QED BY <1>1, <1>2, <1>3, <1>4 DEF Keeps, KilledOK, t

(* The watch, or the check, has found that there is no process.            *)
LEMMA FailKeeps ==
  ASSUME NEW s \in Supervisor, SupOK(s), ~Lives(s)
  PROVE  Keeps(s, [s EXCEPT !.phase = "reporting", !.status = "Failed"])
<1> DEFINE t == [s EXCEPT !.phase = "reporting", !.status = "Failed"]
<1>1. /\ t \in Supervisor
      /\ t.proc = s.proc /\ t.events = s.events /\ t.tasks = s.tasks
      /\ t.phase = "reporting" /\ t.forwarding = s.forwarding
      /\ t.pending = s.pending /\ t.status = "Failed"
  BY DEF Supervisor, Statuses
<1> HIDE DEF t
<1>2. SupOK(t)
  <2>1. t.forwarding => Completes(t)
    BY <1>1 DEF SupOK, Completes, Expects
  <2>2. ~Lives(t)
    BY <1>1 DEF Lives
  <2> QED BY <1>1, <2>1, <2>2 DEF SupOK
<1>3. CurOK(s) => CurOK(t)
  BY <1>1 DEF CurOK, Tells, Lives
<1> QED BY <1>1, <1>2, <1>3 DEF Keeps, KilledOK, t

(* shutdown, of a runner that has been told to shut down.                  *)
LEMMA ShutDownKeeps ==
  ASSUME NEW s \in Supervisor, SupOK(s), KilledOK(s)
  PROVE  ShutDown(s) \in Supervisor /\ SupOK(ShutDown(s)) /\ KilledOK(ShutDown(s))
<1>1. CASE s.phase = "running"
  BY <1>1, EndKeeps DEF ShutDown, Keeps
<1>2. CASE s.phase = "ended"
  BY <1>2 DEF ShutDown
<1>3. CASE s.phase \in {"checking", "reporting"}
  <2> DEFINE t == [s EXCEPT !.forwarding = FALSE, !.pending = FALSE]
  <2>1. ShutDown(s) = t
    BY <1>3 DEF ShutDown
  <2>2. /\ t \in Supervisor
        /\ t.proc = s.proc /\ t.events = s.events /\ t.tasks = s.tasks
        /\ t.phase = s.phase /\ ~t.forwarding /\ ~t.pending
    BY DEF Supervisor
  <2> HIDE DEF t
  <2>3. ~Lives(t)
    BY <1>3, <2>2 DEF SupOK, Lives
  <2> QED BY <1>3, <2>1, <2>2, <2>3 DEF SupOK, KilledOK
<1> QED BY <1>1, <1>2, <1>3 DEF Supervisor

-----------------------------------------------------------------------------
(* The process sends.                                                      *)

(* What is sent comes after what has not been read.                        *)
LEMMA SentAfter ==
  ASSUME NEW p \in Seq(Told), NEW q \in Seq(Told)
  PROVE  /\ p \o q \in Seq(Told)
         /\ \A x : Has(p \o q, x) => Has(p, x) \/ Has(q, x)
         /\ Once(p) /\ Once(q) /\ (~Has(p, Ack) \/ ~Has(q, Ack)) => Once(p \o q)
<1>1. /\ p \o q \in Seq(Told)
      /\ \A k \in 1 .. Len(p \o q) :
           \/ k \in 1 .. Len(p) /\ (p \o q)[k] = p[k]
           \/ k - Len(p) \in 1 .. Len(q) /\ (p \o q)[k] = q[k - Len(p)]
  OBVIOUS
<1>2. \A x : Has(p \o q, x) => Has(p, x) \/ Has(q, x)
  BY <1>1 DEF Has
<1>3. ASSUME Once(p), Once(q), ~Has(p, Ack) \/ ~Has(q, Ack),
             NEW j \in 1 .. Len(p \o q), NEW k \in 1 .. Len(p \o q),
             (p \o q)[j] = Ack, (p \o q)[k] = Ack
      PROVE  j = k
  <2>1. CASE ~Has(p, Ack)
    <3>1. j - Len(p) \in 1 .. Len(q) /\ q[j - Len(p)] = Ack
      BY <1>1, <1>3, <2>1 DEF Has
    <3>2. k - Len(p) \in 1 .. Len(q) /\ q[k - Len(p)] = Ack
      BY <1>1, <1>3, <2>1 DEF Has
    <3>3. j - Len(p) = k - Len(p)
      BY <3>1, <3>2, <1>3 DEF Once
    <3> QED BY <3>3
  <2>2. CASE ~Has(q, Ack)
    <3>1. j \in 1 .. Len(p) /\ p[j] = Ack /\ k \in 1 .. Len(p) /\ p[k] = Ack
      BY <1>1, <1>3, <2>2 DEF Has
    <3> QED BY <3>1, <1>3 DEF Once
  <2> QED BY <1>3, <2>1, <2>2
<1> QED BY <1>1, <1>2, <1>3 DEF Once

(* What is sent completes what has come before it in the same send.        *)
Whole(es) ==
  \A k \in 1 .. Len(es) : es[k] = Done =>
    k >= 3 /\ es[k - 1] = Ack /\ es[k - 2] \in Busy

(* Such a send leaves no completion without what it needs.                 *)
LEMMA SentWhole ==
  ASSUME NEW s \in Supervisor, Completes(s), NEW es \in Seq(Told), Whole(es),
         NEW t, t.events = s.events \o es, t.status = s.status, t.phase = s.phase
  PROVE  Completes(t)
<1> DEFINE n == Len(s.events)
<1>1. s.events \in Seq(Told) /\ n \in Nat
  BY DEF Supervisor
<1>2. /\ Len(t.events) = n + Len(es)
      /\ \A k \in 1 .. n : t.events[k] = s.events[k]
      /\ \A k \in 1 .. Len(es) : t.events[n + k] = es[k]
  BY <1>1
<1> HIDE DEF n
<1>3. ASSUME NEW k \in 1 .. Len(t.events), t.events[k] = Done
      PROVE  \/ k = 1 /\ Expects(t)
             \/ k = 2 /\ t.events[1] = Ack /\ Expects(t)
             \/ k >= 3 /\ t.events[k - 1] = Ack /\ t.events[k - 2] \in Busy
  <2>1. CASE k <= n
    <3>1. k \in 1 .. n /\ s.events[k] = Done
      BY <1>1, <1>2, <1>3, <2>1
    <3>2. \/ k = 1 /\ Expects(s)
          \/ k = 2 /\ s.events[1] = Ack /\ Expects(s)
          \/ k >= 3 /\ s.events[k - 1] = Ack /\ s.events[k - 2] \in Busy
      BY <3>1 DEF Completes, n
    <3>3. CASE k = 1
      BY <3>2, <3>3 DEF Expects
    <3>4. CASE k = 2
      <4>1. 1 \in 1 .. n
        BY <1>1, <3>1
      <4>2. t.events[1] = s.events[1]
        BY <4>1, <1>2
      <4> QED BY <3>2, <3>4, <4>2 DEF Expects
    <3>5. CASE k >= 3
      <4>1. k - 1 \in 1 .. n /\ k - 2 \in 1 .. n
        BY <1>1, <3>1, <3>5
      <4>2. t.events[k - 1] = s.events[k - 1] /\ t.events[k - 2] = s.events[k - 2]
        BY <4>1, <1>2
      <4> QED BY <3>2, <3>5, <4>2
    <3>6. k = 1 \/ k = 2 \/ k >= 3
      BY <1>1, <3>1
    <3> QED BY <3>3, <3>4, <3>5, <3>6
  <2>2. CASE k > n
    <3> DEFINE m == k - n
    <3>1. m \in 1 .. Len(es) /\ k = n + m
      BY <1>1, <1>2, <2>2
    <3> HIDE DEF m
    <3>2. m >= 3 /\ es[m - 1] = Ack /\ es[m - 2] \in Busy
      BY <3>1, <1>2, <1>3 DEF Whole
    <3>3. m - 1 \in 1 .. Len(es) /\ m - 2 \in 1 .. Len(es)
          /\ n + (m - 1) = k - 1 /\ n + (m - 2) = k - 2 /\ k >= 3
      BY <1>1, <3>1, <3>2
    <3>4. t.events[n + (m - 1)] = es[m - 1] /\ t.events[n + (m - 2)] = es[m - 2]
      BY <1>2, <3>3
    <3>5. t.events[k - 1] = Ack /\ t.events[k - 2] \in Busy
      <4>1. t.events[k - 1] = es[m - 1]
        BY <3>3, <3>4
      <4>2. t.events[k - 2] = es[m - 2]
        BY <3>3, <3>4
      <4> QED BY <3>2, <4>1, <4>2
    <3> QED BY <3>3, <3>5
  <2>3. k <= n \/ k > n
    BY <1>1
  <2> QED BY <2>1, <2>2, <2>3
<1> QED BY <1>3 DEF Completes

(* A send, unless the channel has been closed.                             *)
LEMMA Sends ==
  ASSUME NEW s \in Supervisor, NEW es \in Seq(Told), s.phase # "ended"
  PROVE  LET u == Send(s, es) IN
         /\ u \in Supervisor /\ u.events = s.events \o es
         /\ u.status = s.status /\ u.phase = s.phase /\ u.forwarding = s.forwarding
         /\ u.pending = s.pending /\ u.proc = s.proc /\ u.tasks = s.tasks
         /\ u.group = s.group
<1> DEFINE u == [s EXCEPT !.events = @ \o es]
<1>1. s.events \o es \in Seq(Told)
  BY DEF Supervisor
<1>2. Send(s, es) = u
  BY DEF Send
<1>3. u \in Supervisor
  BY <1>1 DEF Supervisor
<1>4. /\ u.events = s.events \o es
      /\ u.status = s.status /\ u.phase = s.phase /\ u.forwarding = s.forwarding
      /\ u.pending = s.pending /\ u.proc = s.proc /\ u.tasks = s.tasks
      /\ u.group = s.group
  BY DEF Supervisor
<1> HIDE DEF u
<1> QED BY <1>2, <1>3, <1>4

(* An exception is reported, and the process is gone.                      *)
LEMMA RaiseKeeps ==
  ASSUME NEW s \in Supervisor, SupOK(s)
  PROVE  Keeps(s, Raise(s))
<1>1. CASE s.phase = "ended"
  <2>1. Raise(s) = Dead(s)
    BY <1>1 DEF Raise, Send
  <2> QED BY <2>1, DeadKeeps
<1>2. CASE s.phase # "ended"
  <2> DEFINE es == << "RunnerTerminationError" >>
             u == Send(s, es)
             t == Dead(u)
  <2>1. es \in Seq(Told) /\ Once(es) /\ \A x : Has(es, x) => x = "RunnerTerminationError"
    BY DEF Told, EndMarks, Once, Has
  <2> HIDE DEF es
  <2>2. /\ u \in Supervisor /\ u.events = s.events \o es
        /\ u.status = s.status /\ u.phase = s.phase /\ u.forwarding = s.forwarding
        /\ u.pending = s.pending /\ u.proc = s.proc /\ u.tasks = s.tasks
    BY <1>2, <2>1, Sends
  <2> HIDE DEF u
  <2>3. /\ t \in Supervisor
        /\ t.proc = "dead" /\ t.events = u.events /\ t.tasks = u.tasks
        /\ t.status = u.status
        /\ t.phase = u.phase /\ t.forwarding = u.forwarding /\ t.pending = u.pending
    BY <2>2 DEF Dead, Supervisor, Procs
  <2> HIDE DEF t
  <2>4. s.events \in Seq(Told)
    BY DEF Supervisor
  <2>5. \A x : Tells(t, x) => Tells(s, x) \/ x = "RunnerTerminationError"
    BY <2>1, <2>2, <2>3, <2>4, SentAfter DEF Tells
  <2>6. Once(s.events) => Once(t.events)
    BY <2>1, <2>2, <2>3, <2>4, SentAfter DEF Ack
  <2>7. ~Lives(t)
    BY <2>3 DEF Lives
  <2>8. SupOK(t)
    <3>1. t.status = s.status /\ t.events = s.events \o es
      BY <2>2, <2>3
    <3>2. Whole(es)
      BY <2>1 DEF Done, Whole, Has
    <3>3. t.forwarding => Completes(t)
      BY <2>1, <2>2, <2>3, <3>1, <3>2, SentWhole DEF SupOK
    <3> QED BY <2>2, <2>3, <2>7, <3>3 DEF SupOK
  <2>9. CurOK(s) => CurOK(t)
    BY <2>2, <2>3, <2>5, <2>6, <2>7 DEF CurOK, Ack
  <2>10. Raise(s) = t
    BY DEF Raise, t, u, es
  <2> QED BY <2>2, <2>3, <2>8, <2>9, <2>10 DEF Keeps, KilledOK
<1> QED BY <1>1, <1>2

(* Runner.__init__.                                                        *)
LEMMA StartKeeps ==
  ASSUME NEW s \in Supervisor, SupOK(s), s.proc = "starting", s.phase = "running"
  PROVE  Keeps(s, Start(s))
<1> DEFINE es == << "Idle" >>
           u == Send(s, es)
           t == [u EXCEPT !.proc = "Idle"]
<1>1. es \in Seq(Told) /\ Once(es) /\ \A x : Has(es, x) => x = "Idle"
  BY DEF Told, Statuses, Once, Has
<1>2. << >> \o es = << "Idle" >>
  OBVIOUS
<1> HIDE DEF es
<1>3. /\ u \in Supervisor /\ u.events = s.events \o es
      /\ u.status = s.status /\ u.phase = s.phase /\ u.forwarding = s.forwarding
      /\ u.pending = s.pending /\ u.proc = s.proc /\ u.tasks = s.tasks
  BY <1>1, Sends
<1> HIDE DEF u
<1>4. /\ t \in Supervisor
      /\ t.proc = "Idle" /\ t.events = u.events /\ t.tasks = u.tasks
      /\ t.status = u.status
      /\ t.phase = u.phase /\ t.forwarding = u.forwarding /\ t.pending = u.pending
  BY <1>3 DEF Supervisor, Procs, Statuses
<1> HIDE DEF t
<1>5. s.events \in Seq(Told)
  BY DEF Supervisor
<1>6. \A x : Tells(t, x) => Tells(s, x) \/ x = "Idle"
  BY <1>1, <1>3, <1>4, <1>5, SentAfter DEF Tells
<1>7. Once(s.events) => Once(t.events)
  BY <1>1, <1>3, <1>4, <1>5, SentAfter DEF Ack
<1>8. SupOK(t)
  <2>1. Flow(s) /\ Lives(s)
    BY DEF SupOK, Lives
  <2>2. s.events = << >> /\ s.status = "Idle"
    BY <2>1, Afters DEF Flow, Starting, Started, Working, Finished, Ops
  <2>3. Flow(t)
    BY <2>2, <1>2, <1>3, <1>4 DEF Flow, Started, es
  <2>4. Completes(t)
    <3>1. ~Tells(t, Done)
      BY <1>6, <2>2 DEF Tells, Has, Done
    <3> QED BY <3>1, NoneToComplete
  <2>5. \A e \in EndMarks : ~Tells(t, e)
    BY <2>1, <1>6 DEF SupOK, EndMarks
  <2> QED BY <1>3, <1>4, <2>3, <2>4, <2>5 DEF SupOK
<1>9. ASSUME CurOK(s) PROVE CurOK(t)
  <2>1. Asked(s)
    BY <1>9 DEF CurOK, Lives
  <2>2. Asked(t)
    BY <2>1, <1>3, <1>4 DEF Asked, Takes
  <2> QED BY <1>9, <2>2, <1>3, <1>4, <1>6, <1>7 DEF CurOK, Ack
<1>10. Start(s) = t
  BY DEF Start, t, u, es
<1> QED BY <1>3, <1>4, <1>8, <1>9, <1>10 DEF Keeps, KilledOK

(* handle_first_task.                                                      *)
LEMMA TakeTaskKeeps ==
  ASSUME NEW s \in Supervisor, SupOK(s), CurOK(s) \/ KilledOK(s),
         AwaitsTask(s), s.tasks # << >>
  PROVE  Keeps(s, TakeTask(s))
<1> DEFINE task == Head(s.tasks)
           v == [s EXCEPT !.tasks = Tail(@)]
<1>1. /\ task \in TaskNames /\ s.tasks = << task >> /\ Tail(s.tasks) = << >>
      /\ s.phase # "ended" /\ s.events \in Seq(Told) /\ Lives(s)
  <2>1. PICK n \in TaskNames : s.tasks = << n >>
    BY DEF Supervisor
  <2>2. Head(<< n >>) = n /\ Tail(<< n >>) = << >>
    OBVIOUS
  <2>3. s.phase # "ended" /\ s.events \in Seq(Told) /\ Lives(s)
    BY DEF Supervisor, SupOK, AwaitsTask, Lives
  <2> QED BY <2>1, <2>2, <2>3
<1>2. /\ v \in Supervisor /\ v.tasks = << >> /\ v.phase # "ended"
      /\ v.status = s.status /\ v.phase = s.phase /\ v.forwarding = s.forwarding
      /\ v.pending = s.pending /\ v.proc = s.proc /\ v.events = s.events
  BY <1>1 DEF Supervisor
<1> HIDE DEF v, task
<1>3. CASE task = "Shutdown"
  <2> DEFINE es == << "ShuttingDown", Ack, Done, "Shutdown", "EndOfStream" >>
             u == Send(v, es)
             t == [u EXCEPT !.proc = "exited"]
  <2>1. es \in Seq(Told) /\ Whole(es)
    <3>1. es \in Seq(Told)
      BY DEF Told, Statuses, EndMarks
    <3>2. Len(es) = 5 /\ es[1] = "ShuttingDown" /\ es[2] = Ack /\ es[3] = Done
          /\ es[4] # Done /\ es[5] # Done /\ es[1] # Done /\ es[2] # Done
      BY DEF Ack, Done
    <3> HIDE DEF es
    <3>3. \A k \in 1 .. Len(es) : es[k] = Done => k = 3
      <4>1. \A k \in 1 .. Len(es) : k \in {1, 2, 3, 4, 5}
        BY <3>2
      <4> QED BY <3>2, <4>1
    <3>4. 3 - 1 = 2 /\ 3 - 2 = 1 /\ 3 >= 3
      OBVIOUS
    <3> QED BY <3>1, <3>2, <3>3, <3>4 DEF Whole, Busy
  <2>2. TakeTask(s) = t
    BY <1>3 DEF TakeTask, task, v, Ack, Done
  <2> HIDE DEF es
  <2>3. /\ u \in Supervisor /\ u.tasks = << >> /\ u.phase = s.phase
        /\ u.pending = s.pending /\ u.status = s.status
        /\ u.forwarding = s.forwarding /\ u.events = s.events \o es
    <3>1. u \in Supervisor /\ u.tasks = v.tasks /\ u.phase = v.phase
          /\ u.pending = v.pending /\ u.status = v.status
          /\ u.forwarding = v.forwarding /\ u.events = v.events \o es
      BY <1>2, <2>1, Sends
    <3> HIDE DEF u
    <3> QED BY <1>2, <3>1
  <2> HIDE DEF u
  <2>4. /\ t \in Supervisor /\ t.proc = "exited" /\ t.tasks = << >>
        /\ t.phase = s.phase /\ t.pending = s.pending /\ t.status = s.status
        /\ t.forwarding = s.forwarding /\ t.events = s.events \o es
    BY <2>3 DEF Supervisor, Procs
  <2> HIDE DEF t
  <2>5. SupOK(t)
    <3>1. t.forwarding => Completes(t)
      BY <2>1, <2>4, SentWhole DEF SupOK
    <3>2. ~Lives(t)
      BY <2>4 DEF Lives
    <3> QED BY <1>1, <2>4, <3>1, <3>2 DEF SupOK
  <2>6. ~CurOK(s)
    BY <1>1, <1>3 DEF CurOK
  <2> QED BY <2>2, <2>4, <2>5, <2>6 DEF Keeps, KilledOK
<1>4. CASE task # "Shutdown" /\ Takes(s, task)
  <2> DEFINE op == During[task]
             es == << op, Ack >>
             u == Send(v, es)
             t == [u EXCEPT !.proc = op]
  <2>1. task \in {"ConnectToGroup", "LoadModel", "StartWarmup"}
        /\ op \in Ops /\ op \in Statuses
    BY <1>1, <1>4 DEF TaskNames, During, Ops, Statuses
  <2>2. TakeTask(s) = t
    BY <1>4 DEF TakeTask, task, v, Ack, Takes
  <2> HIDE DEF op
  <2>3. /\ es \in Seq(Told) /\ Once(es)
        /\ \A x : Has(es, x) => x \in {op, Ack}
    <3>1. es \in Seq(Told)
      BY <2>1 DEF Told
    <3>2. op # Ack
      BY <2>1 DEF Ops, Ack
    <3>3. Once(es)
      BY <3>2 DEF Once
    <3> QED BY <3>1, <3>3 DEF Has
  <2>4. Tail(<< op, Ack >>) = << Ack >>
    OBVIOUS
  <2>5. /\ s.events = << >> => s.events \o es = << op, Ack >>
        /\ s.events = << "Idle" >> => s.events \o es = << "Idle", op, Ack >>
    <3>1. "Idle" \in Told /\ op \in Told /\ Ack \in Told
      BY <2>1 DEF Told, Statuses
    <3>2. << >> \o es = << op, Ack >> /\ << "Idle" >> \o es = << "Idle", op, Ack >>
      BY <3>1, OneAndTwo
    <3> HIDE DEF es
    <3> QED BY <3>2
  <2> HIDE DEF es
  <2>6. /\ u \in Supervisor /\ u.tasks = << >> /\ u.phase = s.phase
        /\ u.pending = s.pending /\ u.status = s.status
        /\ u.forwarding = s.forwarding /\ u.events = s.events \o es
    <3>1. u \in Supervisor /\ u.tasks = v.tasks /\ u.phase = v.phase
          /\ u.pending = v.pending /\ u.status = v.status
          /\ u.forwarding = v.forwarding /\ u.events = v.events \o es
      BY <1>2, <2>3, Sends
    <3> HIDE DEF u
    <3> QED BY <1>2, <3>1
  <2> HIDE DEF u
  <2>7. /\ t \in Supervisor /\ t.proc = op /\ t.tasks = << >>
        /\ t.phase = s.phase /\ t.pending = s.pending /\ t.status = s.status
        /\ t.forwarding = s.forwarding /\ t.events = s.events \o es
    BY <2>1, <2>6 DEF Supervisor, Procs
  <2> HIDE DEF t
  <2>8. \A x : Tells(t, x) => Tells(s, x) \/ x \in {op, Ack}
    BY <1>1, <2>3, <2>7, SentAfter DEF Tells
  <2>9. Lives(t) /\ \A e \in EndMarks : e \notin {op, Ack}
    BY <2>1, <2>7 DEF Lives, Ops, EndMarks, Ack
  <2>10. CurOK(s)
    BY <1>1, <1>4 DEF KilledOK
  <2>11. Flow(s) /\ Asked(s)
    BY <1>1, <2>10 DEF CurOK, SupOK
  <2>12. s.events \in {<< >>, << "Idle" >>}
    <3>1. s.proc = "Idle" \/ s.events = << >>
      BY <1>1, <2>11 DEF Asked, AwaitsTask
    <3>2. CASE s.proc = "Idle"
      <4>1. Started(s)
        BY <2>11, <3>2, Afters DEF Flow, Starting, Working, Finished, Ops
      <4> QED BY <4>1 DEF Started
    <3> QED BY <3>1, <3>2
  <2>13. Working(t)
    BY <2>1, <2>5, <2>7, <2>12 DEF Working
  <2>14. SupOK(t)
    <3>1. \A e \in EndMarks : ~Tells(t, e)
      BY <1>1, <2>8, <2>9 DEF SupOK
    <3>2. ~Tells(t, Done)
      <4>1. ~Tells(s, Done)
        BY <2>12 DEF Tells, Has, Done
      <4> QED BY <4>1, <2>1, <2>8 DEF Ops, Ack, Done
    <3>3. Completes(t)
      BY <3>2, NoneToComplete
    <3>4. Flow(t)
      BY <2>13 DEF Flow
    <3> QED BY <1>1, <2>7, <3>1, <3>3, <3>4, <2>9 DEF SupOK
  <2>15. CurOK(t)
    <3>1. s.pending /\ ~Tells(s, Ack)
      BY <1>1, <2>10 DEF CurOK
    <3>2. Once(t.events)
      BY <1>1, <2>3, <2>7, <2>10, <3>1, SentAfter DEF CurOK, Tells
    <3>3. ~Tells(t, "EndOfStream")
      BY <2>8, <2>9, <2>10 DEF CurOK, EndMarks
    <3>4. Asked(t)
      BY <2>7 DEF Asked
    <3> QED BY <2>7, <3>1, <3>2, <3>3, <3>4 DEF CurOK
  <2> QED BY <1>1, <1>4, <2>2, <2>7, <2>14, <2>15 DEF Keeps, KilledOK
<1>5. ASSUME task # "Shutdown", ~Takes(s, task) PROVE FALSE
  <2>1. CurOK(s)
    BY <1>1, <1>5 DEF KilledOK
  <2>2. Asked(s) /\ s.proc # "starting"
    BY <1>1, <2>1 DEF CurOK, AwaitsTask
  <2> QED BY <1>1, <1>5, <2>2 DEF Asked, task
<1> QED BY <1>3, <1>4, <1>5

(* A queue that ends with a completion and the status after it.            *)
LEMMA CompletesFinished ==
  ASSUME NEW t, NEW op \in Ops, NEW to \in {"Connected", "Loaded", "Ready"},
         \/ t.events \in {<< "Idle", op, Ack, Done, to >>, << op, Ack, Done, to >>}
         \/ t.events \in {<< Ack, Done, to >>, << Done, to >>} /\ t.status = op
  PROVE  Completes(t)
<1>1. op \in Busy /\ op # Done /\ Ack # Done /\ to # Done /\ "Idle" # Done
  BY DEF Ops, Busy, Ack, Done
<1>2. CASE t.events = << "Idle", op, Ack, Done, to >>
  BY <1>1, <1>2 DEF Completes
<1>3. CASE t.events = << op, Ack, Done, to >>
  BY <1>1, <1>3 DEF Completes
<1>4. CASE t.events = << Ack, Done, to >> /\ t.status = op
  BY <1>1, <1>4 DEF Completes, Expects
<1>5. CASE t.events = << Done, to >> /\ t.status = op
  BY <1>1, <1>5 DEF Completes, Expects
<1> QED BY <1>2, <1>3, <1>4, <1>5

(* The collective operation has ended.                                     *)
LEMMA FinishKeeps ==
  ASSUME NEW s \in Supervisor, SupOK(s), s.proc \in Ops, NEW g \in [Ranks -> Nat]
  PROVE  Keeps(s, Finish(s, g))
<1>1. CASE s.phase = "ended"
  BY <1>1, DeadKeeps DEF Finish
<1>2. CASE s.phase # "ended"
  <2> DEFINE op == s.proc
             to == After[op]
             es == << Done, to >>
             u == Send(s, es)
             t == [u EXCEPT !.proc = to, !.group = g]
  <2>1. op \in Ops /\ to \in {"Connected", "Loaded", "Ready"}
    BY Afters
  <2>2. Finish(s, g) = t
    BY <1>2 DEF Finish, Done
  <2>3. s.events \in Seq(Told) /\ Lives(s)
    BY DEF Supervisor, Lives, Ops
  <2> HIDE DEF to
  <2>4. /\ es \in Seq(Told) /\ Once(es) /\ ~Has(es, Ack)
        /\ \A x : Has(es, x) => x \in {Done, to}
    <3>1. es \in Seq(Told)
      BY <2>1 DEF Told, Statuses
    <3>2. to # Ack /\ Done # Ack
      BY <2>1 DEF Ack, Done
    <3>3. \A x : Has(es, x) => x \in {Done, to}
      BY DEF Has
    <3>4. ~Has(es, Ack)
      BY <3>2, <3>3
    <3> QED BY <3>1, <3>3, <3>4 DEF Once, Has
  <2>5. /\ << >> \o es = << Done, to >>
        /\ << Ack >> \o es = << Ack, Done, to >>
        /\ << op, Ack >> \o es = << op, Ack, Done, to >>
        /\ << "Idle", op, Ack >> \o es = << "Idle", op, Ack, Done, to >>
    <3>1. "Idle" \in Told /\ op \in Told /\ to \in Told /\ Ack \in Told /\ Done \in Told
      BY <2>1 DEF Told, Statuses, Ops
    <3> QED BY <3>1, OneAndTwo, TwoAndTwo, ThreeAndTwo
  <2> HIDE DEF es
  <2>6. /\ u \in Supervisor /\ u.events = s.events \o es
        /\ u.status = s.status /\ u.phase = s.phase /\ u.forwarding = s.forwarding
        /\ u.pending = s.pending /\ u.tasks = s.tasks
    BY <1>2, <2>4, Sends
  <2> HIDE DEF u
  <2>7. /\ t \in Supervisor /\ t.proc = to /\ t.events = s.events \o es
        /\ t.status = s.status /\ t.phase = s.phase /\ t.forwarding = s.forwarding
        /\ t.pending = s.pending /\ t.tasks = s.tasks
    <3>1. t = [u EXCEPT !.proc = to, !.group = g] /\ to \in Procs
      BY <2>1 DEF Procs, Statuses
    <3> HIDE DEF t
    <3>2. t \in Supervisor /\ t.proc = to
      BY <2>6, <3>1 DEF Supervisor
    <3>3. /\ t.events = u.events /\ t.status = u.status /\ t.phase = u.phase
          /\ t.forwarding = u.forwarding /\ t.pending = u.pending /\ t.tasks = u.tasks
      BY <2>6, <3>1 DEF Supervisor
    <3> QED BY <2>6, <3>2, <3>3
  <2> HIDE DEF t
  <2>8. \A x : Tells(t, x) => Tells(s, x) \/ x \in {Done, to}
    BY <2>3, <2>4, <2>7, SentAfter DEF Tells
  <2>9. \A e \in EndMarks : e \notin {Done, to}
    BY <2>1 DEF EndMarks, Done
  <2>10. Ack \notin {Done, to}
    BY <2>1 DEF Ack, Done
  <2>11. SupOK(t)
    <3>1. Working(s)
      BY <1>2, <2>1, <2>3, Afters DEF SupOK, Flow, Starting, Started, Finished, Ops
    <3>2. Finished(t) /\ Completes(t)
      <4>1. CASE s.events = << "Idle", op, Ack >>
        <5>1. t.events = << "Idle", op, Ack, Done, t.proc >>
          BY <4>1, <2>5, <2>7
        <5>2. Finished(t)
          BY <5>1, <4>1, <2>1, <2>7 DEF Finished, to
        <5>3. Completes(t)
          BY <5>1, <4>1, <2>1, <2>7, CompletesFinished
        <5> QED BY <5>2, <5>3
      <4>2. CASE s.events = << op, Ack >>
        <5>1. t.events = << op, Ack, Done, t.proc >>
          BY <4>2, <2>5, <2>7
        <5>2. Finished(t)
          BY <5>1, <4>2, <2>1, <2>7 DEF Finished, to
        <5>3. Completes(t)
          BY <5>1, <4>2, <2>1, <2>7, CompletesFinished
        <5> QED BY <5>2, <5>3
      <4>3. CASE s.events = << Ack >> /\ s.status = op
        <5>1. t.events = << Ack, Done, t.proc >>
          BY <4>3, <2>5, <2>7
        <5>2. Finished(t)
          BY <5>1, <4>3, <2>1, <2>7 DEF Finished, to
        <5>3. Completes(t)
          BY <5>1, <4>3, <2>1, <2>7, CompletesFinished
        <5> QED BY <5>2, <5>3
      <4>4. CASE s.events = << >> /\ s.status = op
        <5>1. t.events = << Done, t.proc >>
          BY <4>4, <2>5, <2>7
        <5>2. Finished(t)
          BY <5>1, <4>4, <2>1, <2>7 DEF Finished, to
        <5>3. Completes(t)
          BY <5>1, <4>4, <2>1, <2>7, CompletesFinished
        <5> QED BY <5>2, <5>3
      <4> QED BY <3>1, <4>1, <4>2, <4>3, <4>4 DEF Working
    <3>3. Flow(t)
      BY <3>2 DEF Flow
    <3>4. \A e \in EndMarks : ~Tells(t, e)
      BY <2>3, <2>8, <2>9 DEF SupOK
    <3> QED BY <1>2, <2>3, <2>7, <3>2, <3>3, <3>4 DEF SupOK
  <2>12. ASSUME CurOK(s) PROVE CurOK(t)
    <3>1. Asked(s)
      BY <1>2, <2>3, <2>12 DEF CurOK
    <3>2. s.tasks = << >>
      BY <2>1, <2>12, <3>1 DEF CurOK, Asked, Takes, TaskNames, Ops, Supervisor
    <3>3. Asked(t)
      BY <2>7, <3>2 DEF Asked
    <3>4. Once(t.events)
      BY <2>3, <2>4, <2>7, <2>12, SentAfter DEF CurOK
    <3>5. ~Tells(t, "EndOfStream")
      BY <2>8, <2>9, <2>12 DEF CurOK, EndMarks
    <3>6. Tells(t, Ack) => Tells(s, Ack)
      BY <2>8, <2>10
    <3> QED BY <2>7, <2>12, <3>2, <3>3, <3>4, <3>5, <3>6 DEF CurOK
  <2> QED BY <2>2, <2>7, <2>11, <2>12 DEF Keeps, KilledOK
<1> QED BY <1>1, <1>2

-----------------------------------------------------------------------------
(* plan() and start_task.                                                  *)

(* What the plan asks of a runner with this status.                        *)
Suits(task, status) ==
  \/ task = "ConnectToGroup" /\ status = "Idle"
  \/ task = "LoadModel" /\ status \in {"Idle", "Connected"}
  \/ task = "StartWarmup" /\ status = "Loaded"

(* A task is sent to a runner for which none is under way.                 *)
LEMMA Asking ==
  ASSUME NEW s \in Supervisor, NEW task \in TaskNames, s.phase # "ended", s.tasks = << >>
  PROVE  LET t == StartTask(s, task) IN
         /\ t \in Supervisor /\ t.tasks = << task >> /\ t.pending
         /\ t.events = s.events /\ t.status = s.status /\ t.phase = s.phase
         /\ t.forwarding = s.forwarding /\ t.proc = s.proc
<1> DEFINE t == [s EXCEPT !.pending = TRUE, !.tasks = Append(@, task)]
<1>1. StartTask(s, task) = t
  BY DEF StartTask
<1>2. Append(s.tasks, task) = << task >>
  OBVIOUS
<1>3. t \in Supervisor
  BY <1>2 DEF Supervisor
<1>4. /\ t.tasks = << task >> /\ t.pending
      /\ t.events = s.events /\ t.status = s.status /\ t.phase = s.phase
      /\ t.forwarding = s.forwarding /\ t.proc = s.proc
  BY <1>2 DEF Supervisor
<1> HIDE DEF t
<1> QED BY <1>1, <1>3, <1>4

(* The last task has been acknowledged, so that what the supervisor still  *)
(* has to read does not lead away from the status it knows: the task suits *)
(* the process as it suits the status.                                     *)
LEMMA AskedInTime ==
  ASSUME NEW s \in Supervisor, SupOK(s), CurOK(s), ~s.pending,
         NEW task \in DOMAIN During, Suits(task, s.status)
  PROVE  LET t == StartTask(s, task) IN
         t \in Supervisor /\ SupOK(t) /\ CurOK(t)
<1> DEFINE t == StartTask(s, task)
<1>1. task \in TaskNames /\ task # "Shutdown" /\ s.tasks = << >> /\ ~Tells(s, Ack)
  BY DEF During, TaskNames, CurOK
<1>2. CASE s.phase = "ended"
  BY <1>2 DEF StartTask
<1>3. CASE s.phase # "ended"
  <2>1. /\ t \in Supervisor /\ t.tasks = << task >> /\ t.pending
        /\ t.events = s.events /\ t.status = s.status /\ t.phase = s.phase
        /\ t.forwarding = s.forwarding /\ t.proc = s.proc
    BY <1>1, <1>3, Asking
  <2> HIDE DEF t
  <2>2. SupOK(t)
    BY <1>3, <2>1, Alike DEF SupOK, Lives
  <2>3. t.tasks # << >> /\ Head(t.tasks) = task
    BY <2>1
  <2>4. ASSUME Lives(t) PROVE Asked(t)
    <3>1. Flow(s)
      BY <1>3, <2>1, <2>4 DEF SupOK, Lives
    <3>2. CASE Starting(s)
      BY <3>2, <2>1, <2>3 DEF Starting, Asked, Suits
    <3>3. CASE Started(s)
      BY <3>3, <2>1, <2>3 DEF Started, Asked, Suits, Takes
    <3>4. ASSUME Working(s) PROVE FALSE
      <4>1. s.events = << >>
        <5>1. ASSUME s.events = << "Idle", s.proc, Ack >> PROVE FALSE
          <6>1. 3 \in 1 .. Len(s.events) /\ s.events[3] = Ack
            BY <5>1
          <6> QED BY <1>1, <6>1 DEF Tells, Has
        <5>2. ASSUME s.events = << s.proc, Ack >> PROVE FALSE
          <6>1. 2 \in 1 .. Len(s.events) /\ s.events[2] = Ack
            BY <5>2
          <6> QED BY <1>1, <6>1 DEF Tells, Has
        <5>3. ASSUME s.events = << Ack >> PROVE FALSE
          <6>1. 1 \in 1 .. Len(s.events) /\ s.events[1] = Ack
            BY <5>3
          <6> QED BY <1>1, <6>1 DEF Tells, Has
        <5> QED BY <3>4, <5>1, <5>2, <5>3 DEF Working
      <4>2. s.status = s.proc /\ s.proc \in Ops
        BY <4>1, <3>4 DEF Working
      <4> QED BY <4>2 DEF Suits, Ops
    <3>5. CASE Finished(s)
      <4>1. PICK op \in Ops :
              /\ s.proc = After[op]
              /\ \/ s.events \in {<< "Idle", op, Ack, Done, s.proc >>,
                                  << op, Ack, Done, s.proc >>}
                 \/ /\ s.events \in {<< Ack, Done, s.proc >>, << Done, s.proc >>,
                                     << s.proc >>}
                    /\ s.status = op
                 \/ s.events = << >> /\ s.status = s.proc
        BY <3>5 DEF Finished
      <4>2. s.status # op
        BY <4>1 DEF Suits, Ops
      <4>3. s.events # << "Idle", op, Ack, Done, s.proc >>
        BY <1>1 DEF Tells, Has
      <4>4. s.events # << op, Ack, Done, s.proc >>
        BY <1>1 DEF Tells, Has
      <4>5. s.events = << >> /\ s.status = s.proc
        BY <4>1, <4>2, <4>3, <4>4
      <4>6. s.proc \in {"Connected", "Loaded", "Ready"}
        BY <4>1, Afters
      <4> QED BY <4>5, <4>6, <2>1, <2>3 DEF Asked, Suits, Takes
    <3> QED BY <3>1, <3>2, <3>3, <3>4, <3>5 DEF Flow
  <2>5. CurOK(t)
    BY <1>1, <2>1, <2>3, <2>4 DEF CurOK, Tells
  <2> QED BY <2>1, <2>2, <2>5 DEF t
<1> QED BY <1>2, <1>3

(* The last task of a runner is to shut down.                              *)
LEMMA AskedToShutDown ==
  ASSUME NEW s \in Supervisor, SupOK(s), CurOK(s), ~s.pending
  PROVE  LET t == StartTask(s, "Shutdown") IN
         t \in Supervisor /\ SupOK(t) /\ KilledOK(t)
<1> DEFINE t == StartTask(s, "Shutdown")
<1>1. s.tasks = << >>
  BY DEF CurOK
<1>2. CASE s.phase = "ended"
  BY <1>1, <1>2 DEF StartTask, KilledOK
<1>3. CASE s.phase # "ended"
  <2>1. /\ t \in Supervisor /\ t.tasks = << "Shutdown" >> /\ t.pending
        /\ t.events = s.events /\ t.status = s.status /\ t.phase = s.phase
        /\ t.forwarding = s.forwarding /\ t.proc = s.proc
    BY <1>1, <1>3, Asking DEF TaskNames
  <2> HIDE DEF t
  <2>2. SupOK(t)
    BY <1>3, <2>1, Alike DEF SupOK, Lives
  <2> QED BY <2>1, <2>2 DEF KilledOK, t
<1> QED BY <1>2, <1>3

-----------------------------------------------------------------------------
(* The supervisors of a rank.                                              *)

(* A supervisor, when it is made.                                          *)
LEMMA NewOK ==
  NewSupervisor \in Supervisor /\ SupOK(NewSupervisor) /\ CurOK(NewSupervisor)
  /\ ~NewSupervisor.pending
<1>1. << >> \in Seq(Told)
  OBVIOUS
<1>2. NewSupervisor \in Supervisor
  BY <1>1 DEF NewSupervisor, Supervisor, Statuses, Procs
<1>3. \A x : ~Tells(NewSupervisor, x)
  BY DEF NewSupervisor, Tells, Has
<1>4. Flow(NewSupervisor) /\ Asked(NewSupervisor)
  BY DEF Flow, Starting, Asked, NewSupervisor
<1>5. SupOK(NewSupervisor)
  BY <1>3, <1>4, NoneToComplete DEF SupOK, NewSupervisor
<1>6. NewSupervisor.tasks = << >> /\ Once(NewSupervisor.events)
  BY DEF NewSupervisor, Once
<1>7. CurOK(NewSupervisor)
  BY <1>3, <1>4, <1>6 DEF CurOK
<1> QED BY <1>2, <1>5, <1>7 DEF NewSupervisor

(* What is left of one that nobody needs.                                  *)
LEMMA GarbageOK == Garbage \in Supervisor /\ SupOK(Garbage) /\ KilledOK(Garbage)
<1>1. Keeps(NewSupervisor, Dead(NewSupervisor))
  BY NewOK, DeadKeeps
<1>2. Dead(NewSupervisor) \in Supervisor
  BY <1>1 DEF Keeps
<1>3. Keeps(Dead(NewSupervisor), Garbage) /\ Garbage.tasks = << >>
  BY <1>2, EndKeeps DEF Garbage
<1> QED BY <1>3 DEF Keeps, KilledOK

(* One supervisor changes, and perhaps leaves Worker.runners.              *)
LEMMA OneSup ==
  ASSUME Supervised, NEW r \in Ranks, NEW i \in 1 .. Len(sups[r]),
         NEW s \in Supervisor, SupOK(s), Update(r, i, s),
         current' \in [Ranks -> Nat], waits' \in [Ranks -> Nat],
         \A q \in Ranks \ {r} : current'[q] = current[q] /\ waits'[q] = waits[q],
         current'[r] \in {0, Len(sups[r])}, waits'[r] \in 0 .. Len(sups[r]),
         waits'[r] # 0 => current'[r] \in {0, waits'[r]},
         current'[r] = current[r] \/ (current'[r] = 0 /\ current[r] = i),
         IF i = current'[r] THEN CurOK(s) ELSE KilledOK(s),
         waits'[r] = 0 /\ current'[r] = i => ~s.pending,
         waits'[r] = 0 /\ current'[r] # 0 /\ current'[r] # i => waits[r] = 0
  PROVE  Supervised'
<1> DEFINE x == IF i # current'[r] /\ s.phase = "ended" /\ ~Lives(s) THEN Garbage ELSE s
<1>1. x \in Supervisor /\ SupOK(x)
      /\ IF i = current'[r] THEN CurOK(x) /\ x = s ELSE KilledOK(x)
  BY GarbageOK
<1>2. sups' = [sups EXCEPT ![r][i] = x]
  BY DEF Update
<1> HIDE DEF x
<1>3. sups \in [Ranks -> Seq(Supervisor)] /\ sups[r] \in Seq(Supervisor)
  BY DEF Supervised, SupsTyped
<1>4. /\ sups'[r] = [sups[r] EXCEPT ![i] = x]
      /\ \A q \in Ranks \ {r} : sups'[q] = sups[q]
      /\ DOMAIN sups' = Ranks
  BY <1>2, <1>3
<1>5. /\ sups'[r] \in Seq(Supervisor) /\ Len(sups'[r]) = Len(sups[r])
      /\ sups'[r][i] = x
      /\ \A j \in 1 .. Len(sups[r]) : j # i => sups'[r][j] = sups[r][j]
  <2> DEFINE l == [sups[r] EXCEPT ![i] = x]
  <2>1. /\ l \in Seq(Supervisor) /\ Len(l) = Len(sups[r]) /\ l[i] = x
        /\ \A j \in 1 .. Len(sups[r]) : j # i => l[j] = sups[r][j]
    BY <1>1, <1>3
  <2> HIDE DEF l
  <2> QED BY <2>1, <1>4 DEF l
<1>6. SupsTyped'
  <2>1. sups' = [q \in Ranks |-> sups'[q]]
    BY <1>2, <1>3
  <2>2. \A q \in Ranks : sups'[q] \in Seq(Supervisor)
    BY <1>3, <1>4, <1>5
  <2> QED BY <2>1, <2>2 DEF SupsTyped
<1>7. ASSUME NEW q \in Ranks, q # r PROVE RankOK(q)'
  <2>1. sups'[q] = sups[q] /\ current'[q] = current[q] /\ waits'[q] = waits[q]
    BY <1>4, <1>7
  <2>2. RankOK(q)
    BY DEF Supervised
  <2> QED BY <2>1, <2>2 DEF RankOK, Sup
<1>8. RankOK(r)'
  <2>1. RankOK(r)
    BY DEF Supervised
  <2>2. ASSUME waits'[r] = 0, current'[r] # 0 PROVE ~sups'[r][current'[r]].pending
    <3>1. CASE current'[r] = i
      BY <1>1, <1>5, <2>2, <3>1
    <3>2. CASE current'[r] # i
      <4>1. waits[r] = 0 /\ current'[r] = current[r] /\ current[r] \in 1 .. Len(sups[r])
        BY <2>1, <2>2, <3>2, <1>3 DEF RankOK
      <4>2. sups'[r][current'[r]] = sups[r][current[r]]
        BY <4>1, <1>5, <3>2
      <4> QED BY <4>1, <4>2, <2>1, <2>2 DEF RankOK, Sup
    <3> QED BY <3>1, <3>2
  <2>3. ASSUME NEW j \in 1 .. Len(sups'[r])
        PROVE  /\ SupOK(sups'[r][j])
               /\ IF j = current'[r] THEN CurOK(sups'[r][j]) ELSE KilledOK(sups'[r][j])
    <3>1. CASE j = i
      BY <3>1, <1>1, <1>5
    <3>2. CASE j # i
      <4>1. sups'[r][j] = sups[r][j] /\ j \in 1 .. Len(sups[r])
        BY <3>2, <1>5
      <4>2. j = current'[r] <=> j = current[r]
        BY <3>2, <4>1
      <4>3. /\ SupOK(sups[r][j])
            /\ IF j = current[r] THEN CurOK(sups[r][j]) ELSE KilledOK(sups[r][j])
        BY <4>1, <2>1 DEF RankOK
      <4> QED BY <4>1, <4>2, <4>3
    <3> QED BY <3>1, <3>2
  <2> QED BY <2>2, <2>3, <1>5 DEF RankOK, Sup
<1> QED BY <1>6, <1>7, <1>8 DEF Supervised

(* A step of a supervisor or of its process.                               *)
LEMMA KeepingSupervised ==
  ASSUME Supervised, NEW r \in Ranks, NEW i \in 1 .. Len(sups[r]), NEW s,
         Keeping(r, i, s), Keeps(sups[r][i], s)
  PROVE  Supervised'
<1>1. current' = current /\ waits' = waits /\ Update(r, i, s)
  BY DEF Keeping
<1>2. RankOK(r) /\ current \in [Ranks -> Nat] /\ waits \in [Ranks -> Nat]
  BY DEF Supervised, SupsTyped
<1>3. s \in Supervisor /\ SupOK(s)
      /\ (CurOK(sups[r][i]) => CurOK(s)) /\ (KilledOK(sups[r][i]) => KilledOK(s))
      /\ (s.pending => sups[r][i].pending)
  BY DEF Keeps
<1>4. IF i = current'[r] THEN CurOK(s) ELSE KilledOK(s)
  BY <1>1, <1>2, <1>3 DEF RankOK
<1>5. waits'[r] = 0 /\ current'[r] = i => ~s.pending
  BY <1>1, <1>2, <1>3 DEF RankOK, Sup
<1>6. current'[r] \in {0, Len(sups[r])} /\ waits'[r] \in 0 .. Len(sups[r])
      /\ (waits'[r] # 0 => current'[r] \in {0, waits'[r]})
  BY <1>1, <1>2 DEF RankOK
<1> QED BY <1>1, <1>2, <1>3, <1>4, <1>5, <1>6, OneSup

-----------------------------------------------------------------------------
(* The steps.                                                              *)

InboxOK == inbox \in [Ranks -> Seq(Events)]

(* Rank 0 is there.                                                        *)
LEMMA Zero == 0 \in Ranks
  BY LifecycleAssumption DEF Ranks

(* An event reaches everyone.                                              *)
LEMMA PublishTyped ==
  ASSUME Typed, NEW e \in Events, Publish(e)
  PROVE  InboxOK'
  BY DEF Typed, Publish, InboxOK

(* One supervisor takes a step that keeps what is said of it.              *)
LEMMA KeepingInv ==
  ASSUME Inv, NEW r \in Ranks, NEW i \in DOMAIN sups[r], NEW s,
         Keeping(r, i, s), Keeps(sups[r][i], s),
         InboxOK', crashes' \in 0 .. MaxCrashes
  PROVE  Inv'
<1>1. i \in 1 .. Len(sups[r])
  BY DEF Inv, Supervised, SupsTyped
<1>2. Supervised'
  BY <1>1, KeepingSupervised DEF Inv
<1>3. Typed'
  BY DEF Inv, Typed, Keeping, InboxOK
<1> QED BY <1>2, <1>3 DEF Inv

(* What is known of a supervisor of the list.                              *)
LEMMA OneOf ==
  ASSUME Inv, NEW r \in Ranks, NEW i \in DOMAIN sups[r]
  PROVE  /\ i \in 1 .. Len(sups[r]) /\ sups[r][i] \in Supervisor /\ SupOK(sups[r][i])
         /\ CurOK(sups[r][i]) \/ KilledOK(sups[r][i])
         /\ InboxOK /\ crashes \in 0 .. MaxCrashes
<1>1. sups[r] \in Seq(Supervisor) /\ RankOK(r)
  BY DEF Inv, Supervised, SupsTyped
<1>2. i \in 1 .. Len(sups[r]) /\ sups[r][i] \in Supervisor
  BY <1>1
<1>3. SupOK(sups[r][i]) /\ (CurOK(sups[r][i]) \/ KilledOK(sups[r][i]))
  BY <1>1, <1>2 DEF RankOK
<1>4. InboxOK /\ crashes \in 0 .. MaxCrashes
  BY DEF Inv, Typed, InboxOK
<1> QED BY <1>2, <1>3, <1>4

(* Nobody has a runner at first.                                           *)
LEMMA InitInv == Init => Inv
<1> SUFFICES ASSUME Init PROVE Inv
  OBVIOUS
<1>1. << >> \in Seq(Events) /\ << >> \in Seq(Supervisor) /\ Len(<< >>) = 0
  OBVIOUS
<1>2. [instance |-> TRUE, complete |-> Reported,
       runners |-> [p \in Ranks |-> "none"]] \in Views
  BY LifecycleAssumption DEF Views
<1>3. Typed
  <2>1. 0 \in 0 .. MaxRetries /\ 0 \in 0 .. MaxCrashes
    BY LifecycleAssumption
  <2>2. inbox \in [Ranks -> Seq(Events)] /\ view \in [Ranks -> Views]
    BY <1>1, <1>2 DEF Init
  <2>3. attempts \in [Ranks -> 0 .. MaxRetries]
    BY <2>1 DEF Init
  <2> QED BY <2>1, <2>2, <2>3 DEF Init, Typed
<1>4. SupsTyped
  BY <1>1 DEF Init, SupsTyped
<1>5. ASSUME NEW r \in Ranks PROVE RankOK(r)
  BY <1>1 DEF Init, RankOK
<1> QED BY <1>3, <1>4, <1>5 DEF Inv, Supervised

(* Steps that do not touch a supervisor.                                   *)
LEMMA ApplyInv == ASSUME Inv, NEW r \in Ranks, Apply(r) PROVE Inv'
<1>1. Supervised'
  BY DEF Inv, Supervised, SupsTyped, RankOK, Sup, Apply
<1>2. inbox' \in [Ranks -> Seq(Events)] /\ Head(inbox[r]) \in Events
  <2>1. inbox[r] \in Seq(Events) /\ inbox[r] # << >>
    BY DEF Inv, Typed, Apply
  <2>2. Tail(inbox[r]) \in Seq(Events) /\ Head(inbox[r]) \in Events
    BY <2>1
  <2> QED BY <2>2 DEF Inv, Typed, Apply
<1>3. view' \in [Ranks -> Views]
  <2> DEFINE e == Head(inbox[r])
  <2>1. view[r] \in Views /\ view \in [Ranks -> Views]
    BY DEF Inv, Typed
  <2>2. e \in Events
    BY <1>2
  <2> HIDE DEF e
  <2>3. ApplyRunnerStatusUpdated(view[r], e) \in Views
    BY <2>1, <2>2 DEF ApplyRunnerStatusUpdated, Views, Events
  <2>4. ApplyNodeDownloadProgress(view[r], e) \in Views
    BY <2>1, <2>2 DEF ApplyNodeDownloadProgress, Views, Events
  <2>5. ApplyInstanceDeleted(view[r]) \in Views
    BY <2>1 DEF ApplyInstanceDeleted, Views
  <2>6. \/ view' = [view EXCEPT ![r] = ApplyRunnerStatusUpdated(@, e)]
        \/ view' = [view EXCEPT ![r] = ApplyNodeDownloadProgress(@, e)]
        \/ view' = [view EXCEPT ![r] = ApplyInstanceDeleted(@)]
    BY DEF Apply, e
  <2> QED BY <2>1, <2>3, <2>4, <2>5, <2>6
<1>4. attempts' \in [Ranks -> 0 .. MaxRetries]
  <2>1. 0 \in 0 .. MaxRetries
    BY LifecycleAssumption
  <2>2. attempts' = attempts \/ attempts' = [attempts EXCEPT ![r] = 0]
    BY DEF Apply
  <2> QED BY <2>1, <2>2 DEF Inv, Typed
<1>5. Typed'
  BY <1>2, <1>3, <1>4 DEF Inv, Typed, Apply
<1> QED BY <1>1, <1>5 DEF Inv

(* The instance is deleted, by a Worker that gives up or by a user.        *)
LEMMA DeletedInv ==
  ASSUME Inv, NEW r \in Ranks, Publish(Event("deleted", r, "none")), deleted' = TRUE,
         UNCHANGED <<view, sups, current, waits, attempts, download, down, crashes>>
  PROVE  Inv'
<1>1. Event("deleted", r, "none") \in Events
  BY DEF Event, Events
<1>2. InboxOK'
  BY <1>1, PublishTyped DEF Inv
<1>3. Typed'
  BY <1>2 DEF Inv, Typed, InboxOK
<1>4. Supervised'
  BY DEF Inv, Supervised, SupsTyped, RankOK, Sup
<1> QED BY <1>3, <1>4 DEF Inv

(* The model is asked for, or has come.                                    *)
LEMMA DownloadInv ==
  ASSUME Inv, NEW r \in Ranks, DownloadModel(r) \/ Downloaded(r)
  PROVE  Inv'
<1>1. Event("download", r, "completed") \in Events
  BY DEF Event, Events
<1>2. InboxOK'
  BY <1>1, PublishTyped DEF Inv, DownloadModel, Downloaded, Typed, InboxOK
<1>3. download' \in [Ranks -> {"absent", "requested", "reported"}]
  BY DEF Inv, DownloadModel, Downloaded, Typed
<1>4. Typed'
  BY <1>2, <1>3 DEF Inv, Typed, InboxOK, DownloadModel, Downloaded
<1>5. Supervised'
  BY DEF Inv, Supervised, SupsTyped, RankOK, Sup, DownloadModel, Downloaded
<1> QED BY <1>4, <1>5 DEF Inv

(* The Worker may plan again.                                              *)
LEMMA ResumeInv == ASSUME Inv, NEW r \in Ranks, Resume(r) PROVE Inv'
<1>1. Typed'
  BY DEF Inv, Typed, Resume
<1>2. SupsTyped'
  BY DEF Inv, Supervised, SupsTyped, Resume
<1>3. ASSUME NEW q \in Ranks PROVE RankOK(q)'
  <2>1. RankOK(q) /\ waits'[q] = IF q = r THEN 0 ELSE waits[q]
    BY DEF Inv, Supervised, SupsTyped, Resume
  <2>2. sups' = sups /\ current' = current /\ ~Sup(r).pending
    BY DEF Resume
  <2> QED BY <2>1, <2>2 DEF RankOK, Sup, Resume
<1> QED BY <1>1, <1>2, <1>3 DEF Inv, Supervised

(* A new supervisor, with its runner, is the current one.                  *)
LEMMA CreateInv == ASSUME Inv, NEW r \in Ranks, CreateRunner(r) PROVE Inv'
<1>1. sups \in [Ranks -> Seq(Supervisor)] /\ sups[r] \in Seq(Supervisor)
      /\ current \in [Ranks -> Nat] /\ waits \in [Ranks -> Nat] /\ RankOK(r)
      /\ waits[r] = 0 /\ current[r] = 0
  BY DEF Inv, Supervised, SupsTyped, CreateRunner, Planning, MustCreate
<1> DEFINE n == Len(sups[r])
<1>2. /\ sups' = [sups EXCEPT ![r] = Append(@, NewSupervisor)]
      /\ current' = [current EXCEPT ![r] = n + 1]
      /\ attempts' = [attempts EXCEPT ![r] = @ + 1] /\ attempts[r] < MaxRetries
      /\ UNCHANGED <<deleted, inbox, view, waits, download, down, crashes>>
  BY DEF CreateRunner
<1>3. /\ Append(sups[r], NewSupervisor) \in Seq(Supervisor)
      /\ Len(Append(sups[r], NewSupervisor)) = n + 1 /\ n \in Nat
      /\ Append(sups[r], NewSupervisor)[n + 1] = NewSupervisor
      /\ \A i \in 1 .. n : Append(sups[r], NewSupervisor)[i] = sups[r][i]
  BY <1>1, NewOK
<1>4. Typed'
  <2>1. attempts' \in [Ranks -> 0 .. MaxRetries]
    BY <1>2, LifecycleAssumption DEF Inv, Typed
  <2> QED BY <1>2, <2>1 DEF Inv, Typed
<1>5. SupsTyped'
  BY <1>1, <1>2, <1>3 DEF SupsTyped
<1>6. ASSUME NEW q \in Ranks, q # r PROVE RankOK(q)'
  <2>1. sups'[q] = sups[q] /\ current'[q] = current[q] /\ waits'[q] = waits[q]
    BY <1>1, <1>2, <1>6
  <2>2. RankOK(q)
    BY DEF Inv, Supervised
  <2> QED BY <2>1, <2>2 DEF RankOK, Sup
<1>7. RankOK(r)'
  <2>1. /\ sups'[r] = Append(sups[r], NewSupervisor)
        /\ current'[r] = n + 1 /\ waits'[r] = 0
    BY <1>1, <1>2
  <2>2. ASSUME NEW i \in 1 .. Len(sups'[r])
        PROVE  /\ SupOK(sups'[r][i])
               /\ IF i = current'[r] THEN CurOK(sups'[r][i]) ELSE KilledOK(sups'[r][i])
    <3>1. CASE i = n + 1
      BY <3>1, <2>1, <1>3, NewOK
    <3>2. CASE i # n + 1
      <4>1. i \in 1 .. n /\ i # current[r] /\ sups'[r][i] = sups[r][i]
        BY <3>2, <2>1, <1>1, <1>3
      <4>2. SupOK(sups[r][i]) /\ KilledOK(sups[r][i])
        BY <4>1, <1>1 DEF RankOK
      <4> QED BY <4>1, <4>2, <3>2, <2>1
    <3> QED BY <3>1, <3>2
  <2>3. ~sups'[r][current'[r]].pending
    BY <2>1, <1>3, NewOK
  <2> QED BY <2>1, <2>2, <2>3, <1>3 DEF RankOK, Sup
<1> QED BY <1>4, <1>5, <1>6, <1>7 DEF Inv, Supervised

(* A task for the current runner.                                          *)
LEMMA StartTaskInv == ASSUME Inv, NEW r \in Ranks, StartRunnerTask(r) PROVE Inv'
<1>1. RankOK(r) /\ current \in [Ranks -> Nat] /\ waits \in [Ranks -> Nat]
      /\ sups[r] \in Seq(Supervisor)
  BY DEF Inv, Supervised, SupsTyped
<1>2. PICK task \in DOMAIN During :
        /\ \/ task = "ConnectToGroup" /\ MustConnect(r)
           \/ task = "LoadModel" /\ MustLoad(r)
           \/ task = "StartWarmup" /\ MustWarmUp(r)
        /\ Await(r, current[r], task)
  BY DEF StartRunnerTask
<1> DEFINE i == current[r]
           s == sups[r][i]
           t == StartTask(s, task)
<1>3. waits[r] = 0 /\ current' = current /\ i # 0 /\ Suits(task, s.status)
      /\ UNCHANGED <<deleted, inbox, view, attempts, download, down, crashes>>
  BY <1>2 DEF StartRunnerTask, Planning, MustConnect, MustLoad, MustWarmUp,
              HasRunner, Suits, Sup
<1>4. i \in 1 .. Len(sups[r]) /\ i = Len(sups[r])
  BY <1>1, <1>3 DEF RankOK
<1>5. s \in Supervisor /\ SupOK(s) /\ CurOK(s) /\ ~s.pending
  BY <1>1, <1>3, <1>4 DEF RankOK, Sup
<1>6. Update(r, i, t) /\ waits' = [waits EXCEPT ![r] = IF t.pending THEN i ELSE 0]
  BY <1>2 DEF Await
<1> HIDE DEF s
<1>7. t \in Supervisor /\ SupOK(t) /\ CurOK(t)
  BY <1>3, <1>5, AskedInTime
<1> HIDE DEF t, i
<1>8. /\ waits' \in [Ranks -> Nat] /\ waits'[r] = IF t.pending THEN i ELSE 0
      /\ \A q \in Ranks \ {r} : waits'[q] = waits[q]
  BY <1>1, <1>4, <1>6
<1>9. current'[r] = i
  BY <1>3 DEF i
<1>10. current'[r] = current[r] /\ current' \in [Ranks -> Nat]
       /\ \A q \in Ranks \ {r} : current'[q] = current[q]
  BY <1>1, <1>3
<1>11. waits'[r] \in 0 .. Len(sups[r]) /\ current'[r] \in {0, Len(sups[r])}
       /\ (waits'[r] # 0 => current'[r] \in {0, waits'[r]})
  BY <1>4, <1>8, <1>9
<1>12. (waits'[r] = 0 /\ current'[r] = i => ~t.pending)
       /\ (IF i = current'[r] THEN CurOK(t) ELSE KilledOK(t))
  BY <1>3, <1>4, <1>7, <1>8, <1>9
<1>13. Supervised'
  BY <1>3, <1>4, <1>6, <1>7, <1>8, <1>9, <1>10, <1>11, <1>12, OneSup DEF Inv
<1>14. Typed'
  BY <1>3 DEF Inv, Typed
<1> QED BY <1>13, <1>14 DEF Inv

(* The current runner is told to shut down and is no longer the current.   *)
LEMMA KillInv == ASSUME Inv, NEW r \in Ranks, KillRunner(r) PROVE Inv'
<1>1. RankOK(r) /\ current \in [Ranks -> Nat] /\ waits \in [Ranks -> Nat]
      /\ sups[r] \in Seq(Supervisor)
  BY DEF Inv, Supervised, SupsTyped
<1> DEFINE i == current[r]
           s == sups[r][i]
           t == StartTask(s, "Shutdown")
<1>2. waits[r] = 0 /\ current' = [current EXCEPT ![r] = 0] /\ i # 0
      /\ UNCHANGED <<deleted, inbox, view, attempts, download, down, crashes>>
  BY DEF KillRunner, Planning, MustKill
<1>3. i \in 1 .. Len(sups[r])
  BY <1>1, <1>2 DEF RankOK
<1>4. s \in Supervisor /\ SupOK(s) /\ CurOK(s) /\ ~s.pending
  BY <1>1, <1>2, <1>3 DEF RankOK, Sup
<1>5. Update(r, i, t) /\ waits' = [waits EXCEPT ![r] = IF t.pending THEN i ELSE 0]
  BY DEF Await, KillRunner
<1> HIDE DEF s
<1>6. t \in Supervisor /\ SupOK(t) /\ KilledOK(t)
  BY <1>4, AskedToShutDown
<1>7. /\ current' \in [Ranks -> Nat] /\ current'[r] = 0 /\ current[r] = i
      /\ \A q \in Ranks \ {r} : current'[q] = current[q]
  BY <1>1, <1>2
<1> HIDE DEF t, i
<1>8. /\ waits' \in [Ranks -> Nat] /\ waits'[r] \in 0 .. Len(sups[r])
      /\ \A q \in Ranks \ {r} : waits'[q] = waits[q]
  BY <1>1, <1>3, <1>5
<1>9. Supervised'
  BY <1>2, <1>3, <1>5, <1>6, <1>7, <1>8, OneSup DEF Inv
<1>10. Typed'
  BY <1>2 DEF Inv, Typed
<1> QED BY <1>9, <1>10 DEF Inv

(* A runner that has been told to shut down is stopped.                    *)
LEMMA StopInv == ASSUME Inv, NEW r \in Ranks, StopRunner(r) PROVE Inv'
<1>1. RankOK(r) /\ current \in [Ranks -> Nat] /\ waits \in [Ranks -> Nat]
      /\ sups[r] \in Seq(Supervisor)
  BY DEF Inv, Supervised, SupsTyped
<1> DEFINE i == waits[r]
           s == sups[r][i]
           t == ShutDown(s)
<1>2. i \notin {0, current[r]} /\ current' = current /\ waits' = [waits EXCEPT ![r] = 0]
      /\ Update(r, i, t)
      /\ UNCHANGED <<deleted, inbox, view, attempts, download, down, crashes>>
  BY DEF StopRunner
<1>3. i \in 1 .. Len(sups[r]) /\ current[r] = 0
  BY <1>1, <1>2 DEF RankOK
<1>4. s \in Supervisor /\ SupOK(s) /\ KilledOK(s)
  BY <1>1, <1>2, <1>3 DEF RankOK
<1> HIDE DEF s
<1>5. t \in Supervisor /\ SupOK(t) /\ KilledOK(t)
  BY <1>4, ShutDownKeeps
<1> HIDE DEF t, i
<1>6. /\ current' \in [Ranks -> Nat] /\ current'[r] = 0 /\ current[r] = 0
      /\ \A q \in Ranks \ {r} : current'[q] = current[q]
  BY <1>1, <1>2, <1>3
<1>7. /\ waits' \in [Ranks -> Nat] /\ waits'[r] = 0
      /\ \A q \in Ranks \ {r} : waits'[q] = waits[q]
  BY <1>1, <1>2
<1>8. 0 \in 0 .. Len(sups[r])
  BY <1>1
<1>9. Supervised'
  BY <1>2, <1>3, <1>5, <1>6, <1>7, <1>8, OneSup DEF Inv
<1>10. Typed'
  BY <1>2 DEF Inv, Typed
<1> QED BY <1>9, <1>10 DEF Inv

(* Any of the supervisors of a rank may take a step at once.               *)
LEMMA AllKeep ==
  ASSUME NEW r \in Ranks, RankOK(r), sups[r] \in Seq(Supervisor),
         sups'[r] \in Seq(Supervisor), Len(sups'[r]) = Len(sups[r]),
         \A j \in 1 .. Len(sups[r]) : Keeps(sups[r][j], sups'[r][j]),
         current'[r] = current[r],
         \/ waits'[r] = waits[r]
         \/ waits'[r] = 0 /\ \A j \in 1 .. Len(sups[r]) : ~sups'[r][j].pending
  PROVE  RankOK(r)'
<1>1. ASSUME NEW j \in 1 .. Len(sups'[r])
      PROVE  /\ SupOK(sups'[r][j])
             /\ IF j = current'[r] THEN CurOK(sups'[r][j]) ELSE KilledOK(sups'[r][j])
  <2>1. Keeps(sups[r][j], sups'[r][j])
    OBVIOUS
  <2>2. IF j = current[r] THEN CurOK(sups[r][j]) ELSE KilledOK(sups[r][j])
    BY DEF RankOK
  <2> QED BY <2>1, <2>2 DEF Keeps
<1>2. ASSUME waits'[r] = 0, current'[r] # 0 PROVE ~sups'[r][current'[r]].pending
  <2>1. current'[r] \in 1 .. Len(sups[r])
    BY <1>2 DEF RankOK
  <2>2. Keeps(sups[r][current'[r]], sups'[r][current'[r]])
    BY <2>1
  <2>3. CASE waits'[r] = waits[r]
    BY <1>2, <2>1, <2>2, <2>3 DEF RankOK, Sup, Keeps
  <2>4. CASE \A j \in 1 .. Len(sups[r]) : ~sups'[r][j].pending
    BY <2>1, <2>4
  <2> QED BY <2>3, <2>4
<1> QED BY <1>1, <1>2 DEF RankOK, Sup

(* The Worker ends, and its runners with it.                               *)
LEMMA FailInv ==
  ASSUME Inv, NEW r \in Ranks, NEW i \in DOMAIN sups[r], FailAssertion(r, i)
  PROVE  Inv'
<1> DEFINE l == [j \in DOMAIN sups[r] |-> Dead(End(sups[r][j]))]
<1>1. sups \in [Ranks -> Seq(Supervisor)] /\ sups[r] \in Seq(Supervisor)
      /\ waits \in [Ranks -> Nat] /\ DOMAIN sups[r] = 1 .. Len(sups[r])
  BY DEF Inv, Supervised, SupsTyped
<1>2. sups' = [sups EXCEPT ![r] = l] /\ waits' = [waits EXCEPT ![r] = 0]
      /\ down' = down \cup {r}
      /\ UNCHANGED <<deleted, inbox, view, current, attempts, download, crashes>>
  BY DEF FailAssertion
<1>3. ASSUME NEW j \in 1 .. Len(sups[r])
      PROVE  Keeps(sups[r][j], l[j]) /\ ~l[j].pending
  <2> DEFINE s == sups[r][j]
             u == End(s)
             v == Dead(u)
  <2>1. s \in Supervisor /\ l[j] = v
    BY <1>1
  <2> HIDE DEF s, l
  <2>2. Keeps(s, u) /\ ~u.pending
    BY <2>1, EndKeeps
  <2> HIDE DEF u
  <2>3. Keeps(u, v) /\ v.pending = u.pending
    BY <2>2, DeadKeeps DEF Keeps
  <2> HIDE DEF v
  <2>4. Keeps(s, v) /\ ~v.pending
    BY <2>2, <2>3 DEF Keeps
  <2> QED BY <2>1, <2>4 DEF s
<1>4. l \in Seq(Supervisor) /\ Len(l) = Len(sups[r])
  <2>1. \A j \in 1 .. Len(sups[r]) : l[j] \in Supervisor
    BY <1>3 DEF Keeps
  <2>2. DOMAIN l = 1 .. Len(sups[r]) /\ l = [j \in 1 .. Len(sups[r]) |-> l[j]]
    BY <1>1
  <2>3. Len(sups[r]) \in Nat
    BY <1>1
  <2> HIDE DEF l
  <2> QED BY <2>1, <2>2, <2>3
<1> HIDE DEF l
<1>5. sups'[r] = l /\ waits'[r] = 0 /\ \A q \in Ranks \ {r} :
        sups'[q] = sups[q] /\ waits'[q] = waits[q]
  BY <1>1, <1>2
<1>6. RankOK(r)'
  <2>1. RankOK(r)
    BY DEF Inv, Supervised
  <2> QED BY <2>1, <1>1, <1>2, <1>3, <1>4, <1>5, AllKeep
<1>7. ASSUME NEW q \in Ranks, q # r PROVE RankOK(q)'
  <2>1. RankOK(q) /\ sups'[q] = sups[q] /\ waits'[q] = waits[q] /\ current' = current
    BY <1>2, <1>5, <1>7 DEF Inv, Supervised
  <2> QED BY <2>1 DEF RankOK, Sup
<1>8. SupsTyped'
  BY <1>1, <1>2, <1>4 DEF Inv, Supervised, SupsTyped
<1>9. Typed'
  BY <1>2 DEF Inv, Typed
<1> QED BY <1>6, <1>7, <1>8, <1>9 DEF Inv, Supervised

(* A collective operation ends on every rank.                              *)
LEMMA CollectiveInv ==
  ASSUME Inv, NEW op \in DOMAIN After, NEW g \in [Ranks -> 1 .. MaxRetries],
         Collective(op, g)
  PROVE  Inv'
<1>1. sups \in [Ranks -> Seq(Supervisor)]
  BY DEF Inv, Supervised, SupsTyped
<1>2. /\ \A q \in Ranks : g[q] \in DOMAIN sups[q] /\ sups[q][g[q]].proc = op
      /\ sups' = [q \in Ranks |-> [sups[q] EXCEPT ![g[q]] = Finish(@, g)]]
      /\ UNCHANGED <<deleted, inbox, view, current, waits, attempts, download,
                     down, crashes>>
  BY DEF Collective
<1>3. g \in [Ranks -> Nat] /\ op \in Ops
  BY LifecycleAssumption, Afters
<1>4. ASSUME NEW r \in Ranks
      PROVE  sups'[r] \in Seq(Supervisor) /\ RankOK(r)'
  <2> DEFINE i == g[r]
             t == Finish(sups[r][i], g)
             l == [sups[r] EXCEPT ![i] = t]
  <2>1. sups[r] \in Seq(Supervisor) /\ RankOK(r)
    BY <1>1 DEF Inv, Supervised
  <2>2. i \in 1 .. Len(sups[r]) /\ sups[r][i].proc \in Ops /\ sups'[r] = l
    BY <2>1, <1>2, <1>3
  <2> HIDE DEF i
  <2>3. sups[r][i] \in Supervisor /\ SupOK(sups[r][i])
    BY <2>1, <2>2 DEF RankOK
  <2>4. Keeps(sups[r][i], t)
    BY <1>3, <2>2, <2>3, FinishKeeps
  <2> HIDE DEF t
  <2>5. /\ l \in Seq(Supervisor) /\ Len(l) = Len(sups[r]) /\ l[i] = t
        /\ \A j \in 1 .. Len(sups[r]) : j # i => l[j] = sups[r][j]
    BY <2>1, <2>2, <2>4 DEF Keeps
  <2> HIDE DEF l
  <2>6. \A j \in 1 .. Len(sups[r]) : Keeps(sups[r][j], l[j])
    BY <2>1, <2>4, <2>5 DEF Keeps, RankOK
  <2>7. current'[r] = current[r] /\ waits'[r] = waits[r]
    BY <1>2
  <2> QED BY <2>1, <2>2, <2>5, <2>6, <2>7, AllKeep
<1>5. SupsTyped'
  BY <1>2, <1>4 DEF Inv, Supervised, SupsTyped
<1>6. Typed'
  BY <1>2 DEF Inv, Typed
<1> QED BY <1>4, <1>5, <1>6 DEF Inv, Supervised

-----------------------------------------------------------------------------
(* The steps of one supervisor or of its process.                          *)

(* A supervisor reads what its process has sent.                           *)
LEMMA ForwardInv ==
  ASSUME Inv, NEW r \in Ranks, NEW i \in DOMAIN sups[r], Forward(r, i)
  PROVE  Inv'
<1> DEFINE o == sups[r][i]
<1>1. o \in Supervisor /\ SupOK(o) /\ InboxOK /\ crashes' \in 0 .. MaxCrashes
      /\ o.events # << >>
  BY OneOf DEF Forward
<1>2. PICK s \in Received(o) :
        /\ Keeping(r, i, ForwardEvent(s))
        /\ \/ \E status \in Forwarded(s) : Publish(Event("runner", r, status))
           \/ UNCHANGED inbox
  BY DEF Forward
<1> HIDE DEF o
<1>3. Keeps(o, s) /\ s.events # << >>
  BY <1>1, ReceivedKeeps
<1>4. Keeps(s, ForwardEvent(s))
  BY <1>3, ForwardKeeps DEF Keeps
<1>5. Keeps(o, ForwardEvent(s))
  BY <1>3, <1>4 DEF Keeps
<1>6. InboxOK'
  <2>1. CASE UNCHANGED inbox
    BY <1>1, <2>1 DEF InboxOK
  <2>2. ASSUME NEW status \in Forwarded(s), Publish(Event("runner", r, status))
        PROVE  InboxOK'
    <3>1. status \in Statuses
      BY DEF Forwarded, Statuses
    <3>2. Event("runner", r, status) \in Events
      BY <3>1 DEF Event, Events
    <3> QED BY <3>2, <2>2, PublishTyped DEF Inv
  <2> QED BY <1>2, <2>1, <2>2
<1> QED BY <1>1, <1>2, <1>5, <1>6, KeepingInv DEF o

(* A supervisor looks after its process.                                   *)
LEMMA SupervisorInv ==
  ASSUME Inv, NEW r \in Ranks, NEW i \in DOMAIN sups[r], SupervisorStep(r, i)
  PROVE  Inv'
<1> DEFINE s == sups[r][i]
<1>1. s \in Supervisor /\ SupOK(s) /\ InboxOK /\ crashes \in 0 .. MaxCrashes
  BY OneOf
<1>2. CASE Forward(r, i)
  BY <1>2, ForwardInv
<1>3. CASE FailAssertion(r, i)
  BY <1>3, FailInv
<1>4. CASE WatchRunner(r, i) \/ CheckRunner(r, i)
  <2> DEFINE t == [s EXCEPT !.phase = "reporting", !.status = "Failed"]
  <2>1. Keeping(r, i, t) /\ UNCHANGED <<inbox, crashes>>
    BY <1>4 DEF WatchRunner, CheckRunner
  <2>2. ~Lives(s)
    BY <1>1, <1>4 DEF WatchRunner, CheckRunner, SupOK, Lives
  <2> HIDE DEF s
  <2>3. Keeps(s, t)
    BY <1>1, <2>2, FailKeeps
  <2> HIDE DEF t
  <2> QED BY <1>1, <2>1, <2>3, KeepingInv DEF s, InboxOK
<1>5. CASE ReportFailure(r, i)
  <2>1. Keeping(r, i, End(s)) /\ Publish(Event("runner", r, "Failed"))
        /\ crashes' = crashes
    BY <1>5 DEF ReportFailure
  <2>2. Event("runner", r, "Failed") \in Events
    BY DEF Event, Events, Statuses
  <2>3. InboxOK'
    BY <2>1, <2>2, PublishTyped DEF Inv
  <2>4. Keeps(s, End(s))
    BY <1>1, EndKeeps
  <2> QED BY <1>1, <2>1, <2>3, <2>4, KeepingInv
<1>6. CASE StopProcess(r, i)
  <2>1. Keeping(r, i, Dead(s)) /\ UNCHANGED <<inbox, crashes>>
    BY <1>6 DEF StopProcess
  <2>2. Keeps(s, Dead(s))
    BY <1>1, DeadKeeps
  <2> QED BY <1>1, <2>1, <2>2, KeepingInv DEF InboxOK
<1> QED BY <1>2, <1>3, <1>4, <1>5, <1>6 DEF SupervisorStep

(* A process goes on, or dies.                                             *)
LEMMA ProcessInv ==
  ASSUME Inv, NEW r \in Ranks, NEW i \in DOMAIN sups[r],
         ProcessStep(r, i) \/ LosePeer(r, i) \/ Crash(r, i)
  PROVE  Inv'
<1> DEFINE s == sups[r][i]
<1>1. s \in Supervisor /\ SupOK(s) /\ InboxOK /\ crashes \in 0 .. MaxCrashes
  BY OneOf
<1>2. CASE StartProcess(r, i)
  <2>1. Keeping(r, i, Start(s)) /\ UNCHANGED <<inbox, crashes>>
        /\ s.proc = "starting" /\ s.phase = "running"
    BY <1>2 DEF StartProcess
  <2>2. Keeps(s, Start(s))
    BY <1>1, <2>1, StartKeeps
  <2> QED BY <1>1, <2>1, <2>2, KeepingInv DEF InboxOK
<1>3. CASE HandleTask(r, i)
  <2>1. Keeping(r, i, TakeTask(s)) /\ UNCHANGED <<inbox, crashes>>
        /\ AwaitsTask(s) /\ s.tasks # << >>
        /\ (CurOK(s) \/ KilledOK(s))
    BY <1>3, OneOf DEF HandleTask
  <2>2. Keeps(s, TakeTask(s))
    BY <1>1, <2>1, TakeTaskKeeps
  <2> QED BY <1>1, <2>1, <2>2, KeepingInv DEF InboxOK
<1>4. CASE LosePeer(r, i)
  <2>1. Keeping(r, i, Raise(s)) /\ UNCHANGED <<inbox, crashes>>
    BY <1>4 DEF LosePeer
  <2>2. Keeps(s, Raise(s))
    BY <1>1, RaiseKeeps
  <2> QED BY <1>1, <2>1, <2>2, KeepingInv DEF InboxOK
<1>5. CASE Crash(r, i)
  <2>1. Keeping(r, i, Raise(s)) \/ Keeping(r, i, Dead(s))
    BY <1>5 DEF Crash
  <2>2. InboxOK' /\ crashes' \in 0 .. MaxCrashes
    BY <1>1, <1>5, LifecycleAssumption DEF Crash, InboxOK
  <2>3. Keeps(s, Raise(s)) /\ Keeps(s, Dead(s))
    BY <1>1, RaiseKeeps, DeadKeeps
  <2> QED BY <2>1, <2>2, <2>3, KeepingInv
<1> QED BY <1>2, <1>3, <1>4, <1>5 DEF ProcessStep

(* A Worker carries out its plan.                                          *)
LEMMA WorkerInv == ASSUME Inv, NEW r \in Ranks, WorkerStep(r) PROVE Inv'
<1>1. CASE GiveUp(r)
  BY <1>1, DeletedInv DEF GiveUp
<1> QED BY <1>1, KillInv, StopInv, CreateInv, DownloadInv, StartTaskInv, ResumeInv
        DEF WorkerStep

(* Every step keeps the invariant.                                         *)
LEMMA NextInv == Inv /\ [Next]_vars => Inv'
<1> SUFFICES ASSUME Inv, [Next]_vars PROVE Inv'
  OBVIOUS
<1>1. ASSUME NEW r \in Ranks, Apply(r) \/ WorkerStep(r) \/ Downloaded(r)
      PROVE  Inv'
  BY <1>1, ApplyInv, WorkerInv, DownloadInv
<1>2. ASSUME NEW r \in Ranks, NEW i \in DOMAIN sups[r],
             SupervisorStep(r, i) \/ ProcessStep(r, i) \/ LosePeer(r, i) \/ Crash(r, i)
      PROVE  Inv'
  BY <1>2, SupervisorInv, ProcessInv
<1>3. CASE CollectiveStep
  BY <1>3, CollectiveInv DEF CollectiveStep
<1>4. CASE DeleteInstance
  BY <1>4, Zero, DeletedInv DEF DeleteInstance
<1>5. CASE UNCHANGED vars
  BY <1>5 DEF vars, Inv, Typed, Supervised, SupsTyped, RankOK, Sup
<1> QED BY <1>1, <1>2, <1>3, <1>4, <1>5 DEF Next, Progress

(* What the invariant says of the runners.                                 *)
LEMMA InvInside == Inv => InsideStateMachine
<1> SUFFICES ASSUME Inv PROVE InsideStateMachine
  OBVIOUS
<1>1. ASSUME NEW r \in Ranks, NEW i \in DOMAIN sups[r]
      PROVE  LET s == sups[r][i] IN
             /\ s.status \in Statuses /\ Len(s.tasks) <= 1
             /\ AwaitsTask(s) /\ s.tasks # << >> => Takes(s, Head(s.tasks))
  <2> DEFINE s == sups[r][i]
  <2>1. RankOK(r) /\ i \in 1 .. Len(sups[r]) /\ s \in Supervisor /\ SupOK(s)
    BY OneOf DEF Inv, Supervised
  <2>2. CurOK(s) \/ KilledOK(s)
    BY <2>1 DEF RankOK
  <2> HIDE DEF s
  <2>3. s.status \in Statuses /\ Len(s.tasks) <= 1
    <3>1. s.status \in Statuses
          /\ (s.tasks = << >> \/ \E t \in TaskNames : s.tasks = << t >>)
      BY <2>1 DEF Supervisor
    <3>2. CASE s.tasks = << >>
      BY <3>1, <3>2
    <3>3. ASSUME NEW t \in TaskNames, s.tasks = << t >>
          PROVE  Len(s.tasks) <= 1
      BY <3>3
    <3> QED BY <3>1, <3>2, <3>3
  <2>4. ASSUME AwaitsTask(s), s.tasks # << >> PROVE Takes(s, Head(s.tasks))
    <3>1. CASE CurOK(s)
      <4>1. Lives(s) /\ s.phase # "ended" /\ s.proc # "starting"
        BY <2>1, <2>4 DEF SupOK, AwaitsTask, Lives
      <4> QED BY <4>1, <3>1, <2>4 DEF CurOK, Asked
    <3>2. CASE KilledOK(s)
      BY <3>2, <2>4 DEF KilledOK, Takes
    <3> QED BY <2>2, <3>1, <3>2
  <2> QED BY <2>3, <2>4 DEF s
<1>2. TypeOK
  <2>1. ASSUME NEW r \in Ranks
        PROVE  /\ attempts[r] \in 0 .. MaxRetries
               /\ download[r] \in {"absent", "requested", "reported"}
               /\ view[r].complete \subseteq Ranks
               /\ RankOK(r)
    BY DEF Inv, Typed, Views, Supervised
  <2> QED BY <1>1, <2>1 DEF TypeOK, RankOK, Inv, Typed
<1> QED BY <1>1, <1>2 DEF InsideStateMachine

(* The runner's state machine is never given a task it has no case for,    *)
(* however far the Workers, the supervisors and the processes are behind   *)
(* each other, and whatever dies.                                          *)
THEOREM TasksFitTheRunner == Spec => []InsideStateMachine
<1>1. Spec => []Inv
  BY InitInv, NextInv, PTL DEF Spec
<1> QED BY <1>1, InvInside, PTL

(* A supervisor with a completion to read takes it as one.                 *)
LEMMA Expected ==
  ASSUME Inv, NEW r \in Ranks, NEW i \in DOMAIN sups[r]
  PROVE  CompletesItsTask(sups[r][i]) \/ Failing(sups[r][i])
<1> DEFINE s == sups[r][i]
<1>1. s \in Supervisor /\ SupOK(s)
  BY OneOf
<1> HIDE DEF s
<1>2. ASSUME s.forwarding, s.events # << >>, Head(s.events) = Done
      PROVE  s.status \in Busy \/ Failing(s)
  <2>1. 1 \in 1 .. Len(s.events) /\ s.events[1] = Done
    BY <1>1, <1>2, Rest DEF Supervisor
  <2>2. Completes(s)
    BY <1>1, <1>2 DEF SupOK
  <2>3. Expects(s)
    BY <2>1, <2>2 DEF Completes
  <2> QED BY <1>1, <2>3 DEF Expects, Failing, SupOK
<1>3. CompletesItsTask(s) \/ Failing(s)
  BY <1>2 DEF CompletesItsTask, Busy, Ops, Done
<1> QED BY <1>3 DEF s

(* "If a task has just been completed, we should be working on it": for    *)
(* every number of ranks, attempts and deaths, and however late a queue is *)
(* read, a completion finds the supervisor in one of the states its        *)
(* assertion names, unless its process is gone and _check_runner has       *)
(* written Failed and not yet sent it.  (In that moment the assertion may  *)
(* fail: WorkingOnIt is then violated.)                                     *)
THEOREM CompletionsAreExpected == Spec => []CompletionsExpected
<1>1. Spec => []Inv
  BY InitInv, NextInv, PTL DEF Spec
<1>2. Inv => CompletionsExpected
  BY Expected DEF CompletionsExpected
<1> QED BY <1>1, <1>2, PTL
=============================================================================
