--------------------------- MODULE ImagePipeline ---------------------------
(***************************************************************************)
(* The distributed image engine (worker/engines/image): one                *)
(* DiffusionRunner per rank of a pipeline, or of two pipelines when        *)
(* classifier-free guidance (CFG) runs in parallel.  The first diffusion   *)
(* steps are synchronous (the whole image passes through every stage), the *)
(* others asynchronous (patches follow one another and the last stage      *)
(* hands each patch back to the first for the next step).  There is no     *)
(* control channel: a cancelled rank goes on sending, but sends NaN, and   *)
(* whoever receives only NaN cancels too.                                  *)
(*                                                                         *)
(* A rank is a program of sends, receives and attention passes, fixed by   *)
(* its layout and step; tensors are their shapes (what a receive asks for) *)
(* with the step, patch and branch they belong to.  A send is buffered     *)
(* (mx.async_eval), a receive blocks; each pair of ranks has a FIFO link.  *)
(***************************************************************************)
EXTENDS Integers, Sequences, FiniteSets, SequencesExt, FiniteSetsExt

CONSTANTS
    Layouts     \* the instances: see LayoutType

VARIABLES
    layout,     \* the instance's layout
    image,      \* rank -> which image of the task it is generating
    step,       \* rank -> the diffusion step t
    todo,       \* rank -> operations of this step still to perform
    phase,      \* rank -> "loop", "drain" or "over"
    cancelling, \* rank -> _cancelling
    asked,      \* ranks whose cancel_receiver holds a cancellation of the task
    link,       \* <<src, dst>> -> tensors sent and not yet received
    cache,      \* rank -> patch -> step whose keys and values the blocks cache
    stopped,    \* rank -> images it left cancelled
    captured    \* steps of the current image the output rank sent as partials

ipvars == <<layout, image, step, todo, phase, cancelling, asked, link, cache,
            stopped, captured>>

----------------------------------------------------------------------------
(* Pure arithmetic of the runner. *)

CeilDiv(a, b) == (a + b - 1) \div b

\* A seeded fault: the last patch is as high as the others.
EqualHeights(h, n) == [i \in 1..CeilDiv(h, CeilDiv(h, n)) |-> CeilDiv(h, n)]

\* The heights of the patches an image of latent height h is cut into.
PatchHeights(h, n) ==
    LET ph == CeilDiv(h, n)
        k  == CeilDiv(h, ph)
    IN  [i \in 1..k |-> IF i < k THEN ph ELSE h - ph * (k - 1)]

\* The steps after which a partial image is shown.
CaptureSteps(partials, total) ==
    IF partials <= 0 \/ total <= 1 THEN {}
    ELSE IF partials >= total - 1 THEN 0..(total - 2)
    ELSE {1} \cup {1 + (i * (total - 2)) \div partials : i \in 1..(partials - 1)}

----------------------------------------------------------------------------
(* Who is who. *)

Stages   == Len(layout.ends)
Groups   == IF layout.cfg = "parallel" THEN 2 ELSE 1
Alone    == Stages * Groups = 1       \* group is None
ImageRanks == 0..(Stages * Groups - 1)
MaxRank  == Max({Len(l.ends) * (IF l.cfg = "parallel" THEN 2 ELSE 1) : l \in Layouts}) - 1
Patches  == Len(PatchHeights(layout.height, Stages))
LastStep == layout.steps - 1

CfgRank(r) == IF Groups = 2 /\ r >= Stages THEN 1 ELSE 0
Stage(r)   == IF CfgRank(r) = 0 THEN r ELSE 2 * Stages - 1 - r

\* Group 1 is laid out in reverse, so that the last stages are neighbours.
DeviceRank(g, s) == IF g = 0 THEN s ELSE 2 * Stages - 1 - s

IsFirst(r)   == Stage(r) = 0
IsLast(r)    == Stage(r) = Stages - 1
NextRank(r)  == DeviceRank(CfgRank(r), Stage(r) + 1)
PrevRank(r)  == DeviceRank(CfgRank(r), Stage(r) - 1)
FirstRank(r) == DeviceRank(CfgRank(r), 0)
LastRank(r)  == DeviceRank(CfgRank(r), Stages - 1)
PeerRank(r)  == DeviceRank(1 - CfgRank(r), Stages - 1)

\* Joint blocks come first, single blocks after them.
StartLayer(r) == IF IsFirst(r) THEN 0 ELSE layout.ends[Stage(r)]
EndLayer(r)   == layout.ends[Stage(r) + 1]
HasJoint(r)   == StartLayer(r) < layout.joint /\ EndLayer(r) > StartLayer(r)
HasSingle(r)  == EndLayer(r) > layout.joint
OwnsConcat(r) == HasJoint(r) /\ (HasSingle(r) \/ EndLayer(r) = layout.joint)

\* The output node: the last stage of the positive group.
Output == DeviceRank(0, Stages - 1)

BranchNames == {"pos", "neg"}

\* The branches a rank computes: positive, then negative when CFG is sequential.
Branches(r) ==
    CASE layout.cfg = "none"       -> <<"pos">>
      [] layout.cfg = "parallel"   -> IF CfgRank(r) = 0 THEN <<"pos">> ELSE <<"neg">>
      [] layout.cfg = "sequential" -> <<"pos", "neg">>

----------------------------------------------------------------------------
(* The program of a step. *)

Tensor(shape, i, t, p, b) == [shape |-> shape, image |-> i, step |-> t, patch |-> p, branch |-> b]
Send(r, x)  == [do |-> "send", peer |-> r, what |-> x]
Recv(r, x)  == [do |-> "recv", peer |-> r, what |-> x]
Attend(p)   == [do |-> "attend", patch |-> p]
When(c, op) == IF c THEN <<op>> ELSE <<>>

\* x with another shape.
Shaped(x, shape) == [x EXCEPT !.shape = shape]

\* The joint blocks of a pass: the image and text streams come in and go out
\* separately, until the stage that merges them.  x says what the pass is of.
JointOps(r, x, text) ==
       When(HasJoint(r) /\ ~IsFirst(r), Recv(PrevRank(r), Shaped(x, "hidden")))
    \o When(HasJoint(r) /\ ~IsFirst(r) /\ text, Recv(PrevRank(r), Shaped(x, "encoder")))
    \o When(HasJoint(r), Attend(x.patch))
    \o When(OwnsConcat(r) /\ ~HasSingle(r) /\ ~IsLast(r), Send(NextRank(r), Shaped(x, "concat")))
    \o When(HasJoint(r) /\ ~OwnsConcat(r) /\ ~IsLast(r), Send(NextRank(r), Shaped(x, "hidden")))
    \o When(HasJoint(r) /\ ~OwnsConcat(r) /\ ~IsLast(r) /\ text,
            Send(NextRank(r), Shaped(x, "encoder")))

\* The single blocks work on the merged stream.
SingleOps(r, x) ==
       When(HasSingle(r) /\ ~OwnsConcat(r) /\ ~IsFirst(r), Recv(PrevRank(r), Shaped(x, "concat")))
    \o When(HasSingle(r), Attend(x.patch))
    \o When(HasSingle(r) /\ ~IsLast(r), Send(NextRank(r), Shaped(x, "concat")))

\* One pass of the whole image.
SyncPass(r, i, t, b) ==
    LET x == Tensor("hidden", i, t, 0, b) IN JointOps(r, x, TRUE) \o SingleOps(r, x)

\* One pass of patch p: the text stream travels with the first patch only.
PatchPass(r, i, t, p, b) ==
    LET x == Tensor("hidden", i, t, p, b) IN JointOps(r, x, p = 1) \o SingleOps(r, x)

\* A seeded fault: both sides receive first.
BothReceive(r, i, t, p) ==
    IF layout.cfg # "parallel" \/ ~IsLast(r) THEN <<>>
    ELSE <<Recv(PeerRank(r), Tensor("noise", i, t, p, Branches(PeerRank(r))[1])),
           Send(PeerRank(r), Tensor("noise", i, t, p, Branches(r)[1]))>>

\* The last stages of the two groups exchange their noise: the positive one
\* sends first, the negative one receives first.
Exchange(r, i, t, p) ==
    LET mine   == Send(PeerRank(r), Tensor("noise", i, t, p, Branches(r)[1]))
        theirs == Recv(PeerRank(r), Tensor("noise", i, t, p, Branches(PeerRank(r))[1]))
    IN  IF layout.cfg # "parallel" \/ ~IsLast(r) THEN <<>>
        ELSE IF CfgRank(r) = 0 THEN <<mine, theirs>> ELSE <<theirs, mine>>

AllBranches(r, pass) == FlattenSeq([k \in 1..Len(Branches(r)) |-> pass[Branches(r)[k]]])

Latents(i, t, p) == Tensor("latents", i, t, p, "pos")

SyncStep(r, i, t) ==
       AllBranches(r, [b \in BranchNames |-> SyncPass(r, i, t, b)])
    \o Exchange(r, i, t, 0)
    \o When(IsLast(r) /\ ~IsFirst(r), Send(FirstRank(r), Latents(i, t, 0)))
    \o When(IsFirst(r) /\ ~IsLast(r), Recv(LastRank(r), Latents(i, t, 0)))

\* A seeded fault: the last step hands its patches back too.
AlwaysHandsBack(r, i, t, p) ==
       When(IsFirst(r) /\ ~IsLast(r) /\ t # layout.sync, Recv(LastRank(r), Latents(i, t - 1, p)))
    \o AllBranches(r, [b \in BranchNames |-> PatchPass(r, i, t, p, b)])
    \o Exchange(r, i, t, p)
    \o When(IsLast(r) /\ ~IsFirst(r), Send(FirstRank(r), Latents(i, t, p)))

\* The first asynchronous step starts from the latents of the last synchronous one.
AsyncPatch(r, i, t, p) ==
       When(IsFirst(r) /\ ~IsLast(r) /\ t # layout.sync, Recv(LastRank(r), Latents(i, t - 1, p)))
    \o AllBranches(r, [b \in BranchNames |-> PatchPass(r, i, t, p, b)])
    \o Exchange(r, i, t, p)
    \o When(IsLast(r) /\ ~IsFirst(r) /\ t # LastStep, Send(FirstRank(r), Latents(i, t, p)))

\* Without a group, a branch is one pass over all the blocks.
ForwardPass(r)    == When(HasJoint(r), Attend(0)) \o When(HasSingle(r), Attend(0))
SingleNodeStep(r) == AllBranches(r, [b \in BranchNames |-> ForwardPass(r)])

IsSync(t) == Stages = 1 \/ t < layout.sync

StepOps(r, i, t) ==
    IF Alone THEN SingleNodeStep(r)
    ELSE IF IsSync(t) THEN SyncStep(r, i, t)
    ELSE FlattenSeq([p \in 1..Patches |-> AsyncPatch(r, i, t, p)])

\* A seeded fault: nothing is drained.
NoDrain(r, i, t) == <<>>

\* After a cancellation in an asynchronous step the first stage receives the
\* patches that the last stage handed back for a step that never comes.
DrainOps(r, i, t) ==
    IF IsFirst(r) /\ ~IsLast(r) /\ t >= layout.sync /\ t # LastStep
    THEN [p \in 1..Patches |-> Recv(LastRank(r), Latents(i, t, p))]
    ELSE <<>>

Busy(r)    == todo[r] # <<>>
Current(r) == Head(todo[r])

----------------------------------------------------------------------------
\* _check_cancellation at the top of a step: only the first stage looks.
Checked(r, c) == c \/ (IsFirst(r) /\ r \in asked)

NoCache == [p \in 1..Patches |-> -1]

ImageInit ==
    /\ layout \in Layouts
    /\ image = [r \in ImageRanks |-> 1]
    /\ step = [r \in ImageRanks |-> 0]
    /\ todo = [r \in ImageRanks |-> <<>>]
    /\ phase = [r \in ImageRanks |-> "top"]
    /\ cancelling = [r \in ImageRanks |-> FALSE]
    /\ asked = {}
    /\ link = [l \in ImageRanks \X ImageRanks |-> <<>>]
    /\ cache = [r \in ImageRanks |-> NoCache]
    /\ stopped = [r \in ImageRanks |-> {}]
    /\ captured = {}

\* The cancellation of the task reaches one rank's runner process.
CancelArrives(r) ==
    /\ IsFirst(r) /\ r \notin asked
    /\ asked' = asked \cup {r}
    /\ UNCHANGED <<layout, image, step, todo, phase, cancelling, link, cache, stopped, captured>>

\* The loop enters a step, unless a lone rank has been cancelled.
EnterStep(r) ==
    /\ phase[r] = "top"
    /\ cancelling' = [cancelling EXCEPT ![r] = Checked(r, @)]
    /\ IF Alone /\ Checked(r, cancelling[r])
       THEN phase' = [phase EXCEPT ![r] = "drain"] /\ UNCHANGED todo
       ELSE /\ phase' = [phase EXCEPT ![r] = "loop"]
            /\ todo' = [todo EXCEPT ![r] = StepOps(r, image[r], step[r])]
    /\ UNCHANGED <<layout, image, step, asked, link, cache, stopped, captured>>

\* A cancelling rank sends NaN in place of its tensor.
SendTensor(r) ==
    /\ Busy(r) /\ Current(r).do = "send"
    /\ link' = [link EXCEPT ![<<r, Current(r).peer>>] =
                    Append(@, [what |-> Current(r).what, nan |-> cancelling[r]])]
    /\ todo' = [todo EXCEPT ![r] = Tail(@)]
    /\ UNCHANGED <<layout, image, step, phase, cancelling, asked, cache, stopped, captured>>

\* A rank that receives nothing but NaN cancels.
RecvTensor(r) ==
    /\ Busy(r) /\ Current(r).do = "recv"
    /\ link[<<Current(r).peer, r>>] # <<>>
    /\ cancelling' = [cancelling EXCEPT ![r] = @ \/ Head(link[<<Current(r).peer, r>>]).nan]
    /\ link' = [link EXCEPT ![<<Current(r).peer, r>>] = Tail(@)]
    /\ todo' = [todo EXCEPT ![r] = Tail(@)]
    /\ UNCHANGED <<layout, image, step, phase, asked, cache, stopped, captured>>

\* A seeded fault: the keys and values of a patch are used and not kept.
KeepsNoPatch(c, p, t) == IF p = 0 THEN [q \in 1..Patches |-> t] ELSE c

\* The blocks cache the keys and values of the whole image, or of one patch.
Cached(c, p, t) == IF p = 0 THEN [q \in 1..Patches |-> t] ELSE [c EXCEPT ![p] = t]

AttendPass(r) ==
    /\ Busy(r) /\ Current(r).do = "attend"
    /\ cache' = [cache EXCEPT ![r] = Cached(@, Current(r).patch, step[r])]
    /\ todo' = [todo EXCEPT ![r] = Tail(@)]
    /\ UNCHANGED <<layout, image, step, phase, cancelling, asked, link, stopped, captured>>

\* The end of a step: a partial image, then the next step, the drain of a
\* cancelled generation or the end of a finished one.
LeaveStep(r) ==
    /\ phase[r] = "loop" /\ ~Busy(r)
    /\ captured' = IF r = Output /\ ~cancelling[r]
                      /\ step[r] \in CaptureSteps(layout.partials, layout.steps)
                   THEN captured \cup {step[r]} ELSE captured
    /\ IF cancelling[r] \/ step[r] = LastStep
       THEN /\ phase' = [phase EXCEPT ![r] = "drain"]
            /\ todo' = [todo EXCEPT ![r] =
                           IF cancelling[r] THEN DrainOps(r, image[r], step[r]) ELSE <<>>]
            /\ UNCHANGED step
       ELSE /\ phase' = [phase EXCEPT ![r] = "top"]
            /\ UNCHANGED todo
            /\ step' = [step EXCEPT ![r] = @ + 1]
    /\ UNCHANGED <<layout, image, cancelling, asked, link, cache, stopped>>

\* The next image of the task starts with empty caches and no cancellation.
StartNextImage(r) ==
    /\ phase' = [phase EXCEPT ![r] = "top"]
    /\ image' = [image EXCEPT ![r] = @ + 1]
    /\ step' = [step EXCEPT ![r] = 0]
    /\ cancelling' = [cancelling EXCEPT ![r] = FALSE]
    /\ cache' = [cache EXCEPT ![r] = NoCache]
    /\ captured' = IF r = Output THEN {} ELSE captured

\* A generation returns.
FinishImage(r) ==
    /\ phase[r] = "drain" /\ ~Busy(r)
    /\ stopped' = [stopped EXCEPT ![r] = IF cancelling[r] THEN @ \cup {image[r]} ELSE @]
    /\ IF image[r] < layout.images
       THEN StartNextImage(r)
       ELSE /\ phase' = [phase EXCEPT ![r] = "over"]
            /\ UNCHANGED <<image, step, cancelling, cache, captured>>
    /\ UNCHANGED <<layout, todo, asked, link>>

RankStep(r) == \/ EnterStep(r) \/ SendTensor(r) \/ RecvTensor(r)
               \/ AttendPass(r) \/ LeaveStep(r) \/ FinishImage(r)

ImageNext == \E r \in ImageRanks : CancelArrives(r) \/ RankStep(r)

AllOver == \A r \in ImageRanks : phase[r] = "over"

----------------------------------------------------------------------------
(* What is checked. *)

\* Every receive takes the tensor it was written for: the shape, the image,
\* the step, the patch and the branch that the program of the receiving rank
\* expects are those of the head of the link, whatever was cancelled before
\* (the links carry no tags: runner.py relies on the order alone).
Paired == \A r \in ImageRanks :
    Busy(r) /\ Current(r).do = "recv" /\ link[<<Current(r).peer, r>>] # <<>>
        => Head(link[<<Current(r).peer, r>>]).what = Current(r).what

\* When every rank has returned, no tensor is left on a link for the next task
\* to receive, and the ranks agree on which images were cancelled.
EndsTogether == AllOver =>
    /\ \A l \in DOMAIN link : link[l] = <<>>
    /\ \A r \in ImageRanks : stopped[r] = stopped[Output]

\* A patch attends to keys and values of every other patch that are at most
\* one step old, and never to an empty cache (_cache_patch_kv asserts it).
FreshCache == \A r \in ImageRanks :
    Busy(r) /\ Current(r).do = "attend" /\ Current(r).patch # 0 =>
        \A p \in 1..Patches :
            /\ cache[r][p] >= 0
            /\ cache[r][p] >= IF p < Current(r).patch THEN step[r] ELSE step[r] - 1

\* The patches cover the image exactly, and a finished image was preceded by
\* as many partial images as were asked for and the steps allow, none of them
\* after the last step.
PartialsAndPatches ==
    /\ FoldSeq(LAMBDA a, b : a + b, 0, PatchHeights(layout.height, Stages)) = layout.height
    /\ \A i \in 1..Patches : PatchHeights(layout.height, Stages)[i] > 0
    /\ phase[Output] = "drain" /\ ~cancelling[Output] =>
        /\ Cardinality(captured) = Min({layout.partials, layout.steps - 1})
        /\ LastStep \notin captured

\* Every generation ends on every rank, cancelled or not: no rank waits for a
\* tensor that nobody will send.
GenerationEnds == (\E r \in ImageRanks : phase[r] # "top") ~> AllOver

\* The comment on the drain in _run_diffusion_loop: once the last stage of a
\* group has left the loop cancelled, its first stage never enters the next
\* step to receive the patches.
FirstNeverEntersNext == \A r \in ImageRanks :
    IsLast(r) /\ ~IsFirst(r) /\ phase[r] = "drain" /\ cancelling[r]
    /\ image[FirstRank(r)] = image[r] /\ phase[FirstRank(r)] = "loop"
        => step[FirstRank(r)] <= step[r]

(* The stages stay in step: what is received, attended to, handed out and  *)
(* left behind is of the pass, the step and the image it is taken for.     *)
InStep == Paired /\ EndsTogether /\ FreshCache /\ PartialsAndPatches
=============================================================================
