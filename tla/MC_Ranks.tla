------------------------------- MODULE MC_Ranks -------------------------------
(***************************************************************************)
(* What the ranks of an instance do together, for TLC: how they agree on   *)
(* tasks, how they prefill and decode a pipeline, how they draw an image.  *)
(* The three share no state here; part says which of them a behaviour is   *)
(* about, and the others rest in one initial state.                        *)
(***************************************************************************)
EXTENDS TaskAgreement, PipelinePrefill, ImagePipeline

VARIABLE part

rkvars == <<part, vars, ppvars, ipvars>>

-----------------------------------------------------------------------------
(* Constants.                                                              *)

(* The ids are random, so that a later task may come first when sorted.    *)
LaterFirst == {<<2, 1>>}

OneChunk == [t \in Tasks |-> 1]

Layout(ends, joint, cfg, steps, sync, height, images, partials) ==
  [ends |-> ends, joint |-> joint, cfg |-> cfg, steps |-> steps, sync |-> sync,
   height |-> height, images |-> images, partials |-> partials]

(* One to three stages, with and without guidance, and its branches on one *)
(* group of ranks or on two.                                               *)
SomeLayouts ==
  {Layout(<<3>>, 2, "sequential", 3, 1, 2, 2, 1),
   Layout(<<1, 3>>, 2, "none", 4, 1, 3, 1, 1),
   Layout(<<1, 2, 3>>, 1, "none", 3, 1, 5, 1, 0),
   Layout(<<1, 2, 3>>, 2, "none", 2, 1, 4, 2, 1),
   Layout(<<1, 2>>, 2, "sequential", 3, 1, 2, 1, 0),
   Layout(<<2>>, 2, "parallel", 2, 1, 2, 2, 1),
   Layout(<<1, 2>>, 2, "parallel", 2, 2, 2, 1, 0)}

-----------------------------------------------------------------------------
AtRest(p, v, S) == part # p => v = CHOOSE w \in S : TRUE

RanksInit ==
  /\ part \in {"agreement", "pipeline", "image"}
  /\ Init /\ AtRest("agreement", engine, Engines)
  /\ PipelineInit
  /\ ImageInit /\ AtRest("image", layout, Layouts)

Agreeing(A) == part = "agreement" /\ A /\ UNCHANGED <<part, ppvars, ipvars>>
Piping(A) == part = "pipeline" /\ A /\ UNCHANGED <<part, vars, ipvars>>
Drawing(A) == part = "image" /\ A /\ UNCHANGED <<part, vars, ppvars>>

RanksNext == Agreeing(Next) \/ Piping(PipelineNext) \/ Drawing(ImageNext)

(* What a part's action does there is all that its fairness is about.      *)
In(p, A) == part = p /\ A

(* Runners and workers never stop while they have something to do; tasks   *)
(* and cancellations come from outside.                                    *)
AgreementFairness ==
  /\ \A r \in Ranks :
       /\ WF_vars(In("agreement", StartTask(r))) /\ WF_vars(In("agreement", SendCancel(r)))
       /\ WF_vars(In("agreement", FirstTask(r))) /\ WF_vars(In("agreement", Collect(r)))
       /\ WF_vars(In("agreement", EndStep(r)))
  /\ WF_vars(In("agreement", JointAgree)) /\ WF_vars(In("agreement", JointCancel))
  /\ WF_vars(In("agreement", JointForward))

PipelineFairness ==
  /\ WF_ppvars(In("pipeline", Together))
  /\ \A r \in PipeRanks : WF_ppvars(In("pipeline", StageStep(r)))

ImageFairness ==
  \A r \in 0 .. MaxRank : WF_ipvars(In("image", r \in ImageRanks /\ RankStep(r)))

RanksSpec ==
  /\ RanksInit /\ [][RanksNext]_rkvars
  /\ AgreementFairness /\ PipelineFairness /\ ImageFairness

(* What the ranks begin ends on all of them: tasks, prefills, generations  *)
(* and images, cancelled or not; or the rank that lost a cancelled task is *)
(* dead.                                                                   *)
RanksEnd == Served /\ PrefillEnds /\ GenerationEnds
=============================================================================
