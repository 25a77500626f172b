---- MODULE RevisionPlans ----
(***************************************************************************)
(* Feedback on artifact versions, the RevisionPlans made of it, and the    *)
(* revision runs that execute a confirmed plan, in one project together    *)
(* with its original runs (services/revisions.py, workflow/run_plan.py,    *)
(* the context a worker loads, and what publication moves).  A step of the *)
(* fixed pipeline publishes the primary artifact of each of its kinds, a   *)
(* scientific task an artifact of its own; the Gaia task publishes the     *)
(* primary data as well.  A request is one transaction that commits under  *)
(* the locks of the project or of the artifacts, so it is one action; the  *)
(* hazards are between requests and the steps of runs.                     *)
(***************************************************************************)
EXTENDS Ordered

CONSTANTS
  Artifacts,     \* the artifacts of the project, by kind
  DataKinds,     \* those of the data bundle, which are published together
  StepKeys,      \* step keys of all plans
  Outputs,       \* step key -> the artifacts the step publishes
  Reads,         \* step key -> the artifacts its runner reads or publishes first
  Contracts,     \* the chains compile_run_plan freezes: sequences of step keys
  Adjudicable,   \* artifacts whose relations a user may accept or reject
  TaskArtifacts, \* the artifacts of scientific tasks, data aside
  GaiaSteps,     \* the steps of gaia_cone_search tasks
  MaxRuns,       \* bound on runs
  MaxOriginals,  \* bound on those that are no revisions
  MaxFeedback,   \* bound on feedback rows
  MaxPlans       \* bound on plans

Runs == 1..MaxRuns
Plans == 1..MaxPlans
NoVersion == 0  \* otherwise a version is known by the run that created it
Categories == {"content", "source", "adjudicate"}

ASSUME RevisionAssumption ==
  /\ IsFiniteSet(Artifacts) /\ DataKinds \subseteq Artifacts
  /\ Contracts \subseteq Seq(StepKeys)
  /\ \A c \in Contracts : c # <<>> /\ Head(c) = "planning"
  /\ Outputs \in [StepKeys -> SUBSET Artifacts]
  /\ Outputs["planning"] = {} /\ Outputs["fetching_data"] = {}
  /\ Reads \in [StepKeys -> SUBSET Artifacts]
  /\ TaskArtifacts \subseteq Artifacts \ DataKinds /\ GaiaSteps \subseteq StepKeys
  /\ {MaxRuns, MaxOriginals, MaxFeedback, MaxPlans} \subseteq Nat \ {0}

(* What a compiled chain looks like: no step twice, one step for an        *)
(* artifact, and what a step reads is made before it and after the last    *)
(* Gaia step, since tasks read nothing but the versions their Contract     *)
(* names and the steps that read current ones come after all tasks.        *)
ChainOrder(chain) ==
  \A i, j \in 1..Len(chain) :
    /\ chain[i] = chain[j] \/ Outputs[chain[i]] \cap Outputs[chain[j]] # {} => i = j
    /\ \A s \in StepKeys :
         Outputs[s] \cap Outputs[chain[i]] # {} /\ Reads[s] \cap Outputs[chain[j]] # {} =>
           j <= i /\ \A k \in j..Len(chain) : chain[k] \notin GaiaSteps

ASSUME ReadAssumption ==
  /\ \A c \in Contracts : ChainOrder(c)
  /\ \A s \in StepKeys : Outputs[s] \cap (Adjudicable \cup {"literature_claims"}) # {} =>
       s = "reasoning_literature" /\ Reads[s] \cap Outputs[s] \subseteq {"literature_claims"}

VARIABLES
  run,        \* ResearchRunModel in order of creation: status, frozen chain, next step, parent, plan
  rows,       \* the artifacts that have a ResearchArtifact row
  latest,     \* ResearchArtifactModel.latest_version_id
  published,  \* run -> the artifacts it has published a version of
  madeFrom,   \* the current version of an artifact -> the versions its step read
  context,    \* RunStepContext.versions of the run under way
  feedback,   \* UserFeedbackModel
  plan        \* RevisionPlanModel with its decisions and confirmation

vars == <<run, rows, latest, published, madeFrom, context, feedback, plan>>

NoRun == [status |-> "none", chain |-> <<>>, needs |-> [s \in {} |-> {}], step |-> 1,
          parent |-> 0, plan |-> 0]
NoPlan == [parent |-> 0, feedback |-> {}, steps |-> {}, recompute |-> {},
           frozen |-> [a \in Artifacts |-> NoVersion], run |-> 0]
NoVersions == [a \in Artifacts |-> NoVersion]

Init ==
  /\ run = [r \in Runs |-> NoRun]
  /\ rows = {}
  /\ latest = NoVersions
  /\ published = [r \in Runs |-> {}]
  /\ madeFrom = [a \in Artifacts |-> NoVersions]
  /\ context = NoVersions
  /\ feedback = {}
  /\ plan = [p \in Plans |-> NoPlan]

Keys(chain) == {chain[i] : i \in 1..Len(chain)}
Active(r) == run[r].status \in {"queued", "running"}
IsRevision(r) == run[r].plan # 0

(* create_run_in_session: one run that has not ended in a project.         *)
MayCreate(r) ==
  /\ run[r].status = "none"
  /\ \A q \in Runs : ~Active(q) /\ (q < r => run[q].status # "none")

(* The step before s in a chain, if there is one.                          *)
Before(chain, s) == {chain[i - 1] : i \in {i \in 2..Len(chain) : chain[i] = s}}

(* create_run: each step of the chain needs the one before it.             *)
CreateRun(r, chain) ==
  /\ MayCreate(r)
  /\ Cardinality({q \in Runs : run[q].status # "none" /\ ~IsRevision(q)}) < MaxOriginals
  /\ run' = [run EXCEPT ![r] =
       [status |-> "queued", chain |-> chain, needs |-> [s \in Keys(chain) |-> Before(chain, s)],
        step |-> 1, parent |-> 0, plan |-> 0]]
  /\ UNCHANGED <<rows, latest, published, madeFrom, context, feedback, plan>>

(* What the context of a worker covers.                                    *)
InContext(versions) ==
  [a \in Artifacts |-> IF a \in TaskArtifacts THEN NoVersion ELSE versions[a]]

(* Mutant: a row is made only when its first version is published.         *)
StartWithoutRows(r) ==
  /\ run[r].status = "queued" /\ ~IsRevision(r)
  /\ context' = InContext(latest)
  /\ run' = [run EXCEPT ![r].status = "running"]
  /\ UNCHANGED <<rows, latest, published, madeFrom, feedback, plan>>

(* _load_context of an original run: rows for what its steps may publish.  *)
StartOriginal(r) ==
  /\ run[r].status = "queued" /\ ~IsRevision(r)
  /\ LET targets == (UNION {Outputs[s] : s \in Keys(run[r].chain)}) \ TaskArtifacts
     IN /\ rows' = rows \cup targets
        /\ context' = [a \in Artifacts |-> IF a \in targets THEN latest[a] ELSE NoVersion]
  /\ run' = [run EXCEPT ![r].status = "running"]
  /\ UNCHANGED <<latest, published, madeFrom, feedback, plan>>

About(F) == {f.artifact : f \in F}
SourceFeedback(F) == {f \in F : f.category = "source"}
Adjudications(F) == {f \in F : f.category = "adjudicate"}
DataFeedback(F) == {f \in F : f.artifact \in DataKinds}

(* The step of a chain that publishes an artifact (producer_step_key).     *)
ProducerStep(chain, a) == CHOOSE s \in Keys(chain) : a \in Outputs[s]

(* Mutant: only feedback that is all about the sources acquires them again.*)
ReacquiredWhenAlone(chain, F) ==
  IF SourceFeedback(F) # F THEN {} ELSE Keys(chain) \cap {"fetching_data"}

(* Feedback on the sources themselves acquires them again, if the parent   *)
(* run did.                                                                *)
Reacquired(chain, F) ==
  IF SourceFeedback(F) = {} THEN {} ELSE Keys(chain) \cap {"fetching_data"}

AskedFor(chain, F) ==
  {ProducerStep(chain, a) : a \in About(F)} \cup Reacquired(chain, F)

(* The Gaia steps that are to make the data anew from what they acquired:  *)
(* no step after them follows.                                             *)
DataOnlySteps(chain, F) ==
  LET producers(G) == {ProducerStep(chain, a) : a \in About(G)}
  IN (producers(DataFeedback(F) \ SourceFeedback(F)) \cap GaiaSteps)
       \ (producers(F \ DataFeedback(F)) \cup producers(SourceFeedback(F)))

(* The loop over depends_on_step_keys ends with the least set that has     *)
(* the steps asked for and every step that needs one of it that others     *)
(* follow; planning is added after it.                                     *)
AffectedSteps(chain, needs, F) ==
  LET keys == Keys(chain)
      asked == AskedFor(chain, F)
      alone == DataOnlySteps(chain, F)
      closed == {S \in SUBSET keys :
                   asked \subseteq S /\ \A s \in keys \ S : needs[s] \cap (S \ alone) = {}}
  IN {"planning"} \cup {s \in keys : \A S \in closed : s \in S}

(* Of the current versions, those that a plan which executes steps S of    *)
(* run r replaces: all the data or none of it, and what r created in one   *)
(* of S, except for claims whose relations are decided and for the reports *)
(* of steps that only make the data anew.                                  *)
Recomputed(r, chain, current, F, S) ==
  LET alone == DataOnlySteps(chain, F)
  IN {a \in Artifacts : current[a] # NoVersion /\
        \/ DataFeedback(F) # {} /\ a \in DataKinds
        \/ /\ current[a] = r /\ ProducerStep(chain, a) \in S
           /\ ~ (ProducerStep(chain, a) \in alone /\ a \notin DataKinds)
           /\ ~ (Adjudications(F) # {} /\ a = "literature_claims")}

Frozen(p) == {a \in Artifacts : plan[p].frozen[a] # NoVersion}

(* DataRevisionContextLoader.load: the frozen versions are still current,  *)
(* and the data artifacts are all there, from one build, with one decision.*)
FrozenAreCurrent(p) == \A a \in Frozen(p) : latest[a] = plan[p].frozen[a]

DataBundleIsWhole(p) ==
  \/ Frozen(p) \cap DataKinds = {}
  \/ /\ DataKinds \subseteq Frozen(p)
     /\ Cardinality({plan[p].frozen[a] : a \in DataKinds}) = 1
     /\ plan[p].recompute \cap DataKinds \in {{}, DataKinds}

(* The preflight of a revision run: the frozen versions become its context,*)
(* or its first step fails it.                                             *)
StartRevision(r) ==
  /\ run[r].status = "queued" /\ IsRevision(r)
  /\ LET p == run[r].plan
         passes == FrozenAreCurrent(p) /\ DataBundleIsWhole(p)
     IN /\ run' = [run EXCEPT ![r].status = IF passes THEN "running" ELSE "failed"]
        /\ context' = IF passes THEN InContext(plan[p].frozen) ELSE context
  /\ UNCHANGED <<rows, latest, published, madeFrom, feedback, plan>>

(* Of the outputs of a step, those its runner leaves alone in a revision:  *)
(* the claims when the plan decides relations; in a Gaia step the data     *)
(* when the plan keeps it, and the report when the step is there for the   *)
(* data only, which it then makes from what was acquired before.           *)
KeptByRunner(p, s) ==
  LET dataAnew == plan[p].recompute \cap DataKinds # {}
      reportsAnew == plan[p].recompute \cap (Outputs[s] \ DataKinds) # {}
      reacquires == SourceFeedback(plan[p].feedback) # {}
  IN {a \in Outputs[s] :
        \/ Adjudications(plan[p].feedback) # {} /\ a = "literature_claims"
        \/ s \in GaiaSteps /\ a \in DataKinds /\ ~dataAnew
        \/ s \in GaiaSteps /\ a \notin DataKinds /\ dataAnew /\ ~reacquires /\ ~reportsAnew}

(* What the runner of the step at hand gives to publication.               *)
StepPublishes(r) ==
  LET s == run[r].chain[run[r].step]
  IN Outputs[s] \ (IF IsRevision(r) THEN KeptByRunner(run[r].plan, s) ELSE {})

(* _ensure_artifact_target: a task makes the row of its own artifact, in a *)
(* transaction before the one that publishes.                              *)
EnsureTarget(r) ==
  /\ run[r].status = "running"
  /\ ~(StepPublishes(r) \cap TaskArtifacts \subseteq rows)
  /\ rows' = rows \cup (StepPublishes(r) \cap TaskArtifacts)
  /\ UNCHANGED <<run, latest, published, madeFrom, context, feedback, plan>>

(* publish_step_outputs: each version supersedes the one the context has,  *)
(* or for a task the one its row has, which must be the current one; the   *)
(* last step completes the run.  A version is made from what its step read *)
(* or has just published.                                                  *)
Publish(r) ==
  /\ run[r].status = "running"
  /\ \A a \in StepPublishes(r) :
       IF a \in TaskArtifacts THEN a \in rows ELSE context[a] = latest[a]
  /\ LET s == run[r].chain[run[r].step]
         new == StepPublishes(r)
         moved(v) == [a \in Artifacts |-> IF a \in new THEN r ELSE v[a]]
     IN /\ latest' = moved(latest)
        /\ context' = IF run[r].step = Len(run[r].chain) THEN NoVersions
                      ELSE InContext(moved(context))
        /\ published' = [published EXCEPT ![r] = @ \cup new]
        /\ madeFrom' = [a \in Artifacts |->
             IF a \in new
             THEN [b \in Artifacts |-> IF b \in Reads[s] THEN moved(context)[b] ELSE NoVersion]
             ELSE madeFrom[a]]
  /\ run' = [run EXCEPT
       ![r].step = @ + 1,
       ![r].status = IF run[r].step = Len(run[r].chain) THEN "completed" ELSE @]
  /\ UNCHANGED <<rows, feedback, plan>>

(* A step fails for good, or the user cancels the run.                     *)
EndRun(r) ==
  /\ Active(r)
  /\ run' = [run EXCEPT ![r].status = "failed"]
  /\ context' = NoVersions
  /\ UNCHANGED <<rows, latest, published, madeFrom, feedback, plan>>

(* create_feedback: on the current version of an artifact.                 *)
CreateFeedback(a, category) ==
  /\ latest[a] # NoVersion
  /\ category = "source" => a = "source_collection"
  /\ category = "adjudicate" => a \in Adjudicable
  /\ Cardinality(feedback) < MaxFeedback
  /\ feedback' = feedback \cup {[artifact |-> a, baseline |-> latest[a], category |-> category]}
  /\ UNCHANGED <<run, rows, latest, published, madeFrom, context, plan>>

(* Whether run r is the parent of all of F and a plan may be made of it.   *)
Accepted(r, F) ==
  /\ F # {} /\ \A f \in F : f.baseline = r /\ latest[f.artifact] = r
  /\ run[r].status = "completed"
  /\ Adjudications(F) \in {{}, F}
  /\ DataFeedback(F) # {} =>
       \E s \in Keys(run[r].chain) : \A a \in DataKinds : latest[a] = r /\ a \in Outputs[s]

(* Every step of S has an output among the recomputed ones and none to     *)
(* keep, steps that only prepare others aside.                             *)
OutputsMatch(r, F, S, recomputed) ==
  LET chain == run[r].chain
      republishing == S \ ({"planning"} \cup Reacquired(chain, F))
  IN /\ republishing = {ProducerStep(chain, a) : a \in recomputed}
     /\ \A s \in republishing \ GaiaSteps : \A a \in Outputs[s] \cap published[r] :
          \/ a \in recomputed
          \/ /\ Adjudications(F) # {} /\ s = "reasoning_literature"
             /\ a = "literature_claims" /\ latest[a] # NoVersion

NextPlan(p) == plan[p] = NoPlan /\ \A q \in Plans : q < p => plan[q] # NoPlan

(* Mutant: the outputs of the steps are not looked at.                     *)
CreatePlanUnchecked(p, r, F) ==
  /\ NextPlan(p) /\ Accepted(r, F)
  /\ LET steps == AffectedSteps(run[r].chain, run[r].needs, F)
         recomputed == Recomputed(r, run[r].chain, latest, F, steps)
     IN /\ About(F) \subseteq recomputed
        /\ plan' = [plan EXCEPT ![p] = [parent |-> r, feedback |-> F, steps |-> steps,
             recompute |-> recomputed, frozen |-> latest, run |-> 0]]
  /\ UNCHANGED <<run, rows, latest, published, madeFrom, context, feedback>>

(* create_plan                                                             *)
CreatePlan(p, r, F) ==
  /\ NextPlan(p) /\ Accepted(r, F)
  /\ LET steps == AffectedSteps(run[r].chain, run[r].needs, F)
         recomputed == Recomputed(r, run[r].chain, latest, F, steps)
     IN /\ About(F) \subseteq recomputed
        /\ Cardinality(steps) >= 2
        /\ OutputsMatch(r, F, steps, recomputed)
        /\ plan' = [plan EXCEPT ![p] = [parent |-> r, feedback |-> F, steps |-> steps,
             recompute |-> recomputed, frozen |-> latest, run |-> 0]]
  /\ UNCHANGED <<run, rows, latest, published, madeFrom, context, feedback>>

(* compile_revision_run_plan: the steps kept, each needing those of its    *)
(* needs that are kept, or else the step before it.                        *)
DerivedChain(p) ==
  LET chain == run[plan[p].parent].chain
      kept == Ordered({i \in 1..Len(chain) : chain[i] \in plan[p].steps})
  IN [n \in 1..Len(kept) |-> chain[kept[n]]]

DerivedNeeds(p) ==
  [s \in plan[p].steps |->
     LET kept == run[plan[p].parent].needs[s] \cap plan[p].steps
     IN IF kept # {} THEN kept ELSE Before(DerivedChain(p), s)]

Derived(p) ==
  [status |-> "queued", chain |-> DerivedChain(p), needs |-> DerivedNeeds(p),
   step |-> 1, parent |-> plan[p].parent, plan |-> p]

(* Mutant: only the rows that have feedback are compared with the plan.    *)
ConfirmOtherVersions(p, r) ==
  /\ plan[p] # NoPlan /\ plan[p].run = 0 /\ MayCreate(r)
  /\ \A a \in About(plan[p].feedback) : latest[a] = plan[p].frozen[a]
  /\ run' = [run EXCEPT ![r] = Derived(p)]
  /\ plan' = [plan EXCEPT ![p].run = r]
  /\ UNCHANGED <<rows, latest, published, madeFrom, context, feedback>>

(* confirm_plan: every artifact row is frozen and has not moved.           *)
ConfirmPlan(p, r) ==
  /\ plan[p] # NoPlan /\ plan[p].run = 0 /\ MayCreate(r)
  /\ Cardinality(rows) = Cardinality(Frozen(p))
  /\ \A a \in rows : a \in Frozen(p) /\ latest[a] = plan[p].frozen[a]
  /\ run' = [run EXCEPT ![r] = Derived(p)]
  /\ plan' = [plan EXCEPT ![p].run = r]
  /\ UNCHANGED <<rows, latest, published, madeFrom, context, feedback>>

Next ==
  \/ \E r \in Runs :
       \/ \E c \in Contracts : CreateRun(r, c)
       \/ StartOriginal(r)
       \/ StartRevision(r)
       \/ EnsureTarget(r)
       \/ Publish(r)
       \/ EndRun(r)
  \/ \E a \in Artifacts, category \in Categories :
       CreateFeedback(a, category)
  \/ \E p \in Plans, r \in Runs :
       \/ \E F \in SUBSET feedback : CreatePlan(p, r, F)
       \/ ConfirmPlan(p, r)

Spec == Init /\ [][Next]_vars

TypeOK ==
  /\ \A r \in Runs :
       /\ run[r].status \in {"none", "queued", "running", "completed", "failed"}
       /\ run[r].step \in 1..Len(run[r].chain) + 1
       /\ run[r].parent \in 0..(r - 1) /\ run[r].plan \in 0..MaxPlans
  /\ rows \subseteq Artifacts /\ \A a \in Artifacts : latest[a] # NoVersion => a \in rows
  /\ latest \in [Artifacts -> 0..MaxRuns]
  /\ context \in [Artifacts -> 0..MaxRuns]
  /\ feedback \subseteq [artifact : Artifacts, baseline : Runs, category : Categories]

(* A confirmed revision stays executable on what it froze: from its        *)
(* confirmation until it ends, whatever requests and other runs do, each   *)
(* frozen version is current or has been superseded by the revision        *)
(* itself, and its worker agrees about which.                              *)
FrozenBaselinesHold ==
  \A r \in Runs : Active(r) /\ IsRevision(r) =>
    \A a \in Frozen(run[r].plan) :
      /\ \/ latest[a] = plan[run[r].plan].frozen[a]
         \/ latest[a] = r /\ a \in published[r]
      /\ run[r].status = "running" /\ a \notin TaskArtifacts => context[a] = latest[a]

(* A plan that can still be executed keeps no version, of the artifacts    *)
(* its parent's Contract is about, that was made from one it replaces: what*)
(* a revision reuses is up to date when it ends, whichever runs the current*)
(* versions came from.                                                     *)
ReusedOutputsAreUpToDate ==
  \A p \in Plans : plan[p] # NoPlan /\ FrozenAreCurrent(p) =>
    LET ofContract == UNION {Outputs[s] : s \in Keys(run[plan[p].parent].chain)}
    IN \A a \in (Frozen(p) \cap ofContract) \ plan[p].recompute, b \in plan[p].recompute :
         madeFrom[a][b] # latest[b]

(* Of two plans of one parent on the same versions, the one with more      *)
(* feedback executes and replaces no less, unless what it adds makes a     *)
(* Gaia step one that only makes the data anew.                            *)
MoreFeedbackRepeatsMore ==
  \A p, q \in Plans :
    LET chain == run[plan[p].parent].chain
    IN plan[p] # NoPlan /\ plan[q] # NoPlan
         /\ plan[p].parent = plan[q].parent /\ plan[p].frozen = plan[q].frozen
         /\ plan[p].feedback \subseteq plan[q].feedback
         /\ DataOnlySteps(chain, plan[q].feedback) \subseteq DataOnlySteps(chain, plan[p].feedback)
       => plan[p].steps \subseteq plan[q].steps /\ plan[p].recompute \subseteq plan[q].recompute

(* docs/architecture/DATA_VERSIONING.md:64: adding feedback must not make  *)
(* the closure of what is recomputed smaller.                              *)
AddingFeedbackNeverShrinks ==
  \A p, q \in Plans :
    plan[p].parent = plan[q].parent /\ plan[p].frozen = plan[q].frozen
      /\ plan[p].feedback \subseteq plan[q].feedback =>
        plan[p].steps \subseteq plan[q].steps /\ plan[p].recompute \subseteq plan[q].recompute
====
