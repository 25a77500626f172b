---- MODULE RevisionPlansProofs ----
(***************************************************************************)
(* For any Contracts, any number of runs, plans and feedback: a confirmed  *)
(* revision stays executable on the versions it froze; more feedback       *)
(* executes and replaces no less, as long as it makes no other Gaia step   *)
(* one that only makes the data anew; and what a plan keeps was not made   *)
(* from anything it replaces.                                              *)
(***************************************************************************)
EXTENDS RevisionPlans, FiniteSetTheorems, TLAPS

Statuses == {"none", "queued", "running", "completed", "failed"}

(* The shape of the records the argument looks at; C, N and T stand for    *)
(* what it does not look into.                                             *)
RunRows(C, N) == [status : Statuses, chain : C, needs : N, step : Nat, parent : Nat, plan : Nat]
PlanRows(T) == [parent : Nat, feedback : T, steps : T, recompute : SUBSET Artifacts,
                frozen : [Artifacts -> Nat], run : Nat]

ShapeOK ==
  /\ \E C, N : run \in [Runs -> RunRows(C, N)]
  /\ \E T : plan \in [Plans -> PlanRows(T)]
  /\ latest \in [Artifacts -> Nat]
  /\ published = [r \in Runs |-> published[r]]

OneActive == \A q, r \in Runs : Active(q) /\ Active(r) => q = r

(* A revision run's plan has been made.                                    *)
RevisionsHavePlans ==
  \A r \in Runs : IsRevision(r) => run[r].plan \in Plans /\ plan[run[r].plan] # NoPlan

(* A plan is what create_plan makes of its feedback, its parent's chain    *)
(* and the versions it froze.                                              *)
IsProposal(x, chain, needs) ==
  /\ Adjudications(x.feedback) \in {{}, x.feedback} /\ x.feedback # {}
  /\ x.steps = AffectedSteps(chain, needs, x.feedback)
  /\ x.recompute = Recomputed(x.parent, chain, x.frozen, x.feedback, x.steps)

PlansAreProposals ==
  \A p \in Plans : plan[p] # NoPlan =>
    /\ plan[p].parent \in Runs /\ run[plan[p].parent].status = "completed"
    /\ IsProposal(plan[p], run[plan[p].parent].chain, run[plan[p].parent].needs)

RevisionInv ==
  ShapeOK /\ OneActive /\ RevisionsHavePlans /\ FrozenBaselinesHold /\ PlansAreProposals

----
(* More feedback asks for more steps, and whatever needs them follows if   *)
(* the steps that nothing follows are no more.                             *)
LEMMA AffectedGrow ==
  ASSUME NEW chain, NEW needs, NEW F, NEW G, F \subseteq G,
         DataOnlySteps(chain, G) \subseteq DataOnlySteps(chain, F)
  PROVE  AffectedSteps(chain, needs, F) \subseteq AffectedSteps(chain, needs, G)
<1>1. About(F) \subseteq About(G) /\ SourceFeedback(F) \subseteq SourceFeedback(G)
  BY DEF About, SourceFeedback
<1>2. Reacquired(chain, F) \subseteq Reacquired(chain, G)
  BY <1>1 DEF Reacquired
<1>3. AskedFor(chain, F) \subseteq AskedFor(chain, G)
  BY <1>1, <1>2 DEF AskedFor
<1> QED
  BY <1>3 DEF AffectedSteps

(* Claims are kept only when all feedback decides relations, and then more *)
(* feedback that may join it does so too.                                  *)
LEMMA ProposalsGrow ==
  ASSUME NEW chain, NEW needs, NEW x, NEW y,
         IsProposal(x, chain, needs), IsProposal(y, chain, needs),
         x.parent = y.parent, x.frozen = y.frozen, x.feedback \subseteq y.feedback,
         DataOnlySteps(chain, y.feedback) \subseteq DataOnlySteps(chain, x.feedback)
  PROVE  x.steps \subseteq y.steps /\ x.recompute \subseteq y.recompute
<1>1. x.steps \subseteq y.steps
  BY AffectedGrow DEF IsProposal
<1>2. DataFeedback(x.feedback) \subseteq DataFeedback(y.feedback)
  BY DEF DataFeedback
<1>3. Adjudications(y.feedback) # {} => Adjudications(x.feedback) # {}
  <2>1. SUFFICES ASSUME Adjudications(y.feedback) = y.feedback
                 PROVE  Adjudications(x.feedback) # {}
    BY DEF IsProposal
  <2> QED
    BY <2>1 DEF Adjudications, IsProposal
<1>4. x.recompute = Recomputed(x.parent, chain, x.frozen, x.feedback, x.steps)
  BY DEF IsProposal
<1>5. y.recompute = Recomputed(x.parent, chain, x.frozen, y.feedback, y.steps)
  BY DEF IsProposal
<1>6. ASSUME NEW a \in Recomputed(x.parent, chain, x.frozen, x.feedback, x.steps)
      PROVE  a \in Recomputed(x.parent, chain, x.frozen, y.feedback, y.steps)
  BY <1>1, <1>2, <1>3, <1>6 DEF Recomputed
<1> QED
  BY <1>1, <1>4, <1>5, <1>6

LEMMA InvImpliesGrowth == RevisionInv => MoreFeedbackRepeatsMore
<1> SUFFICES ASSUME RevisionInv, NEW p \in Plans, NEW q \in Plans,
                    plan[p] # NoPlan, plan[q] # NoPlan,
                    plan[p].parent = plan[q].parent, plan[p].frozen = plan[q].frozen,
                    plan[p].feedback \subseteq plan[q].feedback,
                    DataOnlySteps(run[plan[p].parent].chain, plan[q].feedback)
                      \subseteq DataOnlySteps(run[plan[p].parent].chain, plan[p].feedback)
             PROVE  /\ plan[p].steps \subseteq plan[q].steps
                    /\ plan[p].recompute \subseteq plan[q].recompute
  BY DEF MoreFeedbackRepeatsMore
<1> QED
  BY ProposalsGrow DEF RevisionInv, PlansAreProposals

----
(* A step that changes runs only by advancing or ending active ones.       *)
Advances(q) ==
  /\ run'[q].chain = run[q].chain /\ run'[q].needs = run[q].needs /\ run'[q].plan = run[q].plan
  /\ run'[q].status \in {"queued", "running"} => run[q].status \in {"queued", "running"}
  /\ run[q].status = "completed" => run'[q].status = "completed"

LEMMA AdvancingKeeps ==
  ASSUME RevisionInv, UNCHANGED plan, \A q \in Runs : Advances(q)
  PROVE  OneActive' /\ RevisionsHavePlans' /\ PlansAreProposals'
<1>1. OneActive'
  BY DEF RevisionInv, OneActive, Active, Advances
<1>2. RevisionsHavePlans'
  BY DEF RevisionInv, RevisionsHavePlans, IsRevision, Advances
<1>3. PlansAreProposals'
  BY DEF RevisionInv, PlansAreProposals, Advances
<1> QED
  BY <1>1, <1>2, <1>3

(* A run that gets another status.                                         *)
LEMMA StatusChanges ==
  ASSUME RevisionInv, NEW r \in Runs, NEW s \in Statuses, Active(r),
         run' = [run EXCEPT ![r].status = s]
  PROVE  /\ \E C, N : run' \in [Runs -> RunRows(C, N)]
         /\ \A q \in Runs : Advances(q)
         /\ run'[r].status = s /\ \A q \in Runs \ {r} : run'[q] = run[q]
<1>1. PICK C, N : run \in [Runs -> RunRows(C, N)]
  BY DEF RevisionInv, ShapeOK
<1>2. run' \in [Runs -> RunRows(C, N)]
  BY <1>1 DEF RunRows
<1>3. run'[r] = [run[r] EXCEPT !.status = s] /\ \A q \in Runs \ {r} : run'[q] = run[q]
  BY <1>1
<1>4. Advances(r) /\ run'[r].status = s
  BY <1>1, <1>3 DEF RunRows, Advances, Active
<1> QED
  BY <1>2, <1>3, <1>4 DEF Advances

----
LEMMA InitOK == Init => RevisionInv
<1> SUFFICES ASSUME Init PROVE RevisionInv
  OBVIOUS
<1> USE RevisionAssumption
<1>1. run \in [Runs -> RunRows({<<>>}, {[s \in {} |-> {}]})]
  BY DEF Init, NoRun, RunRows, Statuses
<1>2. plan \in [Plans -> PlanRows({{}})]
  BY DEF Init, NoPlan, PlanRows, NoVersion
<1>3. latest \in [Artifacts -> Nat] /\ published = [r \in Runs |-> published[r]]
  BY DEF Init, NoVersions, NoVersion
<1>4. \A r \in Runs : ~Active(r) /\ ~IsRevision(r)
  BY DEF Init, NoRun, Active, IsRevision
<1>5. \A p \in Plans : plan[p] = NoPlan
  BY DEF Init
<1> QED
  BY <1>1, <1>2, <1>3, <1>4, <1>5
     DEF RevisionInv, ShapeOK, OneActive, RevisionsHavePlans, FrozenBaselinesHold,
         PlansAreProposals

LEMMA CreateRunKeeps ==
  ASSUME RevisionInv, NEW r \in Runs, NEW c \in Contracts, CreateRun(r, c)
  PROVE  RevisionInv'
<1> DEFINE new == [status |-> "queued", chain |-> c,
                   needs |-> [s \in Keys(c) |-> Before(c, s)],
                   step |-> 1, parent |-> 0, plan |-> 0]
<1>1. PICK C, N : run \in [Runs -> RunRows(C, N)]
  BY DEF RevisionInv, ShapeOK
<1>2. run' = [run EXCEPT ![r] = new] /\ run[r].status = "none" /\ \A q \in Runs : ~Active(q)
  BY DEF CreateRun, MayCreate
<1>3. run' \in [Runs -> RunRows(C \cup {c}, N \cup {new.needs})]
  BY <1>1, <1>2 DEF RunRows, Statuses
<1>4. run'[r] = new /\ \A q \in Runs \ {r} : run'[q] = run[q]
  BY <1>1, <1>2
<1>5. UNCHANGED <<rows, latest, published, madeFrom, context, feedback, plan>>
  BY DEF CreateRun
<1>6. ShapeOK'
  BY <1>3, <1>5 DEF RevisionInv, ShapeOK
<1>7. OneActive' /\ \A q \in Runs \ {r} : ~Active(q)'
  BY <1>2, <1>4 DEF OneActive, Active
<1>8. ~IsRevision(r)'
  BY <1>4 DEF IsRevision
<1>9. RevisionsHavePlans' /\ FrozenBaselinesHold'
  BY <1>4, <1>5, <1>7, <1>8
     DEF RevisionInv, RevisionsHavePlans, FrozenBaselinesHold, IsRevision
<1>10. PlansAreProposals'
  BY <1>2, <1>4, <1>5 DEF RevisionInv, PlansAreProposals
<1> QED
  BY <1>6, <1>7, <1>9, <1>10 DEF RevisionInv

LEMMA StartOriginalKeeps ==
  ASSUME RevisionInv, NEW r \in Runs, StartOriginal(r)
  PROVE  RevisionInv'
<1>1. /\ Active(r) /\ ~IsRevision(r) /\ run' = [run EXCEPT ![r].status = "running"]
      /\ UNCHANGED <<latest, published, plan>>
  BY DEF StartOriginal, Active
<1>2. /\ \E C, N : run' \in [Runs -> RunRows(C, N)]
      /\ \A q \in Runs : Advances(q)
      /\ \A q \in Runs \ {r} : run'[q] = run[q]
  BY <1>1, StatusChanges DEF Statuses
<1>3. OneActive' /\ RevisionsHavePlans' /\ PlansAreProposals'
  BY <1>1, <1>2, AdvancingKeeps
<1>4. ShapeOK'
  BY <1>1, <1>2 DEF RevisionInv, ShapeOK
<1>5. ~IsRevision(r)' /\ \A q \in Runs \ {r} : ~Active(q)'
  BY <1>1, <1>2 DEF RevisionInv, OneActive, Active, IsRevision, Advances
<1>6. FrozenBaselinesHold'
  BY <1>5 DEF FrozenBaselinesHold
<1> QED
  BY <1>3, <1>4, <1>6 DEF RevisionInv

LEMMA StartRevisionKeeps ==
  ASSUME RevisionInv, NEW r \in Runs, StartRevision(r)
  PROVE  RevisionInv'
<1> DEFINE passes == FrozenAreCurrent(run[r].plan) /\ DataBundleIsWhole(run[r].plan)
           status == IF passes THEN "running" ELSE "failed"
<1>1. /\ Active(r) /\ IsRevision(r) /\ run' = [run EXCEPT ![r].status = status]
      /\ passes => context' = InContext(plan[run[r].plan].frozen)
      /\ UNCHANGED <<latest, published, plan>>
  BY DEF StartRevision, Active
<1>2. status \in Statuses
  BY DEF Statuses
<1>3. /\ \E C, N : run' \in [Runs -> RunRows(C, N)]
      /\ \A q \in Runs : Advances(q)
      /\ run'[r].status = status /\ \A q \in Runs \ {r} : run'[q] = run[q]
  BY <1>1, <1>2, StatusChanges
<1>4. OneActive' /\ RevisionsHavePlans' /\ PlansAreProposals'
  BY <1>1, <1>3, AdvancingKeeps
<1>5. ShapeOK'
  BY <1>1, <1>3 DEF RevisionInv, ShapeOK
<1>6. \A q \in Runs \ {r} : ~Active(q)'
  BY <1>1, <1>3 DEF RevisionInv, OneActive, Active, Advances
<1>7. FrozenBaselinesHold'
  <2>1. SUFFICES ASSUME Active(r)', IsRevision(r)', NEW a \in Frozen(run[r].plan)'
                 PROVE  /\ \/ latest'[a] = plan'[run'[r].plan].frozen[a]
                           \/ latest'[a] = r /\ a \in published'[r]
                        /\ run'[r].status = "running" /\ a \notin TaskArtifacts
                             => context'[a] = latest'[a]
    BY <1>6 DEF FrozenBaselinesHold
  <2>2. passes
    BY <1>3, <2>1 DEF Active
  <2>3. run'[r].plan = run[r].plan
    BY <1>3 DEF Advances
  <2>4. a \in Frozen(run[r].plan)
    BY <1>1, <2>3 DEF Frozen
  <2>5. latest[a] = plan[run[r].plan].frozen[a]
    BY <2>2, <2>4 DEF FrozenAreCurrent
  <2> QED
    BY <1>1, <2>2, <2>3, <2>4, <2>5 DEF InContext, Frozen
<1> QED
  BY <1>4, <1>5, <1>7 DEF RevisionInv

LEMMA PublishKeeps ==
  ASSUME RevisionInv, NEW r \in Runs, Publish(r)
  PROVE  RevisionInv'
<1> DEFINE new == StepPublishes(r)
           status == IF run[r].step = Len(run[r].chain) THEN "completed" ELSE run[r].status
<1>1. /\ run[r].status = "running"
      /\ run' = [run EXCEPT ![r].step = @ + 1, ![r].status = status]
      /\ latest' = [a \in Artifacts |-> IF a \in new THEN r ELSE latest[a]]
      /\ status = "running" =>
           context' = InContext([a \in Artifacts |-> IF a \in new THEN r ELSE context[a]])
      /\ published' = [published EXCEPT ![r] = @ \cup new]
      /\ plan' = plan
  BY DEF Publish
<1>2. PICK C, N : run \in [Runs -> RunRows(C, N)]
  BY DEF RevisionInv, ShapeOK
<1>3. run' \in [Runs -> RunRows(C, N)]
  <2>1. status \in Statuses /\ run[r] \in RunRows(C, N)
    BY <1>1, <1>2 DEF Statuses
  <2>2. DEFINE row == [run[r] EXCEPT !.step = @ + 1, !.status = status]
  <2>3. row \in RunRows(C, N)
    <3> HIDE DEF status
    <3>1. [run[r] EXCEPT !.status = status] \in RunRows(C, N)
      BY <2>1 DEF RunRows
    <3>2. row = [[run[r] EXCEPT !.status = status] EXCEPT !.step = run[r].step + 1]
      BY <2>1 DEF RunRows
    <3>3. run[r].step + 1 \in Nat
      BY <2>1 DEF RunRows
    <3> QED
      BY <3>1, <3>2, <3>3 DEF RunRows
  <2>4. run' = [run EXCEPT ![r] = row]
    BY <1>1, <1>2
  <2> HIDE DEF row
  <2> QED
    BY <1>2, <2>3, <2>4
<1>4. \A q \in Runs \ {r} : run'[q] = run[q]
  BY <1>1, <1>2
<1>5. Advances(r)
  BY <1>1, <1>2 DEF RunRows, Advances
<1>6. \A q \in Runs : Advances(q)
  BY <1>4, <1>5 DEF Advances
<1>7. OneActive' /\ RevisionsHavePlans' /\ PlansAreProposals'
  BY <1>1, <1>6, AdvancingKeeps
<1>8. latest' \in [Artifacts -> Nat]
  BY <1>1 DEF RevisionInv, ShapeOK, Runs
<1>9. published = [q \in Runs |-> published[q]] /\ published' = [q \in Runs |-> published'[q]]
  BY <1>1 DEF RevisionInv, ShapeOK
<1>10. ShapeOK'
  BY <1>1, <1>3, <1>8, <1>9 DEF RevisionInv, ShapeOK
<1>11. \A q \in Runs \ {r} : ~Active(q)'
  BY <1>1, <1>4 DEF RevisionInv, OneActive, Active
<1>12. FrozenBaselinesHold'
  <2>1. SUFFICES ASSUME Active(r)', IsRevision(r)', NEW a \in Frozen(run[r].plan)'
                 PROVE  /\ \/ latest'[a] = plan'[run'[r].plan].frozen[a]
                           \/ latest'[a] = r /\ a \in published'[r]
                        /\ run'[r].status = "running" /\ a \notin TaskArtifacts
                             => context'[a] = latest'[a]
    BY <1>11 DEF FrozenBaselinesHold
  <2>2. run'[r].plan = run[r].plan
    BY <1>5 DEF Advances
  <2>3. a \in Frozen(run[r].plan) /\ a \in Artifacts /\ Active(r) /\ IsRevision(r)
    BY <1>1, <2>1, <2>2 DEF Frozen, Active, IsRevision
  <2>4. /\ \/ latest[a] = plan[run[r].plan].frozen[a]
           \/ latest[a] = r /\ a \in published[r]
        /\ a \notin TaskArtifacts => context[a] = latest[a]
    BY <1>1, <2>3 DEF RevisionInv, FrozenBaselinesHold
  <2>5. published'[r] = published[r] \cup new
    BY <1>1, <1>9
  <2>6. run'[r].status = status
    BY <1>1, <1>2 DEF RunRows
  <2>7. a \notin TaskArtifacts /\ status = "running" => context'[a] = latest'[a]
    BY <1>1, <2>3, <2>4 DEF InContext
  <2> QED
    BY <1>1, <2>2, <2>3, <2>4, <2>5, <2>6, <2>7
<1> QED
  BY <1>7, <1>10, <1>12 DEF RevisionInv

LEMMA EndRunKeeps ==
  ASSUME RevisionInv, NEW r \in Runs, EndRun(r)
  PROVE  RevisionInv'
<1>1. /\ Active(r) /\ run' = [run EXCEPT ![r].status = "failed"]
      /\ UNCHANGED <<latest, published, plan>>
  BY DEF EndRun
<1>2. /\ \E C, N : run' \in [Runs -> RunRows(C, N)]
      /\ \A q \in Runs : Advances(q)
      /\ run'[r].status = "failed" /\ \A q \in Runs \ {r} : run'[q] = run[q]
  BY <1>1, StatusChanges DEF Statuses
<1>3. OneActive' /\ RevisionsHavePlans' /\ PlansAreProposals'
  BY <1>1, <1>2, AdvancingKeeps
<1>4. ShapeOK'
  BY <1>1, <1>2 DEF RevisionInv, ShapeOK
<1>5. \A q \in Runs : ~Active(q)'
  BY <1>1, <1>2 DEF RevisionInv, OneActive, Active
<1>6. FrozenBaselinesHold'
  BY <1>5 DEF FrozenBaselinesHold
<1> QED
  BY <1>3, <1>4, <1>6 DEF RevisionInv

(* A new plan is referred to by no run.                                    *)
LEMMA CreatePlanKeeps ==
  ASSUME RevisionInv, NEW p \in Plans, NEW r \in Runs, NEW F \in SUBSET feedback,
         CreatePlan(p, r, F)
  PROVE  RevisionInv'
<1> DEFINE steps == AffectedSteps(run[r].chain, run[r].needs, F)
           new == [parent |-> r, feedback |-> F, steps |-> steps,
                   recompute |-> Recomputed(r, run[r].chain, latest, F, steps),
                   frozen |-> latest, run |-> 0]
<1>1. /\ plan[p] = NoPlan /\ Accepted(r, F) /\ plan' = [plan EXCEPT ![p] = new]
      /\ UNCHANGED <<run, latest, published, context>>
  BY DEF CreatePlan, NextPlan
<1>2. PICK T : plan \in [Plans -> PlanRows(T)]
  BY DEF RevisionInv, ShapeOK
<1>3. new \in PlanRows(T \cup {F, steps})
  BY DEF PlanRows, RevisionInv, ShapeOK, Recomputed, Runs
<1>4. plan' \in [Plans -> PlanRows(T \cup {F, steps})]
  <2>1. \A x \in PlanRows(T) : x \in PlanRows(T \cup {F, steps})
    BY DEF PlanRows
  <2> QED
    BY <1>1, <1>2, <1>3, <2>1
<1>5. ShapeOK'
  BY <1>1, <1>4 DEF RevisionInv, ShapeOK
<1>6. plan'[p] = new /\ \A q \in Plans \ {p} : plan'[q] = plan[q]
  BY <1>1, <1>2
<1>7. new # NoPlan
  <2>1. new.parent = r /\ NoPlan.parent = 0 /\ r # 0
    BY DEF NoPlan, Runs
  <2> QED
    BY <2>1
<1>8. \A q \in Runs : IsRevision(q) => run[q].plan # p
  BY <1>1 DEF RevisionInv, RevisionsHavePlans
<1>9. OneActive' /\ RevisionsHavePlans'
  BY <1>1, <1>6, <1>7 DEF RevisionInv, OneActive, Active, RevisionsHavePlans, IsRevision
<1>10. FrozenBaselinesHold'
  <2>1. \A q \in Runs : IsRevision(q) => plan'[run[q].plan] = plan[run[q].plan]
    BY <1>6, <1>8 DEF RevisionInv, RevisionsHavePlans
  <2> QED
    BY <1>1, <2>1 DEF RevisionInv, FrozenBaselinesHold, Active, IsRevision, Frozen
<1>11. PlansAreProposals'
  <2>1. run[r].status = "completed" /\ F # {} /\ Adjudications(F) \in {{}, F}
    BY <1>1 DEF Accepted
  <2>2. IsProposal(new, run[r].chain, run[r].needs)
    BY <2>1 DEF IsProposal
  <2> QED
    BY <1>1, <1>6, <2>1, <2>2 DEF RevisionInv, PlansAreProposals
<1> QED
  BY <1>5, <1>9, <1>10, <1>11 DEF RevisionInv

(* Nothing is active when a plan is confirmed, and all that is there is    *)
(* frozen and current.                                                     *)
LEMMA ConfirmPlanKeeps ==
  ASSUME RevisionInv, NEW p \in Plans, NEW r \in Runs, ConfirmPlan(p, r)
  PROVE  RevisionInv'
<1>1. /\ plan[p] # NoPlan /\ run[r].status = "none" /\ \A q \in Runs : ~Active(q)
      /\ Cardinality(rows) = Cardinality(Frozen(p))
      /\ \A a \in rows : a \in Frozen(p) /\ latest[a] = plan[p].frozen[a]
      /\ run' = [run EXCEPT ![r] = Derived(p)]
      /\ plan' = [plan EXCEPT ![p].run = r]
      /\ UNCHANGED <<latest, published, context>>
  BY DEF ConfirmPlan, MayCreate
<1>2. PICK C, N : run \in [Runs -> RunRows(C, N)]
  BY DEF RevisionInv, ShapeOK
<1>3. PICK T : plan \in [Plans -> PlanRows(T)]
  BY DEF RevisionInv, ShapeOK
<1>4. /\ plan' \in [Plans -> PlanRows(T)] /\ \A q \in Plans \ {p} : plan'[q] = plan[q]
      /\ plan'[p] = [plan[p] EXCEPT !.run = r]
  BY <1>1, <1>3 DEF PlanRows, Runs
<1>5. /\ plan'[p].parent = plan[p].parent /\ plan'[p].feedback = plan[p].feedback
      /\ plan'[p].steps = plan[p].steps /\ plan'[p].recompute = plan[p].recompute
      /\ plan'[p].frozen = plan[p].frozen /\ plan'[p].run # 0
  BY <1>3, <1>4 DEF PlanRows, Runs
<1>6. plan'[p] # NoPlan
  BY <1>5 DEF NoPlan
<1>7. /\ Derived(p).status = "queued" /\ Derived(p).plan = p
      /\ Derived(p) \in RunRows(C \cup {DerivedChain(p)}, N \cup {DerivedNeeds(p)})
  BY <1>3 DEF Derived, RunRows, Statuses, PlanRows, Plans
<1>8. run' \in [Runs -> RunRows(C \cup {DerivedChain(p)}, N \cup {DerivedNeeds(p)})]
  <2>1. \A x \in RunRows(C, N) : x \in RunRows(C \cup {DerivedChain(p)}, N \cup {DerivedNeeds(p)})
    BY DEF RunRows
  <2> QED
    BY <1>1, <1>2, <1>7, <2>1
<1>9. run'[r] = Derived(p) /\ \A q \in Runs \ {r} : run'[q] = run[q]
  BY <1>1, <1>2
<1>10. ShapeOK'
  BY <1>1, <1>4, <1>8 DEF RevisionInv, ShapeOK
<1>11. OneActive' /\ \A q \in Runs \ {r} : ~Active(q)'
  BY <1>1, <1>9 DEF OneActive, Active
<1>12. RevisionsHavePlans'
  BY <1>4, <1>6, <1>7, <1>9 DEF RevisionInv, RevisionsHavePlans, IsRevision
<1>13. FrozenBaselinesHold'
  <2>1. rows = Frozen(p)
    <3>1. rows \subseteq Frozen(p) /\ Frozen(p) \subseteq Artifacts
      BY <1>1 DEF Frozen
    <3>2. IsFiniteSet(Frozen(p))
      BY <3>1, FS_Subset, RevisionAssumption
    <3> QED
      BY <1>1, <3>1, <3>2, FS_Subset
  <2>2. \A a \in Frozen(p) : latest[a] = plan[p].frozen[a]
    BY <1>1, <2>1
  <2>3. Frozen(p)' = Frozen(p)
    BY <1>5 DEF Frozen
  <2>4. run'[r].status = "queued" /\ run'[r].plan = p
    BY <1>7, <1>9
  <2>5. \A a \in Frozen(p)' : latest'[a] = plan'[p].frozen[a]
    BY <1>1, <1>5, <2>2, <2>3
  <2> QED
    BY <1>11, <2>4, <2>5 DEF FrozenBaselinesHold
<1>14. PlansAreProposals'
  <2>1. \A q \in Plans : plan[q] # NoPlan => plan[q].parent # r
    BY <1>1 DEF RevisionInv, PlansAreProposals
  <2>2. ASSUME NEW q \in Plans, plan'[q] # NoPlan
        PROVE  /\ plan'[q].parent \in Runs /\ run'[plan'[q].parent].status = "completed"
               /\ IsProposal(plan'[q], run'[plan'[q].parent].chain, run'[plan'[q].parent].needs)
    <3>1. /\ plan[q] # NoPlan
          /\ plan'[q].parent = plan[q].parent /\ plan'[q].feedback = plan[q].feedback
          /\ plan'[q].steps = plan[q].steps /\ plan'[q].recompute = plan[q].recompute
          /\ plan'[q].frozen = plan[q].frozen
      BY <1>1, <1>4, <1>5, <2>2
    <3>2. plan[q].parent \in Runs /\ run'[plan[q].parent] = run[plan[q].parent]
      BY <1>9, <2>1, <3>1 DEF RevisionInv, PlansAreProposals
    <3>3. /\ run[plan[q].parent].status = "completed"
          /\ IsProposal(plan[q], run[plan[q].parent].chain, run[plan[q].parent].needs)
      BY <3>1 DEF RevisionInv, PlansAreProposals
    <3> QED
      BY <3>1, <3>2, <3>3 DEF IsProposal
  <2> QED
    BY <2>2 DEF PlansAreProposals
<1> QED
  BY <1>10, <1>11, <1>12, <1>13, <1>14 DEF RevisionInv

LEMMA StepKeeps == RevisionInv /\ [Next]_vars => RevisionInv'
<1> SUFFICES ASSUME RevisionInv, [Next]_vars PROVE RevisionInv'
  OBVIOUS
<1>1. CASE UNCHANGED <<run, latest, published, context, plan>>
  BY <1>1 DEF RevisionInv, ShapeOK, OneActive, Active, RevisionsHavePlans, IsRevision,
              FrozenBaselinesHold, Frozen, PlansAreProposals
<1>2. CASE \E r \in Runs : \E c \in Contracts : CreateRun(r, c)
  BY <1>2, CreateRunKeeps
<1>3. CASE \E r \in Runs : StartOriginal(r)
  BY <1>3, StartOriginalKeeps
<1>4. CASE \E r \in Runs : StartRevision(r)
  BY <1>4, StartRevisionKeeps
<1>5. CASE \E r \in Runs : Publish(r)
  BY <1>5, PublishKeeps
<1>6. CASE \E r \in Runs : EndRun(r)
  BY <1>6, EndRunKeeps
<1>7. CASE \E a \in Artifacts, category \in Categories : CreateFeedback(a, category)
  BY <1>1, <1>7 DEF CreateFeedback
<1>8. CASE \E p \in Plans, r \in Runs : \E F \in SUBSET feedback : CreatePlan(p, r, F)
  BY <1>8, CreatePlanKeeps
<1>9. CASE \E p \in Plans, r \in Runs : ConfirmPlan(p, r)
  BY <1>9, ConfirmPlanKeeps
<1>10. CASE \E r \in Runs : EnsureTarget(r)
  BY <1>1, <1>10 DEF EnsureTarget
<1>11. CASE UNCHANGED vars
  BY <1>1, <1>11 DEF vars
<1> QED
  BY <1>2, <1>3, <1>4, <1>5, <1>6, <1>7, <1>8, <1>9, <1>10, <1>11 DEF Next

THEOREM RevisionSafety == Spec => []RevisionInv
<1> QED
  BY InitOK, StepKeeps, PTL DEF Spec

(* The versions a confirmed plan froze are what its run executes on: the   *)
(* preflight of the run never finds one of them replaced, although feedback*)
(* is given and plans are made meanwhile (confirm_plan, load).             *)
THEOREM RevisionsStayExecutable == Spec => []FrozenBaselinesHold
<1>1. RevisionInv => FrozenBaselinesHold
  BY DEF RevisionInv
<1> QED
  BY <1>1, RevisionSafety, PTL

(* For every chain and all feedback, the affected closure and the decisions*)
(* of create_plan grow with the feedback, data-only steps aside.           *)
THEOREM MoreFeedbackNeverShrinks == Spec => []MoreFeedbackRepeatsMore
<1> QED
  BY InvImpliesGrowth, RevisionSafety, PTL

----
(* A finite set of numbers is enumerated in its order and without omission:*)
(* the ranks of its members grow with them, and are as many as the members.*)
LEMMA OrderedIsAll ==
  ASSUME NEW S \in SUBSET Nat, IsFiniteSet(S)
  PROVE  /\ Ordered(S) \in Seq(S)
         /\ \A i \in S : \E n \in 1..Len(Ordered(S)) : Ordered(S)[n] = i
         /\ \A m, n \in 1..Len(Ordered(S)) : m < n => Ordered(S)[m] < Ordered(S)[n]
<1> DEFINE upTo(i) == {j \in S : j <= i}
           rank == [i \in S |-> Cardinality(upTo(i))]
           ranks == 1..Cardinality(S)
<1>1. Cardinality(S) \in Nat
  BY FS_CardinalityType
<1>2. IsFiniteSet(ranks) /\ Cardinality(ranks) = Cardinality(S)
  BY <1>1, FS_Interval
<1>3. ASSUME NEW i \in S PROVE IsFiniteSet(upTo(i)) /\ Cardinality(upTo(i)) \in ranks
  <2>1. upTo(i) \in SUBSET S /\ upTo(i) # {}
    OBVIOUS
  <2>2. IsFiniteSet(upTo(i)) /\ Cardinality(upTo(i)) <= Cardinality(S)
    BY <2>1, FS_Subset
  <2>3. Cardinality(upTo(i)) \in Nat /\ Cardinality(upTo(i)) # 0
    BY <2>1, <2>2, FS_CardinalityType, FS_EmptySet
  <2> QED
    BY <1>1, <2>2, <2>3
<1>4. ASSUME NEW i \in S, NEW j \in S, i < j
      PROVE  Cardinality(upTo(i)) < Cardinality(upTo(j))
  <2>0. i \in Nat /\ j \in Nat /\ i < j
    BY <1>4
  <2>1. upTo(i) \in SUBSET upTo(j) /\ j \in upTo(j) /\ j \notin upTo(i)
    <3>1. \A k \in S : k <= i => k <= j
      BY <2>0
    <3>2. \A k \in upTo(i) : k \in upTo(j)
      BY <3>1
    <3>3. j <= j /\ ~(j <= i)
      BY <2>0
    <3>4. j \in upTo(j) /\ j \notin upTo(i)
      BY <3>3
    <3> QED
      BY <3>2, <3>4
  <2>2. upTo(i) # upTo(j)
    BY <2>1
  <2>3. IsFiniteSet(upTo(j))
    BY <1>3
  <2>4. Cardinality(upTo(i)) \in Nat /\ Cardinality(upTo(j)) \in Nat
    BY <1>3, FS_CardinalityType
  <2> HIDE DEF upTo
  <2>5. /\ Cardinality(upTo(i)) <= Cardinality(upTo(j))
        /\ Cardinality(upTo(i)) # Cardinality(upTo(j))
    BY <2>1, <2>2, <2>3, FS_Subset
  <2> QED
    BY <2>4, <2>5
<1>5. rank \in [S -> ranks]
  BY <1>3
<1>6. /\ \A i, j \in S : rank[i] = rank[j] => i = j
      /\ \A i, j \in S : rank[i] < rank[j] => i < j
  <2>1. \A i \in S : i \in Nat /\ rank[i] \in ranks /\ rank[i] = Cardinality(upTo(i))
    BY <1>5
  <2>2. \A i, j \in S : i < j => rank[i] < rank[j]
    BY <1>4, <2>1
  <2>3. ranks \subseteq Nat
    BY <1>1
  <2> HIDE DEF rank, upTo, ranks
  <2>4. ASSUME NEW i \in S, NEW j \in S PROVE i \in Nat /\ j \in Nat /\ rank[i] \in Nat /\ rank[j] \in Nat
    BY <2>1, <2>3
  <2>5. ASSUME NEW i \in S, NEW j \in S
        PROVE  (rank[i] = rank[j] => i = j) /\ (rank[i] < rank[j] => i < j)
    BY <2>2, <2>4
  <2> QED
    BY <2>5
<1> HIDE DEF rank
<1>7. rank \in Surjection(S, ranks)
  <2>1. rank \in Injection(S, ranks)
    BY <1>5, <1>6 DEF Injection, IsInjective
  <2> QED
    BY <1>2, <2>1, FS_Injection
<1>8. \A n \in ranks : \E i \in S : rank[i] = n
  BY <1>7 DEF Surjection
<1>9. /\ DOMAIN Ordered(S) = ranks
      /\ \A n \in ranks : Ordered(S)[n] = CHOOSE i \in S : Cardinality({j \in S : j <= i}) = n
      /\ Ordered(S) = [n \in ranks |-> Ordered(S)[n]]
  BY DEF Ordered
<1>10. ASSUME NEW n \in ranks PROVE Ordered(S)[n] \in S /\ rank[Ordered(S)[n]] = n
  <2>1. \A i \in S : rank[i] = Cardinality({j \in S : j <= i})
    BY DEF rank
  <2>2. \E i \in S : Cardinality({j \in S : j <= i}) = n
    BY <1>8, <2>1
  <2>3. Ordered(S)[n] \in S /\ Cardinality({j \in S : j <= Ordered(S)[n]}) = n
    BY <1>9, <2>2
  <2> QED
    BY <2>1, <2>3
<1>11. Ordered(S) \in Seq(S) /\ Len(Ordered(S)) = Cardinality(S)
  BY <1>1, <1>9, <1>10
<1>12. ASSUME NEW i \in S PROVE Ordered(S)[rank[i]] = i /\ rank[i] \in ranks
  BY <1>5, <1>6, <1>10
<1>13. ASSUME NEW m \in ranks, NEW n \in ranks, m < n PROVE Ordered(S)[m] < Ordered(S)[n]
  <2>1. /\ Ordered(S)[m] \in S /\ Ordered(S)[n] \in S
        /\ rank[Ordered(S)[m]] < rank[Ordered(S)[n]]
    BY <1>10, <1>13
  <2> QED
    BY <1>6, <2>1
<1> QED
  BY <1>11, <1>12, <1>13

(* A set of positions that is not empty has a first one.                   *)
LEMMA FirstPosition ==
  ASSUME NEW n \in Nat, NEW S \in SUBSET (1..n), S # {}
  PROVE  \E m \in S : \A k \in S : m <= k
<1>1. S \in SUBSET Nat /\ IsFiniteSet(S)
  <2>1. IsFiniteSet(1..n)
    BY FS_Interval, 1 \in Int, n \in Int
  <2>2. S \in SUBSET Nat
    OBVIOUS
  <2>3. IsFiniteSet(S)
    BY <2>1, FS_Subset
  <2> QED
    BY <2>2, <2>3
<1>2. /\ Ordered(S) \in Seq(S)
      /\ \A i \in S : \E k \in 1..Len(Ordered(S)) : Ordered(S)[k] = i
      /\ \A i, k \in 1..Len(Ordered(S)) : i < k => Ordered(S)[i] < Ordered(S)[k]
  BY <1>1, OrderedIsAll
<1>3. 1 \in 1..Len(Ordered(S)) /\ Ordered(S)[1] \in S
  <2>1. PICK i \in S : TRUE
    OBVIOUS
  <2>2. PICK k \in 1..Len(Ordered(S)) : Ordered(S)[k] = i
    BY <1>2
  <2>3. Len(Ordered(S)) \in Nat /\ 1 \in 1..Len(Ordered(S))
    BY <1>2
  <2> QED
    BY <1>2, <2>3
<1>4. ASSUME NEW k \in S PROVE Ordered(S)[1] <= k
  <2>1. PICK i \in 1..Len(Ordered(S)) : Ordered(S)[i] = k
    BY <1>2
  <2>2. i = 1 \/ 1 < i
    BY <1>2
  <2>3. k \in Nat /\ Ordered(S)[1] \in Nat
    BY <1>1, <1>3
  <2> QED
    BY <1>2, <1>3, <2>1, <2>2, <2>3
<1> QED
  BY <1>3, <1>4

----
(* Types.  What keeps the position of a run within its chain, a parent     *)
(* before its child and a version in a row: a chain has its planning step, *)
(* runs are created in order, and what has started has the rows of its     *)
(* outputs, which a revision finds made by its parent.                     *)
RowsMade(r) ==
  run[r].status \in {"running", "completed"} \/ IsRevision(r) =>
    \A s \in Keys(run[r].chain) : Outputs[s] \ TaskArtifacts \subseteq rows

RunOK(r) ==
  /\ run[r].chain \in Seq(StepKeys)
  /\ run[r].status # "none" => "planning" \in Keys(run[r].chain)
  /\ run[r].step \in 1..Len(run[r].chain) + 1
  /\ Active(r) => run[r].step <= Len(run[r].chain)
  /\ run[r].parent \in 0..(r - 1)
  /\ RowsMade(r)

RunsInOrder == \A q, r \in Runs : q < r /\ run[q].status = "none" => run[r].status = "none"

VersionsOK ==
  /\ rows \subseteq Artifacts /\ \A a \in Artifacts : latest[a] # NoVersion => a \in rows
  /\ latest \in [Artifacts -> 0..MaxRuns]
  /\ context \in [Artifacts -> 0..MaxRuns]
  /\ \A p \in Plans : plan[p].frozen \in [Artifacts -> 0..MaxRuns]
  /\ feedback \subseteq [artifact : Artifacts, baseline : Runs, category : Categories]

TypesInv == RevisionInv /\ (\A r \in Runs : RunOK(r)) /\ RunsInOrder /\ VersionsOK

LEMMA TypesInit == Init => TypesInv
<1> SUFFICES ASSUME Init PROVE TypesInv
  OBVIOUS
<1> USE RevisionAssumption
<1>1. \A r \in Runs : run[r] = NoRun
  BY DEF Init
<1>2. ASSUME NEW r \in Runs PROVE RunOK(r)
  <2>1. /\ run[r].status = "none" /\ run[r].chain = <<>> /\ run[r].step = 1
        /\ run[r].parent = 0 /\ run[r].plan = 0
    BY <1>1 DEF NoRun
  <2>2. 0 \in 0..(r - 1)
    BY DEF Runs
  <2> QED
    BY <2>1, <2>2 DEF RunOK, RowsMade, Active, IsRevision
<1>3. RunsInOrder
  BY <1>1 DEF RunsInOrder, NoRun
<1>4. VersionsOK
  BY DEF Init, VersionsOK, NoVersions, NoPlan, NoVersion
<1> QED
  BY <1>2, <1>3, <1>4, InitOK DEF TypesInv

(* The runs after a step that touches one of them.                         *)
LEMMA OthersKept ==
  ASSUME TypesInv, NEW r \in Runs, rows \subseteq rows', RunOK(r)',
         \A q \in Runs \ {r} : run'[q] = run[q]
  PROVE  (\A q \in Runs : RunOK(q))'
<1> SUFFICES ASSUME NEW q \in Runs, q # r PROVE RunOK(q)'
  OBVIOUS
<1>1. run'[q] = run[q] /\ RunOK(q)
  BY DEF TypesInv
<1>2. RowsMade(q)'
  BY <1>1 DEF RunOK, RowsMade, IsRevision
<1> QED
  BY <1>1, <1>2 DEF RunOK, Active

(* An active run that goes on in its chain, or ends.                       *)
LEMMA RunGoesOn ==
  ASSUME TypesInv, NEW r \in Runs, Active(r), rows \subseteq rows',
         \A q \in Runs \ {r} : run'[q] = run[q],
         run'[r].chain = run[r].chain, run'[r].parent = run[r].parent,
         run'[r].plan = run[r].plan, run'[r].status # "none",
         run'[r].step \in 1..Len(run[r].chain) + 1,
         Active(r)' => run'[r].step <= Len(run[r].chain),
         RowsMade(r)'
  PROVE  (\A q \in Runs : RunOK(q))' /\ RunsInOrder'
<1>1. RunOK(r) /\ run[r].status # "none"
  BY DEF TypesInv, Active
<1>2. RunOK(r)'
  <2>1. run'[r].chain \in Seq(StepKeys) /\ "planning" \in Keys(run'[r].chain)
        /\ run'[r].parent \in 0..(r - 1)
    BY <1>1 DEF RunOK
  <2> QED
    BY <2>1 DEF RunOK
<1>3. RunsInOrder'
  BY <1>1 DEF TypesInv, RunsInOrder
<1> QED
  BY <1>2, <1>3, OthersKept

(* A run that is created in its turn.                                      *)
LEMMA RunIsCreated ==
  ASSUME TypesInv, NEW r \in Runs, MayCreate(r), UNCHANGED rows, RunOK(r)', run'[r].status # "none",
         \A q \in Runs \ {r} : run'[q] = run[q]
  PROVE  (\A q \in Runs : RunOK(q))' /\ RunsInOrder'
<1>1. \A q \in Runs : q < r => run[q].status # "none"
  BY DEF MayCreate
<1>2. RunsInOrder'
  BY <1>1 DEF TypesInv, RunsInOrder
<1> QED
  BY <1>2, OthersKept

LEMMA CreateRunTypes ==
  ASSUME TypesInv, NEW r \in Runs, NEW c \in Contracts, CreateRun(r, c)
  PROVE  (\A q \in Runs : RunOK(q))' /\ RunsInOrder' /\ VersionsOK'
<1> DEFINE new == [status |-> "queued", chain |-> c,
                   needs |-> [s \in Keys(c) |-> Before(c, s)],
                   step |-> 1, parent |-> 0, plan |-> 0]
<1>1. /\ MayCreate(r) /\ run' = [run EXCEPT ![r] = new]
      /\ UNCHANGED <<rows, latest, context, feedback, plan>>
  BY DEF CreateRun
<1>2. run'[r] = new /\ \A q \in Runs \ {r} : run'[q] = run[q]
  BY <1>1 DEF TypesInv, RevisionInv, ShapeOK
<1>3. c \in Seq(StepKeys) /\ c # <<>> /\ Head(c) = "planning"
  BY RevisionAssumption DEF RevisionAssumption
<1>4. 1 \in 1..Len(c) /\ c[1] = "planning" /\ Len(c) \in Nat
  BY <1>3
<1>5. /\ run'[r].status = "queued" /\ run'[r].chain = c /\ run'[r].step = 1
      /\ run'[r].parent = 0 /\ run'[r].plan = 0
  BY <1>2
<1>6. RunOK(r)'
  <2>1. "planning" \in Keys(c)
    BY <1>4 DEF Keys
  <2>2. RowsMade(r)'
    BY <1>5 DEF RowsMade, IsRevision
  <2>3. 0 \in 0..(r - 1)
    BY DEF Runs
  <2> QED
    BY <1>3, <1>4, <1>5, <2>1, <2>2, <2>3 DEF RunOK
<1>7. VersionsOK'
  BY <1>1 DEF TypesInv, VersionsOK
<1> QED
  BY <1>1, <1>2, <1>5, <1>6, <1>7, RunIsCreated

LEMMA StartOriginalTypes ==
  ASSUME TypesInv, NEW r \in Runs, StartOriginal(r)
  PROVE  (\A q \in Runs : RunOK(q))' /\ RunsInOrder' /\ VersionsOK'
<1> DEFINE targets == (UNION {Outputs[s] : s \in Keys(run[r].chain)}) \ TaskArtifacts
<1>1. /\ Active(r) /\ ~IsRevision(r) /\ run' = [run EXCEPT ![r].status = "running"]
      /\ rows' = rows \cup targets
      /\ context' = [a \in Artifacts |-> IF a \in targets THEN latest[a] ELSE NoVersion]
      /\ UNCHANGED <<latest, feedback, plan>>
  BY DEF StartOriginal, Active
<1>2. /\ run'[r].chain = run[r].chain /\ run'[r].parent = run[r].parent
      /\ run'[r].plan = run[r].plan /\ run'[r].step = run[r].step
      /\ run'[r].status = "running" /\ \A q \in Runs \ {r} : run'[q] = run[q]
  BY <1>1 DEF TypesInv, RevisionInv, ShapeOK, RunRows
<1>3. RunOK(r)
  BY DEF TypesInv
<1>4. RowsMade(r)'
  <2>1. \A s \in Keys(run[r].chain) : Outputs[s] \ TaskArtifacts \subseteq rows'
    <3>1. ASSUME NEW s \in Keys(run[r].chain), NEW a \in Outputs[s], a \notin TaskArtifacts
          PROVE  a \in rows'
      <4>1. a \in targets
        BY <3>1
      <4> QED
        BY <1>1, <4>1
    <3> QED
      BY <3>1
  <2> QED
    BY <1>2, <2>1 DEF RowsMade
<1>5. targets \subseteq Artifacts
  <2>1. \A s \in Keys(run[r].chain) : s \in StepKeys
    BY <1>3 DEF RunOK, Keys
  <2> QED
    BY <2>1, RevisionAssumption DEF RevisionAssumption
<1> HIDE DEF targets
<1>6. VersionsOK'
  BY <1>1, <1>5, RevisionAssumption DEF TypesInv, VersionsOK, NoVersion, RevisionAssumption
<1>7. (\A q \in Runs : RunOK(q))' /\ RunsInOrder'
  BY <1>1, <1>2, <1>3, <1>4, RunGoesOn DEF RunOK
<1> QED
  BY <1>6, <1>7

LEMMA StartRevisionTypes ==
  ASSUME TypesInv, NEW r \in Runs, StartRevision(r)
  PROVE  (\A q \in Runs : RunOK(q))' /\ RunsInOrder' /\ VersionsOK'
<1> DEFINE passes == FrozenAreCurrent(run[r].plan) /\ DataBundleIsWhole(run[r].plan)
           status == IF passes THEN "running" ELSE "failed"
<1>1. /\ Active(r) /\ IsRevision(r) /\ run' = [run EXCEPT ![r].status = status]
      /\ context' = IF passes THEN InContext(plan[run[r].plan].frozen) ELSE context
      /\ UNCHANGED <<rows, latest, feedback, plan>>
  BY DEF StartRevision, Active
<1>2. status \in {"running", "failed"}
  OBVIOUS
<1> HIDE DEF status, passes
<1>3. /\ run'[r].chain = run[r].chain /\ run'[r].parent = run[r].parent
      /\ run'[r].plan = run[r].plan /\ run'[r].step = run[r].step
      /\ run'[r].status = status /\ \A q \in Runs \ {r} : run'[q] = run[q]
  BY <1>1 DEF TypesInv, RevisionInv, ShapeOK, RunRows
<1>4. RunOK(r) /\ run[r].plan \in Plans
  BY <1>1 DEF TypesInv, RevisionInv, RevisionsHavePlans
<1>5. RowsMade(r)'
  BY <1>1, <1>3, <1>4 DEF RowsMade, RunOK
<1>6. context' \in [Artifacts -> 0..MaxRuns]
  <2>1. plan[run[r].plan].frozen \in [Artifacts -> 0..MaxRuns] /\ context \in [Artifacts -> 0..MaxRuns]
    BY <1>4 DEF TypesInv, VersionsOK
  <2>2. MaxRuns \in Nat
    BY RevisionAssumption DEF RevisionAssumption
  <2> QED
    BY <1>1, <2>1, <2>2 DEF InContext, NoVersion
<1>7. VersionsOK'
  BY <1>1, <1>6 DEF TypesInv, VersionsOK
<1>8. (\A q \in Runs : RunOK(q))' /\ RunsInOrder'
  BY <1>1, <1>2, <1>3, <1>4, <1>5, RunGoesOn DEF RunOK, Active
<1> QED
  BY <1>7, <1>8

LEMMA EndRunTypes ==
  ASSUME TypesInv, NEW r \in Runs, EndRun(r)
  PROVE  (\A q \in Runs : RunOK(q))' /\ RunsInOrder' /\ VersionsOK'
<1>1. /\ Active(r) /\ run' = [run EXCEPT ![r].status = "failed"]
      /\ context' = NoVersions /\ UNCHANGED <<rows, latest, feedback, plan>>
  BY DEF EndRun
<1>2. /\ run'[r].chain = run[r].chain /\ run'[r].parent = run[r].parent
      /\ run'[r].plan = run[r].plan /\ run'[r].step = run[r].step
      /\ run'[r].status = "failed" /\ \A q \in Runs \ {r} : run'[q] = run[q]
  BY <1>1 DEF TypesInv, RevisionInv, ShapeOK, RunRows
<1>3. RunOK(r)
  BY DEF TypesInv
<1>4. RowsMade(r)'
  BY <1>1, <1>2, <1>3 DEF RowsMade, RunOK, IsRevision
<1>5. VersionsOK'
  BY <1>1, RevisionAssumption DEF TypesInv, VersionsOK, NoVersions, NoVersion, RevisionAssumption
<1>6. (\A q \in Runs : RunOK(q))' /\ RunsInOrder'
  BY <1>1, <1>2, <1>3, <1>4, RunGoesOn DEF RunOK, Active
<1> QED
  BY <1>5, <1>6

(* What a step publishes is among its outputs.                             *)
LEMMA StepOutputs ==
  ASSUME TypesInv, NEW r \in Runs, Active(r)
  PROVE  /\ run[r].chain[run[r].step] \in Keys(run[r].chain)
         /\ StepPublishes(r) \subseteq Outputs[run[r].chain[run[r].step]]
         /\ StepPublishes(r) \subseteq Artifacts
<1>1. run[r].chain \in Seq(StepKeys) /\ run[r].step \in 1..Len(run[r].chain)
  BY DEF TypesInv, RunOK
<1>2. run[r].chain[run[r].step] \in StepKeys
  BY <1>1
<1> QED
  BY <1>1, <1>2, RevisionAssumption DEF RevisionAssumption, Keys, StepPublishes

LEMMA EnsureTargetTypes ==
  ASSUME TypesInv, NEW r \in Runs, EnsureTarget(r)
  PROVE  (\A q \in Runs : RunOK(q))' /\ RunsInOrder' /\ VersionsOK'
<1>1. /\ Active(r) /\ rows' = rows \cup (StepPublishes(r) \cap TaskArtifacts)
      /\ UNCHANGED <<run, latest, context, feedback, plan>>
  BY DEF EnsureTarget, Active
<1>2. StepPublishes(r) \subseteq Artifacts
  BY <1>1, StepOutputs
<1>3. RunOK(r)'
  BY <1>1 DEF TypesInv, RunOK, RowsMade, Active, IsRevision
<1>4. VersionsOK' /\ RunsInOrder'
  BY <1>1, <1>2 DEF TypesInv, VersionsOK, RunsInOrder
<1> QED
  BY <1>1, <1>3, <1>4, OthersKept

LEMMA PublishTypes ==
  ASSUME TypesInv, NEW r \in Runs, Publish(r)
  PROVE  (\A q \in Runs : RunOK(q))' /\ RunsInOrder' /\ VersionsOK'
<1> DEFINE new == StepPublishes(r)
           last == run[r].step = Len(run[r].chain)
           moved(v) == [a \in Artifacts |-> IF a \in new THEN r ELSE v[a]]
<1>1. /\ run[r].status = "running"
      /\ \A a \in new : a \in TaskArtifacts => a \in rows
      /\ latest' = moved(latest)
      /\ context' = IF last THEN NoVersions ELSE InContext(moved(context))
      /\ UNCHANGED <<rows, feedback, plan>>
  BY DEF Publish
<1>2. /\ run'[r].chain = run[r].chain /\ run'[r].parent = run[r].parent
      /\ run'[r].plan = run[r].plan /\ run'[r].step = run[r].step + 1
      /\ run'[r].status = (IF last THEN "completed" ELSE run[r].status)
      /\ \A q \in Runs \ {r} : run'[q] = run[q]
  <2>1. run' = [run EXCEPT ![r].step = @ + 1,
                           ![r].status = IF run[r].step = Len(run[r].chain) THEN "completed" ELSE @]
    BY DEF Publish
  <2>2. PICK C, N : run \in [Runs -> RunRows(C, N)]
    BY DEF TypesInv, RevisionInv, ShapeOK
  <2> QED
    BY <2>1, <2>2 DEF RunRows
<1>3. Active(r) /\ RunOK(r) /\ run[r].step \in 1..Len(run[r].chain) /\ Len(run[r].chain) \in Nat
  BY <1>1 DEF TypesInv, RunOK, Active
<1>4. RowsMade(r)'
  BY <1>1, <1>2, <1>3 DEF RowsMade, RunOK
<1>5. run'[r].status # "none" /\ run'[r].step \in 1..Len(run[r].chain) + 1
      /\ (Active(r)' => run'[r].step <= Len(run[r].chain))
  BY <1>1, <1>2, <1>3 DEF Active
<1>6. (\A q \in Runs : RunOK(q))' /\ RunsInOrder'
  BY <1>1, <1>2, <1>3, <1>4, <1>5, RunGoesOn
<1>7. new \subseteq rows
  <2>1. new \subseteq Outputs[run[r].chain[run[r].step]]
        /\ run[r].chain[run[r].step] \in Keys(run[r].chain)
    BY <1>3, StepOutputs
  <2> QED
    BY <1>1, <1>3, <2>1 DEF RunOK, RowsMade
<1>8. r \in 0..MaxRuns /\ 0 \in 0..MaxRuns
  BY RevisionAssumption DEF Runs, RevisionAssumption
<1> HIDE DEF new, last
<1>9. ASSUME NEW v \in [Artifacts -> 0..MaxRuns] PROVE moved(v) \in [Artifacts -> 0..MaxRuns]
  BY <1>8
<1>10. latest' \in [Artifacts -> 0..MaxRuns] /\ context' \in [Artifacts -> 0..MaxRuns]
  <2>1. moved(latest) \in [Artifacts -> 0..MaxRuns] /\ moved(context) \in [Artifacts -> 0..MaxRuns]
    BY <1>9 DEF TypesInv, VersionsOK
  <2> HIDE DEF moved
  <2> QED
    BY <1>1, <1>8, <2>1 DEF InContext, NoVersions, NoVersion
<1>11. \A a \in Artifacts : latest'[a] # NoVersion => a \in rows
  BY <1>1, <1>7 DEF TypesInv, VersionsOK
<1>12. VersionsOK'
  BY <1>1, <1>10, <1>11 DEF TypesInv, VersionsOK
<1> QED
  BY <1>6, <1>12

LEMMA CreateFeedbackTypes ==
  ASSUME TypesInv, NEW a \in Artifacts, NEW category \in Categories, CreateFeedback(a, category)
  PROVE  VersionsOK'
<1>1. /\ latest[a] # NoVersion /\ UNCHANGED <<rows, latest, context, plan>>
      /\ feedback' = feedback \cup
           {[artifact |-> a, baseline |-> latest[a], category |-> category]}
  BY DEF CreateFeedback
<1>2. latest[a] \in Runs
  BY <1>1, RevisionAssumption DEF TypesInv, VersionsOK, NoVersion, Runs, RevisionAssumption
<1> QED
  BY <1>1, <1>2 DEF TypesInv, VersionsOK

LEMMA CreatePlanTypes ==
  ASSUME TypesInv, NEW p \in Plans, NEW r \in Runs, NEW F \in SUBSET feedback, CreatePlan(p, r, F)
  PROVE  VersionsOK'
<1>1. PICK x : plan' = [plan EXCEPT ![p] = x] /\ x.frozen = latest
  <2> DEFINE steps == AffectedSteps(run[r].chain, run[r].needs, F)
             new == [parent |-> r, feedback |-> F, steps |-> steps,
                     recompute |-> Recomputed(r, run[r].chain, latest, F, steps),
                     frozen |-> latest, run |-> 0]
  <2>1. plan' = [plan EXCEPT ![p] = new] /\ new.frozen = latest
    BY DEF CreatePlan
  <2> QED
    BY <2>1
<1>2. UNCHANGED <<rows, latest, context, feedback>>
  BY DEF CreatePlan
<1>3. plan'[p] = x /\ \A q \in Plans \ {p} : plan'[q] = plan[q]
  BY <1>1 DEF TypesInv, RevisionInv, ShapeOK
<1> QED
  BY <1>1, <1>2, <1>3 DEF TypesInv, VersionsOK

(* The steps that a plan keeps are steps of its parent, planning first.    *)
LEMMA DerivedSteps ==
  ASSUME TypesInv, NEW p \in Plans, plan[p] # NoPlan
  PROVE  /\ DerivedChain(p) \in Seq(StepKeys)
         /\ "planning" \in Keys(DerivedChain(p))
         /\ Keys(DerivedChain(p)) \subseteq Keys(run[plan[p].parent].chain)
<1> DEFINE chain == run[plan[p].parent].chain
           kept == {i \in 1..Len(chain) : chain[i] \in plan[p].steps}
           places == Ordered(kept)
<1>1. /\ plan[p].parent \in Runs /\ run[plan[p].parent].status = "completed"
      /\ "planning" \in plan[p].steps
  BY DEF TypesInv, RevisionInv, PlansAreProposals, IsProposal, AffectedSteps
<1>2. chain \in Seq(StepKeys) /\ Len(chain) \in Nat
  BY <1>1 DEF TypesInv, RunOK
<1>3. PICK i \in 1..Len(chain) : chain[i] = "planning"
  BY <1>1 DEF TypesInv, RunOK, Keys
<1>4. kept \in SUBSET Nat /\ IsFiniteSet(kept) /\ kept \subseteq 1..Len(chain) /\ i \in kept
  <2>1. \A n \in Nat : IsFiniteSet(1..n)
    BY FS_Interval
  <2>2. kept \in SUBSET (1..Len(chain)) /\ IsFiniteSet(1..Len(chain))
    BY <1>2, <2>1
  <2>3. IsFiniteSet(kept)
    BY <2>2, FS_Subset
  <2>4. i \in kept
    BY <1>1, <1>3
  <2> QED
    BY <2>2, <2>3, <2>4
<1> HIDE DEF kept
<1>5. places \in Seq(kept) /\ \E n \in 1..Len(places) : places[n] = i
  BY <1>4, OrderedIsAll
<1>6. DerivedChain(p) = [n \in 1..Len(places) |-> chain[places[n]]]
  BY DEF DerivedChain, kept
<1> HIDE DEF places, chain
<1>7. ASSUME NEW n \in 1..Len(places) PROVE places[n] \in 1..Len(chain) /\ chain[places[n]] \in StepKeys
  <2>1. places[n] \in kept
    BY <1>5
  <2>2. places[n] \in 1..Len(chain)
    BY <1>4, <2>1
  <2> QED
    BY <1>2, <2>2
<1>8. DerivedChain(p) \in Seq(StepKeys) /\ Len(DerivedChain(p)) = Len(places)
  BY <1>5, <1>6, <1>7
<1>9. "planning" \in Keys(DerivedChain(p))
  BY <1>3, <1>5, <1>6, <1>8 DEF Keys
<1>10. Keys(DerivedChain(p)) \subseteq Keys(chain)
  BY <1>6, <1>7, <1>8 DEF Keys
<1> QED
  BY <1>8, <1>9, <1>10 DEF chain

LEMMA ConfirmPlanTypes ==
  ASSUME TypesInv, NEW p \in Plans, NEW r \in Runs, ConfirmPlan(p, r)
  PROVE  (\A q \in Runs : RunOK(q))' /\ RunsInOrder' /\ VersionsOK'
<1>1. /\ plan[p] # NoPlan /\ MayCreate(r) /\ run[r].status = "none"
      /\ run' = [run EXCEPT ![r] = Derived(p)] /\ plan' = [plan EXCEPT ![p].run = r]
      /\ UNCHANGED <<rows, latest, context, feedback>>
  BY DEF ConfirmPlan, MayCreate
<1>2. run'[r] = Derived(p) /\ \A q \in Runs \ {r} : run'[q] = run[q]
  BY <1>1 DEF TypesInv, RevisionInv, ShapeOK
<1>3. /\ run'[r].status = "queued" /\ run'[r].chain = DerivedChain(p) /\ run'[r].step = 1
      /\ run'[r].parent = plan[p].parent /\ run'[r].plan = p
  BY <1>2 DEF Derived
<1>4. plan[p].parent \in Runs /\ run[plan[p].parent].status = "completed"
  BY <1>1 DEF TypesInv, RevisionInv, PlansAreProposals
<1>5. plan[p].parent \in 0..(r - 1)
  <2>1. ~(r < plan[p].parent) /\ r # plan[p].parent
    BY <1>1, <1>4 DEF TypesInv, RunsInOrder
  <2> QED
    BY <1>4, <2>1 DEF Runs
<1>6. /\ DerivedChain(p) \in Seq(StepKeys) /\ "planning" \in Keys(DerivedChain(p))
      /\ Keys(DerivedChain(p)) \subseteq Keys(run[plan[p].parent].chain)
  BY <1>1, DerivedSteps
<1>7. 1 <= Len(DerivedChain(p)) /\ Len(DerivedChain(p)) \in Nat
  BY <1>6 DEF Keys
<1>8. RunOK(r)'
  <2>1. \A s \in Keys(run[plan[p].parent].chain) : Outputs[s] \ TaskArtifacts \subseteq rows
    BY <1>4 DEF TypesInv, RunOK, RowsMade
  <2>2. RowsMade(r)'
    BY <1>1, <1>3, <1>6, <2>1 DEF RowsMade
  <2> QED
    BY <1>3, <1>5, <1>6, <1>7, <2>2 DEF RunOK
<1>9. VersionsOK'
  <2>1. ASSUME NEW q \in Plans PROVE plan'[q].frozen = plan[q].frozen
    BY <1>1 DEF TypesInv, RevisionInv, ShapeOK, PlanRows
  <2> QED
    BY <1>1, <2>1 DEF TypesInv, VersionsOK
<1> QED
  BY <1>1, <1>2, <1>3, <1>8, <1>9, RunIsCreated

LEMMA NextTypes == TypesInv /\ [Next]_vars => TypesInv'
<1> SUFFICES ASSUME TypesInv, [Next]_vars PROVE TypesInv'
  OBVIOUS
<1>0. RevisionInv'
  BY StepKeeps DEF TypesInv
<1>1. CASE UNCHANGED <<run, rows, latest, context, plan>> /\ VersionsOK'
  BY <1>0, <1>1 DEF TypesInv, RunOK, RowsMade, Active, IsRevision, RunsInOrder
<1>2. ASSUME NEW r \in Runs, NEW c \in Contracts, CreateRun(r, c) PROVE TypesInv'
  BY <1>0, <1>2, CreateRunTypes DEF TypesInv
<1>3. ASSUME NEW r \in Runs,
             StartOriginal(r) \/ StartRevision(r) \/ EnsureTarget(r) \/ Publish(r) \/ EndRun(r)
      PROVE  TypesInv'
  BY <1>0, <1>3, StartOriginalTypes, StartRevisionTypes, EnsureTargetTypes, PublishTypes, EndRunTypes
     DEF TypesInv
<1>4. ASSUME NEW a \in Artifacts, NEW category \in Categories, CreateFeedback(a, category)
      PROVE  TypesInv'
  BY <1>1, <1>4, CreateFeedbackTypes DEF CreateFeedback
<1>5. ASSUME NEW p \in Plans, NEW r \in Runs, NEW F \in SUBSET feedback, CreatePlan(p, r, F)
      PROVE  TypesInv'
  <2>1. VersionsOK' /\ UNCHANGED <<run, rows>>
    BY <1>5, CreatePlanTypes DEF CreatePlan
  <2> QED
    BY <1>0, <2>1 DEF TypesInv, RunOK, RowsMade, Active, IsRevision, RunsInOrder
<1>6. ASSUME NEW p \in Plans, NEW r \in Runs, ConfirmPlan(p, r) PROVE TypesInv'
  BY <1>0, <1>6, ConfirmPlanTypes DEF TypesInv
<1>7. CASE UNCHANGED vars
  BY <1>1, <1>7 DEF vars, TypesInv, VersionsOK
<1> QED
  BY <1>2, <1>3, <1>4, <1>5, <1>6, <1>7 DEF Next

(* Runs stay within their chains and after their parents, and a version is *)
(* always that of an artifact with a row, by a run.                        *)
THEOREM RevisionTypes == Spec => []TypeOK
<1>1. TypesInv => TypeOK
  <2> SUFFICES ASSUME TypesInv PROVE TypeOK
    OBVIOUS
  <2>1. ASSUME NEW r \in Runs
        PROVE  /\ run[r].status \in {"none", "queued", "running", "completed", "failed"}
               /\ run[r].step \in 1..Len(run[r].chain) + 1
               /\ run[r].parent \in 0..(r - 1) /\ run[r].plan \in 0..MaxPlans
    <3>1. run[r].status \in Statuses
      BY DEF TypesInv, RevisionInv, ShapeOK, RunRows
    <3>2. run[r].plan \in 0..MaxPlans
      BY RevisionAssumption
         DEF TypesInv, RevisionInv, RevisionsHavePlans, IsRevision, Plans, RevisionAssumption
    <3> QED
      BY <3>1, <3>2 DEF TypesInv, RunOK, Statuses
  <2> QED
    BY <2>1 DEF TypesInv, VersionsOK, TypeOK
<1> QED
  BY <1>1, TypesInit, NextTypes, PTL DEF Spec

----
(* What a revision keeps is up to date.  In every chain a step needs the   *)
(* one before it, so whatever follows an affected step in the part of the  *)
(* chain that reads is affected; and what an affected step made is either  *)
(* replaced or the claims of relations that are decided.                   *)
NeedsTheLast(chain, needs) == \A s \in Keys(chain) : needs[s] = Before(chain, s)

(* Of the steps S, only planning precedes the one that makes relations.    *)
StartsAtReasoning(chain, S) ==
  \A i, j \in 1..Len(chain) :
    j < i /\ chain[i] = "reasoning_literature" /\ chain[j] \in S => chain[j] = "planning"

LEMMA OneProducer ==
  ASSUME NEW chain, ChainOrder(chain), NEW i \in 1..Len(chain), NEW a \in Outputs[chain[i]]
  PROVE  ProducerStep(chain, a) = chain[i]
<1>1. chain[i] \in Keys(chain)
  BY DEF Keys
<1>2. ASSUME NEW s \in Keys(chain), a \in Outputs[s] PROVE s = chain[i]
  <2>1. PICK j \in 1..Len(chain) : s = chain[j]
    BY DEF Keys
  <2> QED
    BY <1>2, <2>1 DEF ChainOrder
<1> QED
  BY <1>1, <1>2 DEF ProducerStep

(* Without a Gaia step between them, what is affected reaches all later    *)
(* steps: no closed set ends before the chain does.                        *)
LEMMA LaterStepsFollow ==
  ASSUME NEW chain \in Seq(StepKeys), NEW needs, NEW F, NeedsTheLast(chain, needs),
         NEW j \in 1..Len(chain), NEW i \in 1..Len(chain), j <= i,
         chain[j] \in AffectedSteps(chain, needs, F), chain[j] # "planning",
         \A k \in j..Len(chain) : chain[k] \notin GaiaSteps
  PROVE  chain[i] \in AffectedSteps(chain, needs, F)
<1> DEFINE alone == DataOnlySteps(chain, F)
<1>1. SUFFICES ASSUME NEW T \in SUBSET Keys(chain), AskedFor(chain, F) \subseteq T,
                      \A s \in Keys(chain) \ T : needs[s] \cap (T \ alone) = {},
                      chain[i] \notin T
               PROVE  FALSE
  BY DEF AffectedSteps, Keys
<1>2. chain[j] \in T
  BY <1>1 DEF AffectedSteps
<1> DEFINE outside == {k \in 1..Len(chain) : j <= k /\ chain[k] \notin T}
<1>3. Len(chain) \in Nat /\ i \in outside /\ outside \in SUBSET (1..Len(chain))
  BY <1>1
<1>4. PICK m \in outside : \A k \in outside : m <= k
  BY <1>3, FirstPosition
<1>5. m \in 2..Len(chain) /\ m - 1 \in j..Len(chain) /\ m - 1 \in 1..Len(chain)
  <2>1. m # j
    BY <1>2
  <2> QED
    BY <1>3, <2>1
<1>6. chain[m - 1] \in T
  BY <1>4, <1>5
<1>7. chain[m - 1] \notin alone
  BY <1>5 DEF DataOnlySteps
<1>8. chain[m] \in Keys(chain) \ T
  BY <1>5 DEF Keys
<1>9. chain[m - 1] \in needs[chain[m]]
  BY <1>5, <1>8 DEF NeedsTheLast, Before
<1> QED
  BY <1>1, <1>6, <1>7, <1>8, <1>9

(* A plan that decides relations begins where they are made.               *)
LEMMA DecisionsStartAtReasoning ==
  ASSUME NEW chain \in Seq(StepKeys), NEW needs, NEW F, NeedsTheLast(chain, needs),
         ChainOrder(chain), AskedFor(chain, F) \subseteq {"reasoning_literature"}
  PROVE  StartsAtReasoning(chain, AffectedSteps(chain, needs, F))
<1> SUFFICES ASSUME NEW i \in 1..Len(chain), NEW j \in 1..Len(chain), j < i,
                    chain[i] = "reasoning_literature",
                    chain[j] \in AffectedSteps(chain, needs, F), chain[j] # "planning"
             PROVE  FALSE
  BY DEF StartsAtReasoning
<1> DEFINE later == {chain[k] : k \in i..Len(chain)}
<1>0. Len(chain) \in Nat /\ \A k \in i..Len(chain) : k \in 1..Len(chain)
  OBVIOUS
<1>1. later \subseteq Keys(chain) /\ AskedFor(chain, F) \subseteq later
  BY <1>0 DEF Keys
<1>2. ASSUME NEW s \in Keys(chain) \ later PROVE needs[s] \cap later = {}
  <2>1. needs[s] = {chain[m - 1] : m \in {m \in 2..Len(chain) : chain[m] = s}}
    BY DEF NeedsTheLast, Before
  <2>2. SUFFICES ASSUME NEW m \in 2..Len(chain), chain[m] = s, NEW k \in i..Len(chain),
                        chain[m - 1] = chain[k]
                 PROVE  FALSE
    BY <2>1
  <2>3. m - 1 = k
    BY <1>0, <2>2 DEF ChainOrder
  <2>4. m \in i..Len(chain)
    BY <1>0, <2>3
  <2> QED
    BY <1>2, <2>2, <2>4
<1>3. chain[j] \in later
  <2> HIDE DEF later
  <2> QED
    BY <1>1, <1>2 DEF AffectedSteps
<1>4. PICK k \in i..Len(chain) : chain[j] = chain[k]
  BY <1>3
<1>5. j = k
  BY <1>0, <1>4 DEF ChainOrder
<1> QED
  BY <1>0, <1>5

(* The chain of a revision is its parent's with steps left out.            *)
IsPart(at, part, chain, S) ==
  /\ part \in Seq(StepKeys) /\ chain \in Seq(StepKeys)
  /\ at \in [1..Len(part) -> 1..Len(chain)]
  /\ \A n \in 1..Len(part) : part[n] = chain[at[n]] /\ part[n] \in S
  /\ \A i \in 1..Len(chain) : chain[i] \in S => \E n \in 1..Len(part) : at[n] = i
  /\ \A m, n \in 1..Len(part) : m < n => at[m] < at[n]

LEMMA DerivedIsPart ==
  ASSUME NEW p \in Plans, run[plan[p].parent].chain \in Seq(StepKeys)
  PROVE  \E at : IsPart(at, DerivedChain(p), run[plan[p].parent].chain, plan[p].steps)
<1> DEFINE chain == run[plan[p].parent].chain
           kept == {i \in 1..Len(chain) : chain[i] \in plan[p].steps}
           places == Ordered(kept)
<1>1. kept \in SUBSET (1..Len(chain)) /\ kept \in SUBSET Nat /\ IsFiniteSet(kept)
  <2>1. IsFiniteSet(1..Len(chain))
    BY FS_Interval, 1 \in Int, Len(chain) \in Int
  <2>2. kept \in SUBSET (1..Len(chain)) /\ kept \in SUBSET Nat
    OBVIOUS
  <2> QED
    BY <2>1, <2>2, FS_Subset
<1>2. \A i \in 1..Len(chain) : i \in kept <=> chain[i] \in plan[p].steps
  OBVIOUS
<1>3. DerivedChain(p) = [n \in 1..Len(places) |-> chain[places[n]]]
  BY DEF DerivedChain
<1> HIDE DEF kept
<1>4. /\ places \in Seq(kept) /\ Len(places) \in Nat
      /\ \A i \in kept : \E n \in 1..Len(places) : places[n] = i
      /\ \A m, n \in 1..Len(places) : m < n => places[m] < places[n]
  <2> HIDE DEF chain
  <2>1. /\ Ordered(kept) \in Seq(kept)
        /\ \A i \in kept : \E n \in 1..Len(Ordered(kept)) : Ordered(kept)[n] = i
        /\ \A m, n \in 1..Len(Ordered(kept)) : m < n => Ordered(kept)[m] < Ordered(kept)[n]
    BY <1>1, OrderedIsAll
  <2> QED
    BY <2>1
<1> HIDE DEF places
<1>5. ASSUME NEW n \in 1..Len(places)
      PROVE  places[n] \in kept /\ places[n] \in 1..Len(chain) /\ chain[places[n]] \in StepKeys
  <2>1. places[n] \in kept
    BY <1>4
  <2>2. places[n] \in 1..Len(chain)
    BY <1>1, <2>1
  <2> QED
    BY <2>1, <2>2
<1> HIDE DEF chain
<1>6. /\ DerivedChain(p) \in Seq(StepKeys) /\ Len(DerivedChain(p)) = Len(places)
      /\ \A n \in 1..Len(places) : DerivedChain(p)[n] = chain[places[n]]
  BY <1>3, <1>4, <1>5
<1> DEFINE at == [n \in 1..Len(places) |-> places[n]]
<1>7. IsPart(at, DerivedChain(p), chain, plan[p].steps)
  <2>1. at \in [1..Len(DerivedChain(p)) -> 1..Len(chain)]
    BY <1>5, <1>6
  <2>2. \A n \in 1..Len(places) : at[n] = places[n]
    OBVIOUS
  <2> HIDE DEF at
  <2>3. \A i \in 1..Len(chain) : chain[i] \in plan[p].steps => \E n \in 1..Len(places) : at[n] = i
    BY <1>2, <1>4, <2>2
  <2>4. chain \in Seq(StepKeys)
    BY DEF chain
  <2> QED
    BY <1>2, <1>4, <1>5, <1>6, <2>1, <2>2, <2>3, <2>4 DEF IsPart
<1> QED
  BY <1>7 DEF chain

LEMMA PartsAreOrdered ==
  ASSUME NEW at, NEW part, NEW chain, NEW S, IsPart(at, part, chain, S), ChainOrder(chain)
  PROVE  /\ ChainOrder(part)
         /\ StartsAtReasoning(chain, S) => StartsAtReasoning(part, Keys(part))
<1>1. /\ Len(part) \in Nat /\ Len(chain) \in Nat
      /\ \A n \in 1..Len(part) : at[n] \in 1..Len(chain) /\ part[n] = chain[at[n]] /\ part[n] \in S
      /\ \A m, n \in 1..Len(part) : m < n => at[m] < at[n]
  BY DEF IsPart
<1>2. ASSUME NEW m \in 1..Len(part), NEW n \in 1..Len(part)
      PROVE  /\ m \in Nat /\ n \in Nat /\ at[m] \in Nat /\ at[n] \in Nat
             /\ at[m] = at[n] => m = n
             /\ at[m] <= at[n] => m <= n
             /\ m <= n => at[m] <= at[n]
  <2>1. m \in Nat /\ n \in Nat /\ at[m] \in Nat /\ at[n] \in Nat
    BY <1>1
  <2>2. (m < n => at[m] < at[n]) /\ (n < m => at[n] < at[m])
    BY <1>1
  <2> QED
    BY <2>1, <2>2
<1>3. ASSUME NEW i \in 1..Len(part), NEW j \in 1..Len(part)
      PROVE  /\ part[i] = part[j] \/ Outputs[part[i]] \cap Outputs[part[j]] # {} => i = j
             /\ \A s \in StepKeys :
                  Outputs[s] \cap Outputs[part[i]] # {} /\ Reads[s] \cap Outputs[part[j]] # {} =>
                    j <= i /\ \A k \in j..Len(part) : part[k] \notin GaiaSteps
  <2>1. at[i] \in 1..Len(chain) /\ at[j] \in 1..Len(chain) /\ part[i] = chain[at[i]] /\ part[j] = chain[at[j]]
    BY <1>1
  <2>2. part[i] = part[j] \/ Outputs[part[i]] \cap Outputs[part[j]] # {} => i = j
    <3>1. part[i] = part[j] \/ Outputs[part[i]] \cap Outputs[part[j]] # {} => at[i] = at[j]
      BY <2>1 DEF ChainOrder
    <3> QED
      BY <1>2, <3>1
  <2>3. ASSUME NEW s \in StepKeys, Outputs[s] \cap Outputs[part[i]] # {},
               Reads[s] \cap Outputs[part[j]] # {}
        PROVE  j <= i /\ \A k \in j..Len(part) : part[k] \notin GaiaSteps
    <3>1. at[j] <= at[i] /\ \A k \in at[j]..Len(chain) : chain[k] \notin GaiaSteps
      BY <2>1, <2>3 DEF ChainOrder
    <3>2. ASSUME NEW k \in j..Len(part) PROVE part[k] \notin GaiaSteps
      <4>1. k \in 1..Len(part) /\ j <= k
        BY <1>1
      <4>2. at[k] \in at[j]..Len(chain) /\ part[k] = chain[at[k]]
        BY <1>1, <1>2, <4>1
      <4> QED
        BY <3>1, <4>2
    <3> QED
      BY <1>2, <3>1, <3>2
  <2> QED
    BY <2>2, <2>3
<1>4. ASSUME StartsAtReasoning(chain, S) PROVE StartsAtReasoning(part, Keys(part))
  <2> SUFFICES ASSUME NEW i \in 1..Len(part), NEW j \in 1..Len(part), j < i,
                      part[i] = "reasoning_literature"
               PROVE  part[j] = "planning"
    BY DEF StartsAtReasoning
  <2> QED
    BY <1>1, <1>4 DEF StartsAtReasoning
<1> QED
  BY <1>3, <1>4 DEF ChainOrder

(* compile_revision_run_plan keeps the step before or takes the one before *)
(* that is left, which come to the same in a part of a chain.              *)
LEMMA DerivedNeedsTheLast ==
  ASSUME NEW p \in Plans, NEW at,
         IsPart(at, DerivedChain(p), run[plan[p].parent].chain, plan[p].steps),
         ChainOrder(run[plan[p].parent].chain),
         NeedsTheLast(run[plan[p].parent].chain, run[plan[p].parent].needs)
  PROVE  NeedsTheLast(DerivedChain(p), DerivedNeeds(p))
<1> DEFINE chain == run[plan[p].parent].chain
           needs == run[plan[p].parent].needs
           part == DerivedChain(p)
<1> SUFFICES ASSUME NEW s \in Keys(part) PROVE DerivedNeeds(p)[s] = Before(part, s)
  BY DEF NeedsTheLast
<1> DEFINE kept == needs[s] \cap plan[p].steps
<1>1. PICK n \in 1..Len(part) : s = part[n]
  BY DEF Keys
<1>2. /\ Len(part) \in Nat /\ Len(chain) \in Nat
      /\ \A k \in 1..Len(part) : at[k] \in 1..Len(chain) /\ part[k] = chain[at[k]] /\ part[k] \in plan[p].steps
      /\ \A i \in 1..Len(chain) : chain[i] \in plan[p].steps => \E k \in 1..Len(part) : at[k] = i
      /\ \A m, k \in 1..Len(part) : m < k => at[m] < at[k]
  BY DEF IsPart
<1>3. DerivedNeeds(p)[s] = IF kept # {} THEN kept ELSE Before(part, s)
  BY <1>1, <1>2 DEF DerivedNeeds
<1>4. needs[s] = {chain[m - 1] : m \in {m \in 2..Len(chain) : chain[m] = s}}
  <2>1. s \in Keys(chain)
    BY <1>1, <1>2 DEF Keys
  <2> QED
    BY <2>1 DEF NeedsTheLast, Before
<1>5. ASSUME NEW x \in kept PROVE n \in 2..Len(part) /\ x = part[n - 1]
  <2>1. PICK m \in 2..Len(chain) : chain[m] = s /\ x = chain[m - 1]
    BY <1>4
  <2>2. m = at[n] /\ m - 1 \in 1..Len(chain)
    <3>1. m \in 1..Len(chain) /\ at[n] \in 1..Len(chain) /\ chain[m] = chain[at[n]]
      BY <1>1, <1>2, <2>1
    <3>2. m = at[n]
      BY <3>1 DEF ChainOrder
    <3> QED
      BY <1>2, <2>1, <3>2
  <2>3. PICK k \in 1..Len(part) : at[k] = m - 1
    BY <1>2, <2>1, <2>2
  <2>4. k < n
    <3>1. k = n \/ n < k => at[n] <= at[k]
      BY <1>2
    <3> QED
      BY <1>2, <2>2, <2>3, <3>1
  <2>5. n \in 2..Len(part) /\ n - 1 \in 1..Len(part)
    BY <1>2, <2>4
  <2>6. k = n - 1
    <3>1. at[n - 1] < at[n] /\ (k < n - 1 => at[k] < at[n - 1])
      BY <1>2, <2>5
    <3> QED
      BY <1>2, <2>2, <2>3, <2>4, <2>5, <3>1
  <2> QED
    BY <1>2, <2>1, <2>3, <2>5, <2>6
<1>6. ASSUME NEW y \in Before(part, s) PROVE n \in 2..Len(part) /\ y = part[n - 1]
  <2>1. PICK m \in 2..Len(part) : part[m] = s /\ y = part[m - 1]
    BY DEF Before
  <2>2. ChainOrder(part)
    BY PartsAreOrdered
  <2>3. m = n
    BY <1>1, <1>2, <2>1, <2>2 DEF ChainOrder
  <2> QED
    BY <2>1, <2>3
<1>7. n \in 2..Len(part) => part[n - 1] \in Before(part, s)
  BY <1>1 DEF Before
<1>8. kept # {} => kept = Before(part, s)
  <2> HIDE DEF kept, part
  <2> SUFFICES ASSUME NEW x \in kept PROVE kept = Before(part, s)
    OBVIOUS
  <2>1. n \in 2..Len(part) /\ kept = {part[n - 1]}
    BY <1>5
  <2>2. Before(part, s) = {part[n - 1]}
    BY <1>6, <1>7, <2>1
  <2> QED
    BY <2>1, <2>2
<1> QED
  BY <1>3, <1>8

Decides(F) == Adjudications(F) # {}

ChainsOK ==
  \A r \in Runs : run[r].status # "none" =>
    ChainOrder(run[r].chain) /\ NeedsTheLast(run[r].chain, run[r].needs)

(* A revision that decides relations makes nothing before them.            *)
DecisionsOK ==
  \A r \in Runs : IsRevision(r) /\ Decides(plan[run[r].plan].feedback) =>
    StartsAtReasoning(run[r].chain, Keys(run[r].chain))

(* A run that has completed has published what its steps make, except for  *)
(* what the runner of a Gaia step or of a decision leaves alone.           *)
Exempt(r, s, a) ==
  \/ s \in GaiaSteps
  \/ IsRevision(r) /\ Decides(plan[run[r].plan].feedback) /\ a = "literature_claims"

HasPublished(r) ==
  /\ run[r].status \in {"none", "queued"} => published[r] = {}
  /\ \A a \in published[r] : \E s \in Keys(run[r].chain) : a \in Outputs[s]
  /\ run[r].status = "completed" => run[r].step = Len(run[r].chain) + 1
  /\ run[r].status \in {"queued", "running", "completed"} =>
       \A i \in 1..Len(run[r].chain) : i < run[r].step =>
         \A a \in Outputs[run[r].chain[i]] : a \in published[r] \/ Exempt(r, run[r].chain[i], a)

PublishedOK == \A r \in Runs : HasPublished(r)

(* A version is its run's, and made from what a step that makes it reads.  *)
MadeOK ==
  /\ \A a \in Artifacts : latest[a] # NoVersion => a \in published[latest[a]]
  /\ \A a, b \in Artifacts : madeFrom[a][b] # NoVersion =>
       \E s \in StepKeys : a \in Outputs[s] /\ b \in Reads[s]
  /\ \A f \in feedback : f.category = "adjudicate" => f.artifact \in Adjudicable

(* Of what its parent's Contract makes, a plan keeps nothing that any step *)
(* makes from what it replaces.                                            *)
KeepsNothingStale(chain, recompute) ==
  \A s \in Keys(chain), t \in StepKeys : \A a \in Outputs[s] \cap Outputs[t] :
    a \in recompute \/ Reads[t] \cap recompute = {}

PlansOK ==
  \A p \in Plans : plan[p] # NoPlan =>
    LET chain == run[plan[p].parent].chain
    IN /\ KeepsNothingStale(chain, plan[p].recompute)
       /\ Decides(plan[p].feedback) => StartsAtReasoning(chain, plan[p].steps)

UpToDateInv == TypesInv /\ ChainsOK /\ DecisionsOK /\ PublishedOK /\ MadeOK /\ PlansOK

LEMMA UpToDateInit == Init => UpToDateInv
<1> SUFFICES ASSUME Init PROVE UpToDateInv
  OBVIOUS
<1>1. \A r \in Runs :
        /\ run[r].status = "none" /\ run[r].chain = <<>> /\ run[r].step = 1 /\ run[r].plan = 0
        /\ published[r] = {}
  BY DEF Init, NoRun
<1>2. ChainsOK /\ DecisionsOK /\ PublishedOK
  BY <1>1 DEF ChainsOK, DecisionsOK, PublishedOK, HasPublished, IsRevision
<1>3. MadeOK
  BY DEF Init, MadeOK, NoVersions, NoVersion
<1>4. PlansOK
  BY DEF Init, PlansOK
<1> QED
  BY <1>2, <1>3, <1>4, TypesInit DEF UpToDateInv

(* A step that changes no chain and no plan, and of the runs only one.     *)
LEMMA ChainsStay ==
  ASSUME UpToDateInv, TypesInv', UNCHANGED plan,
         \A q \in Runs : /\ run'[q].chain = run[q].chain /\ run'[q].needs = run[q].needs
                         /\ run'[q].plan = run[q].plan
                         /\ run'[q].status # "none" => run[q].status # "none"
  PROVE  ChainsOK' /\ DecisionsOK' /\ PlansOK'
<1>1. ChainsOK'
  BY DEF UpToDateInv, ChainsOK
<1>2. DecisionsOK'
  BY DEF UpToDateInv, DecisionsOK, IsRevision
<1>3. \A p \in Plans : plan[p] # NoPlan => plan[p].parent \in Runs
  BY DEF UpToDateInv, TypesInv, RevisionInv, PlansAreProposals
<1>4. PlansOK'
  BY <1>3 DEF UpToDateInv, PlansOK
<1> QED
  BY <1>1, <1>2, <1>4

(* An active run gets another status, and nothing is published.            *)
LEMMA StatusKeeps ==
  ASSUME UpToDateInv, TypesInv', NEW r \in Runs, Active(r),
         NEW s \in {"running", "failed"}, run' = [run EXCEPT ![r].status = s],
         UNCHANGED <<latest, published, madeFrom, feedback, plan>>
  PROVE  UpToDateInv'
<1>1. /\ run'[r].chain = run[r].chain /\ run'[r].needs = run[r].needs /\ run'[r].plan = run[r].plan
      /\ run'[r].step = run[r].step /\ run'[r].status = s
      /\ \A q \in Runs \ {r} : run'[q] = run[q]
  BY DEF UpToDateInv, TypesInv, RevisionInv, ShapeOK, RunRows
<1>2. run[r].status \in {"queued", "running"}
  BY DEF Active
<1>3. ChainsOK' /\ DecisionsOK' /\ PlansOK'
  BY <1>1, <1>2, ChainsStay
<1>4. PublishedOK'
  <2> SUFFICES ASSUME NEW q \in Runs PROVE HasPublished(q)'
    BY DEF PublishedOK
  <2>1. CASE q = r
    BY <1>1, <1>2, <2>1 DEF UpToDateInv, PublishedOK, HasPublished, Exempt, IsRevision
  <2>2. CASE q # r
    BY <1>1, <2>2 DEF UpToDateInv, PublishedOK, HasPublished, Exempt, IsRevision
  <2> QED
    BY <2>1, <2>2
<1>5. MadeOK'
  BY DEF UpToDateInv, MadeOK
<1> QED
  BY <1>3, <1>4, <1>5 DEF UpToDateInv

(* A run that is created has no past.                                      *)
LEMMA CreationKeeps ==
  ASSUME UpToDateInv, TypesInv', NEW r \in Runs, run[r].status = "none",
         \A q \in Runs \ {r} : run'[q] = run[q],
         run'[r].status = "queued", run'[r].step = 1,
         ChainOrder(run'[r].chain), NeedsTheLast(run'[r].chain, run'[r].needs),
         UNCHANGED <<latest, published, madeFrom, feedback>>,
         \A p \in Plans : /\ plan'[p].feedback = plan[p].feedback
                          /\ plan'[p].recompute = plan[p].recompute
                          /\ plan'[p].steps = plan[p].steps /\ plan'[p].parent = plan[p].parent
                          /\ plan'[p] # NoPlan => plan[p] # NoPlan,
         IsRevision(r)' /\ Decides(plan[run'[r].plan].feedback) =>
           StartsAtReasoning(run'[r].chain, Keys(run'[r].chain))
  PROVE  UpToDateInv'
<1>0. published[r] = {}
  BY DEF UpToDateInv, PublishedOK, HasPublished
<1>1. \A q \in Runs : IsRevision(q)' => run'[q].plan \in Plans
  BY DEF TypesInv, RevisionInv, RevisionsHavePlans
<1>2. ChainsOK'
  BY DEF UpToDateInv, ChainsOK
<1>3. DecisionsOK'
  <2> SUFFICES ASSUME NEW q \in Runs, IsRevision(q)', Decides(plan'[run'[q].plan].feedback)
               PROVE  StartsAtReasoning(run'[q].chain, Keys(run'[q].chain))
    BY DEF DecisionsOK, Decides
  <2>1. plan'[run'[q].plan].feedback = plan[run'[q].plan].feedback
    BY <1>1
  <2>2. CASE q = r
    BY <2>1, <2>2
  <2>3. CASE q # r
    BY <2>1, <2>3 DEF UpToDateInv, DecisionsOK, IsRevision
  <2> QED
    BY <2>2, <2>3
<1>4. PublishedOK'
  <2> SUFFICES ASSUME NEW q \in Runs PROVE HasPublished(q)'
    BY DEF PublishedOK
  <2>1. CASE q = r
    <3>1. run'[r].status = "queued" /\ run'[r].step = 1 /\ published'[r] = {}
      BY <1>0
    <3>2. \A i \in 1..Len(run'[r].chain) : ~(i < 1)
      BY TypesInv' DEF TypesInv, RunOK
    <3> QED
      BY <2>1, <3>1, <3>2 DEF HasPublished
  <2>2. CASE q # r
    <3>1. run'[q] = run[q] /\ published'[q] = published[q]
      BY <2>2
    <3>2. run[q].plan # 0 => plan'[run[q].plan].feedback = plan[run[q].plan].feedback
      BY <1>1, <3>1 DEF IsRevision
    <3> QED
      BY <3>1, <3>2 DEF UpToDateInv, PublishedOK, HasPublished, Exempt, IsRevision
  <2> QED
    BY <2>1, <2>2
<1>5. MadeOK'
  BY DEF UpToDateInv, MadeOK
<1>6. PlansOK'
  <2> SUFFICES ASSUME NEW p \in Plans, plan'[p] # NoPlan
               PROVE  /\ KeepsNothingStale(run'[plan'[p].parent].chain, plan'[p].recompute)
                      /\ Decides(plan'[p].feedback) =>
                           StartsAtReasoning(run'[plan'[p].parent].chain, plan'[p].steps)
    BY DEF PlansOK, Decides
  <2>1. plan[p] # NoPlan /\ run'[plan[p].parent] = run[plan[p].parent]
    <3>1. plan[p] # NoPlan
      OBVIOUS
    <3>2. plan[p].parent \in Runs /\ run[plan[p].parent].status = "completed"
      BY <3>1 DEF UpToDateInv, TypesInv, RevisionInv, PlansAreProposals
    <3> QED
      BY <3>1, <3>2
  <2> QED
    BY <2>1 DEF UpToDateInv, PlansOK
<1> QED
  BY <1>2, <1>3, <1>4, <1>5, <1>6 DEF UpToDateInv

LEMMA PublishKeepsUpToDate ==
  ASSUME UpToDateInv, TypesInv', NEW r \in Runs, Publish(r)
  PROVE  UpToDateInv'
<1> DEFINE s == run[r].chain[run[r].step]
           new == StepPublishes(r)
           last == run[r].step = Len(run[r].chain)
           moved == [a \in Artifacts |-> IF a \in new THEN r ELSE context[a]]
<1>1. /\ run[r].status = "running"
      /\ latest' = [a \in Artifacts |-> IF a \in new THEN r ELSE latest[a]]
      /\ published' = [published EXCEPT ![r] = @ \cup new]
      /\ madeFrom' = [a \in Artifacts |->
           IF a \in new
           THEN [b \in Artifacts |-> IF b \in Reads[s] THEN moved[b] ELSE NoVersion]
           ELSE madeFrom[a]]
      /\ UNCHANGED <<feedback, plan>>
  BY DEF Publish
<1>2. /\ run'[r].chain = run[r].chain /\ run'[r].needs = run[r].needs /\ run'[r].plan = run[r].plan
      /\ run'[r].step = run[r].step + 1
      /\ run'[r].status = (IF last THEN "completed" ELSE run[r].status)
      /\ \A q \in Runs \ {r} : run'[q] = run[q]
  <2>1. run' = [run EXCEPT ![r].step = @ + 1,
                           ![r].status = IF run[r].step = Len(run[r].chain) THEN "completed" ELSE @]
    BY DEF Publish
  <2>2. PICK C, N : run \in [Runs -> RunRows(C, N)]
    BY DEF UpToDateInv, TypesInv, RevisionInv, ShapeOK
  <2> QED
    BY <2>1, <2>2 DEF RunRows
<1>3. /\ run[r].chain \in Seq(StepKeys) /\ run[r].step \in 1..Len(run[r].chain)
      /\ Len(run[r].chain) \in Nat /\ s \in Keys(run[r].chain) /\ s \in StepKeys
      /\ new \subseteq Outputs[s] /\ new \subseteq Artifacts
  <2>1. Active(r) /\ TypesInv
    BY <1>1 DEF Active, UpToDateInv
  <2>2. run[r].chain \in Seq(StepKeys) /\ run[r].step \in 1..Len(run[r].chain)
    BY <2>1 DEF TypesInv, RunOK
  <2> QED
    BY <2>1, <2>2, StepOutputs
<1>4. \A a \in Outputs[s] : a \in new \/ Exempt(r, s, a)
  BY DEF StepPublishes, KeptByRunner, Exempt, Decides
<1> HIDE DEF new, last, moved
<1>5. /\ published'[r] = published[r] \cup new
      /\ \A q \in Runs : published[q] \subseteq published'[q]
      /\ \A q \in Runs \ {r} : published'[q] = published[q]
  BY <1>1 DEF UpToDateInv, TypesInv, RevisionInv, ShapeOK
<1>6. ChainsOK' /\ DecisionsOK' /\ PlansOK'
  BY <1>1, <1>2, ChainsStay
<1>7. PublishedOK'
  <2> SUFFICES ASSUME NEW q \in Runs PROVE HasPublished(q)'
    BY DEF PublishedOK
  <2>1. plan' = plan
    BY <1>1
  <2>2. CASE q = r
    <3>1. run'[r].status \notin {"none", "queued"}
      BY <1>1, <1>2
    <3>2. \A a \in published'[r] : \E k \in Keys(run'[r].chain) : a \in Outputs[k]
      BY <1>2, <1>3, <1>5 DEF UpToDateInv, PublishedOK, HasPublished
    <3>3. run'[r].status = "completed" => run'[r].step = Len(run'[r].chain) + 1
      BY <1>1, <1>2 DEF last
    <3>4. ASSUME NEW i \in 1..Len(run[r].chain), i < run[r].step + 1, NEW a \in Outputs[run[r].chain[i]]
          PROVE  a \in published'[r] \/ Exempt(r, run[r].chain[i], a)
      <4>1. CASE i = run[r].step
        BY <1>4, <1>5, <3>4, <4>1
      <4>2. CASE i < run[r].step
        BY <1>1, <1>5, <3>4, <4>2 DEF UpToDateInv, PublishedOK, HasPublished
      <4> QED
        BY <1>3, <3>4, <4>1, <4>2
    <3> QED
      BY <1>2, <2>1, <2>2, <3>1, <3>2, <3>3, <3>4 DEF HasPublished, Exempt, IsRevision
  <2>3. CASE q # r
    BY <1>2, <1>5, <2>1, <2>3 DEF UpToDateInv, PublishedOK, HasPublished, Exempt, IsRevision
  <2> QED
    BY <2>2, <2>3
<1>8. MadeOK'
  <2>1. ASSUME NEW a \in Artifacts, latest'[a] # NoVersion PROVE a \in published'[latest'[a]]
    <3>1. CASE a \in new
      BY <1>1, <1>5, <3>1
    <3>2. CASE a \notin new
      <4>1. latest'[a] = latest[a] /\ latest[a] # NoVersion
        BY <1>1, <2>1, <3>2
      <4>2. latest[a] \in Runs
        BY <4>1, RevisionAssumption
           DEF UpToDateInv, TypesInv, VersionsOK, NoVersion, Runs, RevisionAssumption
      <4> QED
        BY <1>5, <4>1, <4>2 DEF UpToDateInv, MadeOK
    <3> QED
      BY <3>1, <3>2
  <2>2. ASSUME NEW a \in Artifacts, NEW b \in Artifacts, madeFrom'[a][b] # NoVersion
        PROVE  \E k \in StepKeys : a \in Outputs[k] /\ b \in Reads[k]
    <3>1. CASE a \in new
      <4>1. madeFrom'[a] = [x \in Artifacts |-> IF x \in Reads[s] THEN moved[x] ELSE NoVersion]
        BY <1>1, <3>1
      <4>2. b \in Reads[s]
        BY <2>2, <4>1
      <4> QED
        BY <1>3, <3>1, <4>2
    <3>2. CASE a \notin new
      <4>1. madeFrom'[a] = madeFrom[a]
        BY <1>1, <3>2
      <4> QED
        BY <2>2, <4>1 DEF UpToDateInv, MadeOK
    <3> QED
      BY <3>1, <3>2
  <2> QED
    BY <1>1, <2>1, <2>2 DEF UpToDateInv, MadeOK
<1> QED
  BY <1>6, <1>7, <1>8 DEF UpToDateInv

LEMMA CreateRunKeepsUpToDate ==
  ASSUME UpToDateInv, TypesInv', NEW r \in Runs, NEW c \in Contracts, CreateRun(r, c)
  PROVE  UpToDateInv'
<1> DEFINE new == [status |-> "queued", chain |-> c,
                   needs |-> [s \in Keys(c) |-> Before(c, s)],
                   step |-> 1, parent |-> 0, plan |-> 0]
<1>1. /\ run[r].status = "none" /\ run' = [run EXCEPT ![r] = new]
      /\ UNCHANGED <<latest, published, madeFrom, feedback, plan>>
  BY DEF CreateRun, MayCreate
<1>2. run'[r] = new /\ \A q \in Runs \ {r} : run'[q] = run[q]
  BY <1>1 DEF UpToDateInv, TypesInv, RevisionInv, ShapeOK
<1>3. ChainOrder(c) /\ NeedsTheLast(c, new.needs)
  BY ReadAssumption DEF ReadAssumption, NeedsTheLast
<1>4. /\ run'[r].status = "queued" /\ run'[r].step = 1 /\ run'[r].chain = c
      /\ run'[r].needs = new.needs /\ ~IsRevision(r)'
  BY <1>2 DEF IsRevision
<1> HIDE DEF new
<1> QED
  BY <1>1, <1>2, <1>3, <1>4, CreationKeeps

LEMMA ConfirmKeepsUpToDate ==
  ASSUME UpToDateInv, TypesInv', NEW p \in Plans, NEW r \in Runs, ConfirmPlan(p, r)
  PROVE  UpToDateInv'
<1> DEFINE chain == run[plan[p].parent].chain
<1>1. /\ plan[p] # NoPlan /\ run[r].status = "none"
      /\ run' = [run EXCEPT ![r] = Derived(p)] /\ plan' = [plan EXCEPT ![p].run = r]
      /\ UNCHANGED <<latest, published, madeFrom, feedback>>
  BY DEF ConfirmPlan, MayCreate
<1>2. run'[r] = Derived(p) /\ \A q \in Runs \ {r} : run'[q] = run[q]
  BY <1>1 DEF UpToDateInv, TypesInv, RevisionInv, ShapeOK
<1>3. /\ run'[r].status = "queued" /\ run'[r].chain = DerivedChain(p) /\ run'[r].step = 1
      /\ run'[r].needs = DerivedNeeds(p) /\ run'[r].plan = p
  BY <1>2 DEF Derived
<1>4. ASSUME NEW q \in Plans
      PROVE  /\ plan'[q].feedback = plan[q].feedback /\ plan'[q].recompute = plan[q].recompute
             /\ plan'[q].steps = plan[q].steps /\ plan'[q].parent = plan[q].parent
             /\ plan'[q] # NoPlan => plan[q] # NoPlan
  BY <1>1 DEF UpToDateInv, TypesInv, RevisionInv, ShapeOK, PlanRows
<1>5. plan[p].parent \in Runs /\ run[plan[p].parent].status = "completed"
  BY <1>1 DEF UpToDateInv, TypesInv, RevisionInv, PlansAreProposals
<1>6. /\ chain \in Seq(StepKeys) /\ ChainOrder(chain)
      /\ NeedsTheLast(chain, run[plan[p].parent].needs)
  BY <1>5 DEF UpToDateInv, TypesInv, RunOK, ChainsOK
<1>7. PICK at : IsPart(at, DerivedChain(p), chain, plan[p].steps)
  BY <1>6, DerivedIsPart
<1>8. /\ ChainOrder(DerivedChain(p)) /\ NeedsTheLast(DerivedChain(p), DerivedNeeds(p))
      /\ StartsAtReasoning(chain, plan[p].steps) =>
           StartsAtReasoning(DerivedChain(p), Keys(DerivedChain(p)))
  BY <1>6, <1>7, PartsAreOrdered, DerivedNeedsTheLast
<1>9. Decides(plan[p].feedback) => StartsAtReasoning(chain, plan[p].steps)
  BY <1>1 DEF UpToDateInv, PlansOK
<1> HIDE DEF chain
<1> QED
  BY <1>1, <1>2, <1>3, <1>4, <1>8, <1>9, CreationKeeps

LEMMA FeedbackKeepsUpToDate ==
  ASSUME UpToDateInv, TypesInv', NEW a \in Artifacts, NEW category \in Categories,
         CreateFeedback(a, category)
  PROVE  UpToDateInv'
<1>1. /\ UNCHANGED <<run, latest, published, madeFrom, plan>>
      /\ category = "adjudicate" => a \in Adjudicable
      /\ feedback' = feedback \cup
           {[artifact |-> a, baseline |-> latest[a], category |-> category]}
  BY DEF CreateFeedback
<1>2. ChainsOK' /\ DecisionsOK' /\ PlansOK'
  BY <1>1, ChainsStay
<1>3. MadeOK'
  BY <1>1 DEF UpToDateInv, MadeOK
<1>4. PublishedOK'
  BY <1>1 DEF UpToDateInv, PublishedOK, HasPublished, Exempt, IsRevision
<1> QED
  BY <1>2, <1>3, <1>4 DEF UpToDateInv

(* What a plan replaces is made by a step it executes: the producer of what*)
(* its parent created, and of the data the one step that made all of it.   *)
LEMMA ReplacedAreMade ==
  ASSUME UpToDateInv, NEW r \in Runs, NEW F \in SUBSET feedback, Accepted(r, F),
         NEW S, S = AffectedSteps(run[r].chain, run[r].needs, F),
         NEW b \in Recomputed(r, run[r].chain, latest, F, S)
  PROVE  \E j \in 1..Len(run[r].chain) : b \in Outputs[run[r].chain[j]] /\ run[r].chain[j] \in S
<1> DEFINE c == run[r].chain
<1>1. ChainOrder(c) /\ run[r].status = "completed"
  BY DEF UpToDateInv, ChainsOK, Accepted
<1>2. CASE latest[b] = r /\ ProducerStep(c, b) \in S
  <2>1. PICK s \in Keys(c) : b \in Outputs[s]
    <3>1. b \in Artifacts /\ latest[b] # NoVersion
      BY DEF Recomputed
    <3>2. b \in published[r]
      BY <1>2, <3>1 DEF UpToDateInv, MadeOK
    <3> QED
      BY <3>2 DEF UpToDateInv, PublishedOK, HasPublished
  <2>2. PICK j \in 1..Len(c) : s = c[j]
    BY DEF Keys
  <2>3. ProducerStep(c, b) = c[j]
    BY <1>1, <2>1, <2>2, OneProducer
  <2> QED
    BY <1>2, <2>1, <2>2, <2>3
<1>3. CASE DataFeedback(F) # {} /\ b \in DataKinds
  <2>1. PICK f \in F : f.artifact \in DataKinds
    BY <1>3 DEF DataFeedback
  <2>2. PICK s \in Keys(c) : \A a \in DataKinds : a \in Outputs[s]
    BY <1>3 DEF Accepted
  <2>3. PICK j \in 1..Len(c) : s = c[j]
    BY DEF Keys
  <2>4. ProducerStep(c, f.artifact) = s
    BY <1>1, <2>1, <2>2, <2>3, OneProducer
  <2>5. s \in AskedFor(c, F)
    BY <2>1, <2>4 DEF AskedFor, About
  <2>6. s \in S
    BY <2>5 DEF AffectedSteps
  <2> QED
    BY <1>3, <2>2, <2>3, <2>6
<1> QED
  BY <1>2, <1>3 DEF Recomputed

(* Decisions are about artifacts that the reasoning step makes.            *)
LEMMA DecisionsAskForReasoning ==
  ASSUME UpToDateInv, NEW r \in Runs, NEW F \in SUBSET feedback, Accepted(r, F), Decides(F)
  PROVE  StartsAtReasoning(run[r].chain, AffectedSteps(run[r].chain, run[r].needs, F))
<1> DEFINE c == run[r].chain
<1>1. /\ ChainOrder(c) /\ NeedsTheLast(c, run[r].needs) /\ c \in Seq(StepKeys)
      /\ run[r].status = "completed"
  BY DEF UpToDateInv, ChainsOK, Accepted, TypesInv, RunOK
<1>2. \A f \in F : f.category = "adjudicate"
  BY DEF Accepted, Decides, Adjudications
<1>3. Reacquired(c, F) = {}
  BY <1>2 DEF Reacquired, SourceFeedback
<1>4. ASSUME NEW f \in F PROVE ProducerStep(c, f.artifact) = "reasoning_literature"
  <2>1. /\ f.artifact \in Adjudicable /\ f.artifact \in Artifacts
        /\ latest[f.artifact] = r /\ latest[f.artifact] # NoVersion
    BY <1>2 DEF UpToDateInv, MadeOK, TypesInv, VersionsOK, Accepted, NoVersion, Runs
  <2>2. f.artifact \in published[r]
    BY <2>1 DEF UpToDateInv, MadeOK
  <2>3. PICK s \in Keys(c) : f.artifact \in Outputs[s]
    BY <2>2 DEF UpToDateInv, PublishedOK, HasPublished
  <2>4. PICK j \in 1..Len(c) : s = c[j]
    BY DEF Keys
  <2>5. s \in StepKeys
    BY <1>1, <2>4
  <2>6. s = "reasoning_literature"
    BY <2>1, <2>3, <2>5, ReadAssumption DEF ReadAssumption
  <2> QED
    BY <1>1, <2>3, <2>4, <2>6, OneProducer
<1>5. AskedFor(c, F) \subseteq {"reasoning_literature"}
  BY <1>3, <1>4 DEF AskedFor, About
<1> QED
  BY <1>1, <1>5, DecisionsStartAtReasoning

(* If a step made a from b and b is replaced, the step that makes b is     *)
(* affected, so is the one that makes a, and its output is replaced.       *)
LEMMA NothingStaleIsKept ==
  ASSUME UpToDateInv, NEW r \in Runs, NEW F \in SUBSET feedback, Accepted(r, F),
         NEW S, S = AffectedSteps(run[r].chain, run[r].needs, F),
         NEW X, X = Recomputed(r, run[r].chain, latest, F, S), OutputsMatch(r, F, S, X)
  PROVE  KeepsNothingStale(run[r].chain, X)
<1> DEFINE c == run[r].chain
<1>1. /\ ChainOrder(c) /\ NeedsTheLast(c, run[r].needs) /\ c \in Seq(StepKeys)
      /\ run[r].status = "completed" /\ run[r].step = Len(c) + 1 /\ Len(c) \in Nat
  BY DEF UpToDateInv, ChainsOK, PublishedOK, HasPublished, Accepted, TypesInv, RunOK
<1> SUFFICES ASSUME NEW s \in Keys(c), NEW t \in StepKeys, NEW a \in Outputs[s] \cap Outputs[t],
                    a \notin X, NEW b \in Reads[t] \cap X
             PROVE  FALSE
  BY DEF KeepsNothingStale
<1>2. PICK i \in 1..Len(c) : s = c[i]
  BY DEF Keys
<1>3. PICK j \in 1..Len(c) : b \in Outputs[c[j]] /\ c[j] \in S
  BY ReplacedAreMade
<1>4. c[i] \in StepKeys /\ c[j] \in StepKeys /\ a \in Outputs[c[i]]
  BY <1>1, <1>2
<1>5. j <= i /\ \A k \in j..Len(c) : c[k] \notin GaiaSteps
  <2>1. Outputs[t] \cap Outputs[c[i]] # {} /\ Reads[t] \cap Outputs[c[j]] # {}
    BY <1>3, <1>4
  <2> QED
    BY <1>1, <2>1 DEF ChainOrder
<1>6. c[j] # "planning" /\ c[i] # "planning" /\ c[i] # "fetching_data"
  BY <1>3, <1>4, RevisionAssumption DEF RevisionAssumption
<1>7. c[i] \in S
  BY <1>1, <1>3, <1>5, <1>6, LaterStepsFollow
<1>8. c[i] \notin GaiaSteps
  BY <1>1, <1>5
<1>9. a = "literature_claims" => ~StartsAtReasoning(c, S) /\ ~StartsAtReasoning(c, Keys(c))
  <2> SUFFICES ASSUME a = "literature_claims",
                      StartsAtReasoning(c, S) \/ StartsAtReasoning(c, Keys(c))
               PROVE  FALSE
    OBVIOUS
  <2>1. /\ c[i] = "reasoning_literature" /\ t = "reasoning_literature"
        /\ Reads[t] \cap Outputs[t] \subseteq {"literature_claims"}
    BY <1>4, ReadAssumption DEF ReadAssumption
  <2>2. c[j] \in Keys(c)
    BY DEF Keys
  <2>3. ~(j < i)
    BY <1>3, <1>6, <2>1, <2>2 DEF StartsAtReasoning
  <2>4. j = i
    BY <1>1, <1>5, <2>3
  <2> QED
    BY <1>3, <2>1, <2>4
<1>10. CASE a \in published[r]
  <2>1. c[i] \in S \ ({"planning"} \cup Reacquired(c, F))
    BY <1>6, <1>7 DEF Reacquired
  <2>2. Decides(F) /\ a = "literature_claims"
    BY <1>4, <1>8, <1>10, <2>1 DEF OutputsMatch, Decides
  <2>3. StartsAtReasoning(c, S)
    BY <2>2, DecisionsAskForReasoning
  <2> QED
    BY <1>9, <2>2, <2>3
<1>11. CASE a \notin published[r]
  <2>1. Exempt(r, c[i], a)
    BY <1>1, <1>4, <1>11 DEF UpToDateInv, PublishedOK, HasPublished
  <2>2. /\ a = "literature_claims" /\ IsRevision(r) /\ Decides(plan[run[r].plan].feedback)
    BY <1>8, <2>1 DEF Exempt
  <2>3. StartsAtReasoning(c, Keys(c))
    BY <2>2 DEF UpToDateInv, DecisionsOK
  <2> QED
    BY <1>9, <2>2, <2>3
<1> QED
  BY <1>10, <1>11

LEMMA CreatePlanKeepsUpToDate ==
  ASSUME UpToDateInv, TypesInv', NEW p \in Plans, NEW r \in Runs, NEW F \in SUBSET feedback,
         CreatePlan(p, r, F)
  PROVE  UpToDateInv'
<1>1. PICK x : /\ plan' = [plan EXCEPT ![p] = x] /\ x.parent = r /\ x.feedback = F
               /\ x.steps = AffectedSteps(run[r].chain, run[r].needs, F)
               /\ x.recompute = Recomputed(r, run[r].chain, latest, F, x.steps)
               /\ OutputsMatch(r, F, x.steps, x.recompute)
  <2> DEFINE steps == AffectedSteps(run[r].chain, run[r].needs, F)
             new == [parent |-> r, feedback |-> F, steps |-> steps,
                     recompute |-> Recomputed(r, run[r].chain, latest, F, steps),
                     frozen |-> latest, run |-> 0]
  <2>1. plan' = [plan EXCEPT ![p] = new] /\ OutputsMatch(r, F, new.steps, new.recompute)
    BY DEF CreatePlan
  <2>2. /\ new.parent = r /\ new.feedback = F /\ new.steps = steps
        /\ new.recompute = Recomputed(r, run[r].chain, latest, F, new.steps)
    OBVIOUS
  <2> HIDE DEF new
  <2> QED
    BY <2>1, <2>2
<1>2. /\ plan[p] = NoPlan /\ Accepted(r, F)
      /\ UNCHANGED <<run, latest, published, madeFrom, feedback>>
  BY DEF CreatePlan, NextPlan
<1>3. plan'[p] = x /\ \A q \in Plans \ {p} : plan'[q] = plan[q]
  BY <1>1 DEF UpToDateInv, TypesInv, RevisionInv, ShapeOK
<1>4. \A q \in Runs : IsRevision(q) => plan'[run[q].plan] = plan[run[q].plan]
  BY <1>2, <1>3 DEF UpToDateInv, TypesInv, RevisionInv, RevisionsHavePlans
<1>5. ChainsOK'
  BY <1>2 DEF UpToDateInv, ChainsOK
<1>6. DecisionsOK'
  BY <1>2, <1>4 DEF UpToDateInv, DecisionsOK, IsRevision
<1>7. PublishedOK'
  BY <1>2, <1>4 DEF UpToDateInv, PublishedOK, HasPublished, Exempt, IsRevision
<1>8. MadeOK'
  BY <1>2 DEF UpToDateInv, MadeOK
<1>9. PlansOK'
  <2>1. KeepsNothingStale(run[r].chain, x.recompute)
    BY <1>1, <1>2, NothingStaleIsKept
  <2>2. Decides(F) => StartsAtReasoning(run[r].chain, x.steps)
    BY <1>1, <1>2, DecisionsAskForReasoning
  <2>3. ASSUME NEW q \in Plans, plan'[q] # NoPlan
        PROVE  /\ KeepsNothingStale(run'[plan'[q].parent].chain, plan'[q].recompute)
               /\ Decides(plan'[q].feedback) =>
                    StartsAtReasoning(run'[plan'[q].parent].chain, plan'[q].steps)
    <3>1. CASE q = p
      BY <1>1, <1>2, <1>3, <2>1, <2>2, <3>1
    <3>2. CASE q # p
      <4>1. plan'[q] = plan[q] /\ run' = run
        BY <1>2, <1>3, <3>2
      <4> QED
        BY <2>3, <4>1 DEF UpToDateInv, PlansOK
    <3> QED
      BY <3>1, <3>2
  <2> QED
    BY <2>3 DEF PlansOK, Decides
<1> QED
  BY <1>5, <1>6, <1>7, <1>8, <1>9 DEF UpToDateInv

LEMMA NextUpToDate == UpToDateInv /\ [Next]_vars => UpToDateInv'
<1> SUFFICES ASSUME UpToDateInv, [Next]_vars PROVE UpToDateInv'
  OBVIOUS
<1>0. TypesInv'
  BY NextTypes DEF UpToDateInv
<1>1. CASE UNCHANGED <<run, latest, published, madeFrom, feedback, plan>>
  <2>1. ChainsOK' /\ DecisionsOK' /\ PlansOK'
    BY <1>0, <1>1, ChainsStay
  <2>2. MadeOK'
    BY <1>1 DEF UpToDateInv, MadeOK
  <2>3. PublishedOK'
    BY <1>1 DEF UpToDateInv, PublishedOK, HasPublished, Exempt, IsRevision
  <2> QED
    BY <1>0, <2>1, <2>2, <2>3 DEF UpToDateInv
<1>2. ASSUME NEW r \in Runs, NEW c \in Contracts, CreateRun(r, c) PROVE UpToDateInv'
  BY <1>0, <1>2, CreateRunKeepsUpToDate
<1>3. ASSUME NEW r \in Runs, StartOriginal(r) \/ StartRevision(r) \/ EndRun(r)
      PROVE  UpToDateInv'
  <2>1. Active(r) /\ UNCHANGED <<latest, published, madeFrom, feedback, plan>>
    BY <1>3 DEF StartOriginal, StartRevision, EndRun, Active
  <2>2. \E s \in {"running", "failed"} : run' = [run EXCEPT ![r].status = s]
    BY <1>3 DEF StartOriginal, StartRevision, EndRun
  <2> QED
    BY <1>0, <2>1, <2>2, StatusKeeps
<1>4. ASSUME NEW r \in Runs, EnsureTarget(r) PROVE UpToDateInv'
  BY <1>1, <1>4 DEF EnsureTarget
<1>5. ASSUME NEW r \in Runs, Publish(r) PROVE UpToDateInv'
  BY <1>0, <1>5, PublishKeepsUpToDate
<1>6. ASSUME NEW a \in Artifacts, NEW category \in Categories, CreateFeedback(a, category)
      PROVE  UpToDateInv'
  BY <1>0, <1>6, FeedbackKeepsUpToDate
<1>7. ASSUME NEW p \in Plans, NEW r \in Runs, NEW F \in SUBSET feedback, CreatePlan(p, r, F)
      PROVE  UpToDateInv'
  BY <1>0, <1>7, CreatePlanKeepsUpToDate
<1>8. ASSUME NEW p \in Plans, NEW r \in Runs, ConfirmPlan(p, r) PROVE UpToDateInv'
  BY <1>0, <1>8, ConfirmKeepsUpToDate
<1>9. CASE UNCHANGED vars
  BY <1>1, <1>9 DEF vars
<1> QED
  BY <1>2, <1>3, <1>4, <1>5, <1>6, <1>7, <1>8, <1>9 DEF Next

(* As long as its frozen versions are current, a plan of create_plan keeps *)
(* no version, of what its parent's Contract makes, that was made from one *)
(* the plan replaces: for all chains that compile_run_plan freezes.        *)
THEOREM ReuseIsUpToDate == Spec => []ReusedOutputsAreUpToDate
<1>1. UpToDateInv => ReusedOutputsAreUpToDate
  <2> SUFFICES ASSUME UpToDateInv, NEW p \in Plans, plan[p] # NoPlan, FrozenAreCurrent(p),
                      NEW s \in Keys(run[plan[p].parent].chain), NEW a \in Outputs[s],
                      a \in Frozen(p), a \notin plan[p].recompute, NEW b \in plan[p].recompute,
                      madeFrom[a][b] = latest[b]
               PROVE  FALSE
    BY DEF ReusedOutputsAreUpToDate
  <2>1. a \in Artifacts /\ b \in Artifacts /\ plan[p].frozen[b] # NoVersion
    BY DEF Frozen, UpToDateInv, TypesInv, RevisionInv, PlansAreProposals, IsProposal, Recomputed
  <2>2. latest[b] # NoVersion
    BY <2>1 DEF FrozenAreCurrent, Frozen
  <2>3. PICK t \in StepKeys : a \in Outputs[t] /\ b \in Reads[t]
    BY <2>1, <2>2 DEF UpToDateInv, MadeOK
  <2>4. KeepsNothingStale(run[plan[p].parent].chain, plan[p].recompute)
    BY DEF UpToDateInv, PlansOK
  <2> QED
    BY <2>3, <2>4 DEF KeepsNothingStale
<1> QED
  BY <1>1, UpToDateInit, NextUpToDate, PTL DEF Spec
====
