---- MODULE MCRevisionPlans ----
(* A Contract for all data and literature, and one with two tasks, a lookup*)
(* and a Gaia search that supplies the data, and papers.                   *)
EXTENDS RevisionPlans, Functions

MCDataKinds == {"dataset", "source_collection"}

MCOutputs ==
  [s \in StepKeys |->
     CASE s = "cleaning_data"        -> MCDataKinds
       [] s = "lookup"               -> {"lookup_report"}
       [] s = "gaia"                 -> MCDataKinds \cup {"gaia_report"}
       [] s = "searching_papers"     -> {"paper_collection"}
       [] s = "summarizing_papers"   -> {"paper_summary"}
       [] s = "reasoning_literature" -> {"literature_claims", "literature_relations"}
       [] OTHER                      -> {}]

MCReads ==
  [s \in StepKeys |->
     CASE s = "summarizing_papers"   -> {"paper_collection"}
       [] s = "reasoning_literature" -> {"paper_summary", "literature_claims"}
       [] OTHER                      -> {}]

MCArtifacts == UNION {MCOutputs[s] : s \in StepKeys}

MCAll == <<"planning", "fetching_data", "cleaning_data",
           "searching_papers", "summarizing_papers", "reasoning_literature">>
MCTasks == <<"planning", "lookup", "gaia", "searching_papers">>
MCContracts == {MCAll, MCTasks}
MCTaskContracts == {MCTasks}
MCStepKeys == Range(MCAll) \cup Range(MCTasks)
====
