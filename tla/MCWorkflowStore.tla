---- MODULE MCWorkflowStore ----
(* Three frozen steps of compile_run_plan: planning, a data step with two  *)
(* attempts, and a scientific step of the same phase, which may ask twice. *)
EXTENDS WorkflowStore

MCPhases == {"planning", "cleaning_data"}
MCEnterStatus == <<"planning", "cleaning_data", "cleaning_data">>
MCMaxAttempts == <<1, 2, 2>>
====
