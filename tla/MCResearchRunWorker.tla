---- MODULE MCResearchRunWorker ----
(* Two API processes over a plan of two steps: a data step with two        *)
(* attempts, and the cleaning step that may ask for a scientific repair.   *)
EXTENDS ResearchRunWorker

CONSTANTS w1, w2

MCWorkers == {w1, w2}

MCPhases == {"fetching_data", "cleaning_data"}
MCEnterStatus == <<"fetching_data", "cleaning_data">>
MCMaxAttempts == <<2, 1>>
====
