---- MODULE MCResearchTurn ----
(* Two requests carrying either of two keys and one run worker, or one     *)
(* request and two workers that hold the run one after the other.          *)
EXTENDS ResearchTurn

CONSTANTS k1, k2, r1, r2, w1, w2

MCKeys == {k1, k2}
MCRequests == {r1, r2}
MCWriters == {w1, w2}
====
