---- MODULE MCResearchProject ----
(* Two requests, which may carry the same draft, Contract or run key, over *)
(* two drafts, two Contract keys and two run keys.                         *)
EXTENDS ResearchProject, TLC

CONSTANTS r1, r2, d1, d2, c1, c2, n1, n2

MCRequests == {r1, r2}
MCDrafts == {d1, d2}
MCContractKeys == {c1, c2}
MCRunKeys == {n1, n2}
Symmetry ==
  UNION {Permutations(S) : S \in {MCRequests, MCDrafts, MCContractKeys, MCRunKeys}}
====
