---- MODULE MCResearchInputs ----
(* Two requests, each any of these: the bridge with a key, with that key   *)
(* for another paper, with another key for the same paper, or a text.      *)
EXTENDS ResearchInputs

CONSTANTS r1, r2, k1, k2, k3, paper, other, text, a1, a2, c1

MCRequests == {r1, r2}
MCPosts == {Post(TRUE, k1, a1, paper, None), Post(TRUE, k1, a2, other, None),
            Post(TRUE, k2, a1, paper, None), Post(FALSE, k3, text, text, c1)}
MCContents == {c1}
====
