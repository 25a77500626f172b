---- MODULE MCRevisionLocks ----
(* Two artifacts that a run of two steps publishes anew, while a user      *)
(* gives feedback, uploads a file, makes a plan and confirms it.           *)
EXTENDS RevisionLocks

MCArtifacts == 1..2
MCTwoSteps == <<{1, 2}, {2}>>
MCAboutFirst == [q \in Feedbacks |-> 1]
MCDocuments == {1}
====
