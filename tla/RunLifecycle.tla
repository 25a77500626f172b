---- MODULE RunLifecycle ----
(***************************************************************************)
(* What a ResearchRun promises its project, whatever executes it: the      *)
(* outputs of the frozen steps are published once each and in plan order,  *)
(* nothing is published while the run waits for its user, and a run that   *)
(* is completed, failed or cancelled is never touched again.               *)
(***************************************************************************)
EXTENDS RunPlanChain

VARIABLES
  phase,  \* "open", "waiting", or the terminal status
  done    \* the steps whose outputs are published

vars == <<phase, done>>

Init == phase = "open" /\ done = {}

Publish(s) ==
  /\ phase = "open"
  /\ s \notin done /\ 1..(s - 1) \subseteq done
  /\ done' = done \cup {s}
  /\ phase' = IF s = StepCount THEN "completed" ELSE "open"

Park == phase = "open" /\ phase' = "waiting" /\ UNCHANGED done

Resume == phase = "waiting" /\ phase' = "open" /\ UNCHANGED done

Fail == phase = "open" /\ phase' = "failed" /\ UNCHANGED done

Cancel == phase \in {"open", "waiting"} /\ phase' = "cancelled" /\ UNCHANGED done

Next == (\E s \in Steps : Publish(s)) \/ Park \/ Resume \/ Fail \/ Cancel

Spec == Init /\ [][Next]_vars
====
