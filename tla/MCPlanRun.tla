----------------------------- MODULE MCPlanRun -----------------------------
EXTENDS PlanRun

(* Three independent tasks, more than there are slots; a chain that is     *)
(* listed from its end; and a task that waits for two others.              *)
Three == <<{}, {}, {}>>
Backwards == <<{2}, {3}, {}>>
Join == <<{2, 3}, {}, {}>>
MCPlans == {Three, Backwards, Join}
=============================================================================
