------------------------------ MODULE PlanGraph ------------------------------
(***************************************************************************)
(* The tasks of a plan (kairocli/plan.py), numbered in the order in which  *)
(* the planner listed them.  deps[t] are the tasks that t depends on.      *)
(***************************************************************************)
EXTENDS Naturals, Sequences, FiniteSets

Settled == {"completed", "failed", "blocked"}
Statuses == Settled \cup {"pending", "running"}

(* What ExecutionPlan accepts: whichever tasks are picked, one of them does *)
(* not depend on the others.                                                *)
Acyclic(deps) ==
    \A S \in SUBSET DOMAIN deps : S # {} => \E t \in S : deps[t] \cap S = {}

IsPlan(deps) ==
    /\ deps \in Seq(SUBSET Nat)
    /\ \A t \in DOMAIN deps : deps[t] \subseteq DOMAIN deps
    /\ Acyclic(deps)

Ready(deps, status) ==
    {t \in DOMAIN deps : /\ status[t] = "pending"
                         /\ \A d \in deps[t] : status[d] = "completed"}

Complete(status) == \A t \in DOMAIN status : status[t] \in Settled

Waiting(status) == {t \in DOMAIN status : status[t] = "pending"}

(* Mutated form: one pass in the order of the tasks, which sees what it    *)
(* blocked itself only if that came before.                                *)
BlockedOnce(deps, status) ==
    LET Closed(S) ==
            \A t \in Waiting(status) :
              (\E d \in deps[t] :
                 status[d] \in {"failed", "blocked"} \/ (d < t /\ d \in S)) => t \in S
    IN  [t \in DOMAIN status |->
           IF \A S \in SUBSET DOMAIN status : Closed(S) => t \in S THEN "blocked"
           ELSE status[t]]

(* Passes over the tasks until nothing changes: what they block is the     *)
(* least set that has, of the waiting tasks, those with a dependency that  *)
(* failed, was blocked or is in the set.                                   *)
Blocked(deps, status) ==
    LET Closed(S) ==
            \A t \in Waiting(status) :
              (\E d \in deps[t] : status[d] \in {"failed", "blocked"} \/ d \in S) => t \in S
    IN  [t \in DOMAIN status |->
           IF \A S \in SUBSET DOMAIN status : Closed(S) => t \in S THEN "blocked"
           ELSE status[t]]

(* How it should come out: a task is blocked exactly if it depends on one   *)
(* that failed, however indirectly, and every other task was executed       *)
(* after its dependencies.                                                  *)
Consequent(deps, status) ==
    \A t \in DOMAIN deps :
      /\ status[t] = "blocked" <=> \E d \in deps[t] : status[d] \in {"failed", "blocked"}
      /\ status[t] \in {"completed", "failed"} =>
           \A d \in deps[t] : status[d] = "completed"
=============================================================================
