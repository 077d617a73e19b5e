------------------------------- MODULE PlanRun -------------------------------
(***************************************************************************)
(* Plan and Team execution (kairocli/agent/planning.py, orchestration.py): *)
(* a plan is made, in Plan mode reviewed by the user, and executed batch   *)
(* by batch by workers that share the agent's cancellation event, its      *)
(* token budget and a semaphore; the agent then answers.                   *)
(*                                                                         *)
(* A worker is an Agent with a run of its own (module AgentRun), of which  *)
(* its requests and tool batches are left here.  A worker whose run is     *)
(* over goes on by itself: asyncio.gather does not stop the others when    *)
(* one of them is cancelled.                                               *)
(***************************************************************************)
EXTENDS PlanGraph, FiniteSetsExt

CONSTANTS
    Plans,           \* what the planner may return
    MaxConcurrency,
    MaxReplans,      \* max_replans
    MaxRetries,      \* max_retries_per_step
    MaxTurns,        \* budget.max_iterations of a worker
    TokenBudget,     \* budget.token_budget
    Costs,           \* what one response may cost
    MaxRuns,         \* bound: runs
    MaxSupplements   \* bound: plans the user sends back in a run

ASSUME PlanRunAssumption ==
    /\ \A deps \in Plans : IsPlan(deps)
    /\ MaxConcurrency \in Nat \ {0} /\ MaxReplans \in Nat /\ MaxRetries \in Nat
    /\ MaxTurns \in Nat \ {0} /\ TokenBudget \in Nat \ {0}
    /\ Costs \subseteq Nat /\ Costs # {} /\ IsFiniteSet(Costs)
    /\ MaxRuns \in Nat /\ MaxSupplements \in Nat

VARIABLES
    phase,        \* of the current run
    team,         \* it is a Team run
    run,          \* bound: runs so far
    canceled,     \* the agent's cancel_event is set
    deps, status, \* the plan
    results,      \* tasks whose results will be put before the agent, with their plan
    plan,         \* plans of this run so far
    replanning,   \* the plan in the making replaces one
    replans,      \* replans_remaining
    supplements,  \* bound: plans sent back in this run
    workers,      \* worker coroutines that have not been awaited
    spent,        \* used tokens of each run's budget
    usage         \* the agent's usage counters

planVars == <<team, deps, status, results, plan, replanning, replans, supplements>>
vars == <<phase, run, canceled, workers, spent, usage, planVars>>

Runs == 1..MaxRuns

(* The places at which a worker holds its slot of the semaphore.           *)
Inside == {"preparing", "looping", "requesting", "tools", "answered", "reviewing"}
Over == {"ok", "failed", "canceled"}

Worker(r, t, isTeam) ==
    [run |-> r, task |-> t, team |-> isTeam, at |-> "queued",
     budget |-> r, used |-> 0, turns |-> 0, attempt |-> 0]

TypeOK ==
    /\ phase \in {"idle", "planning", "reviewing", "batching", "executing", "finishing"}
    /\ team \in BOOLEAN /\ canceled \in BOOLEAN /\ replanning \in BOOLEAN
    /\ run \in 0..MaxRuns
    /\ deps \in {<<>>} \cup Plans /\ status \in Seq(Statuses) /\ Len(status) = Len(deps)
    /\ plan \in Nat /\ results \subseteq Nat \X Nat
    /\ replans \in 0..MaxReplans /\ supplements \in 0..MaxSupplements
    /\ \A w \in workers :
         /\ w.run \in 1..run /\ w.budget \in 1..run /\ w.at \in {"queued"} \cup Inside \cup Over
         /\ w.used \in Nat /\ w.turns \in 0..MaxTurns /\ w.attempt \in 0..MaxRetries
    /\ spent \in [Runs -> Nat] /\ usage \in Nat

Init ==
    /\ phase = "idle" /\ team = FALSE /\ run = 0 /\ canceled = FALSE
    /\ deps = <<>> /\ status = <<>> /\ results = {} /\ plan = 0
    /\ replanning = FALSE /\ replans = 0 /\ supplements = 0
    /\ workers = {} /\ spent = [r \in Runs |-> 0] /\ usage = 0
-----------------------------------------------------------------------------

(* _budget_request: the lock of budget b is held for a whole request.      *)
Free(b) == \A w \in workers : w.at \in {"requesting", "reviewing"} => w.budget # b

Left(b) == spent[b] < TokenBudget

Charge(b, c) == spent' = [spent EXCEPT ![b] = @ + c]

Become(w, v) == workers' = (workers \ {w}) \cup {v}

(* Mutated form: only a good answer is accounted for.                      *)
AbsorbedOnSuccess(w, at) == IF at = "ok" THEN w.used ELSE 0

(* absorb_usage: the agent takes over what its worker has used.            *)
Absorbed(w, at) == w.used

Leave(w, at) ==
    /\ usage' = usage + Absorbed(w, at)
    /\ Become(w, [w EXCEPT !.at = at, !.used = 0])
-----------------------------------------------------------------------------
(*                              One worker                                 *)

(* Mutated form: a failed worker keeps its slot.                           *)
HoldsUnlessOk(w) == w.at \in Inside \cup {"failed"}

Holds(w) == w.at \in Inside

Acquire(w) ==
    /\ w.at = "queued"
    /\ Cardinality({v \in workers : v.run = w.run /\ Holds(v)}) < MaxConcurrency
    /\ Become(w, [w EXCEPT !.at = "preparing"])
    /\ UNCHANGED <<spent, usage>>

(* Its run prepares images and memory, without a look at the event.        *)
Prepared(w) ==
    /\ w.at = "preparing"
    /\ \/ /\ Become(w, [w EXCEPT !.at = "looping"])
          /\ UNCHANGED usage
       \/ Leave(w, "failed")
    /\ UNCHANGED spent

(* The head of its loop, and the wait for the budget.                      *)
Loop(w) ==
    /\ w.at = "looping"
    /\ \/ /\ canceled
          /\ Leave(w, "canceled")
       \/ /\ w.turns = MaxTurns \/ (Free(w.budget) /\ ~Left(w.budget))
          /\ Leave(w, "failed")
       \/ /\ ~canceled /\ w.turns < MaxTurns
          /\ Free(w.budget) /\ Left(w.budget)
          /\ Become(w, [w EXCEPT !.at = "requesting", !.turns = @ + 1])
          /\ UNCHANGED usage
    /\ UNCHANGED spent

(* A response: an answer, or a batch of tools if the budget still allows.  *)
Respond(w) ==
    /\ w.at = "requesting" /\ ~canceled
    /\ \E c \in Costs :
         /\ Charge(w.budget, c)
         /\ LET v == [w EXCEPT !.used = @ + c]
            IN  \/ /\ workers' = (workers \ {w}) \cup
                        {[v EXCEPT !.at = IF w.team THEN "answered" ELSE "ok", !.used = 0]}
                   /\ usage' = usage + Absorbed(v, "ok")
                \/ /\ spent'[w.budget] < TokenBudget
                   /\ workers' = (workers \ {w}) \cup {[v EXCEPT !.at = "tools"]}
                   /\ UNCHANGED usage
                \/ /\ spent'[w.budget] >= TokenBudget
                   /\ workers' = (workers \ {w}) \cup {[v EXCEPT !.at = "failed", !.used = 0]}
                   /\ usage' = usage + Absorbed(v, "failed")

ToolsDone(w) ==
    /\ w.at = "tools" /\ ~canceled
    /\ Become(w, [w EXCEPT !.at = "looping"])
    /\ UNCHANGED <<spent, usage>>

(* A request or a tool batch fails, or notices the event.                  *)
BreakOff(w) ==
    /\ w.at \in {"requesting", "tools"}
    /\ Leave(w, IF canceled THEN "canceled" ELSE "failed")
    /\ UNCHANGED spent

(* _review_step asks with the agent's budget of the moment.                *)
AskReview(w) ==
    /\ w.at = "answered"
    /\ Free(run)
    /\ IF ~Left(run) THEN Leave(w, "ok")
       ELSE IF canceled THEN Leave(w, "canceled")
       ELSE /\ Become(w, [w EXCEPT !.at = "reviewing", !.budget = run])
            /\ UNCHANGED usage
    /\ UNCHANGED spent

(* The reviewer approves, or wants corrections from a new agent.           *)
Reviewed(w) ==
    /\ w.at = "reviewing" /\ ~canceled
    /\ \E c \in Costs :
         /\ Charge(w.budget, c)
         /\ usage' = usage + c
    /\ \/ Become(w, [w EXCEPT !.at = "ok"])
       \/ /\ w.attempt < MaxRetries
          /\ Become(w, [w EXCEPT !.at = "preparing", !.attempt = @ + 1,
                                 !.turns = 0, !.budget = run])

(* An outage of the reviewer accepts the work; a cancellation does not.    *)
ReviewFails(w) ==
    /\ w.at = "reviewing"
    /\ Leave(w, IF canceled THEN "canceled" ELSE "ok")
    /\ UNCHANGED spent

(* An empty answer of a Team worker.                                       *)
Empty(w) ==
    /\ w.at = "answered"
    /\ Leave(w, "failed")
    /\ UNCHANGED spent

WorkerStep ==
    /\ \E w \in workers :
         \/ Acquire(w) \/ Prepared(w) \/ Loop(w) \/ Respond(w) \/ ToolsDone(w)
         \/ BreakOff(w) \/ AskReview(w) \/ Reviewed(w) \/ ReviewFails(w) \/ Empty(w)
    /\ UNCHANGED <<phase, run, canceled, planVars>>
-----------------------------------------------------------------------------
(*                                The run                                  *)

Run ==
    /\ phase = "idle" /\ run < MaxRuns
    /\ phase' = "planning"
    /\ team' \in BOOLEAN
    /\ run' = run + 1
    /\ canceled' = FALSE
    /\ deps' = <<>> /\ status' = <<>> /\ results' = {} /\ plan' = 0
    /\ replanning' = FALSE /\ replans' = MaxReplans /\ supplements' = 0
    /\ UNCHANGED <<workers, spent, usage>>

(* It returns or raises.                                                   *)
End ==
    /\ phase' = "idle"
    /\ deps' = <<>> /\ status' = <<>> /\ results' = {} /\ plan' = 0
    /\ replanning' = FALSE /\ replans' = 0 /\ supplements' = 0
    /\ UNCHANGED <<team, run, canceled>>

(* The plan is settled on.  One that replaces another drops its results.   *)
Adopt ==
    /\ phase' = "batching"
    /\ results' = IF replanning THEN {} ELSE results
    /\ replans' = IF replanning THEN replans - 1 ELSE replans
    /\ replanning' = FALSE
    /\ UNCHANGED <<team, run, canceled, deps, status, plan, supplements>>

(* create_plan: an answer without a usable plan becomes a plan of one task. *)
CreatePlan ==
    /\ phase = "planning"
    /\ \/ /\ ~canceled /\ Free(run) /\ Left(run)
          /\ \E c \in Costs : Charge(run, c) /\ usage' = usage + c
          /\ deps' \in Plans
          /\ status' = [t \in DOMAIN deps' |-> "pending"]
          /\ plan' = plan + 1
          /\ phase' = IF team THEN "batching" ELSE "reviewing"
          /\ UNCHANGED <<team, run, canceled, results, replanning, replans, supplements>>
       \/ /\ End
          /\ UNCHANGED <<spent, usage>>
    /\ UNCHANGED workers

(* _review_plan: the user executes, cancels or supplements the plan.       *)
ReviewPlan ==
    /\ phase = "reviewing"
    /\ \/ Adopt
       \/ End
       \/ /\ supplements < MaxSupplements
          /\ phase' = "planning"
          /\ supplements' = supplements + 1
          /\ UNCHANGED <<team, run, canceled, deps, status, results, plan, replanning, replans>>
    /\ UNCHANGED <<workers, spent, usage>>

(* The next batch: a worker for each ready task.                           *)
Batch ==
    /\ phase = "batching"
    /\ LET blocked == Blocked(deps, status)
           ready == Ready(deps, blocked)
       IN  IF Complete(status) \/ ready = {}
           THEN /\ status' = IF Complete(status) THEN status ELSE blocked
                /\ phase' = "finishing"
                /\ UNCHANGED workers
           ELSE /\ status' = [t \in DOMAIN deps |->
                                IF t \in ready THEN "running" ELSE blocked[t]]
                /\ workers' = workers \cup {Worker(run, t, team) : t \in ready}
                /\ phase' = "executing"
    /\ UNCHANGED <<run, canceled, spent, usage, team, deps, results, plan, replanning,
                   replans, supplements>>

Mine == {w \in workers : w.run = run}

(* A plan that failed before half of it was done may be replaced.          *)
FailedEarly(after) ==
    /\ replans > 0
    /\ 2 * Cardinality({t \in DOMAIN after : after[t] = "completed"}) < Len(after)

(* gather returns: every worker of the batch ended in a result or an error. *)
Gather ==
    /\ phase = "executing"
    /\ \A w \in Mine : w.at \in {"ok", "failed"}
    /\ LET after == [t \in DOMAIN status |->
                       IF \E w \in Mine : w.task = t /\ w.at = "ok" THEN "completed"
                       ELSE IF \E w \in Mine : w.task = t THEN "failed" ELSE status[t]]
           again == /\ ~team
                    /\ \E w \in Mine : w.at = "failed"
                    /\ FailedEarly(after)
       IN  /\ status' = after
           /\ results' = results \cup {<<plan, w.task>> : w \in {v \in Mine : v.at = "ok"}}
           /\ phase' = IF again THEN "planning" ELSE "batching"
           /\ replanning' = again
    /\ workers' = workers \ Mine
    /\ UNCHANGED <<run, canceled, spent, usage, team, deps, plan, replans, supplements>>

(* gather raises with the first worker that was cancelled; the others are  *)
(* not awaited any more.                                                   *)
GatherRaises ==
    /\ phase = "executing"
    /\ \E w \in Mine : w.at = "canceled"
    /\ End
    /\ workers' = {w \in workers : w.at \notin Over}
    /\ UNCHANGED <<spent, usage>>

(* The agent answers, with tools if it likes, or its run fails.            *)
Finish ==
    /\ phase = "finishing"
    /\ \/ /\ ~canceled /\ Free(run) /\ Left(run)
          /\ \E c \in Costs : Charge(run, c) /\ usage' = usage + c
       \/ UNCHANGED <<spent, usage>>
    /\ End
    /\ UNCHANGED workers

(* A worker that nobody awaits ends unnoticed.                             *)
Forgotten ==
    /\ \E w \in workers :
         /\ w.at \in Over
         /\ w.run # run \/ phase = "idle"
         /\ workers' = workers \ {w}
    /\ UNCHANGED <<phase, run, canceled, spent, usage, planVars>>

(* The user asks for cancellation.                                         *)
Cancel ==
    /\ phase # "idle" /\ ~canceled
    /\ canceled' = TRUE
    /\ UNCHANGED <<phase, run, workers, spent, usage, planVars>>

(* The task of the run is cancelled, and with it the workers it awaits.    *)
Interrupt ==
    /\ phase # "idle"
    /\ End
    /\ workers' = workers \ Mine
    /\ usage' = usage + MapThenSumSet(LAMBDA w : Absorbed(w, "canceled"), Mine)
    /\ UNCHANGED spent

(* All runs of the bound are over.                                         *)
Rest ==
    /\ phase = "idle" /\ run = MaxRuns /\ workers = {}
    /\ UNCHANGED vars

RunStep == CreatePlan \/ ReviewPlan \/ Batch \/ Gather \/ GatherRaises \/ Finish

Next ==
    \/ WorkerStep \/ RunStep \/ Forgotten
    \/ Run \/ Cancel \/ Interrupt \/ Rest

Spec == Init /\ [][Next]_vars

(* Requests, tools and the user's review end, and the event loop resumes   *)
(* whoever can go on.                                                      *)
FairSpec == Spec /\ WF_vars(WorkerStep) /\ WF_vars(RunStep)
-----------------------------------------------------------------------------
(*                               Properties                                *)

(* When the agent is asked for its answer the whole plan is settled: no    *)
(* task is forgotten, whatever the order in which the planner listed them, *)
(* and exactly those that hang on a failure were left out.                 *)
PlanSettled ==
    phase = "finishing" => Complete(status) /\ Consequent(deps, status)

(* The results put before the agent are those of the plan that was         *)
(* executed last: all of them, and none of a plan it replaced.             *)
ResultsOfThisPlan ==
    phase = "finishing" =>
      results = {<<plan, t>> : t \in {u \in DOMAIN status : status[u] = "completed"}}

(* However many workers, reviewers and leftovers draw on it, the budget of *)
(* a run is exceeded by less than one response.                            *)
BudgetExceededByOne ==
    \A r \in Runs, c \in Costs :
      (\A d \in Costs : d <= c) => spent[r] < TokenBudget + c

(* Every token of a planner, worker or reviewer reaches the agent's usage  *)
(* counters once, when its worker ends in whatever way.                    *)
UsageAccounted ==
    MapThenSumSet(LAMBDA r : spent[r], Runs)
      = usage + MapThenSumSet(LAMBDA w : w.used, workers)

(* The same of well-typed states, with the bound on what a run may spend.  *)
TokensAccounted == TypeOK /\ UsageAccounted /\ BudgetExceededByOne

(* Every run comes to its end.                                             *)
EveryPlanRunEnds == phase # "idle" ~> phase = "idle"

(* Tools run for the run that is under way: none belongs to a run that was *)
(* cancelled before.                                                       *)
OnlyTheRunActs ==
    [][\A w \in workers' \ workers :
         w.at = "tools" => phase = "executing" /\ w.run = run]_vars
=============================================================================
