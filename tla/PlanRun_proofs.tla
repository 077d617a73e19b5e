---------------------------- MODULE PlanRun_proofs ----------------------------
(***************************************************************************)
(* Theorems about PlanRun for any plans, any number of runs, workers,      *)
(* retries and replans: the plan is settled when the agent answers, its    *)
(* results are its own, a budget is exceeded by less than one response,    *)
(* and every token reaches the usage counters.                             *)
(***************************************************************************)
EXTENDS PlanRun, FiniteSetTheorems, WellFoundedInduction, TLAPS

Places == {"queued"} \cup Inside \cup Over

WorkerType ==
    [run : Nat, task : Nat, team : BOOLEAN, at : Places,
     budget : Nat, used : Nat, turns : Nat, attempt : Nat]

Typed ==
    /\ phase \in {"idle", "planning", "reviewing", "batching", "executing", "finishing"}
    /\ team \in BOOLEAN
    /\ run \in 0..MaxRuns /\ (phase # "idle" => run > 0)
    /\ spent \in [Runs -> Nat]
    /\ workers \subseteq WorkerType
    /\ \A w \in workers : w.run \in 1..run /\ w.budget \in 1..run

Asks(w) == w.at \in {"requesting", "reviewing"}

(* One request at a time for each budget, begun while tokens were left.    *)
BudgetInv ==
    /\ \A v, w \in workers : Asks(v) /\ Asks(w) /\ v.budget = w.budget => v = w
    /\ \A w \in workers : Asks(w) => Left(w.budget)
    /\ BudgetExceededByOne

(* A task is under way or over only after its dependencies, and blocked    *)
(* only by one.                                                            *)
Orderly ==
    \A t \in DOMAIN deps :
      /\ status[t] \in {"running", "completed", "failed"} =>
           \A d \in deps[t] : status[d] = "completed"
      /\ status[t] = "blocked" => \E d \in deps[t] : status[d] \in {"failed", "blocked"}

Running == {t \in DOMAIN deps : status[t] = "running"}

PlanInv ==
    /\ deps \in {<<>>} \cup Plans
    /\ status \in [DOMAIN deps -> Statuses]
    /\ phase \in {"reviewing", "batching", "executing", "finishing"} => deps \in Plans
    /\ phase = "reviewing" => \A t \in DOMAIN deps : status[t] = "pending"
    /\ replanning => ~team
    /\ phase \in {"planning", "reviewing"} /\ ~replanning => results = {}
    /\ phase \in {"batching", "executing", "finishing"} =>
         /\ Orderly
         /\ results = {<<plan, t>> : t \in {u \in DOMAIN status : status[u] = "completed"}}
    /\ phase = "batching" => Running = {}
    /\ phase = "executing" => Running = {w.task : w \in Mine}
    /\ phase \notin {"idle", "executing"} => Mine = {}
    /\ PlanSettled
-----------------------------------------------------------------------------
(*                              The plan graph                             *)

(* Exactly what can never be executed any more is blocked.                 *)
LEMMA BlockedFacts ==
    ASSUME NEW g, IsPlan(g), NEW s \in [DOMAIN g -> Statuses]
    PROVE  /\ Blocked(g, s) \in [DOMAIN g -> Statuses]
           /\ \A t \in DOMAIN g :
                /\ Blocked(g, s)[t] \in {s[t], "blocked"}
                /\ s[t] # "pending" => Blocked(g, s)[t] = s[t]
                /\ s[t] = "pending" =>
                     (Blocked(g, s)[t] = "blocked" <=>
                        \E d \in g[t] : Blocked(g, s)[d] \in {"failed", "blocked"})
<1> DEFINE W == Waiting(s)
           Closed(S) ==
             \A t \in W : (\E d \in g[t] : s[d] \in {"failed", "blocked"} \/ d \in S) => t \in S
           L == {t \in DOMAIN g : \A S \in SUBSET DOMAIN g : Closed(S) => t \in S}
           b == Blocked(g, s)
<1>1. DOMAIN s = DOMAIN g /\ W \subseteq DOMAIN g
  BY DEF Waiting
<1>2. b = [t \in DOMAIN g |-> IF t \in L THEN "blocked" ELSE s[t]]
  BY <1>1 DEF Blocked
<1>3. Closed(L)
  <2> SUFFICES ASSUME NEW t \in W, NEW d \in g[t], s[d] \in {"failed", "blocked"} \/ d \in L,
                      NEW S \in SUBSET DOMAIN g, Closed(S)
               PROVE  t \in S
    BY <1>1
  <2>. QED
    OBVIOUS
<1>4. Closed(W)
  OBVIOUS
<1>5. L \subseteq W
  BY <1>1, <1>4
<1>6. ASSUME NEW t \in L PROVE \E d \in g[t] : s[d] \in {"failed", "blocked"} \/ d \in L
  <2> SUFFICES ASSUME ~ \E d \in g[t] : s[d] \in {"failed", "blocked"} \/ d \in L
               PROVE  FALSE
    OBVIOUS
  <2>1. Closed(L \ {t})
    BY <1>3
  <2>2. L \ {t} \in SUBSET DOMAIN g
    OBVIOUS
  <2>. QED
    BY <2>1, <2>2
<1>7. \A t \in DOMAIN g : g[t] \subseteq DOMAIN g
  BY DEF IsPlan
<1>8. \A t \in DOMAIN g : t \in W <=> s[t] = "pending"
  BY <1>1 DEF Waiting
<1>9. ASSUME NEW t \in DOMAIN g, s[t] = "pending"
      PROVE  b[t] = "blocked" <=> \E d \in g[t] : b[d] \in {"failed", "blocked"}
  <2>1. b[t] = "blocked" <=> t \in L
    BY <1>2, <1>9
  <2>2. \A d \in g[t] : b[d] \in {"failed", "blocked"} <=>
                          s[d] \in {"failed", "blocked"} \/ d \in L
    BY <1>2, <1>5, <1>7, <1>8
  <2>3. t \in W
    BY <1>8, <1>9
  <2>4. t \in L => \E d \in g[t] : s[d] \in {"failed", "blocked"} \/ d \in L
    BY <1>6
  <2>5. (\E d \in g[t] : s[d] \in {"failed", "blocked"} \/ d \in L) => t \in L
    BY <1>3, <2>3
  <2>. QED
    BY <2>1, <2>2, <2>4, <2>5
<1>10. b \in [DOMAIN g -> Statuses]
  BY <1>2 DEF Statuses, Settled
<1>11. \A t \in DOMAIN g : b[t] \in {s[t], "blocked"} /\ (s[t] # "pending" => b[t] = s[t])
  BY <1>2, <1>5, <1>8
<1>. QED
  BY <1>9, <1>10, <1>11

(* A plan in which nothing is ready after blocking has nothing to wait for. *)
LEMMA NothingReadyIsComplete ==
    ASSUME NEW g, IsPlan(g), NEW s \in [DOMAIN g -> Statuses],
           \A t \in DOMAIN g : s[t] # "running", Ready(g, Blocked(g, s)) = {}
    PROVE  Complete(Blocked(g, s))
<1> DEFINE b == Blocked(g, s)
           P == {t \in DOMAIN g : b[t] = "pending"}
<1>1. b \in [DOMAIN g -> Statuses] /\ \A t \in DOMAIN g : b[t] # "running"
  BY BlockedFacts
<1>2. ASSUME P # {} PROVE FALSE
  <2>1. PICK t \in P : g[t] \cap P = {}
    BY <1>2 DEF IsPlan, Acyclic
  <2>2. s[t] = "pending"
    BY BlockedFacts
  <2>3. \A d \in g[t] : b[d] \notin {"failed", "blocked"}
    BY <2>2, BlockedFacts
  <2>4. \A d \in g[t] : d \in DOMAIN g
    BY DEF IsPlan
  <2>5. \A d \in g[t] : b[d] = "completed"
    <3> TAKE d \in g[t]
    <3>1. b[d] \in Statuses /\ b[d] # "running" /\ b[d] \notin {"failed", "blocked"} /\ b[d] # "pending"
      BY <1>1, <2>1, <2>3, <2>4
    <3>. QED
      BY <3>1 DEF Statuses, Settled
  <2>6. t \in Ready(g, b)
    BY <2>5 DEF Ready
  <2>. QED
    BY <2>6
<1>. QED
  BY <1>1, <1>2 DEF Complete, Statuses
-----------------------------------------------------------------------------
(*                               The workers                               *)

(* A worker takes a step: it stays the worker of its task, for its budget  *)
(* or that of the run.                                                     *)
Moves(w, v) ==
    /\ workers' = (workers \ {w}) \cup {v}
    /\ v \in WorkerType
    /\ v.run = w.run /\ v.task = w.task /\ v.budget \in {w.budget, run}

(* One way that may cost tokens, only while it asks; another that may make *)
(* it ask, only when nobody else does.                                     *)
Pays(w, v) ==
    /\ Asks(w) /\ ~Asks(v)
    /\ \E c \in Costs : Charge(w.budget, c)

Begins(w, v) ==
    /\ UNCHANGED spent
    /\ Asks(v) => Free(v.budget) /\ Left(v.budget)

(* Every step of a worker is one of the two.                               *)
LEMMA WorkersMove ==
    ASSUME Typed, WorkerStep
    PROVE  \E w \in workers, v \in WorkerType : Moves(w, v) /\ (Pays(w, v) \/ Begins(w, v))
<1> USE PlanRunAssumption DEF Typed
<1>1. PICK w \in workers :
        \/ Acquire(w) \/ Prepared(w) \/ Loop(w) \/ Respond(w) \/ ToolsDone(w)
        \/ BreakOff(w) \/ AskReview(w) \/ Reviewed(w) \/ ReviewFails(w) \/ Empty(w)
  BY DEF WorkerStep
<1>2. w \in WorkerType /\ run \in Nat
  OBVIOUS
<1>3. ASSUME NEW at \in Over, Leave(w, at), UNCHANGED spent
      PROVE  \E v \in WorkerType : Moves(w, v) /\ Begins(w, v)
  <2> DEFINE v == [w EXCEPT !.at = at, !.used = 0]
  <2>1. v \in WorkerType /\ Moves(w, v)
    BY <1>2, <1>3 DEF Leave, Become, Moves, WorkerType, Places
  <2>2. Begins(w, v)
    BY <1>2, <1>3 DEF Begins, Asks, Over, WorkerType
  <2>. QED
    BY <2>1, <2>2
<1>4. CASE Acquire(w)
  <2> DEFINE v == [w EXCEPT !.at = "preparing"]
  <2>1. v \in WorkerType /\ Moves(w, v)
    BY <1>2, <1>4 DEF Acquire, Become, Moves, WorkerType, Places, Inside
  <2>2. Begins(w, v)
    BY <1>2, <1>4 DEF Acquire, Begins, Asks, WorkerType
  <2>. QED
    BY <2>1, <2>2
<1>5. CASE Prepared(w)
  <2>1. CASE Leave(w, "failed")
    BY <1>3, <1>5, <2>1 DEF Over, Prepared
  <2>2. CASE ~Leave(w, "failed")
    <3> DEFINE v == [w EXCEPT !.at = "looping"]
    <3>1. v \in WorkerType /\ Moves(w, v)
      BY <1>2, <1>5, <2>2 DEF Prepared, Become, Moves, WorkerType, Places, Inside
    <3>2. Begins(w, v)
      BY <1>2, <1>5 DEF Prepared, Begins, Asks, WorkerType
    <3>. QED
      BY <3>1, <3>2
  <2>. QED
    BY <2>1, <2>2
<1>6. CASE Loop(w)
  <2>1. CASE Leave(w, "failed") \/ Leave(w, "canceled")
    BY <1>3, <1>6, <2>1 DEF Over, Loop
  <2>2. CASE ~(Leave(w, "failed") \/ Leave(w, "canceled"))
    <3> DEFINE v == [w EXCEPT !.at = "requesting", !.turns = @ + 1]
    <3>1. Become(w, v) /\ UNCHANGED spent /\ Free(w.budget) /\ Left(w.budget)
      BY <1>6, <2>2 DEF Loop
    <3>4. w.turns + 1 \in Nat
      BY <1>2 DEF WorkerType
    <3>5. v \in WorkerType
      BY <1>2, <3>4 DEF WorkerType, Places, Inside
    <3>2. v \in WorkerType /\ Moves(w, v)
      BY <1>2, <3>1, <3>5 DEF Become, Moves, WorkerType
    <3>3. v.budget = w.budget
      BY <1>2 DEF WorkerType
    <3>. QED
      BY <3>1, <3>2, <3>3 DEF Begins
  <2>. QED
    BY <2>1, <2>2
<1>7. CASE Respond(w)
  <2>1. PICK c \in Costs :
          /\ Charge(w.budget, c)
          /\ \E at \in {"answered", "ok", "tools", "failed"}, u \in Nat :
               workers' = (workers \ {w}) \cup {[w EXCEPT !.at = at, !.used = u]}
    <3>1. PICK c \in Costs :
            /\ Charge(w.budget, c)
            /\ LET v == [w EXCEPT !.used = @ + c]
               IN  \/ workers' = (workers \ {w}) \cup
                        {[v EXCEPT !.at = IF w.team THEN "answered" ELSE "ok", !.used = 0]}
                  \/ workers' = (workers \ {w}) \cup {[v EXCEPT !.at = "tools"]}
                  \/ workers' = (workers \ {w}) \cup {[v EXCEPT !.at = "failed", !.used = 0]}
      BY <1>7 DEF Respond
    <3> DEFINE v == [w EXCEPT !.used = @ + c]
    <3>2. v.used \in Nat
      BY <1>2 DEF WorkerType
    <3>3. \A at : [v EXCEPT !.at = at, !.used = 0] = [w EXCEPT !.at = at, !.used = 0]
      BY <1>2 DEF WorkerType
    <3>4. [v EXCEPT !.at = "tools"] = [w EXCEPT !.at = "tools", !.used = v.used]
      BY <1>2 DEF WorkerType
    <3>. QED
      BY <3>1, <3>2, <3>3, <3>4
  <2>2. PICK at \in {"answered", "ok", "tools", "failed"}, u \in Nat :
          workers' = (workers \ {w}) \cup {[w EXCEPT !.at = at, !.used = u]}
    BY <2>1
  <2> DEFINE v == [w EXCEPT !.at = at, !.used = u]
  <2>3. v \in WorkerType /\ Moves(w, v) /\ ~Asks(v)
    BY <1>2, <2>2 DEF Moves, Asks, WorkerType, Places, Inside, Over
  <2>4. Pays(w, v)
    BY <1>7, <2>1, <2>3 DEF Pays, Asks, Respond
  <2>. QED
    BY <2>3, <2>4
<1>8. CASE ToolsDone(w)
  <2> DEFINE v == [w EXCEPT !.at = "looping"]
  <2>1. v \in WorkerType /\ Moves(w, v)
    BY <1>2, <1>8 DEF ToolsDone, Become, Moves, WorkerType, Places, Inside
  <2>2. Begins(w, v)
    BY <1>2, <1>8 DEF ToolsDone, Begins, Asks, WorkerType
  <2>. QED
    BY <2>1, <2>2
<1>9. CASE BreakOff(w)
  BY <1>3, <1>9 DEF BreakOff, Over
<1>10. CASE AskReview(w)
  <2>1. CASE Leave(w, "ok") \/ Leave(w, "canceled")
    BY <1>3, <1>10, <2>1 DEF Over, AskReview
  <2>2. CASE ~(Leave(w, "ok") \/ Leave(w, "canceled"))
    <3> DEFINE v == [w EXCEPT !.at = "reviewing", !.budget = run]
    <3>1. Become(w, v) /\ UNCHANGED spent /\ Free(run) /\ Left(run)
      BY <1>10, <2>2 DEF AskReview
    <3>2. v \in WorkerType /\ Moves(w, v) /\ v.budget = run
      BY <1>2, <3>1 DEF Become, Moves, WorkerType, Places, Inside
    <3>. QED
      BY <3>1, <3>2 DEF Begins
  <2>. QED
    BY <2>1, <2>2
<1>11. CASE Reviewed(w)
  <2>1. PICK c \in Costs : Charge(w.budget, c)
    BY <1>11 DEF Reviewed
  <2> DEFINE accepted == [w EXCEPT !.at = "ok"]
             corrected == [w EXCEPT !.at = "preparing", !.attempt = @ + 1,
                                    !.turns = 0, !.budget = run]
  <2>2. Become(w, accepted) \/ Become(w, corrected)
    BY <1>11 DEF Reviewed
  <2>3. Become(w, accepted) => accepted \in WorkerType /\ Moves(w, accepted)
    BY <1>2 DEF Become, Moves, WorkerType, Places, Over
  <2>4. Become(w, corrected) => corrected \in WorkerType /\ Moves(w, corrected)
    <3>1. w.attempt + 1 \in Nat /\ 0 \in Nat
      BY <1>2 DEF WorkerType
    <3>2. corrected \in WorkerType
      BY <1>2, <3>1 DEF WorkerType, Places, Inside
    <3>. QED
      BY <1>2, <3>2 DEF Become, Moves, WorkerType
  <2>5. ~Asks(accepted) /\ ~Asks(corrected) /\ Asks(w)
    BY <1>2, <1>11 DEF Asks, WorkerType, Reviewed
  <2>. QED
    BY <2>1, <2>2, <2>3, <2>4, <2>5 DEF Pays
<1>12. CASE ReviewFails(w)
  BY <1>3, <1>12 DEF ReviewFails, Over
<1>13. CASE Empty(w)
  BY <1>3, <1>13 DEF Empty, Over
<1>. QED
  BY <1>1, <1>4, <1>5, <1>6, <1>7, <1>8, <1>9, <1>10, <1>11, <1>12, <1>13
-----------------------------------------------------------------------------
(*                                 Types                                   *)

(* The first state.                                                        *)
LEMMA TypedInit == Init => Typed
<1> SUFFICES ASSUME Init PROVE Typed
  OBVIOUS
<1>1. run \in 0..MaxRuns
  BY PlanRunAssumption DEF Init
<1>2. spent \in [Runs -> Nat]
  BY DEF Init
<1>3. workers = {} /\ phase = "idle" /\ team = FALSE
  BY DEF Init
<1>. QED
  BY <1>1, <1>2, <1>3 DEF Typed

(* Every step.                                                             *)
LEMMA TypedStep == Typed /\ PlanInv /\ [Next]_vars => Typed'
<1> SUFFICES ASSUME Typed, PlanInv, [Next]_vars PROVE Typed'
  OBVIOUS
<1> USE PlanRunAssumption DEF Typed, Runs
<1>1. ASSUME NEW b \in 1..run, NEW c \in Costs, Charge(b, c)
      PROVE  spent' \in [Runs -> Nat]
  <2>1. b \in Runs /\ spent[b] + c \in Nat
    BY <1>1
  <2>. QED
    BY <1>1, <2>1 DEF Charge
<1>2. CASE WorkerStep
  <2>1. PICK w \in workers, v \in WorkerType : Moves(w, v) /\ (Pays(w, v) \/ Begins(w, v))
    BY <1>2, WorkersMove
  <2>2. spent' \in [Runs -> Nat]
    BY <1>1, <2>1 DEF Pays, Begins
  <2>3. workers' \subseteq WorkerType /\ \A u \in workers' : u.run \in 1..run /\ u.budget \in 1..run
    BY <2>1 DEF Moves
  <2>. QED
    BY <1>2, <2>2, <2>3 DEF WorkerStep, planVars
<1>3. CASE CreatePlan
  <2>1. run \in 1..run
    BY <1>3 DEF CreatePlan
  <2>2. spent' \in [Runs -> Nat]
    BY <1>1, <1>3, <2>1 DEF CreatePlan
  <2>. QED
    BY <1>3, <2>2 DEF CreatePlan, End
<1>4. CASE ReviewPlan
  BY <1>4 DEF ReviewPlan, Adopt, End
<1>5. CASE Batch
  <2>1. deps \in Plans /\ DOMAIN deps \subseteq Nat
    BY <1>5 DEF Batch, PlanInv, IsPlan
  <2>2. \A t \in DOMAIN deps : /\ Worker(run, t, team) \in WorkerType
                              /\ Worker(run, t, team).run = run
                              /\ Worker(run, t, team).budget = run
    BY <2>1 DEF Worker, WorkerType, Places
  <2>3. workers' \subseteq workers \cup {Worker(run, t, team) : t \in DOMAIN deps}
    BY <1>5 DEF Batch, Ready
  <2>4. phase # "idle" /\ phase' \in {"finishing", "executing"} /\ UNCHANGED <<run, spent, team>>
    BY <1>5 DEF Batch
  <2>5. workers' \subseteq WorkerType /\ \A u \in workers' : u.run \in 1..run /\ u.budget \in 1..run
    BY <2>2, <2>3, <2>4
  <2>. QED
    BY <2>4, <2>5
<1>6. CASE Gather
  BY <1>6 DEF Gather
<1>7. CASE GatherRaises
  BY <1>7 DEF GatherRaises, End
<1>8. CASE Finish
  <2>1. run \in 1..run
    BY <1>8 DEF Finish
  <2>2. spent' \in [Runs -> Nat]
    BY <1>1, <1>8, <2>1 DEF Finish
  <2>. QED
    BY <1>8, <2>2 DEF Finish, End
<1>9. CASE Forgotten
  BY <1>9 DEF Forgotten, planVars
<1>10. CASE Run
  BY <1>10 DEF Run
<1>11. CASE Cancel
  BY <1>11 DEF Cancel, planVars
<1>12. CASE Interrupt
  BY <1>12 DEF Interrupt, End
<1>13. CASE UNCHANGED vars
  BY <1>13 DEF vars, planVars
<1>. QED
  BY <1>2, <1>3, <1>4, <1>5, <1>6, <1>7, <1>8, <1>9, <1>10, <1>11, <1>12, <1>13
     DEF Next, RunStep, Rest
-----------------------------------------------------------------------------
(*                               The budget                                *)

(* A response is paid for while tokens are left, and it is the only one.   *)
LEMMA ChargeFacts ==
    ASSUME Typed, BudgetInv, NEW b \in Runs, NEW c \in Costs, Left(b), Charge(b, c)
    PROVE  BudgetExceededByOne' /\ \A r \in Runs : r # b => (Left(r) <=> Left(r)')
<1> USE PlanRunAssumption DEF Typed, Left, Charge
<1>1. spent'[b] = spent[b] + c /\ \A r \in Runs : r # b => spent'[r] = spent[r]
  OBVIOUS
<1>2. ASSUME NEW r \in Runs, NEW k \in Costs, \A d \in Costs : d <= k
      PROVE  spent'[r] < TokenBudget + k
  <2>1. CASE r = b
    <3>1. c <= k /\ c \in Nat /\ k \in Nat /\ spent[b] \in Nat
      BY <1>2
    <3>. QED
      BY <1>1, <2>1, <3>1
  <2>2. CASE r # b
    BY <1>1, <1>2, <2>2 DEF BudgetInv, BudgetExceededByOne
  <2>. QED
    BY <2>1, <2>2
<1>. QED
  BY <1>1, <1>2 DEF BudgetExceededByOne

(* At first nothing is spent.                                              *)
LEMMA BudgetInit == Init => BudgetInv
BY PlanRunAssumption DEF Init, BudgetInv, BudgetExceededByOne

(* Every step leaves each budget with one request at a time.               *)
LEMMA BudgetStep == Typed /\ BudgetInv /\ [Next]_vars => BudgetInv'
<1> SUFFICES ASSUME Typed, BudgetInv, [Next]_vars PROVE BudgetInv'
  OBVIOUS
(* Steps of the run: no worker begins to ask, and the run's own request     *)
(* has the budget for itself.                                               *)
<1>1. ASSUME \A w \in workers' : Asks(w) => w \in workers, UNCHANGED spent
      PROVE  BudgetInv'
  BY <1>1 DEF BudgetInv, BudgetExceededByOne, Asks, Left
<1>2. ASSUME NEW c \in Costs, Charge(run, c), Free(run), Left(run), run \in Runs, UNCHANGED workers
      PROVE  BudgetInv'
  <2>1. BudgetExceededByOne' /\ \A r \in Runs : r # run => (Left(r) <=> Left(r)')
    BY <1>2, ChargeFacts
  <2>2. \A w \in workers : Asks(w) => w.budget \in Runs /\ w.budget # run
    BY <1>2, PlanRunAssumption DEF Free, Asks, Typed, Runs
  <2>3. ASSUME NEW w \in workers, Asks(w) PROVE Left(w.budget)'
    <3>1. Left(w.budget)
      BY <2>3 DEF BudgetInv
    <3>. QED
      BY <2>1, <2>2, <2>3, <3>1 DEF Left
  <2>. QED
    BY <1>2, <2>1, <2>3 DEF BudgetInv, Asks
<1>3. CASE WorkerStep
  <2>1. PICK w \in workers, v \in WorkerType : Moves(w, v) /\ (Pays(w, v) \/ Begins(w, v))
    BY <1>3, WorkersMove
  <2>2. CASE Pays(w, v)
    <3>1. Left(w.budget) /\ w.budget \in Runs
      BY <2>2, PlanRunAssumption DEF BudgetInv, Pays, Typed, Runs
    <3>2. BudgetExceededByOne' /\ \A r \in Runs : r # w.budget => (Left(r) <=> Left(r)')
      BY <2>2, <3>1, ChargeFacts DEF Pays
    <3>3. ASSUME NEW u \in workers', Asks(u) PROVE u \in workers /\ Left(u.budget)'
      <4>1. u \in workers /\ u # w
        BY <2>1, <2>2, <3>3 DEF Moves, Pays
      <4>2. u.budget # w.budget /\ u.budget \in Runs /\ Left(u.budget)
        BY <2>2, <3>3, <4>1, PlanRunAssumption DEF BudgetInv, Pays, Typed, Runs
      <4>. QED
        BY <3>2, <4>1, <4>2 DEF Left
    <3>. QED
      BY <3>2, <3>3 DEF BudgetInv
  <2>3. CASE Begins(w, v)
    <3>1. \A u \in workers' : u = v \/ u \in workers
      BY <2>1 DEF Moves
    <3>2. ASSUME NEW u \in workers', NEW x \in workers', Asks(u), Asks(x), u.budget = x.budget
          PROVE  u = x
      BY <2>3, <3>1, <3>2 DEF Begins, Free, BudgetInv, Asks
    <3>3. ASSUME NEW u \in workers', Asks(u) PROVE Left(u.budget)'
      BY <2>3, <3>1, <3>3 DEF Begins, BudgetInv, Left
    <3>4. BudgetExceededByOne'
      BY <2>3 DEF Begins, BudgetInv, BudgetExceededByOne
    <3>. QED
      BY <3>2, <3>3, <3>4 DEF BudgetInv
  <2>. QED
    BY <2>1, <2>2, <2>3
<1>4. CASE CreatePlan
  <2>1. run \in Runs
    BY <1>4, PlanRunAssumption DEF CreatePlan, Typed, Runs
  <2>2. CASE UNCHANGED spent
    BY <1>1, <1>4, <2>2 DEF CreatePlan
  <2>3. CASE ~UNCHANGED spent
    BY <1>2, <1>4, <2>1, <2>3 DEF CreatePlan
  <2>. QED
    BY <2>2, <2>3
<1>5. CASE Batch
  <2>1. \A t \in DOMAIN deps : ~Asks(Worker(run, t, team))
    BY DEF Worker, Asks
  <2>. QED
    BY <1>1, <1>5, <2>1 DEF Batch, Ready
<1>6. CASE Finish
  <2>1. run \in Runs
    BY <1>6, PlanRunAssumption DEF Finish, Typed, Runs
  <2>2. CASE UNCHANGED spent
    BY <1>1, <1>6, <2>2 DEF Finish
  <2>3. CASE ~UNCHANGED spent
    BY <1>2, <1>6, <2>1, <2>3 DEF Finish
  <2>. QED
    BY <2>2, <2>3
<1>7. CASE ReviewPlan \/ Gather \/ GatherRaises \/ Forgotten \/ Run \/ Cancel \/ Interrupt \/ UNCHANGED vars
  BY <1>1, <1>7 DEF ReviewPlan, Gather, GatherRaises, Forgotten, Run, Cancel, Interrupt, vars
<1>. QED
  BY <1>3, <1>4, <1>5, <1>6, <1>7 DEF Next, RunStep, Rest
-----------------------------------------------------------------------------
(*                                The plan                                 *)

(* At first there is no plan.                                              *)
LEMMA PlanInit == Init => PlanInv
BY DEF Init, PlanInv, PlanSettled, Mine

(* Workers that move on or go away leave the plan as it is, as long as     *)
(* those of the run stay while it waits for them.                          *)
LEMMA PlanKept ==
    ASSUME Typed, PlanInv, UNCHANGED <<phase, run, planVars>>,
           {w.task : w \in Mine'} = {w.task : w \in Mine} \/ phase = "idle"
    PROVE  PlanInv'
<1>1. /\ UNCHANGED <<deps, status, results, plan, replanning, team>>
      /\ Orderly => Orderly'
      /\ Running' = Running
      /\ PlanSettled => PlanSettled'
  BY DEF planVars, Orderly, Running, PlanSettled, Consequent, Complete
<1>2. phase # "idle" /\ Mine = {} => Mine' = {}
  OBVIOUS
<1>. QED
  BY <1>1, <1>2 DEF PlanInv

(* A run that is over has no plan.                                         *)
LEMMA NoPlan ==
    ASSUME phase' \in {"idle", "planning"}, deps' = <<>>, status' = <<>>, results' = {},
           replanning' = FALSE, phase' = "planning" => Mine' = {}
    PROVE  PlanInv'
BY DEF PlanInv, PlanSettled, Running

(* Every step of the run and of its workers keeps the plan consistent.     *)
LEMMA PlanStep == Typed /\ PlanInv /\ [Next]_vars => PlanInv'
<1> SUFFICES ASSUME Typed, PlanInv, [Next]_vars PROVE PlanInv'
  OBVIOUS
<1>1. CASE WorkerStep
  <2>1. PICK w \in workers, v \in WorkerType : Moves(w, v)
    BY <1>1, WorkersMove
  <2>2. UNCHANGED <<phase, run, planVars>>
    BY <1>1 DEF WorkerStep
  <2>3. {u.task : u \in Mine'} = {u.task : u \in Mine}
    BY <2>1, <2>2 DEF Moves, Mine
  <2>. QED
    BY <2>2, <2>3, PlanKept
<1>2. CASE CreatePlan
  <2>1. CASE End
    BY <1>2, <2>1, NoPlan DEF End
  <2>2. CASE ~End
    <3>1. /\ deps' \in Plans /\ status' = [t \in DOMAIN deps' |-> "pending"]
          /\ phase' \in {"batching", "reviewing"} /\ (phase' = "batching" <=> team)
          /\ UNCHANGED <<run, team, results, replanning, workers>>
          /\ phase = "planning"
      BY <1>2, <2>2 DEF CreatePlan
    <3>2. status' \in [DOMAIN deps' -> Statuses] /\ Orderly' /\ Running' = {}
      BY <3>1 DEF Statuses, Orderly, Running
    <3>3. Mine' = {} /\ PlanSettled'
      BY <3>1 DEF PlanInv, Mine, PlanSettled
    <3>4. phase' = "reviewing" /\ ~replanning' => results' = {}
      BY <3>1 DEF PlanInv
    <3>5. phase' = "batching" => results' = {}
      BY <3>1 DEF PlanInv
    <3>6. {<<plan, t>> : t \in {u \in DOMAIN status : status[u] = "completed"}}' = {}
      BY <3>1
    <3>. QED
      BY <3>1, <3>2, <3>3, <3>4, <3>5, <3>6 DEF PlanInv
  <2>. QED
    BY <2>1, <2>2
<1>3. CASE ReviewPlan
  <2>1. CASE End
    BY <1>3, <2>1, NoPlan DEF End
  <2>2. CASE Adopt
    <3>1. /\ phase = "reviewing" /\ phase' = "batching" /\ results' = {}
          /\ replanning' = FALSE /\ UNCHANGED <<deps, status, run, workers>>
      BY <1>3, <2>2 DEF ReviewPlan, Adopt, PlanInv
    <3>2. \A t \in DOMAIN deps : status[t] = "pending"
      BY <3>1 DEF PlanInv
    <3>3. Orderly' /\ Running' = {} /\ Mine' = {} /\ PlanSettled'
      BY <3>1, <3>2 DEF Orderly, Running, PlanInv, Mine, PlanSettled
    <3>4. {<<plan, t>> : t \in {u \in DOMAIN status : status[u] = "completed"}}' = {}
      BY <3>1, <3>2 DEF PlanInv
    <3>. QED
      BY <3>1, <3>3, <3>4 DEF PlanInv
  <2>3. CASE ~End /\ ~Adopt
    <3>1. /\ phase = "reviewing" /\ phase' = "planning"
          /\ UNCHANGED <<deps, status, results, replanning, team, run, workers>>
      BY <1>3, <2>3 DEF ReviewPlan
    <3>. QED
      BY <3>1 DEF PlanInv, Mine, PlanSettled
  <2>. QED
    BY <2>1, <2>2, <2>3
<1>4. CASE Batch
  <2> DEFINE blocked == Blocked(deps, status)
             ready == Ready(deps, blocked)
  <2>1. /\ phase = "batching" /\ deps \in Plans /\ Mine = {} /\ Orderly /\ Running = {}
        /\ status \in [DOMAIN deps -> Statuses]
    BY <1>4 DEF Batch, PlanInv
  <2>2. IsPlan(deps) /\ \A t \in DOMAIN deps : deps[t] \subseteq DOMAIN deps
    BY <2>1, PlanRunAssumption DEF IsPlan
  <2>3. /\ blocked \in [DOMAIN deps -> Statuses]
        /\ \A t \in DOMAIN deps :
             /\ blocked[t] \in {status[t], "blocked"}
             /\ status[t] # "pending" => blocked[t] = status[t]
             /\ status[t] = "pending" =>
                  (blocked[t] = "blocked" <=> \E d \in deps[t] : blocked[d] \in {"failed", "blocked"})
    BY <2>1, <2>2, BlockedFacts
  <2>4. \A t \in DOMAIN deps : status[t] # "running" /\ blocked[t] # "running"
    BY <2>1, <2>3 DEF Running
  <2>5. \A t \in DOMAIN deps : blocked[t] = "completed" <=> status[t] = "completed"
    BY <2>3
  <2>6. \A t \in DOMAIN deps : status[t] \in {"failed", "blocked"} => blocked[t] = status[t]
    BY <2>3
  <2>7. ASSUME NEW t \in DOMAIN deps
        PROVE  /\ blocked[t] \in {"completed", "failed"} => \A d \in deps[t] : blocked[d] = "completed"
               /\ blocked[t] = "blocked" => \E d \in deps[t] : blocked[d] \in {"failed", "blocked"}
    <3>1. CASE status[t] = "pending"
      BY <2>3, <3>1
    <3>2. CASE status[t] # "pending"
      <4>1. blocked[t] = status[t]
        BY <2>3, <3>2
      <4>2. blocked[t] \in {"completed", "failed"} => \A d \in deps[t] : status[d] = "completed"
        BY <2>1, <4>1 DEF Orderly
      <4>3. blocked[t] = "blocked" => \E d \in deps[t] : status[d] \in {"failed", "blocked"}
        BY <2>1, <4>1 DEF Orderly
      <4>. QED
        BY <2>2, <2>5, <2>6, <4>2, <4>3
    <3>. QED
      BY <3>1, <3>2
  <2>8. /\ UNCHANGED <<deps, results, plan, replanning, team, run>>
        /\ results = {<<plan, t>> : t \in {u \in DOMAIN status : status[u] = "completed"}}
    BY <1>4, <2>1 DEF Batch, PlanInv
  <2>9. CASE Complete(status)
    <3>1. phase' = "finishing" /\ UNCHANGED <<status, workers>>
      BY <1>4, <2>9 DEF Batch
    <3>2. Consequent(deps, status)
      BY <2>1, <2>9 DEF Consequent, Orderly, Complete, Settled
    <3>3. PlanSettled'
      BY <2>8, <2>9, <3>1, <3>2 DEF PlanSettled
    <3>4. Orderly' /\ Mine' = {}
      BY <2>1, <2>8, <3>1 DEF Orderly, Mine
    <3>. QED
      BY <2>1, <2>8, <3>1, <3>3, <3>4 DEF PlanInv
  <2>10. CASE ~Complete(status) /\ ready = {}
    <3>1. phase' = "finishing" /\ status' = blocked /\ UNCHANGED workers
      BY <1>4, <2>10 DEF Batch
    <3>2. Complete(blocked)
      BY <2>1, <2>2, <2>4, <2>10, NothingReadyIsComplete
    <3>3. Consequent(deps, blocked)
      BY <2>3, <2>7, <3>2 DEF Consequent, Complete, Settled
    <3>4. PlanSettled'
      BY <2>8, <3>1, <3>2, <3>3 DEF PlanSettled
    <3>5. Orderly' /\ Mine' = {}
      BY <2>1, <2>4, <2>7, <2>8, <3>1 DEF Orderly, Mine
    <3>6. results' = {<<plan, t>> : t \in {u \in DOMAIN status : status[u] = "completed"}}'
      BY <2>1, <2>3, <2>5, <2>8, <3>1
    <3>. QED
      BY <2>1, <2>3, <2>8, <3>1, <3>4, <3>5, <3>6 DEF PlanInv
  <2>11. CASE ~Complete(status) /\ ready # {}
    <3>1. /\ phase' = "executing"
          /\ status' = [t \in DOMAIN deps |-> IF t \in ready THEN "running" ELSE blocked[t]]
          /\ workers' = workers \cup {Worker(run, t, team) : t \in ready}
      BY <1>4, <2>11 DEF Batch
    <3>2. ready \subseteq DOMAIN deps
          /\ \A t \in ready : blocked[t] = "pending" /\ \A d \in deps[t] : blocked[d] = "completed"
      BY DEF Ready
    <3>3. status' \in [DOMAIN deps' -> Statuses]
      BY <2>3, <2>8, <3>1 DEF Statuses
    <3>4. \A t \in DOMAIN deps : blocked[t] \in {"completed", "failed", "blocked"} => status'[t] = blocked[t]
      BY <3>1, <3>2
    <3>5. Orderly'
      <4> SUFFICES ASSUME NEW t \in DOMAIN deps
                   PROVE  /\ status'[t] \in {"running", "completed", "failed"} =>
                               \A d \in deps[t] : status'[d] = "completed"
                          /\ status'[t] = "blocked" => \E d \in deps[t] : status'[d] \in {"failed", "blocked"}
        BY <2>8 DEF Orderly
      <4>1. \A d \in deps[t] : d \in DOMAIN deps
        BY <2>2
      <4>2. CASE t \in ready
        BY <3>1, <3>2, <3>4, <4>1, <4>2
      <4>3. CASE t \notin ready
        <5>1. status'[t] = blocked[t] /\ blocked[t] # "running"
          BY <2>4, <3>1, <4>3
        <5>. QED
          BY <2>7, <3>4, <4>1, <5>1
      <4>. QED
        BY <4>2, <4>3
    <3>6. Running' = ready
      BY <2>4, <2>8, <3>1, <3>2 DEF Running
    <3>7. {w.task : w \in Mine'} = ready
      <4>1. Mine' = {Worker(run, t, team) : t \in ready}
        BY <2>1, <2>8, <3>1 DEF Mine, Worker
      <4>2. \A t \in ready : Worker(run, t, team).task = t
        BY DEF Worker
      <4>. QED
        BY <4>1, <4>2
    <3>8. {u \in DOMAIN status : status[u] = "completed"}' = {u \in DOMAIN status : status[u] = "completed"}
      BY <2>1, <2>5, <3>1, <3>2
    <3>9. results' = {<<plan, t>> : t \in {u \in DOMAIN status : status[u] = "completed"}}'
      BY <2>8, <3>8
    <3>. QED
      BY <2>1, <2>8, <3>1, <3>3, <3>5, <3>6, <3>7, <3>9 DEF PlanInv, PlanSettled
  <2>. QED
    BY <2>9, <2>10, <2>11
<1>5. CASE Gather
  <2> DEFINE good == {w.task : w \in {v \in Mine : v.at = "ok"}}
             mine == {w.task : w \in Mine}
  <2>1. /\ phase = "executing" /\ deps \in Plans /\ Orderly /\ Running = mine
        /\ status \in [DOMAIN deps -> Statuses]
        /\ results = {<<plan, t>> : t \in {u \in DOMAIN status : status[u] = "completed"}}
    BY <1>5 DEF Gather, PlanInv
  <2>2. /\ UNCHANGED <<deps, plan, team, run>> /\ workers' = workers \ Mine
        /\ (replanning' => ~team)
        /\ phase' \in {"planning", "batching"} /\ (replanning' <=> phase' = "planning")
        /\ results' = results \cup {<<plan, w.task>> : w \in {v \in Mine : v.at = "ok"}}
    BY <1>5 DEF Gather
  <2>3. status' = [t \in DOMAIN status |->
                     IF t \in good THEN "completed" ELSE IF t \in mine THEN "failed" ELSE status[t]]
    BY <1>5 DEF Gather
  <2>4. good \subseteq mine /\ mine \subseteq DOMAIN deps /\ \A t \in DOMAIN deps : t \in mine <=> status[t] = "running"
    BY <2>1 DEF Running
  <2>5. IsPlan(deps) /\ \A t \in DOMAIN deps : deps[t] \subseteq DOMAIN deps
    BY <2>1, PlanRunAssumption DEF IsPlan
  <2>6. status' \in [DOMAIN deps' -> Statuses]
    BY <2>1, <2>2, <2>3 DEF Statuses, Settled
  <2>7. \A t \in DOMAIN deps : status[t] \in {"completed", "failed", "blocked"} => status'[t] = status[t]
    BY <2>1, <2>3, <2>4
  <2>8. Orderly'
    <3> SUFFICES ASSUME NEW t \in DOMAIN deps
                 PROVE  /\ status'[t] \in {"running", "completed", "failed"} =>
                             \A d \in deps[t] : status'[d] = "completed"
                        /\ status'[t] = "blocked" => \E d \in deps[t] : status'[d] \in {"failed", "blocked"}
      BY <2>2 DEF Orderly
    <3>1. \A d \in deps[t] : d \in DOMAIN deps
      BY <2>5
    <3>2. CASE t \in mine
      <4>1. status[t] = "running" /\ status'[t] \in {"completed", "failed"}
        BY <2>1, <2>3, <2>4, <3>2
      <4>. QED
        BY <2>1, <2>7, <3>1, <4>1 DEF Orderly
    <3>3. CASE t \notin mine
      <4>1. status'[t] = status[t]
        BY <2>1, <2>3, <2>4, <3>3
      <4>. QED
        BY <2>1, <2>7, <3>1, <4>1 DEF Orderly
    <3>. QED
      BY <3>2, <3>3
  <2>9. Running' = {}
    BY <2>1, <2>2, <2>3, <2>4 DEF Running
  <2>10. Mine' = {}
    BY <2>2 DEF Mine
  <2>11. {u \in DOMAIN status : status[u] = "completed"}'
           = {u \in DOMAIN status : status[u] = "completed"} \cup good
    BY <2>1, <2>3, <2>4
  <2>12. {<<plan, w.task>> : w \in {v \in Mine : v.at = "ok"}} = {<<plan, t>> : t \in good}
    OBVIOUS
  <2>13. results' = {<<plan, t>> : t \in {u \in DOMAIN status : status[u] = "completed"}}'
    BY <2>1, <2>2, <2>11, <2>12
  <2>. QED
    BY <2>1, <2>2, <2>6, <2>8, <2>9, <2>10, <2>13 DEF PlanInv, PlanSettled
<1>6. CASE GatherRaises \/ Finish \/ Interrupt
  BY <1>6, NoPlan DEF GatherRaises, Finish, Interrupt, End
<1>7. CASE Run
  <2>1. Mine' = {}
    BY <1>7 DEF Run, Mine, Typed
  <2>. QED
    BY <1>7, <2>1, NoPlan DEF Run
<1>8. CASE Forgotten
  <2>1. UNCHANGED <<phase, run, planVars>>
    BY <1>8 DEF Forgotten
  <2>2. Mine' = Mine \/ phase = "idle"
    BY <1>8 DEF Forgotten, Mine
  <2>. QED
    BY <2>1, <2>2, PlanKept
<1>9. CASE Cancel \/ UNCHANGED vars
  BY <1>9, PlanKept DEF Cancel, vars, Mine
<1>. QED
  BY <1>1, <1>2, <1>3, <1>4, <1>5, <1>6, <1>7, <1>8, <1>9 DEF Next, RunStep, Rest
-----------------------------------------------------------------------------
(*                                  Sums                                   *)

(* Of any subsets of a finite set one has no other within it.              *)
LEMMA MinimalSet ==
    ASSUME NEW U, IsFiniteSet(U), NEW D \in SUBSET (SUBSET U), D # {}
    PROVE  \E s \in D : \A x \in s : s \ {x} \notin D
<1> DEFINE sizes == {Cardinality(s) : s \in D}
<1>1. \A s \in D : IsFiniteSet(s) /\ Cardinality(s) \in Nat
  BY FS_Subset, FS_CardinalityType
<1>2. sizes \subseteq Nat /\ sizes # {}
  BY <1>1
<1>3. PICK n \in sizes : \A m \in sizes : ~(<<m, n>> \in OpToRel(<, Nat))
  <2> HIDE DEF sizes
  <2>. QED
    BY <1>2, NatLessThanWellFounded, WFMin
<1>4. PICK s \in D : n = Cardinality(s)
  BY <1>3
<1>5. ASSUME NEW x \in s PROVE s \ {x} \notin D
  <2>1. Cardinality(s \ {x}) = Cardinality(s) - 1 /\ Cardinality(s) \in Nat
    BY <1>1, FS_RemoveElement
  <2>2. ASSUME s \ {x} \in D PROVE FALSE
    <3>1. Cardinality(s \ {x}) \in sizes /\ Cardinality(s \ {x}) \in Nat
      BY <1>2, <2>2
    <3>2. ~(Cardinality(s \ {x}) < n)
      BY <1>2, <1>3, <3>1 DEF OpToRel
    <3>. QED
      BY <1>4, <2>1, <3>1, <3>2
  <2>. QED
    BY <2>2
<1>. QED
  BY <1>5

(* Induction over the subsets of a finite set, for a set of them.          *)
LEMMA FiniteInduction ==
    ASSUME NEW U, IsFiniteSet(U), NEW C \in SUBSET (SUBSET U), {} \in C,
           \A s \in C : \A x \in U \ s : s \cup {x} \in C
    PROVE  C = SUBSET U
<1> DEFINE D == (SUBSET U) \ C
<1>1. ASSUME D # {} PROVE FALSE
  <2>1. PICK s \in D : \A x \in s : s \ {x} \notin D
    BY <1>1, MinimalSet
  <2>2. PICK x \in s : TRUE
    BY <2>1
  <2>3. s \ {x} \in C /\ x \in U \ (s \ {x})
    BY <2>1
  <2>4. (s \ {x}) \cup {x} = s
    OBVIOUS
  <2>. QED
    BY <2>3, <2>4
<1>. QED
  BY <1>1

(* T sums f over each subset of U, in whichever order.                     *)
Adds(f, U, T) ==
    /\ T \in [SUBSET U -> Nat]
    /\ T[{}] = 0
    /\ \A s \in SUBSET U : \A x \in s : T[s] = f[x] + T[s \ {x}]

Total(f, S) == CHOOSE n : \E T : Adds(f, S, T) /\ n = T[S]

(* A finite set has its sums.                                              *)
LEMMA AddsExists ==
    ASSUME NEW U, IsFiniteSet(U), NEW f, \A x \in U : f[x] \in Nat
    PROVE  \E T : Adds(f, U, T)
<1> DEFINE C == {s \in SUBSET U : \E T : Adds(f, s, T)}
<1>1. {} \in C
  <2> DEFINE T == [s \in SUBSET {} |-> 0]
  <2>1. Adds(f, {}, T)
    BY DEF Adds
  <2>. QED
    BY <2>1
<1>2. ASSUME NEW s \in C, NEW x \in U \ s PROVE s \cup {x} \in C
  <2>1. PICK T : Adds(f, s, T)
    OBVIOUS
  <2> DEFINE T2 == [r \in SUBSET (s \cup {x}) |->
                      IF x \in r THEN f[x] + T[r \ {x}] ELSE T[r]]
  <2>2. \A r \in SUBSET (s \cup {x}) :
          /\ x \notin r => r \in SUBSET s /\ T2[r] = T[r]
          /\ x \in r => r \ {x} \in SUBSET s /\ T2[r] = f[x] + T[r \ {x}]
    OBVIOUS
  <2>3. T \in [SUBSET s -> Nat] /\ f[x] \in Nat
    BY <2>1 DEF Adds
  <2>4. \A r \in SUBSET (s \cup {x}) : T2[r] \in Nat
    BY <2>2, <2>3
  <2>5. T2 \in [SUBSET (s \cup {x}) -> Nat]
    BY <2>4
  <2>6. T2[{}] = 0
    BY <2>1, <2>2 DEF Adds
  <2> HIDE DEF T2
  <2>7. ASSUME NEW r \in SUBSET (s \cup {x}), NEW y \in r
        PROVE  T2[r] = f[y] + T2[r \ {y}]
    <3>1. r \ {y} \in SUBSET (s \cup {x})
      OBVIOUS
    <3>2. CASE y = x
      <4>1. T2[r] = f[x] + T[r \ {x}] /\ T2[r \ {x}] = T[r \ {x}]
        BY <2>2, <3>1, <3>2
      <4>. QED
        BY <3>2, <4>1
    <3>3. CASE x \notin r
      <4>1. T2[r] = T[r] /\ T2[r \ {y}] = T[r \ {y}] /\ r \in SUBSET s
        BY <2>2, <3>1, <3>3
      <4>. QED
        BY <2>1, <4>1 DEF Adds
    <3>4. CASE x \in r /\ y # x
      <4>1. /\ T2[r] = f[x] + T[r \ {x}] /\ r \ {x} \in SUBSET s
            /\ T2[r \ {y}] = f[x] + T[(r \ {y}) \ {x}]
        BY <2>2, <3>1, <3>4
      <4>2. T[r \ {x}] = f[y] + T[(r \ {x}) \ {y}]
        BY <2>1, <3>4, <4>1 DEF Adds
      <4>3. (r \ {x}) \ {y} = (r \ {y}) \ {x} /\ (r \ {x}) \ {y} \in SUBSET s
        BY <4>1
      <4>4. f[y] \in Nat /\ T[(r \ {x}) \ {y}] \in Nat
        BY <2>3, <4>3
      <4>5. \A a, b, c \in Nat : a + (b + c) = b + (a + c)
        OBVIOUS
      <4>6. T2[r] = f[x] + (f[y] + T[(r \ {x}) \ {y}])
        BY <4>1, <4>2
      <4>7. T2[r \ {y}] = f[x] + T[(r \ {x}) \ {y}]
        BY <4>1, <4>3
      <4>. QED
        BY <2>3, <4>4, <4>5, <4>6, <4>7
    <3>. QED
      BY <3>2, <3>3, <3>4
  <2>8. Adds(f, s \cup {x}, T2)
    BY <2>5, <2>6, <2>7 DEF Adds
  <2>. QED
    BY <2>8
<1>3. C = SUBSET U
  <2> HIDE DEF C
  <2>1. C \in SUBSET (SUBSET U)
    BY DEF C
  <2>. QED
    BY <1>1, <1>2, <2>1, FiniteInduction
<1>. QED
  BY <1>3

(* However the elements are picked, the sum is the same.                   *)
Picks(f, S, G) ==
    G = [s \in SUBSET S |->
           IF s = {} THEN 0 ELSE f[CHOOSE x \in s : TRUE] + G[s \ {CHOOSE x \in s : TRUE}]]

(* Whatever adds up by picking agrees with the sums.                       *)
LEMMA PicksAdds ==
    ASSUME NEW U, IsFiniteSet(U), NEW f, NEW S \in SUBSET U, NEW T, Adds(f, U, T),
           NEW G, Picks(f, S, G)
    PROVE  G[S] = T[S]
<1> DEFINE D == {s \in SUBSET S : G[s] # T[s]}
<1>1. ASSUME D # {} PROVE FALSE
  <2>1. IsFiniteSet(S)
    BY FS_Subset
  <2>2. PICK s \in D : \A x \in s : s \ {x} \notin D
    BY <1>1, <2>1, MinimalSet
  <2>3. CASE s = {}
    BY <2>2, <2>3 DEF Picks, Adds
  <2>4. CASE s # {}
    <3> DEFINE x == CHOOSE x \in s : TRUE
    <3>1. x \in s
      BY <2>4
    <3>2. G[s] = f[x] + G[s \ {x}]
      BY <2>4 DEF Picks
    <3> HIDE DEF x
    <3>3. G[s \ {x}] = T[s \ {x}]
      BY <2>2, <3>1
    <3>4. T[s] = f[x] + T[s \ {x}]
      BY <3>1 DEF Adds
    <3>. QED
      BY <3>2, <3>3, <3>4
  <2>. QED
    BY <2>3, <2>4
<1>. QED
  BY <1>1

(* The sums add up by picking.                                             *)
LEMMA AddsPicks ==
    ASSUME NEW U, NEW f, NEW T, Adds(f, U, T)
    PROVE  Picks(f, U, T)
<1>1. ASSUME NEW s \in SUBSET U, s # {}
      PROVE  T[s] = f[CHOOSE x \in s : TRUE] + T[s \ {CHOOSE x \in s : TRUE}]
  <2>1. (CHOOSE x \in s : TRUE) \in s
    BY <1>1
  <2>. QED
    BY <2>1 DEF Adds
<1>. QED
  BY <1>1 DEF Adds, Picks

(* A sum over a subset is the same by itself.                              *)
LEMMA TotalIs ==
    ASSUME NEW U, IsFiniteSet(U), NEW f, \A x \in U : f[x] \in Nat,
           NEW S \in SUBSET U, NEW T, Adds(f, U, T)
    PROVE  Total(f, S) = T[S]
<1>1. IsFiniteSet(S)
  BY FS_Subset
<1>2. \E R : Adds(f, S, R)
  BY <1>1, AddsExists
<1>3. PICK R : Adds(f, S, R) /\ Total(f, S) = R[S]
  BY <1>2 DEF Total
<1>4. Picks(f, S, R)
  BY <1>3, AddsPicks
<1>. QED
  BY <1>3, <1>4, PicksAdds

(* What a total is: one element and the rest.                              *)
LEMMA TotalFacts ==
    ASSUME NEW S, IsFiniteSet(S), NEW f, \A x \in S : f[x] \in Nat
    PROVE  /\ Total(f, {}) = 0
           /\ Total(f, S) \in Nat
           /\ \A x \in S : Total(f, S) = f[x] + Total(f, S \ {x})
<1>1. PICK T : Adds(f, S, T)
  BY AddsExists
<1>2. \A R \in SUBSET S : Total(f, R) = T[R]
  BY <1>1, TotalIs
<1>. QED
  BY <1>1, <1>2 DEF Adds

(* The sums of the model are totals.                                       *)
LEMMA RunsSum ==
    ASSUME IsFiniteSet(Runs), spent \in [Runs -> Nat]
    PROVE  MapThenSumSet(LAMBDA r : spent[r], Runs) = Total(spent, Runs)
<1>1. PICK T : Adds(spent, Runs, T)
  BY AddsExists
<1>2. Picks(spent, Runs, T)
  BY <1>1, AddsPicks
<1>3. \E G : Picks(spent, Runs, G) /\ MapThenSumSet(LAMBDA r : spent[r], Runs) = G[Runs]
  BY <1>2 DEF Picks, MapThenSumSet, MapThenFoldSet
<1>. QED
  BY <1>1, <1>3, PicksAdds, TotalIs

Used == [w \in WorkerType |-> w.used]

(* The two sums over workers that the model takes.                         *)
LEMMA WorkersSum ==
    ASSUME NEW S \in SUBSET WorkerType, IsFiniteSet(S)
    PROVE  /\ MapThenSumSet(LAMBDA w : w.used, S) = Total(Used, S)
           /\ MapThenSumSet(LAMBDA w : Absorbed(w, "canceled"), S) = Total(Used, S)
<1>0. \A w \in S : Used[w] = w.used /\ Used[w] \in Nat
  BY DEF Used, WorkerType
<1>1. PICK T : Adds(Used, S, T)
  BY <1>0, AddsExists
<1>2. Picks(Used, S, T)
  BY <1>1, AddsPicks
<1> DEFINE Solves(G) ==
      G = [s \in SUBSET S |->
             IF s = {} THEN 0
             ELSE (CHOOSE x \in s : TRUE).used + G[s \ {CHOOSE x \in s : TRUE}]]
<1>3. \A s \in SUBSET S : s # {} => (CHOOSE x \in s : TRUE) \in S
  OBVIOUS
<1>4. \A G : Solves(G) <=> Picks(Used, S, G)
  BY <1>0, <1>3 DEF Picks
<1> HIDE DEF Solves
<1>5. \E G : Solves(G)
  BY <1>2, <1>4
<1>6. \E G : Solves(G) /\ MapThenSumSet(LAMBDA w : w.used, S) = G[S]
  BY <1>5 DEF Solves, MapThenSumSet, MapThenFoldSet
<1>7. \E G : Solves(G) /\ MapThenSumSet(LAMBDA w : Absorbed(w, "canceled"), S) = G[S]
  BY <1>5 DEF Solves, MapThenSumSet, MapThenFoldSet, Absorbed
<1>8. \A G : Solves(G) => G[S] = Total(Used, S)
  <2>1. Total(Used, S) = T[S]
    BY <1>0, <1>1, TotalIs
  <2>. QED
    BY <1>1, <1>4, <2>1, PicksAdds
<1>. QED
  BY <1>6, <1>7, <1>8

(* A total depends on the values only.                                     *)
LEMMA TotalSame ==
    ASSUME NEW S, IsFiniteSet(S), NEW f, NEW g, \A x \in S : f[x] \in Nat /\ g[x] = f[x]
    PROVE  Total(g, S) = Total(f, S)
<1>1. PICK T : Adds(f, S, T)
  BY AddsExists
<1>2. Adds(g, S, T)
  BY <1>1 DEF Adds
<1>. QED
  BY <1>1, <1>2, TotalIs

(* The total of two sets without a common element.                         *)
LEMMA TotalUnion ==
    ASSUME NEW S, NEW R, IsFiniteSet(S), IsFiniteSet(R), S \cap R = {}, NEW f,
           \A x \in S \cup R : f[x] \in Nat
    PROVE  Total(f, S \cup R) = Total(f, S) + Total(f, R)
<1> DEFINE U == S \cup R
<1>1. IsFiniteSet(U)
  BY FS_Union
<1>2. PICK T : Adds(f, U, T)
  BY <1>1, AddsExists
<1>3. \A s \in SUBSET U : Total(f, s) = T[s] /\ T[s] \in Nat
  <2>1. \A s \in SUBSET U : Total(f, s) = T[s]
    BY <1>1, <1>2, TotalIs
  <2>. QED
    BY <1>2, <2>1 DEF Adds
<1>4. \A s \in SUBSET U : \A x \in s : T[s] = f[x] + T[s \ {x}]
  BY <1>2 DEF Adds
<1>5. T[{}] = 0
  BY <1>2 DEF Adds
<1> DEFINE D == {s \in SUBSET R : T[S \cup s] = T[S] + T[s]}
<1>6. {} \in D
  <2>1. S \cup {} = S /\ T[S] \in Nat
    BY <1>3
  <2>. QED
    BY <1>5, <2>1
<1>7. ASSUME NEW s \in D, NEW x \in R \ s PROVE s \cup {x} \in D
  <2>1. (S \cup (s \cup {x})) \ {x} = S \cup s /\ (s \cup {x}) \ {x} = s
    OBVIOUS
  <2>2. S \cup (s \cup {x}) \in SUBSET U /\ s \cup {x} \in SUBSET U
    OBVIOUS
  <2>3. T[S \cup (s \cup {x})] = f[x] + T[S \cup s]
    BY <1>4, <2>1, <2>2
  <2>4. T[s \cup {x}] = f[x] + T[s]
    BY <1>4, <2>1, <2>2
  <2>5. T[S \cup s] = T[S] + T[s]
    OBVIOUS
  <2>6. f[x] \in Nat /\ T[S] \in Nat /\ T[s] \in Nat
    BY <1>3
  <2>7. \A a, b, c \in Nat : a + (b + c) = b + (a + c)
    OBVIOUS
  <2>8. T[S \cup (s \cup {x})] = T[S] + T[s \cup {x}]
    BY <2>3, <2>4, <2>5, <2>6, <2>7
  <2>. QED
    BY <2>8
<1>8. R \in D
  <2> HIDE DEF D
  <2>1. D \in SUBSET (SUBSET R)
    BY DEF D
  <2>2. D = SUBSET R
    BY <1>6, <1>7, <2>1, FiniteInduction
  <2>. QED
    BY <2>2
<1>. QED
  BY <1>3, <1>8

(* One element gives way to another.                                       *)
LEMMA TotalReplace ==
    ASSUME NEW S, IsFiniteSet(S), NEW f, NEW w \in S, NEW v, v \notin S \ {w},
           f[v] \in Nat, \A x \in S : f[x] \in Nat
    PROVE  /\ Total(f, S) = f[w] + Total(f, S \ {w})
           /\ Total(f, (S \ {w}) \cup {v}) = f[v] + Total(f, S \ {w})
           /\ Total(f, S \ {w}) \in Nat
<1>1. IsFiniteSet(S \ {w}) /\ IsFiniteSet((S \ {w}) \cup {v})
  BY FS_RemoveElement, FS_AddElement
<1>2. ((S \ {w}) \cup {v}) \ {v} = S \ {w}
  OBVIOUS
<1>3. Total(f, (S \ {w}) \cup {v}) = f[v] + Total(f, ((S \ {w}) \cup {v}) \ {v})
  <2>1. \A x \in (S \ {w}) \cup {v} : f[x] \in Nat
    OBVIOUS
  <2>. QED
    BY <1>1, <2>1, TotalFacts
<1>. QED
  BY <1>1, <1>2, <1>3, TotalFacts

(* Nothing adds up to nothing.                                             *)
LEMMA TotalZero ==
    ASSUME NEW S, IsFiniteSet(S), NEW f, \A x \in S : f[x] = 0
    PROVE  Total(f, S) = 0
<1> DEFINE T == [s \in SUBSET S |-> 0]
<1>1. Adds(f, S, T)
  BY DEF Adds
<1>2. T[S] = 0
  OBVIOUS
<1> HIDE DEF T
<1>. QED
  BY <1>1, <1>2, TotalIs

(* A charge.                                                               *)
LEMMA SpentTotal ==
    ASSUME IsFiniteSet(Runs), spent \in [Runs -> Nat], NEW b \in Runs, NEW c \in Nat,
           Charge(b, c)
    PROVE  Total(spent', Runs) = Total(spent, Runs) + c
<1>1. spent'[b] = spent[b] + c /\ \A r \in Runs \ {b} : spent'[r] = spent[r]
  BY DEF Charge
<1>2. spent[b] \in Nat /\ spent'[b] \in Nat /\ \A r \in Runs : spent'[r] \in Nat
  BY <1>1
<1>3. Total(spent', Runs) = spent'[b] + Total(spent', Runs \ {b})
  BY <1>2, TotalFacts
<1>4. Total(spent, Runs) = spent[b] + Total(spent, Runs \ {b})
  BY TotalFacts
<1>5. IsFiniteSet(Runs \ {b})
  BY FS_RemoveElement
<1>6. Total(spent', Runs \ {b}) = Total(spent, Runs \ {b}) /\ Total(spent, Runs \ {b}) \in Nat
  BY <1>1, <1>5, TotalSame, TotalFacts
<1>7. \A x, y, z \in Nat : (x + z) + y = (x + y) + z
  OBVIOUS
<1>. QED
  BY <1>1, <1>2, <1>3, <1>4, <1>6, <1>7
-----------------------------------------------------------------------------
(*                                 Tokens                                  *)

(* Where a worker has used tokens that its agent has not taken over.       *)
Owes == {"looping", "requesting", "tools"}

WorkersOK ==
    /\ IsFiniteSet(workers)
    /\ \A v, w \in workers : v.run = w.run /\ v.task = w.task => v = w
    /\ \A w \in workers :
         /\ w.at \notin Owes => w.used = 0
         /\ w.turns <= MaxTurns /\ w.attempt <= MaxRetries

(* The tokens of all budgets are in the usage counters or with a worker.   *)
Accounted ==
    /\ usage \in Nat
    /\ Total(spent, Runs) = usage + Total(Used, workers)

(* What the plan's own variables are worth, beside PlanInv.                *)
PlanTyped ==
    /\ canceled \in BOOLEAN /\ replanning \in BOOLEAN /\ plan \in Nat
    /\ results \subseteq Nat \X Nat
    /\ replans \in 0..MaxReplans /\ supplements \in 0..MaxSupplements
    /\ replanning => replans > 0

(* What a worker's step does to the tokens: what it costs goes to the      *)
(* worker or to the counters, and what the counters gain comes from there. *)
Accounts(w, v) ==
    /\ workers' = (workers \ {w}) \cup {v}
    /\ v \in WorkerType /\ v.run = w.run /\ v.task = w.task
    /\ v.at \notin Owes => v.used = 0
    /\ v.turns <= MaxTurns /\ v.attempt <= MaxRetries
    /\ usage' \in Nat
    /\ \E c \in Nat :
         /\ \/ c = 0 /\ UNCHANGED spent
            \/ c \in Costs /\ Charge(w.budget, c)
         /\ usage' + v.used = usage + w.used + c

(* A step that costs nothing.                                              *)
LEMMA FreeAccounts ==
    ASSUME NEW w, NEW v \in WorkerType, workers' = (workers \ {w}) \cup {v},
           v.run = w.run, v.task = w.task, v.at \notin Owes => v.used = 0,
           v.turns <= MaxTurns, v.attempt <= MaxRetries, UNCHANGED spent,
           usage' \in Nat, usage' + v.used = usage + w.used + 0
    PROVE  Accounts(w, v)
<1> DEFINE Costing(c) ==
      /\ \/ c = 0 /\ UNCHANGED spent
         \/ c \in Costs /\ Charge(w.budget, c)
      /\ usage' + v.used = usage + w.used + c
<1>1. Costing(0)
  OBVIOUS
<1> HIDE DEF Costing
<1>2. \E c \in Nat : Costing(c)
  BY <1>1
<1>. QED
  BY <1>2 DEF Accounts, Costing

(* A worker that ends.                                                     *)
LEMMA LeaveAccounts ==
    ASSUME usage \in Nat, NEW w \in WorkerType, w.turns <= MaxTurns, w.attempt <= MaxRetries,
           NEW at \in Over, Leave(w, at), UNCHANGED spent
    PROVE  \E v : Accounts(w, v)
<1> DEFINE v == [w EXCEPT !.at = at, !.used = 0]
<1>1. v \in WorkerType
  BY DEF WorkerType, Places
<1>2. v.run = w.run /\ v.task = w.task /\ v.used = 0 /\ v.turns = w.turns /\ v.attempt = w.attempt
  BY DEF WorkerType
<1>3. workers' = (workers \ {w}) \cup {v} /\ usage' = usage + w.used
  BY DEF Leave, Become, Absorbed
<1>4. w.used \in Nat
  BY DEF WorkerType
<1>5. usage' \in Nat /\ usage' + 0 = usage + w.used + 0
  BY <1>3, <1>4
<1> HIDE DEF v
<1>6. usage' + v.used = usage + w.used + 0
  BY <1>2, <1>5
<1>7. v.at \notin Owes => v.used = 0
  BY <1>2
<1>. QED
  BY <1>1, <1>2, <1>3, <1>5, <1>6, <1>7, FreeAccounts

(* A worker that goes on, at no cost.                                      *)
LEMMA GoesOn ==
    ASSUME usage \in Nat, NEW w \in WorkerType, NEW v \in WorkerType, Become(w, v),
           UNCHANGED <<spent, usage>>, v.run = w.run, v.task = w.task, v.used = w.used,
           v.at \notin Owes => w.used = 0, v.turns <= MaxTurns, v.attempt <= MaxRetries
    PROVE  Accounts(w, v)
<1>1. w.used \in Nat
  BY DEF WorkerType
<1>2. usage' + v.used = usage + w.used + 0
  BY <1>1
<1>3. usage' \in Nat /\ workers' = (workers \ {w}) \cup {v}
  BY DEF Become
<1>4. v.at \notin Owes => v.used = 0
  OBVIOUS
<1>. QED
  BY <1>2, <1>3, <1>4, FreeAccounts

(* Every step of a worker accounts for its tokens.                         *)
LEMMA WorkerAccounts ==
    ASSUME Typed, WorkersOK, usage \in Nat, WorkerStep
    PROVE  \E w \in workers : \E v : Accounts(w, v)
<1>1. PICK w \in workers :
        \/ Acquire(w) \/ Prepared(w) \/ Loop(w) \/ Respond(w) \/ ToolsDone(w)
        \/ BreakOff(w) \/ AskReview(w) \/ Reviewed(w) \/ ReviewFails(w) \/ Empty(w)
  BY DEF WorkerStep
<1>2. /\ w \in WorkerType /\ w.turns <= MaxTurns /\ w.attempt <= MaxRetries
      /\ w.at \notin Owes => w.used = 0
      /\ run \in Nat
  BY PlanRunAssumption DEF Typed, WorkersOK
<1>3. ASSUME NEW at \in Over, Leave(w, at), UNCHANGED spent PROVE \E v : Accounts(w, v)
  BY <1>2, <1>3, LeaveAccounts
<1>4. CASE Acquire(w)
  <2> DEFINE v == [w EXCEPT !.at = "preparing"]
  <2>1. v \in WorkerType
    BY <1>2 DEF WorkerType, Places, Inside
  <2>2. v.run = w.run /\ v.task = w.task /\ v.used = w.used /\ v.turns = w.turns
        /\ v.attempt = w.attempt
    BY <1>2 DEF WorkerType
  <2>3. Become(w, v) /\ UNCHANGED <<spent, usage>> /\ w.used = 0
    BY <1>2, <1>4 DEF Acquire, Owes
  <2> HIDE DEF v
  <2>. QED
    BY <1>2, <2>1, <2>2, <2>3, GoesOn
<1>5. CASE Prepared(w)
  <2>1. CASE Leave(w, "failed")
    BY <1>3, <1>5, <2>1 DEF Over, Prepared
  <2>2. CASE ~Leave(w, "failed")
    <3> DEFINE v == [w EXCEPT !.at = "looping"]
    <3>1. v \in WorkerType
      BY <1>2 DEF WorkerType, Places, Inside
    <3>2. v.run = w.run /\ v.task = w.task /\ v.used = w.used /\ v.turns = w.turns
          /\ v.attempt = w.attempt
      BY <1>2 DEF WorkerType
    <3>3. Become(w, v) /\ UNCHANGED <<spent, usage>> /\ w.used = 0
      BY <1>2, <1>5, <2>2 DEF Prepared, Owes
    <3> HIDE DEF v
    <3>. QED
      BY <1>2, <3>1, <3>2, <3>3, GoesOn
  <2>. QED
    BY <2>1, <2>2
<1>6. CASE Loop(w)
  <2>1. CASE Leave(w, "failed") \/ Leave(w, "canceled")
    BY <1>3, <1>6, <2>1 DEF Over, Loop
  <2>2. CASE ~(Leave(w, "failed") \/ Leave(w, "canceled"))
    <3> DEFINE v == [w EXCEPT !.at = "requesting", !.turns = @ + 1]
    <3>1. Become(w, v) /\ UNCHANGED <<spent, usage>> /\ w.turns < MaxTurns
      BY <1>6, <2>2 DEF Loop
    <3>2. w.turns \in Nat /\ w.turns + 1 \in Nat /\ w.turns + 1 <= MaxTurns
      BY <1>2, <3>1, PlanRunAssumption DEF WorkerType
    <3>3. v \in WorkerType
      BY <1>2, <3>2 DEF WorkerType, Places, Inside
    <3>4. v.run = w.run /\ v.task = w.task /\ v.used = w.used /\ v.turns = w.turns + 1
          /\ v.attempt = w.attempt /\ v.at \in Owes
      BY <1>2 DEF WorkerType, Owes
    <3> HIDE DEF v
    <3>. QED
      BY <1>2, <3>1, <3>2, <3>3, <3>4, GoesOn
  <2>. QED
    BY <2>1, <2>2
<1>7. CASE Respond(w)
  <2>1. PICK c \in Costs :
          /\ Charge(w.budget, c)
          /\ LET v == [w EXCEPT !.used = @ + c]
             IN  \/ /\ workers' = (workers \ {w}) \cup
                         {[v EXCEPT !.at = IF w.team THEN "answered" ELSE "ok", !.used = 0]}
                    /\ usage' = usage + Absorbed(v, "ok")
                 \/ /\ workers' = (workers \ {w}) \cup {[v EXCEPT !.at = "tools"]}
                    /\ UNCHANGED usage
                 \/ /\ workers' = (workers \ {w}) \cup {[v EXCEPT !.at = "failed", !.used = 0]}
                    /\ usage' = usage + Absorbed(v, "failed")
    BY <1>7 DEF Respond
  <2>2. c \in Nat /\ w.used \in Nat /\ w.used + c \in Nat
    BY <1>2, PlanRunAssumption DEF WorkerType
  <2>3. [w EXCEPT !.used = @ + c].used = w.used + c
    BY <1>2 DEF WorkerType
  <2>4. PICK at \in Places, u \in Nat :
          /\ workers' = (workers \ {w}) \cup {[w EXCEPT !.at = at, !.used = u]}
          /\ at \notin Owes => u = 0
          /\ \/ u = 0 /\ usage' = usage + (w.used + c)
             \/ u = w.used + c /\ usage' = usage
    <3>1. \A at : [[w EXCEPT !.used = @ + c] EXCEPT !.at = at, !.used = 0]
                    = [w EXCEPT !.at = at, !.used = 0]
      BY <1>2 DEF WorkerType
    <3>2. [[w EXCEPT !.used = @ + c] EXCEPT !.at = "tools"]
            = [w EXCEPT !.at = "tools", !.used = w.used + c]
      BY <1>2 DEF WorkerType
    <3>3. "answered" \in Places /\ "ok" \in Places /\ "failed" \in Places /\ "tools" \in Places
          /\ "tools" \in Owes
      BY DEF Places, Inside, Over, Owes
    <3>. QED
      BY <2>1, <2>2, <2>3, <3>1, <3>2, <3>3 DEF Absorbed
  <2> DEFINE v == [w EXCEPT !.at = at, !.used = u]
  <2>5. v \in WorkerType
    BY <1>2, <2>4 DEF WorkerType
  <2>6. v.run = w.run /\ v.task = w.task /\ v.used = u /\ v.turns = w.turns
        /\ v.attempt = w.attempt /\ v.at = at
    BY <1>2 DEF WorkerType
  <2>7. workers' = (workers \ {w}) \cup {v}
    BY <2>4
  <2> HIDE DEF v
  <2>8. usage' \in Nat /\ usage' + u = usage + w.used + c
    BY <2>2, <2>4
  <2>9. c \in Nat /\ c \in Costs /\ Charge(w.budget, c)
    BY <2>1, <2>2
  <2>. QED
    BY <1>2, <2>4, <2>5, <2>6, <2>7, <2>8, <2>9 DEF Accounts
<1>8. CASE ToolsDone(w)
  <2> DEFINE v == [w EXCEPT !.at = "looping"]
  <2>1. v \in WorkerType
    BY <1>2 DEF WorkerType, Places, Inside
  <2>2. v.run = w.run /\ v.task = w.task /\ v.used = w.used /\ v.turns = w.turns
        /\ v.attempt = w.attempt /\ v.at \in Owes
    BY <1>2 DEF WorkerType, Owes
  <2>3. Become(w, v) /\ UNCHANGED <<spent, usage>>
    BY <1>8 DEF ToolsDone
  <2> HIDE DEF v
  <2>. QED
    BY <1>2, <2>1, <2>2, <2>3, GoesOn
<1>9. CASE BreakOff(w)
  BY <1>3, <1>9 DEF BreakOff, Over
<1>10. CASE AskReview(w)
  <2>1. CASE Leave(w, "ok") \/ Leave(w, "canceled")
    BY <1>3, <1>10, <2>1 DEF Over, AskReview
  <2>2. CASE ~(Leave(w, "ok") \/ Leave(w, "canceled"))
    <3> DEFINE v == [w EXCEPT !.at = "reviewing", !.budget = run]
    <3>1. Become(w, v) /\ UNCHANGED <<spent, usage>> /\ w.used = 0
      BY <1>2, <1>10, <2>2 DEF AskReview, Owes
    <3>2. v \in WorkerType
      BY <1>2 DEF WorkerType, Places, Inside
    <3>3. v.run = w.run /\ v.task = w.task /\ v.used = w.used /\ v.turns = w.turns
          /\ v.attempt = w.attempt
      BY <1>2 DEF WorkerType
    <3> HIDE DEF v
    <3>. QED
      BY <1>2, <3>1, <3>2, <3>3, GoesOn
  <2>. QED
    BY <2>1, <2>2
<1>11. CASE Reviewed(w)
  <2> DEFINE accepted == [w EXCEPT !.at = "ok"]
             corrected == [w EXCEPT !.at = "preparing", !.attempt = @ + 1,
                                    !.turns = 0, !.budget = run]
  <2>1. PICK c \in Costs : Charge(w.budget, c) /\ usage' = usage + c
    BY <1>11 DEF Reviewed
  <2>2. w.used = 0 /\ c \in Nat
    BY <1>2, <1>11, PlanRunAssumption DEF Reviewed, Owes
  <2>3. Become(w, accepted) \/ (Become(w, corrected) /\ w.attempt < MaxRetries)
    BY <1>11 DEF Reviewed
  <2>4. usage' \in Nat /\ usage' + 0 = usage + 0 + c
    BY <2>1, <2>2
  <2>5. accepted \in WorkerType /\ accepted.run = w.run /\ accepted.task = w.task
        /\ accepted.used = w.used /\ accepted.turns = w.turns /\ accepted.attempt = w.attempt
    BY <1>2 DEF WorkerType, Places, Over
  <2>6. corrected.run = w.run /\ corrected.task = w.task
        /\ corrected.used = w.used /\ corrected.turns = 0 /\ corrected.attempt = w.attempt + 1
    BY <1>2 DEF WorkerType
  <2>7. corrected \in WorkerType
    <3>1. w.attempt + 1 \in Nat
      BY <1>2 DEF WorkerType
    <3>. QED
      BY <1>2, <3>1 DEF WorkerType, Places, Inside
  <2>8. w.attempt < MaxRetries => w.attempt + 1 <= MaxRetries
    BY <1>2, PlanRunAssumption DEF WorkerType
  <2>9. 0 <= MaxTurns
    BY PlanRunAssumption
  <2> HIDE DEF accepted, corrected
  <2>10. ASSUME Become(w, accepted) PROVE Accounts(w, accepted)
    BY <1>2, <2>1, <2>2, <2>4, <2>5, <2>10 DEF Accounts, Become
  <2>11. ASSUME Become(w, corrected), w.attempt < MaxRetries PROVE Accounts(w, corrected)
    BY <1>2, <2>1, <2>2, <2>4, <2>6, <2>7, <2>8, <2>9, <2>11 DEF Accounts, Become
  <2>. QED
    BY <2>3, <2>10, <2>11
<1>12. CASE ReviewFails(w)
  BY <1>3, <1>12 DEF ReviewFails, Over
<1>13. CASE Empty(w)
  BY <1>3, <1>13 DEF Empty, Over
<1>. QED
  BY <1>1, <1>4, <1>5, <1>6, <1>7, <1>8, <1>9, <1>10, <1>11, <1>12, <1>13
(* Workers that go away leave nothing behind but what they have used.      *)
LEMMA WorkersGo ==
    ASSUME Typed, WorkersOK, NEW D \in SUBSET workers, workers' = workers \ D
    PROVE  /\ WorkersOK'
           /\ IsFiniteSet(D) /\ Total(Used, D) \in Nat /\ Total(Used, workers') \in Nat
           /\ Total(Used, workers) = Total(Used, workers') + Total(Used, D)
           /\ (\A w \in D : w.used = 0) => Total(Used, D) = 0
<1>1. IsFiniteSet(workers) /\ IsFiniteSet(D) /\ IsFiniteSet(workers')
  BY FS_Subset DEF WorkersOK
<1>2. \A w \in workers : Used[w] = w.used /\ Used[w] \in Nat
  BY DEF Typed, Used, WorkerType
<1>3. Total(Used, D) \in Nat /\ Total(Used, workers') \in Nat
  BY <1>1, <1>2, TotalFacts
<1>4. workers' \cup D = workers /\ workers' \cap D = {}
  OBVIOUS
<1>5. Total(Used, workers' \cup D) = Total(Used, workers') + Total(Used, D)
  BY <1>1, <1>2, <1>4, TotalUnion
<1>6. (\A w \in D : w.used = 0) => Total(Used, D) = 0
  BY <1>1, <1>2, TotalZero
<1>7. WorkersOK'
  BY <1>1 DEF WorkersOK
<1>. QED
  BY <1>1, <1>3, <1>4, <1>5, <1>6, <1>7

(* Those that go after their end leave nothing.                            *)
LEMMA OverGo ==
    ASSUME Typed, WorkersOK, Accounted, NEW D \in SUBSET workers, workers' = workers \ D,
           \A w \in D : w.at \in Over, UNCHANGED <<spent, usage>>
    PROVE  WorkersOK' /\ Accounted'
<1>1. \A w \in D : w.used = 0
  BY DEF WorkersOK, Over, Owes
<1>2. /\ WorkersOK' /\ Total(Used, workers') \in Nat
      /\ Total(Used, workers) = Total(Used, workers') + 0
  BY <1>1, WorkersGo
<1>3. Total(Used, workers) = Total(Used, workers')
  BY <1>2
<1>. QED
  BY <1>2, <1>3 DEF Accounted

(* A request of the run itself goes to the counters at once.               *)
LEMMA RunPays ==
    ASSUME Typed, WorkersOK, Accounted, UNCHANGED workers, phase # "idle",
           \E c \in Costs : Charge(run, c) /\ usage' = usage + c
    PROVE  WorkersOK' /\ Accounted'
<1>1. PICK c \in Costs : Charge(run, c) /\ usage' = usage + c
  OBVIOUS
<1>2. run \in Runs /\ IsFiniteSet(Runs) /\ c \in Nat
  BY PlanRunAssumption, FS_Interval DEF Typed, Runs
<1>3. Total(spent', Runs) = Total(spent, Runs) + c
  BY <1>1, <1>2, SpentTotal DEF Typed
<1>4. \A w \in workers : Used[w] \in Nat
  BY DEF Typed, Used, WorkerType
<1>5. Total(Used, workers) \in Nat
  BY <1>4, TotalFacts DEF WorkersOK
<1>6. \A x, y, z \in Nat : x + y + z = x + z + y
  OBVIOUS
<1>7. usage \in Nat /\ usage' \in Nat
  BY <1>1, <1>2 DEF Accounted
<1>8. Total(spent', Runs) = usage' + Total(Used, workers)
  BY <1>1, <1>2, <1>3, <1>5, <1>6, <1>7 DEF Accounted
<1>. QED
  BY <1>7, <1>8 DEF Accounted, WorkersOK

(* A worker's step.                                                        *)
LEMMA WorkerPays ==
    ASSUME Typed, WorkersOK, Accounted, WorkerStep
    PROVE  WorkersOK' /\ Accounted'
<1>1. usage \in Nat
  BY DEF Accounted
<1>2. PICK w \in workers : \E v : Accounts(w, v)
  BY <1>1, WorkerAccounts
<1>A. PICK v : Accounts(w, v)
  BY <1>2
<1>3. PICK c \in Nat :
        /\ \/ c = 0 /\ UNCHANGED spent
           \/ c \in Costs /\ Charge(w.budget, c)
        /\ usage' + v.used = usage + w.used + c
  BY <1>A DEF Accounts
<1>4. /\ workers' = (workers \ {w}) \cup {v} /\ v \in WorkerType /\ usage' \in Nat
      /\ v.run = w.run /\ v.task = w.task /\ (v.at \notin Owes => v.used = 0)
      /\ v.turns <= MaxTurns /\ v.attempt <= MaxRetries
  BY <1>A DEF Accounts
<1>5. v \notin workers \ {w}
  BY <1>4 DEF WorkersOK
<1>6. /\ \A u \in workers : Used[u] = u.used /\ Used[u] \in Nat
      /\ Used[v] = v.used /\ Used[v] \in Nat
  BY <1>4 DEF Typed, Used, WorkerType
<1>7. /\ Total(Used, workers) = w.used + Total(Used, workers \ {w})
      /\ Total(Used, workers') = v.used + Total(Used, workers \ {w})
      /\ Total(Used, workers \ {w}) \in Nat
  BY <1>4, <1>5, <1>6, TotalReplace DEF WorkersOK
<1>8. w.budget \in Runs /\ IsFiniteSet(Runs)
  <2>1. w.budget \in 1..run /\ run \in 0..MaxRuns /\ MaxRuns \in Nat
    BY PlanRunAssumption DEF Typed
  <2>2. IsFiniteSet(1..MaxRuns)
    BY <2>1, FS_Interval
  <2>. QED
    BY <2>1, <2>2 DEF Runs
<1>9. Total(spent, Runs) \in Nat
  BY <1>8, TotalFacts DEF Typed
<1>10. Total(spent', Runs) = Total(spent, Runs) + c
  BY <1>3, <1>8, <1>9, SpentTotal DEF Typed
<1>11. \A a, b, x, y, r, k \in Nat : a + y = b + x + k => b + (x + r) + k = a + (y + r)
  OBVIOUS
<1>12. Total(spent', Runs) = usage' + Total(Used, workers')
  BY <1>1, <1>3, <1>4, <1>6, <1>7, <1>10, <1>11 DEF Accounted
<1>13. IsFiniteSet(workers')
  BY <1>4, FS_RemoveElement, FS_AddElement DEF WorkersOK
<1>14. \A u, x \in workers' : u.run = x.run /\ u.task = x.task => u = x
  BY <1>4 DEF WorkersOK
<1>15. \A u \in workers' : /\ u.at \notin Owes => u.used = 0
                          /\ u.turns <= MaxTurns /\ u.attempt <= MaxRetries
  BY <1>4 DEF WorkersOK
<1>16. WorkersOK'
  BY <1>13, <1>14, <1>15 DEF WorkersOK
<1>. QED
  BY <1>4, <1>12, <1>16 DEF Accounted

(* The workers of a new batch: one for each of its tasks, and none is left *)
(* of the batch before.                                                    *)
LEMMA BatchPays ==
    ASSUME Typed, PlanInv, WorkersOK, Accounted, Batch
    PROVE  WorkersOK' /\ Accounted'
<1> DEFINE ready == Ready(deps, Blocked(deps, status))
           new == {Worker(run, t, team) : t \in ready}
<1>1. Mine = {} /\ IsPlan(deps) /\ UNCHANGED <<spent, usage>>
  BY PlanRunAssumption DEF Batch, PlanInv
<1>2. CASE UNCHANGED workers
  BY <1>1, <1>2 DEF WorkersOK, Accounted
<1>3. CASE workers' = workers \cup new
  <2>1. ready \subseteq DOMAIN deps /\ DOMAIN deps \subseteq Nat /\ IsFiniteSet(DOMAIN deps)
    <3>1. DOMAIN deps = 1..Len(deps) /\ Len(deps) \in Nat
      BY <1>1 DEF IsPlan
    <3>2. IsFiniteSet(DOMAIN deps)
      BY <3>1, FS_Interval
    <3>. QED
      BY <3>1, <3>2 DEF Ready
  <2> HIDE DEF ready
  <2>2. IsFiniteSet(ready)
    BY <2>1, FS_Subset
  <2>3. IsFiniteSet(new)
    <3> DEFINE f == [t \in ready |-> Worker(run, t, team)]
    <3>1. f \in Surjection(ready, new)
      BY DEF Surjection
    <3>. QED
      BY <2>2, <3>1, FS_Surjection
  <2>4. \A w \in new : w \in WorkerType /\ w.run = run /\ w.used = 0 /\ w.turns = 0 /\ w.attempt = 0
    BY <2>1, PlanRunAssumption DEF Worker, WorkerType, Places, Typed
  <2>5. \A v, w \in new : v.task = w.task => v = w
    BY DEF Worker
  <2> HIDE DEF new
  <2>6. workers \cap new = {} /\ \A w \in workers : w.run # run
    BY <1>1, <2>4 DEF Mine
  <2>7. /\ \A w \in new : Used[w] = 0
        /\ \A w \in workers : Used[w] \in Nat
    BY <2>4 DEF Typed, Used, WorkerType
  <2>8. Total(Used, new) = 0 /\ Total(Used, workers) \in Nat
    BY <2>3, <2>7, TotalZero, TotalFacts DEF WorkersOK
  <2>9. \A w \in workers \cup new : Used[w] \in Nat
    BY <2>7
  <2>10. Total(Used, workers \cup new) = Total(Used, workers) + Total(Used, new)
    BY <2>3, <2>6, <2>9, TotalUnion DEF WorkersOK
  <2>11. Total(Used, workers') = Total(Used, workers)
    BY <1>3, <2>8, <2>10
  <2>12. IsFiniteSet(workers')
    BY <1>3, <2>3, FS_Union DEF WorkersOK
  <2>13. \A v, w \in workers' : v.run = w.run /\ v.task = w.task => v = w
    BY <1>3, <2>4, <2>5, <2>6 DEF WorkersOK
  <2>14. 0 <= MaxTurns /\ 0 <= MaxRetries
    BY PlanRunAssumption
  <2>15. \A w \in workers' : /\ w.at \notin Owes => w.used = 0
                            /\ w.turns <= MaxTurns /\ w.attempt <= MaxRetries
    BY <1>3, <2>4, <2>14 DEF WorkersOK
  <2>. QED
    BY <1>1, <2>11, <2>12, <2>13, <2>15 DEF WorkersOK, Accounted
<1>. QED
  BY <1>2, <1>3 DEF Batch

(* Workers that are cancelled hand over what they have used.               *)
LEMMA InterruptPays ==
    ASSUME Typed, WorkersOK, Accounted, Interrupt
    PROVE  WorkersOK' /\ Accounted'
<1>1. Mine \in SUBSET workers /\ workers' = workers \ Mine /\ UNCHANGED spent
  BY DEF Interrupt, Mine
<1>2. /\ WorkersOK' /\ IsFiniteSet(Mine)
      /\ Total(Used, Mine) \in Nat /\ Total(Used, workers') \in Nat
      /\ Total(Used, workers) = Total(Used, workers') + Total(Used, Mine)
  BY <1>1, WorkersGo
<1>3. Mine \in SUBSET WorkerType
  BY <1>1 DEF Typed
<1>4. MapThenSumSet(LAMBDA w : Absorbed(w, "canceled"), Mine) = Total(Used, Mine)
  BY <1>2, <1>3, WorkersSum
<1>5. usage' = usage + Total(Used, Mine)
  BY <1>4 DEF Interrupt
<1>6. usage \in Nat /\ usage' \in Nat
  BY <1>2, <1>5 DEF Accounted
<1>7. \A a, b, c \in Nat : a + (b + c) = (a + c) + b
  OBVIOUS
<1>8. Total(spent, Runs) = usage' + Total(Used, workers')
  BY <1>2, <1>5, <1>6, <1>7 DEF Accounted
<1>. QED
  BY <1>1, <1>2, <1>6, <1>8 DEF Accounted

(* Without a plan.                                                         *)
LEMMA NothingPlanned ==
    ASSUME canceled' \in BOOLEAN, replanning' = FALSE, plan' = 0, results' = {},
           replans' \in {0, MaxReplans}, supplements' = 0
    PROVE  PlanTyped'
<1>1. 0 \in 0..MaxReplans /\ MaxReplans \in 0..MaxReplans /\ 0 \in 0..MaxSupplements
  BY PlanRunAssumption
<1>. QED
  BY <1>1 DEF PlanTyped

(* No token is spent at the start.                                         *)
LEMMA TokensInit == Init => WorkersOK /\ Accounted /\ PlanTyped
<1> SUFFICES ASSUME Init PROVE WorkersOK /\ Accounted /\ PlanTyped
  OBVIOUS
<1>1. workers = {} /\ usage = 0 /\ spent = [r \in Runs |-> 0]
  BY DEF Init
<1>2. IsFiniteSet(Runs)
  BY PlanRunAssumption, FS_Interval DEF Runs
<1>3. Total(spent, Runs) = 0
  BY <1>1, <1>2, TotalZero
<1>4. Total(Used, workers) = 0
  BY <1>1, FS_EmptySet, TotalZero
<1>5. WorkersOK
  BY <1>1, FS_EmptySet DEF WorkersOK
<1>6. PlanTyped
  <2>1. 0 \in 0..MaxReplans /\ 0 \in 0..MaxSupplements
    BY PlanRunAssumption
  <2>2. /\ canceled = FALSE /\ replanning = FALSE /\ plan = 0 /\ results = {}
        /\ replans = 0 /\ supplements = 0
    BY DEF Init
  <2>. QED
    BY <2>1, <2>2 DEF PlanTyped
<1>. QED
  BY <1>1, <1>3, <1>4, <1>5, <1>6 DEF Accounted

(* Every step accounts for its tokens.                                     *)
LEMMA TokensStep ==
    Typed /\ PlanInv /\ WorkersOK /\ Accounted /\ [Next]_vars => WorkersOK' /\ Accounted'
<1> SUFFICES ASSUME Typed, PlanInv, WorkersOK, Accounted, [Next]_vars
             PROVE  WorkersOK' /\ Accounted'
  OBVIOUS
<1>1. ASSUME UNCHANGED <<workers, spent, usage>> PROVE WorkersOK' /\ Accounted'
  BY <1>1 DEF WorkersOK, Accounted
<1>2. CASE WorkerStep
  BY <1>2, WorkerPays
<1>3. CASE CreatePlan
  BY <1>1, <1>3, RunPays DEF CreatePlan
<1>4. CASE ReviewPlan
  BY <1>1, <1>4 DEF ReviewPlan
<1>5. CASE Batch
  BY <1>5, BatchPays
<1>6. CASE Gather
  <2>1. Mine \in SUBSET workers /\ \A w \in Mine : w.at \in Over
    BY <1>6 DEF Gather, Mine, Over
  <2>2. workers' = workers \ Mine /\ UNCHANGED <<spent, usage>>
    BY <1>6 DEF Gather
  <2>. QED
    BY <2>1, <2>2, OverGo
<1>7. CASE GatherRaises
  <2> DEFINE D == {w \in workers : w.at \in Over}
  <2>1. workers' = workers \ D /\ D \in SUBSET workers /\ \A w \in D : w.at \in Over
    BY <1>7 DEF GatherRaises
  <2>2. UNCHANGED <<spent, usage>>
    BY <1>7 DEF GatherRaises
  <2> HIDE DEF D
  <2>. QED
    BY <2>1, <2>2, OverGo
<1>8. CASE Finish
  BY <1>1, <1>8, RunPays DEF Finish
<1>9. CASE Forgotten
  <2>1. PICK w \in workers : w.at \in Over /\ workers' = workers \ {w}
    BY <1>9 DEF Forgotten
  <2>2. UNCHANGED <<spent, usage>> /\ {w} \in SUBSET workers /\ \A v \in {w} : v.at \in Over
    BY <1>9, <2>1 DEF Forgotten
  <2>. QED
    BY <2>1, <2>2, OverGo
<1>10. CASE Run
  BY <1>1, <1>10 DEF Run
<1>11. CASE Cancel
  BY <1>1, <1>11 DEF Cancel
<1>12. CASE Interrupt
  BY <1>12, InterruptPays
<1>13. CASE UNCHANGED vars
  BY <1>1, <1>13 DEF vars
<1>. QED
  BY <1>2, <1>3, <1>4, <1>5, <1>6, <1>7, <1>8, <1>9, <1>10, <1>11, <1>12, <1>13
     DEF Next, RunStep, Rest

(* Every step keeps the plan's own variables typed.                        *)
LEMMA PlanTypedStep == Typed /\ PlanInv /\ PlanTyped /\ [Next]_vars => PlanTyped'
<1> SUFFICES ASSUME Typed, PlanInv, PlanTyped, [Next]_vars PROVE PlanTyped'
  OBVIOUS
<1>1. ASSUME UNCHANGED <<canceled, planVars>> PROVE PlanTyped'
  BY <1>1 DEF PlanTyped, planVars
<1>2. ASSUME End PROVE PlanTyped'
  BY <1>2, NothingPlanned DEF PlanTyped, End
<1>3. CASE WorkerStep \/ Forgotten
  BY <1>1, <1>3 DEF WorkerStep, Forgotten
<1>4. CASE CreatePlan
  <2>1. CASE ~End
    <3>1. plan' = plan + 1 /\ UNCHANGED <<canceled, results, replanning, replans, supplements>>
      BY <1>4, <2>1 DEF CreatePlan
    <3>. QED
      BY <3>1 DEF PlanTyped
  <2>. QED
    BY <1>2, <2>1
<1>5. CASE ReviewPlan
  <2>1. CASE Adopt
    <3>1. replanning' = FALSE /\ results' \subseteq Nat \X Nat
          /\ UNCHANGED <<canceled, plan, supplements>>
      BY <2>1 DEF Adopt, PlanTyped
    <3>2. replans' \in 0..MaxReplans
      BY <2>1, PlanRunAssumption DEF Adopt, PlanTyped
    <3>. QED
      BY <3>1, <3>2 DEF PlanTyped
  <2>2. CASE ~End /\ ~Adopt
    <3>1. /\ supplements < MaxSupplements /\ supplements' = supplements + 1
          /\ UNCHANGED <<canceled, results, plan, replanning, replans>>
      BY <1>5, <2>2 DEF ReviewPlan
    <3>2. supplements' \in 0..MaxSupplements
      BY <3>1, PlanRunAssumption DEF PlanTyped
    <3>. QED
      BY <3>1, <3>2 DEF PlanTyped
  <2>. QED
    BY <1>2, <2>1, <2>2
<1>6. CASE Batch
  BY <1>6 DEF Batch, PlanTyped
<1>7. CASE Gather
  <2>1. /\ results' = results \cup {<<plan, w.task>> : w \in {v \in Mine : v.at = "ok"}}
        /\ replanning' \in BOOLEAN /\ (replanning' => replans > 0)
        /\ UNCHANGED <<canceled, plan, replans, supplements>>
    BY <1>7 DEF Gather, FailedEarly
  <2>2. \A w \in Mine : w.task \in Nat
    BY DEF Typed, Mine, WorkerType
  <2>3. results' \subseteq Nat \X Nat
    BY <2>1, <2>2 DEF PlanTyped
  <2>. QED
    BY <2>1, <2>3 DEF PlanTyped
<1>8. CASE GatherRaises \/ Finish \/ Interrupt
  BY <1>2, <1>8 DEF GatherRaises, Finish, Interrupt
<1>9. CASE Run
  BY <1>9, NothingPlanned DEF Run
<1>10. CASE Cancel
  BY <1>10 DEF Cancel, PlanTyped, planVars
<1>11. CASE UNCHANGED vars
  BY <1>1, <1>11 DEF vars
<1>. QED
  BY <1>3, <1>4, <1>5, <1>6, <1>7, <1>8, <1>9, <1>10, <1>11 DEF Next, RunStep, Rest

(* Together with PlanInv: the type invariant.                              *)
LEMMA TypesFollow == Typed /\ PlanInv /\ WorkersOK /\ Accounted /\ PlanTyped => TypeOK
<1> SUFFICES ASSUME Typed, PlanInv, WorkersOK, Accounted, PlanTyped PROVE TypeOK
  OBVIOUS
<1>1. deps \in {<<>>} \cup Plans /\ status \in [DOMAIN deps -> Statuses]
  BY DEF PlanInv
<1>2. deps \in Seq(SUBSET Nat)
  BY <1>1, PlanRunAssumption DEF IsPlan
<1>3. DOMAIN deps = 1..Len(deps) /\ Len(deps) \in Nat
  BY <1>2
<1>4. status \in Seq(Statuses) /\ Len(status) = Len(deps)
  <2>1. status \in [1..Len(deps) -> Statuses]
    BY <1>1, <1>3
  <2>2. status \in Seq(Statuses)
    BY <1>3, <2>1
  <2>. QED
    BY <1>3, <2>1, <2>2
<1>5. \A w \in workers :
         /\ w.run \in 1..run /\ w.budget \in 1..run /\ w.at \in {"queued"} \cup Inside \cup Over
         /\ w.used \in Nat /\ w.turns \in 0..MaxTurns /\ w.attempt \in 0..MaxRetries
  <2>1. \A w \in workers : /\ w \in WorkerType /\ w.run \in 1..run /\ w.budget \in 1..run
                          /\ w.turns <= MaxTurns /\ w.attempt <= MaxRetries
    BY DEF Typed, WorkersOK
  <2>. QED
    BY <2>1, PlanRunAssumption DEF WorkerType, Places
<1>. QED
  BY <1>1, <1>4, <1>5 DEF TypeOK, Typed, PlanTyped, Accounted

(* The totals are the sums of the property.                                *)
LEMMA SumsFollow == Typed /\ WorkersOK /\ Accounted => UsageAccounted
<1> SUFFICES ASSUME Typed, WorkersOK, Accounted PROVE UsageAccounted
  OBVIOUS
<1>1. IsFiniteSet(Runs) /\ IsFiniteSet(workers) /\ workers \in SUBSET WorkerType
  BY PlanRunAssumption, FS_Interval DEF Runs, WorkersOK, Typed
<1>2. MapThenSumSet(LAMBDA r : spent[r], Runs) = Total(spent, Runs)
  BY <1>1, RunsSum DEF Typed
<1>3. MapThenSumSet(LAMBDA w : w.used, workers) = Total(Used, workers)
  BY <1>1, WorkersSum
<1>. QED
  BY <1>2, <1>3 DEF UsageAccounted, Accounted
-----------------------------------------------------------------------------
(*                               Theorems                                  *)

IInv == Typed /\ BudgetInv /\ PlanInv /\ WorkersOK /\ Accounted /\ PlanTyped

(* The inductive invariant.                                                *)
LEMMA IInvHolds == Spec => []IInv
<1>1. Init => IInv
  BY TypedInit, BudgetInit, PlanInit, TokensInit DEF IInv
<1>2. IInv /\ [Next]_vars => IInv'
  BY TypedStep, BudgetStep, PlanStep, TokensStep, PlanTypedStep DEF IInv
<1>. QED
  BY <1>1, <1>2, PTL DEF Spec

(* Whatever the plan, however its tasks were listed and however they fail, *)
(* when the agent is asked for its answer (planning.py:170,                *)
(* orchestration.py:166) every task was executed after its dependencies,   *)
(* or blocked because one of them failed.                                  *)
THEOREM PlanSettledHolds == Spec => []PlanSettled
<1>1. IInv => PlanSettled
  BY DEF IInv, PlanInv
<1>. QED
  BY <1>1, IInvHolds, PTL

(* The results it is shown are those of the plan executed last, however    *)
(* often the plan was replaced or sent back (planning.py:168).             *)
THEOREM ResultsOfThisPlanHolds == Spec => []ResultsOfThisPlan
<1>1. IInv => ResultsOfThisPlan
  BY DEF IInv, PlanInv, ResultsOfThisPlan
<1>. QED
  BY <1>1, IInvHolds, PTL

(* Any number of workers and reviewers, of this run or left behind by a    *)
(* cancelled one, exceed a run's budget by less than one response          *)
(* (core.py:498-509).                                                      *)
THEOREM BudgetExceededByOneHolds == Spec => []BudgetExceededByOne
<1>1. IInv => BudgetExceededByOne
  BY DEF IInv, BudgetInv
<1>. QED
  BY <1>1, IInvHolds, PTL

(* Every token of a planner, worker or reviewer is in the agent's usage    *)
(* counters or still with its worker, once, in whatever way the worker     *)
(* ended and however often the run was cancelled (core.py:773,             *)
(* planning.py:125, orchestration.py:116); and every state is well-typed.  *)
THEOREM TokensAccountedHolds == Spec => []TokensAccounted
<1>1. IInv => TokensAccounted
  BY TypesFollow, SumsFollow DEF IInv, BudgetInv, TokensAccounted
<1>. QED
  BY <1>1, IInvHolds, PTL
=============================================================================
