------------------------------ MODULE TaskTable ------------------------------
(***************************************************************************)
(* The rows of the durable task table as pure operators: which rows wait,  *)
(* which one is next, and what retention deletes.  A task's number is its  *)
(* creation order, so ORDER BY created_at is the order of the numbers.     *)
(***************************************************************************)
EXTENDS Naturals, FiniteSets

CONSTANTS
    MaxTasks,     \* bound: tasks ever added
    MaxTerminal   \* settled rows retained (max_terminal_tasks)

ASSUME TaskTableAssumption ==
    /\ MaxTasks \in Nat
    /\ MaxTerminal \in Nat

Tasks == 1..MaxTasks
Terminal == {"completed", "failed", "canceled"}
Status == {"absent", "enqueued", "running", "pruned"} \cup Terminal

(* _prune_terminal: the settled rows beyond the newest MaxTerminal go;     *)
(* sp ranks rows by updated_at, which a settled row never changes again.   *)
Prune(st, sp) ==
    [t \in Tasks |->
        IF /\ st[t] \in Terminal
           /\ Cardinality({u \in Tasks : st[u] \in Terminal /\ sp[u] > sp[t]})
                >= MaxTerminal
        THEN "pruned"
        ELSE st[t]]

NextStamp(sp) == 1 + Cardinality({t \in Tasks : sp[t] > 0})

(* The rows of R go back to the queue.                                     *)
Requeue(st, R) == [t \in Tasks |-> IF t \in R THEN "enqueued" ELSE st[t]]

Enqueued(st) == {t \in Tasks : st[t] = "enqueued"}

Running(st) == {t \in Tasks : st[t] = "running"}

(* ORDER BY created_at LIMIT 1: at most one task.                          *)
Oldest(S) == {t \in S : \A u \in S : t <= u}
=============================================================================
