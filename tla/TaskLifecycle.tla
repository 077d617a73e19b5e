---------------------------- MODULE TaskLifecycle ----------------------------
(***************************************************************************)
(* What the durable background-task queue promises to a reader of its      *)
(* table, with no processes, owners or threads: a task waits, is run by    *)
(* somebody, may go back to waiting when its runner is lost, and settles   *)
(* once.  The oldest waiting task is always the next one to run, and only  *)
(* settled tasks are ever forgotten.                                       *)
(***************************************************************************)
EXTENDS TaskTable

VARIABLES
    status,       \* task -> its status column, or "absent" / "pruned"
    stamp         \* task -> rank of its settling update (updated_at)

vars == <<status, stamp>>

TypeOK ==
    /\ status \in [Tasks -> Status]
    /\ stamp \in [Tasks -> Nat]
-----------------------------------------------------------------------------
Init ==
    /\ status = [t \in Tasks |-> "absent"]
    /\ stamp = [t \in Tasks |-> 0]

Add(t) ==
    /\ status[t] = "absent"
    /\ \A u \in 1..(t - 1) : status[u] # "absent"
    /\ status' = [status EXCEPT ![t] = "enqueued"]
    /\ UNCHANGED stamp

(* Some lost runs return to the queue, and settled rows are trimmed.       *)
GiveBack(R) ==
    /\ R \subseteq Running(status)
    /\ \/ status' = Requeue(status, R)
       \/ status' = Prune(Requeue(status, R), stamp)
    /\ UNCHANGED stamp

(* Lost runs return first, so one of them may be the very task to start.   *)
Claim(R) ==
    /\ R \subseteq Running(status)
    /\ LET queue == Requeue(status, R) IN
         \E t \in Oldest(Enqueued(queue)) : status' = [queue EXCEPT ![t] = "running"]
    /\ UNCHANGED stamp

Settle(t, outcome) ==
    /\ outcome \in Terminal
    /\ \/ status[t] = "running"
       \/ status[t] = "enqueued" /\ outcome = "canceled"
    /\ stamp' = [stamp EXCEPT ![t] = NextStamp(stamp)]
    /\ status' = Prune([status EXCEPT ![t] = outcome], stamp')

Next ==
    \/ \E t \in Tasks : Add(t)
    \/ \E R \in SUBSET Running(status) : GiveBack(R) \/ Claim(R)
    \/ \E t \in Tasks, outcome \in Terminal : Settle(t, outcome)

Spec == Init /\ [][Next]_vars
=============================================================================
