------------------------- MODULE DurableTasks_proofs -------------------------
(***************************************************************************)
(* Theorems about DurableTasks for any number of processes, generations,   *)
(* workers and tasks: types, exclusive execution, the registry of running  *)
(* agents, what the rows say of their executions, who publishes, and the   *)
(* refinement of TaskLifecycle.                                            *)
(***************************************************************************)
EXTENDS DurableTasks, FiniteSetTheorems, TLAPS

(* A worker that holds a task: it has the claim's reply in hand, runs the  *)
(* agent, or is publishing.                                                *)
Holding(c) ==
    /\ Live(c)
    /\ \/ pc[c] \in {"run", "complete", "fail"}
       \/ pc[c] = "claim" /\ reply[c] = "claimed"

(* A generation nobody has started has no workers, and whoever started one *)
(* has been up.                                                            *)
UnbornInv ==
    /\ \A c \in Coros : host[c[1]] = NoPid => pc[c] = "off"
    /\ \A k \in Tokens : host[k] \in Procs => proc[host[k]] # "unborn"

(* A manager that is not idle has a generation; while it closes, that      *)
(* generation is stopped.                                                  *)
PhaseInv ==
    \A p \in Procs :
        /\ phase[p] # "idle" => current[p] \in Tokens
        /\ phase[p] = "closing" => stopped[current[p]]

(* A pending call belongs to the wait its worker is (or was) in.           *)
CallInv ==
    \A c \in Coros :
        /\ call[c] # "none" => reply[c] = "none"
        /\ call[c] = "claim" => pc[c] \in {"claim", "done"}
        /\ call[c] = "completed" => pc[c] \in {"complete", "done"}
        /\ call[c] = "failed" => pc[c] \in {"fail", "done"}
        /\ pc[c] = "notify" => reply[c] = "updated"

(* Whoever has something to do with a task has a task.                     *)
JobInv ==
    \A c \in Coros :
        \/ pc[c] \in {"run", "complete", "fail", "notify"}
        \/ reply[c] = "claimed"
        \/ call[c] \in {"completed", "failed"}
        => job[c] \in Tasks

Settled(t) == status[t] \in Terminal \cup {"pruned"}

(* The row of a held task is the holder's, or it has been settled.         *)
OwnInv ==
    \A c \in Coros : Holding(c) =>
        \/ Settled(job[c])
        \/ /\ status[job[c]] = "running"
           /\ token[job[c]] = c[1]
           /\ pid[job[c]] = host[c[1]]

(* No task is held twice.                                                  *)
UniqueInv ==
    \A c, d \in Coros : Holding(c) /\ Holding(d) /\ job[c] = job[d] => c = d

IInv ==
    /\ TypeOK /\ UnbornInv /\ PhaseInv /\ CallInv /\ JobInv
    /\ OwnInv /\ UniqueInv /\ RunningAgentIsRegistered
-----------------------------------------------------------------------------
(* Retention only turns settled rows into deleted ones.                    *)
LEMMA PruneOnlySettled ==
    ASSUME NEW st, NEW sp, NEW t \in Tasks
    PROVE  \/ Prune(st, sp)[t] = st[t]
           \/ st[t] \in Terminal /\ Prune(st, sp)[t] = "pruned"
BY DEF Prune

(* Retention keeps the table well typed.                                   *)
LEMMA PruneType ==
    ASSUME NEW st \in [Tasks -> Status], NEW sp
    PROVE  Prune(st, sp) \in [Tasks -> Status]
BY DEF Prune, Status, Terminal

(* The next rank is a number.                                              *)
LEMMA NextStampType ==
    ASSUME NEW sp
    PROVE  NextStamp(sp) \in Nat
<1>1. IsFiniteSet(Tasks)
  BY TaskTableAssumption, FS_Interval DEF Tasks
<1>2. IsFiniteSet({t \in Tasks : sp[t] > 0})
  BY <1>1, FS_Subset
<1>. QED
  BY <1>2, FS_CardinalityType DEF NextStamp
-----------------------------------------------------------------------------
(* The types are inductive on their own.                                   *)
LEMMA TypeInit == Init => TypeOK
BY DurableTasksAssumption DEF Init, TypeOK, Status, Terminal

(* Every action keeps every variable in its type.                          *)
LEMMA TypeStep == TypeOK /\ [Next]_vars => TypeOK'
<1> SUFFICES ASSUME TypeOK, [Next]_vars PROVE TypeOK'
  OBVIOUS
<1> USE DEF TypeOK, table, managers, generations, workers, callbacks, bounds
<1>1. ASSUME NEW p \in Procs, Boot(p) PROVE TypeOK'
  <2>1. status' \in [Tasks -> Status]
    BY <1>1, PruneType DEF Boot, Requeue, Status
  <2>. QED
    BY <1>1, <2>1 DEF Boot, Released
<1>2. ASSUME NEW p \in Procs, Crash(p) PROVE TypeOK'
  BY <1>2 DEF Crash, Submit
<1>3. ASSUME NEW p \in Procs, CloseBegin(p) PROVE TypeOK'
  <2>1. current[p] \in Tokens => stopped' \in [Tokens -> BOOLEAN]
    BY <1>3 DEF CloseBegin
  <2>2. told' \in SUBSET Coros
    BY <1>3 DEF CloseBegin
  <2>3. stopped' \in [Tokens -> BOOLEAN]
    BY <1>3, <2>1 DEF CloseBegin
  <2>. QED
    BY <1>3, <2>2, <2>3 DEF CloseBegin
<1>4. ASSUME NEW p \in Procs, CloseRequeue(p) PROVE TypeOK'
  BY <1>4 DEF CloseRequeue, Requeue, Released, Status
<1>5. ASSUME NEW p \in Procs, CloseFails(p) PROVE TypeOK'
  BY <1>5 DEF CloseFails, Submit
<1>6. ASSUME NEW p \in Procs, NEW k \in Tokens, Start(p, k) PROVE TypeOK'
  BY <1>6 DEF Start
<1>7. ASSUME NEW p \in Procs, NEW t \in Tasks, Add(p, t) PROVE TypeOK'
  BY <1>7 DEF Add, Status
<1>8. ASSUME NEW p \in Procs, NEW t \in Tasks, Cancel(p, t) PROVE TypeOK'
  <2>1. status' \in [Tasks -> Status] /\ stamp' \in [Tasks -> Nat]
    BY <1>8, PruneType, NextStampType DEF Cancel, SettleRow, Status, Terminal
  <2>2. /\ token' \in [Tasks -> Tokens \cup {NoOwner}]
        /\ pid' \in [Tasks -> Procs \cup {NoPid}]
    BY <1>8 DEF Cancel, SettleRow
  <2>3. told' \in SUBSET Coros /\ pending' \in SUBSET (Procs \X Tasks)
    BY <1>8 DEF Cancel
  <2>. QED
    BY <1>8, <2>1, <2>2, <2>3 DEF Cancel
<1>9. ASSUME NEW p \in Procs, NEW t \in Tasks, DeliverNotice(p, t) PROVE TypeOK'
  <2>1. pending' \in SUBSET (Procs \X Tasks)
    BY <1>9 DEF DeliverNotice
  <2>2. notices' \in [Tasks -> Nat]
    BY <1>9 DEF DeliverNotice
  <2>. QED
    BY <1>9, <2>1, <2>2 DEF DeliverNotice
<1>10. ASSUME NEW c \in Coros, ClaimCommit(c) PROVE TypeOK'
  <2>1. CASE UNCHANGED <<status, token, pid, job>>
    BY <1>10, <2>1 DEF ClaimCommit
  <2>2. ASSUME NEW t \in Tasks,
               job' = [job EXCEPT ![c] = t],
               status' = [Requeue(status, Stale(IsUp)) EXCEPT ![t] = "running"],
               token' = [Released(token, Stale(IsUp), NoOwner) EXCEPT ![t] = c[1]],
               pid' = [Released(pid, Stale(IsUp), NoPid) EXCEPT ![t] = host[c[1]]]
        PROVE  TypeOK'
    <3>1. host[c[1]] \in Procs /\ c[1] \in Tokens
      BY <1>10 DEF ClaimCommit, HostUp, Coros
    <3>2. status' \in [Tasks -> Status]
      BY <2>2 DEF Requeue, Status
    <3>3. /\ token' \in [Tasks -> Tokens \cup {NoOwner}]
          /\ pid' \in [Tasks -> Procs \cup {NoPid}]
      BY <2>2, <3>1 DEF Released
    <3>. QED
      BY <1>10, <2>2, <3>2, <3>3 DEF ClaimCommit
  <2>. QED
    BY <1>10, <2>1, <2>2 DEF ClaimCommit, Oldest, Enqueued
<1>11. ASSUME NEW c \in Coros, UpdateCommit(c) PROVE TypeOK'
  <2>1. CASE MayPublish(c) /\ SettleRow(job[c], call[c])
    <3>1. status' \in [Tasks -> Status] /\ stamp' \in [Tasks -> Nat]
      BY <1>11, <2>1, PruneType, NextStampType DEF UpdateCommit, SettleRow, Status, Terminal
    <3>. QED
      BY <1>11, <2>1, <3>1 DEF UpdateCommit, SettleRow
  <2>2. CASE status' = Prune(status, stamp) /\ UNCHANGED <<token, pid, stamp>>
    <3>1. status' \in [Tasks -> Status]
      BY <2>2, PruneType
    <3>. QED
      BY <1>11, <2>2, <3>1 DEF UpdateCommit
  <2>. QED
    BY <1>11, <2>1, <2>2 DEF UpdateCommit
<1>12. ASSUME NEW c \in Coros, PollClaim(c) PROVE TypeOK'
  BY <1>12 DEF PollClaim, Submit
<1>13. ASSUME NEW c \in Coros, ClaimedNothing(c) PROVE TypeOK'
  BY <1>13 DEF ClaimedNothing, Submit
<1>14. ASSUME NEW c \in Coros, StartAgent(c) PROVE TypeOK'
  BY <1>14 DEF StartAgent, Live, HostUp, Coros
<1>15. ASSUME NEW c \in Coros, AgentReturns(c) PROVE TypeOK'
  BY <1>15 DEF AgentReturns, Submit
<1>16. ASSUME NEW c \in Coros, AgentRaises(c) PROVE TypeOK'
  BY <1>16 DEF AgentRaises, Submit
<1>17. ASSUME NEW c \in Coros, Published(c) PROVE TypeOK'
  BY <1>17 DEF Published, Submit
<1>18. ASSUME NEW c \in Coros, NotPublished(c) PROVE TypeOK'
  BY <1>18 DEF NotPublished, FinishTask, Unregister
<1>19. ASSUME NEW c \in Coros, Notify(c) PROVE TypeOK'
  <2>1. notices' \in [Tasks -> Nat]
    BY <1>19 DEF Notify
  <2>2. registry' \in [Procs -> [Tasks -> Coros \cup {NoCoro}]]
    BY <1>19 DEF Notify, FinishTask, Unregister
  <2>. QED
    BY <1>19, <2>1, <2>2 DEF Notify, FinishTask
<1>20. ASSUME NEW c \in Coros, Unwind(c) PROVE TypeOK'
  BY <1>20 DEF Unwind, FinishTask, Unregister
<1>21. ASSUME NEW c \in Coros, CallFails(c) PROVE TypeOK'
  BY <1>21 DEF CallFails, Submit
<1>22. ASSUME NEW c \in Coros, FactoryFails(c) PROVE TypeOK'
  BY <1>22 DEF FactoryFails, Submit
<1>u. CASE UNCHANGED vars
  BY <1>u DEF vars
<1>. QED
  BY <1>1, <1>2, <1>3, <1>4, <1>5, <1>6, <1>7, <1>8, <1>9, <1>10, <1>11, <1>12, <1>13, <1>14,
     <1>15, <1>16, <1>17, <1>18, <1>19, <1>20, <1>21, <1>22, <1>u DEF Next, Worker

(* Rows, owners, generations and workers keep their types, whatever the    *)
(* numbers of processes, generations, slots and tasks.                     *)
THEOREM TypeCorrect == Spec => []TypeOK
BY TypeInit, TypeStep, PTL DEF Spec
-----------------------------------------------------------------------------
(*         Exclusive execution and the registry: the inductive invariant   *)

(* With no generation and no row there is nothing to hold.                 *)
LEMMA IInvInit == Init => IInv
BY TypeInit, DurableTasksAssumption DEF Init, IInv, UnbornInv, PhaseInv, CallInv, JobInv,
   OwnInv, UniqueInv,
   Holding, Live, HostUp, Up, RunningAgentIsRegistered, Terminal

(* The first half of a coroutine's name is its generation.                 *)
LEMMA CoroToken == ASSUME NEW c \in Coros PROVE c[1] \in Tokens
BY DEF Coros

(* The part of IInv that speaks of control alone, inductive without rows.  *)
Control == TypeOK /\ UnbornInv /\ PhaseInv /\ CallInv /\ JobInv

(* Every action keeps phases, calls and jobs consistent.                   *)
LEMMA ControlStep == Control /\ [Next]_vars => Control'
<1> SUFFICES ASSUME Control, [Next]_vars PROVE (UnbornInv /\ PhaseInv /\ CallInv /\ JobInv)'
  BY TypeStep DEF Control
<1> USE CoroToken DEF Control, TypeOK, UnbornInv, PhaseInv, CallInv, JobInv,
       table, managers, generations, workers, callbacks, bounds
<1>Boot. ASSUME NEW p \in Procs, Boot(p) PROVE (UnbornInv /\ PhaseInv /\ CallInv /\ JobInv)'
  BY <1>Boot DEF Boot
<1>Crash. ASSUME NEW p \in Procs, Crash(p) PROVE (UnbornInv /\ PhaseInv /\ CallInv /\ JobInv)'
  BY <1>Crash, DurableTasksAssumption DEF Crash
<1>CloseBegin. ASSUME NEW p \in Procs, CloseBegin(p)
   PROVE (UnbornInv /\ PhaseInv /\ CallInv /\ JobInv)'
  BY <1>CloseBegin DEF CloseBegin
<1>CloseRequeue. ASSUME NEW p \in Procs, CloseRequeue(p)
   PROVE (UnbornInv /\ PhaseInv /\ CallInv /\ JobInv)'
  BY <1>CloseRequeue DEF CloseRequeue
<1>CloseFails. ASSUME NEW p \in Procs, CloseFails(p)
   PROVE (UnbornInv /\ PhaseInv /\ CallInv /\ JobInv)'
  BY <1>CloseFails DEF CloseFails
<1>Start. ASSUME NEW p \in Procs, NEW k \in Tokens, Start(p, k)
   PROVE (UnbornInv /\ PhaseInv /\ CallInv /\ JobInv)'
  <2>1. \A c \in Coros : c[1] = k => pc[c] = "off" /\ call[c] = "none"
    BY <1>Start DEF Start
  <2>2. UnbornInv'
    BY <1>Start, DurableTasksAssumption DEF Start, Up
  <2>3. PhaseInv'
    BY <1>Start DEF Start
  <2>4. CallInv'
    BY <1>Start, <2>1 DEF Start
  <2>5. JobInv'
    BY <1>Start DEF Start
  <2>. QED
    BY <2>2, <2>3, <2>4, <2>5
<1>Add. ASSUME NEW p \in Procs, NEW t \in Tasks, Add(p, t)
   PROVE (UnbornInv /\ PhaseInv /\ CallInv /\ JobInv)'
  BY <1>Add DEF Add
<1>Cancel. ASSUME NEW p \in Procs, NEW t \in Tasks, Cancel(p, t)
   PROVE (UnbornInv /\ PhaseInv /\ CallInv /\ JobInv)'
  BY <1>Cancel DEF Cancel
<1>DeliverNotice. ASSUME NEW p \in Procs, NEW t \in Tasks, DeliverNotice(p, t)
   PROVE (UnbornInv /\ PhaseInv /\ CallInv /\ JobInv)'
  BY <1>DeliverNotice DEF DeliverNotice
<1>ClaimCommit. ASSUME NEW c \in Coros, ClaimCommit(c)
   PROVE (UnbornInv /\ PhaseInv /\ CallInv /\ JobInv)'
  BY <1>ClaimCommit DEF ClaimCommit, HostUp, Oldest, Enqueued
<1>UpdateCommit. ASSUME NEW c \in Coros, UpdateCommit(c)
   PROVE (UnbornInv /\ PhaseInv /\ CallInv /\ JobInv)'
  BY <1>UpdateCommit DEF UpdateCommit, HostUp
<1>PollClaim. ASSUME NEW c \in Coros, PollClaim(c)
   PROVE (UnbornInv /\ PhaseInv /\ CallInv /\ JobInv)'
  BY <1>PollClaim DEF PollClaim, Live, HostUp, Submit
<1>ClaimedNothing. ASSUME NEW c \in Coros, ClaimedNothing(c)
   PROVE (UnbornInv /\ PhaseInv /\ CallInv /\ JobInv)'
  BY <1>ClaimedNothing DEF ClaimedNothing, Live, HostUp
<1>StartAgent. ASSUME NEW c \in Coros, StartAgent(c)
   PROVE (UnbornInv /\ PhaseInv /\ CallInv /\ JobInv)'
  BY <1>StartAgent DEF StartAgent, Live, HostUp
<1>AgentReturns. ASSUME NEW c \in Coros, AgentReturns(c)
   PROVE (UnbornInv /\ PhaseInv /\ CallInv /\ JobInv)'
  BY <1>AgentReturns DEF AgentReturns, Live, HostUp, Submit
<1>AgentRaises. ASSUME NEW c \in Coros, AgentRaises(c)
   PROVE (UnbornInv /\ PhaseInv /\ CallInv /\ JobInv)'
  BY <1>AgentRaises DEF AgentRaises, Live, HostUp, Submit
<1>Published. ASSUME NEW c \in Coros, Published(c)
   PROVE (UnbornInv /\ PhaseInv /\ CallInv /\ JobInv)'
  BY <1>Published DEF Published, PublishedReply, Live, HostUp
<1>NotPublished. ASSUME NEW c \in Coros, NotPublished(c)
   PROVE (UnbornInv /\ PhaseInv /\ CallInv /\ JobInv)'
  BY <1>NotPublished DEF NotPublished, Live, HostUp, FinishTask
<1>Notify. ASSUME NEW c \in Coros, Notify(c) PROVE (UnbornInv /\ PhaseInv /\ CallInv /\ JobInv)'
  BY <1>Notify DEF Notify, Live, HostUp, FinishTask
<1>Unwind. ASSUME NEW c \in Coros, Unwind(c) PROVE (UnbornInv /\ PhaseInv /\ CallInv /\ JobInv)'
  BY <1>Unwind DEF Unwind, HostUp
<1>CallFails. ASSUME NEW c \in Coros, CallFails(c)
   PROVE (UnbornInv /\ PhaseInv /\ CallInv /\ JobInv)'
  BY <1>CallFails DEF CallFails, HostUp
<1>FactoryFails. ASSUME NEW c \in Coros, FactoryFails(c)
   PROVE (UnbornInv /\ PhaseInv /\ CallInv /\ JobInv)'
  BY <1>FactoryFails DEF FactoryFails, Live, HostUp, Submit
<1>u. CASE UNCHANGED vars
  BY <1>u DEF vars
<1>. QED
  BY <1>Boot, <1>Crash, <1>CloseBegin, <1>CloseRequeue, <1>CloseFails, <1>Start, <1>Add,
     <1>Cancel, <1>DeliverNotice, <1>ClaimCommit, <1>UpdateCommit, <1>PollClaim,
        <1>ClaimedNothing, <1>StartAgent, <1>AgentReturns, <1>AgentRaises, <1>Published,
           <1>NotPublished, <1>Notify, <1>Unwind, <1>CallFails, <1>FactoryFails, <1>u DEF Next,
              Worker
-----------------------------------------------------------------------------
(* Where a step gives nobody a task and leaves held rows alone or settles  *)
(* them, ownership and uniqueness carry over.                              *)
Kept(d) ==
    /\ Holding(d)
    /\ job'[d] = job[d] /\ host'[d[1]] = host[d[1]]
    /\ \/ /\ status'[job[d]] = status[job[d]]
          /\ token'[job[d]] = token[job[d]]
          /\ pid'[job[d]] = pid[job[d]]
       \/ status'[job[d]] \in Terminal \cup {"pruned"}

(* The part of IInv about held rows.                                       *)
Ownership == OwnInv /\ UniqueInv

(* A step after which every holder is a holder it kept, keeps ownership.   *)
LEMMA HoldersKept ==
    ASSUME Ownership, \A d \in Coros : Holding(d)' => Kept(d)
    PROVE  Ownership'
<1>1. ASSUME NEW d \in Coros, Holding(d)'
      PROVE  \/ Settled(job[d])'
             \/ /\ status'[job'[d]] = "running"
                /\ token'[job'[d]] = d[1]
                /\ pid'[job'[d]] = host'[d[1]]
  <2>1. /\ Kept(d)
        /\ \/ Settled(job[d])
           \/ status[job[d]] = "running" /\ token[job[d]] = d[1] /\ pid[job[d]] = host[d[1]]
    BY <1>1 DEF Ownership, OwnInv, Kept
  <2>. QED
    BY <2>1 DEF Kept, Settled
<1>2. OwnInv'
  BY <1>1 DEF OwnInv
<1>3. UniqueInv'
  BY DEF Ownership, UniqueInv, Kept
<1>. QED
  BY <1>2, <1>3 DEF Ownership

(* No step takes a held row from its holder unless it settles it, and a    *)
(* claim takes a row nobody holds.                                         *)
LEMMA OwnershipStep == Control /\ Control' /\ Ownership /\ [Next]_vars => Ownership'
<1> SUFFICES ASSUME Control, Control', Ownership, [Next]_vars PROVE Ownership'
  OBVIOUS
<1> USE CoroToken DEF Control, TypeOK, JobInv, Kept, Holding, Live, HostUp, Up,
       table, managers, generations, workers, callbacks, bounds
<1>Boot. ASSUME NEW p \in Procs, Boot(p) PROVE Ownership'
  <2>1. ASSUME NEW d \in Coros, Holding(d)' PROVE Kept(d)
    <3>1. /\ Holding(d) /\ job[d] \in Tasks
          /\ job'[d] = job[d] /\ host'[d[1]] = host[d[1]]
      BY <1>Boot, <2>1 DEF Boot, UnbornInv
    <3>2. \/ Settled(job[d])
          \/ status[job[d]] = "running" /\ token[job[d]] = d[1] /\ pid[job[d]] = host[d[1]]
      BY <3>1 DEF Ownership, OwnInv
    <3>3. LET lost == Stale([IsUp EXCEPT ![p] = TRUE]) IN
          /\ job[d] \notin lost
          /\ token'[job[d]] = token[job[d]] /\ pid'[job[d]] = pid[job[d]]
          /\ Requeue(status, lost)[job[d]] = status[job[d]]
      BY <1>Boot, <3>1, <3>2 DEF Boot, Requeue, Released, Stale, Running, IsUp, Settled,
         Terminal
    <3>. QED
      BY <1>Boot, <3>1, <3>3, PruneOnlySettled DEF Boot
  <2>. QED
    BY <2>1, HoldersKept
<1>Crash. ASSUME NEW p \in Procs, Crash(p) PROVE Ownership'
  <2>1. ASSUME NEW d \in Coros, Holding(d)' PROVE Kept(d)
    BY <1>Crash, <2>1 DEF Crash
  <2>. QED
    BY <2>1, HoldersKept
<1>CloseBegin. ASSUME NEW p \in Procs, CloseBegin(p) PROVE Ownership'
  <2>1. ASSUME NEW d \in Coros, Holding(d)' PROVE Kept(d)
    BY <1>CloseBegin, <2>1 DEF CloseBegin
  <2>. QED
    BY <2>1, HoldersKept
<1>CloseRequeue. ASSUME NEW p \in Procs, CloseRequeue(p) PROVE Ownership'
  <2>1. ASSUME NEW d \in Coros, Holding(d)' PROVE Kept(d)
    <3>1. /\ Holding(d) /\ job[d] \in Tasks
          /\ job'[d] = job[d] /\ host'[d[1]] = host[d[1]]
      BY <1>CloseRequeue, <2>1 DEF CloseRequeue
    <3>2. \/ Settled(job[d])
          \/ status[job[d]] = "running" /\ token[job[d]] = d[1] /\ pid[job[d]] = host[d[1]]
      BY <3>1 DEF Ownership, OwnInv
    <3>3. status[job[d]] = "running" => token[job[d]] # current[p]
      BY <1>CloseRequeue, <3>1, <3>2 DEF CloseRequeue, PhaseInv, Settled, Terminal
    <3>. QED
      BY <1>CloseRequeue, <3>1, <3>3 DEF CloseRequeue, Requeue, Released, Running
  <2>. QED
    BY <2>1, HoldersKept
<1>CloseFails. ASSUME NEW p \in Procs, CloseFails(p) PROVE Ownership'
  <2>1. ASSUME NEW d \in Coros, Holding(d)' PROVE Kept(d)
    BY <1>CloseFails, <2>1 DEF CloseFails
  <2>. QED
    BY <2>1, HoldersKept
<1>Start. ASSUME NEW p \in Procs, NEW k \in Tokens, Start(p, k) PROVE Ownership'
  <2>1. ASSUME NEW d \in Coros, Holding(d)' PROVE Kept(d)
    BY <1>Start, <2>1, DurableTasksAssumption DEF Start, UnbornInv
  <2>. QED
    BY <2>1, HoldersKept
<1>Add. ASSUME NEW p \in Procs, NEW t \in Tasks, Add(p, t) PROVE Ownership'
  <2>1. ASSUME NEW d \in Coros, Holding(d)' PROVE Kept(d)
    <3>1. /\ Holding(d) /\ job[d] \in Tasks
          /\ job'[d] = job[d] /\ host'[d[1]] = host[d[1]]
      BY <1>Add, <2>1 DEF Add
    <3>2. \/ Settled(job[d])
          \/ status[job[d]] = "running" /\ token[job[d]] = d[1] /\ pid[job[d]] = host[d[1]]
      BY <3>1 DEF Ownership, OwnInv
    <3>. QED
      BY <1>Add, <3>1, <3>2 DEF Add, Settled, Terminal
  <2>. QED
    BY <2>1, HoldersKept
<1>Cancel. ASSUME NEW p \in Procs, NEW t \in Tasks, Cancel(p, t) PROVE Ownership'
  <2>1. ASSUME NEW d \in Coros, Holding(d)' PROVE Kept(d)
    BY <1>Cancel, <2>1, PruneOnlySettled DEF Cancel, SettleRow, Terminal
  <2>. QED
    BY <2>1, HoldersKept
<1>DeliverNotice. ASSUME NEW p \in Procs, NEW t \in Tasks, DeliverNotice(p, t) PROVE Ownership'
  <2>1. ASSUME NEW d \in Coros, Holding(d)' PROVE Kept(d)
    BY <1>DeliverNotice, <2>1 DEF DeliverNotice
  <2>. QED
    BY <2>1, HoldersKept
<1>UpdateCommit. ASSUME NEW c \in Coros, UpdateCommit(c) PROVE Ownership'
  <2>1. ASSUME NEW d \in Coros, Holding(d)' PROVE Kept(d)
    <3>1. /\ Holding(d) /\ job[d] \in Tasks
          /\ job'[d] = job[d] /\ host'[d[1]] = host[d[1]]
      BY <1>UpdateCommit, <2>1 DEF UpdateCommit
    <3>2. \/ Settled(job[d])
          \/ status[job[d]] = "running" /\ token[job[d]] = d[1] /\ pid[job[d]] = host[d[1]]
      BY <3>1 DEF Ownership, OwnInv
    <3>3. CASE UNCHANGED <<token, pid, stamp>> /\ status' = Prune(status, stamp)
      BY <3>1, <3>3, PruneOnlySettled
    <3>4. CASE MayPublish(c) /\ SettleRow(job[c], call[c])
      <4>1. call[c] \in Terminal /\ job[c] \in Tasks
        BY <1>UpdateCommit DEF UpdateCommit, Terminal
      <4> DEFINE st == [status EXCEPT ![job[c]] = call[c]]
      <4>2. /\ st[job[d]] = (IF job[d] = job[c] THEN call[c] ELSE status[job[d]])
            /\ status' = Prune(st, stamp')
            /\ job[d] # job[c] => /\ token'[job[d]] = token[job[d]]
                                  /\ pid'[job[d]] = pid[job[d]]
        BY <3>1, <3>4, <4>1 DEF SettleRow
      <4> HIDE DEF st
      <4>3. \/ Prune(st, stamp')[job[d]] = st[job[d]]
            \/ Prune(st, stamp')[job[d]] = "pruned"
        BY <3>1, PruneOnlySettled
      <4>. QED
        BY <3>1, <4>1, <4>2, <4>3
    <3>. QED
      BY <1>UpdateCommit, <3>3, <3>4 DEF UpdateCommit
  <2>. QED
    BY <2>1, HoldersKept
<1>PollClaim. ASSUME NEW c \in Coros, PollClaim(c) PROVE Ownership'
  <2>1. ASSUME NEW d \in Coros, Holding(d)' PROVE Kept(d)
    BY <1>PollClaim, <2>1 DEF PollClaim, Submit
  <2>. QED
    BY <2>1, HoldersKept
<1>ClaimedNothing. ASSUME NEW c \in Coros, ClaimedNothing(c) PROVE Ownership'
  <2>1. ASSUME NEW d \in Coros, Holding(d)' PROVE Kept(d)
    BY <1>ClaimedNothing, <2>1 DEF ClaimedNothing
  <2>. QED
    BY <2>1, HoldersKept
<1>StartAgent. ASSUME NEW c \in Coros, StartAgent(c) PROVE Ownership'
  <2>1. ASSUME NEW d \in Coros, Holding(d)' PROVE Kept(d)
    BY <1>StartAgent, <2>1 DEF StartAgent
  <2>. QED
    BY <2>1, HoldersKept
<1>AgentReturns. ASSUME NEW c \in Coros, AgentReturns(c) PROVE Ownership'
  <2>1. ASSUME NEW d \in Coros, Holding(d)' PROVE Kept(d)
    BY <1>AgentReturns, <2>1 DEF AgentReturns, Submit
  <2>. QED
    BY <2>1, HoldersKept
<1>AgentRaises. ASSUME NEW c \in Coros, AgentRaises(c) PROVE Ownership'
  <2>1. ASSUME NEW d \in Coros, Holding(d)' PROVE Kept(d)
    BY <1>AgentRaises, <2>1 DEF AgentRaises, Submit
  <2>. QED
    BY <2>1, HoldersKept
<1>Published. ASSUME NEW c \in Coros, Published(c) PROVE Ownership'
  <2>1. ASSUME NEW d \in Coros, Holding(d)' PROVE Kept(d)
    BY <1>Published, <2>1 DEF Published, PublishedReply
  <2>. QED
    BY <2>1, HoldersKept
<1>NotPublished. ASSUME NEW c \in Coros, NotPublished(c) PROVE Ownership'
  <2>1. ASSUME NEW d \in Coros, Holding(d)' PROVE Kept(d)
    BY <1>NotPublished, <2>1 DEF NotPublished, FinishTask
  <2>. QED
    BY <2>1, HoldersKept
<1>Notify. ASSUME NEW c \in Coros, Notify(c) PROVE Ownership'
  <2>1. ASSUME NEW d \in Coros, Holding(d)' PROVE Kept(d)
    BY <1>Notify, <2>1 DEF Notify, FinishTask
  <2>. QED
    BY <2>1, HoldersKept
<1>Unwind. ASSUME NEW c \in Coros, Unwind(c) PROVE Ownership'
  <2>1. ASSUME NEW d \in Coros, Holding(d)' PROVE Kept(d)
    BY <1>Unwind, <2>1 DEF Unwind
  <2>. QED
    BY <2>1, HoldersKept
<1>CallFails. ASSUME NEW c \in Coros, CallFails(c) PROVE Ownership'
  <2>1. ASSUME NEW d \in Coros, Holding(d)' PROVE Kept(d)
    BY <1>CallFails, <2>1 DEF CallFails
  <2>. QED
    BY <2>1, HoldersKept
<1>FactoryFails. ASSUME NEW c \in Coros, FactoryFails(c) PROVE Ownership'
  <2>1. ASSUME NEW d \in Coros, Holding(d)' PROVE Kept(d)
    BY <1>FactoryFails, <2>1 DEF FactoryFails, Submit
  <2>. QED
    BY <2>1, HoldersKept
<1>ClaimCommit. ASSUME NEW c \in Coros, ClaimCommit(c) PROVE Ownership'
  <2>1. CASE /\ reply' = [reply EXCEPT ![c] = "refused"]
             /\ UNCHANGED <<status, token, pid, job>>
    <3>1. ASSUME NEW d \in Coros, Holding(d)' PROVE Kept(d)
      BY <1>ClaimCommit, <2>1, <3>1 DEF ClaimCommit
    <3>. QED
      BY <3>1, HoldersKept
  <2>2. ASSUME NEW t \in Enqueued(Requeue(status, Stale(IsUp))),
               reply' = [reply EXCEPT ![c] = "claimed"],
               job' = [job EXCEPT ![c] = t],
               status' = [Requeue(status, Stale(IsUp)) EXCEPT ![t] = "running"],
               token' = [Released(token, Stale(IsUp), NoOwner) EXCEPT ![t] = c[1]],
               pid' = [Released(pid, Stale(IsUp), NoPid) EXCEPT ![t] = host[c[1]]]
        PROVE  Ownership'
    <3>1. /\ t \in Tasks
          /\ status'[t] = "running" /\ token'[t] = c[1] /\ pid'[t] = host[c[1]]
      BY <2>2 DEF Enqueued, Requeue, Released
    <3>2. ~Settled(t) /\ (status[t] = "running" => t \in Stale(IsUp))
      BY <2>2 DEF Enqueued, Requeue, Settled, Terminal, Stale, Running
    <3>3. ASSUME NEW d \in Coros, d # c, Holding(d)'
          PROVE  Kept(d) /\ job[d] # t
      <4>1. /\ Holding(d) /\ job'[d] = job[d] /\ job[d] \in Tasks
            /\ host'[d[1]] = host[d[1]]
        <5>1. /\ UNCHANGED <<pc, host, proc, stopped>>
              /\ reply'[d] = reply[d] /\ job'[d] = job[d]
          BY <1>ClaimCommit, <2>2, <3>3 DEF ClaimCommit
        <5>. QED
          BY <3>3, <5>1
      <4>2. job[d] \notin Stale(IsUp)
        BY <4>1 DEF Ownership, OwnInv, Settled, Stale, Running, IsUp, Terminal
      <4>3. job[d] # t
        BY <3>2, <4>1, <4>2 DEF Ownership, OwnInv
      <4>. QED
        BY <2>2, <4>1, <4>2, <4>3 DEF Requeue, Released
    <3>4. job'[c] = t /\ host'[c[1]] = host[c[1]]
      BY <1>ClaimCommit, <2>2 DEF ClaimCommit
    <3>5. OwnInv'
      <4> SUFFICES ASSUME NEW d \in Coros, Holding(d)'
                   PROVE  \/ Settled(job[d])'
                          \/ /\ status'[job'[d]] = "running"
                             /\ token'[job'[d]] = d[1]
                             /\ pid'[job'[d]] = host'[d[1]]
        BY DEF OwnInv
      <4>1. CASE d = c
        BY <3>1, <3>4, <4>1
      <4>2. CASE d # c
        <5>1. /\ Kept(d)
              /\ \/ Settled(job[d])
                 \/ status[job[d]] = "running" /\ token[job[d]] = d[1] /\ pid[job[d]] = host[d[1]]
          BY <3>3, <4>2 DEF Ownership, OwnInv
        <5>. QED
          BY <5>1 DEF Settled
      <4>. QED
        BY <4>1, <4>2
    <3>6. UniqueInv'
      <4> SUFFICES ASSUME NEW d \in Coros, NEW e \in Coros, Holding(d)', Holding(e)',
                          job'[d] = job'[e]
                   PROVE  d = e
        BY DEF UniqueInv
      <4>1. CASE d # c /\ e # c
        BY <3>3, <4>1 DEF Ownership, UniqueInv
      <4>. QED
        BY <3>3, <3>4, <4>1
    <3>. QED
      BY <3>5, <3>6 DEF Ownership
  <2>. QED
    BY <1>ClaimCommit, <2>1, <2>2 DEF ClaimCommit, Oldest
<1>u. ASSUME UNCHANGED vars PROVE Ownership'
  <2>1. ASSUME NEW d \in Coros, Holding(d)' PROVE Kept(d)
    BY <1>u, <2>1 DEF vars
  <2>. QED
    BY <2>1, HoldersKept
<1>. QED
  BY <1>Boot, <1>Crash, <1>CloseBegin, <1>CloseRequeue, <1>CloseFails, <1>Start, <1>Add,
     <1>Cancel, <1>DeliverNotice, <1>UpdateCommit, <1>PollClaim, <1>ClaimedNothing,
        <1>StartAgent, <1>AgentReturns, <1>AgentRaises, <1>Published, <1>NotPublished,
           <1>Notify, <1>Unwind, <1>CallFails, <1>FactoryFails, <1>ClaimCommit, <1>u DEF Next,
              Worker
-----------------------------------------------------------------------------
(* A worker's entry of _running survives the registrations and cleanups of *)
(* the others: no other holder has its task (UniqueInv), and Unregister    *)
(* removes only the caller's entry.                                        *)
LEMMA RegistryStep ==
    Control /\ Ownership /\ RunningAgentIsRegistered /\ [Next]_vars
        => RunningAgentIsRegistered'
<1> SUFFICES ASSUME Control, Ownership, RunningAgentIsRegistered, [Next]_vars,
                    NEW d \in Coros, (Live(d) /\ pc[d] = "run")'
             PROVE  registry'[host'[d[1]]][job'[d]] = d
  BY DEF RunningAgentIsRegistered
<1> USE CoroToken DEF Control, TypeOK, Live, HostUp, Up,
       table, managers, generations, workers, callbacks, bounds
<1>1. CASE \E c \in Coros : StartAgent(c)
  <2> PICK c \in Coros : StartAgent(c)
    BY <1>1
  <2>1. CASE d = c
    BY <2>1 DEF StartAgent, JobInv
  <2>2. CASE d # c
    <3>1. /\ Live(d) /\ pc[d] = "run" /\ job'[d] = job[d] /\ host' = host
          /\ Live(c) /\ pc[c] = "claim" /\ reply[c] = "claimed"
      BY <2>2 DEF StartAgent
    <3>2. job[d] # job[c]
      BY <2>2, <3>1 DEF Ownership, UniqueInv, Holding
    <3>3. registry[host[d[1]]][job[d]] = d
      BY <3>1 DEF RunningAgentIsRegistered
    <3>. QED
      BY <3>1, <3>2, <3>3 DEF StartAgent, JobInv
  <2>. QED
    BY <2>1, <2>2
<1>2. CASE \E c \in Coros : NotPublished(c) \/ Notify(c) \/ Unwind(c)
  <2> PICK c \in Coros : NotPublished(c) \/ Notify(c) \/ Unwind(c)
    BY <1>2
  <2>1. /\ d # c /\ Live(d) /\ pc[d] = "run" /\ job'[d] = job[d] /\ host' = host
        /\ Unregister(c)
    BY DEF NotPublished, Notify, Unwind, FinishTask
  <2>2. registry[host[d[1]]][job[d]] = d /\ job[d] \in Tasks
    BY <2>1 DEF RunningAgentIsRegistered, JobInv
  <2>. QED
    BY <2>1, <2>2 DEF Unregister
<1>3. CASE \E p \in Procs : Boot(p) \/ Crash(p) \/ CloseBegin(p) \/ CloseRequeue(p) \/ CloseFails(p)
  <2> PICK p \in Procs : Boot(p) \/ Crash(p) \/ CloseBegin(p) \/ CloseRequeue(p) \/ CloseFails(p)
    BY <1>3
  <2>1. Live(d) /\ pc[d] = "run" /\ UNCHANGED <<job, host, registry>>
    <3>1. CASE Boot(p)
      BY <3>1 DEF Boot, UnbornInv
    <3>2. CASE Crash(p)
      BY <3>2 DEF Crash
    <3>3. CASE CloseBegin(p) \/ CloseRequeue(p) \/ CloseFails(p)
      BY <3>3 DEF CloseBegin, CloseRequeue, CloseFails
    <3>. QED
      BY <3>1, <3>2, <3>3
  <2>. QED
    BY <2>1 DEF RunningAgentIsRegistered
<1>4. CASE \E p \in Procs : \/ \E k \in Tokens : Start(p, k)
                            \/ \E t \in Tasks : Add(p, t) \/ Cancel(p, t) \/ DeliverNotice(p, t)
  <2>1. /\ Live(d) /\ pc[d] = "run" /\ UNCHANGED <<job, registry>>
        /\ host'[d[1]] = host[d[1]]
    <3>1. CASE \E p \in Procs, k \in Tokens : Start(p, k)
      BY <3>1 DEF Start
    <3>2. CASE \E p \in Procs, t \in Tasks : Add(p, t) \/ Cancel(p, t) \/ DeliverNotice(p, t)
      BY <3>2 DEF Add, Cancel, DeliverNotice
    <3>. QED
      BY <1>4, <3>1, <3>2
  <2>. QED
    BY <2>1 DEF RunningAgentIsRegistered
<1>5. CASE \E c \in Coros :
             \/ ClaimCommit(c) \/ UpdateCommit(c) \/ CallFails(c)
             \/ PollClaim(c) \/ ClaimedNothing(c) \/ FactoryFails(c)
             \/ AgentReturns(c) \/ AgentRaises(c) \/ Published(c)
  <2> PICK c \in Coros :
             \/ ClaimCommit(c) \/ UpdateCommit(c) \/ CallFails(c)
             \/ PollClaim(c) \/ ClaimedNothing(c) \/ FactoryFails(c)
             \/ AgentReturns(c) \/ AgentRaises(c) \/ Published(c)
    BY <1>5
  <2>1. UNCHANGED <<host, registry, proc, stopped>>
    BY DEF ClaimCommit, UpdateCommit, CallFails, PollClaim, ClaimedNothing, FactoryFails,
           AgentReturns, AgentRaises, Published
  <2>2. pc[d] = "run" /\ job'[d] = job[d]
    <3>1. CASE ClaimCommit(c)
      BY <3>1 DEF ClaimCommit, CallInv
    <3>2. CASE UpdateCommit(c) \/ CallFails(c)
      BY <3>2 DEF UpdateCommit, CallFails
    <3>3. CASE PollClaim(c) \/ ClaimedNothing(c) \/ FactoryFails(c) \/ AgentReturns(c)
               \/ AgentRaises(c) \/ Published(c)
      BY <3>3 DEF PollClaim, ClaimedNothing, FactoryFails, AgentReturns, AgentRaises,
                  Published, Submit
    <3>. QED
      BY <3>1, <3>2, <3>3
  <2>. QED
    BY <2>1, <2>2 DEF RunningAgentIsRegistered
<1>6. CASE UNCHANGED vars
  BY <1>6 DEF vars, RunningAgentIsRegistered
<1>. QED
  BY <1>1, <1>2, <1>3, <1>4, <1>5, <1>6 DEF Next, Worker

(* IInv is an invariant.                                                   *)
LEMMA IInvariant == Spec => []IInv
<1>1. IInv /\ [Next]_vars => IInv'
  BY ControlStep, OwnershipStep, RegistryStep DEF IInv, Control, Ownership
<1>. QED
  BY IInvInit, <1>1, PTL DEF Spec

(* Whatever restarts, crashes, cancellations and failing database calls    *)
(* happen, no task is executed by two workers at once.                     *)
THEOREM ExclusiveExecutionHolds == Spec => []ExclusiveExecution
<1>1. IInv => ExclusiveExecution
  BY DEF IInv, UniqueInv, ExclusiveExecution, Executing, Holding
<1>. QED
  BY IInvariant, <1>1, PTL

(* The agent a live worker runs is the one /task cancel finds.             *)
THEOREM RunningAgentIsRegisteredHolds == Spec => []RunningAgentIsRegistered
<1>1. IInv => RunningAgentIsRegistered
  BY DEF IInv
<1>. QED
  BY IInvariant, <1>1, PTL
-----------------------------------------------------------------------------
(*       Rows in hand and callbacks owed: a second inductive invariant      *)

(* A worker that is gone although its process is up was told to stop.      *)
DoneInv == \A c \in Coros : pc[c] = "done" /\ HostUp(c) => stopped[c[1]]

(* A row's owner is a generation that was started.                         *)
TokenInv == \A t \in Tasks : token[t] \in Tokens => host[token[t]] \in Procs

(* The worker has t and the call that settles it, if due, is still to      *)
(* commit.                                                                 *)
InHand(c, t) ==
    /\ job[c] = t
    /\ \/ pc[c] = "claim" /\ reply[c] = "claimed"
       \/ pc[c] = "run"
       \/ pc[c] = "complete" /\ call[c] = "completed"
       \/ pc[c] = "fail" /\ call[c] = "failed"

(* ActiveRowHeld, with what the worker still has to do.                    *)
HeldInv ==
    \A t \in Tasks : \A k \in Tokens :
        /\ status[t] = "running" /\ token[t] = k /\ ~stopped[k]
        /\ host[k] \in Procs /\ Up(host[k])
        /\ faults = 0
        => \E s \in Slots : InHand(<<k, s>>, t)

(* Whoever settled t owes its callback: a worker that read "updated", or   *)
(* the notification task of the process that cancelled.                    *)
WorkerOwes(c, t) == reply[c] = "updated" /\ job[c] = t
ProcessOwes(p, t) == <<p, t>> \in pending

NothingOwed(t) ==
    /\ \A c \in Coros : ~WorkerOwes(c, t)
    /\ \A p \in Procs : ~ProcessOwes(p, t)

OneDebtor(t) ==
    /\ \A c, d \in Coros : WorkerOwes(c, t) /\ WorkerOwes(d, t) => c = d
    /\ \A p, q \in Procs : ProcessOwes(p, t) /\ ProcessOwes(q, t) => p = q
    /\ \A c \in Coros : \A p \in Procs : ~(WorkerOwes(c, t) /\ ProcessOwes(p, t))

(* A task is settled once, by one debtor, who pays once.                   *)
PaidOnce(t) ==
    /\ ~Settled(t) => NothingOwed(t) /\ notices[t] = 0
    /\ notices[t] <= 1
    /\ notices[t] = 1 => NothingOwed(t)
    /\ OneDebtor(t)

NoticeInv == \A t \in Tasks : PaidOnce(t)

RowsInv == DoneInv /\ TokenInv /\ HeldInv /\ NoticeInv

(* At the start there is no row, no worker and no debt.                    *)
LEMMA RowsInit == Init => RowsInv
BY DurableTasksAssumption
   DEF Init, RowsInv, DoneInv, TokenInv, HeldInv, NoticeInv, PaidOnce, NothingOwed, OneDebtor,
       WorkerOwes, ProcessOwes, HostUp, Settled, Terminal

(* Only close() stops a generation, and only Start and Crash touch the     *)
(* workers of others.                                                      *)
LEMMA DoneStep == Control /\ DoneInv /\ [Next]_vars => DoneInv'
<1> SUFFICES ASSUME Control, DoneInv, [Next]_vars,
                    NEW d \in Coros, (pc[d] = "done" /\ HostUp(d))'
             PROVE  stopped'[d[1]]
  BY DEF DoneInv
<1> USE CoroToken DEF Control, TypeOK, DoneInv, HostUp, Up,
       table, managers, generations, workers, callbacks, bounds
<1>1. ASSUME NEW p \in Procs,
             Boot(p) \/ Crash(p) \/ CloseBegin(p) \/ CloseRequeue(p) \/ CloseFails(p)
      PROVE  stopped'[d[1]]
  BY <1>1, DurableTasksAssumption
     DEF Boot, Crash, CloseBegin, CloseRequeue, CloseFails, UnbornInv
<1>2. ASSUME NEW p \in Procs, NEW k \in Tokens, Start(p, k) PROVE stopped'[d[1]]
  BY <1>2 DEF Start
<1>3. ASSUME NEW p \in Procs, NEW t \in Tasks, Add(p, t) \/ Cancel(p, t) \/ DeliverNotice(p, t)
      PROVE  stopped'[d[1]]
  BY <1>3 DEF Add, Cancel, DeliverNotice
<1>4. ASSUME NEW c \in Coros, ClaimCommit(c) \/ UpdateCommit(c) \/ CallFails(c) PROVE stopped'[d[1]]
  BY <1>4 DEF ClaimCommit, UpdateCommit, CallFails
<1>5. ASSUME NEW c \in Coros, Unwind(c) PROVE stopped'[d[1]]
  BY <1>5 DEF Unwind
<1>6. ASSUME NEW c \in Coros,
             \/ PollClaim(c) \/ ClaimedNothing(c) \/ StartAgent(c) \/ AgentReturns(c)
             \/ AgentRaises(c) \/ Published(c) \/ NotPublished(c) \/ Notify(c)
             \/ FactoryFails(c)
      PROVE  stopped'[d[1]]
  BY <1>6 DEF PollClaim, ClaimedNothing, StartAgent, AgentReturns, AgentRaises, Published,
              NotPublished, Notify, FactoryFails, Submit, FinishTask
<1>7. CASE UNCHANGED vars
  BY <1>7 DEF vars
<1>. QED
  BY <1>1, <1>2, <1>3, <1>4, <1>5, <1>6, <1>7 DEF Next, Worker

(* A row gets its owner from a worker, whose generation has a process.     *)
LEMMA TokenStep == Control /\ TokenInv /\ [Next]_vars => TokenInv'
<1> SUFFICES ASSUME Control, TokenInv, [Next]_vars,
                    NEW t \in Tasks, token'[t] \in Tokens
             PROVE  host'[token'[t]] \in Procs
  BY DEF TokenInv
<1> USE CoroToken, DurableTasksAssumption DEF Control, TypeOK, TokenInv,
       table, managers, generations, workers, callbacks, bounds
<1>1. ASSUME NEW c \in Coros, ClaimCommit(c) PROVE host'[token'[t]] \in Procs
  BY <1>1 DEF ClaimCommit, HostUp, Released, Oldest, Enqueued
<1>2. ASSUME NEW p \in Procs, NEW k \in Tokens, Start(p, k) PROVE host'[token'[t]] \in Procs
  BY <1>2 DEF Start
<1>3. ASSUME UNCHANGED host, token'[t] \in {token[t], NoOwner}
      PROVE  host'[token'[t]] \in Procs
  BY <1>3
<1>4. ASSUME NEW p \in Procs,
             Boot(p) \/ Crash(p) \/ CloseBegin(p) \/ CloseRequeue(p) \/ CloseFails(p)
      PROVE  UNCHANGED host /\ token'[t] \in {token[t], NoOwner}
  BY <1>4 DEF Boot, Crash, CloseBegin, CloseRequeue, CloseFails, Released
<1>5. ASSUME NEW p \in Procs, NEW u \in Tasks, Add(p, u) \/ Cancel(p, u) \/ DeliverNotice(p, u)
      PROVE  UNCHANGED host /\ token'[t] \in {token[t], NoOwner}
  BY <1>5 DEF Add, Cancel, DeliverNotice, SettleRow
<1>6. ASSUME NEW c \in Coros, UpdateCommit(c)
      PROVE  UNCHANGED host /\ token'[t] \in {token[t], NoOwner}
  BY <1>6 DEF UpdateCommit, SettleRow
<1>7. ASSUME NEW c \in Coros,
             \/ PollClaim(c) \/ ClaimedNothing(c) \/ StartAgent(c) \/ AgentReturns(c)
             \/ AgentRaises(c) \/ Published(c) \/ NotPublished(c) \/ Notify(c)
             \/ FactoryFails(c) \/ CallFails(c) \/ Unwind(c)
      PROVE  UNCHANGED <<host, token>>
  BY <1>7 DEF PollClaim, ClaimedNothing, StartAgent, AgentReturns, AgentRaises, Published,
              NotPublished, Notify, FactoryFails, CallFails, Unwind
<1>8. CASE UNCHANGED vars
  BY <1>3, <1>8 DEF vars
<1>. QED
  BY <1>1, <1>2, <1>3, <1>4, <1>5, <1>6, <1>7, <1>8 DEF Next, Worker

(* A settling update leaves its row settled, and the others as they were   *)
(* but for those retention deletes.                                        *)
LEMMA SettleRowEffect ==
    ASSUME NEW u \in Tasks, NEW outcome \in Terminal, SettleRow(u, outcome),
           NEW t \in Tasks, TypeOK
    PROVE  /\ t = u => status'[t] \in {outcome, "pruned"} /\ token'[t] = NoOwner
           /\ t # u => /\ token'[t] = token[t]
                       /\ \/ status'[t] = status[t]
                          \/ status[t] \in Terminal /\ status'[t] = "pruned"
<1> DEFINE settled == [status EXCEPT ![u] = outcome]
<1>1. settled[u] = outcome /\ (t # u => settled[t] = status[t])
  BY DEF TypeOK
<1>2. status' = Prune(settled, stamp')
  BY DEF SettleRow
<1> HIDE DEF settled
<1>3. \/ status'[t] = settled[t]
      \/ settled[t] \in Terminal /\ status'[t] = "pruned"
  BY <1>2, PruneOnlySettled
<1>. QED
  BY <1>1, <1>3 DEF SettleRow, TypeOK

(* The row of a serving generation, as ActiveRowHeld describes it.         *)
Serving(t, k) ==
    /\ status[t] = "running" /\ token[t] = k /\ ~stopped[k]
    /\ host[k] \in Procs /\ Up(host[k])
    /\ faults = 0

(* A claimed row is in its claimer's hands; whoever has a row in hand      *)
(* keeps it until the row is settled, the generation ends or a call fails. *)
LEMMA HeldStep == Control /\ DoneInv /\ TokenInv /\ HeldInv /\ [Next]_vars => HeldInv'
<1> SUFFICES ASSUME Control, DoneInv, TokenInv, HeldInv, [Next]_vars,
                    NEW t \in Tasks, NEW k \in Tokens, Serving(t, k)'
             PROVE  \E s \in Slots : InHand(<<k, s>>, t)'
  BY DEF HeldInv, Serving
<1> DEFINE Goal == \E s \in Slots : InHand(<<k, s>>, t)'
<1>1. ASSUME Serving(t, k), \A s \in Slots : InHand(<<k, s>>, t) => InHand(<<k, s>>, t)'
      PROVE  Goal
  BY <1>1 DEF HeldInv, Serving
<1>2. \A s \in Slots : <<k, s>> \in Coros
  BY DEF Coros
<1>3. ASSUME NEW lost \in SUBSET Tasks, NEW up,
             status' = Prune(Requeue(status, lost), up) \/ status' = Requeue(status, lost),
             token' = Released(token, lost, NoOwner)
      PROVE  status[t] = "running" /\ token[t] = k
  <2>1. Requeue(status, lost)[t] = "running"
    BY <1>3, PruneOnlySettled DEF Serving, Terminal
  <2>. QED
    BY <1>3, <2>1 DEF Serving, Requeue, Released
<1> USE CoroToken DEF Control, TypeOK,
       table, managers, generations, workers, callbacks, bounds
<1>Boot. ASSUME NEW p \in Procs, Boot(p) PROVE Goal
  <2>1. status[t] = "running" /\ token[t] = k
    BY <1>3, <1>Boot DEF Boot, Stale, Running
  <2>. QED
    BY <1>1, <2>1, <1>Boot DEF Boot, Serving, Up, UnbornInv, InHand
<1>CloseRequeue. ASSUME NEW p \in Procs, CloseRequeue(p) PROVE Goal
  <2>1. status[t] = "running" /\ token[t] = k
    BY <1>3, <1>CloseRequeue DEF CloseRequeue, Running
  <2>. QED
    BY <1>1, <2>1, <1>CloseRequeue DEF CloseRequeue, Serving, Up, InHand
<1>Crash. ASSUME NEW p \in Procs, Crash(p) PROVE Goal
  BY <1>1, <1>2, <1>Crash DEF Crash, Serving, Up, InHand
<1>CloseBegin. ASSUME NEW p \in Procs, CloseBegin(p) PROVE Goal
  <2>1. ~stopped[k]
    BY <1>CloseBegin DEF CloseBegin, Serving
  <2>. QED
    BY <1>1, <2>1, <1>CloseBegin DEF CloseBegin, Serving, Up, InHand
<1>Start. ASSUME NEW p \in Procs, NEW j \in Tokens, Start(p, j) PROVE Goal
  <2>1. j # k
    BY <1>Start, DurableTasksAssumption DEF Start, Serving, TokenInv
  <2>. QED
    BY <1>1, <1>2, <2>1, <1>Start DEF Start, Serving, Up, InHand
<1>Add. ASSUME NEW p \in Procs, NEW u \in Tasks, Add(p, u) PROVE Goal
  BY <1>1, <1>Add DEF Add, Serving, Up, InHand
<1>Cancel. ASSUME NEW p \in Procs, NEW u \in Tasks, Cancel(p, u) PROVE Goal
  <2>1. t # u /\ status[t] = "running"
    <3>1. "canceled" \in Terminal /\ SettleRow(u, "canceled")
      BY <1>Cancel DEF Cancel, Terminal
    <3>. QED
      BY <3>1, SettleRowEffect DEF Serving, Terminal
  <2>. QED
    BY <1>1, <2>1, <1>Cancel DEF Cancel, SettleRow, Serving, Up, InHand
<1>DeliverNotice. ASSUME NEW p \in Procs, NEW u \in Tasks, DeliverNotice(p, u) PROVE Goal
  BY <1>1, <1>DeliverNotice DEF DeliverNotice, Serving, Up, InHand
<1>ClaimCommit. ASSUME NEW c \in Coros, ClaimCommit(c) PROVE Goal
  <2>1. /\ ~InHand(c, t) /\ UNCHANGED <<pc, host, proc, stopped, faults>>
        /\ \A d \in Coros : d # c => call'[d] = call[d]
    BY <1>ClaimCommit DEF ClaimCommit, CallInv, InHand
  <2>2. CASE /\ reply' = [reply EXCEPT ![c] = "refused"]
             /\ UNCHANGED <<status, token, pid, job>>
    BY <1>1, <1>2, <2>1, <2>2 DEF Serving, Up, InHand
  <2>3. ASSUME NEW u \in Enqueued(Requeue(status, Stale(IsUp))),
               reply' = [reply EXCEPT ![c] = "claimed"],
               job' = [job EXCEPT ![c] = u],
               status' = [Requeue(status, Stale(IsUp)) EXCEPT ![u] = "running"],
               token' = [Released(token, Stale(IsUp), NoOwner) EXCEPT ![u] = c[1]]
        PROVE  Goal
    <3>1. CASE t = u
      <4>1. c[1] = k /\ c = <<k, c[2]>> /\ c[2] \in Slots
        BY <2>3, <3>1 DEF Serving, Coros, Released
      <4>2. pc[c] = "claim"
        BY <1>ClaimCommit, <2>1, <4>1 DEF ClaimCommit, CallInv, DoneInv, Serving
      <4>3. InHand(c, t)'
        BY <2>1, <2>3, <3>1, <4>2 DEF InHand
      <4>. QED
        BY <4>1, <4>3
    <3>2. CASE t # u
      <4>1. status[t] = "running" /\ token[t] = k
        BY <2>3, <3>2 DEF Serving, Requeue, Released
      <4>. QED
        BY <1>1, <1>2, <2>1, <2>3, <4>1 DEF Serving, Up, InHand
    <3>. QED
      BY <3>1, <3>2
  <2>. QED
    BY <1>ClaimCommit, <2>2, <2>3 DEF ClaimCommit, Oldest
<1>UpdateCommit. ASSUME NEW c \in Coros, UpdateCommit(c) PROVE Goal
  <2>1. /\ UNCHANGED <<pc, job, host, proc, stopped, faults>>
        /\ \A d \in Coros : d # c => call'[d] = call[d] /\ reply'[d] = reply[d]
    BY <1>UpdateCommit DEF UpdateCommit
  <2>2. CASE MayPublish(c) /\ SettleRow(job[c], call[c])
    <3>1. call[c] \in Terminal /\ job[c] \in Tasks
      BY <1>UpdateCommit DEF UpdateCommit, JobInv, Terminal
    <3>2. t # job[c] /\ status[t] = "running" /\ token[t] = k
      BY <2>2, <3>1, SettleRowEffect DEF Serving, Terminal
    <3>. QED
      BY <1>1, <1>2, <2>1, <3>2 DEF Serving, Up, InHand
  <2>3. CASE /\ ~MayPublish(c)
             /\ status' = Prune(status, stamp) /\ UNCHANGED <<token, pid, stamp>>
    <3>1. status[t] = "running" /\ token[t] = k
      BY <2>3, PruneOnlySettled DEF Serving, Terminal
    <3>2. ASSUME NEW s \in Slots, InHand(<<k, s>>, t) PROVE <<k, s>> # c
      <4>1. <<k, s>>[1] = k /\ job[<<k, s>>] = t
        BY <3>2 DEF InHand
      <4>. QED
        BY <2>3, <3>1, <4>1 DEF MayPublish
    <3>. QED
      BY <1>1, <1>2, <2>1, <3>1, <3>2 DEF Serving, Up, InHand
  <2>. QED
    BY <1>UpdateCommit, <2>2, <2>3 DEF UpdateCommit
<1>CloseFails. ASSUME NEW p \in Procs, CloseFails(p) PROVE Goal
  BY <1>CloseFails DEF CloseFails, Serving
<1>CallFails. ASSUME NEW c \in Coros, CallFails(c) PROVE Goal
  BY <1>CallFails DEF CallFails, Serving
<1>Unwind. ASSUME NEW c \in Coros, Unwind(c) PROVE Goal
  <2>1. Serving(t, k) /\ c[1] # k
    BY <1>Unwind DEF Unwind, Serving, Up
  <2>2. ASSUME NEW s \in Slots, InHand(<<k, s>>, t) PROVE InHand(<<k, s>>, t)'
    <3>1. <<k, s>> # c
      BY <2>1
    <3>. QED
      BY <1>2, <2>2, <3>1, <1>Unwind DEF Unwind, InHand
  <2>. QED
    BY <1>1, <2>1, <2>2
<1>Worker. ASSUME NEW c \in Coros,
                  \/ PollClaim(c) \/ ClaimedNothing(c) \/ StartAgent(c) \/ FactoryFails(c)
                  \/ AgentReturns(c) \/ AgentRaises(c)
                  \/ Published(c) \/ NotPublished(c) \/ Notify(c)
           PROVE  Goal
  <2>1. Serving(t, k) /\ \A d \in Coros : d # c /\ InHand(d, t) => InHand(d, t)'
    BY <1>Worker DEF PollClaim, ClaimedNothing, StartAgent, FactoryFails, AgentReturns,
       AgentRaises, Published, NotPublished, Notify, Submit, FinishTask, Serving, Up, InHand
  <2>2. InHand(c, t) => InHand(c, t)'
    <3>1. CASE StartAgent(c) \/ FactoryFails(c) \/ AgentReturns(c) \/ AgentRaises(c)
      BY <3>1 DEF StartAgent, FactoryFails, AgentReturns, AgentRaises, Submit, InHand
    <3>2. CASE PollClaim(c) \/ ClaimedNothing(c) \/ Published(c) \/ NotPublished(c) \/ Notify(c)
      BY <3>2 DEF PollClaim, ClaimedNothing, Published, PublishedReply, NotPublished, Notify,
         CallInv, InHand
    <3>. QED
      BY <1>Worker, <3>1, <3>2
  <2>. QED
    BY <1>1, <1>2, <2>1, <2>2
<1>u. CASE UNCHANGED vars
  BY <1>1, <1>u DEF vars, Serving, Up, InHand
<1>. QED
  BY <1>Boot, <1>Crash, <1>CloseBegin, <1>CloseRequeue, <1>CloseFails, <1>Start, <1>Add, <1>Cancel,
     <1>DeliverNotice, <1>ClaimCommit, <1>UpdateCommit, <1>CallFails, <1>Worker, <1>Unwind, <1>u
     DEF Next, Worker

(* A row is settled once and stays settled, and a step that settles it     *)
(* makes one debtor; a step that calls back pays the debt.                 *)
LEMMA NoticeStep == Control /\ NoticeInv /\ [Next]_vars => NoticeInv'
<1> SUFFICES ASSUME Control, NoticeInv, [Next]_vars, NEW t \in Tasks PROVE PaidOnce(t)'
  BY DEF NoticeInv
<1>0. PaidOnce(t)
  BY DEF NoticeInv
<1>1. ASSUME notices'[t] = notices[t], Settled(t) => Settled(t)',
             \A c \in Coros : WorkerOwes(c, t)' => WorkerOwes(c, t),
             \A p \in Procs : ProcessOwes(p, t)' => ProcessOwes(p, t)
      PROVE  PaidOnce(t)'
  BY <1>0, <1>1 DEF PaidOnce, NothingOwed, OneDebtor
<1>2. ASSUME NEW c \in Coros, notices'[t] = notices[t], ~Settled(t), Settled(t)',
             \A d \in Coros : WorkerOwes(d, t)' => d = c,
             UNCHANGED pending
      PROVE  PaidOnce(t)'
  BY <1>0, <1>2 DEF PaidOnce, NothingOwed, OneDebtor, ProcessOwes
<1>3. ASSUME NEW p \in Procs, notices'[t] = notices[t], ~Settled(t), Settled(t)',
             \A q \in Procs : ProcessOwes(q, t)' => ProcessOwes(q, t) \/ q = p,
             \A d \in Coros : WorkerOwes(d, t)' => WorkerOwes(d, t)
      PROVE  PaidOnce(t)'
  BY <1>0, <1>3 DEF PaidOnce, NothingOwed, OneDebtor
<1>4. ASSUME notices'[t] = notices[t] + 1, Settled(t)', NothingOwed(t)', ~NothingOwed(t)
      PROVE  PaidOnce(t)'
  <2>0. notices[t] \in Nat
    BY DEF Control, TypeOK
  <2>1. notices[t] = 0
    BY <1>0, <1>4, <2>0 DEF PaidOnce
  <2>. QED
    BY <1>4, <2>1 DEF PaidOnce, NothingOwed, OneDebtor
<1>5. ASSUME NEW st, NEW sp, \A u \in Tasks : status[u] \in Terminal \cup {"pruned"} => st[u] = status[u],
             status' = Prune(st, sp)
      PROVE  Settled(t) => Settled(t)'
  BY <1>5, PruneOnlySettled DEF Settled
<1> USE DEF Control, TypeOK, table, managers, generations, workers, callbacks, bounds
<1>Boot. ASSUME NEW p \in Procs, Boot(p) PROVE PaidOnce(t)'
  <2>1. Settled(t) => Settled(t)'
    BY <1>5, <1>Boot DEF Boot, Stale, Running, Requeue, Terminal
  <2>. QED
    BY <1>1, <2>1, <1>Boot DEF Boot, WorkerOwes, ProcessOwes
<1>CloseRequeue. ASSUME NEW p \in Procs, CloseRequeue(p) PROVE PaidOnce(t)'
  <2>1. Settled(t) => Settled(t)'
    BY <1>CloseRequeue DEF CloseRequeue, Running, Requeue, Settled, Terminal
  <2>. QED
    BY <1>1, <2>1, <1>CloseRequeue DEF CloseRequeue, WorkerOwes, ProcessOwes
<1>Process. ASSUME NEW p \in Procs, Crash(p) \/ CloseBegin(p) \/ CloseFails(p) PROVE PaidOnce(t)'
  BY <1>1, <1>Process DEF Crash, CloseBegin, CloseFails, WorkerOwes, ProcessOwes, Settled
<1>Start. ASSUME NEW p \in Procs, NEW k \in Tokens, Start(p, k) PROVE PaidOnce(t)'
  BY <1>1, <1>Start DEF Start, WorkerOwes, ProcessOwes, Settled
<1>Add. ASSUME NEW p \in Procs, NEW u \in Tasks, Add(p, u) PROVE PaidOnce(t)'
  BY <1>1, <1>Add DEF Add, WorkerOwes, ProcessOwes, Settled, Terminal
<1>Cancel. ASSUME NEW p \in Procs, NEW u \in Tasks, Cancel(p, u) PROVE PaidOnce(t)'
  <2>1. "canceled" \in Terminal /\ SettleRow(u, "canceled")
    BY <1>Cancel DEF Cancel, Terminal
  <2>2. UNCHANGED <<notices, reply, job>> /\ pending' = pending \cup {<<p, u>>}
    BY <1>Cancel DEF Cancel
  <2>3. CASE t = u
    <3>1. ~Settled(t) /\ Settled(t)'
      BY <2>1, <2>3, <1>Cancel, SettleRowEffect DEF Cancel, Cancelable, Settled, Terminal
    <3>. QED
      BY <1>3, <2>2, <2>3, <3>1 DEF WorkerOwes, ProcessOwes
  <2>4. CASE t # u
    <3>1. Settled(t) => Settled(t)'
      BY <2>1, <2>4, SettleRowEffect DEF Settled
    <3>. QED
      BY <1>1, <2>2, <2>4, <3>1 DEF WorkerOwes, ProcessOwes
  <2>. QED
    BY <2>3, <2>4
<1>DeliverNotice. ASSUME NEW p \in Procs, NEW u \in Tasks, DeliverNotice(p, u) PROVE PaidOnce(t)'
  <2>1. UNCHANGED <<status, reply, job>> /\ pending' = pending \ {<<p, u>>}
    BY <1>DeliverNotice DEF DeliverNotice
  <2>2. CASE t = u /\ status[t] \in Terminal /\ notices' = [notices EXCEPT ![t] = @ + 1]
    <3>1. ProcessOwes(p, t)
      BY <2>2, <1>DeliverNotice DEF DeliverNotice, ProcessOwes
    <3>2. NothingOwed(t)'
      BY <1>0, <2>1, <2>2, <3>1 DEF PaidOnce, OneDebtor, NothingOwed, WorkerOwes, ProcessOwes
    <3>. QED
      BY <1>4, <2>1, <2>2, <3>1, <3>2 DEF NothingOwed, Settled
  <2>3. CASE notices'[t] = notices[t]
    BY <1>1, <2>1, <2>3 DEF WorkerOwes, ProcessOwes, Settled
  <2>. QED
    BY <2>2, <2>3, <1>DeliverNotice DEF DeliverNotice
<1>ClaimCommit. ASSUME NEW c \in Coros, ClaimCommit(c) PROVE PaidOnce(t)'
  <2>1. Settled(t) => Settled(t)'
    <3>1. Settled(t) => t \notin Stale(IsUp) /\ Requeue(status, Stale(IsUp))[t] = status[t]
      BY DEF Stale, Running, Requeue, Settled, Terminal
    <3>2. Settled(t) => t \notin Enqueued(Requeue(status, Stale(IsUp)))
      BY <3>1 DEF Enqueued, Settled, Terminal
    <3>3. CASE UNCHANGED status
      BY <3>3 DEF Settled
    <3>4. ASSUME NEW u \in Enqueued(Requeue(status, Stale(IsUp))),
                 status' = [Requeue(status, Stale(IsUp)) EXCEPT ![u] = "running"]
          PROVE  Settled(t) => Settled(t)'
      BY <3>1, <3>2, <3>4 DEF Settled, Requeue
    <3>. QED
      BY <1>ClaimCommit, <3>3, <3>4 DEF ClaimCommit, Oldest
  <2>2. UNCHANGED <<notices, pending>>
    BY <1>ClaimCommit DEF ClaimCommit
  <2>3. \A d \in Coros : WorkerOwes(d, t)' => WorkerOwes(d, t)
    BY <1>ClaimCommit DEF ClaimCommit, WorkerOwes
  <2>. QED
    BY <1>1, <2>1, <2>2, <2>3 DEF ProcessOwes
<1>UpdateCommit. ASSUME NEW c \in Coros, UpdateCommit(c) PROVE PaidOnce(t)'
  <2>1. UNCHANGED <<notices, pending, job>>
    BY <1>UpdateCommit DEF UpdateCommit
  <2>2. /\ reply[c] = "none"
        /\ \A d \in Coros : d # c => reply'[d] = reply[d]
    BY <1>UpdateCommit DEF UpdateCommit, CallInv
  <2>3. CASE MayPublish(c) /\ SettleRow(job[c], call[c])
    <3>1. call[c] \in Terminal /\ job[c] \in Tasks
      BY <1>UpdateCommit DEF UpdateCommit, JobInv, Terminal
    <3>2. CASE t = job[c]
      <4>1. ~Settled(t) /\ Settled(t)'
        <5>1. status[t] = "running"
          BY <2>3, <3>2 DEF MayPublish
        <5>2. status'[t] \in {call[c], "pruned"}
          BY <2>3, <3>1, <3>2, SettleRowEffect
        <5>. QED
          BY <3>1, <5>1, <5>2 DEF Settled, Terminal
      <4>2. \A d \in Coros : WorkerOwes(d, t)' => d = c
        BY <1>0, <2>1, <2>2, <4>1 DEF PaidOnce, NothingOwed, WorkerOwes
      <4>. QED
        BY <1>2, <2>1, <4>1, <4>2
    <3>3. CASE t # job[c]
      <4>1. Settled(t) => Settled(t)'
        BY <2>3, <3>1, <3>3, SettleRowEffect DEF Settled
      <4>. QED
        BY <1>1, <2>1, <2>2, <3>3, <4>1 DEF WorkerOwes, ProcessOwes
    <3>. QED
      BY <3>2, <3>3
  <2>4. CASE reply' = [reply EXCEPT ![c] = "refused"] /\ status' = Prune(status, stamp)
    <3>1. Settled(t) => Settled(t)'
      BY <1>5, <2>4
    <3>2. \A d \in Coros : WorkerOwes(d, t)' => WorkerOwes(d, t)
      BY <2>1, <2>4 DEF WorkerOwes
    <3>. QED
      BY <1>1, <2>1, <3>1, <3>2 DEF ProcessOwes
  <2>. QED
    BY <2>3, <2>4, <1>UpdateCommit DEF UpdateCommit
<1>Notify. ASSUME NEW c \in Coros, Notify(c) PROVE PaidOnce(t)'
  <2>1. /\ reply[c] = "updated" /\ job[c] \in Tasks
        /\ UNCHANGED <<status, pending>>
        /\ reply'[c] = "none"
        /\ \A d \in Coros : d # c => reply'[d] = reply[d] /\ job'[d] = job[d]
    BY <1>Notify DEF Notify, FinishTask, CallInv, JobInv
  <2>2. CASE t = job[c] /\ status[t] \in Terminal /\ notices' = [notices EXCEPT ![t] = @ + 1]
    <3>1. WorkerOwes(c, t)
      BY <2>1, <2>2 DEF WorkerOwes
    <3>2. NothingOwed(t)'
      BY <1>0, <2>1, <2>2, <3>1 DEF PaidOnce, OneDebtor, NothingOwed, WorkerOwes, ProcessOwes
    <3>. QED
      BY <1>4, <2>1, <2>2, <3>1, <3>2 DEF NothingOwed, Settled
  <2>3. CASE notices'[t] = notices[t]
    BY <1>1, <2>1, <2>3 DEF WorkerOwes, ProcessOwes, Settled
  <2>. QED
    BY <2>1, <2>2, <2>3, <1>Notify DEF Notify
<1>Worker. ASSUME NEW c \in Coros,
                  \/ PollClaim(c) \/ ClaimedNothing(c) \/ StartAgent(c) \/ FactoryFails(c)
                  \/ AgentReturns(c) \/ AgentRaises(c) \/ Published(c) \/ NotPublished(c)
                  \/ Unwind(c) \/ CallFails(c)
           PROVE  PaidOnce(t)'
  <2>1. /\ UNCHANGED <<status, notices, pending>>
        /\ \A d \in Coros : reply'[d] = "updated" => reply[d] = "updated" /\ job'[d] = job[d]
    BY <1>Worker DEF PollClaim, ClaimedNothing, StartAgent, FactoryFails, AgentReturns,
       AgentRaises, Published, NotPublished, Unwind, CallFails, Submit, FinishTask
  <2>. QED
    BY <1>1, <2>1 DEF WorkerOwes, ProcessOwes, Settled
<1>u. CASE UNCHANGED vars
  BY <1>1, <1>u DEF vars, WorkerOwes, ProcessOwes, Settled
<1>. QED
  BY <1>Boot, <1>CloseRequeue, <1>Process, <1>Start, <1>Add, <1>Cancel, <1>DeliverNotice,
     <1>ClaimCommit, <1>UpdateCommit, <1>Notify, <1>Worker, <1>u DEF Next, Worker

(* RowsInv is an invariant.                                                *)
LEMMA RowsInvariant == Spec => []RowsInv
<1>1. IInv /\ RowsInv /\ [Next]_vars => RowsInv'
  BY DoneStep, TokenStep, HeldStep, NoticeStep DEF IInv, Control, RowsInv
<1>. QED
  BY IInvariant, RowsInit, <1>1, PTL DEF Spec

(* A running row of a serving manager is in a worker's hands unless a call *)
(* failed, its agent can be found, and its end is told at most once.       *)
THEOREM RowsAccountedForHolds == Spec => []RowsAccountedFor
<1>1. IInv /\ RowsInv => RowsAccountedFor
  BY DEF IInv, RowsInv, RowsAccountedFor, ActiveRowHeld, HeldInv, InHand, NoticeAtMostOnce,
         NoticeInv, PaidOnce
<1>. QED
  BY IInvariant, RowsInvariant, <1>1, PTL

(* While somebody executes t, a step that completes or fails t is that     *)
(* worker's own publication: the row's owner is the executor's generation, *)
(* and no other worker of it holds t.                                      *)
THEOREM OnlyTheExecutorPublishesHolds == Spec => OnlyTheExecutorPublishes
<1> DEFINE Own ==
      \A d \in Coros : \A t \in Tasks :
          /\ Executing(d, t)
          /\ status[t] = "running" /\ status'[t] \in {"completed", "failed"}
          => call[d] = "completed" /\ reply'[d] = "updated"
<1>1. IInv /\ DoneInv /\ [Next]_vars => Own
  <2> SUFFICES ASSUME IInv, DoneInv, [Next]_vars,
                      NEW d \in Coros, NEW t \in Tasks, Executing(d, t),
                      status[t] = "running", status'[t] \in {"completed", "failed"}
               PROVE  call[d] = "completed" /\ reply'[d] = "updated"
    OBVIOUS
  <2> USE DEF IInv, TypeOK, table, managers, generations, workers, callbacks, bounds
  <2>1. PICK c \in Coros : UpdateCommit(c)
    <3>1. ASSUME NEW p \in Procs, Boot(p) PROVE FALSE
      <4> DEFINE lost == Stale([IsUp EXCEPT ![p] = TRUE])
      <4>1. status' = Prune(Requeue(status, lost), stamp)
        BY <3>1 DEF Boot
      <4>2. Requeue(status, lost)[t] \in {"running", "enqueued"}
        BY DEF Requeue
      <4> HIDE DEF lost
      <4>. QED
        BY <4>1, <4>2, PruneOnlySettled DEF Terminal
    <3>2. ASSUME NEW p \in Procs, NEW u \in Tasks, Cancel(p, u) PROVE FALSE
      <4>1. "canceled" \in Terminal /\ SettleRow(u, "canceled")
        BY <3>2 DEF Cancel, Terminal
      <4>. QED
        BY <4>1, SettleRowEffect DEF Terminal
    <3>3. ASSUME NEW p \in Procs, CloseRequeue(p) PROVE FALSE
      BY <3>3 DEF CloseRequeue, Requeue
    <3>6. ASSUME NEW p \in Procs, NEW u \in Tasks, Add(p, u) PROVE FALSE
      BY <3>6 DEF Add
    <3>4. ASSUME NEW c \in Coros, ClaimCommit(c) PROVE FALSE
      BY <3>4 DEF ClaimCommit, Requeue, Oldest, Enqueued
    <3>5. status' # status
      OBVIOUS
    <3>. QED
      BY <3>1, <3>2, <3>3, <3>4, <3>5, <3>6
         DEF Next, Worker, vars, Crash, CloseBegin, CloseFails, Start, DeliverNotice, PollClaim,
             ClaimedNothing, StartAgent, AgentReturns, AgentRaises, Published, NotPublished,
             Notify, Unwind, CallFails, FactoryFails
  <2>2. /\ MayPublish(c) /\ SettleRow(job[c], call[c]) /\ reply'[c] = "updated"
        /\ HostUp(c) /\ call[c] \in {"completed", "failed"} /\ job[c] \in Tasks
    <3>1. status' # Prune(status, stamp)
      <4>1. \/ Prune(status, stamp)[t] = "running"
            \/ "running" \in Terminal /\ Prune(status, stamp)[t] = "pruned"
        BY PruneOnlySettled
      <4>. QED
        BY <4>1
    <3>. QED
      BY <2>1, <3>1 DEF UpdateCommit, JobInv
  <2>3. job[c] = t /\ token[t] = c[1]
    <3>1. ASSUME job[c] # t PROVE FALSE
      <4>1. call[c] \in Terminal
        BY <2>2 DEF Terminal
      <4>2. status'[t] = status[t] \/ (status[t] \in Terminal /\ status'[t] = "pruned")
        BY <2>2, <3>1, <4>1, SettleRowEffect
      <4>. QED
        BY <4>2
    <3>. QED
      BY <2>2, <3>1 DEF MayPublish
  <2>4. Holding(d) /\ job[d] = t /\ token[t] = d[1] /\ ~stopped[d[1]]
    BY DEF Live, Executing, Holding, OwnInv, Settled, Terminal
  <2>5. Holding(c)
    <3>1. c[1] = d[1] /\ Live(c)
      BY <2>2, <2>3, <2>4 DEF Live
    <3>2. pc[c] \in {"complete", "fail"}
      BY <2>2, <3>1 DEF Live, CallInv, DoneInv
    <3>. QED
      BY <3>1, <3>2 DEF Holding
  <2>6. c = d
    BY <2>3, <2>4, <2>5 DEF UniqueInv
  <2>. QED
    BY <2>2, <2>6 DEF Executing, CallInv
<1>2. Spec => [][Own]_vars
  BY IInvariant, RowsInvariant, <1>1, PTL DEF Spec, RowsInv
<1>. QED
  BY <1>2 DEF OnlyTheExecutorPublishes
-----------------------------------------------------------------------------
(*                  The table implements the abstract queue                *)

(* The operators of the abstract specification are those of TaskTable.     *)
LEMMA SameOperators ==
    ASSUME NEW st, NEW sp, NEW R
    PROVE  /\ Lifecycle!Tasks = Tasks /\ Lifecycle!Terminal = Terminal
           /\ Lifecycle!Prune(st, sp) = Prune(st, sp)
           /\ Lifecycle!NextStamp(sp) = NextStamp(sp)
           /\ Lifecycle!Requeue(st, R) = Requeue(st, R)
           /\ Lifecycle!Enqueued(st) = Enqueued(st)
           /\ Lifecycle!Running(st) = Running(st)
           /\ Lifecycle!Oldest(R) = Oldest(R)
<1>1. Lifecycle!Tasks = Tasks /\ Lifecycle!Terminal = Terminal
  BY DEF Lifecycle!Tasks, Lifecycle!Terminal, Tasks, Terminal
<1>0. ASSUME NEW S PROVE Lifecycle!Cardinality(S) = Cardinality(S)
  BY DEF Lifecycle!Cardinality, Cardinality
<1>2. Lifecycle!Prune(st, sp) = Prune(st, sp)
  BY <1>0, <1>1 DEF Lifecycle!Prune, Prune
<1>3. Lifecycle!NextStamp(sp) = NextStamp(sp)
  BY <1>0, <1>1 DEF Lifecycle!NextStamp, NextStamp
<1>4. Lifecycle!Requeue(st, R) = Requeue(st, R)
  BY <1>1 DEF Lifecycle!Requeue, Requeue
<1>5. /\ Lifecycle!Enqueued(st) = Enqueued(st)
      /\ Lifecycle!Running(st) = Running(st)
  BY <1>1 DEF Lifecycle!Enqueued, Lifecycle!Running, Enqueued, Running
<1>6. Lifecycle!Oldest(R) = Oldest(R)
  BY DEF Lifecycle!Oldest, Oldest
<1>. QED
  BY <1>1, <1>2, <1>3, <1>4, <1>5, <1>6

(* The empty table is the empty queue.                                     *)
LEMMA LifecycleInit == Init => Lifecycle!Init
BY SameOperators DEF Init, Lifecycle!Init

(* Every step of the code is a step of the queue, or does not touch it.    *)
LEMMA LifecycleStep == Control /\ [Next]_vars => [Lifecycle!Next]_(Lifecycle!vars)
<1> SUFFICES ASSUME Control, [Next]_vars PROVE [Lifecycle!Next]_(Lifecycle!vars)
  OBVIOUS
<1> USE SameOperators DEF Lifecycle!vars
<1>1. ASSUME NEW R \in SUBSET Running(status), Lifecycle!GiveBack(R) \/ Lifecycle!Claim(R)
      PROVE  Lifecycle!Next
  BY <1>1 DEF Lifecycle!Next
<1>2. ASSUME NEW t \in Tasks, NEW outcome \in Terminal, Lifecycle!Settle(t, outcome)
      PROVE  Lifecycle!Next
  BY <1>2 DEF Lifecycle!Next
<1>3. ASSUME NEW p \in Procs, Boot(p) PROVE Lifecycle!Next
  <2>1. Lifecycle!GiveBack(Stale([IsUp EXCEPT ![p] = TRUE]))
    BY <1>3 DEF Boot, Lifecycle!GiveBack, Stale
  <2>. QED
    BY <1>1, <2>1 DEF Stale
<1>4. ASSUME NEW p \in Procs, CloseRequeue(p) PROVE Lifecycle!Next
  <2>1. Lifecycle!GiveBack({t \in Running(status) : token[t] = current[p]})
    BY <1>4 DEF CloseRequeue, Lifecycle!GiveBack
  <2>. QED
    BY <1>1, <2>1
<1>5. ASSUME NEW p \in Procs, NEW t \in Tasks, Add(p, t) PROVE Lifecycle!Next
  <2>1. Lifecycle!Add(t)
    BY <1>5 DEF Add, Lifecycle!Add
  <2>. QED
    BY <2>1 DEF Lifecycle!Next
<1>6. ASSUME NEW p \in Procs, NEW t \in Tasks, Cancel(p, t) PROVE Lifecycle!Next
  <2>1. Lifecycle!Settle(t, "canceled") /\ "canceled" \in Terminal
    BY <1>6 DEF Cancel, Cancelable, SettleRow, Lifecycle!Settle, Terminal
  <2>. QED
    BY <1>2, <2>1
<1>7. ASSUME NEW c \in Coros, ClaimCommit(c) PROVE [Lifecycle!Next]_(Lifecycle!vars)
  <2>1. CASE UNCHANGED <<status, token, pid, job>>
    BY <1>7, <2>1 DEF ClaimCommit
  <2>2. CASE \E t \in Oldest(Enqueued(Requeue(status, Stale(IsUp)))) :
               status' = [Requeue(status, Stale(IsUp)) EXCEPT ![t] = "running"]
    <3>1. Lifecycle!Claim(Stale(IsUp))
      <4>1. Stale(IsUp) \subseteq Lifecycle!Running(status) /\ UNCHANGED stamp
        BY <1>7 DEF ClaimCommit, Stale
      <4> DEFINE queue == Requeue(status, Stale(IsUp))
      <4>2. Lifecycle!Requeue(status, Stale(IsUp)) = queue
        OBVIOUS
      <4>3. Lifecycle!Oldest(Lifecycle!Enqueued(queue)) = Oldest(Enqueued(queue))
        OBVIOUS
      <4>4. \E t \in Oldest(Enqueued(queue)) : status' = [queue EXCEPT ![t] = "running"]
        BY <2>2
      <4> HIDE DEF queue
      <4>. QED
        BY <4>1, <4>2, <4>3, <4>4 DEF Lifecycle!Claim
    <3>. QED
      BY <1>1, <3>1 DEF Stale
  <2>. QED
    BY <1>7, <2>1, <2>2 DEF ClaimCommit
<1>8. ASSUME NEW c \in Coros, UpdateCommit(c) PROVE Lifecycle!Next
  <2>1. CASE MayPublish(c) /\ SettleRow(job[c], call[c])
    <3>1. job[c] \in Tasks /\ call[c] \in Terminal
      BY <1>8 DEF UpdateCommit, Control, JobInv, Terminal
    <3>2. Lifecycle!Settle(job[c], call[c])
      BY <2>1, <3>1 DEF MayPublish, SettleRow, Lifecycle!Settle
    <3>. QED
      BY <1>2, <3>1, <3>2
  <2>2. CASE status' = Prune(status, stamp) /\ UNCHANGED <<token, pid, stamp>>
    <3>1. Requeue(status, {}) = status
      BY DEF Requeue, Control, TypeOK
    <3>2. Lifecycle!GiveBack({})
      BY <2>2, <3>1 DEF Lifecycle!GiveBack
    <3>. QED
      BY <1>1, <3>2
  <2>. QED
    BY <1>8, <2>1, <2>2 DEF UpdateCommit
<1>10. ASSUME NEW c \in Coros,
              \/ PollClaim(c) \/ ClaimedNothing(c) \/ StartAgent(c) \/ AgentReturns(c)
              \/ AgentRaises(c) \/ Published(c) \/ NotPublished(c) \/ Notify(c)
              \/ Unwind(c) \/ CallFails(c) \/ FactoryFails(c)
       PROVE  UNCHANGED Lifecycle!vars
  BY <1>10 DEF PollClaim, ClaimedNothing, StartAgent, AgentReturns, AgentRaises, Published,
               NotPublished, Notify, Unwind, CallFails, FactoryFails, table
<1>11. CASE UNCHANGED vars
  BY <1>11 DEF vars, table
<1>. QED
  <2>1. ASSUME NEW p \in Procs, Crash(p) \/ CloseBegin(p) \/ CloseFails(p)
        PROVE  UNCHANGED Lifecycle!vars
    BY <2>1 DEF Crash, CloseBegin, CloseFails, table
  <2>2. ASSUME NEW p \in Procs, NEW k \in Tokens, Start(p, k) PROVE UNCHANGED Lifecycle!vars
    BY <2>2 DEF Start, table
  <2>3. ASSUME NEW p \in Procs, NEW t \in Tasks, DeliverNotice(p, t)
        PROVE  UNCHANGED Lifecycle!vars
    BY <2>3 DEF DeliverNotice, table
  <2>. QED
    BY <1>3, <1>4, <1>5, <1>6, <1>7, <1>8, <1>10, <1>11, <2>1, <2>2, <2>3 DEF Next, Worker

(* The table of tasks, seen without owners, behaves as TaskLifecycle.      *)
THEOREM DurableTasksImplementLifecycle == Spec => ImplementsLifecycle
<1>1. IInv => Control
  BY DEF IInv, Control
<1>. QED
  BY <1>1, IInvariant, LifecycleInit, LifecycleStep, PTL
     DEF Spec, ImplementsLifecycle, Lifecycle!Spec
=============================================================================
