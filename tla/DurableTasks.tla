----------------------------- MODULE DurableTasks -----------------------------
(***************************************************************************)
(* The durable background tasks of kairocli/tasks.py: one SQLite table     *)
(* shared by several Kairo processes, and in each process a task manager   *)
(* whose worker coroutines claim tasks, run an agent on each and publish   *)
(* the outcome.                                                            *)
(*                                                                         *)
(* A database call runs in a thread (asyncio.to_thread): the coroutine     *)
(* that waits for it may be cancelled while the call still commits.  So a  *)
(* call has three moments, each a step of its own: the coroutine submits   *)
(* it (call), it commits atomically (BEGIN IMMEDIATE), and the coroutine,  *)
(* if it is still there, reads the reply.                                  *)
(***************************************************************************)
EXTENDS TaskTable

CONSTANTS
    Procs,        \* operating-system processes, each with a pid of its own
    Tokens,       \* owner tokens (uuid4), one per manager generation
    Slots,        \* worker index inside a generation (self.workers)
    NoOwner,      \* owner_token = ''
    NoPid,        \* owner_pid = 0
    NoTask,
    NoCoro,
    MaxCloses,    \* bound: calls of DurableTaskManager.close
    MaxCrashes,   \* bound: processes that die
    MaxFaults     \* bound: database calls that raise

ASSUME DurableTasksAssumption ==
    /\ NoOwner \notin Tokens
    /\ NoPid \notin Procs
    /\ NoTask \notin Tasks
    /\ NoCoro \notin Tokens \X Slots
    /\ MaxCloses \in Nat
    /\ MaxCrashes \in Nat
    /\ MaxFaults \in Nat

(* A worker coroutine is named by its generation's token and its index.    *)
Coros == Tokens \X Slots

VARIABLES
    \* the table
    status,        \* task -> status column ("absent" before, "pruned" after)
    token,         \* task -> owner_token column
    pid,           \* task -> owner_pid column
    stamp,         \* task -> rank of its settling update
    \* the processes and their managers
    proc,          \* process -> "unborn", "up" or "dead"
    phase,         \* process -> "idle", "active" or "closing" (_worker_tasks, _close_task)
    current,       \* process -> _owner_token
    registry,      \* process -> _running: task -> the coroutine registered for it
    \* the generations
    host,          \* token -> the process that minted it
    stopped,       \* token -> its stop event is set and its workers are cancelled
    \* the worker coroutines
    pc,            \* coroutine -> where it waits
    job,           \* coroutine -> the task its claim returned
    call,          \* coroutine -> the database call its thread still has to commit
    reply,         \* coroutine -> what its last database call returned
    told,          \* the coroutines whose agent was told to cancel (Agent.cancel)
    \* terminal callbacks
    pending,       \* <<process, task>>: _notification_tasks not yet delivered
    notices,       \* task -> terminal callbacks delivered
    \* bounds
    closes, crashes, faults

table == <<status, token, pid, stamp>>
managers == <<proc, phase, current, registry>>
generations == <<host, stopped>>
workers == <<pc, job, call, reply, told>>
callbacks == <<pending, notices>>
bounds == <<closes, crashes, faults>>
vars == <<table, managers, generations, workers, callbacks, bounds>>

TypeOK ==
    /\ status \in [Tasks -> Status]
    /\ token \in [Tasks -> Tokens \cup {NoOwner}]
    /\ pid \in [Tasks -> Procs \cup {NoPid}]
    /\ stamp \in [Tasks -> Nat]
    /\ proc \in [Procs -> {"unborn", "up", "dead"}]
    /\ phase \in [Procs -> {"idle", "active", "closing"}]
    /\ current \in [Procs -> Tokens \cup {NoOwner}]
    /\ registry \in [Procs -> [Tasks -> Coros \cup {NoCoro}]]
    /\ host \in [Tokens -> Procs \cup {NoPid}]
    /\ stopped \in [Tokens -> BOOLEAN]
    /\ pc \in [Coros -> {"off", "poll", "claim", "run", "complete", "fail",
                         "notify", "done"}]
    /\ job \in [Coros -> Tasks \cup {NoTask}]
    /\ call \in [Coros -> {"none", "claim", "completed", "failed"}]
    /\ reply \in [Coros -> {"none", "claimed", "updated", "refused", "error"}]
    /\ told \in SUBSET Coros
    /\ pending \in SUBSET (Procs \X Tasks)
    /\ notices \in [Tasks -> Nat]
    /\ closes \in Nat /\ crashes \in Nat /\ faults \in Nat
-----------------------------------------------------------------------------
Up(p) == proc[p] = "up"

HostUp(c) == host[c[1]] \in Procs /\ Up(host[c[1]])

(* The coroutine is scheduled normally: its process is up and close() has  *)
(* not cancelled it (a cancelled one can only unwind).                     *)
Live(c) == HostUp(c) /\ ~stopped[c[1]]

(* Mutated forms of Stale: recovery that ignores who owns the row, and     *)
(* recovery that never happens.                                            *)
StaleEveryRunning(up) == Running(status)
StaleNone(up) == {}

(* _recover_stale_running: running rows whose owner process is gone.       *)
Stale(up) == {t \in Running(status) : ~(pid[t] \in Procs /\ up[pid[t]])}

Released(f, R, none) == [t \in Tasks |-> IF t \in R THEN none ELSE f[t]]

IsUp == [p \in Procs |-> Up(p)]

(* The finally block of _worker: forget the registration if it is mine.    *)
Unregister(c) ==
    registry' = [p \in Procs |->
                    [t \in Tasks |->
                        IF p = host[c[1]] /\ t = job[c] /\ registry[p][t] = c
                        THEN NoCoro
                        ELSE registry[p][t]]]

(* Mutated form of MayPublish: an update without the owner predicate.      *)
MayPublishAnyone(c) == status[job[c]] = "running"

(* update() with an owner: from running, and only the row's current owner. *)
MayPublish(c) == status[job[c]] = "running" /\ token[job[c]] = c[1]

(* Mutated form of Cancelable: a failed row could still be cancelled.      *)
CancelableOrFailed == {"enqueued", "running", "failed"}

(* The statuses update(..., "canceled") accepts.                           *)
Cancelable == {"enqueued", "running"}

(* An update that settles row t: owner cleared, rank renewed, retention.   *)
SettleRow(t, outcome) ==
    /\ stamp' = [stamp EXCEPT ![t] = NextStamp(stamp)]
    /\ status' = Prune([status EXCEPT ![t] = outcome], stamp')
    /\ token' = [token EXCEPT ![t] = NoOwner]
    /\ pid' = [pid EXCEPT ![t] = NoPid]

Init ==
    /\ status = [t \in Tasks |-> "absent"]
    /\ token = [t \in Tasks |-> NoOwner]
    /\ pid = [t \in Tasks |-> NoPid]
    /\ stamp = [t \in Tasks |-> 0]
    /\ proc = [p \in Procs |-> "unborn"]
    /\ phase = [p \in Procs |-> "idle"]
    /\ current = [p \in Procs |-> NoOwner]
    /\ registry = [p \in Procs |-> [t \in Tasks |-> NoCoro]]
    /\ host = [k \in Tokens |-> NoPid]
    /\ stopped = [k \in Tokens |-> FALSE]
    /\ pc = [c \in Coros |-> "off"]
    /\ job = [c \in Coros |-> NoTask]
    /\ call = [c \in Coros |-> "none"]
    /\ reply = [c \in Coros |-> "none"]
    /\ told = {}
    /\ pending = {}
    /\ notices = [t \in Tasks |-> 0]
    /\ closes = 0 /\ crashes = 0 /\ faults = 0
-----------------------------------------------------------------------------
(*                          Processes and the table                        *)

(* DurableTaskStore(): opening the store recovers what dead processes left *)
(* running and trims settled rows.                                         *)
Boot(p) ==
    /\ proc[p] = "unborn"
    /\ proc' = [proc EXCEPT ![p] = "up"]
    /\ LET lost == Stale([IsUp EXCEPT ![p] = TRUE]) IN
         /\ status' = Prune(Requeue(status, lost), stamp)
         /\ token' = Released(token, lost, NoOwner)
         /\ pid' = Released(pid, lost, NoPid)
    /\ UNCHANGED <<stamp, phase, current, registry, generations, workers,
                   callbacks, bounds>>

(* The process dies: its coroutines and the calls of its threads with it.  *)
Crash(p) ==
    /\ Up(p)
    /\ crashes < MaxCrashes
    /\ crashes' = crashes + 1
    /\ proc' = [proc EXCEPT ![p] = "dead"]
    /\ phase' = [phase EXCEPT ![p] = "idle"]
    /\ pc' = [c \in Coros |-> IF host[c[1]] = p THEN "done" ELSE pc[c]]
    /\ call' = [c \in Coros |-> IF host[c[1]] = p THEN "none" ELSE call[c]]
    /\ pending' = {n \in pending : n[1] # p}
    /\ UNCHANGED <<table, current, registry, generations, job, reply,
                   told, notices, closes, faults>>

(* /task add from any process that is up.                                  *)
Add(p, t) ==
    /\ Up(p)
    /\ status[t] = "absent"
    /\ \A u \in 1..(t - 1) : status[u] # "absent"
    /\ status' = [status EXCEPT ![t] = "enqueued"]
    /\ UNCHANGED <<token, pid, stamp, managers, generations, workers,
                   callbacks, bounds>>

(* DurableTaskManager.cancel: the row is settled first, with no owner      *)
(* predicate; then the agent registered in this process, if any, is told.  *)
Cancel(p, t) ==
    /\ Up(p)
    /\ status[t] \in Cancelable
    /\ SettleRow(t, "canceled")
    /\ told' = told \cup {c \in Coros : registry[p][t] = c}
    /\ pending' = pending \cup {<<p, t>>}
    /\ UNCHANGED <<managers, generations, pc, job, call, reply, notices, bounds>>

(* The notification task scheduled by cancel reads the row and calls back; *)
(* a row already deleted, or a read that fails, means no callback.         *)
DeliverNotice(p, t) ==
    /\ <<p, t>> \in pending
    /\ pending' = pending \ {<<p, t>>}
    /\ \/ status[t] \in Terminal /\ notices' = [notices EXCEPT ![t] = @ + 1]
       \/ UNCHANGED notices
    /\ UNCHANGED <<table, managers, generations, workers, bounds>>
-----------------------------------------------------------------------------
(*                     The manager: start, close                           *)

(* A start while workers exist or a close is in progress does nothing;     *)
(* otherwise it opens a fresh generation.                                  *)
Start(p, k) ==
    /\ Up(p) /\ phase[p] = "idle"
    /\ host[k] = NoPid
    /\ phase' = [phase EXCEPT ![p] = "active"]
    /\ current' = [current EXCEPT ![p] = k]
    /\ host' = [host EXCEPT ![k] = p]
    /\ pc' = [c \in Coros |-> IF c[1] = k THEN "poll" ELSE pc[c]]
    /\ UNCHANGED <<table, proc, registry, stopped, job, call, reply,
                   told, callbacks, bounds>>

(* _close_once up to its first wait: the stop event, Agent.cancel on the   *)
(* agents of this generation, and Task.cancel on its workers.              *)
CloseBegin(p) ==
    /\ Up(p) /\ phase[p] = "active"
    /\ closes < MaxCloses
    /\ closes' = closes + 1
    /\ phase' = [phase EXCEPT ![p] = "closing"]
    /\ stopped' = [stopped EXCEPT ![current[p]] = TRUE]
    /\ told' = told \cup {c \in Coros : /\ c[1] = current[p]
                                       /\ \E t \in Tasks : registry[p][t] = c}
    /\ UNCHANGED <<table, proc, current, registry, host, pc, job, call, reply,
                   callbacks, crashes, faults>>

(* The rest of _close_once, after at most the grace period: workers still  *)
(* unwinding are detached, notification tasks are cancelled, and the rows  *)
(* of this generation go back to the queue.                                *)
CloseRequeue(p) ==
    /\ Up(p) /\ phase[p] = "closing"
    /\ phase' = [phase EXCEPT ![p] = "idle"]
    /\ pending' = {n \in pending : n[1] # p}
    /\ LET mine == {t \in Running(status) : token[t] = current[p]} IN
         /\ status' = Requeue(status, mine)
         /\ token' = Released(token, mine, NoOwner)
         /\ pid' = Released(pid, mine, NoPid)
    /\ UNCHANGED <<stamp, proc, current, registry, generations, workers,
                   notices, bounds>>

(* requeue_running raises: close() raises too and the rows stay as they are. *)
CloseFails(p) ==
    /\ Up(p) /\ phase[p] = "closing"
    /\ faults < MaxFaults
    /\ faults' = faults + 1
    /\ phase' = [phase EXCEPT ![p] = "idle"]
    /\ pending' = {n \in pending : n[1] # p}
    /\ UNCHANGED <<table, proc, current, registry, generations, workers,
                   notices, closes, crashes>>
-----------------------------------------------------------------------------
(*                      Database calls of the workers                      *)

(* claim(): recovery, then the oldest waiting row, in one transaction.     *)
ClaimCommit(c) ==
    /\ HostUp(c)
    /\ call[c] = "claim"
    /\ call' = [call EXCEPT ![c] = "none"]
    /\ LET lost == Stale(IsUp)
           queue == Requeue(status, lost)
       IN \/ /\ Enqueued(queue) = {}
             /\ reply' = [reply EXCEPT ![c] = "refused"]
             /\ UNCHANGED <<status, token, pid, job>>
          \/ \E t \in Oldest(Enqueued(queue)) :
               /\ reply' = [reply EXCEPT ![c] = "claimed"]
               /\ job' = [job EXCEPT ![c] = t]
               /\ status' = [queue EXCEPT ![t] = "running"]
               /\ token' = [Released(token, lost, NoOwner) EXCEPT ![t] = c[1]]
               /\ pid' = [Released(pid, lost, NoPid) EXCEPT ![t] = host[c[1]]]
    /\ UNCHANGED <<stamp, managers, generations, pc, told, callbacks,
                   bounds>>

(* update(): completed and failed only from running and only for the owner. *)
UpdateCommit(c) ==
    /\ HostUp(c)
    /\ call[c] \in {"completed", "failed"}
    /\ call' = [call EXCEPT ![c] = "none"]
    /\ IF MayPublish(c)
       THEN /\ reply' = [reply EXCEPT ![c] = "updated"]
            /\ SettleRow(job[c], call[c])
       ELSE /\ reply' = [reply EXCEPT ![c] = "refused"]
            /\ status' = Prune(status, stamp)
            /\ UNCHANGED <<token, pid, stamp>>
    /\ UNCHANGED <<managers, generations, pc, job, told, callbacks,
                   bounds>>

(* A call raises (busy database, disk error): it is rolled back.           *)
CallFails(c) ==
    /\ HostUp(c)
    /\ call[c] # "none"
    /\ faults < MaxFaults
    /\ faults' = faults + 1
    /\ call' = [call EXCEPT ![c] = "none"]
    /\ reply' = [reply EXCEPT ![c] = "error"]
    /\ UNCHANGED <<table, managers, generations, pc, job, told,
                   callbacks, closes, crashes>>
-----------------------------------------------------------------------------
(*                        The worker coroutine                             *)

Submit(c, where, what) ==
    /\ pc' = [pc EXCEPT ![c] = where]
    /\ call' = [call EXCEPT ![c] = what]
    /\ reply' = [reply EXCEPT ![c] = "none"]

(* The finally block, then the top of the loop.                            *)
FinishTask(c) ==
    /\ Unregister(c)
    /\ pc' = [pc EXCEPT ![c] = "poll"]
    /\ job' = [job EXCEPT ![c] = NoTask]
    /\ reply' = [reply EXCEPT ![c] = "none"]

PollClaim(c) ==
    /\ Live(c) /\ pc[c] = "poll"
    /\ Submit(c, "claim", "claim")
    /\ UNCHANGED <<table, managers, generations, job, told, callbacks,
                   bounds>>

(* No row, or the claim raised: sleep and poll again.                      *)
ClaimedNothing(c) ==
    /\ Live(c) /\ pc[c] = "claim" /\ reply[c] \in {"refused", "error"}
    /\ pc' = [pc EXCEPT ![c] = "poll"]
    /\ reply' = [reply EXCEPT ![c] = "none"]
    /\ UNCHANGED <<table, managers, generations, job, call, told,
                   callbacks, bounds>>

(* A fresh agent is built, registered and started.                         *)
StartAgent(c) ==
    /\ Live(c) /\ pc[c] = "claim" /\ reply[c] = "claimed"
    /\ registry' = [registry EXCEPT ![host[c[1]]][job[c]] = c]
    /\ pc' = [pc EXCEPT ![c] = "run"]
    /\ reply' = [reply EXCEPT ![c] = "none"]
    /\ told' = told \ {c}
    /\ UNCHANGED <<table, proc, phase, current, generations, job, call,
                   callbacks, bounds>>

(* Mutated form of FactoryFails: the failure is swallowed, the row kept.   *)
FactoryFailureForgotten(c) ==
    /\ Live(c) /\ pc[c] = "claim" /\ reply[c] = "claimed"
    /\ FinishTask(c)
    /\ UNCHANGED <<table, proc, phase, current, generations, call,
                   told, callbacks, bounds>>

(* agent_factory() raises: nothing is registered and the row is failed.    *)
FactoryFails(c) ==
    /\ Live(c) /\ pc[c] = "claim" /\ reply[c] = "claimed"
    /\ Submit(c, "fail", "failed")
    /\ UNCHANGED <<table, managers, generations, job, told, callbacks,
                   bounds>>

(* agent.run returns; a cancelled agent may have been past its last check. *)
AgentReturns(c) ==
    /\ Live(c) /\ pc[c] = "run"
    /\ Submit(c, "complete", "completed")
    /\ UNCHANGED <<table, managers, generations, job, told, callbacks,
                   bounds>>

(* agent.run raises, AgentCanceled included; so may the publication.       *)
AgentRaises(c) ==
    /\ Live(c)
    /\ pc[c] = "run" \/ (pc[c] = "complete" /\ reply[c] = "error")
    /\ Submit(c, "fail", "failed")
    /\ UNCHANGED <<table, managers, generations, job, told, callbacks,
                   bounds>>

(* `if updated:` in _worker.                                               *)
PublishedReply == {"updated"}

(* The row was settled by this worker: its terminal callback is next.      *)
Published(c) ==
    /\ Live(c) /\ pc[c] \in {"complete", "fail"} /\ reply[c] \in PublishedReply
    /\ pc' = [pc EXCEPT ![c] = "notify"]
    /\ UNCHANGED <<table, managers, generations, job, call, reply,
                   told, callbacks, bounds>>

(* The owner predicate refused, or reporting the failure failed as well.   *)
NotPublished(c) ==
    /\ Live(c)
    /\ \/ pc[c] = "complete" /\ reply[c] = "refused"
       \/ pc[c] = "fail" /\ reply[c] \in {"refused", "error"}
    /\ FinishTask(c)
    /\ UNCHANGED <<table, proc, phase, current, generations, call,
                   told, callbacks, bounds>>

(* _notify_terminal, whose own failures are swallowed.                     *)
Notify(c) ==
    /\ Live(c) /\ pc[c] = "notify"
    /\ \/ /\ status[job[c]] \in Terminal
          /\ notices' = [notices EXCEPT ![job[c]] = @ + 1]
       \/ UNCHANGED notices
    /\ FinishTask(c)
    /\ UNCHANGED <<table, proc, phase, current, generations, call,
                   told, pending, bounds>>

(* A cancelled worker leaves from wherever it waits, possibly long after   *)
(* close() detached it.  A call already in its thread commits all the same; *)
(* one still queued for a thread is dropped.                               *)
Unwind(c) ==
    /\ HostUp(c) /\ stopped[c[1]]
    /\ pc[c] \notin {"off", "done"}
    /\ pc' = [pc EXCEPT ![c] = "done"]
    /\ \/ UNCHANGED call
       \/ call' = [call EXCEPT ![c] = "none"]
    /\ Unregister(c)
    /\ UNCHANGED <<table, proc, phase, current, generations, job, reply,
                   told, callbacks, bounds>>
-----------------------------------------------------------------------------
Worker(c) ==
    \/ ClaimCommit(c) \/ UpdateCommit(c)
    \/ PollClaim(c) \/ ClaimedNothing(c) \/ StartAgent(c)
    \/ AgentReturns(c) \/ AgentRaises(c)
    \/ Published(c) \/ NotPublished(c) \/ Notify(c) \/ Unwind(c)

Next ==
    \/ \E p \in Procs :
         \/ Boot(p) \/ Crash(p)
         \/ CloseBegin(p) \/ CloseRequeue(p) \/ CloseFails(p)
         \/ \E k \in Tokens : Start(p, k)
         \/ \E t \in Tasks : Add(p, t) \/ Cancel(p, t) \/ DeliverNotice(p, t)
    \/ \E c \in Coros : Worker(c) \/ CallFails(c) \/ FactoryFails(c)

Spec == Init /\ [][Next]_vars

(* The event loop and the thread pool serve every coroutine that waits, an *)
(* agent's run ends (iteration, token and time limits), and a close that   *)
(* began goes on.  Users, crashes and faults owe nothing.                  *)
Fairness ==
    /\ \A c \in Coros : WF_vars(Worker(c))
    /\ \A p \in Procs : WF_vars(CloseRequeue(p))

FairSpec == Spec /\ Fairness
-----------------------------------------------------------------------------
(*                               Properties                                *)

(* The worker runs an agent on t, or publishes its answer, and nobody has  *)
(* told its generation to stop.                                            *)
Executing(c, t) == Live(c) /\ pc[c] \in {"run", "complete"} /\ job[c] = t

(* A task is never being executed by two workers at once, whatever         *)
(* restarts, crashes and recoveries happen: claims fence each other.       *)
ExclusiveExecution ==
    \A c, d \in Coros : \A t \in Tasks :
        Executing(c, t) /\ Executing(d, t) => c = d

(* /task cancel in the owning process finds the agent that is running the  *)
(* task: the cleanup of a detached worker of an earlier generation removes *)
(* only its own entry of _running.                                         *)
RunningAgentIsRegistered ==
    \A c \in Coros : Live(c) /\ pc[c] = "run" => registry[host[c[1]]][job[c]] = c

(* While its generation is neither stopped nor crashed, a running row is   *)
(* in the hands of one of that generation's workers, unless a database     *)
(* call failed: no path of _worker forgets a row it claimed.               *)
ActiveRowHeld ==
    \A t \in Tasks : \A k \in Tokens :
        /\ status[t] = "running" /\ token[t] = k /\ ~stopped[k]
        /\ \E p \in Procs : host[k] = p /\ Up(p)
        /\ faults = 0
        => \E s \in Slots :
             /\ job[<<k, s>>] = t
             /\ pc[<<k, s>>] \in {"claim", "run", "complete", "fail"}

(* The terminal callback of a task is called at most once, even when the   *)
(* user cancels while a worker is publishing.                              *)
NoticeAtMostOnce == \A t \in Tasks : notices[t] <= 1

(* A running row of a serving manager is in the hands of a worker, whose   *)
(* agent /task cancel finds, and the end of a task is told once.           *)
RowsAccountedFor == TypeOK /\ ActiveRowHeld /\ RunningAgentIsRegistered /\ NoticeAtMostOnce

(* "a detached or stale worker cannot publish over a task that has been    *)
(* recovered and claimed by another manager": while someone executes t,    *)
(* only the answer of that very worker completes or fails t.               *)
OnlyTheExecutorPublishes ==
    [][\A d \in Coros : \A t \in Tasks :
          /\ Executing(d, t)
          /\ status[t] = "running" /\ status'[t] \in {"completed", "failed"}
          => call[d] = "completed" /\ reply'[d] = "updated"]_vars

(* The table behaves as the queue of TaskLifecycle.                        *)
Lifecycle == INSTANCE TaskLifecycle
ImplementsLifecycle == Lifecycle!Spec

(* If some manager keeps running, every task that waits or runs is settled *)
(* in the end, those of crashed processes included.                        *)
EveryTaskSettles ==
    (\E p \in Procs : <>[](phase[p] = "active"))
        => \A t \in Tasks :
             [](status[t] \in {"enqueued", "running"}
                  => <>(status[t] \in Terminal \cup {"pruned"}))

(* docs/architecture.md: closing the manager "requeues genuinely           *)
(* interrupted rows before tool shutdown".  When no close is in progress   *)
(* and no manager is active, none of this live process's rows is running.  *)
CloseLeavesNothingRunning ==
    \A p \in Procs : Up(p) /\ phase[p] = "idle" =>
        \A t \in Tasks : status[t] = "running" => pid[t] # p
=============================================================================
