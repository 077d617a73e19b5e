---------------------------- MODULE RuntimeTurns -----------------------------
(***************************************************************************)
(* The turns of kairocli/runtime_api.py and kairocli/web_app.py: HTTP      *)
(* servers that reserve turns in the shared RuntimeStore and execute each  *)
(* with an agent, while clients cancel them, answer their approval prompts *)
(* and delete their threads, and while servers shut down or die.           *)
(*                                                                         *)
(* One server is one asyncio loop and its database calls are synchronous,  *)
(* so what a handler does between two awaits is one step.  Transactions of *)
(* other servers may fall between two of one step's own.  That matters for *)
(* ClearThread, which is two steps; any other such order is also an order  *)
(* of whole steps (the delta timer, Flush, may fire just before any), or   *)
(* differs from one in the history of a turn that is over.                 *)
(***************************************************************************)
EXTENDS RuntimeStore

CONSTANTS
    MaxDeltas,    \* bound: deltas the agents stream
    FlushDeltas,  \* deltas that fill the buffer (RUNTIME_DELTA_CHARS)
    MaxOpen,      \* bound: prompts open at a time
    MaxEffort     \* bound: see Effort

ASSUME RuntimeTurnsAssumption ==
    /\ MaxDeltas \in Nat
    /\ FlushDeltas \in Nat \ {0}
    /\ MaxOpen \in Nat
    /\ MaxEffort \in Nat

VARIABLES
    \* the servers: RuntimeState, named by its owner_token
    server,     \* server -> "off", "up", "closing" (shutdown) or "dead"
    spid,       \* server -> its process id
    clearing,   \* server -> the thread it is in the middle of clearing
    \* the executions: execute_turn of a turn, at its home server
    home,       \* turn -> the server that executes it, from the reservation on
    exec,       \* turn -> "none", "queued", "running" or "done"
    told,       \* turns whose agent was told to cancel
    history,    \* turn -> the turns whose messages its agent was given
    emitted,    \* turns whose agent has pushed a delta
    buffer,     \* turn -> deltas RuntimeDeltaBuffer holds
    \* the approvals: WebApprover of a turn
    approvers,  \* turns registered in active_approvers
    prompt,     \* turn -> "none", "asked" or "answered"
    verdict,    \* turn -> _result, while a prompt is open
    \* what happened, for the properties
    lost,       \* turns a delta of which will never be in an event
    recovered,  \* turns failed by _recover_stale_running
    \* bounds
    deltas, deletes, faults

servers == <<server, spid, clearing>>
executions == <<home, exec, told, history, emitted, buffer>>
approvals == <<approvers, prompt, verdict>>
bounds == <<deltas, deletes, faults>>
records == <<lost, recovered>>
vars == <<store, servers, executions, approvals, records, bounds>>

TypeOK ==
    /\ StoreTypeOK
    /\ server \in [Owners -> {"off", "up", "closing", "dead"}]
    /\ spid \in [Owners -> Pids \cup {NoPid}]
    /\ clearing \in [Owners -> Threads \cup {None}]
    /\ home \in [Turns -> Owners \cup {NoOwner}]
    /\ exec \in [Turns -> {"none", "queued", "running", "done"}]
    /\ told \in SUBSET Turns
    /\ history \in [Turns -> SUBSET Turns]
    /\ emitted \in SUBSET Turns
    /\ buffer \in [Turns -> 0..FlushDeltas]
    /\ approvers \in SUBSET Turns
    /\ prompt \in [Turns -> {"none", "asked", "answered"}]
    /\ verdict \in [Turns -> BOOLEAN]
    /\ lost \in SUBSET Turns
    /\ recovered \in SUBSET Turns
    /\ deltas \in 0..MaxDeltas
    /\ deletes \in Nat
    /\ faults \in Nat
-----------------------------------------------------------------------------
Working(s) == server[s] \in {"up", "closing"}

(* _process_is_alive: some process has the pid, whichever it is.           *)
AlivePids == {spid[s] : s \in {s \in Owners : Working(s)}}

Executing(t) == exec[t] = "running"

(* What is bounded: the threads and turns created, the keys given, the     *)
(* threads deleted or cleared by a client and the database errors in the   *)
(* last handler of a turn, all together.                                   *)
Effort ==
    created + reserved + Cardinality({t \in Turns : key[t] # NoKey})
        + deletes + faults

(* What a process keeps of the turns S is gone: their executions ended, or *)
(* the process did.  An open prompt goes with the agent that waits for it. *)
Leave(S) ==
    /\ home' = Without(home, S, NoOwner)
    /\ exec' = Without(exec, S, "done")
    /\ told' = told \ S
    /\ history' = Without(history, S, {})
    /\ emitted' = emitted \ S
    /\ approvers' = approvers \ S
    /\ prompt' = Without(prompt, S, "none")
    /\ verdict' = Without(verdict, S, FALSE)

(* What the buffers of the turns S hold is lost.                           *)
Drop(S) ==
    /\ buffer' = Without(buffer, S, 0)
    /\ lost' = lost \cup {t \in S : buffer[t] > 0}
-----------------------------------------------------------------------------
(* A server process starts with a pid no other live one has and opens the  *)
(* store, which recovers the turns of the dead.                            *)
Start(s, p) ==
    /\ server[s] = "off"
    /\ p \notin AlivePids
    /\ server' = [server EXCEPT ![s] = "up"]
    /\ spid' = [spid EXCEPT ![s] = p]
    /\ Recover(StaleTurns(AlivePids \cup {p}))
    /\ recovered' = recovered \cup StaleTurns(AlivePids \cup {p})
    /\ UNCHANGED <<created, threads, reserved, thread, key, log, clearing,
                   executions, approvals, lost, bounds>>

(* POST /v1/threads.                                                       *)
CreateThread(s) ==
    /\ server[s] = "up"
    /\ Effort < MaxEffort
    /\ StoreCreate
    /\ UNCHANGED <<servers, executions, approvals, records, bounds>>

(* DELETE /v1/threads/{id}: allowed while a turn of the thread runs.       *)
DeleteThread(s, th) ==
    /\ server[s] = "up"
    /\ Effort < MaxEffort
    /\ StoreDelete(th)
    /\ deletes' = deletes + 1
    /\ UNCHANGED <<servers, executions, approvals, records, deltas, faults>>

(* The channel's /clear of its thread: refused while a turn runs there.    *)
(* The deletions follow at once, but other servers do not wait for them.   *)
ClearThread(s, th) ==
    /\ server[s] = "up"
    /\ Effort < MaxEffort
    /\ Clearable(th)
    /\ clearing' = [clearing EXCEPT ![s] = th]
    /\ deletes' = deletes + 1
    /\ UNCHANGED <<store, server, spid, executions, approvals, records, deltas,
                   faults>>

ClearDeletes(s) ==
    /\ clearing[s] # None
    /\ StoreClear(clearing[s])
    /\ clearing' = [clearing EXCEPT ![s] = None]
    /\ UNCHANGED <<server, spid, executions, approvals, records, bounds>>

(* POST .../turns: the reservation, then the registration of the approver  *)
(* and of the turn before the first await.  The execution is only queued.  *)
CreateTurn(s, th, k) ==
    LET t == reserved + 1
    IN  /\ server[s] = "up"
        /\ Effort < IF k = NoKey THEN MaxEffort ELSE MaxEffort - 1
        /\ StoreReserve(th, k, s, spid[s], AlivePids)
        /\ home' = [home EXCEPT ![t] = s]
        /\ exec' = [exec EXCEPT ![t] = "queued"]
        /\ approvers' = approvers \cup {t}
        /\ recovered' = recovered \cup StaleTurns(AlivePids)
        /\ UNCHANGED <<servers, told, history, emitted, buffer, prompt,
                       verdict, lost, bounds>>

(* The same request again: answered from the row.                          *)
ReplayTurn(s, th, k) ==
    /\ server[s] = "up"
    /\ StoreReplay(th, k, AlivePids)
    /\ recovered' = recovered \cup StaleTurns(AlivePids)
    /\ UNCHANGED <<servers, executions, approvals, lost, bounds>>

(* execute_turn begins: a turn that is no longer running is left alone,    *)
(* any other gets an agent with the thread's history.                      *)
Begin(t) ==
    /\ exec[t] = "queued"
    /\ \/ status[t] # "running" /\ Leave({t})
       \/ /\ status[t] = "running"
          /\ exec' = [exec EXCEPT ![t] = "running"]
          /\ history' = [history EXCEPT ![t] = CompletedMessages(t)]
          /\ UNCHANGED <<home, told, emitted, approvals>>
    /\ UNCHANGED <<store, servers, buffer, records, bounds>>

(* The events of the turn's thread once n held deltas are written, and the *)
(* turns that have lost one, since a deleted thread takes no event.        *)
Written(t, n) ==
    IF n = 0 THEN log[thread[t]]
    ELSE Emitted(thread[t], log[thread[t]], Event(t, "delta"))

LostWith(t, n) ==
    IF n > 0 /\ thread[t] \notin threads THEN lost \cup {t} ELSE lost

(* RuntimeDeltaBuffer.push: hold the delta, or write all that is held.     *)
Push(t) ==
    LET held == buffer[t] + 1
        n == IF held >= FlushDeltas THEN held ELSE 0
    IN  /\ Executing(t)
        /\ deltas < MaxDeltas
        /\ deltas' = deltas + 1
        /\ emitted' = emitted \cup {t}
        /\ buffer' = [buffer EXCEPT ![t] = held - n]
        /\ log' = [log EXCEPT ![thread[t]] = Written(t, n)]
        /\ lost' = LostWith(t, n)
        /\ UNCHANGED <<created, threads, reserved, status, thread, key, owner,
                       pid, servers, home, exec, told, history, approvals,
                       recovered, deletes, faults>>

(* The timer armed by push.                                                *)
Flush(t) ==
    /\ Executing(t)
    /\ buffer[t] > 0
    /\ buffer' = [buffer EXCEPT ![t] = 0]
    /\ log' = [log EXCEPT ![thread[t]] = Written(t, buffer[t])]
    /\ lost' = LostWith(t, buffer[t])
    /\ UNCHANGED <<created, threads, reserved, status, thread, key, owner, pid,
                   servers, home, exec, told, history, emitted, approvals,
                   recovered, bounds>>

(* The last push of extra deltas, and deltas.close().                      *)
Close(t, extra) ==
    /\ buffer' = [buffer EXCEPT ![t] = 0]
    /\ lost' = LostWith(t, buffer[t] + extra)

(* The end of execute_turn: what is buffered is written, then the status   *)
(* with the server's own token, then the finally block.                    *)
Settle(t, outcome, extra) ==
    /\ Executing(t)
    /\ Close(t, extra)
    /\ UpdateTurnStatus(t, outcome, {home[t]}, Written(t, buffer[t] + extra))
    /\ Leave({t})
    /\ UNCHANGED <<created, threads, reserved, thread, key, servers, recovered,
                   bounds>>

(* The agent answered; an answer that was not streamed is written now.     *)
(* Telling it to cancel does not make sure that it does not.               *)
Answer(t) ==
    /\ prompt[t] = "none"
    /\ \E extra \in {0, 1} :
        /\ extra = 1 => t \notin emitted
        /\ Settle(t, "completed", extra)

(* The agent raised.                                                       *)
Fail(t) == Settle(t, "failed", 0)

(* The agent obeyed: AgentCanceled, or the CancelledError of a shutdown.   *)
Stop(t) == t \in told /\ Settle(t, "canceled", 0)

(* A handler of execute_turn hits a database error while it publishes the  *)
(* outcome: the finally block runs, the row is left as it was.             *)
Break(t) ==
    /\ Executing(t)
    /\ Effort < MaxEffort
    /\ faults' = faults + 1
    /\ Drop({t})
    /\ Leave({t})
    /\ UNCHANGED <<store, servers, recovered, deltas, deletes>>
-----------------------------------------------------------------------------
(* WebApprover.__call__: the request event, which needs the thread, then a *)
(* fresh wait whose result is a refusal until somebody answers.            *)
Ask(t) ==
    /\ Executing(t)
    /\ thread[t] \in threads
    /\ prompt[t] = "none"
    /\ Cardinality({u \in Turns : prompt[u] # "none"}) < MaxOpen
    /\ prompt' = [prompt EXCEPT ![t] = "asked"]
    /\ verdict' = [verdict EXCEPT ![t] = FALSE]
    /\ UNCHANGED <<store, servers, executions, approvers, records, bounds>>

(* POST .../approval, to the turn's own server.                            *)
Respond(t, approved) ==
    /\ t \in approvers
    /\ server[home[t]] = "up"
    /\ thread[t] \in threads
    /\ prompt[t] # "none"
    /\ verdict' = [verdict EXCEPT ![t] = approved]
    /\ prompt' = [prompt EXCEPT ![t] = "answered"]
    /\ UNCHANGED <<store, servers, executions, approvers, records, bounds>>

(* The coroutine returns _result: somebody answered, or five minutes have  *)
(* passed.  An answer between the timer and this step still counts.        *)
Resume(t) ==
    /\ Executing(t)
    /\ prompt[t] # "none"
    /\ prompt' = [prompt EXCEPT ![t] = "none"]
    /\ verdict' = [verdict EXCEPT ![t] = FALSE]
    /\ UNCHANGED <<store, servers, executions, approvers, records, bounds>>
-----------------------------------------------------------------------------

(* The approvers of the turns S are popped and answered with a refusal.    *)
Refuse(S) ==
    /\ approvers' = approvers \ S
    /\ verdict' = [t \in Turns |->
                    IF t \in S \cap approvers THEN FALSE ELSE verdict[t]]
    /\ prompt' = [t \in Turns |->
                    IF t \in S \cap approvers /\ prompt[t] # "none"
                    THEN "answered" ELSE prompt[t]]

(* POST .../cancel at server s, for a turn of any server: the status with  *)
(* no token; then, if the turn is at home here, its agent and approver.    *)
CancelTurn(s, t) ==
    LET here == {u \in {t} : home[u] = s}
    IN  /\ server[s] = "up"
        /\ status[t] = "running"
        /\ UpdateTurnStatus(t, "canceled", Owners, log[thread[t]])
        /\ told' = told \cup {u \in here : exec[u] = "running"}
        /\ Refuse(here)
        /\ UNCHANGED <<created, threads, reserved, thread, key, servers, home,
                       exec, history, emitted, buffer, records, bounds>>

(* Mutated form of ActiveTurns: only the turns that have begun.            *)
ActiveTurnsBegun(s) == {t \in Turns : home[t] = s /\ exec[t] = "running"}

(* active_turn_ids: from the reservation to the finally block.             *)
ActiveTurns(s) ==
    {t \in Turns : home[t] = s /\ exec[t] \in {"queued", "running"}}

(* lifespan shutdown, up to its first await: every active turn is settled  *)
(* with the server's token, its agent told and its approver refused; then  *)
(* every task is cancelled.  At most one turn of a thread ends here.       *)
Shutdown(s) ==
    LET ending == {t \in ActiveTurns(s) : Settled(t, {s})}
    IN  /\ server[s] = "up"
        /\ server' = [server EXCEPT ![s] = "closing"]
        /\ status' = Without(status, ending, "canceled")
        /\ owner' = Without(owner, ending, NoOwner)
        /\ pid' = Without(pid, ending, NoPid)
        /\ log' = [th \in Threads |->
                    LET here == {t \in ending : thread[t] = th}
                    IN  IF here = {} THEN log[th]
                        ELSE LET t == CHOOSE t \in here : TRUE
                             IN  Emitted(th, log[th], Event(t, "canceled"))]
        /\ told' = told \cup {t \in ActiveTurns(s) : exec[t] = "running"}
        /\ Refuse(ActiveTurns(s))
        /\ UNCHANGED <<created, threads, reserved, thread, key, spid, clearing,
                       home, exec, history, emitted, buffer, records, bounds>>

(* The process ends: after its shutdown's grace period, or killed.         *)
Die(s) ==
    /\ Working(s)
    /\ server' = [server EXCEPT ![s] = "dead"]
    /\ spid' = [spid EXCEPT ![s] = NoPid]
    /\ clearing' = [clearing EXCEPT ![s] = None]
    /\ Leave({t \in Turns : home[t] = s})
    /\ Drop({t \in Turns : home[t] = s})
    /\ UNCHANGED <<store, recovered, bounds>>
-----------------------------------------------------------------------------
Init ==
    /\ StoreInit
    /\ server = [s \in Owners |-> "off"]
    /\ spid = [s \in Owners |-> NoPid]
    /\ clearing = [s \in Owners |-> None]
    /\ home = [t \in Turns |-> NoOwner]
    /\ exec = [t \in Turns |-> "none"]
    /\ told = {}
    /\ history = [t \in Turns |-> {}]
    /\ emitted = {}
    /\ buffer = [t \in Turns |-> 0]
    /\ approvers = {}
    /\ prompt = [t \in Turns |-> "none"]
    /\ verdict = [t \in Turns |-> FALSE]
    /\ lost = {} /\ recovered = {}
    /\ deltas = 0 /\ deletes = 0 /\ faults = 0

ServerStep(s) ==
    \/ \E p \in Pids : Start(s, p)
    \/ CreateThread(s)
    \/ \E th \in Threads : DeleteThread(s, th) \/ ClearThread(s, th)
    \/ \E th \in Threads, k \in Keys \cup {NoKey} :
        CreateTurn(s, th, k) \/ ReplayTurn(s, th, k)
    \/ \E t \in Turns : CancelTurn(s, t)
    \/ Shutdown(s)

TurnStep(t) ==
    \/ Begin(t)
    \/ Push(t) \/ Flush(t)
    \/ Answer(t) \/ Fail(t) \/ Stop(t) \/ Break(t)
    \/ Ask(t) \/ Resume(t)
    \/ \E approved \in BOOLEAN : Respond(t, approved)

(* A loop in the middle of a clear does nothing else.                      *)
LoopStep(s) ==
    /\ clearing[s] = None
    /\ ServerStep(s) \/ \E t \in Turns : home[t] = s /\ TurnStep(t)

Next == \E s \in Owners : LoopStep(s) \/ ClearDeletes(s) \/ Die(s)

Spec == Init /\ [][Next]_vars
-----------------------------------------------------------------------------
(* A thread never has two running turns, whichever servers reserve and     *)
(* however the earlier one ended (architecture.md: "a database transaction *)
(* permits only one new running turn per thread").                         *)
OneRunningPerThread ==
    \A t, u \in Running : thread[t] = thread[u] => t = u

(* A running turn whose server serves is queued or executing there, so     *)
(* somebody will end it; a shutdown leaves none behind.  A database error  *)
(* in the last handler of a turn is the exception (Break).                 *)
LiveTurnHasExecutor ==
    faults = 0 =>
        \A t \in Running :
            /\ server[owner[t]] # "closing"
            /\ server[owner[t]] = "up" =>
                    home[t] = owner[t] /\ exec[t] \in {"queued", "running"}

(* The history an agent was given stays the thread's history for as long   *)
(* as its turn runs: no earlier turn of the thread completes late, and no  *)
(* pruning takes one away.                                                 *)
HistoryStaysCurrent ==
    \A t \in Running :
        exec[t] = "running" => history[t] = CompletedMessages(t)

Ends(th) == {i \in DOMAIN log[th] : log[th][i].kind \in Terminal}

Starts(th) == {i \in DOMAIN log[th] : log[th][i].kind = "started"}

(* A turn ends at most once.                                               *)
EndsOnce(th) ==
    \A i, j \in Ends(th) : log[th][i].turn = log[th][j].turn => i = j

(* A turn starts only after the one before it has ended; one that recovery *)
(* failed ends without an event.                                           *)
StartsInTurn(th) ==
    \A i, j \in Starts(th) :
        i < j => \/ log[th][i].turn \in recovered
                 \/ \E m \in Ends(th) :
                        i < m /\ m < j /\ log[th][m].turn = log[th][i].turn

(* The end of a turn is told, with its status.                             *)
EndIsTold(th) ==
    \A i \in Starts(th) :
        LET t == log[th][i].turn
        IN  status[t] \in Terminal /\ t \notin recovered =>
                \E m \in Ends(th) : log[th][m] = Event(t, status[t])

(* All that a completed turn streamed is told before its end.              *)
EndIsLast(th) ==
    \A i \in Ends(th) :
        log[th][i].kind = "completed" =>
            buffer[log[th][i].turn] = 0 /\ log[th][i].turn \notin lost

(* What a client reads off the events of a thread is what happened, in     *)
(* whichever order completions, cancellations by any server, shutdowns,    *)
(* recoveries and new turns come.                                          *)
LogTellsTheStory ==
    \A th \in Threads :
        EndsOnce(th) /\ StartsInTurn(th) /\ EndIsTold(th) /\ EndIsLast(th)

(* The store's upkeep leaves running turns alone: recovery fails no turn   *)
(* of a server that lives ("another live Runtime process cannot mark       *)
(* active work failed") and retention evicts none ("never evicts a running *)
(* one"); only a client's deletion takes a running turn away, or a clear   *)
(* between whose check and deletions another server has reserved it.       *)
UpkeepSparesTheLiving ==
    [][\A t \in Running :
        /\ t \in recovered' \ recovered => server[owner[t]] = "dead"
        /\ status'[t] = "gone" =>
            \/ deletes' # deletes
            \/ \E s \in Owners \ {owner[t]} : clearing[s] = thread[t]]_vars

(* Once an agent was told to cancel, the prompt it waits for cannot return *)
(* a grant any more, not even the one a client gave just before.           *)
CancelRefuses == \A t \in told : ~verdict[t]
=============================================================================
