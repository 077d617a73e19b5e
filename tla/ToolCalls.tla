------------------------------ MODULE ToolCalls ------------------------------
(***************************************************************************)
(* One batch of tool calls in a ToolRegistry (kairocli/tools/registry.py): *)
(* each call passes the gate of its MCP server, the browser lock, the      *)
(* approval lock with its prompt and the mutation lock before its handler  *)
(* runs.  A call is stopped by its timeout, by the batch's cancellation or *)
(* by the closing of the registry; its handler may run on when it is.  At  *)
(* the same time MCP servers are restarted, by the user or by a call of    *)
(* browser_connect (kairocli/mcp/manager.py, kairocli/browser.py).         *)
(***************************************************************************)
EXTENDS Naturals, FiniteSets

CONSTANTS
    Calls,           \* the calls of the batch
    Batches,         \* the kinds of calls it may consist of
    MaxConcurrency,  \* calls that run at a time
    Operators,       \* users who restart or disable servers meanwhile
    NoOne,           \* the holder of a lock that is free
    MaxDisturbances  \* bound: cancellation, closing, restarts and disables by them

(* Kinds of tools: one that needs nothing (read_file), workspace mutations *)
(* (write_file, execute_command), a tool of an ordinary MCP server, Chrome *)
(* tools (navigate to a sensitive page or to another, click), and          *)
(* browser_connect.                                                        *)
Kinds == {"read", "write", "shell", "tool", "bank", "open", "click", "connect"}
Servers == {"docs", "chrome"}
Locks == {"browser", "approval", "mutation"}
ApprovalKeys == {"write", "shell", "tool", "navigate", "click", "connect"} \cup Servers

ASSUME ToolCallsAssumption ==
    /\ Batches \subseteq [Calls -> Kinds]
    /\ IsFiniteSet(Calls)
    /\ MaxConcurrency \in Nat \ {0}
    /\ Operators \cap Calls = {} /\ NoOne \notin Calls \cup Operators
    /\ MaxDisturbances \in Nat

VARIABLES
    kind,       \* call -> its kind
    pc,         \* call -> what its task waits for, or that its handler runs
    answer,     \* call -> what the batch got for it
    cause,      \* call -> who stopped its task
    lock,       \* the asyncio locks -> the holder; a call whose pc is a lock waits for it
    resolved,   \* call -> the incarnation of the server its handler talks to
    consent,    \* call -> the epoch of its server in which it was approved
    prompted,   \* calls approved by a prompt of their own
    working,    \* calls whose handler runs, if need be after the call is over
    approved,   \* tool or server -> the epoch it was approved in, or 0
    client,     \* server -> the incarnation that is connected, or 0
    published,  \* server -> the incarnation whose tools are registered, or 0
    epoch,      \* server -> 1 and the lifecycle commands it has gone through
    started,    \* incarnations started so far
    op,         \* operator or call of browser_connect -> its transition
    lifecycle,  \* the holder of the manager's _lifecycle_lock
    url,        \* last_navigated_url
    uncertain,  \* state_uncertain
    page,       \* the page the browser really shows
    closing,    \* how far close() has come
    batch,      \* the batch
    disturbances \* cancellations, closings and operators' commands so far

consentVars == <<resolved, consent, prompted>>
callVars == <<kind, pc, answer, cause, consentVars, working>>
clientVars == <<client, published, epoch, started>>
serverVars == <<clientVars, op, lifecycle>>
browserVars == <<url, uncertain, page>>
registryVars == <<closing, batch, disturbances>>
vars == <<callVars, lock, approved, serverVars, browserVars, registryVars>>

Server(c) == CASE kind[c] = "tool" -> "docs"
               [] kind[c] \in {"bank", "open", "click"} -> "chrome"
               [] OTHER -> "none"
Remote(c) == Server(c) \in Servers
Chrome(c) == Server(c) = "chrome"
Governed(c) == kind[c] # "read"
Mutates(c) == kind[c] \in {"write", "shell"}
Navigates(c) == kind[c] \in {"bank", "open"}

Actors == Calls \cup Operators
Idle == [at |-> "idle", what |-> "restart", server |-> "chrome", had |-> FALSE]

Init ==
    /\ kind \in Batches
    /\ pc = [c \in Calls |-> "queued"] /\ answer = [c \in Calls |-> "none"]
    /\ cause = [c \in Calls |-> "none"] /\ resolved = [c \in Calls |-> 0]
    /\ consent = [c \in Calls |-> 0] /\ prompted = {} /\ working = {}
    /\ lock = [l \in Locks |-> NoOne]
    /\ approved = [k \in ApprovalKeys |-> 0]
    /\ client = [s \in Servers |-> 1] /\ published = client
    /\ epoch = [s \in Servers |-> 1] /\ started = 1
    /\ op = [p \in Actors |-> Idle] /\ lifecycle = NoOne /\ disturbances = 0
    /\ url = "none" /\ uncertain = FALSE /\ page = "blank"
    /\ closing = "open" /\ batch = "running"

TypeOK ==
    /\ kind \in Batches
    /\ pc \in [Calls -> {"queued", "gate", "prompt", "handler", "over"} \cup Locks]
    /\ answer \in [Calls -> {"none", "result", "timeout", "canceled", "closed"}]
    /\ cause \in [Calls -> {"none", "timeout", "batch", "close"}]
    /\ lock \in [Locks -> Calls \cup {NoOne}]
    /\ resolved \in [Calls -> Nat] /\ consent \in [Calls -> Nat]
    /\ prompted \subseteq Calls /\ working \subseteq Calls
    /\ approved \in [ApprovalKeys -> Nat]
    /\ client \in [Servers -> Nat] /\ published \in [Servers -> Nat]
    /\ epoch \in [Servers -> Nat] /\ started \in Nat
    /\ op \in [Actors -> [at : {"idle", "lock", "gate", "stopping", "starting", "restoring"},
                          what : {"restart", "disable", "connect"},
                          server : Servers, had : BOOLEAN]]
    /\ lifecycle \in Actors \cup {NoOne} /\ disturbances \in 0..MaxDisturbances
    /\ url \in {"none", "bank", "open"} /\ uncertain \in BOOLEAN
    /\ page \in {"blank", "bank", "open"}
    /\ closing \in {"open", "closing", "canceling", "closed"}
    /\ batch \in {"running", "canceling", "canceled", "returned"}
-----------------------------------------------------------------------------
Stopped(c) == cause[c] # "none"
Alive == {c \in Calls : pc[c] \notin {"queued", "over"}}

(* Who is inside a server's gate, which ServerGate shows to keep calls     *)
(* and transitions apart, and who waits to have it alone.                  *)
Sharing(s) == {c \in Alive : Server(c) = s /\ pc[c] # "gate"}
Waiting(s) == {p \in Actors : op[p].server = s /\ op[p].at = "gate"}
Owning(s) == {p \in Actors : op[p].server = s
                             /\ op[p].at \in {"stopping", "starting", "restoring"}}

(* The order of the locks a call takes, each only if it needs it.          *)
AfterApproval(c) == IF Mutates(c) THEN "mutation" ELSE "handler"
AfterBrowser(c) == IF Governed(c) THEN "approval" ELSE AfterApproval(c)
AfterGate(c) == IF Chrome(c) THEN "browser" ELSE AfterBrowser(c)

(* The call moves on to a stage: it waits for the stage's lock, or its     *)
(* handler starts to work; browser_connect begins with a transition.       *)
Proceed(c, stage) ==
    /\ pc' = [pc EXCEPT ![c] = stage]
    /\ working' = IF stage = "handler" THEN working \cup {c} ELSE working
    /\ op' = IF stage = "handler" /\ kind[c] = "connect"
               THEN [op EXCEPT ![c] = [Idle EXCEPT !.at = "lock", !.what = "connect"]]
               ELSE op

Free(l) == lock[l] = NoOne
Taken(l, c) == [lock EXCEPT ![l] = c]

(* Mutated form: releasing a lock forgets who holds it.                    *)
ReleasedByAnyone(c) ==
    [l \in Locks |-> IF lock[l] = c \/ l = "mutation" THEN NoOne ELSE lock[l]]

Released(c) == [l \in Locks |-> IF lock[l] = c THEN NoOne ELSE lock[l]]

(* Whatever ends execute_output releases all the call holds; an answer     *)
(* goes to the batch unless the task was stopped.                          *)
End(c) ==
    /\ pc' = [pc EXCEPT ![c] = "over"]
    /\ lock' = Released(c)
    /\ resolved' = [resolved EXCEPT ![c] = 0]
    /\ consent' = [consent EXCEPT ![c] = 0]
    /\ prompted' = prompted \ {c}

Finish(c) == End(c) /\ answer' = [answer EXCEPT ![c] = "result"]

(* Refused: the arguments are invalid, the tool is not registered, or the  *)
(* policy denies the call.                                                 *)
Refuse(c) ==
    /\ Finish(c)
    /\ UNCHANGED <<kind, cause, working, approved, serverVars,
                   browserVars, registryVars>>
-----------------------------------------------------------------------------
(* A slot of the batch's semaphore is taken from the call's start until    *)
(* the batch has an answer for it.                                         *)
SlotFree ==
    Cardinality({c \in Calls : pc[c] # "queued" /\ answer[c] = "none"}) < MaxConcurrency

EnterClosed(c) ==
    /\ pc[c] = "queued" /\ batch = "running" /\ SlotFree
    /\ closing # "open"
    /\ pc' = [pc EXCEPT ![c] = "over"]
    /\ answer' = [answer EXCEPT ![c] = "closed"]
    /\ UNCHANGED <<kind, cause, consentVars, working, lock, approved, serverVars,
                   browserVars, registryVars>>

Enter(c) ==
    /\ pc[c] = "queued" /\ batch = "running" /\ SlotFree
    /\ closing = "open"
    /\ \/ /\ Proceed(c, IF Remote(c) THEN "gate" ELSE AfterGate(c))
          /\ UNCHANGED <<kind, answer, cause, consentVars, lock, approved, clientVars,
                         lifecycle, browserVars, registryVars>>
       \/ ~Remote(c) /\ Refuse(c)

Admitted(c) == Waiting(Server(c)) = {} /\ Owning(Server(c)) = {}

(* The definition is looked up only inside the gate: a transition may have *)
(* replaced it, or removed it, while the call waited.                      *)
PassGate(c) ==
    /\ pc[c] = "gate" /\ ~Stopped(c) /\ Admitted(c)
    /\ \/ /\ published[Server(c)] # 0
          /\ resolved' = [resolved EXCEPT ![c] = published[Server(c)]]
          /\ Proceed(c, AfterGate(c))
          /\ UNCHANGED <<kind, answer, cause, consent, prompted, lock, approved,
                         clientVars, lifecycle, browserVars, registryVars>>
       \/ Refuse(c)

(* The browser lock is kept to the end: guard, prompt, handler and the     *)
(* record of the new page are one sequence.                                *)
BrowserLocked(c) ==
    /\ pc[c] = "browser" /\ ~Stopped(c) /\ Free("browser")
    /\ lock' = Taken("browser", c)
    /\ Proceed(c, AfterBrowser(c))
    /\ UNCHANGED <<kind, answer, cause, consentVars, approved, clientVars, lifecycle,
                   browserVars, registryVars>>
-----------------------------------------------------------------------------
(* What a session approval is remembered under: the tool, or its server.   *)
Tool(c) == IF Navigates(c) THEN "navigate" ELSE kind[c]
Keys(c) == {Tool(c)} \cup ({Server(c)} \cap Servers)
Remembered(c) == {k \in Keys(c) : approved[k] # 0}
Epoch(c) == IF Remote(c) THEN epoch[Server(c)] ELSE 1

(* BrowserGuard: a write needs a prompt of its own when the page is        *)
(* sensitive or not known for certain.                                     *)
ForcesApproval(c) == kind[c] = "click" /\ (uncertain \/ url = "bank")

NeedsApproval(c) == ForcesApproval(c) \/ Remembered(c) = {}

(* Mutated form: the approval lock is kept until the call is over.         *)
ApprovalKept(c) == Taken("approval", c)

ApprovalLeft(c) == [lock EXCEPT !["approval"] = NoOne]

ApprovalRecheck(c) ==
    /\ pc[c] = "approval" /\ ~Stopped(c) /\ Free("approval")
    /\ \/ /\ NeedsApproval(c)
          /\ pc' = [pc EXCEPT ![c] = "prompt"]
          /\ lock' = Taken("approval", c)
          /\ UNCHANGED <<kind, answer, cause, consentVars, working, approved,
                         serverVars, browserVars, registryVars>>
       \/ /\ ~NeedsApproval(c)
          /\ \E k \in Remembered(c) : consent' = [consent EXCEPT ![c] = approved[k]]
          /\ Proceed(c, AfterApproval(c)) /\ lock' = ApprovalLeft(c)
          /\ UNCHANGED <<kind, answer, cause, resolved, prompted, approved,
                         clientVars, lifecycle, browserVars, registryVars>>
       \/ Refuse(c)

(* The user approves once, for the session, or for all tools of the        *)
(* server, possibly with other arguments, which are validated before the   *)
(* decision is remembered; or the user rejects the call or skips it.       *)
Approve(c, keys) ==
    /\ pc[c] = "prompt" /\ ~Stopped(c)
    /\ approved' = [k \in DOMAIN approved |->
                      IF k \in keys /\ ~ForcesApproval(c) THEN Epoch(c) ELSE approved[k]]
    /\ consent' = [consent EXCEPT ![c] = Epoch(c)]
    /\ prompted' = prompted \cup {c}
    /\ Proceed(c, AfterApproval(c)) /\ lock' = ApprovalLeft(c)
    /\ UNCHANGED <<kind, answer, cause, resolved, clientVars, lifecycle,
                   browserVars, registryVars>>

Reject(c) == pc[c] = "prompt" /\ ~Stopped(c) /\ Refuse(c)

Answer(c) ==
    \/ \E keys \in {{}, {Tool(c)}, {Server(c)}} : Approve(c, keys)
    \/ Reject(c)

(* The policy is checked again once the mutations before it are done.      *)
MutationLocked(c) ==
    /\ pc[c] = "mutation" /\ ~Stopped(c) /\ Free("mutation")
    /\ \/ /\ Proceed(c, "handler") /\ lock' = Taken("mutation", c)
          /\ UNCHANGED <<kind, answer, cause, consentVars, approved, clientVars,
                         lifecycle, browserVars, registryVars>>
       \/ Refuse(c)
-----------------------------------------------------------------------------
(* The handler returns.  A navigation that succeeds is recorded; one that  *)
(* fails leaves the page as it was.                                        *)
HandlerEnds(c) ==
    /\ pc[c] = "handler" /\ ~Stopped(c) /\ op[c] = Idle
    /\ Finish(c)
    /\ working' = working \ {c}
    /\ \/ /\ Navigates(c)
          /\ url' = kind[c] /\ page' = kind[c] /\ uncertain' = FALSE
       \/ UNCHANGED browserVars
    /\ UNCHANGED <<kind, cause, approved, serverVars, registryVars>>

(* A handler whose call is over ends at last.                              *)
LeftoverEnds(c) ==
    /\ pc[c] = "over" /\ c \in working /\ op[c] = Idle
    /\ working' = working \ {c}
    /\ UNCHANGED <<kind, pc, answer, cause, consentVars, lock, approved, serverVars,
                   browserVars, registryVars>>

(* What a cancellation makes of browser_connect's transition: it leaves    *)
(* the queues at once, a restart under way turns to its rollback, and a    *)
(* rollback fails.                                                         *)
Abandoned(o) ==
    IF o.at \in {"stopping", "starting"} /\ o.had THEN [o EXCEPT !.at = "restoring"] ELSE Idle

(* Mutated form: the session stays certain of the page.                    *)
CertainAfterStop(c) == uncertain

UncertainAfterStop(c) == uncertain \/ (Chrome(c) /\ pc[c] = "handler")

(* A stopped task ends and releases everything.  Its handler ends as well, *)
(* or it outlives the grace period of its cancellation (in a thread, in a  *)
(* rollback); what it does to the page it does before the server takes     *)
(* another request.                                                        *)
Unwind(c) ==
    /\ c \in Alive /\ Stopped(c)
    /\ End(c)
    /\ uncertain' = UncertainAfterStop(c)
    /\ page' \in {page} \cup (IF Navigates(c) /\ pc[c] = "handler" THEN {kind[c]} ELSE {})
    /\ op' = [op EXCEPT ![c] = Abandoned(@)]
    /\ lifecycle' = IF lifecycle = c /\ op'[c] = Idle THEN NoOne ELSE lifecycle
    /\ \/ op'[c] # Idle /\ UNCHANGED working
       \/ op'[c] = Idle /\ working' = working \ {c}
       \/ Mutates(c) /\ UNCHANGED working
    /\ UNCHANGED <<kind, answer, cause, approved, clientVars, url,
                   registryVars>>
-----------------------------------------------------------------------------
(* The call's hard timeout sets its event and cancels its task.            *)
Timeout(c) ==
    /\ c \in Alive /\ ~Stopped(c) /\ answer[c] = "none"
    /\ cause' = [cause EXCEPT ![c] = "timeout"]
    /\ UNCHANGED <<kind, pc, answer, consentVars, working, lock, approved,
                   serverVars, browserVars, registryVars>>

(* The batch's side of a stopped call stops waiting for its task: when the *)
(* task is over, or after the grace period.                                *)

Verdict(c) == IF cause[c] = "timeout" THEN "timeout" ELSE "canceled"

GiveUp(c) ==
    /\ Stopped(c) /\ answer[c] = "none"
    /\ cause[c] = "close" => pc[c] = "over"
    /\ answer' = [answer EXCEPT ![c] = Verdict(c)]
    /\ UNCHANGED <<kind, pc, cause, consentVars, working, lock, approved,
                   serverVars, browserVars, registryVars>>

(* Bound on what happens to the batch from outside.                        *)
Disturb == disturbances < MaxDisturbances /\ disturbances' = disturbances + 1

StopAll(why) ==
    cause' = [c \in Calls |-> IF c \in Alive /\ ~Stopped(c) THEN why ELSE cause[c]]

(* The agent's event stops the batch: every call, and those that wait for  *)
(* the semaphore do not start.                                             *)
CancelBatch ==
    /\ batch = "running" /\ Disturb
    /\ batch' = "canceling"
    /\ StopAll("batch")
    /\ pc' = [c \in Calls |-> IF pc[c] = "queued" THEN "over" ELSE pc[c]]
    /\ answer' = [c \in Calls |-> IF pc[c] = "queued" THEN "canceled" ELSE answer[c]]
    /\ UNCHANGED <<kind, consentVars, working, lock, approved, serverVars,
                   browserVars, closing>>

(* The batch returns all answers, or raises: when it was canceled, at the  *)
(* latest after the grace period, or when a call's task was.               *)
EndBatch ==
    /\ \/ /\ batch = "running" /\ \A c \in Calls : answer[c] \notin {"none", "canceled"}
          /\ batch' = "returned"
       \/ /\ batch = "running" /\ \E c \in Calls : answer[c] = "canceled"
          /\ batch' = "canceled"
       \/ batch = "canceling" /\ batch' = "canceled"
    /\ UNCHANGED <<callVars, lock, approved, serverVars, browserVars, closing,
                   disturbances>>

(* close(): no call is let in any more; the tasks are canceled, and after  *)
(* the grace period the tools are forgotten.                               *)
Close ==
    /\ closing = "open" /\ Disturb
    /\ closing' = "closing"
    /\ UNCHANGED <<callVars, lock, approved, serverVars, browserVars, batch>>

CloseCancels ==
    /\ closing = "closing" /\ closing' = "canceling"
    /\ StopAll("close")
    /\ UNCHANGED <<kind, pc, answer, consentVars, working, lock, approved,
                   serverVars, browserVars, batch, disturbances>>

CloseForgets ==
    /\ closing = "canceling" /\ closing' = "closed"
    /\ published' = [s \in Servers |-> 0]
    /\ UNCHANGED <<callVars, lock, approved, client, epoch, started, op, lifecycle,
                   browserVars, batch, disturbances>>
-----------------------------------------------------------------------------
(* The transitions of the servers' manager, one at a time under its        *)
(* lifecycle lock and each alone in its server's gate.                     *)
(* Bound: only servers that the batch calls.                               *)
Concerned == {Server(c) : c \in Calls} \cap Servers

Operate(p, what, s) ==
    /\ op[p] = Idle /\ Disturb
    /\ op' = [op EXCEPT ![p] = [at |-> "lock", what |-> what, server |-> s, had |-> FALSE]]
    /\ UNCHANGED <<callVars, lock, approved, clientVars, lifecycle, browserVars, closing,
                   batch>>

(* A transition that a stopped call of browser_connect still runs waits    *)
(* for the call's cancellation wherever that would end it.                 *)
Undisturbed(p) == p \in Calls => (~Stopped(p) \/ pc[p] = "over")

Transit(p, at) == op[p].at = at /\ Undisturbed(p)

Leave(p) ==
    /\ op' = [op EXCEPT ![p] = Idle]
    /\ lifecycle' = IF lifecycle = p THEN NoOne ELSE lifecycle

LifecycleLocked(p) ==
    /\ Transit(p, "lock") /\ lifecycle = NoOne
    /\ \/ closing = "open" /\ op' = [op EXCEPT ![p].at = "gate"] /\ lifecycle' = p
       \/ closing # "open" /\ Leave(p)
    /\ UNCHANGED <<callVars, lock, approved, clientVars, browserVars, registryVars>>

(* Alone in the gate: the client is taken out of the table and its tools   *)
(* out of the registry, before it is closed.                               *)
TakeDown(p) ==
    /\ Transit(p, "gate") /\ Sharing(op[p].server) = {} /\ Owning(op[p].server) = {}
    /\ op' = [op EXCEPT ![p].had = client[op[p].server] # 0, ![p].at = "stopping"]
    /\ client' = [client EXCEPT ![op[p].server] = 0]
    /\ published' = [published EXCEPT ![op[p].server] = 0]
    /\ UNCHANGED <<callVars, lock, approved, epoch, started, lifecycle, browserVars,
                   registryVars>>

(* Mutated form: approvals given to the server outlive the command.        *)
KeepApprovals(s) == UNCHANGED approved

(* clear_mcp_server_approvals: those of the server and of its tools.       *)
ClearApprovals(s) ==
    LET its == {s} \cup (IF s = "chrome" THEN {"navigate", "click"} ELSE {"tool"})
    IN  approved' = [k \in DOMAIN approved |-> IF k \in its THEN 0 ELSE approved[k]]

(* The command is through: approvals are cleared before anyone enters the  *)
(* gate, and a new browser connection starts with a new session.           *)
Commit(p) ==
    /\ Leave(p)
    /\ ClearApprovals(op[p].server)
    /\ epoch' = [epoch EXCEPT ![op[p].server] = @ + 1]
    /\ IF op[p].what = "connect" THEN url' = "none" /\ uncertain' = FALSE
                                 ELSE UNCHANGED <<url, uncertain>>

Stop(p) ==
    /\ Transit(p, "stopping")
    /\ \/ /\ op[p].what = "disable" /\ Commit(p)
       \/ /\ op[p].what # "disable"
          /\ op' = [op EXCEPT ![p].at = "starting"]
          /\ UNCHANGED <<approved, epoch, lifecycle, url, uncertain>>
    /\ UNCHANGED <<callVars, lock, client, published, started, page, registryVars>>

Registers == closing = "open"

(* A new incarnation connects and publishes its tools, which a closing     *)
(* registry refuses.                                                       *)
Connect(s) ==
    /\ Registers
    /\ started' = started + 1
    /\ client' = [client EXCEPT ![s] = started']
    /\ published' = [published EXCEPT ![s] = started']
    /\ page' = IF s = "chrome" THEN "blank" ELSE page

StartUp(p) ==
    /\ Transit(p, "starting")
    /\ Connect(op[p].server)
    /\ Commit(p)
    /\ UNCHANGED <<callVars, lock, registryVars>>

(* The new client fails: the previous one, if there was one, is started    *)
(* again, with approvals and browser session as they were.                 *)
StartFails(p) ==
    /\ Transit(p, "starting")
    /\ \/ op[p].had /\ op' = [op EXCEPT ![p].at = "restoring"] /\ UNCHANGED lifecycle
       \/ ~op[p].had /\ Leave(p)
    /\ UNCHANGED <<callVars, lock, approved, clientVars, browserVars, registryVars>>

Restore(p) ==
    /\ Transit(p, "restoring")
    /\ Leave(p)
    /\ \/ Connect(op[p].server)
       \/ UNCHANGED <<client, published, started, page>>
    /\ UNCHANGED <<callVars, lock, approved, epoch, url, uncertain, registryVars>>

Transition(p) ==
    \/ LifecycleLocked(p) \/ TakeDown(p) \/ Stop(p)
    \/ StartUp(p) \/ StartFails(p) \/ Restore(p)

CallStep(c) ==
    \/ EnterClosed(c) \/ Enter(c) \/ PassGate(c) \/ BrowserLocked(c)
    \/ ApprovalRecheck(c) \/ MutationLocked(c)

Progress ==
    \/ \E c \in Calls : CallStep(c) \/ Answer(c) \/ HandlerEnds(c) \/ Unwind(c)
    \/ \E p \in Actors : Transition(p)

Next ==
    \/ Progress
    \/ \E c \in Calls : LeftoverEnds(c) \/ Timeout(c) \/ GiveUp(c)
    \/ CancelBatch \/ EndBatch
    \/ Close \/ CloseCancels \/ CloseForgets
    \/ \E p \in Operators, what \in {"restart", "disable"}, s \in Concerned : Operate(p, what, s)

Spec == Init /\ [][Next]_vars
-----------------------------------------------------------------------------
(* A lock is held only by a task that is alive, and where it should be:    *)
(* nobody who leaves, by whatever way, leaves a lock behind                *)
(* (registry.py:124-143, 463, 475, 554-570).                               *)
LocksLeft ==
    /\ \A c \in Calls :
         /\ lock["browser"] = c => pc[c] \in {"approval", "prompt", "handler"}
         /\ lock["approval"] = c => pc[c] = "prompt"
         /\ lock["mutation"] = c => pc[c] = "handler"
    /\ \A p \in Actors : lifecycle = p <=> op[p].at \notin {"idle", "lock"}

(* Four locks in a row, a prompt among them, and browser_connect, which    *)
(* waits for the calls of Chrome while they may wait for it: whoever is    *)
(* under way, somebody can move without a timeout, a cancellation or the   *)
(* end of the session (registry.py:336-475, browser.py:322-366).           *)
NobodyWaitsForEver ==
    (Alive # {} \/ \E p \in Actors : op[p].at # "idle") => ENABLED Progress

(* A handler of an MCP tool runs under an approval that was given to the   *)
(* server as it is since the last lifecycle command, not to its            *)
(* predecessor, and talks to the client that is connected                  *)
(* (registry.py:343-354, mcp/commands.py:130-135).                         *)
ConsentIsCurrent ==
    \A c \in Calls : pc[c] = "handler" /\ Remote(c) =>
        consent[c] = epoch[Server(c)] /\ resolved[c] = client[Server(c)]

(* A click on a sensitive page that the agent opened was approved by a     *)
(* prompt of its own, whatever was remembered, canceled or navigated in    *)
(* the meantime (browser.py:239-287, registry.py:492, 530-545).            *)
SensitiveWritesPrompted ==
    \A c \in Calls : pc[c] = "handler" /\ kind[c] = "click" /\ page = "bank" => c \in prompted

(* The workspace sees two mutations at once only when a call was stopped   *)
(* before (registry.py:464-475).                                           *)
OverlapOnlyAfterStop ==
    \A c, d \in working : c # d /\ Mutates(c) /\ Mutates(d) => Stopped(c) \/ Stopped(d)

(* In one batch mutations do not overlap (src/docs/architecture.md:714).   *)
MutationsApart ==
    \A c, d \in working : Mutates(c) /\ Mutates(d) => c = d

(* A closed registry publishes nothing, not even what a restart under way  *)
(* brings up, and runs no handler that is not on its way out               *)
(* (registry.py:248, 326, 1504-1522).                                      *)
ClosedIsFinal ==
    closing = "closed" =>
        /\ \A s \in Servers : published[s] = 0
        /\ \A c \in Alive : Stopped(c)

(* There is one prompt at a time, and it is needed as long as it is shown: *)
(* nobody else's approval, navigation or restart settles the question in   *)
(* the meantime (registry.py:376-396).                                     *)
PromptsNeeded ==
    \A c, d \in Calls : pc[c] = "prompt" => NeedsApproval(c) /\ (pc[d] = "prompt" => c = d)
=============================================================================
