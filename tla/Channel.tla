------------------------------ MODULE Channel ------------------------------
(***************************************************************************)
(* The WeChat channel of one binding (channels/store.py, wechat/hub.py and *)
(* wechat/channel.py): messages polled into a durable inbox, claimed by    *)
(* the channel task, run one at a time as turns of a runtime thread, and   *)
(* answered.  The hub starts and stops channels as the binding is enabled  *)
(* and disabled; the server may die at any time.  A message is the number  *)
(* of its place in the chat.                                               *)
(***************************************************************************)
EXTENDS Naturals, Sequences, FiniteSets, FiniteSetsExt

CONSTANTS
    Slots,        \* channel objects: a new one may overlap one that is stopping
    Nobody,       \* no channel
    MaxQueue,     \* prompts queued in memory (100 in the code)
    MaxMessages,  \* bound: messages
    MaxEvents     \* bound: deaths of the server, requests that refresh the binding,
                  \* sends and agents that fail

ChannelAssumption ==
    /\ Nobody \notin Slots
    /\ {MaxQueue, MaxMessages, MaxEvents} \subseteq Nat

VARIABLES
    posted,     \* the chat: kinds of messages
    cursor,     \* sync_buf: how far the inbox has the chat
    inbox,      \* [message -> status]
    keyed,      \* [message -> status of the turn with its idempotency key]
    retried,    \* [message -> status of its newest turn without a key]
    enabled,    \* channel_bindings.enabled
    up,         \* the server runs
    bound,      \* the channel in _active
    refreshing, \* refreshes that wait for this channel to end, or for nobody
    state,      \* [slot -> "off", "run" or "stopping"]
    paused, queue,
    handling,   \* the command whose reply is being sent, 0 for none
    active,     \* the message being processed, 0 for none
    pc,         \* and where that is
    keyless,    \* its turn has no key
    canceled,   \* the agent's cancel event
    asks,       \* the approval: "none", "open" or "stuck"
    events,     \* how many of the events that the bound events
    abandoned,  \* history: messages whose task ended without finishing their row
    completions \* history: [message -> turns completed for it since the last /clear]

store == <<posted, cursor, inbox>>
runtime == <<keyed, retried>>
hub == <<enabled, up, bound, refreshing>>
task == <<active, pc, keyless>>
channel == <<state, paused, queue, handling, canceled, asks>>
history == <<abandoned, completions>>
vars == <<store, runtime, hub, task, channel, events, history>>

Messages == 1 .. MaxMessages
Kinds == {"prompt", "clear", "pause", "resume", "stop", "approve"}
Statuses == {"none", "running", "completed", "failed", "canceled"}
Queued == {"prompt", "clear"}

TypeOK ==
    /\ posted \in Seq(Kinds) /\ cursor \in 0 .. Len(posted)
    /\ inbox \in [Messages -> {"absent", "pending"} \cup (Statuses \ {"none"})]
    /\ keyed \in [Messages -> Statuses] /\ retried \in [Messages -> Statuses]
    /\ enabled \in BOOLEAN /\ up \in BOOLEAN /\ bound \in Slots \cup {Nobody}
    /\ refreshing \subseteq Slots \cup {Nobody}
    /\ state \in [Slots -> {"off", "run", "stopping"}]
    /\ \A c \in Slots : Len(queue[c]) <= MaxQueue
    /\ handling \in [Slots -> 0 .. MaxMessages] /\ active \in [Slots -> 0 .. MaxMessages]
    /\ pc \in [Slots -> {"none", "begin", "run", "asks", "send", "error", "clear"}]
    /\ asks \in [Slots -> {"none", "open", "stuck"}]

Init ==
    /\ posted = <<>> /\ cursor = 0 /\ inbox = [m \in Messages |-> "absent"]
    /\ keyed = [m \in Messages |-> "none"] /\ retried = [m \in Messages |-> "none"]
    /\ enabled \in BOOLEAN /\ up = FALSE /\ bound = Nobody /\ refreshing = {}
    /\ state = [c \in Slots |-> "off"]
    /\ paused = [c \in Slots |-> FALSE] /\ queue = [c \in Slots |-> <<>>]
    /\ handling = [c \in Slots |-> 0]
    /\ active = [c \in Slots |-> 0] /\ pc = [c \in Slots |-> "none"]
    /\ keyless = [c \in Slots |-> FALSE]
    /\ canceled = [c \in Slots |-> FALSE] /\ asks = [c \in Slots |-> "none"]
    /\ events = 0
    /\ abandoned = {} /\ completions = [m \in Messages |-> 0]

Finish(m, status) == inbox' = [inbox EXCEPT ![m] = status]
Event == events < MaxEvents /\ events' = events + 1

----------------------------------------------------------------------------
(* The inbox *)

Posts ==
    /\ Len(posted) < MaxMessages
    /\ \E k \in Kinds : posted' = Append(posted, k)
    /\ UNCHANGED <<cursor, inbox, runtime, hub, task, channel, events, history>>

\* INSERT OR IGNORE of an update; the service may send some of it again.
Saved(c, first, last) ==
    [m \in Messages |-> IF m \in first .. last /\ inbox[m] = "absent"
                        THEN "pending" ELSE inbox[m]]

\* One transaction saves the messages and the cursor.
Polls(c) ==
    /\ state[c] = "run" /\ handling[c] = 0
    /\ cursor < Len(posted) /\ cursor' = Len(posted)
    /\ \E first \in {1, cursor + 1} : inbox' = Saved(c, first, Len(posted))
    /\ UNCHANGED <<posted, runtime, hub, task, channel, events, history>>

Pending == {m \in Messages : inbox[m] = "pending"}

\* What a command does before it sends its reply.
Obeys(c, kind) ==
    /\ paused' = [paused EXCEPT ![c] = IF kind = "pause" THEN TRUE
                                       ELSE IF kind = "resume" THEN FALSE ELSE @]
    /\ canceled' = [canceled EXCEPT ![c] = @ \/ kind = "stop"]
    /\ IF kind = "approve" /\ asks[c] = "open"
       THEN asks' = [asks EXCEPT ![c] = "none"] /\ pc' = [pc EXCEPT ![c] = "run"]
       ELSE UNCHANGED <<asks, pc>>

\* The oldest pending message, while the queue has room: a prompt or /clear is
\* queued, any other command is obeyed at once.
Claims(c) ==
    LET m == Min(Pending)
    IN  /\ state[c] = "run" /\ handling[c] = 0 /\ Pending # {} /\ Len(queue[c]) < MaxQueue
        /\ Finish(m, "running")
        /\ IF posted[m] \in Queued
           THEN /\ queue' = [queue EXCEPT ![c] = Append(@, m)]
                /\ UNCHANGED <<handling, paused, canceled, asks, pc>>
           ELSE /\ handling' = [handling EXCEPT ![c] = m]
                /\ Obeys(c, posted[m])
                /\ UNCHANGED queue
        /\ UNCHANGED <<posted, cursor, runtime, hub, active, keyless, state, events, history>>

Replies(c) ==
    /\ state[c] = "run" /\ handling[c] # 0
    /\ Finish(handling[c], "completed")
    /\ handling' = [handling EXCEPT ![c] = 0]
    /\ UNCHANGED <<posted, cursor, runtime, hub, task, state, paused, queue, canceled, asks,
                   events, history>>

\* A reply that cannot be sent ends the channel's loop.
ReplyFails(c) ==
    /\ state[c] = "run" /\ handling[c] # 0 /\ Event
    /\ state' = [state EXCEPT ![c] = "stopping"]
    /\ canceled' = [canceled EXCEPT ![c] = TRUE]
    /\ abandoned' = abandoned \cup {handling[c]}
    /\ UNCHANGED <<store, runtime, hub, task, paused, queue, handling, asks, completions>>

----------------------------------------------------------------------------
(* Processing *)

StartsNext(c) ==
    /\ state[c] = "run" /\ ~paused[c] /\ active[c] = 0 /\ queue[c] # <<>>
    /\ active' = [active EXCEPT ![c] = Head(queue[c])]
    /\ queue' = [queue EXCEPT ![c] = Tail(@)]
    /\ pc' = [pc EXCEPT ![c] = IF posted[Head(queue[c])] = "clear" THEN "clear" ELSE "begin"]
    /\ UNCHANGED <<store, runtime, hub, keyless, state, paused, handling, canceled, asks, events,
                   history>>

ThreadBusy == \E m \in Messages : "running" \in {keyed[m], retried[m]}

\* The task ends; its row is finished, or left behind.
Ends(c, status) ==
    /\ Finish(active[c], status)
    /\ active' = [active EXCEPT ![c] = 0] /\ pc' = [pc EXCEPT ![c] = "none"]
    /\ keyless' = [keyless EXCEPT ![c] = FALSE]
    /\ UNCHANGED abandoned
Leaves(c) ==
    /\ active' = [active EXCEPT ![c] = 0] /\ pc' = [pc EXCEPT ![c] = "none"]
    /\ abandoned' = abandoned \cup {active[c]}
    /\ UNCHANGED <<inbox, keyless>>

\* /clear: the runtime thread first, then the agent, then the reply, then the row.
Clears(c) ==
    /\ pc[c] = "clear" /\ state[c] = "run"
    /\ IF ThreadBusy THEN Leaves(c) /\ UNCHANGED <<runtime, events, completions>>
       ELSE /\ completions' = [m \in Messages |-> 0]
            /\ keyed' = [m \in Messages |-> "none"] /\ retried' = [m \in Messages |-> "none"]
            /\ \/ Ends(c, "completed") /\ UNCHANGED events
               \/ Leaves(c) /\ Event
    /\ UNCHANGED <<posted, cursor, hub, channel>>

Answered(m) == keyed[m] = "completed"

\* reserve_turn with the message's key: a completed turn is answered again from
\* the store, any other is retried without a key; a busy thread refuses both.
Reserves(c) ==
    LET m == active[c]
    IN  /\ pc[c] = "begin" /\ state[c] = "run"
        /\ canceled' = [canceled EXCEPT ![c] = FALSE]
        /\ IF Answered(m) THEN pc' = [pc EXCEPT ![c] = "send"] /\ UNCHANGED <<runtime, keyless>>
           ELSE IF ThreadBusy THEN pc' = [pc EXCEPT ![c] = "error"] /\ UNCHANGED <<runtime, keyless>>
           ELSE /\ pc' = [pc EXCEPT ![c] = "run"]
                /\ keyless' = [keyless EXCEPT ![c] = keyed[m] # "none"]
                /\ IF keyed[m] = "none"
                   THEN keyed' = [keyed EXCEPT ![m] = "running"] /\ UNCHANGED retried
                   ELSE retried' = [retried EXCEPT ![m] = "running"] /\ UNCHANGED keyed
        /\ UNCHANGED <<store, hub, active, state, paused, queue, handling, asks, events, history>>

TurnIs(c, status) ==
    IF keyless[c] THEN retried' = [retried EXCEPT ![active[c]] = status] /\ UNCHANGED keyed
    ELSE keyed' = [keyed EXCEPT ![active[c]] = status] /\ UNCHANGED retried

AgentAnswers(c) ==
    /\ pc[c] = "run" /\ state[c] = "run"
    /\ TurnIs(c, "completed")
    /\ completions' = [completions EXCEPT ![active[c]] = @ + 1]
    /\ pc' = [pc EXCEPT ![c] = "send"]
    /\ UNCHANGED <<store, hub, active, keyless, channel, events, abandoned>>

AgentFails(c) ==
    /\ pc[c] = "run" /\ state[c] = "run" /\ Event
    /\ TurnIs(c, "failed")
    /\ pc' = [pc EXCEPT ![c] = "error"]
    /\ UNCHANGED <<store, hub, active, keyless, channel, history>>

\* /stop: the reply is sent before the row is marked canceled.
AgentCanceled(c) ==
    /\ pc[c] = "run" /\ canceled[c] /\ state[c] = "run"
    /\ TurnIs(c, "canceled")
    /\ Ends(c, "canceled")
    /\ UNCHANGED <<posted, cursor, hub, channel, events, completions>>

\* An approval asks one question at a time; a question that could not be sent
\* leaves the handler's event behind, and every later request is refused.
Asks(c) ==
    /\ pc[c] = "run" /\ asks[c] = "none" /\ state[c] = "run" /\ ~canceled[c]
    /\ \/ /\ asks' = [asks EXCEPT ![c] = "open"] /\ pc' = [pc EXCEPT ![c] = "asks"]
          /\ UNCHANGED events
       \/ asks' = [asks EXCEPT ![c] = "stuck"] /\ Event /\ UNCHANGED pc
    /\ UNCHANGED <<store, runtime, hub, active, keyless, state, paused, queue, handling, canceled,
                   history>>

\* Five minutes, or /stop.
AskEnds(c) ==
    /\ pc[c] = "asks" /\ state[c] = "run"
    /\ asks' = [asks EXCEPT ![c] = "none"] /\ pc' = [pc EXCEPT ![c] = "run"]
    /\ UNCHANGED <<store, runtime, hub, active, keyless, state, paused, queue, handling, canceled,
                   events, history>>

SendsAnswer(c) ==
    /\ pc[c] = "send" /\ state[c] = "run"
    /\ \/ Ends(c, "completed") /\ UNCHANGED events
       \/ Event /\ pc' = [pc EXCEPT ![c] = "error"] /\ UNCHANGED <<inbox, active, keyless, abandoned>>
    /\ UNCHANGED <<posted, cursor, runtime, hub, channel, completions>>

SendsError(c) ==
    /\ pc[c] = "error" /\ state[c] = "run"
    /\ Ends(c, "failed")
    /\ UNCHANGED <<posted, cursor, runtime, hub, channel, events, completions>>

----------------------------------------------------------------------------
(* Stopping *)

\* The active task is cancelled: before its try it leaves its row, inside it the
\* row is marked completed; only an agent that noticed the event first is canceled.
Unwinds(c) ==
    /\ state[c] = "stopping" /\ active[c] # 0
    /\ CASE pc[c] \in {"begin", "clear"} -> Leaves(c) /\ UNCHANGED runtime
         [] pc[c] \in {"run", "asks"} ->
                \/ Ends(c, "completed") /\ UNCHANGED runtime
                \/ Ends(c, "canceled") /\ TurnIs(c, "canceled")
         [] pc[c] = "send" -> Ends(c, "completed") /\ UNCHANGED runtime
         [] pc[c] = "error" -> Ends(c, "failed") /\ UNCHANGED runtime
    /\ UNCHANGED <<posted, cursor, hub, channel, events, completions>>

Blank(c) ==
    /\ state' = [state EXCEPT ![c] = "off"]
    /\ paused' = [paused EXCEPT ![c] = FALSE] /\ queue' = [queue EXCEPT ![c] = <<>>]
    /\ handling' = [handling EXCEPT ![c] = 0]
    /\ canceled' = [canceled EXCEPT ![c] = FALSE] /\ asks' = [asks EXCEPT ![c] = "none"]

\* The done callback unbinds the channel that it belongs to.
Stopped(c) ==
    /\ state[c] = "stopping" /\ active[c] = 0
    /\ Blank(c)
    /\ bound' = IF bound = c THEN Nobody ELSE bound
    /\ abandoned' = abandoned \cup {m \in Messages : \E i \in DOMAIN queue[c] : queue[c][i] = m}
                    \cup ({handling[c]} \ {0})
    /\ UNCHANGED <<store, runtime, enabled, up, refreshing, task, events, completions>>

----------------------------------------------------------------------------
(* The hub *)

\* A request sets `enabled` and refreshes: it stops the bound channel and waits
\* for it; a second request finds nothing to wait for.
Refresh ==
    /\ up /\ Event
    /\ enabled' \in BOOLEAN
    /\ refreshing' = refreshing \cup {bound}
    /\ bound' = Nobody
    /\ state' = IF bound = Nobody THEN state ELSE [state EXCEPT ![bound] = "stopping"]
    /\ canceled' = IF bound = Nobody THEN canceled ELSE [canceled EXCEPT ![bound] = TRUE]
    /\ UNCHANGED <<store, runtime, up, task, paused, queue, handling, asks, history>>

RequeueNone == inbox  \* mutant: what a channel had claimed is not requeued
Requeued == [m \in Messages |-> IF inbox[m] = "running" THEN "pending" ELSE inbox[m]]

\* start_binding: requeue, then a new channel, unless one is bound.
Starts ==
    IF enabled /\ bound = Nobody
    THEN \E c \in Slots :
             /\ state[c] = "off"
             /\ state' = [state EXCEPT ![c] = "run"]
             /\ bound' = c /\ inbox' = Requeued /\ abandoned' = {}
    ELSE UNCHANGED <<state, bound, inbox, abandoned>>

RefreshEnds ==
    /\ \E c \in refreshing :
           /\ c # Nobody => state[c] = "off"
           /\ refreshing' = refreshing \ {c}
    /\ Starts
    /\ UNCHANGED <<posted, cursor, runtime, enabled, up, task, paused, queue, handling, canceled,
                   asks, events, completions>>

\* Removing the binding's workspace disables it, and stops nothing.
WorkspaceRemoved ==
    /\ up /\ enabled /\ enabled' = FALSE
    /\ UNCHANGED <<store, runtime, up, bound, refreshing, task, channel, events, history>>

\* The rows of a dead server's turns fail when the thread is next used.
Recovered(turns) == [m \in Messages |-> IF turns[m] = "running" THEN "failed" ELSE turns[m]]

Crash ==
    /\ up /\ Event
    /\ up' = FALSE /\ bound' = Nobody /\ refreshing' = {}
    /\ state' = [c \in Slots |-> "off"]
    /\ paused' = [c \in Slots |-> FALSE] /\ queue' = [c \in Slots |-> <<>>]
    /\ handling' = [c \in Slots |-> 0]
    /\ active' = [c \in Slots |-> 0] /\ pc' = [c \in Slots |-> "none"]
    /\ keyless' = [c \in Slots |-> FALSE]
    /\ canceled' = [c \in Slots |-> FALSE] /\ asks' = [c \in Slots |-> "none"]
    /\ keyed' = Recovered(keyed) /\ retried' = Recovered(retried)
    /\ UNCHANGED <<store, enabled, history>>

Boot ==
    /\ ~up /\ up' = TRUE
    /\ Starts
    /\ UNCHANGED <<posted, cursor, runtime, enabled, refreshing, task, paused, queue, handling,
                   canceled, asks, events, completions>>

Next ==
    \/ Posts \/ Refresh \/ RefreshEnds \/ WorkspaceRemoved \/ Crash \/ Boot
    \/ \E c \in Slots :
           \/ Polls(c) \/ Claims(c) \/ Replies(c) \/ ReplyFails(c) \/ StartsNext(c) \/ Clears(c)
           \/ Reserves(c) \/ AgentAnswers(c) \/ AgentFails(c) \/ AgentCanceled(c) \/ Asks(c)
           \/ AskEnds(c) \/ SendsAnswer(c) \/ SendsError(c) \/ Unwinds(c) \/ Stopped(c)

Spec == Init /\ [][Next]_vars

----------------------------------------------------------------------------
(* Properties *)

\* The cursor never passes a message that the inbox does not have: what the
\* service will not send again is stored.
NothingLost == \A m \in 1 .. cursor : inbox[m] # "absent"

\* A message whose turn was completed under its key is never given to the agent
\* again, whatever died between the turn, the answer and the row.
CompletedRunsOnce ==
    \A m \in Messages : keyed[m] = "completed" => completions[m] = 1 /\ retried[m] = "none"

\* While a channel runs, every claimed message is in its hands, in those of a
\* channel still stopping, or in those of a task that failed before its row.
ClaimedIsHeld ==
    bound # Nobody =>
        \A m \in Messages : inbox[m] = "running" =>
            \/ m \in abandoned
            \/ \E c \in Slots : \/ m \in {handling[c], active[c]}
                                \/ \E i \in DOMAIN queue[c] : queue[c][i] = m

\* The turns of the thread run one at a time, also when a channel starts while
\* another is still stopping.
OneTurnAtATime ==
    \A c, d \in Slots : pc[c] \in {"run", "asks"} /\ pc[d] \in {"run", "asks"} => c = d
============================================================================
