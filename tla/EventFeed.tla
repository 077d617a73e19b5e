------------------------------ MODULE EventFeed ------------------------------
(***************************************************************************)
(* The events of one thread of the runtime server and the clients that     *)
(* read them: rows appended by a turn, by the task that names the thread,  *)
(* by a cancellation and by other processes; pages of them; and streams    *)
(* that follow them, woken by one asyncio.Event for all followers          *)
(* (kairocli/runtime_api.py, kairocli/web_app.py).                         *)
(***************************************************************************)
EXTENDS Integers, Sequences, FiniteSets, FiniteSetsExt

CONSTANTS
    Clients,    \* who reads the events
    Keep,       \* max_events_per_thread
    PageCap,    \* the largest limit a request may ask for
    MaxEvents   \* bound: events ever appended

EventFeedAssumption ==
    /\ IsFiniteSet(Clients) /\ Keep \in Nat /\ Keep >= 2
    /\ PageCap \in Nat \ {0} /\ MaxEvents \in Nat \ {0}

VARIABLES
    log,       \* the sequence numbers of the stored events
    last,      \* the last sequence number given out
    exists,    \* the thread is stored
    running,   \* the thread has a running turn
    executing, \* how many execute_turn go on (also after their turn was canceled)
    titling,   \* _publish_thread_title goes on
    signal,    \* RuntimeState.event_signal(thread) is set
    signalled, \* events notify_events was called for, or for a later one
    inline,    \* wait_for starts to wait at once (Python 3.12 and later)
    stream,    \* client -> where its stream stands
    batch,     \* client -> events its stream has read and not yet sent
    got,       \* client -> the events it received, in order
    caught     \* client -> the last event when a page told it that was all

vars == <<log, last, exists, running, executing, titling, signal, signalled, inline,
          stream, batch, got, caught>>
writers == <<exists, running, executing, titling>>
readers == <<batch, got, caught>>

TypeOK ==
    /\ log \subseteq 1..MaxEvents /\ Cardinality(log) <= Keep /\ last \in 0..MaxEvents
    /\ exists \in BOOLEAN /\ running \in BOOLEAN /\ executing \in 0..MaxEvents
    /\ titling \in BOOLEAN /\ signal \in BOOLEAN /\ inline \in BOOLEAN
    /\ signalled \subseteq 1..MaxEvents
    /\ stream \in [Clients -> {"off", "check", "send", "arm", "wait"}]
    /\ batch \in [Clients -> SUBSET (1..MaxEvents)]
    /\ \A c \in Clients : got[c] \in Seq(1..MaxEvents)
    /\ caught \in [Clients -> 0..MaxEvents]

(* RuntimeThreadStore.create: the thread comes with its first event.       *)
Init ==
    /\ log = {1} /\ last = 1 /\ exists = TRUE /\ running = FALSE /\ executing = 0
    /\ titling = FALSE /\ signal = FALSE /\ signalled = {} /\ inline \in BOOLEAN
    /\ stream = [c \in Clients |-> "off"] /\ batch = [c \in Clients |-> {}]
    /\ got = [c \in Clients |-> <<>>] /\ caught = [c \in Clients |-> 0]

Received(c) == {got[c][i] : i \in DOMAIN got[c]}
Cursor(c) == Max(Received(c) \cup {0})

(* RuntimeThreadStore.events: the first events after the cursor; a page    *)
(* asks for one more than its limit.                                       *)
Capped(limit) == IF limit < PageCap + 1 THEN limit ELSE PageCap + 1
AfterNewest(cursor, limit) ==  \* mutant: ORDER BY sequence DESC
    LET later == {n \in log : n > cursor}
    IN  {n \in later : Cardinality({m \in later : m > n}) < Capped(limit)}
After(cursor, limit) ==
    LET later == {n \in log : n > cursor}
    IN  {n \in later : Cardinality({m \in later : m < n}) < Capped(limit)}

-----------------------------------------------------------------------------
(* Writing. RuntimeThreadStore._append_event: the newest Keep are kept.    *)
Pruned(events) == {n \in events : Cardinality({m \in events : m > n}) < Keep}

Added ==
    /\ last < MaxEvents /\ last' = last + 1
    /\ log' = Pruned(log \cup {last + 1})

(* RuntimeState.notify_events wakes every stream that waits.               *)
Notify ==
    /\ signal' = TRUE /\ signalled' = signalled \cup 1..last'
    /\ stream' = [c \in Clients |-> IF stream[c] = "wait" THEN "check" ELSE stream[c]]
    /\ UNCHANGED <<inline, readers>>

Unheard == UNCHANGED <<signal, signalled, inline, stream, readers>>

(* POST .../turns: reserve_turn appends turn.started and nobody is told.   *)
StartTurn ==
    /\ exists /\ ~running
    /\ running' = TRUE /\ executing' = executing + 1 /\ titling' \in {titling, TRUE}
    /\ Added /\ Unheard /\ UNCHANGED exists

(* RuntimeState.event for a delta, a tool call, a plan or an approval: a   *)
(* row of a thread that was deleted is refused by its foreign key.         *)
Emit ==
    /\ executing > 0 /\ exists
    /\ Added /\ Notify /\ UNCHANGED writers

(* execute_turn ends: update_turn_status appends its event only if the turn *)
(* is still running, and the streams are told in any case.                 *)
EndTurn ==
    /\ executing > 0 /\ executing' = executing - 1
    /\ \/ running /\ running' = FALSE /\ Added
       \/ (running => executing > 1) /\ UNCHANGED <<running, log, last>>
    /\ Notify /\ UNCHANGED <<exists, titling>>

(* POST .../cancel: the agent is asked to stop and stops later.            *)
CancelTurn ==
    /\ running /\ running' = FALSE
    /\ Added /\ Notify /\ UNCHANGED <<exists, executing, titling>>

(* _publish_thread_title: the name or the failure is an event, which is    *)
(* dropped with a warning when the thread is gone.                         *)
Title ==
    /\ titling /\ titling' = FALSE
    /\ \/ exists /\ Added /\ Notify
       \/ ~exists /\ UNCHANGED <<log, last>> /\ Unheard
    /\ UNCHANGED <<exists, running, executing>>

(* Another process, or a WeChat channel, appends to the thread.            *)
Elsewhere == exists /\ ~running /\ Added /\ Unheard /\ UNCHANGED writers

(* delete_thread spares nothing; delete_workspace_threads and              *)
(* _prune_threads spare a thread with a running turn. An execution goes on *)
(* without its turn.                                                       *)
DeleteThread ==
    /\ exists /\ exists' = FALSE /\ log' = {} /\ running' = FALSE
    /\ Unheard /\ UNCHANGED <<last, executing, titling>>

(* clear_thread, a channel's /clear, keeps the thread without its events.  *)
ClearThread ==
    /\ exists /\ ~running /\ log' = {}
    /\ Unheard /\ UNCHANGED <<last, writers>>

-----------------------------------------------------------------------------
(* Reading. Events are handed out by their numbers.                        *)
InOrder(events) ==
    CHOOSE q \in [1..Cardinality(events) -> events] :
        \A i, j \in 1..Cardinality(events) : i < j => q[i] < q[j]

(* GET .../events without follow: at most limit events, fewer     *)
(* when the response is full, the first whatever its size.                 *)
Page(c, limit, fit) ==
    /\ exists /\ stream[c] = "off"
    /\ LET selected == After(Cursor(c), limit + 1)
           asked == {n \in selected : Cardinality({m \in selected : m < n}) < limit}
           sent == {n \in asked : Cardinality({m \in asked : m < n}) < fit}
           more == selected # asked \/ sent # asked
       IN  /\ got' = [got EXCEPT ![c] = @ \o InOrder(sent)]
           /\ caught' = [caught EXCEPT ![c] = IF more THEN @ ELSE last]
    /\ UNCHANGED <<log, last, writers, signal, signalled, inline, stream, batch>>

(* GET .../events with follow, after the last event the client received.   *)
Follow(c) ==
    /\ exists /\ stream[c] = "off"
    /\ stream' = [stream EXCEPT ![c] = "check"]
    /\ UNCHANGED <<log, last, writers, signal, signalled, inline, readers>>

(* One round of _follow_runtime_events after is_disconnected: clear, then  *)
(* read, then send or wait, with no await between.                         *)
Read(c, limit) ==
    /\ stream[c] = "check"
    /\ signal' = FALSE
    /\ LET events == After(Cursor(c), limit)
       IN  /\ batch' = [batch EXCEPT ![c] = events]
           /\ stream' = [stream EXCEPT ![c] = IF events # {} THEN "send"
                                              ELSE IF inline THEN "wait" ELSE "arm"]
    /\ UNCHANGED <<log, last, writers, signalled, inline, got, caught>>

(* Before Python 3.12 wait_for runs signal.wait() in a task of its own,    *)
(* which looks at the event one step later.                                *)
Arm(c) ==
    /\ stream[c] = "arm"
    /\ stream' = [stream EXCEPT ![c] = IF signal THEN "check" ELSE "wait"]
    /\ UNCHANGED <<log, last, writers, signal, signalled, inline, readers>>

Send(c) ==
    /\ stream[c] = "send"
    /\ LET n == Min(batch[c])
       IN  /\ got' = [got EXCEPT ![c] = @ \o <<n>>]
           /\ batch' = [batch EXCEPT ![c] = @ \ {n}]
           /\ stream' = [stream EXCEPT ![c] = IF batch[c] = {n} THEN "check" ELSE "send"]
    /\ UNCHANGED <<log, last, writers, signal, signalled, inline, caught>>

(* RUNTIME_EVENT_HEARTBEAT_SECONDS pass.                                   *)
Heartbeat(c) ==
    /\ stream[c] = "wait"
    /\ stream' = [stream EXCEPT ![c] = "check"]
    /\ UNCHANGED <<log, last, writers, signal, signalled, inline, readers>>

(* The connection breaks: what was read and not sent is lost.              *)
Disconnect(c) ==
    /\ stream[c] # "off"
    /\ stream' = [stream EXCEPT ![c] = "off"] /\ batch' = [batch EXCEPT ![c] = {}]
    /\ UNCHANGED <<log, last, writers, signal, signalled, inline, got, caught>>

Next ==
    \/ StartTurn \/ Emit \/ EndTurn \/ CancelTurn \/ Title \/ Elsewhere
    \/ DeleteThread \/ ClearThread
    \/ \E c \in Clients :
        \/ \E limit, fit \in 1..PageCap : Page(c, limit, fit)
        \/ \E limit \in 1..PageCap : Read(c, limit)
        \/ Follow(c) \/ Arm(c) \/ Send(c) \/ Heartbeat(c) \/ Disconnect(c)

Spec == Init /\ [][Next]_vars

-----------------------------------------------------------------------------
(* A client misses no stored event before the last one it received, or     *)
(* before the end a page told it of, and receives none twice or out of     *)
(* order, across pages, streams and broken connections                     *)
(* (RuntimeThreadStore.events, Last-Event-ID, Has-More).                   *)
NothingSkipped ==
    \A c \in Clients :
        /\ \A i, j \in DOMAIN got[c] : i < j => got[c][i] < got[c][j]
        /\ {n \in log : n <= Cursor(c) \/ n <= caught[c]} \subseteq Received(c)

(* No stream waits while a stored event this process signalled is unread,  *)
(* except where wait_for looks at the event late and another stream has    *)
(* cleared it (_follow_runtime_events, one event for all streams).         *)
Unread(c) == {n \in log \cap signalled : n > Cursor(c)}
NobodySleepsOnNews ==
    \A c \in Clients :
        stream[c] = "wait" /\ Unread(c) # {} => ~inline /\ Cardinality(Clients) > 1

(* A thread that was deleted has no event, whatever its turn, its title    *)
(* and its streams still do (the foreign key of the events).               *)
DeletedStaysEmpty == ~exists => log = {} /\ ~running
=============================================================================
