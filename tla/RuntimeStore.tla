----------------------------- MODULE RuntimeStore -----------------------------
(***************************************************************************)
(* The RuntimeThreadStore of kairocli/runtime_api.py: the threads, turns   *)
(* and events of one SQLite database that every runtime server on the      *)
(* machine opens.  A method is one transaction, so it is one operator      *)
(* here, over the whole table; clear_thread alone is two.                  *)
(*                                                                         *)
(* Thread and turn identifiers are numbered in the order of their creation *)
(* (created_at orders both), and never used twice (uuid4).                 *)
(***************************************************************************)
EXTENDS Integers, Sequences, FiniteSets

CONSTANTS
    Owners,       \* owner tokens (uuid4), one per server process
    NoOwner,      \* owner_token = ''
    Pids,
    NoPid,        \* owner_pid = 0
    Keys,         \* Idempotency-Key header values
    NoKey,        \* no header: the column is NULL
    MaxThreads,   \* bound: threads ever created
    MaxTurns,     \* bound: turns ever reserved
    KeepThreads,  \* max_threads
    KeepTurns,    \* max_turns_per_thread
    KeepEvents    \* max_events_per_thread

ASSUME RuntimeStoreAssumption ==
    /\ NoOwner \notin Owners
    /\ NoPid \notin Pids
    /\ NoKey \notin Keys
    /\ MaxThreads \in Nat
    /\ MaxTurns \in Nat
    /\ KeepThreads \in Nat /\ KeepThreads >= 2
    /\ KeepTurns \in Nat /\ KeepTurns >= 2
    /\ KeepEvents \in Nat /\ KeepEvents >= 2

Threads == 1..MaxThreads

Turns == 1..MaxTurns

(* The turn of an event that belongs to no turn (thread.created), and the  *)
(* thread of a turn that was never reserved.                               *)
None == 0

Terminal == {"completed", "failed", "canceled"}

(* Of the kinds of events, tool.approval_request and tool.approval_timeout *)
(* are left out: nothing here depends on them.                             *)
Kinds == Terminal \cup {"created", "started", "delta"}

Events == [turn : Turns \cup {None}, kind : Kinds]

VARIABLES
    created,   \* threads ever created
    threads,   \* the rows of the threads table
    reserved,  \* turns ever reserved
    status,    \* turn -> status column ("absent" before, "gone" after)
    thread,    \* turn -> thread_id column
    key,       \* turn -> idempotency_key column
    owner,     \* turn -> owner_token column
    pid,       \* turn -> owner_pid column
    log        \* thread -> its retained events, oldest first

store == <<created, threads, reserved, status, thread, key, owner, pid, log>>

StoreTypeOK ==
    /\ created \in 0..MaxThreads
    /\ threads \in SUBSET (1..created)
    /\ reserved \in 0..MaxTurns
    /\ status \in [Turns -> Terminal \cup {"absent", "running", "gone"}]
    /\ thread \in [Turns -> Threads \cup {None}]
    /\ key \in [Turns -> Keys \cup {NoKey}]
    /\ owner \in [Turns -> Owners \cup {NoOwner}]
    /\ pid \in [Turns -> Pids \cup {NoPid}]
    /\ log \in [Threads -> Seq(Events)]
    \* a column is empty exactly where the code empties it
    /\ \A t \in Turns :
        /\ status[t] = "absent" <=> t > reserved
        /\ status[t] = "running" <=> owner[t] # NoOwner
        /\ status[t] = "running" <=> pid[t] # NoPid
    \* a turn's row is a row of an existing thread (the foreign key)
    /\ \A t \in Turns :
        status[t] \in Terminal \cup {"running"} => thread[t] \in threads
    /\ \A th \in Threads : Len(log[th]) <= KeepEvents
    /\ \A th \in Threads \ threads : log[th] = << >>
-----------------------------------------------------------------------------
Rows(th) ==
    {t \in Turns : thread[t] = th /\ status[t] \in Terminal \cup {"running"}}

Running == {t \in Turns : status[t] = "running"}

(* The members of S that are not among its n newest.                       *)
BeyondNewest(S, n) == {x \in S : Cardinality({y \in S : y > x}) >= n}

(* _append_event: what the events of a thread become.  Insert, then delete *)
(* what is beyond the newest.  Inserting for a thread that was deleted     *)
(* breaks the foreign key and leaves nothing.                              *)
Emitted(th, events, event) ==
    IF th \notin threads THEN << >>
    ELSE LET longer == Append(events, event)
         IN  IF Len(longer) <= KeepEvents THEN longer ELSE Tail(longer)

Event(t, kind) == [turn |-> t, kind |-> kind]

(* _recover_stale_running: the running rows whose owner's pid belongs to   *)
(* no process.  The token is not consulted.                                *)
StaleTurns(alive) == {t \in Running : pid[t] \notin alive}

Without(f, S, none) == [t \in Turns |-> IF t \in S THEN none ELSE f[t]]

(* Their status becomes failed; no event is appended.                      *)
Recover(stale) ==
    /\ status' = Without(status, stale, "failed")
    /\ owner' = Without(owner, stale, NoOwner)
    /\ pid' = Without(pid, stale, NoPid)

(* Mutated form of Settled: whatever the row's status is.                  *)
SettledAlways(t, tokens) == status[t] \in Terminal \cup {"running"}

(* The predicate of update_turn_status: the row is still running and, when *)
(* the caller passes a token, still the caller's.                          *)
Settled(t, tokens) == status[t] = "running" /\ owner[t] \in tokens

(* Mutated form of UpdateTurnStatus: the event is appended whether or not  *)
(* the row was updated.                                                    *)
UpdateTurnStatusUnasked(t, outcome, tokens, events) ==
    LET settled == Settled(t, tokens)
        th == thread[t]
    IN  /\ status' = IF settled THEN [status EXCEPT ![t] = outcome] ELSE status
        /\ owner' = IF settled THEN [owner EXCEPT ![t] = NoOwner] ELSE owner
        /\ pid' = IF settled THEN [pid EXCEPT ![t] = NoPid] ELSE pid
        /\ log' = [log EXCEPT ![th] = Emitted(th, events, Event(t, outcome))]

(* update_turn_status: compare and set, with the terminal event in the     *)
(* same transaction.  events: those of the turn's thread at that moment.   *)
UpdateTurnStatus(t, outcome, tokens, events) ==
    LET settled == Settled(t, tokens)
        th == thread[t]
    IN  /\ status' = IF settled THEN [status EXCEPT ![t] = outcome] ELSE status
        /\ owner' = IF settled THEN [owner EXCEPT ![t] = NoOwner] ELSE owner
        /\ pid' = IF settled THEN [pid EXCEPT ![t] = NoPid] ELSE pid
        /\ log' = [log EXCEPT ![th] =
                     IF settled THEN Emitted(th, events, Event(t, outcome))
                     ELSE events]

StoreInit ==
    /\ created = 0
    /\ threads = {}
    /\ reserved = 0
    /\ status = [t \in Turns |-> "absent"]
    /\ thread = [t \in Turns |-> None]
    /\ key = [t \in Turns |-> NoKey]
    /\ owner = [t \in Turns |-> NoOwner]
    /\ pid = [t \in Turns |-> NoPid]
    /\ log = [th \in Threads |-> << >>]

(* The threads _prune_threads may delete: no turn of theirs is running.    *)
IdleThreads == {u \in threads : \A t \in Running : thread[t] # u}

DropRows(dropped) ==
    /\ status' = [t \in Turns |->
                    IF thread[t] \in dropped THEN "gone" ELSE status[t]]
    /\ owner' = [t \in Turns |->
                    IF thread[t] \in dropped THEN NoOwner ELSE owner[t]]
    /\ pid' = [t \in Turns |->
                    IF thread[t] \in dropped THEN NoPid ELSE pid[t]]

(* create: the row, its first event, and the pruning of the idle threads   *)
(* beyond the newest.                                                      *)
StoreCreate ==
    LET th == created + 1
        pruned == BeyondNewest(IdleThreads, KeepThreads - 1)
    IN  /\ created < MaxThreads
        /\ created' = th
        /\ threads' = (threads \ pruned) \cup {th}
        /\ DropRows(pruned)
        /\ log' = [u \in Threads |->
                    IF u = th THEN <<Event(None, "created")>>
                    ELSE IF u \in pruned THEN << >> ELSE log[u]]
        /\ UNCHANGED <<reserved, thread, key>>

(* delete_thread: the rows of the thread go, a running turn's too.         *)
StoreDelete(th) ==
    /\ th \in threads
    /\ threads' = threads \ {th}
    /\ DropRows({th})
    /\ log' = [log EXCEPT ![th] = << >>]
    /\ UNCHANGED <<created, reserved, thread, key>>

(* clear_thread looks for a running turn, which forbids it, in a statement *)
(* of its own: no transaction is open yet.                                 *)
Clearable(th) == th \in threads /\ \A t \in Running : thread[t] # th

(* The deletions of clear_thread; the thread itself stays.                 *)
StoreClear(th) ==
    /\ DropRows({th})
    /\ log' = [log EXCEPT ![th] = << >>]
    /\ UNCHANGED <<created, threads, reserved, thread, key>>

(* No turn of the thread is running once the stale ones are recovered.     *)
Vacant(th, stale, me) == \A t \in Running \ stale : thread[t] # th

KeyRows(th, k) == {t \in Rows(th) : k # NoKey /\ key[t] = k}

(* reserve_turn, first use of the key: recovery, the running row, its      *)
(* event and the pruning of older rows in one transaction.  When a running *)
(* turn refuses it, everything is rolled back, the recovery included.      *)
StoreReserve(th, k, me, mypid, alive) ==
    LET t == reserved + 1
        stale == StaleTurns(alive)
        pruned == BeyondNewest(Rows(th) \ (Running \ stale), KeepTurns - 1)
    IN  /\ th \in threads
        /\ reserved < MaxTurns
        /\ KeyRows(th, k) = {}
        /\ Vacant(th, stale, me)
        /\ reserved' = t
        /\ status' = [u \in Turns |->
                        IF u = t THEN "running"
                        ELSE IF u \in pruned THEN "gone"
                        ELSE IF u \in stale THEN "failed" ELSE status[u]]
        /\ thread' = [thread EXCEPT ![t] = th]
        /\ key' = [key EXCEPT ![t] = k]
        /\ owner' = [Without(owner, stale, NoOwner) EXCEPT ![t] = me]
        /\ pid' = [Without(pid, stale, NoPid) EXCEPT ![t] = mypid]
        /\ log' = [log EXCEPT ![th] = Emitted(th, @, Event(t, "started"))]
        /\ UNCHANGED <<created, threads>>

(* reserve_turn, a key it already knows: only the recovery is committed,   *)
(* and the caller is told the earlier turn and its status.                 *)
StoreReplay(th, k, alive) ==
    /\ th \in threads
    /\ KeyRows(th, k) # {}
    /\ Recover(StaleTurns(alive))
    /\ UNCHANGED <<created, threads, reserved, thread, key, log>>

(* completed_messages: the answered turns a turn is given as its history.  *)
CompletedMessages(t) ==
    {u \in Rows(thread[t]) : status[u] = "completed" /\ u # t}
=============================================================================
