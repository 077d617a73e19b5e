-------------------------- MODULE RuntimeTurns_proofs --------------------------
(***************************************************************************)
(* Theorems about RuntimeTurns for any number of servers, process ids,     *)
(* threads, turns and retained rows.  Base says what the tables, servers   *)
(* and executions keep in every state; Fewer and New, what a step can do   *)
(* to the rows of the turns; the parts after them each need only these.    *)
(* A lemma that ends in Step goes through the actions of Next.  The last   *)
(* part reads the events of a thread against the rows of its turns.        *)
(***************************************************************************)
EXTENDS RuntimeTurns, FiniteSetTheorems, TLAPS

USE DEF Turns, Threads, None

-----------------------------------------------------------------------------
(*                              The database                               *)

(* The columns of the turns.                                               *)
RowsOK ==
    /\ reserved \in 0..MaxTurns
    /\ status \in [Turns -> Terminal \cup {"absent", "running", "gone"}]
    /\ thread \in [Turns -> Threads \cup {None}]
    /\ key \in [Turns -> Keys \cup {NoKey}]
    /\ owner \in [Turns -> Owners \cup {NoOwner}]
    /\ pid \in [Turns -> Pids \cup {NoPid}]
    /\ \A t \in Turns :
        /\ status[t] = "absent" <=> t > reserved
        /\ status[t] = "absent" <=> thread[t] = None
        /\ status[t] = "running" <=> owner[t] # NoOwner
        /\ status[t] = "running" <=> pid[t] # NoPid

(* The rows of the threads, and those of turns and events that need them.  *)
ThreadsOK ==
    /\ created \in 0..MaxThreads
    /\ threads \in SUBSET (1..created)
    /\ \A t \in Turns :
        status[t] \in Terminal \cup {"running"} => thread[t] \in threads
    /\ log \in [Threads -> Seq(Events)]
    /\ \A th \in Threads : Len(log[th]) <= KeepEvents
    /\ \A th \in Threads \ threads : log[th] = << >>

(* The two together are the type invariant of the store.                   *)
LEMMA StoreParts == RowsOK /\ ThreadsOK => StoreTypeOK
BY DEF StoreTypeOK, RowsOK, ThreadsOK

(* What a step may do to the rows of the turns, if it reserves none: a     *)
(* running turn ends, and any turn may be deleted.                         *)
Ended(t) == status[t] = "running" /\ status'[t] \in Terminal

Fewer ==
    /\ UNCHANGED <<reserved, thread, key>>
    /\ status' \in [Turns -> Terminal \cup {"absent", "running", "gone"}]
    /\ owner' \in [Turns -> Owners \cup {NoOwner}]
    /\ pid' \in [Turns -> Pids \cup {NoPid}]
    /\ \A t \in Turns :
        \/ status'[t] = status[t] /\ owner'[t] = owner[t] /\ pid'[t] = pid[t]
        \/ /\ Ended(t) \/ (status[t] # "absent" /\ status'[t] = "gone")
           /\ owner'[t] = NoOwner /\ pid'[t] = NoPid

(* Recovery ends running turns.                                            *)
LEMMA FewerRecover ==
    ASSUME RowsOK, NEW S \in SUBSET Running, Recover(S),
           UNCHANGED <<reserved, thread, key>>
    PROVE  Fewer
BY DEF RowsOK, Running, Recover, Without, Fewer, Ended, Terminal

(* update_turn_status ends at most one running turn.                       *)
LEMMA FewerUpdate ==
    ASSUME RowsOK, NEW t \in Turns, NEW outcome \in Terminal, NEW tokens, NEW events,
           UpdateTurnStatus(t, outcome, tokens, events),
           UNCHANGED <<reserved, thread, key>>
    PROVE  Fewer
BY DEF RowsOK, UpdateTurnStatus, Settled, Fewer, Ended, Terminal

(* The deletion of threads takes their turns with them.                    *)
LEMMA FewerDrop ==
    ASSUME RowsOK, NEW dropped \in SUBSET Threads, DropRows(dropped),
           UNCHANGED <<reserved, thread, key>>
    PROVE  Fewer
BY DEF RowsOK, DropRows, Fewer, Ended, Terminal

(* A shutdown ends the running turns of its server.                        *)
LEMMA FewerShutdown == ASSUME RowsOK, NEW s \in Owners, Shutdown(s) PROVE Fewer
BY DEF RowsOK, Shutdown, Settled, Without, Fewer, Ended, Terminal

(* A step that leaves the table alone.                                     *)
LEMMA FewerNot ==
    ASSUME RowsOK, UNCHANGED <<reserved, status, thread, key, owner, pid>>
    PROVE  Fewer
BY DEF RowsOK, Fewer

Reserves ==
    \E s \in Owners, th \in Threads, k \in Keys \cup {NoKey} :
        clearing[s] = None /\ CreateTurn(s, th, k)

(* What a step does to the rows of the turns.                              *)
LEMMA RowStep ==
    ASSUME RowsOK, threads \in SUBSET Threads, clearing \in [Owners -> Threads \cup {None}],
           created \in Nat, [Next]_vars
    PROVE  Fewer \/ Reserves
<1>1. CASE UNCHANGED vars
  BY <1>1, FewerNot DEF vars, store
<1>2. ASSUME NEW s \in Owners, LoopStep(s) PROVE Fewer \/ Reserves
  <2>1. ASSUME NEW p \in Pids, Start(s, p) PROVE Fewer
    <3>1. StaleTurns(AlivePids \cup {p}) \in SUBSET Running
      BY DEF StaleTurns
    <3> QED BY <2>1, <3>1, FewerRecover DEF Start
  <2>2. CASE CreateThread(s)
    <3>1. BeyondNewest(IdleThreads, KeepThreads - 1) \in SUBSET Threads
      BY DEF BeyondNewest, IdleThreads
    <3> QED BY <2>2, <3>1, FewerDrop DEF CreateThread, StoreCreate
  <2>3. ASSUME NEW th \in Threads, DeleteThread(s, th) PROVE Fewer
    BY <2>3, FewerDrop DEF DeleteThread, StoreDelete
  <2>4. ASSUME NEW th \in Threads, ClearThread(s, th) PROVE Fewer
    BY <2>4, FewerNot DEF ClearThread, store
  <2>5. ASSUME NEW th \in Threads, NEW k \in Keys \cup {NoKey}, CreateTurn(s, th, k)
        PROVE  Reserves
    BY <1>2, <2>5 DEF Reserves, LoopStep
  <2>6. ASSUME NEW th \in Threads, NEW k \in Keys \cup {NoKey}, ReplayTurn(s, th, k)
        PROVE  Fewer
    <3>1. StaleTurns(AlivePids) \in SUBSET Running
      BY DEF StaleTurns
    <3> QED BY <2>6, <3>1, FewerRecover DEF ReplayTurn, StoreReplay
  <2>7. ASSUME NEW t \in Turns, CancelTurn(s, t) PROVE Fewer
    BY <2>7, FewerUpdate DEF CancelTurn, Terminal
  <2>8. CASE Shutdown(s)
    BY <2>8, FewerShutdown
  <2>9. ASSUME NEW t \in Turns, TurnStep(t) PROVE Fewer
    <3>1. ASSUME NEW outcome \in Terminal, NEW extra, Settle(t, outcome, extra) PROVE Fewer
      BY <3>1, FewerUpdate DEF Settle
    <3>2. CASE Answer(t) \/ Fail(t) \/ Stop(t)
      BY <3>1, <3>2 DEF Answer, Fail, Stop, Terminal
    <3>3. CASE Begin(t) \/ Push(t) \/ Flush(t) \/ Break(t) \/ Ask(t) \/ Resume(t)
      BY <3>3, FewerNot DEF Begin, Push, Flush, Break, Ask, Resume, store
    <3>4. ASSUME NEW approved \in BOOLEAN, Respond(t, approved) PROVE Fewer
      BY <3>4, FewerNot DEF Respond, store
    <3> QED BY <2>9, <3>2, <3>3, <3>4 DEF TurnStep
  <2> QED BY <1>2, <2>1, <2>2, <2>3, <2>4, <2>5, <2>6, <2>7, <2>8, <2>9
             DEF LoopStep, ServerStep
<1>3. ASSUME NEW s \in Owners, ClearDeletes(s) PROVE Fewer
  BY <1>3, FewerDrop DEF ClearDeletes, StoreClear
<1>4. ASSUME NEW s \in Owners, Die(s) PROVE Fewer
  BY <1>4, FewerNot DEF Die, store
<1> QED BY <1>1, <1>2, <1>3, <1>4 DEF Next

(* The columns stay well typed.                                            *)
LEMMA RowsFewer == ASSUME RowsOK, Fewer PROVE RowsOK'
BY DEF RowsOK, Fewer, Ended, Terminal

(* A reservation adds one running row and may settle and evict others.     *)
LEMMA RowsReserve ==
    ASSUME RowsOK, NEW th \in Threads, NEW k \in Keys \cup {NoKey}, NEW s \in Owners,
           NEW p \in Pids, NEW alive, StoreReserve(th, k, s, p, alive)
    PROVE  RowsOK'
<1> DEFINE t == reserved + 1
           stale == StaleTurns(alive)
<1>1. t \in Turns /\ reserved' = t
  BY RuntimeStoreAssumption DEF RowsOK, StoreReserve
<1>2. stale \in SUBSET Running
  BY DEF StaleTurns
<1>3. PICK pruned \in SUBSET Turns :
        /\ pruned \subseteq Rows(th)
        /\ status' = [u \in Turns |->
                        IF u = t THEN "running"
                        ELSE IF u \in pruned THEN "gone"
                        ELSE IF u \in stale THEN "failed" ELSE status[u]]
        /\ pruned \cap Running \subseteq stale
  <2>1. BeyondNewest(Rows(th) \ (Running \ stale), KeepTurns - 1)
          \in SUBSET (Rows(th) \ (Running \ stale))
    BY DEF BeyondNewest
  <2>2. Rows(th) \subseteq Turns
    BY DEF Rows
  <2> QED BY <2>1, <2>2 DEF StoreReserve
<1>4. /\ owner' = [Without(owner, stale, NoOwner) EXCEPT ![t] = s]
      /\ pid' = [Without(pid, stale, NoPid) EXCEPT ![t] = p]
      /\ key' = [key EXCEPT ![t] = k]
      /\ thread' = [thread EXCEPT ![t] = th]
  BY DEF StoreReserve
<1>5. \A u \in pruned : status[u] # "absent"
  BY <1>3 DEF Rows, Terminal
<1>6. \A u \in stale : status[u] = "running"
  BY <1>2 DEF Running
<1>7. \A u \in pruned : u \in stale \/ status[u] # "running"
  BY <1>3 DEF Running
<1>8. status' \in [Turns -> Terminal \cup {"absent", "running", "gone"}]
  BY <1>3 DEF RowsOK, Terminal
<1>9. owner' \in [Turns -> Owners \cup {NoOwner}] /\ pid' \in [Turns -> Pids \cup {NoPid}]
  BY <1>1, <1>4 DEF RowsOK, Without
<1>10. ASSUME NEW u \in Turns
       PROVE  /\ status'[u] = "absent" <=> u > reserved'
              /\ status'[u] = "absent" <=> thread'[u] = None
              /\ status'[u] = "running" <=> owner'[u] # NoOwner
              /\ status'[u] = "running" <=> pid'[u] # NoPid
  <2>1. CASE u = t
    BY <1>1, <1>3, <1>4, <2>1, RuntimeStoreAssumption DEF RowsOK, Without
  <2>2. CASE u # t
    <3>1. owner'[u] = (IF u \in stale THEN NoOwner ELSE owner[u])
          /\ pid'[u] = (IF u \in stale THEN NoPid ELSE pid[u]) /\ thread'[u] = thread[u]
      BY <1>1, <1>4, <2>2 DEF Without, RowsOK
    <3>2. status'[u] = IF u \in pruned THEN "gone"
                       ELSE IF u \in stale THEN "failed" ELSE status[u]
      BY <1>3, <2>2
    <3> QED BY <1>1, <1>5, <1>6, <1>7, <2>2, <3>1, <3>2 DEF RowsOK
  <2> QED BY <2>1, <2>2
<1> QED BY <1>1, <1>4, <1>8, <1>9, <1>10 DEF RowsOK

-----------------------------------------------------------------------------
(*                               The servers                               *)

(* A working server has a process id of its own.                           *)
ServersOK ==
    /\ server \in [Owners -> {"off", "up", "closing", "dead"}]
    /\ spid \in [Owners -> Pids \cup {NoPid}]
    /\ clearing \in [Owners -> Threads \cup {None}]
    /\ \A s \in Owners : Working(s) <=> spid[s] # NoPid
    /\ \A s, r \in Owners : Working(s) /\ Working(r) /\ spid[s] = spid[r] => s = r

(* The servers keep their types, and no two working ones share a pid.      *)
LEMMA ServersStep ==
    ASSUME ServersOK, [Next]_vars
    PROVE  ServersOK'
<1>1. CASE UNCHANGED vars
  BY <1>1 DEF vars, store, servers, executions, approvals, records, bounds, ServersOK,
         Working
<1>2. ASSUME NEW s \in Owners, LoopStep(s) PROVE ServersOK'
  <2>1. ASSUME NEW p \in Pids, Start(s, p) PROVE ServersOK'
    BY <2>1, RuntimeStoreAssumption DEF Start, store, servers, executions, approvals,
           records, bounds, ServersOK, Working, AlivePids
  <2>2. CASE CreateThread(s)
    BY <2>2 DEF CreateThread, StoreCreate, store, servers, executions, approvals, records,
           bounds, ServersOK, Working
  <2>3. ASSUME NEW th \in Threads, DeleteThread(s, th) PROVE ServersOK'
    BY <2>3 DEF DeleteThread, StoreDelete, store, servers, executions, approvals, records,
           bounds, ServersOK, Working
  <2>4. ASSUME NEW th \in Threads, ClearThread(s, th) PROVE ServersOK'
    BY <2>4 DEF ClearThread, store, servers, executions, approvals, records, bounds,
           ServersOK, Working
  <2>5. ASSUME NEW th \in Threads, NEW k \in Keys \cup {NoKey}, CreateTurn(s, th, k)
        PROVE  ServersOK'
    BY <2>5 DEF CreateTurn, StoreReserve, store, servers, executions, approvals, records,
           bounds, ServersOK, Working
  <2>6. ASSUME NEW th \in Threads, NEW k \in Keys \cup {NoKey}, ReplayTurn(s, th, k)
        PROVE  ServersOK'
    BY <2>6 DEF ReplayTurn, StoreReplay, store, servers, executions, approvals, records,
           bounds, ServersOK, Working
  <2>7. ASSUME NEW t \in Turns, CancelTurn(s, t) PROVE ServersOK'
    BY <2>7 DEF CancelTurn, UpdateTurnStatus, store, servers, executions, approvals, records,
           bounds, ServersOK, Working
  <2>8. CASE Shutdown(s)
    BY <2>8 DEF Shutdown, store, servers, executions, approvals, records, bounds, ServersOK,
           Working
  <2>9. ASSUME NEW t \in Turns, home[t] = s, TurnStep(t) PROVE ServersOK'
    <3>1. CASE Begin(t)
      BY <3>1 DEF Begin, store, servers, executions, approvals, records, bounds, ServersOK,
             Working
    <3>2. CASE Push(t)
      BY <3>2 DEF Push, store, servers, executions, approvals, records, bounds, ServersOK,
             Working
    <3>3. CASE Flush(t)
      BY <3>3 DEF Flush, store, servers, executions, approvals, records, bounds, ServersOK,
             Working
    <3>4. ASSUME NEW outcome \in Terminal, NEW extra \in {0, 1}, Settle(t, outcome, extra)
          PROVE  ServersOK'
      BY <3>4 DEF Settle, Close, UpdateTurnStatus, store, servers, executions, approvals,
             records, bounds, ServersOK, Working
    <3>5. CASE Break(t)
      BY <3>5 DEF Break, store, servers, executions, approvals, records, bounds, ServersOK,
             Working
    <3>6. CASE Ask(t)
      BY <3>6 DEF Ask, store, servers, executions, approvals, records, bounds, ServersOK,
             Working
    <3>7. ASSUME NEW approved \in BOOLEAN, Respond(t, approved) PROVE ServersOK'
      BY <3>7 DEF Respond, store, servers, executions, approvals, records, bounds, ServersOK,
             Working
    <3>8. CASE Resume(t)
      BY <3>8 DEF Resume, store, servers, executions, approvals, records, bounds, ServersOK,
             Working
    <3>9. CASE Answer(t) \/ Fail(t) \/ Stop(t)
      BY <3>4, <3>9 DEF Answer, Fail, Stop, Terminal
    <3> QED BY <2>9, <3>1, <3>2, <3>3, <3>5, <3>6, <3>7, <3>8, <3>9 DEF TurnStep
  <2> QED BY <1>2, <2>1, <2>2, <2>3, <2>4, <2>5, <2>6, <2>7, <2>8, <2>9
             DEF LoopStep, ServerStep
<1>3. ASSUME NEW s \in Owners, ClearDeletes(s) PROVE ServersOK'
  BY <1>3 DEF ClearDeletes, StoreClear, store, servers, executions, approvals, records,
         bounds, ServersOK, Working, None
<1>4. ASSUME NEW s \in Owners, Die(s) PROVE ServersOK'
  BY <1>4 DEF Die, store, servers, executions, approvals, records, bounds, ServersOK,
         Working
<1> QED BY <1>1, <1>2, <1>3, <1>4 DEF Next

(* The columns stay well typed in every step.                              *)
LEMMA RowsStep ==
    ASSUME RowsOK, ThreadsOK, ServersOK, [Next]_vars PROVE RowsOK'
<1>1. threads \in SUBSET Threads /\ created \in Nat
  BY RuntimeStoreAssumption DEF ThreadsOK
<1>2. Fewer \/ Reserves
  BY <1>1, RowStep DEF ServersOK
<1>3. CASE Fewer
  BY <1>3, RowsFewer
<1>4. ASSUME NEW s \in Owners, NEW th \in Threads, NEW k \in Keys \cup {NoKey},
             CreateTurn(s, th, k)
      PROVE  RowsOK'
  <2>1. spid[s] \in Pids
    BY <1>4 DEF CreateTurn, ServersOK, Working
  <2> QED BY <1>4, <2>1, RowsReserve DEF CreateTurn
<1> QED BY <1>2, <1>3, <1>4 DEF Reserves

-----------------------------------------------------------------------------
(*                          The threads and events                         *)

Log(events, th) ==
    /\ events \in Seq(Events)
    /\ Len(events) <= KeepEvents
    /\ th \notin threads => events = << >>

(* An event appended to a thread's log leaves a well-typed, bounded one.   *)
LEMMA EmittedLog ==
    ASSUME NEW th \in Threads, NEW events, Log(events, th), NEW event \in Events
    PROVE  Log(Emitted(th, events, event), th)
<1>1. CASE th \notin threads
  BY <1>1, RuntimeStoreAssumption DEF Emitted, Log
<1>2. CASE th \in threads
  <2> DEFINE longer == Append(events, event)
  <2>1. longer \in Seq(Events) /\ Len(longer) = Len(events) + 1 /\ longer # << >>
    BY DEF Log
  <2>2. Tail(longer) \in Seq(Events) /\ Len(Tail(longer)) = Len(longer) - 1
    BY <2>1
  <2>3. Len(events) \in Nat
    BY DEF Log
  <2> HIDE DEF longer
  <2>4. Emitted(th, events, event) = IF Len(longer) <= KeepEvents THEN longer ELSE Tail(longer)
    BY <1>2 DEF Emitted, longer
  <2> QED BY <1>2, <2>1, <2>2, <2>3, <2>4, RuntimeStoreAssumption DEF Log
<1> QED BY <1>1, <1>2

(* What the code appends is an event.                                      *)
LEMMA EventType ==
    ASSUME NEW t \in Turns \cup {None}, NEW kind \in Kinds PROVE Event(t, kind) \in Events
BY DEF Event, Events

(* Writing the buffered deltas leaves a well-typed, bounded log.           *)
LEMMA WrittenLog ==
    ASSUME ThreadsOK, NEW t \in Turns, thread[t] \in Threads, NEW n
    PROVE  Log(Written(t, n), thread[t])
<1>1. Log(log[thread[t]], thread[t])
  BY DEF ThreadsOK, Log
<1>2. Event(t, "delta") \in Events
  BY EventType DEF Kinds
<1> QED BY <1>1, <1>2, EmittedLog DEF Written

(* A step that changes the events of one thread, and no row of a thread.   *)
LEMMA ThreadsLog ==
    ASSUME ThreadsOK, UNCHANGED <<created, threads>>, NEW th \in Threads, NEW events,
           Log(events, th), log' = [log EXCEPT ![th] = events],
           \A t \in Turns :
             status'[t] \in Terminal \cup {"running"} => thread'[t] \in threads
    PROVE  ThreadsOK'
<1>1. log' \in [Threads -> Seq(Events)]
  BY DEF ThreadsOK, Log
<1>2. \A u \in Threads : log'[u] = IF u = th THEN events ELSE log[u]
  BY DEF ThreadsOK
<1>3. \A u \in Threads : Len(log'[u]) <= KeepEvents
  BY <1>2 DEF ThreadsOK, Log
<1>4. \A u \in Threads \ threads : log'[u] = << >>
  BY <1>2 DEF ThreadsOK, Log
<1> QED BY <1>1, <1>3, <1>4 DEF ThreadsOK

(* A row that such a step keeps stays with its thread, which exists.       *)
LEMMA KeptRows ==
    ASSUME ThreadsOK, Fewer, NEW t \in Turns, status'[t] \in Terminal \cup {"running"}
    PROVE  thread'[t] = thread[t] /\ thread[t] \in threads
BY DEF ThreadsOK, Fewer, Ended, Terminal

(* A step that changes neither threads nor events.                         *)
LEMMA ThreadsQuiet ==
    ASSUME ThreadsOK, Fewer, UNCHANGED <<created, threads, log>> PROVE ThreadsOK'
<1>1. \A t \in Turns : status'[t] \in Terminal \cup {"running"} => thread'[t] \in threads'
  BY KeptRows
<1> QED BY <1>1 DEF ThreadsOK

(* update_turn_status keeps threads and events as they should be.          *)
LEMMA ThreadsUpdate ==
    ASSUME RowsOK, ThreadsOK, NEW t \in Turns, thread[t] \in Threads, NEW outcome \in Terminal,
           NEW tokens, NEW events, Log(events, thread[t]),
           UpdateTurnStatus(t, outcome, tokens, events),
           UNCHANGED <<created, threads, reserved, thread, key>>
    PROVE  ThreadsOK'
<1>1. Fewer
  BY FewerUpdate
<1>2. \A u \in Turns : status'[u] \in Terminal \cup {"running"} => thread'[u] \in threads
  BY <1>1, KeptRows
<1>3. Event(t, outcome) \in Events
  BY EventType DEF Kinds
<1>4. Log(Emitted(thread[t], events, Event(t, outcome)), thread[t])
  BY <1>3, EmittedLog
<1>5. CASE Settled(t, tokens)
  BY <1>2, <1>4, <1>5, ThreadsLog DEF UpdateTurnStatus
<1>6. CASE ~Settled(t, tokens)
  BY <1>2, <1>6, ThreadsLog DEF UpdateTurnStatus
<1> QED BY <1>5, <1>6

(* A step that deletes the rows of the threads in dropped.                 *)
LEMMA ThreadsDrop ==
    ASSUME RowsOK, ThreadsOK, NEW dropped \in SUBSET Threads, DropRows(dropped),
           thread' = thread, created' \in 0..MaxThreads, created' >= created,
           threads' \in SUBSET (1..created'), threads \ dropped \subseteq threads',
           log' \in [Threads -> Seq(Events)],
           \A th \in Threads : Len(log'[th]) <= KeepEvents,
           \A th \in Threads \ threads' : log'[th] = << >>
    PROVE  ThreadsOK'
<1>1. \A t \in Turns : status'[t] \in Terminal \cup {"running"} => thread'[t] \in threads'
  BY DEF DropRows, ThreadsOK, Terminal
<1> QED BY <1>1 DEF ThreadsOK

-----------------------------------------------------------------------------
(*                              The executions                             *)

(* A turn that is queued or executes does so at a working server, which is *)
(* the owner of its row while that is running.                             *)
HomesOK ==
    /\ home \in [Turns -> Owners \cup {NoOwner}]
    /\ exec \in [Turns -> {"none", "queued", "running", "done"}]
    /\ \A t \in Turns :
        /\ exec[t] \in {"queued", "running"} <=> home[t] # NoOwner
        /\ status[t] = "absent" => exec[t] = "none"
        /\ home[t] # NoOwner => Working(home[t])
        /\ home[t] # NoOwner /\ status[t] = "running" => owner[t] = home[t]

(* The parts of the invariant that say what is where.                      *)
Base == RowsOK /\ ThreadsOK /\ ServersOK /\ HomesOK

(* What becomes of homes and executions when the turns in S leave.         *)
LEMMA LeaveHomes ==
    ASSUME HomesOK, NEW S \in SUBSET Turns, Leave(S)
    PROVE  /\ home' \in [Turns -> Owners \cup {NoOwner}]
           /\ exec' \in [Turns -> {"none", "queued", "running", "done"}]
           /\ \A t \in S : home'[t] = NoOwner /\ exec'[t] = "done"
           /\ \A t \in Turns \ S : home'[t] = home[t] /\ exec'[t] = exec[t]
BY DEF HomesOK, Leave, Without

(* What a step may do to the row of a turn that was reserved before.       *)
LEMMA OldRow ==
    ASSUME RowsOK, ThreadsOK, ServersOK, [Next]_vars, NEW t \in Turns, status[t] # "absent"
    PROVE  /\ status'[t] # "absent"
           /\ status[t] = "gone" => status'[t] = "gone"
           /\ thread'[t] = thread[t]
           /\ status'[t] = "running" =>
                status[t] = "running" /\ owner'[t] = owner[t] /\ pid'[t] = pid[t]
<1>1. threads \in SUBSET Threads /\ created \in Nat
  BY RuntimeStoreAssumption DEF ThreadsOK
<1>2. Fewer \/ Reserves
  BY <1>1, RowStep DEF ServersOK
<1>3. CASE Fewer
  BY <1>3 DEF Fewer, Ended, Terminal
<1>4. ASSUME NEW s \in Owners, NEW th \in Threads, NEW k \in Keys \cup {NoKey},
             CreateTurn(s, th, k)
      PROVE  /\ status'[t] # "absent"
             /\ status[t] = "gone" => status'[t] = "gone"
             /\ thread'[t] = thread[t]
             /\ status'[t] = "running" =>
                  status[t] = "running" /\ owner'[t] = owner[t] /\ pid'[t] = pid[t]
  <2> DEFINE stale == StaleTurns(AlivePids)
  <2>1. t # reserved + 1 /\ reserved + 1 \in Turns
    BY <1>4, RuntimeStoreAssumption DEF RowsOK, CreateTurn, StoreReserve
  <2>2. thread'[t] = thread[t] /\ status'[t] \in {"gone", "failed", status[t]}
    BY <1>4, <2>1 DEF CreateTurn, StoreReserve, RowsOK
  <2>3. owner'[t] = (IF t \in stale THEN NoOwner ELSE owner[t])
        /\ pid'[t] = (IF t \in stale THEN NoPid ELSE pid[t])
    BY <1>4, <2>1 DEF CreateTurn, StoreReserve, RowsOK, Without
  <2>4. t \in stale => status'[t] \in {"gone", "failed"}
    BY <1>4, <2>1 DEF CreateTurn, StoreReserve
  <2>5. status[t] = "gone" => status'[t] = "gone"
    BY <1>4, <2>1 DEF CreateTurn, StoreReserve, StaleTurns, Running
  <2> QED BY <2>2, <2>3, <2>4, <2>5
<1> QED BY <1>2, <1>3, <1>4 DEF Reserves

(* Turns that leave a server, or die with it, disturb no other's home.     *)
LEMMA HomesLeave ==
    ASSUME Base, [Next]_vars, NEW S \in SUBSET Turns, Leave(S),
           \A t \in S : home[t] # NoOwner,
           \A t \in Turns \ S : home[t] # NoOwner => server'[home[t]] = server[home[t]]
    PROVE  HomesOK'
<1>1. /\ home' \in [Turns -> Owners \cup {NoOwner}]
      /\ exec' \in [Turns -> {"none", "queued", "running", "done"}]
      /\ \A t \in S : home'[t] = NoOwner /\ exec'[t] = "done"
      /\ \A t \in Turns \ S : home'[t] = home[t] /\ exec'[t] = exec[t]
  BY LeaveHomes DEF Base
<1>2. ASSUME NEW t \in S
      PROVE  /\ exec'[t] \in {"queued", "running"} <=> home'[t] # NoOwner
             /\ status'[t] = "absent" => exec'[t] = "none"
             /\ home'[t] # NoOwner => Working(home[t])'
             /\ home'[t] # NoOwner /\ status'[t] = "running" => owner'[t] = home'[t]
  <2>1. status[t] # "absent"
    BY <1>2 DEF Base, HomesOK
  <2>2. status'[t] # "absent"
    BY <2>1, OldRow DEF Base
  <2> QED BY <1>1, <2>2
<1>3. ASSUME NEW t \in Turns \ S
      PROVE  /\ exec'[t] \in {"queued", "running"} <=> home'[t] # NoOwner
             /\ status'[t] = "absent" => exec'[t] = "none"
             /\ home'[t] # NoOwner => Working(home[t])'
             /\ home'[t] # NoOwner /\ status'[t] = "running" => owner'[t] = home'[t]
  <2>1. CASE home[t] = NoOwner
    <3>1. status[t] # "absent" => status'[t] # "absent"
      BY OldRow DEF Base
    <3> QED BY <1>1, <2>1, <3>1 DEF Base, HomesOK
  <2>2. CASE home[t] # NoOwner
    <3>1. status[t] # "absent"
      BY <2>2 DEF Base, HomesOK
    <3>2. /\ status'[t] # "absent"
          /\ status'[t] = "running" => status[t] = "running" /\ owner'[t] = owner[t]
      BY <3>1, OldRow DEF Base
    <3>3. Working(home[t])'
      BY <1>1, <2>2 DEF Base, HomesOK, Working
    <3> QED BY <1>1, <2>2, <3>2, <3>3 DEF Base, HomesOK
  <2> QED BY <2>1, <2>2
<1>4. \A t \in Turns :
        /\ exec'[t] \in {"queued", "running"} <=> home'[t] # NoOwner
        /\ status'[t] = "absent" => exec'[t] = "none"
        /\ home'[t] # NoOwner => Working(home[t])'
        /\ home'[t] # NoOwner /\ status'[t] = "running" => owner'[t] = home'[t]
  BY <1>2, <1>3
<1> QED BY <1>1, <1>4 DEF HomesOK

(* Every step keeps executions where their homes are.                      *)
LEMMA HomesStep ==
    ASSUME Base, [Next]_vars
    PROVE  HomesOK'
<1>10. \A t \in Turns :
        status[t] # "absent" =>
          /\ status'[t] # "absent"
          /\ status'[t] = "running" => status[t] = "running" /\ owner'[t] = owner[t]
  BY OldRow DEF Base
<1>11. \A t \in Turns : status[t] = "absent" => exec[t] = "none" /\ home[t] = NoOwner
  BY DEF Base, HomesOK
<1>1. CASE UNCHANGED vars
  BY <1>1, <1>10 DEF vars, store, servers, executions, approvals, records, bounds, HomesOK,
         Base, Working
<1>2. ASSUME NEW s \in Owners, LoopStep(s) PROVE HomesOK'
  <2>1. ASSUME NEW p \in Pids, Start(s, p) PROVE HomesOK'
    BY <2>1, <1>10 DEF Start, store, servers, executions, approvals, records, bounds, HomesOK,
           Base, Working, ServersOK
  <2>2. CASE CreateThread(s)
    BY <2>2, <1>10 DEF CreateThread, StoreCreate, store, servers, executions, approvals,
           records, bounds, HomesOK, Base, Working
  <2>3. ASSUME NEW th \in Threads, DeleteThread(s, th) PROVE HomesOK'
    BY <2>3, <1>10 DEF DeleteThread, StoreDelete, store, servers, executions, approvals,
           records, bounds, HomesOK, Base, Working
  <2>4. ASSUME NEW th \in Threads, ClearThread(s, th) PROVE HomesOK'
    BY <2>4, <1>10 DEF ClearThread, store, servers, executions, approvals, records, bounds,
           HomesOK, Base, Working
  <2>5. ASSUME NEW th \in Threads, NEW k \in Keys \cup {NoKey}, CreateTurn(s, th, k)
        PROVE  HomesOK'
    <3> DEFINE t == reserved + 1
    <3>1. t \in Turns /\ status[t] = "absent"
      BY <2>5, RuntimeStoreAssumption DEF CreateTurn, StoreReserve, Base, RowsOK
    <3>2. home' = [home EXCEPT ![t] = s] /\ exec' = [exec EXCEPT ![t] = "queued"]
      BY <2>5 DEF CreateTurn
    <3>3. owner'[t] = s /\ status'[t] = "running"
      BY <2>5, <3>1 DEF CreateTurn, StoreReserve, Without
    <3>4. server' = server /\ server[s] = "up"
      BY <2>5 DEF CreateTurn, servers
    <3>5. ASSUME NEW u \in Turns
          PROVE  /\ exec'[u] \in {"queued", "running"} <=> home'[u] # NoOwner
                 /\ status'[u] = "absent" => exec'[u] = "none"
                 /\ home'[u] # NoOwner => Working(home[u])'
                 /\ home'[u] # NoOwner /\ status'[u] = "running" => owner'[u] = home'[u]
      <4>1. CASE u = t
        BY <3>1, <3>2, <3>3, <3>4, <4>1, RuntimeStoreAssumption DEF Base, HomesOK, Working
      <4>2. CASE u # t
        <5>1. home'[u] = home[u] /\ exec'[u] = exec[u]
          BY <3>2, <4>2 DEF Base, HomesOK
        <5> QED BY <3>4, <5>1, <1>10, <1>11 DEF Base, HomesOK, Working
      <4> QED BY <4>1, <4>2
    <3> QED BY <3>1, <3>2, <3>5 DEF Base, HomesOK
  <2>6. ASSUME NEW th \in Threads, NEW k \in Keys \cup {NoKey}, ReplayTurn(s, th, k)
        PROVE  HomesOK'
    BY <2>6, <1>10 DEF ReplayTurn, StoreReplay, store, servers, executions, approvals,
           records, bounds, HomesOK, Base, Working
  <2>7. ASSUME NEW t \in Turns, CancelTurn(s, t) PROVE HomesOK'
    BY <2>7, <1>10 DEF CancelTurn, UpdateTurnStatus, store, servers, executions, approvals,
           records, bounds, HomesOK, Base, Working
  <2>8. CASE Shutdown(s)
    <3>1. home' = home /\ exec' = exec
      BY <2>8 DEF Shutdown
    <3>2. \A r \in Owners : Working(r) => Working(r)'
      BY <2>8 DEF Shutdown, Base, ServersOK, Working
    <3>3. \A t \in Turns : home[t] # NoOwner => Working(home[t])'
      BY <3>1, <3>2 DEF Base, HomesOK, Working
    <3> QED BY <3>1, <3>3, <1>10, <1>11 DEF Base, HomesOK
  <2>9. ASSUME NEW t \in Turns, home[t] = s, TurnStep(t) PROVE HomesOK'
    <3>1. CASE Begin(t)
      <4>1. CASE Leave({t})
        BY <3>1, <2>9, <1>11, <4>1, HomesLeave DEF Begin, servers, Base, HomesOK
      <4>2. CASE ~Leave({t})
        <5>1. /\ exec[t] = "queued" /\ exec' = [exec EXCEPT ![t] = "running"]
              /\ UNCHANGED <<home, server, status, owner>>
          BY <3>1, <4>2 DEF Begin, servers, store
        <5> QED BY <5>1 DEF Base, HomesOK, Working
      <4> QED BY <4>1, <4>2
    <3>2. CASE Push(t)
      BY <3>2, <1>10 DEF Push, store, servers, executions, approvals, records, bounds,
             HomesOK, Base, Working
    <3>3. CASE Flush(t)
      BY <3>3, <1>10 DEF Flush, store, servers, executions, approvals, records, bounds,
             HomesOK, Base, Working
    <3>4. ASSUME NEW outcome \in Terminal, NEW extra \in {0, 1}, Settle(t, outcome, extra)
          PROVE  HomesOK'
      BY <3>4, HomesLeave DEF Settle, Executing, servers, Base, HomesOK
    <3>5. CASE Break(t)
      BY <3>5, HomesLeave DEF Break, Executing, servers, Base, HomesOK
    <3>6. CASE Ask(t)
      BY <3>6, <1>10 DEF Ask, store, servers, executions, approvals, records, bounds, HomesOK,
             Base, Working
    <3>7. ASSUME NEW approved \in BOOLEAN, Respond(t, approved) PROVE HomesOK'
      BY <3>7, <1>10 DEF Respond, store, servers, executions, approvals, records, bounds,
             HomesOK, Base, Working
    <3>8. CASE Resume(t)
      BY <3>8, <1>10 DEF Resume, store, servers, executions, approvals, records, bounds,
             HomesOK, Base, Working
    <3>9. CASE Answer(t) \/ Fail(t) \/ Stop(t)
      BY <3>4, <3>9 DEF Answer, Fail, Stop, Terminal
    <3> QED BY <2>9, <3>1, <3>2, <3>3, <3>5, <3>6, <3>7, <3>8, <3>9 DEF TurnStep
  <2> QED BY <1>2, <2>1, <2>2, <2>3, <2>4, <2>5, <2>6, <2>7, <2>8, <2>9
             DEF LoopStep, ServerStep
<1>3. ASSUME NEW s \in Owners, ClearDeletes(s) PROVE HomesOK'
  BY <1>3, <1>10 DEF ClearDeletes, StoreClear, store, servers, executions, approvals, records,
         bounds, HomesOK, Base, Working
<1>4. ASSUME NEW s \in Owners, Die(s) PROVE HomesOK'
  <2>1. \A t \in Turns : home[t] = s => home[t] # NoOwner
    BY RuntimeStoreAssumption
  <2>2. \A r \in Owners : r # s => server'[r] = server[r]
    BY <1>4 DEF Die, Base, ServersOK
  <2>3. \A t \in Turns : home[t] \in Owners \cup {NoOwner}
    BY DEF Base, HomesOK
  <2> QED BY <1>4, <2>1, <2>2, <2>3, HomesLeave DEF Die
<1> QED BY <1>1, <1>2, <1>3, <1>4 DEF Next

(* A turn with an execution was reserved in a thread.                      *)
LEMMA ThreadOf == ASSUME Base, NEW t \in Turns, exec[t] # "none" PROVE thread[t] \in Threads
BY DEF Base, RowsOK, HomesOK

(* Every step keeps the rows of threads, turns and events together.        *)
LEMMA ThreadsStep ==
    ASSUME Base, [Next]_vars
    PROVE  ThreadsOK'
<1>1. CASE UNCHANGED vars
  BY <1>1 DEF vars, store, servers, executions, approvals, records, bounds, ThreadsOK, Base
<1>2. ASSUME NEW s \in Owners, LoopStep(s) PROVE ThreadsOK'
  <2>1. ASSUME NEW p \in Pids, Start(s, p) PROVE ThreadsOK'
    <3>1. StaleTurns(AlivePids \cup {p}) \in SUBSET Running
      BY DEF StaleTurns
    <3>2. Fewer
      BY <2>1, <3>1, FewerRecover DEF Start, Base
    <3> QED BY <2>1, <3>2, ThreadsQuiet DEF Start, Base
  <2>2. CASE CreateThread(s)
    <3> DEFINE th == created + 1
               pruned == BeyondNewest(IdleThreads, KeepThreads - 1)
               first == <<Event(None, "created")>>
    <3>1. pruned \in SUBSET threads /\ threads \in SUBSET Threads /\ th \in Threads
      BY <2>2, RuntimeStoreAssumption
         DEF BeyondNewest, IdleThreads, CreateThread, StoreCreate, Base, ThreadsOK
    <3>2. Event(None, "created") \in Events
      BY EventType DEF Kinds
    <3>3. first \in Seq(Events) /\ Len(first) = 1
      BY <3>2
    <3>4. /\ log' = [u \in Threads |->
                      IF u = th THEN first ELSE IF u \in pruned THEN << >> ELSE log[u]]
          /\ threads' = (threads \ pruned) \cup {th} /\ created' = th
          /\ DropRows(pruned) /\ thread' = thread
      BY <2>2 DEF CreateThread, StoreCreate
    <3> HIDE DEF first, pruned
    <3>5. log' \in [Threads -> Seq(Events)]
      BY <3>3, <3>4 DEF Base, ThreadsOK
    <3>6. ASSUME NEW u \in Threads PROVE Len(log'[u]) <= KeepEvents
      <4>1. log'[u] \in {first, << >>, log[u]}
        BY <3>4
      <4>2. Len(first) <= KeepEvents /\ Len(<< >>) <= KeepEvents
        BY <3>3, RuntimeStoreAssumption
      <4>3. Len(log[u]) <= KeepEvents
        BY DEF Base, ThreadsOK
      <4> QED BY <4>1, <4>2, <4>3
    <3>7. \A u \in Threads \ threads' : log'[u] = << >>
      BY <3>4 DEF Base, ThreadsOK
    <3>8. created' \in 0..MaxThreads /\ created' >= created /\ threads' \in SUBSET (1..created')
      BY <3>1, <3>4, RuntimeStoreAssumption DEF Base, ThreadsOK
    <3> QED BY <3>1, <3>4, <3>5, <3>6, <3>7, <3>8, ThreadsDrop DEF Base
  <2>3. ASSUME NEW th \in Threads, DeleteThread(s, th) PROVE ThreadsOK'
    <3>1. /\ log' = [log EXCEPT ![th] = << >>] /\ threads' = threads \ {th}
          /\ DropRows({th}) /\ UNCHANGED <<thread, created>>
      BY <2>3 DEF DeleteThread, StoreDelete
    <3>2. /\ log' \in [Threads -> Seq(Events)]
          /\ \A u \in Threads : Len(log'[u]) <= KeepEvents
          /\ \A u \in Threads \ threads' : log'[u] = << >>
      BY <3>1, RuntimeStoreAssumption DEF Base, ThreadsOK
    <3>3. created' \in 0..MaxThreads /\ created' >= created /\ threads' \in SUBSET (1..created')
      BY <3>1, RuntimeStoreAssumption DEF Base, ThreadsOK
    <3> QED BY <3>1, <3>2, <3>3, ThreadsDrop DEF Base
  <2>4. ASSUME NEW th \in Threads, ClearThread(s, th) PROVE ThreadsOK'
    BY <2>4 DEF ClearThread, store, servers, executions, approvals, records, bounds,
           ThreadsOK, Base
  <2>5. ASSUME NEW th \in Threads, NEW k \in Keys \cup {NoKey}, CreateTurn(s, th, k)
        PROVE  ThreadsOK'
    <3> DEFINE t == reserved + 1
               events == Emitted(th, log[th], Event(t, "started"))
    <3>1. t \in Turns /\ th \in threads
      BY <2>5, RuntimeStoreAssumption DEF CreateTurn, StoreReserve, Base, RowsOK
    <3>2. log' = [log EXCEPT ![th] = events] /\ UNCHANGED <<created, threads>>
      BY <2>5 DEF CreateTurn, StoreReserve
    <3>3. Event(t, "started") \in Events
      BY <3>1, EventType DEF Kinds
    <3>4. Log(log[th], th)
      BY DEF Log, Base, ThreadsOK
    <3>5. Log(events, th)
      BY <3>3, <3>4, EmittedLog
    <3> HIDE DEF events
    <3>6. ASSUME NEW u \in Turns, status'[u] \in Terminal \cup {"running"}
          PROVE  thread'[u] \in threads
      <4>1. CASE u = t
        BY <2>5, <3>1, <4>1 DEF CreateTurn, StoreReserve, Base, RowsOK
      <4>2. CASE u # t
        <5>1. thread'[u] = thread[u]
          BY <2>5, <4>2 DEF CreateTurn, StoreReserve, Base, RowsOK
        <5>2. status'[u] = status[u] \/ u \in StaleTurns(AlivePids)
          BY <2>5, <3>6, <4>2 DEF CreateTurn, StoreReserve, Terminal
        <5>3. status[u] \in Terminal \cup {"running"}
          BY <3>6, <5>2 DEF StaleTurns, Running
        <5> QED BY <5>1, <5>3 DEF Base, ThreadsOK
      <4> QED BY <4>1, <4>2
    <3> QED BY <3>2, <3>5, <3>6, ThreadsLog DEF Base
  <2>6. ASSUME NEW th \in Threads, NEW k \in Keys \cup {NoKey}, ReplayTurn(s, th, k)
        PROVE  ThreadsOK'
    <3>1. StaleTurns(AlivePids) \in SUBSET Running
      BY DEF StaleTurns
    <3>2. Fewer
      BY <2>6, <3>1, FewerRecover DEF ReplayTurn, StoreReplay, Base
    <3> QED BY <2>6, <3>2, ThreadsQuiet DEF ReplayTurn, StoreReplay, Base
  <2>7. ASSUME NEW t \in Turns, CancelTurn(s, t) PROVE ThreadsOK'
    <3>1. thread[t] \in Threads
      BY <2>7 DEF CancelTurn, Base, RowsOK
    <3>2. Log(log[thread[t]], thread[t])
      BY <3>1 DEF Log, Base, ThreadsOK
    <3> QED BY <2>7, <3>1, <3>2, ThreadsUpdate DEF CancelTurn, Base, Terminal
  <2>8. CASE Shutdown(s)
    <3> DEFINE ending == {t \in ActiveTurns(s) : Settled(t, {s})}
               here(th) == {t \in ending : thread[t] = th}
               last(th) == Event(CHOOSE t \in here(th) : TRUE, "canceled")
    <3>1. /\ log' = [th \in Threads |-> IF here(th) = {} THEN log[th]
                                        ELSE Emitted(th, log[th], last(th))]
          /\ UNCHANGED <<created, threads, thread>>
      BY <2>8 DEF Shutdown
    <3>2. \A th \in Threads : Log(log[th], th)
      BY DEF Log, Base, ThreadsOK
    <3>3. \A th \in Threads : here(th) # {} => last(th) \in Events
      <4>1. \A th \in Threads : here(th) \in SUBSET Turns
        BY DEF ActiveTurns
      <4>2. ASSUME NEW th \in Threads, here(th) # {} PROVE last(th) \in Events
        <5>1. (CHOOSE t \in here(th) : TRUE) \in Turns
          BY <4>1, <4>2
        <5> QED BY <5>1, EventType DEF Kinds, Terminal
      <4> QED BY <4>2
    <3> HIDE DEF ending, here, last
    <3>4. \A th \in Threads : Log(log'[th], th)
      BY <3>1, <3>2, <3>3, EmittedLog
    <3>5. log' = [th \in Threads |-> log'[th]]
      BY <3>1
    <3>6. log' \in [Threads -> Seq(Events)]
      BY <3>4, <3>5 DEF Log
    <3>7. \A u \in Turns : status'[u] \in Terminal \cup {"running"} => thread'[u] \in threads
      BY <2>8, FewerShutdown, KeptRows DEF Base
    <3> QED BY <3>1, <3>4, <3>6, <3>7 DEF Log, Base, ThreadsOK
  <2>9. ASSUME NEW t \in Turns, home[t] = s, TurnStep(t) PROVE ThreadsOK'
    <3>1. CASE Begin(t)
      BY <3>1 DEF Begin, store, servers, executions, approvals, records, bounds, ThreadsOK,
             Base
    <3>2. CASE Push(t)
      <4> DEFINE n == IF buffer[t] + 1 >= FlushDeltas THEN buffer[t] + 1 ELSE 0
      <4>1. thread[t] \in Threads
        BY <3>2, ThreadOf DEF Push, Executing
      <4>2. Log(Written(t, n), thread[t])
        BY <4>1, WrittenLog DEF Base
      <4>3. /\ log' = [log EXCEPT ![thread[t]] = Written(t, n)]
            /\ UNCHANGED <<created, threads, status, thread>>
        BY <3>2 DEF Push
      <4> HIDE DEF n
      <4>4. \A u \in Turns :
              status'[u] \in Terminal \cup {"running"} => thread'[u] \in threads
        BY <4>3 DEF Base, ThreadsOK
      <4> QED BY <4>1, <4>2, <4>3, <4>4, ThreadsLog DEF Base
    <3>3. CASE Flush(t)
      <4>1. thread[t] \in Threads
        BY <3>3, ThreadOf DEF Flush, Executing
      <4>2. Log(Written(t, buffer[t]), thread[t])
        BY <4>1, WrittenLog DEF Base
      <4>3. /\ log' = [log EXCEPT ![thread[t]] = Written(t, buffer[t])]
            /\ UNCHANGED <<created, threads, status, thread>>
        BY <3>3 DEF Flush
      <4>4. \A u \in Turns :
              status'[u] \in Terminal \cup {"running"} => thread'[u] \in threads
        BY <4>3 DEF Base, ThreadsOK
      <4> QED BY <4>1, <4>2, <4>3, <4>4, ThreadsLog DEF Base
    <3>4. ASSUME NEW outcome \in Terminal, NEW extra \in {0, 1}, Settle(t, outcome, extra)
          PROVE  ThreadsOK'
      <4>1. thread[t] \in Threads
        BY <3>4, ThreadOf DEF Settle, Executing
      <4>2. Log(Written(t, buffer[t] + extra), thread[t])
        BY <4>1, WrittenLog DEF Base
      <4> QED BY <3>4, <4>1, <4>2, ThreadsUpdate DEF Settle, Base
    <3>5. CASE Break(t)
      BY <3>5 DEF Break, store, servers, executions, approvals, records, bounds, ThreadsOK,
             Base
    <3>6. CASE Ask(t)
      BY <3>6 DEF Ask, store, servers, executions, approvals, records, bounds, ThreadsOK,
             Base
    <3>7. ASSUME NEW approved \in BOOLEAN, Respond(t, approved) PROVE ThreadsOK'
      BY <3>7 DEF Respond, store, servers, executions, approvals, records, bounds, ThreadsOK,
             Base
    <3>8. CASE Resume(t)
      BY <3>8 DEF Resume, store, servers, executions, approvals, records, bounds, ThreadsOK,
             Base
    <3>9. CASE Answer(t) \/ Fail(t) \/ Stop(t)
      BY <3>4, <3>9 DEF Answer, Fail, Stop, Terminal
    <3> QED BY <2>9, <3>1, <3>2, <3>3, <3>5, <3>6, <3>7, <3>8, <3>9 DEF TurnStep
  <2> QED BY <1>2, <2>1, <2>2, <2>3, <2>4, <2>5, <2>6, <2>7, <2>8, <2>9
             DEF LoopStep, ServerStep
<1>3. ASSUME NEW s \in Owners, ClearDeletes(s) PROVE ThreadsOK'
  <2> DEFINE th == clearing[s]
  <2>0. th \in Threads
    BY <1>3 DEF ClearDeletes, Base, ServersOK
  <2>1. /\ log' = [log EXCEPT ![th] = << >>]
        /\ DropRows({th}) /\ UNCHANGED <<thread, threads, created>>
    BY <1>3 DEF ClearDeletes, StoreClear
  <2>2. /\ log' \in [Threads -> Seq(Events)]
        /\ \A u \in Threads : Len(log'[u]) <= KeepEvents
        /\ \A u \in Threads \ threads' : log'[u] = << >>
    BY <2>0, <2>1, RuntimeStoreAssumption DEF Base, ThreadsOK
  <2>3. created' \in 0..MaxThreads /\ created' >= created /\ threads' \in SUBSET (1..created')
    BY <2>1, RuntimeStoreAssumption DEF Base, ThreadsOK
  <2> QED BY <2>0, <2>1, <2>2, <2>3, ThreadsDrop DEF Base
<1>4. ASSUME NEW s \in Owners, Die(s) PROVE ThreadsOK'
  BY <1>4 DEF Die, store, servers, executions, approvals, records, bounds, ThreadsOK, Base
<1> QED BY <1>1, <1>2, <1>3, <1>4 DEF Next

(* The parts that say what is where are inductive together.                *)
LEMMA BaseStep == ASSUME Base, [Next]_vars PROVE Base'
BY RowsStep, ThreadsStep, ServersStep, HomesStep DEF Base

(* They hold at first.                                                     *)
LEMMA BaseInit == ASSUME Init PROVE Base
<1>1. RowsOK
  BY RuntimeStoreAssumption DEF Init, StoreInit, RowsOK, Terminal
<1>2. ThreadsOK
  <2>1. << >> \in Seq(Events) /\ Len(<< >>) = 0
    OBVIOUS
  <2> QED BY <2>1, RuntimeStoreAssumption DEF Init, StoreInit, ThreadsOK, Terminal
<1>3. ServersOK
  BY DEF Init, ServersOK, Working
<1>4. HomesOK
  BY DEF Init, StoreInit, HomesOK
<1> QED BY <1>1, <1>2, <1>3, <1>4 DEF Base

-----------------------------------------------------------------------------
(*                            Types, and refusals                          *)

DataOK ==
    /\ told \in SUBSET Turns
    /\ history \in [Turns -> SUBSET Turns]
    /\ emitted \in SUBSET Turns
    /\ buffer \in [Turns -> 0..FlushDeltas]
    /\ approvers \in SUBSET Turns
    /\ prompt \in [Turns -> {"none", "asked", "answered"}]
    /\ lost \in SUBSET Turns
    /\ recovered \in SUBSET Turns
    /\ deltas \in 0..MaxDeltas
    /\ deletes \in Nat
    /\ faults \in Nat

(* Types of what a process keeps, once the turns in S have left.           *)
LEMMA LeaveData ==
    ASSUME DataOK, NEW S \in SUBSET Turns, Leave(S)
    PROVE  /\ told' \in SUBSET Turns
           /\ history' \in [Turns -> SUBSET Turns]
           /\ emitted' \in SUBSET Turns
           /\ approvers' \in SUBSET Turns
           /\ prompt' \in [Turns -> {"none", "asked", "answered"}]
BY DEF DataOK, Leave, Without

(* Types of the buffers, once those of S are dropped.                      *)
LEMMA DropData ==
    ASSUME DataOK, NEW S \in SUBSET Turns, Drop(S)
    PROVE  buffer' \in [Turns -> 0..FlushDeltas] /\ lost' \in SUBSET Turns
<1>1. lost' \in SUBSET Turns
  BY DEF DataOK, Drop
<1>2. 0 \in 0..FlushDeltas
  BY RuntimeTurnsAssumption
<1>3. buffer' = [t \in Turns |-> IF t \in S THEN 0 ELSE buffer[t]]
  BY DEF Drop, Without
<1> QED BY <1>1, <1>2, <1>3 DEF DataOK

(* The other variables keep their types.                                   *)
LEMMA DataStep ==
    ASSUME Base, DataOK, [Next]_vars
    PROVE  DataOK'
<1>9. \A k, s, th : CreateTurn(s, th, k) => reserved + 1 \in Turns
  BY RuntimeStoreAssumption DEF CreateTurn, StoreReserve, Base, RowsOK
<1>1. CASE UNCHANGED vars
  BY <1>1 DEF vars, store, servers, executions, approvals, records, bounds, DataOK
<1>2. ASSUME NEW s \in Owners, LoopStep(s) PROVE DataOK'
  <2>1. ASSUME NEW p \in Pids, Start(s, p) PROVE DataOK'
    BY <2>1 DEF Start, store, servers, executions, approvals, records, bounds, DataOK,
           StaleTurns, Running
  <2>2. CASE CreateThread(s)
    BY <2>2 DEF CreateThread, StoreCreate, store, servers, executions, approvals, records,
           bounds, DataOK
  <2>3. ASSUME NEW th \in Threads, DeleteThread(s, th) PROVE DataOK'
    BY <2>3 DEF DeleteThread, StoreDelete, store, servers, executions, approvals, records,
           bounds, DataOK
  <2>4. ASSUME NEW th \in Threads, ClearThread(s, th) PROVE DataOK'
    BY <2>4 DEF ClearThread, store, servers, executions, approvals, records, bounds, DataOK
  <2>5. ASSUME NEW th \in Threads, NEW k \in Keys \cup {NoKey}, CreateTurn(s, th, k)
        PROVE  DataOK'
    BY <2>5, <1>9 DEF CreateTurn, StoreReserve, store, servers, executions, approvals,
           records, bounds, DataOK, StaleTurns, Running
  <2>6. ASSUME NEW th \in Threads, NEW k \in Keys \cup {NoKey}, ReplayTurn(s, th, k)
        PROVE  DataOK'
    BY <2>6 DEF ReplayTurn, StoreReplay, store, servers, executions, approvals, records,
           bounds, DataOK, StaleTurns, Running
  <2>7. ASSUME NEW t \in Turns, CancelTurn(s, t) PROVE DataOK'
    BY <2>7 DEF CancelTurn, UpdateTurnStatus, store, servers, executions, approvals, records,
           bounds, DataOK, Refuse
  <2>8. CASE Shutdown(s)
    BY <2>8 DEF Shutdown, store, servers, executions, approvals, records, bounds, DataOK,
           ActiveTurns, Refuse
  <2>9. ASSUME NEW t \in Turns, home[t] = s, TurnStep(t) PROVE DataOK'
    <3>1. CASE Begin(t)
      <4>1. CASE Leave({t})
        BY <3>1, <4>1, LeaveData DEF Begin, DataOK, records, bounds
      <4>2. CASE ~Leave({t})
        <5>1. CompletedMessages(t) \in SUBSET Turns
          BY DEF CompletedMessages, Rows
        <5>2. history' = [history EXCEPT ![t] = CompletedMessages(t)]
              /\ UNCHANGED <<told, emitted, approvals, buffer, records, bounds>>
          BY <3>1, <4>2 DEF Begin
        <5> QED BY <5>1, <5>2 DEF DataOK, approvals, records, bounds
      <4> QED BY <4>1, <4>2
    <3>2. CASE Push(t)
      BY <3>2, RuntimeTurnsAssumption DEF Push, store, servers, executions, approvals,
             records, bounds, DataOK, LostWith
    <3>3. CASE Flush(t)
      BY <3>3, RuntimeTurnsAssumption DEF Flush, store, servers, executions, approvals,
             records, bounds, DataOK, LostWith
    <3>4. ASSUME NEW outcome \in Terminal, NEW extra \in {0, 1}, Settle(t, outcome, extra)
          PROVE  DataOK'
      BY <3>4, RuntimeTurnsAssumption DEF Settle, Close, UpdateTurnStatus, store, servers,
             executions, approvals, records, bounds, DataOK, Leave, Without, LostWith
    <3>5. CASE Break(t)
      BY <3>5, LeaveData, DropData DEF Break, DataOK
    <3>6. CASE Ask(t)
      BY <3>6 DEF Ask, store, servers, executions, approvals, records, bounds, DataOK
    <3>7. ASSUME NEW approved \in BOOLEAN, Respond(t, approved) PROVE DataOK'
      BY <3>7 DEF Respond, store, servers, executions, approvals, records, bounds, DataOK
    <3>8. CASE Resume(t)
      BY <3>8 DEF Resume, store, servers, executions, approvals, records, bounds, DataOK
    <3>9. CASE Answer(t) \/ Fail(t) \/ Stop(t)
      BY <3>4, <3>9 DEF Answer, Fail, Stop, Terminal
    <3> QED BY <2>9, <3>1, <3>2, <3>3, <3>5, <3>6, <3>7, <3>8, <3>9 DEF TurnStep
  <2> QED BY <1>2, <2>1, <2>2, <2>3, <2>4, <2>5, <2>6, <2>7, <2>8, <2>9
             DEF LoopStep, ServerStep
<1>3. ASSUME NEW s \in Owners, ClearDeletes(s) PROVE DataOK'
  BY <1>3 DEF ClearDeletes, StoreClear, store, servers, executions, approvals, records,
         bounds, DataOK
<1>4. ASSUME NEW s \in Owners, Die(s) PROVE DataOK'
  <2>1. {t \in Turns : home[t] = s} \in SUBSET Turns
    OBVIOUS
  <2> QED BY <1>4, <2>1, LeaveData, DropData DEF Die, DataOK, bounds
<1> QED BY <1>1, <1>2, <1>3, <1>4 DEF Next

(* Whoever is told to cancel executes and has lost its approver; without   *)
(* an approver there is no grant.                                          *)
VerdictOK ==
    /\ verdict \in [Turns -> BOOLEAN]
    /\ \A t \in told : exec[t] = "running" /\ t \notin approvers
    /\ \A t \in Turns \ approvers : verdict[t] = FALSE

(* No step leaves a grant with a cancelled turn.                           *)
LEMMA VerdictStep ==
    ASSUME Base, DataOK, VerdictOK, [Next]_vars
    PROVE  VerdictOK'
<1>9. \A k, s, th : CreateTurn(s, th, k) =>
        reserved + 1 \in Turns /\ exec[reserved + 1] = "none"
  BY RuntimeStoreAssumption DEF CreateTurn, StoreReserve, Base, RowsOK, HomesOK
<1>1. CASE UNCHANGED vars
  BY <1>1 DEF vars, store, servers, executions, approvals, records, bounds, VerdictOK
<1>2. ASSUME NEW s \in Owners, LoopStep(s) PROVE VerdictOK'
  <2>1. ASSUME NEW p \in Pids, Start(s, p) PROVE VerdictOK'
    BY <2>1 DEF Start, store, servers, executions, approvals, records, bounds, VerdictOK
  <2>2. CASE CreateThread(s)
    BY <2>2 DEF CreateThread, StoreCreate, store, servers, executions, approvals, records,
           bounds, VerdictOK
  <2>3. ASSUME NEW th \in Threads, DeleteThread(s, th) PROVE VerdictOK'
    BY <2>3 DEF DeleteThread, StoreDelete, store, servers, executions, approvals, records,
           bounds, VerdictOK
  <2>4. ASSUME NEW th \in Threads, ClearThread(s, th) PROVE VerdictOK'
    BY <2>4 DEF ClearThread, store, servers, executions, approvals, records, bounds,
           VerdictOK
  <2>5. ASSUME NEW th \in Threads, NEW k \in Keys \cup {NoKey}, CreateTurn(s, th, k)
        PROVE  VerdictOK'
    BY <2>5, <1>9 DEF CreateTurn, StoreReserve, store, servers, executions, approvals,
           records, bounds, VerdictOK, DataOK, Base, HomesOK
  <2>6. ASSUME NEW th \in Threads, NEW k \in Keys \cup {NoKey}, ReplayTurn(s, th, k)
        PROVE  VerdictOK'
    BY <2>6 DEF ReplayTurn, StoreReplay, store, servers, executions, approvals, records,
           bounds, VerdictOK
  <2>7. ASSUME NEW t \in Turns, CancelTurn(s, t) PROVE VerdictOK'
    BY <2>7 DEF CancelTurn, UpdateTurnStatus, store, servers, executions, approvals, records,
           bounds, VerdictOK, Refuse, HomesOK, Base, DataOK
  <2>8. CASE Shutdown(s)
    BY <2>8 DEF Shutdown, store, servers, executions, approvals, records, bounds, VerdictOK,
           ActiveTurns, Refuse, DataOK
  <2>9. ASSUME NEW t \in Turns, home[t] = s, TurnStep(t) PROVE VerdictOK'
    <3>1. CASE Begin(t)
      <4>1. CASE Leave({t})
        BY <3>1, <4>1 DEF Leave, Without, Begin, DataOK, VerdictOK
      <4>2. CASE ~Leave({t})
        <5>1. exec[t] = "queued" /\ exec' = [exec EXCEPT ![t] = "running"]
              /\ UNCHANGED <<told, approvers, verdict>>
          BY <3>1, <4>2 DEF Begin, approvals
        <5> QED BY <5>1 DEF VerdictOK, DataOK, Base, HomesOK
      <4> QED BY <4>1, <4>2
    <3>2. CASE Push(t)
      BY <3>2 DEF Push, store, servers, executions, approvals, records, bounds, VerdictOK
    <3>3. CASE Flush(t)
      BY <3>3 DEF Flush, store, servers, executions, approvals, records, bounds, VerdictOK
    <3>4. ASSUME NEW outcome \in Terminal, NEW extra \in {0, 1}, Settle(t, outcome, extra)
          PROVE  VerdictOK'
      BY <3>4 DEF Settle, Close, UpdateTurnStatus, store, servers, executions, approvals,
             records, bounds, VerdictOK, Leave, Without, DataOK
    <3>5. CASE Break(t)
      BY <3>5 DEF Break, store, servers, executions, approvals, records, bounds, VerdictOK,
             Leave, Without, DataOK
    <3>6. CASE Ask(t)
      BY <3>6 DEF Ask, store, servers, executions, approvals, records, bounds, VerdictOK
    <3>7. ASSUME NEW approved \in BOOLEAN, Respond(t, approved) PROVE VerdictOK'
      BY <3>7 DEF Respond, store, servers, executions, approvals, records, bounds, VerdictOK
    <3>8. CASE Resume(t)
      BY <3>8 DEF Resume, store, servers, executions, approvals, records, bounds, VerdictOK
    <3>9. CASE Answer(t) \/ Fail(t) \/ Stop(t)
      BY <3>4, <3>9 DEF Answer, Fail, Stop, Terminal
    <3> QED BY <2>9, <3>1, <3>2, <3>3, <3>5, <3>6, <3>7, <3>8, <3>9 DEF TurnStep
  <2> QED BY <1>2, <2>1, <2>2, <2>3, <2>4, <2>5, <2>6, <2>7, <2>8, <2>9
             DEF LoopStep, ServerStep
<1>3. ASSUME NEW s \in Owners, ClearDeletes(s) PROVE VerdictOK'
  BY <1>3 DEF ClearDeletes, StoreClear, store, servers, executions, approvals, records,
         bounds, VerdictOK
<1>4. ASSUME NEW s \in Owners, Die(s) PROVE VerdictOK'
  BY <1>4 DEF Die, store, servers, executions, approvals, records, bounds, VerdictOK, Leave,
         Without, DataOK
<1> QED BY <1>1, <1>2, <1>3, <1>4 DEF Next

-----------------------------------------------------------------------------
(*                             Running turns                               *)

(* What reserves a turn, seen from that turn and from the running ones.    *)
New(t, s, th) ==
    /\ t = reserved + 1
    /\ status'[t] = "running" /\ owner'[t] = s /\ pid'[t] = spid[s] /\ thread'[t] = th
    /\ server[s] = "up" /\ clearing[s] = None
    /\ UNCHANGED <<server, spid, clearing, deletes, faults>>
    /\ home'[t] = s /\ exec'[t] = "queued"
    /\ \A u \in Turns : u # t /\ status'[u] = "running" => thread[u] # th

(* A reservation is what New says.                                         *)
LEMMA CreateNew ==
    ASSUME Base, NEW s \in Owners, clearing[s] = None, NEW th \in Threads,
           NEW k \in Keys \cup {NoKey}, CreateTurn(s, th, k)
    PROVE  reserved + 1 \in Turns /\ New(reserved + 1, s, th)
<1> DEFINE t == reserved + 1
<1>1. t \in Turns
  BY RuntimeStoreAssumption DEF CreateTurn, StoreReserve, Base, RowsOK
<1>2. owner'[t] = s /\ pid'[t] = spid[s] /\ thread'[t] = th /\ status'[t] = "running"
  BY <1>1 DEF CreateTurn, StoreReserve, Without, Base, RowsOK
<1>3. home'[t] = s /\ exec'[t] = "queued"
  BY <1>1 DEF CreateTurn, Base, HomesOK
<1>4. /\ server[s] = "up"
      /\ UNCHANGED <<server, spid, clearing, deletes, faults>>
  BY DEF CreateTurn, servers, bounds
<1>5. ASSUME NEW u \in Turns, u # t, status'[u] = "running" PROVE thread[u] # th
  <2>1. u \notin StaleTurns(AlivePids) /\ status[u] = "running"
    BY <1>5 DEF CreateTurn, StoreReserve
  <2> QED BY <2>1 DEF CreateTurn, StoreReserve, Vacant, Running
<1> QED BY <1>1, <1>2, <1>3, <1>4, <1>5 DEF New

(* Where the rows of the next state come from.                             *)
LEMMA RowOf ==
    ASSUME Base, [Next]_vars
    PROVE  \/ Fewer
           \/ \E s \in Owners, th \in Threads :
                reserved + 1 \in Turns /\ New(reserved + 1, s, th)
<1>1. CASE UNCHANGED vars
  BY <1>1, FewerNot DEF vars, store, Base
<1>2. ASSUME NEW s \in Owners, clearing[s] = None, NEW th \in Threads,
             NEW k \in Keys \cup {NoKey}, CreateTurn(s, th, k)
      PROVE  reserved + 1 \in Turns /\ New(reserved + 1, s, th)
  BY <1>2, CreateNew
<1>3. threads \in SUBSET Threads /\ created \in Nat
  BY RuntimeStoreAssumption DEF ThreadsOK, Base
<1>4. Fewer \/ Reserves
  BY <1>3, RowStep DEF ServersOK, Base
<1> QED BY <1>1, <1>2, <1>4 DEF Reserves

(* A step reserves at most one turn.                                       *)
LEMMA RowReserved ==
    ASSUME RowsOK, ThreadsOK, ServersOK, [Next]_vars PROVE reserved' \in {reserved,
       reserved + 1}
<1>1. threads \in SUBSET Threads /\ created \in Nat
  BY RuntimeStoreAssumption DEF ThreadsOK
<1>2. Fewer \/ Reserves
  BY <1>1, RowStep DEF ServersOK
<1> QED BY <1>2 DEF Fewer, Reserves, CreateTurn, StoreReserve

(* A row of the next state is an earlier one, or just reserved.            *)
LEMMA OldOrNew ==
    ASSUME Base, [Next]_vars, NEW t \in Turns, status'[t] # "absent"
    PROVE  \/ /\ status[t] # "absent" /\ thread'[t] = thread[t]
              /\ status[t] = "gone" => status'[t] = "gone"
              /\ status'[t] = "running" =>
                   status[t] = "running" /\ owner'[t] = owner[t] /\ pid'[t] = pid[t]
           \/ \E s \in Owners, th \in Threads : New(t, s, th)
<1>1. CASE status[t] # "absent"
  BY <1>1, OldRow DEF Base
<1>2. CASE status[t] = "absent"
  <2>1. ~Fewer
    BY <1>2 DEF Fewer, Ended
  <2>2. PICK s \in Owners, th \in Threads :
          reserved + 1 \in Turns /\ New(reserved + 1, s, th)
    BY <2>1, RowOf
  <2>3. status'[t] = status[t] \/ t = reserved + 1
    <3>1. reserved' = reserved \/ reserved' = reserved + 1
      BY <2>1, RowReserved DEF Base
    <3>2. (status'[t] = "absent" <=> t > reserved') /\ t > reserved /\ reserved \in Nat
      BY <1>2, BaseStep, RuntimeStoreAssumption DEF Base, RowsOK
    <3> QED BY <1>2, <3>1, <3>2
  <2> QED BY <1>2, <2>2, <2>3
<1> QED BY <1>1, <1>2

(* A thread never has two running turns.                                   *)
LEMMA OneRunningStep ==
    ASSUME Base, OneRunningPerThread, [Next]_vars PROVE OneRunningPerThread'
<1> SUFFICES ASSUME NEW t \in Turns, NEW u \in Turns, status'[t] = "running",
                    status'[u] = "running", thread'[t] = thread'[u], t # u
             PROVE  FALSE
  BY DEF OneRunningPerThread, Running
<1> DEFINE Old(x) == /\ status[x] = "running" /\ thread'[x] = thread[x]
           Fresh(x) == \E s \in Owners, th \in Threads : New(x, s, th)
<1>1. (Old(t) \/ Fresh(t)) /\ (Old(u) \/ Fresh(u))
  BY OldOrNew
<1>2. ~(Old(t) /\ Old(u))
  BY DEF OneRunningPerThread, Running
<1>3. ~(Fresh(t) /\ Fresh(u))
  BY DEF New
<1>4. ASSUME NEW x \in Turns, NEW y \in Turns, x # y, Old(x), Fresh(y),
             status'[x] = "running", thread'[x] = thread'[y]
      PROVE  FALSE
  BY <1>4 DEF New
<1> QED BY <1>1, <1>2, <1>3, <1>4

(* A running turn is the newest of its thread: retention cannot reach it.  *)
Newest ==
    \A t, u \in Turns :
      /\ status[t] = "running"
      /\ status[u] \in Terminal \cup {"running"}
      /\ thread[u] = thread[t]
      => u <= t

(* Every step keeps running turns the newest of their threads.             *)
LEMMA NewestStep == ASSUME Base, Newest, [Next]_vars PROVE Newest'
<1> SUFFICES ASSUME NEW t \in Turns, NEW u \in Turns, status'[t] = "running",
                    status'[u] \in Terminal \cup {"running"}, thread'[u] = thread'[t]
             PROVE  u <= t
  BY DEF Newest
<1> DEFINE Fresh(x) == \E s \in Owners, th \in Threads : New(x, s, th)
<1>1. \/ status[t] = "running" /\ thread'[t] = thread[t]
      \/ Fresh(t)
  BY OldOrNew
<1>2. \/ status[u] \in Terminal \cup {"running"} /\ thread'[u] = thread[u]
      \/ Fresh(u)
  <2>1. status'[u] # "absent" /\ status'[u] # "gone"
    BY DEF Terminal
  <2>2. status[u] \in Terminal \cup {"absent", "running", "gone"}
    BY DEF Base, RowsOK
  <2> QED BY <2>1, <2>2, OldOrNew
<1>3. reserved \in Nat /\ (status[u] # "absent" => u <= reserved)
  BY RuntimeStoreAssumption DEF Base, RowsOK
<1>4. CASE Fresh(t) /\ ~Fresh(u)
  BY <1>2, <1>3, <1>4 DEF New, Terminal
<1>5. CASE Fresh(t) /\ Fresh(u)
  BY <1>5, <1>3 DEF New
<1>6. CASE ~Fresh(t) /\ Fresh(u)
  <2>1. t # u
    BY <1>6
  <2> QED BY <1>1, <1>6, <2>1 DEF New
<1>7. CASE ~Fresh(t) /\ ~Fresh(u)
  BY <1>1, <1>2, <1>7 DEF Newest
<1> QED BY <1>4, <1>5, <1>6, <1>7

-----------------------------------------------------------------------------
(*                          Owners and executors                           *)

(* How a server may change.                                                *)
Onward(r) ==
    /\ server[r] # "off" => server'[r] # "off"
    /\ server'[r] \in {"up", "closing"} =>
         \/ server[r] = "off"
         \/ server[r] \in {"up", "closing"} /\ spid'[r] = spid[r]
    /\ server'[r] = "up" => server[r] \in {"off", "up"}

(* Servers go only onward.                                                 *)
LEMMA OnwardStep ==
    ASSUME ServersOK, NEW r \in Owners, [Next]_vars
    PROVE  Onward(r)
<1>1. CASE UNCHANGED vars
  BY <1>1 DEF vars, store, servers, executions, approvals, records, bounds, Onward,
         ServersOK
<1>2. ASSUME NEW s \in Owners, LoopStep(s) PROVE Onward(r)
  <2>1. ASSUME NEW p \in Pids, Start(s, p) PROVE Onward(r)
    BY <2>1 DEF Start, store, servers, executions, approvals, records, bounds, Onward,
           ServersOK
  <2>2. CASE CreateThread(s)
    BY <2>2 DEF CreateThread, StoreCreate, store, servers, executions, approvals, records,
           bounds, Onward, ServersOK
  <2>3. ASSUME NEW th \in Threads, DeleteThread(s, th) PROVE Onward(r)
    BY <2>3 DEF DeleteThread, StoreDelete, store, servers, executions, approvals, records,
           bounds, Onward, ServersOK
  <2>4. ASSUME NEW th \in Threads, ClearThread(s, th) PROVE Onward(r)
    BY <2>4 DEF ClearThread, store, servers, executions, approvals, records, bounds, Onward,
           ServersOK
  <2>5. ASSUME NEW th \in Threads, NEW k \in Keys \cup {NoKey}, CreateTurn(s, th, k)
        PROVE  Onward(r)
    BY <2>5 DEF CreateTurn, StoreReserve, store, servers, executions, approvals, records,
           bounds, Onward, ServersOK
  <2>6. ASSUME NEW th \in Threads, NEW k \in Keys \cup {NoKey}, ReplayTurn(s, th, k)
        PROVE  Onward(r)
    BY <2>6 DEF ReplayTurn, StoreReplay, store, servers, executions, approvals, records,
           bounds, Onward, ServersOK
  <2>7. ASSUME NEW t \in Turns, CancelTurn(s, t) PROVE Onward(r)
    BY <2>7 DEF CancelTurn, UpdateTurnStatus, store, servers, executions, approvals, records,
           bounds, Onward, ServersOK
  <2>8. CASE Shutdown(s)
    BY <2>8 DEF Shutdown, store, servers, executions, approvals, records, bounds, Onward,
           ServersOK
  <2>9. ASSUME NEW t \in Turns, home[t] = s, TurnStep(t) PROVE Onward(r)
    <3>1. CASE Begin(t)
      BY <3>1 DEF Begin, store, servers, executions, approvals, records, bounds, Onward,
             ServersOK
    <3>2. CASE Push(t)
      BY <3>2 DEF Push, store, servers, executions, approvals, records, bounds, Onward,
             ServersOK
    <3>3. CASE Flush(t)
      BY <3>3 DEF Flush, store, servers, executions, approvals, records, bounds, Onward,
             ServersOK
    <3>4. ASSUME NEW outcome \in Terminal, NEW extra \in {0, 1}, Settle(t, outcome, extra)
          PROVE  Onward(r)
      BY <3>4 DEF Settle, Close, UpdateTurnStatus, store, servers, executions, approvals,
             records, bounds, Onward, ServersOK
    <3>5. CASE Break(t)
      BY <3>5 DEF Break, store, servers, executions, approvals, records, bounds, Onward,
             ServersOK
    <3>6. CASE Ask(t)
      BY <3>6 DEF Ask, store, servers, executions, approvals, records, bounds, Onward,
             ServersOK
    <3>7. ASSUME NEW approved \in BOOLEAN, Respond(t, approved) PROVE Onward(r)
      BY <3>7 DEF Respond, store, servers, executions, approvals, records, bounds, Onward,
             ServersOK
    <3>8. CASE Resume(t)
      BY <3>8 DEF Resume, store, servers, executions, approvals, records, bounds, Onward,
             ServersOK
    <3>9. CASE Answer(t) \/ Fail(t) \/ Stop(t)
      BY <3>4, <3>9 DEF Answer, Fail, Stop, Terminal
    <3> QED BY <2>9, <3>1, <3>2, <3>3, <3>5, <3>6, <3>7, <3>8, <3>9 DEF TurnStep
  <2> QED BY <1>2, <2>1, <2>2, <2>3, <2>4, <2>5, <2>6, <2>7, <2>8, <2>9
             DEF LoopStep, ServerStep
<1>3. ASSUME NEW s \in Owners, ClearDeletes(s) PROVE Onward(r)
  BY <1>3 DEF ClearDeletes, StoreClear, store, servers, executions, approvals, records,
         bounds, Onward, ServersOK
<1>4. ASSUME NEW s \in Owners, Die(s) PROVE Onward(r)
  BY <1>4 DEF Die, store, servers, executions, approvals, records, bounds, Onward, ServersOK,
         Working
<1> QED BY <1>1, <1>2, <1>3, <1>4 DEF Next

(* The owner of a running turn has been started, and while it works its    *)
(* process id is the one in the row.                                       *)
Owned ==
    \A t \in Turns : status[t] = "running" =>
      /\ owner[t] \in Owners
      /\ server[owner[t]] # "off"
      /\ Working(owner[t]) => pid[t] = spid[owner[t]]

(* Every step keeps running turns owned by started servers.                *)
LEMMA OwnedStep == ASSUME Base, Owned, [Next]_vars PROVE Owned'
<1> SUFFICES ASSUME NEW t \in Turns, status'[t] = "running"
             PROVE  /\ owner'[t] \in Owners
                    /\ server'[owner'[t]] # "off"
                    /\ server'[owner'[t]] \in {"up", "closing"} => pid'[t] = spid'[owner'[t]]
  BY DEF Owned, Working
<1>1. CASE status[t] = "running" /\ owner'[t] = owner[t] /\ pid'[t] = pid[t]
  <2>1. owner[t] \in Owners /\ Onward(owner[t])
    BY <1>1, OnwardStep DEF Owned, Base
  <2> QED BY <1>1, <2>1 DEF Owned, Onward, Working
<1>2. CASE \E s \in Owners, th \in Threads : New(t, s, th)
  BY <1>2 DEF New
<1> QED BY <1>1, <1>2, OldOrNew

(* No turn of a server runs in the thread that the server is clearing.     *)
Clears ==
    \A s \in Owners, t \in Turns :
      status[t] = "running" /\ owner[t] = s /\ thread[t] \in Threads => clearing[s] # thread[t]

Mine(s) ==
    \/ clearing'[s] \in {clearing[s], None}
    \/ \E th \in Threads :
        Clearable(th) /\ clearing'[s] = th /\ UNCHANGED <<status, owner, thread>>

(* A clear begins only where no turn runs.                                 *)
LEMMA ClearingStep ==
    ASSUME ServersOK, NEW r \in Owners, [Next]_vars
    PROVE  Mine(r)
<1>1. CASE UNCHANGED vars
  BY <1>1 DEF vars, store, servers, executions, approvals, records, bounds, Mine
<1>2. ASSUME NEW s \in Owners, LoopStep(s) PROVE Mine(r)
  <2>1. ASSUME NEW p \in Pids, Start(s, p) PROVE Mine(r)
    BY <2>1 DEF Start, store, servers, executions, approvals, records, bounds, Mine,
           ServersOK
  <2>2. CASE CreateThread(s)
    BY <2>2 DEF CreateThread, StoreCreate, store, servers, executions, approvals, records,
           bounds, Mine
  <2>3. ASSUME NEW th \in Threads, DeleteThread(s, th) PROVE Mine(r)
    BY <2>3 DEF DeleteThread, StoreDelete, store, servers, executions, approvals, records,
           bounds, Mine
  <2>4. ASSUME NEW th \in Threads, ClearThread(s, th) PROVE Mine(r)
    BY <2>4 DEF ClearThread, store, servers, executions, approvals, records, bounds, Mine,
           ServersOK
  <2>5. ASSUME NEW th \in Threads, NEW k \in Keys \cup {NoKey}, CreateTurn(s, th, k)
        PROVE  Mine(r)
    BY <2>5 DEF CreateTurn, StoreReserve, store, servers, executions, approvals, records,
           bounds, Mine
  <2>6. ASSUME NEW th \in Threads, NEW k \in Keys \cup {NoKey}, ReplayTurn(s, th, k)
        PROVE  Mine(r)
    BY <2>6 DEF ReplayTurn, StoreReplay, store, servers, executions, approvals, records,
           bounds, Mine
  <2>7. ASSUME NEW t \in Turns, CancelTurn(s, t) PROVE Mine(r)
    BY <2>7 DEF CancelTurn, UpdateTurnStatus, store, servers, executions, approvals, records,
           bounds, Mine
  <2>8. CASE Shutdown(s)
    BY <2>8 DEF Shutdown, store, servers, executions, approvals, records, bounds, Mine,
           ServersOK
  <2>9. ASSUME NEW t \in Turns, home[t] = s, TurnStep(t) PROVE Mine(r)
    <3>1. CASE Begin(t)
      BY <3>1 DEF Begin, store, servers, executions, approvals, records, bounds, Mine
    <3>2. CASE Push(t)
      BY <3>2 DEF Push, store, servers, executions, approvals, records, bounds, Mine
    <3>3. CASE Flush(t)
      BY <3>3 DEF Flush, store, servers, executions, approvals, records, bounds, Mine
    <3>4. ASSUME NEW outcome \in Terminal, NEW extra \in {0, 1}, Settle(t, outcome, extra)
          PROVE  Mine(r)
      BY <3>4 DEF Settle, Close, UpdateTurnStatus, store, servers, executions, approvals,
             records, bounds, Mine
    <3>5. CASE Break(t)
      BY <3>5 DEF Break, store, servers, executions, approvals, records, bounds, Mine
    <3>6. CASE Ask(t)
      BY <3>6 DEF Ask, store, servers, executions, approvals, records, bounds, Mine
    <3>7. ASSUME NEW approved \in BOOLEAN, Respond(t, approved) PROVE Mine(r)
      BY <3>7 DEF Respond, store, servers, executions, approvals, records, bounds, Mine
    <3>8. CASE Resume(t)
      BY <3>8 DEF Resume, store, servers, executions, approvals, records, bounds, Mine
    <3>9. CASE Answer(t) \/ Fail(t) \/ Stop(t)
      BY <3>4, <3>9 DEF Answer, Fail, Stop, Terminal
    <3> QED BY <2>9, <3>1, <3>2, <3>3, <3>5, <3>6, <3>7, <3>8, <3>9 DEF TurnStep
  <2> QED BY <1>2, <2>1, <2>2, <2>3, <2>4, <2>5, <2>6, <2>7, <2>8, <2>9
             DEF LoopStep, ServerStep
<1>3. ASSUME NEW s \in Owners, ClearDeletes(s) PROVE Mine(r)
  BY <1>3 DEF ClearDeletes, StoreClear, store, servers, executions, approvals, records,
         bounds, Mine, ServersOK
<1>4. ASSUME NEW s \in Owners, Die(s) PROVE Mine(r)
  BY <1>4 DEF Die, store, servers, executions, approvals, records, bounds, Mine, ServersOK
<1> QED BY <1>1, <1>2, <1>3, <1>4 DEF Next

(* While a server clears a thread, none of its own turns runs there.       *)
LEMMA ClearsStep == ASSUME Base, Clears, [Next]_vars PROVE Clears'
<1> SUFFICES ASSUME NEW s \in Owners, NEW t \in Turns, status'[t] = "running",
                    owner'[t] = s, thread'[t] \in Threads, clearing'[s] = thread'[t]
             PROVE  FALSE
  BY DEF Clears
<1>1. clearing'[s] # None
  OBVIOUS
<1>2. CASE status[t] = "running" /\ owner'[t] = owner[t] /\ thread'[t] = thread[t]
  <2>1. clearing[s] # thread[t]
    BY <1>2 DEF Clears
  <2>2. PICK th \in Threads :
          Clearable(th) /\ clearing'[s] = th /\ UNCHANGED <<status, owner, thread>>
    BY <1>1, <1>2, <2>1, ClearingStep DEF Mine, Base
  <2> QED BY <1>2, <2>2 DEF Clearable, Running
<1>3. CASE \E r \in Owners, th \in Threads : New(t, r, th)
  BY <1>1, <1>3 DEF New
<1> QED BY <1>2, <1>3, OldOrNew

(* What a step leaves of a running turn's executor.                        *)
StillExecutes(x) ==
    status[x] = "running" /\ status'[x] = "running" /\ owner'[x] = owner[x] /\ faults' = 0 =>
      /\ server'[owner[x]] # "closing"
      /\ server'[owner[x]] = "up" => home'[x] = owner[x]

(* Every step leaves a running turn its executor.                          *)
LEMMA ExecutorStep ==
    ASSUME Base, DataOK, Owned, LiveTurnHasExecutor, NEW x \in Turns, [Next]_vars
    PROVE  StillExecutes(x)
<1>10. status[x] = "running" =>
         /\ owner[x] \in Owners /\ server[owner[x]] # "off"
         /\ faults = 0 => /\ server[owner[x]] # "closing"
                          /\ server[owner[x]] = "up" => home[x] = owner[x]
  BY DEF Owned, LiveTurnHasExecutor, Running
<1>1. CASE UNCHANGED vars
  BY <1>1, <1>10 DEF vars, store, servers, executions, approvals, records, bounds,
         StillExecutes
<1>2. ASSUME NEW s \in Owners, LoopStep(s) PROVE StillExecutes(x)
  <2>1. ASSUME NEW p \in Pids, Start(s, p) PROVE StillExecutes(x)
    BY <2>1, <1>10 DEF Start, store, servers, executions, approvals, records, bounds,
           StillExecutes, Base, ServersOK
  <2>2. CASE CreateThread(s)
    BY <2>2, <1>10 DEF CreateThread, StoreCreate, store, servers, executions, approvals,
           records, bounds, StillExecutes
  <2>3. ASSUME NEW th \in Threads, DeleteThread(s, th) PROVE StillExecutes(x)
    BY <2>3, <1>10 DEF DeleteThread, StoreDelete, store, servers, executions, approvals,
           records, bounds, StillExecutes
  <2>4. ASSUME NEW th \in Threads, ClearThread(s, th) PROVE StillExecutes(x)
    BY <2>4, <1>10 DEF ClearThread, store, servers, executions, approvals, records, bounds,
           StillExecutes
  <2>5. ASSUME NEW th \in Threads, NEW k \in Keys \cup {NoKey}, CreateTurn(s, th, k)
        PROVE  StillExecutes(x)
    <3>1. UNCHANGED <<server, faults>> /\ home' = [home EXCEPT ![reserved + 1] = s]
      BY <2>5 DEF CreateTurn, servers, bounds
    <3>2. status[x] = "running" => x # reserved + 1
      BY RuntimeStoreAssumption DEF Base, RowsOK
    <3> QED BY <3>1, <3>2, <1>10 DEF StillExecutes, Base, HomesOK
  <2>6. ASSUME NEW th \in Threads, NEW k \in Keys \cup {NoKey}, ReplayTurn(s, th, k)
        PROVE  StillExecutes(x)
    BY <2>6, <1>10 DEF ReplayTurn, StoreReplay, store, servers, executions, approvals,
           records, bounds, StillExecutes
  <2>7. ASSUME NEW t \in Turns, CancelTurn(s, t) PROVE StillExecutes(x)
    BY <2>7, <1>10 DEF CancelTurn, UpdateTurnStatus, store, servers, executions, approvals,
           records, bounds, StillExecutes
  <2>8. CASE Shutdown(s)
    <3>1. /\ server' = [server EXCEPT ![s] = "closing"] /\ UNCHANGED <<faults, home>>
          /\ \A t \in ActiveTurns(s) : Settled(t, {s}) => status'[t] = "canceled"
          /\ server[s] = "up"
      BY <2>8 DEF Shutdown, bounds, Without, ActiveTurns
    <3>2. CASE status[x] = "running" /\ owner[x] = s /\ faults = 0
      <4>1. home[x] = s
        BY <1>10, <3>1, <3>2
      <4>2. exec[x] \in {"queued", "running"}
        BY <4>1, RuntimeStoreAssumption DEF Base, HomesOK
      <4> QED BY <3>1, <3>2, <4>1, <4>2 DEF StillExecutes, ActiveTurns, Settled
    <3> QED BY <3>1, <3>2, <1>10 DEF StillExecutes, Base, ServersOK
  <2>9. ASSUME NEW t \in Turns, home[t] = s, TurnStep(t) PROVE StillExecutes(x)
    <3>1. CASE Begin(t)
      <4>1. UNCHANGED <<server, status, owner, faults>>
        BY <3>1 DEF Begin, store, servers, bounds
      <4>2. CASE status[t] # "running" /\ Leave({t})
        <5>1. home' = [u \in Turns |-> IF u = t THEN NoOwner ELSE home[u]]
          BY <4>2 DEF Leave, Without
        <5> QED BY <4>1, <4>2, <5>1, <1>10 DEF StillExecutes
      <4>3. CASE status[t] = "running" /\ home' = home
        BY <4>1, <4>3, <1>10 DEF StillExecutes
      <4> QED BY <3>1, <4>2, <4>3 DEF Begin
    <3>2. CASE Push(t)
      BY <3>2, <1>10 DEF Push, store, servers, executions, approvals, records, bounds,
             StillExecutes
    <3>3. CASE Flush(t)
      BY <3>3, <1>10 DEF Flush, store, servers, executions, approvals, records, bounds,
             StillExecutes
    <3>4. ASSUME NEW outcome \in Terminal, NEW extra \in {0, 1}, Settle(t, outcome, extra)
          PROVE  StillExecutes(x)
      <4>1. home' = [u \in Turns |-> IF u = t THEN NoOwner ELSE home[u]]
            /\ UNCHANGED <<server, faults>>
        BY <3>4 DEF Settle, Leave, Without, servers, bounds
      <4>2. status[t] = "running" => status'[t] # "running"
        <5>1. home[t] # NoOwner
          BY <3>4 DEF Settle, Executing, Base, HomesOK
        <5>2. status[t] = "running" => Settled(t, {home[t]})
          BY <5>1 DEF Settled, Base, HomesOK
        <5>3. status' = IF Settled(t, {home[t]}) THEN [status EXCEPT ![t] = outcome] ELSE status
          BY <3>4 DEF Settle, UpdateTurnStatus
        <5> QED BY <5>2, <5>3 DEF Base, RowsOK, Terminal
      <4> QED BY <4>1, <4>2, <1>10 DEF StillExecutes
    <3>5. CASE Break(t)
      BY <3>5 DEF Break, store, servers, executions, approvals, records, bounds,
             StillExecutes, DataOK
    <3>6. CASE Ask(t)
      BY <3>6, <1>10 DEF Ask, store, servers, executions, approvals, records, bounds,
             StillExecutes
    <3>7. ASSUME NEW approved \in BOOLEAN, Respond(t, approved) PROVE StillExecutes(x)
      BY <3>7, <1>10 DEF Respond, store, servers, executions, approvals, records, bounds,
             StillExecutes
    <3>8. CASE Resume(t)
      BY <3>8, <1>10 DEF Resume, store, servers, executions, approvals, records, bounds,
             StillExecutes
    <3>9. CASE Answer(t) \/ Fail(t) \/ Stop(t)
      BY <3>4, <3>9 DEF Answer, Fail, Stop, Terminal
    <3> QED BY <2>9, <3>1, <3>2, <3>3, <3>5, <3>6, <3>7, <3>8, <3>9 DEF TurnStep
  <2> QED BY <1>2, <2>1, <2>2, <2>3, <2>4, <2>5, <2>6, <2>7, <2>8, <2>9
             DEF LoopStep, ServerStep
<1>3. ASSUME NEW s \in Owners, ClearDeletes(s) PROVE StillExecutes(x)
  BY <1>3, <1>10 DEF ClearDeletes, StoreClear, store, servers, executions, approvals,
         records, bounds, StillExecutes
<1>4. ASSUME NEW s \in Owners, Die(s) PROVE StillExecutes(x)
  <2>1. /\ home' = [u \in Turns |-> IF home[u] = s THEN NoOwner ELSE home[u]]
        /\ server' = [server EXCEPT ![s] = "dead"] /\ faults' = faults
    BY <1>4 DEF Die, Leave, Without, bounds
  <2>2. home[x] = s /\ status[x] = "running" => owner[x] = s
    BY RuntimeStoreAssumption DEF Base, HomesOK
  <2> QED BY <2>1, <2>2, <1>10 DEF StillExecutes, Base, ServersOK
<1> QED BY <1>1, <1>2, <1>3, <1>4 DEF Next

(* A running turn at a server that serves has its executor there.          *)
LEMMA LiveStep ==
    ASSUME Base, DataOK, Owned, LiveTurnHasExecutor, [Next]_vars
    PROVE  LiveTurnHasExecutor'
<1>1. HomesOK' /\ Owned'
  BY HomesStep, OwnedStep
<1> SUFFICES ASSUME NEW t \in Turns, status'[t] = "running", faults' = 0
             PROVE  /\ server'[owner'[t]] # "closing"
                    /\ server'[owner'[t]] = "up" => home'[t] = owner'[t]
  BY <1>1, RuntimeStoreAssumption DEF LiveTurnHasExecutor, Running, HomesOK, Owned
<1>2. CASE status[t] = "running" /\ owner'[t] = owner[t]
  BY <1>2, ExecutorStep DEF StillExecutes
<1>3. CASE \E s \in Owners, th \in Threads : New(t, s, th)
  BY <1>3 DEF New
<1> QED BY <1>2, <1>3, OldOrNew

-----------------------------------------------------------------------------
(*                                 Histories                               *)

(* No step takes a settled turn from a thread with a turn that runs on.    *)
LEMMA Spared ==
    ASSUME Base, NEW x \in Turns, NEW u \in Turns, status[x] = "running",
       status'[x] = "running",
           status[u] \in Terminal, thread[u] = thread[x], [Next]_vars
    PROVE  status'[u] = status[u]
<1>1. CASE UNCHANGED vars
  BY <1>1 DEF vars, store, servers, executions, approvals, records, bounds
<1>2. ASSUME NEW s \in Owners, LoopStep(s) PROVE status'[u] = status[u]
  <2>1. ASSUME NEW p \in Pids, Start(s, p) PROVE status'[u] = status[u]
    BY <2>1 DEF Start, store, servers, executions, approvals, records, bounds, Recover,
           Without, StaleTurns, Running, Terminal
  <2>2. CASE CreateThread(s)
    BY <2>2 DEF CreateThread, StoreCreate, store, servers, executions, approvals, records,
           bounds, DropRows
  <2>3. ASSUME NEW th \in Threads, DeleteThread(s, th) PROVE status'[u] = status[u]
    BY <2>3 DEF DeleteThread, StoreDelete, store, servers, executions, approvals, records,
           bounds, DropRows
  <2>4. ASSUME NEW th \in Threads, ClearThread(s, th) PROVE status'[u] = status[u]
    BY <2>4 DEF ClearThread, store, servers, executions, approvals, records, bounds
  <2>5. ASSUME NEW th \in Threads, NEW k \in Keys \cup {NoKey}, CreateTurn(s, th, k)
        PROVE  status'[u] = status[u]
    <3>1. clearing[s] = None
      BY <1>2 DEF LoopStep
    <3>2. New(reserved + 1, s, th)
      BY <2>5, <3>1, CreateNew
    <3>3. x # reserved + 1 /\ u # reserved + 1
      BY RuntimeStoreAssumption DEF Base, RowsOK, Terminal
    <3>4. thread[u] # th
      BY <3>2, <3>3 DEF New
    <3>5. u \notin BeyondNewest(Rows(th) \ (Running \ StaleTurns(AlivePids)), KeepTurns - 1)
      BY <3>4 DEF BeyondNewest, Rows
    <3>6. u \notin StaleTurns(AlivePids)
      BY DEF StaleTurns, Running, Terminal
    <3> QED BY <2>5, <3>3, <3>5, <3>6 DEF CreateTurn, StoreReserve
  <2>6. ASSUME NEW th \in Threads, NEW k \in Keys \cup {NoKey}, ReplayTurn(s, th, k)
        PROVE  status'[u] = status[u]
    BY <2>6 DEF ReplayTurn, StoreReplay, store, servers, executions, approvals, records,
           bounds, Recover, Without, StaleTurns, Running, Terminal
  <2>7. ASSUME NEW t \in Turns, CancelTurn(s, t) PROVE status'[u] = status[u]
    BY <2>7 DEF CancelTurn, UpdateTurnStatus, store, servers, executions, approvals, records,
           bounds, Settled, Base, RowsOK, Terminal
  <2>8. CASE Shutdown(s)
    BY <2>8 DEF Shutdown, store, servers, executions, approvals, records, bounds, Settled,
           Without, Terminal
  <2>9. ASSUME NEW t \in Turns, home[t] = s, TurnStep(t) PROVE status'[u] = status[u]
    <3>1. CASE Begin(t)
      BY <3>1 DEF Begin, store, servers, executions, approvals, records, bounds
    <3>2. CASE Push(t)
      BY <3>2 DEF Push, store, servers, executions, approvals, records, bounds
    <3>3. CASE Flush(t)
      BY <3>3 DEF Flush, store, servers, executions, approvals, records, bounds
    <3>4. ASSUME NEW outcome \in Terminal, NEW extra \in {0, 1}, Settle(t, outcome, extra)
          PROVE  status'[u] = status[u]
      BY <3>4 DEF Settle, Close, UpdateTurnStatus, store, servers, executions, approvals,
             records, bounds, Settled, Base, RowsOK, Terminal
    <3>5. CASE Break(t)
      BY <3>5 DEF Break, store, servers, executions, approvals, records, bounds
    <3>6. CASE Ask(t)
      BY <3>6 DEF Ask, store, servers, executions, approvals, records, bounds
    <3>7. ASSUME NEW approved \in BOOLEAN, Respond(t, approved) PROVE status'[u] = status[u]
      BY <3>7 DEF Respond, store, servers, executions, approvals, records, bounds
    <3>8. CASE Resume(t)
      BY <3>8 DEF Resume, store, servers, executions, approvals, records, bounds
    <3>9. CASE Answer(t) \/ Fail(t) \/ Stop(t)
      BY <3>4, <3>9 DEF Answer, Fail, Stop, Terminal
    <3> QED BY <2>9, <3>1, <3>2, <3>3, <3>5, <3>6, <3>7, <3>8, <3>9 DEF TurnStep
  <2> QED BY <1>2, <2>1, <2>2, <2>3, <2>4, <2>5, <2>6, <2>7, <2>8, <2>9
             DEF LoopStep, ServerStep
<1>3. ASSUME NEW s \in Owners, ClearDeletes(s) PROVE status'[u] = status[u]
  BY <1>3 DEF ClearDeletes, StoreClear, store, servers, executions, approvals, records,
         bounds, DropRows
<1>4. ASSUME NEW s \in Owners, Die(s) PROVE status'[u] = status[u]
  BY <1>4 DEF Die, store, servers, executions, approvals, records, bounds
<1> QED BY <1>1, <1>2, <1>3, <1>4 DEF Next

(* Hence the messages of its thread stay the same.                         *)
LEMMA MessagesStep ==
    ASSUME Base, OneRunningPerThread, [Next]_vars, NEW t \in Turns, status[t] = "running",
           status'[t] = "running"
    PROVE  CompletedMessages(t)' = CompletedMessages(t)
<1>1. thread'[t] = thread[t]
  BY OldRow DEF Base
<1>2. ASSUME NEW u \in Turns, status[u] = "completed", thread[u] = thread[t]
      PROVE  status'[u] = "completed" /\ thread'[u] = thread[t]
  BY <1>2, Spared, OldRow DEF Base, Terminal
<1>3. ASSUME NEW u \in Turns, status'[u] = "completed", thread'[u] = thread[t], u # t
      PROVE  status[u] = "completed" /\ thread[u] = thread[t]
  <2>1. status[u] # "absent" /\ thread'[u] = thread[u]
        /\ (status[u] = "gone" => status'[u] = "gone")
    BY <1>3, OldOrNew DEF New
  <2>2. status[u] # "running"
    BY <1>3, <2>1 DEF OneRunningPerThread, Running
  <2>3. status[u] \in Terminal
    BY <1>3, <2>1, <2>2 DEF Base, RowsOK
  <2>4. status'[u] = status[u]
    BY <1>3, <2>1, <2>3, Spared
  <2> QED BY <1>3, <2>1, <2>4
<1>4. CompletedMessages(t) =
        {u \in Turns : thread[u] = thread[t] /\ status[u] = "completed" /\ u # t}
  BY DEF CompletedMessages, Rows, Terminal
<1>5. CompletedMessages(t)' =
        {u \in Turns : thread'[u] = thread'[t] /\ status'[u] = "completed" /\ u # t}
  BY DEF CompletedMessages, Rows, Terminal
<1> QED BY <1>1, <1>2, <1>3, <1>4, <1>5

Remembers(x) ==
    exec'[x] = "running" =>
      \/ exec[x] = "running" /\ history'[x] = history[x]
      \/ history'[x] = CompletedMessages(x)

(* An execution keeps the history it was given.                            *)
LEMMA RemembersStep ==
    ASSUME Base, DataOK, NEW x \in Turns, [Next]_vars
    PROVE  Remembers(x)
<1>1. CASE UNCHANGED vars
  BY <1>1 DEF vars, store, servers, executions, approvals, records, bounds, Remembers
<1>2. ASSUME NEW s \in Owners, LoopStep(s) PROVE Remembers(x)
  <2>1. ASSUME NEW p \in Pids, Start(s, p) PROVE Remembers(x)
    BY <2>1 DEF Start, store, servers, executions, approvals, records, bounds, Remembers
  <2>2. CASE CreateThread(s)
    BY <2>2 DEF CreateThread, StoreCreate, store, servers, executions, approvals, records,
           bounds, Remembers
  <2>3. ASSUME NEW th \in Threads, DeleteThread(s, th) PROVE Remembers(x)
    BY <2>3 DEF DeleteThread, StoreDelete, store, servers, executions, approvals, records,
           bounds, Remembers
  <2>4. ASSUME NEW th \in Threads, ClearThread(s, th) PROVE Remembers(x)
    BY <2>4 DEF ClearThread, store, servers, executions, approvals, records, bounds,
           Remembers
  <2>5. ASSUME NEW th \in Threads, NEW k \in Keys \cup {NoKey}, CreateTurn(s, th, k)
        PROVE  Remembers(x)
    BY <2>5 DEF CreateTurn, StoreReserve, store, servers, executions, approvals, records,
           bounds, Remembers, Base, HomesOK
  <2>6. ASSUME NEW th \in Threads, NEW k \in Keys \cup {NoKey}, ReplayTurn(s, th, k)
        PROVE  Remembers(x)
    BY <2>6 DEF ReplayTurn, StoreReplay, store, servers, executions, approvals, records,
           bounds, Remembers
  <2>7. ASSUME NEW t \in Turns, CancelTurn(s, t) PROVE Remembers(x)
    BY <2>7 DEF CancelTurn, UpdateTurnStatus, store, servers, executions, approvals, records,
           bounds, Remembers
  <2>8. CASE Shutdown(s)
    BY <2>8 DEF Shutdown, store, servers, executions, approvals, records, bounds, Remembers
  <2>9. ASSUME NEW t \in Turns, home[t] = s, TurnStep(t) PROVE Remembers(x)
    <3>1. CASE Begin(t)
      <4>1. CASE Leave({t})
        BY <3>1, <4>1 DEF Leave, Without, Remembers
      <4>2. CASE ~Leave({t})
        <5>1. /\ exec' = [exec EXCEPT ![t] = "running"]
              /\ history' = [history EXCEPT ![t] = CompletedMessages(t)]
          BY <3>1, <4>2 DEF Begin
        <5>2. CASE x = t
          BY <5>1, <5>2 DEF Remembers, DataOK
        <5>3. CASE x # t
          BY <5>1, <5>3 DEF Remembers
        <5> QED BY <5>2, <5>3
      <4> QED BY <4>1, <4>2
    <3>2. CASE Push(t)
      BY <3>2 DEF Push, store, servers, executions, approvals, records, bounds, Remembers
    <3>3. CASE Flush(t)
      BY <3>3 DEF Flush, store, servers, executions, approvals, records, bounds, Remembers
    <3>4. ASSUME NEW outcome \in Terminal, NEW extra \in {0, 1}, Settle(t, outcome, extra)
          PROVE  Remembers(x)
      BY <3>4 DEF Settle, Close, UpdateTurnStatus, store, servers, executions, approvals,
             records, bounds, Remembers, Leave, Without
    <3>5. CASE Break(t)
      BY <3>5 DEF Break, store, servers, executions, approvals, records, bounds, Remembers,
             Leave, Without
    <3>6. CASE Ask(t)
      BY <3>6 DEF Ask, store, servers, executions, approvals, records, bounds, Remembers
    <3>7. ASSUME NEW approved \in BOOLEAN, Respond(t, approved) PROVE Remembers(x)
      BY <3>7 DEF Respond, store, servers, executions, approvals, records, bounds, Remembers
    <3>8. CASE Resume(t)
      BY <3>8 DEF Resume, store, servers, executions, approvals, records, bounds, Remembers
    <3>9. CASE Answer(t) \/ Fail(t) \/ Stop(t)
      BY <3>4, <3>9 DEF Answer, Fail, Stop, Terminal
    <3> QED BY <2>9, <3>1, <3>2, <3>3, <3>5, <3>6, <3>7, <3>8, <3>9 DEF TurnStep
  <2> QED BY <1>2, <2>1, <2>2, <2>3, <2>4, <2>5, <2>6, <2>7, <2>8, <2>9
             DEF LoopStep, ServerStep
<1>3. ASSUME NEW s \in Owners, ClearDeletes(s) PROVE Remembers(x)
  BY <1>3 DEF ClearDeletes, StoreClear, store, servers, executions, approvals, records,
         bounds, Remembers
<1>4. ASSUME NEW s \in Owners, Die(s) PROVE Remembers(x)
  BY <1>4 DEF Die, store, servers, executions, approvals, records, bounds, Remembers, Leave,
         Without
<1> QED BY <1>1, <1>2, <1>3, <1>4 DEF Next

(* The history a running agent was given stays its thread's.               *)
LEMMA HistoryStep ==
    ASSUME Base, DataOK, OneRunningPerThread, HistoryStaysCurrent, [Next]_vars
    PROVE  HistoryStaysCurrent'
<1> SUFFICES ASSUME NEW t \in Turns, status'[t] = "running", exec'[t] = "running"
             PROVE  history'[t] = CompletedMessages(t)'
  BY DEF HistoryStaysCurrent, Running
<1>1. status[t] = "running"
  BY OldOrNew DEF New
<1>2. CompletedMessages(t)' = CompletedMessages(t)
  BY <1>1, MessagesStep
<1>3. Remembers(t)
  BY RemembersStep
<1> QED BY <1>1, <1>2, <1>3 DEF Remembers, HistoryStaysCurrent, Running

-----------------------------------------------------------------------------
(*                                  Upkeep                                 *)

(* The owner of a turn that recovery finds stale is dead: another process  *)
(* that has taken its process id can only delay that.                      *)
LEMMA StaleIsDead ==
    ASSUME Base, Owned, NEW alive, AlivePids \subseteq alive, NEW x \in StaleTurns(alive)
    PROVE  server[owner[x]] = "dead"
<1>1. x \in Turns /\ status[x] = "running" /\ pid[x] \notin alive
  BY DEF StaleTurns, Running
<1>2. owner[x] \in Owners /\ server[owner[x]] # "off"
  BY <1>1 DEF Owned
<1>3. ~Working(owner[x])
  BY <1>1, <1>2 DEF Owned, AlivePids
<1> QED BY <1>2, <1>3 DEF Base, ServersOK, Working

(* Whatever nothing in S is newer than is not beyond the newest of S.      *)
LEMMA NotBeyond ==
    ASSUME NEW S, NEW x, \A y \in S : ~(y > x), NEW n \in Nat, n >= 1
    PROVE  x \notin BeyondNewest(S, n)
<1>1. {y \in S : y > x} = {}
  OBVIOUS
<1>2. Cardinality({y \in S : y > x}) = 0
  BY <1>1, FS_EmptySet
<1> QED BY <1>2 DEF BeyondNewest

(* What upkeep leaves of a running turn.                                   *)
Spares(x) ==
    /\ x \in recovered' \ recovered => server[owner[x]] = "dead"
    /\ status'[x] = "gone" =>
        \/ deletes' # deletes
        \/ \E s \in Owners \ {owner[x]} : clearing[s] = thread[x]

(* Upkeep spares the living, action by action.                             *)
LEMMA SparesStep ==
    ASSUME Base, DataOK, Owned, Newest, Clears, NEW x \in Turns, status[x] = "running",
       [Next]_vars
    PROVE  Spares(x)
<1>1. CASE UNCHANGED vars
  BY <1>1 DEF vars, store, servers, executions, approvals, records, bounds, Spares
<1>2. ASSUME NEW s \in Owners, LoopStep(s) PROVE Spares(x)
  <2>1. ASSUME NEW p \in Pids, Start(s, p) PROVE Spares(x)
    <3>1. recovered' = recovered \cup StaleTurns(AlivePids \cup {p})
          /\ status'[x] \in {"running", "failed"}
      BY <2>1 DEF Start, Recover, Without
    <3>2. x \in StaleTurns(AlivePids \cup {p}) => server[owner[x]] = "dead"
      BY StaleIsDead
    <3> QED BY <3>1, <3>2 DEF Spares
  <2>2. CASE CreateThread(s)
    <3>1. thread[x] \notin BeyondNewest(IdleThreads, KeepThreads - 1)
      BY DEF BeyondNewest, IdleThreads, Running
    <3> QED BY <2>2, <3>1 DEF CreateThread, StoreCreate, DropRows, records, Spares
  <2>3. ASSUME NEW th \in Threads, DeleteThread(s, th) PROVE Spares(x)
    <3>1. deletes' = deletes + 1 /\ recovered' = recovered
      BY <2>3 DEF DeleteThread, records
    <3> QED BY <3>1 DEF Spares, DataOK
  <2>4. ASSUME NEW th \in Threads, ClearThread(s, th) PROVE Spares(x)
    BY <2>4 DEF ClearThread, store, servers, executions, approvals, records, bounds, Spares
  <2>5. ASSUME NEW th \in Threads, NEW k \in Keys \cup {NoKey}, CreateTurn(s, th, k)
        PROVE  Spares(x)
    <3> DEFINE stale == StaleTurns(AlivePids)
    <3>1. x # reserved + 1
      BY RuntimeStoreAssumption DEF Base, RowsOK
    <3>2. stale \subseteq Running
      BY DEF StaleTurns
    <3>3. x \notin BeyondNewest(Rows(th) \ (Running \ stale), KeepTurns - 1)
      <4>1. CASE thread[x] # th
        BY <4>1 DEF BeyondNewest, Rows
      <4>2. CASE thread[x] = th
        <5>1. \A y \in Rows(th) \ (Running \ stale) : ~(y > x)
          BY <4>2 DEF Rows, Newest
        <5>2. KeepTurns - 1 \in Nat /\ KeepTurns - 1 >= 1
          BY RuntimeStoreAssumption
        <5> QED BY <5>1, <5>2, NotBeyond
      <4> QED BY <4>1, <4>2
    <3>4. status'[x] \in {"running", "failed"}
      BY <2>5, <3>1, <3>3 DEF CreateTurn, StoreReserve
    <3>5. recovered' = recovered \cup stale
      BY <2>5 DEF CreateTurn
    <3>6. x \in stale => server[owner[x]] = "dead"
      BY StaleIsDead
    <3> QED BY <3>4, <3>5, <3>6 DEF Spares
  <2>6. ASSUME NEW th \in Threads, NEW k \in Keys \cup {NoKey}, ReplayTurn(s, th, k)
        PROVE  Spares(x)
    <3>1. recovered' = recovered \cup StaleTurns(AlivePids)
          /\ status'[x] \in {"running", "failed"}
      BY <2>6 DEF ReplayTurn, StoreReplay, Recover, Without
    <3>2. x \in StaleTurns(AlivePids) => server[owner[x]] = "dead"
      BY StaleIsDead
    <3> QED BY <3>1, <3>2 DEF Spares
  <2>7. ASSUME NEW t \in Turns, CancelTurn(s, t) PROVE Spares(x)
    BY <2>7 DEF CancelTurn, UpdateTurnStatus, store, servers, executions, approvals, records,
           bounds, Spares, Base, RowsOK
  <2>8. CASE Shutdown(s)
    BY <2>8 DEF Shutdown, store, servers, executions, approvals, records, bounds, Spares,
           Without
  <2>9. ASSUME NEW t \in Turns, home[t] = s, TurnStep(t) PROVE Spares(x)
    <3>1. CASE Begin(t)
      BY <3>1 DEF Begin, store, servers, executions, approvals, records, bounds, Spares
    <3>2. CASE Push(t)
      BY <3>2 DEF Push, store, servers, executions, approvals, records, bounds, Spares
    <3>3. CASE Flush(t)
      BY <3>3 DEF Flush, store, servers, executions, approvals, records, bounds, Spares
    <3>4. ASSUME NEW outcome \in Terminal, NEW extra \in {0, 1}, Settle(t, outcome, extra)
          PROVE  Spares(x)
      BY <3>4 DEF Settle, Close, UpdateTurnStatus, store, servers, executions, approvals,
             records, bounds, Spares, Base, RowsOK, Terminal
    <3>5. CASE Break(t)
      BY <3>5 DEF Break, store, servers, executions, approvals, records, bounds, Spares
    <3>6. CASE Ask(t)
      BY <3>6 DEF Ask, store, servers, executions, approvals, records, bounds, Spares
    <3>7. ASSUME NEW approved \in BOOLEAN, Respond(t, approved) PROVE Spares(x)
      BY <3>7 DEF Respond, store, servers, executions, approvals, records, bounds, Spares
    <3>8. CASE Resume(t)
      BY <3>8 DEF Resume, store, servers, executions, approvals, records, bounds, Spares
    <3>9. CASE Answer(t) \/ Fail(t) \/ Stop(t)
      BY <3>4, <3>9 DEF Answer, Fail, Stop, Terminal
    <3> QED BY <2>9, <3>1, <3>2, <3>3, <3>5, <3>6, <3>7, <3>8, <3>9 DEF TurnStep
  <2> QED BY <1>2, <2>1, <2>2, <2>3, <2>4, <2>5, <2>6, <2>7, <2>8, <2>9
             DEF LoopStep, ServerStep
<1>3. ASSUME NEW s \in Owners, ClearDeletes(s) PROVE Spares(x)
  <2>1. CASE thread[x] = clearing[s]
    <3>1. owner[x] # s /\ thread[x] \in Threads
      BY <1>3, <2>1 DEF ClearDeletes, Clears, Base, ServersOK
    <3> QED BY <1>3, <2>1, <3>1 DEF ClearDeletes, records, Spares
  <2>2. CASE thread[x] # clearing[s]
    BY <1>3, <2>2 DEF ClearDeletes, StoreClear, DropRows, records, Spares
  <2> QED BY <2>1, <2>2
<1>4. ASSUME NEW s \in Owners, Die(s) PROVE Spares(x)
  BY <1>4 DEF Die, store, servers, executions, approvals, records, bounds, Spares
<1> QED BY <1>1, <1>2, <1>3, <1>4 DEF Next

(* The same for all turns at once.                                         *)
LEMMA UpkeepStep ==
    ASSUME Base, DataOK, Owned, Newest, Clears, [Next]_vars
    PROVE  \A t \in Running :
             /\ t \in recovered' \ recovered => server[owner[t]] = "dead"
             /\ status'[t] = "gone" =>
                  \/ deletes' # deletes
                  \/ \E s \in Owners \ {owner[t]} : clearing[s] = thread[t]
BY SparesStep DEF Spares, Running

-----------------------------------------------------------------------------
(*                          What the events tell                           *)

Ending(event) == event.kind \in Terminal

Starting(event) == event.kind = "started"

(* Every event but the first of a thread is of a turn of the thread.       *)
Known(events, th, st, at) ==
    \A i \in DOMAIN events :
        events[i].kind # "created" =>
            /\ events[i].turn \in Turns
            /\ at[events[i].turn] = th
            /\ st[events[i].turn] # "absent"

(* An end tells the status in the row, while there is a row.               *)
Faithful(events, st) ==
    \A i \in DOMAIN events :
        Ending(events[i]) => st[events[i].turn] \in {events[i].kind, "gone"}

Once(events) ==
    \A i, j \in DOMAIN events :
        Ending(events[i]) /\ Ending(events[j]) /\ events[i].turn = events[j].turn
            => i = j

(* An end after position i is of the turn that starts there.               *)
EndsAt(events, i, m) == i < m /\ Ending(events[m]) /\ events[m].turn = events[i].turn

InTurn(events, rec) ==
    \A i, j \in DOMAIN events :
        Starting(events[i]) /\ Starting(events[j]) /\ i < j =>
            \/ events[i].turn \in rec
            \/ \E m \in DOMAIN events : EndsAt(events, i, m) /\ m < j

(* A turn that runs no more has its end told, unless recovery ended it.    *)
Told(events, st, rec) ==
    \A i \in DOMAIN events :
        Starting(events[i]) /\ st[events[i].turn] # "running" =>
            \/ events[i].turn \in rec
            \/ \E m \in DOMAIN events : EndsAt(events, i, m)

(* Nothing more will come of a completed turn.                             *)
Whole(events, over) ==
    \A i \in DOMAIN events : events[i].kind = "completed" => events[i].turn \in over

(* What the events of thread th tell, given the statuses and threads of    *)
(* the turns, the recovered turns and those whose executions are over with *)
(* nothing lost.                                                           *)
Story(events, th, st, at, rec, over) ==
    /\ Known(events, th, st, at) /\ Faithful(events, st)
    /\ Once(events) /\ InTurn(events, rec) /\ Told(events, st, rec)
    /\ Whole(events, over)

Over == {t \in Turns : exec[t] = "done" /\ buffer[t] = 0 /\ t \notin lost}

(* A delta is lost with its thread, whose turns have no rows, or with the  *)
(* execution.                                                              *)
LostOK == \A t \in lost : status[t] \in {"running", "absent"} => exec[t] = "done"

StoryOK ==
    \A th \in Threads : Story(log[th], th, status, thread, recovered, Over)

(* The events without the oldest.                                          *)
LEMMA TailAt ==
    ASSUME NEW events \in Seq(Events), events # << >>
    PROVE  /\ \A i \in DOMAIN Tail(events) :
                i \in Nat /\ i + 1 \in DOMAIN events /\ Tail(events)[i] = events[i + 1]
           /\ \A m \in DOMAIN events :
                m \in Nat /\ (m > 1 => m - 1 \in DOMAIN Tail(events))
<1>1. /\ Tail(events) \in Seq(Events) /\ Len(events) \in Nat
      /\ Len(Tail(events)) = Len(events) - 1
      /\ \A i \in 1..Len(events) - 1 : Tail(events)[i] = events[i + 1]
  OBVIOUS
<1>2. DOMAIN Tail(events) = 1..Len(events) - 1 /\ DOMAIN events = 1..Len(events)
  BY <1>1
<1> HIDE <1>1
<1>3. Len(events) \in Nat /\ \A i \in 1..Len(events) - 1 : Tail(events)[i] = events[i + 1]
  BY <1>1
<1> QED BY <1>2, <1>3

(* And with one more.                                                      *)
LEMMA AppendAt ==
    ASSUME NEW events \in Seq(Events), NEW event \in Events
    PROVE  /\ Len(events) \in Nat /\ DOMAIN events = 1..Len(events)
           /\ DOMAIN Append(events, event) = 1..Len(events) + 1
           /\ \A i \in DOMAIN events : Append(events, event)[i] = events[i]
           /\ Append(events, event)[Len(events) + 1] = event
OBVIOUS

(* Retention forgets the oldest events of a story.                         *)
LEMMA StoryTail ==
    ASSUME NEW events \in Seq(Events), events # << >>, NEW th, NEW st, NEW at, NEW rec,
           NEW over, Story(events, th, st, at, rec, over)
    PROVE  Story(Tail(events), th, st, at, rec, over)
<1> DEFINE rest == Tail(events)
<1>1. /\ \A i \in DOMAIN rest :
           i \in Nat /\ i + 1 \in DOMAIN events /\ rest[i] = events[i + 1]
      /\ \A m \in DOMAIN events : m \in Nat /\ (m > 1 => m - 1 \in DOMAIN rest)
  BY TailAt
<1> HIDE DEF rest
<1>2. Known(rest, th, st, at) /\ Faithful(rest, st) /\ Whole(rest, over)
  BY <1>1 DEF Story, Known, Faithful, Whole
<1>3. Once(rest)
  <2> SUFFICES ASSUME NEW i \in DOMAIN rest, NEW j \in DOMAIN rest, Ending(rest[i]),
                      Ending(rest[j]), rest[i].turn = rest[j].turn
               PROVE  i = j
    BY DEF Once
  <2>1. i + 1 = j + 1
    BY <1>1 DEF Story, Once
  <2> QED BY <1>1, <2>1
<1>4. ASSUME NEW i \in DOMAIN rest, NEW m \in DOMAIN events, EndsAt(events, i + 1, m)
      PROVE  m - 1 \in DOMAIN rest /\ EndsAt(rest, i, m - 1)
  <2>1. m \in Nat /\ i \in Nat /\ i + 1 < m
    BY <1>1, <1>4 DEF EndsAt
  <2>2. 1 <= i + 1
    BY <2>1
  <2>3. m > 1 /\ i < m - 1 /\ (m - 1) + 1 = m
    BY <2>1, <2>2
  <2>4. m - 1 \in DOMAIN rest
    BY <1>1, <2>3
  <2>5. rest[m - 1] = events[m] /\ rest[i] = events[i + 1]
    BY <1>1, <2>3, <2>4
  <2> QED BY <1>4, <2>3, <2>4, <2>5 DEF EndsAt
<1>5. InTurn(rest, rec)
  <2> SUFFICES ASSUME NEW i \in DOMAIN rest, NEW j \in DOMAIN rest, Starting(rest[i]),
                      Starting(rest[j]), i < j, rest[i].turn \notin rec
               PROVE  \E m \in DOMAIN rest : EndsAt(rest, i, m) /\ m < j
    BY DEF InTurn
  <2>1. i + 1 < j + 1 /\ i \in Nat /\ j \in Nat
    BY <1>1
  <2>2. PICK m \in DOMAIN events : EndsAt(events, i + 1, m) /\ m < j + 1
    BY <1>1, <2>1 DEF Story, InTurn
  <2>3. m - 1 < j
    BY <1>1, <2>1, <2>2
  <2> QED BY <1>4, <2>2, <2>3
<1>6. Told(rest, st, rec)
  <2> SUFFICES ASSUME NEW i \in DOMAIN rest, Starting(rest[i]), st[rest[i].turn] # "running",
                      rest[i].turn \notin rec
               PROVE  \E m \in DOMAIN rest : EndsAt(rest, i, m)
    BY DEF Told
  <2>1. PICK m \in DOMAIN events : EndsAt(events, i + 1, m)
    BY <1>1 DEF Story, Told
  <2> QED BY <1>4, <2>1
<1> QED BY <1>2, <1>3, <1>5, <1>6 DEF Story, rest

(* An event that neither starts nor ends a turn, of a turn of the thread   *)
(* or of none.                                                             *)
LEMMA StoryDelta ==
    ASSUME NEW events \in Seq(Events), NEW event \in Events, NEW th, NEW st, NEW at,
           NEW rec, NEW over, Story(events, th, st, at, rec, over),
           event.kind = "delta",
           event.turn \in Turns, at[event.turn] = th, st[event.turn] # "absent"
    PROVE  Story(Append(events, event), th, st, at, rec, over)
<1> DEFINE longer == Append(events, event)
           n == Len(events) + 1
<1>1. /\ n \in DOMAIN longer /\ longer[n] = event
      /\ \A i \in DOMAIN events : i \in DOMAIN longer /\ longer[i] = events[i] /\ i < n
      /\ \A i \in DOMAIN longer : i = n \/ i \in DOMAIN events
  BY AppendAt
<1> HIDE DEF longer, n
<1>2. ~Ending(longer[n]) /\ ~Starting(longer[n]) /\ longer[n].kind # "completed"
  BY <1>1 DEF Ending, Starting, Terminal
<1>3. Known(longer, th, st, at) /\ Faithful(longer, st) /\ Whole(longer, over)
  BY <1>1, <1>2 DEF Story, Known, Faithful, Whole
<1>4. Once(longer)
  BY <1>1, <1>2 DEF Story, Once
<1>5. \A i, m \in DOMAIN events : EndsAt(events, i, m) => EndsAt(longer, i, m)
  BY <1>1 DEF EndsAt
<1>6. InTurn(longer, rec)
  BY <1>1, <1>2, <1>5 DEF Story, InTurn
<1>7. Told(longer, st, rec)
  BY <1>1, <1>2, <1>5 DEF Story, Told
<1> QED BY <1>3, <1>4, <1>6, <1>7 DEF Story, longer

(* A turn starts when no turn of the thread runs.                          *)
LEMMA StoryStart ==
    ASSUME NEW events \in Seq(Events), NEW event \in Events, NEW th, NEW st, NEW at,
           NEW rec, NEW over, Story(events, th, st, at, rec, over),
           event.kind = "started", event.turn \in Turns, at[event.turn] = th,
           st[event.turn] = "running",
           \A i \in DOMAIN events : Starting(events[i]) => st[events[i].turn] # "running"
    PROVE  Story(Append(events, event), th, st, at, rec, over)
<1> DEFINE longer == Append(events, event)
           n == Len(events) + 1
<1>1. /\ n \in DOMAIN longer /\ longer[n] = event
      /\ \A i \in DOMAIN events :
           i \in DOMAIN longer /\ longer[i] = events[i] /\ i < n /\ ~(n < i)
      /\ \A i \in DOMAIN longer : i = n \/ i \in DOMAIN events
      /\ ~(n < n)
  BY AppendAt
<1> HIDE DEF longer, n
<1>2. ~Ending(longer[n]) /\ longer[n].kind # "completed"
  BY <1>1 DEF Ending, Terminal
<1>3. Known(longer, th, st, at) /\ Faithful(longer, st) /\ Whole(longer, over)
  BY <1>1, <1>2 DEF Story, Known, Faithful, Whole
<1>4. Once(longer)
  BY <1>1, <1>2 DEF Story, Once
<1>5. \A i, m \in DOMAIN events : EndsAt(events, i, m) => EndsAt(longer, i, m)
  BY <1>1 DEF EndsAt
<1>6. InTurn(longer, rec)
  <2> SUFFICES ASSUME NEW i \in DOMAIN longer, NEW j \in DOMAIN longer,
                      Starting(longer[i]), Starting(longer[j]), i < j,
                      longer[i].turn \notin rec
               PROVE  \E m \in DOMAIN longer : EndsAt(longer, i, m) /\ m < j
    BY DEF InTurn
  <2>1. i \in DOMAIN events
    BY <1>1
  <2>2. CASE j \in DOMAIN events
    BY <1>1, <1>5, <2>1, <2>2 DEF Story, InTurn
  <2>3. CASE j = n
    <3>1. PICK m \in DOMAIN events : EndsAt(events, i, m)
      BY <1>1, <2>1 DEF Story, Told
    <3> QED BY <1>1, <1>5, <2>1, <2>3, <3>1
  <2> QED BY <1>1, <2>2, <2>3
<1>7. Told(longer, st, rec)
  BY <1>1, <1>5 DEF Story, Told
<1> QED BY <1>3, <1>4, <1>6, <1>7 DEF Story, longer

(* A running turn ends: with its end told.                                 *)
LEMMA StoryEnd ==
    ASSUME NEW events \in Seq(Events), NEW event \in Events, NEW th,
           NEW st \in [Turns -> Terminal \cup {"absent", "running", "gone"}], NEW at, NEW rec, NEW over,
           Story(events, th, st, at, rec, over),
           event.turn \in Turns, at[event.turn] = th, st[event.turn] = "running",
           Ending(event), event.kind = "completed" => event.turn \in over
    PROVE  Story(Append(events, event), th, [st EXCEPT ![event.turn] = event.kind], at, rec,
                 over)
<1> DEFINE longer == Append(events, event)
           n == Len(events) + 1
           st2 == [st EXCEPT ![event.turn] = event.kind]
<1>1. /\ n \in DOMAIN longer /\ longer[n] = event
      /\ \A i \in DOMAIN events : i \in DOMAIN longer /\ longer[i] = events[i] /\ i < n
      /\ \A i \in DOMAIN longer : i = n \/ i \in DOMAIN events
  BY AppendAt
<1>2. /\ st2[event.turn] = event.kind /\ event.kind \in Terminal
      /\ \A t \in Turns : t # event.turn => st2[t] = st[t]
  BY DEF Ending
<1>3. ~Starting(event) /\ event.kind # "created" /\ event.kind # "absent"
      /\ event.kind # "running"
  BY <1>2 DEF Starting, Terminal
<1> HIDE DEF longer, n, st2
<1>4. \A i \in DOMAIN events :
        Ending(events[i]) => events[i].turn \in Turns /\ events[i].turn # event.turn
  BY DEF Story, Known, Faithful, Ending, Terminal
<1>5. \A i \in DOMAIN events : Starting(events[i]) => events[i].turn \in Turns
  BY DEF Story, Known, Starting
<1>6. Known(longer, th, st2, at)
  BY <1>1, <1>2, <1>3 DEF Story, Known
<1>7. Faithful(longer, st2) /\ Once(longer)
  BY <1>1, <1>2, <1>4 DEF Story, Faithful, Once
<1>8. Whole(longer, over)
  BY <1>1 DEF Story, Whole
<1>9. \A i, m \in DOMAIN events : EndsAt(events, i, m) => EndsAt(longer, i, m)
  BY <1>1 DEF EndsAt
<1>10. InTurn(longer, rec)
  BY <1>1, <1>3, <1>9 DEF Story, InTurn
<1>11. Told(longer, st2, rec)
  <2> SUFFICES ASSUME NEW i \in DOMAIN longer, Starting(longer[i]),
                      st2[longer[i].turn] # "running", longer[i].turn \notin rec
               PROVE  \E m \in DOMAIN longer : EndsAt(longer, i, m)
    BY DEF Told
  <2>1. i \in DOMAIN events
    BY <1>1, <1>3
  <2>2. CASE events[i].turn = event.turn
    BY <1>1, <2>1, <2>2 DEF EndsAt
  <2>3. CASE events[i].turn # event.turn
    <3>1. st[events[i].turn] # "running" /\ events[i].turn \notin rec /\ Starting(events[i])
      BY <1>1, <1>2, <1>5, <2>1, <2>3
    <3> QED BY <1>1, <1>9, <2>1, <3>1 DEF Story, Told
  <2> QED BY <2>2, <2>3
<1> QED BY <1>6, <1>7, <1>8, <1>10, <1>11 DEF Story, longer, st2

(* What may happen to the turns of a thread without a word of it: recovery *)
(* fails running ones, and retention takes others away.                    *)
Quietly(th, st, at, rec, over, st2, at2, rec2, over2) ==
    /\ rec \subseteq rec2 /\ over \subseteq over2
    /\ \A t \in Turns : st[t] # "absent" /\ at[t] = th =>
         /\ at2[t] = at[t]
         /\ \/ st2[t] = st[t]
            \/ st[t] = "running" /\ st2[t] # "absent" /\ t \in rec2
            \/ st[t] # "running" /\ st2[t] = "gone"

(* A step that is quiet for a thread leaves the story of its events true.  *)
LEMMA StoryQuiet ==
    ASSUME NEW events \in Seq(Events), NEW th, NEW st, NEW at, NEW rec, NEW over,
           NEW st2, NEW at2, NEW rec2, NEW over2,
           Story(events, th, st, at, rec, over),
           Quietly(th, st, at, rec, over, st2, at2, rec2, over2)
    PROVE  Story(events, th, st2, at2, rec2, over2)
<1>1. \A i \in DOMAIN events :
        events[i].kind # "created" =>
          /\ events[i].turn \in Turns /\ at[events[i].turn] = th
          /\ st[events[i].turn] # "absent"
  BY DEF Story, Known
<1>2. Known(events, th, st2, at2)
  BY <1>1 DEF Quietly, Known
<1>3. Faithful(events, st2)
  BY <1>1 DEF Quietly, Story, Faithful, Ending, Terminal
<1>4. InTurn(events, rec2) /\ Whole(events, over2) /\ Once(events)
  BY DEF Quietly, Story, InTurn, Whole
<1>5. Told(events, st2, rec2)
  BY <1>1 DEF Quietly, Story, Told, Starting
<1> QED BY <1>2, <1>3, <1>4, <1>5 DEF Story

(* A thread that is new, deleted or cleared tells nothing yet.             *)
LEMMA StoryEmpty ==
    ASSUME NEW th, NEW st, NEW at, NEW rec, NEW over
    PROVE  /\ Story(<< >>, th, st, at, rec, over)
           /\ Story(<<Event(None, "created")>>, th, st, at, rec, over)
<1>1. Story(<< >>, th, st, at, rec, over)
  BY DEF Story, Known, Faithful, Once, InTurn, Told, Whole
<1> DEFINE first == <<Event(None, "created")>>
<1>2. DOMAIN first = {1} /\ first[1].kind = "created"
  BY DEF Event
<1> HIDE DEF first
<1>3. \A i \in DOMAIN first : ~Ending(first[i]) /\ ~Starting(first[i])
                              /\ first[i].kind = "created"
  BY <1>2 DEF Ending, Starting, Terminal
<1>4. Story(first, th, st, at, rec, over)
  BY <1>3 DEF Story, Known, Faithful, Once, InTurn, Told, Whole
<1> QED BY <1>1, <1>4 DEF first

(* An event is kept, by pushing out the oldest if need be.                 *)
LEMMA StoryEmitted ==
    ASSUME NEW events \in Seq(Events), NEW event \in Events, NEW th, NEW st, NEW at,
           NEW rec, NEW over, Story(Append(events, event), th, st, at, rec, over)
    PROVE  Story(Emitted(th, events, event), th, st, at, rec, over)
<1>1. Append(events, event) \in Seq(Events) /\ Len(Append(events, event)) = Len(events) + 1
      /\ Len(events) \in Nat
  OBVIOUS
<1>2. Append(events, event) # << >>
  BY <1>1
<1> QED BY <1>1, <1>2, StoryTail, StoryEmpty DEF Emitted

Tells(th) == Story(log[th], th, status, thread, recovered, Over)

(* What is over stays over.                                                *)
LEMMA DoneStep ==
    ASSUME Base, DataOK, NEW x \in Turns, exec[x] = "done", [Next]_vars
    PROVE  /\ exec'[x] = "done"
           /\ buffer[x] = 0 => buffer'[x] = 0
           /\ buffer[x] = 0 /\ x \notin lost => x \notin lost'
<1> DEFINE Done == /\ exec'[x] = "done"
                   /\ buffer[x] = 0 => buffer'[x] = 0
                   /\ buffer[x] = 0 /\ x \notin lost => x \notin lost'
<1>9. \A k, s, th : CreateTurn(s, th, k) => x # reserved + 1
  BY RuntimeStoreAssumption DEF CreateTurn, StoreReserve, Base, RowsOK, HomesOK
<1>1. CASE UNCHANGED vars
  BY <1>1 DEF vars, executions, records
<1>2. ASSUME NEW s \in Owners, LoopStep(s) PROVE Done
  <2>1. ASSUME NEW p \in Pids, Start(s, p) PROVE Done
    BY <2>1 DEF Start, executions
  <2>2. CASE CreateThread(s)
    BY <2>2 DEF CreateThread, executions, records
  <2>3. ASSUME NEW th \in Threads, DeleteThread(s, th) PROVE Done
    BY <2>3 DEF DeleteThread, executions, records
  <2>4. ASSUME NEW th \in Threads, ClearThread(s, th) PROVE Done
    BY <2>4 DEF ClearThread, executions, records
  <2>5. ASSUME NEW th \in Threads, NEW k \in Keys \cup {NoKey}, CreateTurn(s, th, k)
        PROVE  Done
    BY <2>5, <1>9 DEF CreateTurn, Base, HomesOK
  <2>6. ASSUME NEW th \in Threads, NEW k \in Keys \cup {NoKey}, ReplayTurn(s, th, k)
        PROVE  Done
    BY <2>6 DEF ReplayTurn, executions
  <2>7. ASSUME NEW t \in Turns, CancelTurn(s, t) PROVE Done
    BY <2>7 DEF CancelTurn, records
  <2>8. CASE Shutdown(s)
    BY <2>8 DEF Shutdown, records
  <2>9. ASSUME NEW t \in Turns, home[t] = s, TurnStep(t) PROVE Done
    <3>1. CASE Begin(t)
      BY <3>1 DEF Begin, Leave, Without, records, Base, HomesOK
    <3>2. CASE Push(t) \/ Flush(t)
      BY <3>2 DEF Push, Flush, Executing, LostWith, DataOK
    <3>3. ASSUME NEW outcome, NEW extra, Settle(t, outcome, extra) PROVE Done
      BY <3>3 DEF Settle, Close, Executing, LostWith, Leave, Without, DataOK
    <3>4. CASE Break(t)
      BY <3>4 DEF Break, Executing, Drop, Leave, Without
    <3>5. CASE Ask(t) \/ Resume(t)
      BY <3>5 DEF Ask, Resume, executions, records
    <3>6. ASSUME NEW approved \in BOOLEAN, Respond(t, approved) PROVE Done
      BY <3>6 DEF Respond, executions, records
    <3>7. CASE Answer(t) \/ Fail(t) \/ Stop(t)
      BY <3>3, <3>7 DEF Answer, Fail, Stop
    <3> QED BY <2>9, <3>1, <3>2, <3>4, <3>5, <3>6, <3>7 DEF TurnStep
  <2> QED BY <1>2, <2>1, <2>2, <2>3, <2>4, <2>5, <2>6, <2>7, <2>8, <2>9
             DEF LoopStep, ServerStep
<1>3. ASSUME NEW s \in Owners, ClearDeletes(s) PROVE Done
  BY <1>3 DEF ClearDeletes, executions, records
<1>4. ASSUME NEW s \in Owners, Die(s) PROVE Done
  BY <1>4 DEF Die, Leave, Drop, Without
<1> QED BY <1>1, <1>2, <1>3, <1>4 DEF Next

(* What is over stays over.                                                *)
LEMMA OverStep == ASSUME Base, DataOK, [Next]_vars PROVE Over \subseteq Over'
BY DoneStep DEF Over

(* Deltas are lost in no other way.                                        *)
LEMMA LostStep == ASSUME Base, DataOK, LostOK, [Next]_vars PROVE LostOK'
<1> SUFFICES ASSUME NEW x \in Turns, x \in lost', status'[x] \in {"running", "absent"}
             PROVE  exec'[x] = "done"
  BY DataStep DEF LostOK, DataOK
<1>1. CASE x \in lost
  <2>1. status[x] \in {"running", "absent"}
    BY OldRow DEF Base
  <2>2. exec[x] = "done"
    BY <1>1, <2>1 DEF LostOK
  <2> QED BY <2>2, DoneStep
<1>2. CASE x \notin lost
  <2>1. ASSUME UNCHANGED lost PROVE FALSE
    BY <1>2, <2>1
  <2>2. ASSUME NEW t \in Turns, NEW n, Executing(t), lost' = LostWith(t, n),
               UNCHANGED status \/ Leave({t})
        PROVE  exec'[x] = "done"
    <3>1. x = t /\ thread[x] \notin threads
      BY <1>2, <2>2 DEF LostWith
    <3>2. status[x] \notin {"running", "absent"}
      BY <2>2, <3>1 DEF Executing, Base, ThreadsOK, HomesOK
    <3>3. CASE Leave({t})
      BY <3>1, <3>3 DEF Leave, Without
    <3> QED BY <2>2, <3>2, <3>3
  <2>3. ASSUME NEW S \in SUBSET Turns, Drop(S), Leave(S) PROVE exec'[x] = "done"
    BY <1>2, <2>3 DEF Drop, Leave, Without
  <2>4. CASE UNCHANGED vars
    BY <2>1, <2>4 DEF vars, records
  <2>5. ASSUME NEW s \in Owners, ServerStep(s) PROVE FALSE
    BY <2>1, <2>5 DEF ServerStep, Start, CreateThread, DeleteThread, ClearThread, CreateTurn,
           ReplayTurn, CancelTurn, Shutdown, records
  <2>6. ASSUME NEW t \in Turns, TurnStep(t) PROVE exec'[x] = "done"
    <3>1. CASE Begin(t) \/ Ask(t) \/ Resume(t)
      BY <2>1, <3>1 DEF Begin, Ask, Resume, records
    <3>2. ASSUME NEW approved \in BOOLEAN, Respond(t, approved) PROVE FALSE
      BY <2>1, <3>2 DEF Respond, records
    <3>3. CASE Push(t)
      BY <2>2, <3>3 DEF Push
    <3>4. CASE Flush(t)
      BY <2>2, <3>4 DEF Flush
    <3>5. ASSUME NEW outcome, NEW extra, Settle(t, outcome, extra) PROVE exec'[x] = "done"
      BY <2>2, <3>5 DEF Settle, Close
    <3>6. CASE Break(t)
      BY <2>3, <3>6 DEF Break
    <3>7. CASE Answer(t) \/ Fail(t) \/ Stop(t)
      BY <3>5, <3>7 DEF Answer, Fail, Stop
    <3> QED BY <2>6, <3>1, <3>2, <3>3, <3>4, <3>6, <3>7 DEF TurnStep
  <2>7. ASSUME NEW s \in Owners, ClearDeletes(s) PROVE FALSE
    BY <2>1, <2>7 DEF ClearDeletes, records
  <2>8. ASSUME NEW s \in Owners, Die(s) PROVE exec'[x] = "done"
    <3>1. {t \in Turns : home[t] = s} \in SUBSET Turns
      OBVIOUS
    <3> QED BY <2>3, <2>8, <3>1 DEF Die
  <2> QED BY <2>4, <2>5, <2>6, <2>7, <2>8 DEF Next, LoopStep
<1> QED BY <1>1, <1>2

(* What a step does to the turns of a thread, when no turn of it ends with *)
(* an event.                                                               *)
Quiet(th) ==
    /\ recovered \subseteq recovered'
    /\ \A t \in Turns : status[t] # "absent" /\ thread[t] = th =>
         \/ status'[t] = status[t]
         \/ status[t] = "running" /\ t \in recovered'
         \/ status[t] # "running" /\ status'[t] = "gone"

(* Such a step keeps true whatever events told a true story.               *)
LEMMA QuietStory ==
    ASSUME Base, DataOK, [Next]_vars, NEW th, Quiet(th), NEW events \in Seq(Events),
           Story(events, th, status, thread, recovered, Over)
    PROVE  Story(events, th, status', thread', recovered', Over')
<1>1. \A t \in Turns : status[t] # "absent" => status'[t] # "absent" /\ thread'[t] = thread[t]
  BY OldRow DEF Base
<1>2. Quietly(th, status, thread, recovered, Over, status', thread', recovered', Over')
  BY <1>1, OverStep DEF Quiet, Quietly
<1> QED BY <1>2, StoryQuiet

(* A log nobody appends to keeps telling the story of a quiet thread.      *)
LEMMA QuietTells ==
    ASSUME Base, DataOK, [Next]_vars, NEW th \in Threads, Tells(th), log'[th] = log[th],
           Quiet(th)
    PROVE  Tells(th)'
<1>1. log[th] \in Seq(Events)
  BY DEF Base, ThreadsOK
<1> QED BY <1>1, QuietStory DEF Tells

(* A new or cleared log tells nothing wrong.                               *)
LEMMA EmptyTells ==
    ASSUME NEW th \in Threads, log'[th] \in {<< >>, <<Event(None, "created")>>}
    PROVE  Tells(th)'
BY StoryEmpty DEF Tells

(* The deltas an execution writes belong to the story of its thread.       *)
LEMMA WrittenStory ==
    ASSUME Base, NEW t \in Turns, Executing(t), NEW n, Tells(thread[t])
    PROVE  /\ thread[t] \in Threads
           /\ Written(t, n) \in Seq(Events)
           /\ Story(Written(t, n), thread[t], status, thread, recovered, Over)
<1>1. thread[t] \in Threads
  BY ThreadOf DEF Executing
<1>2. Written(t, n) \in Seq(Events)
  BY <1>1, WrittenLog DEF Log, Base
<1>3. CASE n = 0
  BY <1>1, <1>2, <1>3 DEF Written, Tells
<1>4. CASE n # 0
  <2>1. Event(t, "delta") \in Events /\ log[thread[t]] \in Seq(Events)
    BY <1>1, EventType DEF Kinds, Base, ThreadsOK
  <2>2. status[t] # "absent"
    BY DEF Base, HomesOK, Executing
  <2>3. Event(t, "delta").kind = "delta" /\ Event(t, "delta").turn = t
    BY DEF Event
  <2>4. Story(Append(log[thread[t]], Event(t, "delta")), thread[t], status, thread, recovered,
              Over)
    BY <2>1, <2>2, <2>3, StoryDelta DEF Tells
  <2> QED BY <1>1, <1>2, <1>4, <2>1, <2>4, StoryEmitted DEF Written
<1> QED BY <1>3, <1>4

(* A running turn of a thread ends, with its event.                        *)
LEMMA EndStory ==
    ASSUME Base, DataOK, [Next]_vars, NEW t \in Turns, thread[t] \in Threads,
           NEW outcome \in Terminal, NEW events \in Seq(Events),
           Story(events, thread[t], status, thread, recovered, Over),
           status[t] = "running", status'[t] = outcome,
           \A u \in Turns : u # t /\ thread[u] = thread[t] => status'[u] = status[u],
           UNCHANGED <<thread, recovered>>, outcome = "completed" => t \in Over'
    PROVE  Story(Emitted(thread[t], events, Event(t, outcome)), thread[t], status', thread',
                 recovered', Over')
<1> DEFINE th == thread[t]
           ended == [status EXCEPT ![t] = outcome]
           event == Event(t, outcome)
<1>1. event \in Events /\ event.turn = t /\ event.kind = outcome /\ Ending(event)
  BY EventType DEF Kinds, Event, Ending
<1>2. /\ status \in [Turns -> Terminal \cup {"absent", "running", "gone"}]
      /\ Over \subseteq Over'
  BY OverStep DEF Base, RowsOK
<1>3. Quietly(th, status, thread, recovered, Over, status, thread, recovered, Over')
  BY <1>2 DEF Quietly
<1> HIDE DEF event
<1>4. Story(events, th, status, thread, recovered, Over')
  BY <1>3, StoryQuiet
<1>5. Story(Append(events, event), th, ended, thread, recovered, Over')
  BY <1>1, <1>2, <1>4, StoryEnd
<1>6. Story(Emitted(th, events, event), th, ended, thread, recovered, Over')
  BY <1>1, <1>5, StoryEmitted
<1>7. \A u \in Turns : thread[u] = th => ended[u] = status'[u]
  BY <1>2
<1>8. Quietly(th, ended, thread, recovered, Over', status', thread', recovered', Over')
  BY <1>7 DEF Quietly
<1>9. Emitted(th, events, event) \in Seq(Events)
  <2>1. Append(events, event) \in Seq(Events)
    BY <1>1
  <2>2. Tail(Append(events, event)) \in Seq(Events)
    <3>1. Len(Append(events, event)) = Len(events) + 1 /\ Len(events) \in Nat
      BY <1>1
    <3>2. Append(events, event) # << >>
      BY <3>1
    <3> QED BY <2>1, <3>2
  <2> QED BY <2>1, <2>2 DEF Emitted
<1> HIDE DEF ended
<1> QED BY <1>6, <1>8, <1>9, StoryQuiet DEF event

(* update_turn_status: the end of a turn, or nothing but the deltas.       *)
LEMMA UpdateTells ==
    ASSUME Base, DataOK, StoryOK, [Next]_vars, NEW t \in Turns, thread[t] \in Threads,
           NEW outcome \in Terminal, NEW tokens, NEW events \in Seq(Events),
           Story(events, thread[t], status, thread, recovered, Over),
           UpdateTurnStatus(t, outcome, tokens, events),
           UNCHANGED <<thread, recovered>>,
           outcome = "completed" /\ Settled(t, tokens) => t \in Over'
    PROVE  StoryOK'
<1> SUFFICES ASSUME NEW th \in Threads PROVE Tells(th)'
  BY DEF StoryOK, Tells
<1>1. Tells(th)
  BY DEF StoryOK, Tells
<1>2. \A u \in Turns : u # t => status'[u] = status[u]
  BY DEF UpdateTurnStatus, Base, RowsOK
<1>3. log \in [Threads -> Seq(Events)]
  BY DEF Base, ThreadsOK
<1>4. CASE th # thread[t]
  <2>1. log'[th] = log[th]
    BY <1>3, <1>4 DEF UpdateTurnStatus
  <2>2. Quiet(th)
    BY <1>2, <1>4 DEF Quiet
  <2> QED BY <1>1, <2>1, <2>2, QuietTells
<1>5. CASE th = thread[t] /\ Settled(t, tokens)
  <2>1. log'[th] = Emitted(th, events, Event(t, outcome)) /\ status'[t] = outcome
    BY <1>3, <1>5 DEF UpdateTurnStatus, Base, RowsOK
  <2>2. status[t] = "running"
    BY <1>5 DEF Settled
  <2> QED BY <1>2, <1>5, <2>1, <2>2, EndStory DEF Tells
<1>6. CASE th = thread[t] /\ ~Settled(t, tokens)
  <2>1. log'[th] = events /\ status' = status
    BY <1>3, <1>6 DEF UpdateTurnStatus
  <2>2. Quiet(th)
    BY <2>1 DEF Quiet
  <2> QED BY <1>6, <2>1, <2>2, QuietStory DEF Tells
<1> QED BY <1>4, <1>5, <1>6

(* A push or a flush writes held deltas.                                   *)
LEMMA DeltaTells ==
    ASSUME Base, DataOK, StoryOK, [Next]_vars, NEW t \in Turns, Executing(t), NEW n,
           log' = [log EXCEPT ![thread[t]] = Written(t, n)],
           UNCHANGED <<status, thread, recovered>>
    PROVE  StoryOK'
<1> SUFFICES ASSUME NEW th \in Threads PROVE Tells(th)'
  BY DEF StoryOK, Tells
<1>1. Tells(th) /\ Quiet(th)
  BY DEF StoryOK, Tells, Quiet
<1>2. log \in [Threads -> Seq(Events)]
  BY DEF Base, ThreadsOK
<1>3. CASE th # thread[t]
  BY <1>1, <1>2, <1>3, QuietTells
<1>4. CASE th = thread[t]
  <2>1. log'[th] = Written(t, n)
    BY <1>2, <1>4
  <2> QED BY <1>1, <1>4, <2>1, WrittenStory, QuietStory DEF Tells
<1> QED BY <1>3, <1>4

(* The end of an execution: its last deltas, and its end if it still runs. *)
LEMMA SettleTells ==
    ASSUME Base, DataOK, LostOK, StoryOK, [Next]_vars, NEW t \in Turns,
           NEW outcome \in Terminal, NEW extra, Settle(t, outcome, extra)
    PROVE  StoryOK'
<1>1. thread[t] \in Threads /\ Executing(t)
  BY ThreadOf DEF Settle, Executing
<1>2. Tells(thread[t])
  BY <1>1 DEF StoryOK, Tells
<1>3. /\ Written(t, buffer[t] + extra) \in Seq(Events)
      /\ Story(Written(t, buffer[t] + extra), thread[t], status, thread, recovered, Over)
  BY <1>1, <1>2, WrittenStory
<1>4. ASSUME Settled(t, {home[t]}) PROVE t \in Over'
  <2>1. status[t] = "running"
    BY <1>4 DEF Settled
  <2>2. thread[t] \in threads
    BY <2>1 DEF Base, ThreadsOK
  <2>3. t \notin lost
    BY <1>1, <2>1 DEF LostOK, Executing
  <2>4. exec'[t] = "done" /\ buffer'[t] = 0 /\ lost' = lost
    BY <2>2 DEF Settle, Close, Leave, Without, LostWith, DataOK
  <2> QED BY <2>3, <2>4 DEF Over
<1> QED BY <1>1, <1>3, <1>4, UpdateTells DEF Settle

(* Reserving a turn starts it, in a thread where nothing runs.             *)
LEMMA CreateTells ==
    ASSUME Base, DataOK, StoryOK, [Next]_vars, NEW s \in Owners, clearing[s] = None,
           NEW th \in Threads, NEW k \in Keys \cup {NoKey}, CreateTurn(s, th, k)
    PROVE  StoryOK'
<1> DEFINE t == reserved + 1
           stale == StaleTurns(AlivePids)
           event == Event(t, "started")
<1>1. t \in Turns /\ New(t, s, th)
  BY CreateNew
<1>2. status[t] = "absent"
  BY <1>1 DEF Base, RowsOK
<1>3. log' = [log EXCEPT ![th] = Emitted(th, log[th], event)] /\ recovered' = recovered \cup stale
  BY DEF CreateTurn, StoreReserve
<1>4. log \in [Threads -> Seq(Events)]
  BY DEF Base, ThreadsOK
<1>5. ASSUME NEW u \in Threads PROVE Quiet(u)
  <2>1. recovered \subseteq recovered'
    BY <1>3
  <2>2. ASSUME NEW x \in Turns, status[x] # "absent"
        PROVE  \/ status'[x] = status[x]
               \/ status[x] = "running" /\ x \in recovered'
               \/ status[x] # "running" /\ status'[x] = "gone"
    <3>1. x # t
      BY <1>2, <2>2
    <3>2. x \in stale <=> x \in Running /\ pid[x] \notin AlivePids
      BY DEF StaleTurns, Running
    <3>3. CASE x \in stale
      BY <1>3, <3>2, <3>3 DEF Running
    <3>4. CASE x \notin stale
      <4>1. PICK pruned : /\ status'[x] = IF x \in pruned THEN "gone" ELSE status[x]
                          /\ pruned \subseteq Rows(th) \ (Running \ stale)
        <5>1. BeyondNewest(Rows(th) \ (Running \ stale), KeepTurns - 1)
                \subseteq Rows(th) \ (Running \ stale)
          BY DEF BeyondNewest
        <5> QED BY <3>1, <3>4, <5>1 DEF CreateTurn, StoreReserve
      <4> QED BY <3>4, <4>1 DEF Running
    <3> QED BY <3>3, <3>4
  <2> QED BY <2>1, <2>2 DEF Quiet
<1> SUFFICES ASSUME NEW u \in Threads PROVE Tells(u)'
  BY DEF StoryOK, Tells
<1>6. Tells(u) /\ Quiet(u)
  BY <1>5 DEF StoryOK, Tells
<1>7. CASE u # th
  BY <1>3, <1>4, <1>6, <1>7, QuietTells
<1>8. CASE u = th
  <2>1. Story(log[th], th, status', thread', recovered', Over')
    BY <1>4, <1>6, <1>8, QuietStory DEF Tells
  <2>2. ASSUME NEW i \in DOMAIN log[th], Starting(log[th][i])
        PROVE  status'[log[th][i].turn] # "running"
    <3>1. /\ log[th][i].turn \in Turns /\ thread[log[th][i].turn] = th
          /\ status[log[th][i].turn] # "absent"
      BY <1>6, <1>8, <2>2 DEF Tells, Story, Known, Starting
    <3> QED BY <1>1, <1>2, <3>1 DEF New
  <2>3. event \in Events /\ event.turn = t /\ event.kind = "started"
    BY <1>1, EventType DEF Kinds, Event
  <2>4. thread'[t] = th /\ status'[t] = "running"
    BY <1>1 DEF New
  <2> HIDE DEF t, event
  <2>5. log[th] \in Seq(Events)
    BY <1>4
  <2>6. Story(Append(log[th], event), th, status', thread', recovered', Over')
    BY <1>1, <2>1, <2>2, <2>3, <2>4, <2>5, StoryStart
  <2>7. Story(Emitted(th, log[th], event), th, status', thread', recovered', Over')
    BY <2>3, <2>5, <2>6, StoryEmitted
  <2> QED BY <1>3, <1>4, <1>8, <2>7 DEF Tells
<1> QED BY <1>7, <1>8

(* A shutdown ends at most one turn of a thread.                           *)
LEMMA ShutdownTells ==
    ASSUME Base, DataOK, OneRunningPerThread, StoryOK, [Next]_vars, NEW s \in Owners,
           Shutdown(s)
    PROVE  StoryOK'
<1> DEFINE ending == {t \in ActiveTurns(s) : Settled(t, {s})}
           here(th) == {t \in ending : thread[t] = th}
<1>1. /\ status' = Without(status, ending, "canceled")
      /\ log' = [th \in Threads |->
                  IF here(th) = {} THEN log[th]
                  ELSE Emitted(th, log[th], Event(CHOOSE t \in here(th) : TRUE, "canceled"))]
      /\ UNCHANGED <<thread, recovered>>
  BY DEF Shutdown, records
<1>2. ending \subseteq Running
  BY DEF ActiveTurns, Settled, Running
<1> HIDE DEF ending
<1> SUFFICES ASSUME NEW th \in Threads PROVE Tells(th)'
  BY DEF StoryOK, Tells
<1>3. Tells(th)
  BY DEF StoryOK, Tells
<1>4. CASE here(th) = {}
  <2>1. log'[th] = log[th]
    BY <1>1, <1>4
  <2>2. Quiet(th)
    BY <1>1, <1>4 DEF Quiet, Without
  <2> QED BY <1>3, <2>1, <2>2, QuietTells
<1>5. CASE here(th) # {}
  <2> DEFINE t == CHOOSE t \in here(th) : TRUE
  <2>1. t \in here(th)
    BY <1>5
  <2>2. log'[th] = Emitted(th, log[th], Event(t, "canceled"))
    BY <1>1, <1>5
  <2> HIDE DEF t
  <2>3. t \in Turns /\ thread[t] = th /\ status[t] = "running" /\ status'[t] = "canceled"
    BY <1>1, <1>2, <2>1 DEF Running, Without
  <2>4. ASSUME NEW u \in Turns, u # t, thread[u] = th PROVE status'[u] = status[u]
    <3>1. u \notin ending
      BY <1>2, <2>1, <2>4 DEF OneRunningPerThread
    <3> QED BY <1>1, <3>1 DEF Without
  <2>5. log[th] \in Seq(Events) /\ "canceled" \in Terminal
    BY DEF Base, ThreadsOK, Terminal
  <2> QED BY <1>1, <1>3, <2>2, <2>3, <2>4, <2>5, EndStory DEF Tells
<1> QED BY <1>4, <1>5

(* The rows and events of threads go together.                             *)
LEMMA DropTells ==
    ASSUME Base, DataOK, StoryOK, [Next]_vars, NEW dropped \in SUBSET Threads,
           DropRows(dropped), recovered' = recovered,
           \A th \in Threads :
             \/ log'[th] \in {<< >>, <<Event(None, "created")>>}
             \/ log'[th] = log[th] /\ th \notin dropped
    PROVE  StoryOK'
<1> SUFFICES ASSUME NEW th \in Threads PROVE Tells(th)'
  BY DEF StoryOK, Tells
<1>1. CASE log'[th] \in {<< >>, <<Event(None, "created")>>}
  BY <1>1, EmptyTells
<1>2. CASE log'[th] = log[th] /\ th \notin dropped
  <2>1. Quiet(th)
    BY <1>2 DEF Quiet, DropRows
  <2> QED BY <1>2, <2>1, QuietTells DEF StoryOK, Tells
<1> QED BY <1>1, <1>2

(* A recovery tells nothing.                                               *)
LEMMA RecoverTells ==
    ASSUME Base, DataOK, StoryOK, [Next]_vars, NEW stale \in SUBSET Running, Recover(stale),
           recovered' = recovered \cup stale, log' = log
    PROVE  StoryOK'
<1> SUFFICES ASSUME NEW th \in Threads PROVE Tells(th)'
  BY DEF StoryOK, Tells
<1>1. Quiet(th)
  BY DEF Quiet, Recover, Without, Running
<1> QED BY <1>1, QuietTells DEF StoryOK, Tells

(* A step that touches neither events nor rows.                            *)
LEMMA StillTells ==
    ASSUME Base, DataOK, StoryOK, [Next]_vars, UNCHANGED <<status, log, recovered>>
    PROVE  StoryOK'
<1> SUFFICES ASSUME NEW th \in Threads PROVE Tells(th)'
  BY DEF StoryOK, Tells
<1>1. Quiet(th)
  BY DEF Quiet
<1> QED BY <1>1, QuietTells DEF StoryOK, Tells

(* Every step keeps the story true.                                        *)
LEMMA StoryStep ==
    ASSUME Base, DataOK, OneRunningPerThread, LostOK, StoryOK, [Next]_vars
    PROVE  StoryOK'
<1>10. log \in [Threads -> Seq(Events)] /\ threads \in SUBSET Threads
  BY RuntimeStoreAssumption DEF Base, ThreadsOK
<1>1. CASE UNCHANGED vars
  BY <1>1, StillTells DEF vars, store, records
<1>2. ASSUME NEW s \in Owners, LoopStep(s) PROVE StoryOK'
  <2>1. ASSUME NEW p \in Pids, Start(s, p) PROVE StoryOK'
    <3>1. StaleTurns(AlivePids \cup {p}) \in SUBSET Running
      BY DEF StaleTurns
    <3> QED BY <2>1, <3>1, RecoverTells DEF Start
  <2>2. CASE CreateThread(s)
    <3> DEFINE pruned == BeyondNewest(IdleThreads, KeepThreads - 1)
    <3>1. pruned \in SUBSET Threads
      BY <1>10 DEF BeyondNewest, IdleThreads
    <3>2. /\ log' = [u \in Threads |->
                      IF u = created + 1 THEN <<Event(None, "created")>>
                      ELSE IF u \in pruned THEN << >> ELSE log[u]]
          /\ DropRows(pruned) /\ recovered' = recovered
      BY <2>2 DEF CreateThread, StoreCreate, records
    <3> HIDE DEF pruned
    <3> QED BY <3>1, <3>2, DropTells
  <2>3. ASSUME NEW th \in Threads, DeleteThread(s, th) PROVE StoryOK'
    <3>1. log' = [log EXCEPT ![th] = << >>] /\ DropRows({th}) /\ recovered' = recovered
      BY <2>3 DEF DeleteThread, StoreDelete, records
    <3> QED BY <1>10, <3>1, DropTells
  <2>4. ASSUME NEW th \in Threads, ClearThread(s, th) PROVE StoryOK'
    BY <2>4, StillTells DEF ClearThread, store, records
  <2>5. ASSUME NEW th \in Threads, NEW k \in Keys \cup {NoKey}, CreateTurn(s, th, k)
        PROVE  StoryOK'
    BY <1>2, <2>5, CreateTells DEF LoopStep
  <2>6. ASSUME NEW th \in Threads, NEW k \in Keys \cup {NoKey}, ReplayTurn(s, th, k)
        PROVE  StoryOK'
    <3>1. StaleTurns(AlivePids) \in SUBSET Running
      BY DEF StaleTurns
    <3> QED BY <2>6, <3>1, RecoverTells DEF ReplayTurn, StoreReplay
  <2>7. ASSUME NEW t \in Turns, CancelTurn(s, t) PROVE StoryOK'
    <3>1. thread[t] \in Threads
      BY <2>7 DEF CancelTurn, Base, RowsOK
    <3>2. /\ log[thread[t]] \in Seq(Events)
          /\ Story(log[thread[t]], thread[t], status, thread, recovered, Over)
      BY <1>10, <3>1 DEF StoryOK
    <3>3. "canceled" \in Terminal /\ "canceled" # "completed"
      BY DEF Terminal
    <3> QED BY <2>7, <3>1, <3>2, <3>3, UpdateTells DEF CancelTurn, records
  <2>8. CASE Shutdown(s)
    BY <2>8, ShutdownTells
  <2>9. ASSUME NEW t \in Turns, home[t] = s, TurnStep(t) PROVE StoryOK'
    <3>1. CASE Begin(t) \/ Break(t) \/ Ask(t) \/ Resume(t)
      BY <3>1, StillTells DEF Begin, Break, Ask, Resume, store, records, DataOK
    <3>2. CASE Push(t)
      BY <3>2, DeltaTells DEF Push
    <3>3. CASE Flush(t)
      BY <3>3, DeltaTells DEF Flush
    <3>4. CASE Answer(t) \/ Fail(t) \/ Stop(t)
      BY <3>4, SettleTells DEF Answer, Fail, Stop, Terminal
    <3>5. ASSUME NEW approved \in BOOLEAN, Respond(t, approved) PROVE StoryOK'
      BY <3>5, StillTells DEF Respond, store, records
    <3> QED BY <2>9, <3>1, <3>2, <3>3, <3>4, <3>5 DEF TurnStep
  <2> QED BY <1>2, <2>1, <2>2, <2>3, <2>4, <2>5, <2>6, <2>7, <2>8, <2>9
             DEF LoopStep, ServerStep
<1>3. ASSUME NEW s \in Owners, ClearDeletes(s) PROVE StoryOK'
  <2>1. clearing[s] \in Threads
    BY <1>3 DEF ClearDeletes, Base, ServersOK
  <2>2. /\ log' = [log EXCEPT ![clearing[s]] = << >>] /\ DropRows({clearing[s]})
        /\ recovered' = recovered
    BY <1>3 DEF ClearDeletes, StoreClear, records
  <2> QED BY <1>10, <2>1, <2>2, DropTells
<1>4. ASSUME NEW s \in Owners, Die(s) PROVE StoryOK'
  BY <1>4, StillTells DEF Die, store
<1> QED BY <1>1, <1>2, <1>3, <1>4 DEF Next

(* A true story is what a client reads.                                    *)
LEMMA StoryRead == ASSUME Base, StoryOK PROVE LogTellsTheStory
<1> SUFFICES ASSUME NEW th \in Threads
             PROVE  EndsOnce(th) /\ StartsInTurn(th) /\ EndIsTold(th) /\ EndIsLast(th)
  BY DEF LogTellsTheStory
<1>1. Story(log[th], th, status, thread, recovered, Over)
  BY DEF StoryOK
<1>2. /\ \A i : i \in Ends(th) <=> i \in DOMAIN log[th] /\ Ending(log[th][i])
      /\ \A i : i \in Starts(th) <=> i \in DOMAIN log[th] /\ Starting(log[th][i])
  BY DEF Ends, Starts, Ending, Starting
<1>3. EndsOnce(th)
  BY <1>1, <1>2 DEF Story, Once, EndsOnce
<1>4. StartsInTurn(th)
  <2> SUFFICES ASSUME NEW i \in Starts(th), NEW j \in Starts(th), i < j,
                      log[th][i].turn \notin recovered
               PROVE  \E m \in Ends(th) :
                        i < m /\ m < j /\ log[th][m].turn = log[th][i].turn
    BY DEF StartsInTurn
  <2>1. PICK m \in DOMAIN log[th] : EndsAt(log[th], i, m) /\ m < j
    BY <1>1, <1>2 DEF Story, InTurn
  <2> QED BY <1>2, <2>1 DEF EndsAt
<1>5. EndIsTold(th)
  <2> SUFFICES ASSUME NEW i \in Starts(th), status[log[th][i].turn] \in Terminal,
                      log[th][i].turn \notin recovered
               PROVE  \E m \in Ends(th) :
                        log[th][m] = Event(log[th][i].turn, status[log[th][i].turn])
    BY DEF EndIsTold
  <2>1. status[log[th][i].turn] \notin {"running", "gone"}
    BY DEF Terminal
  <2>2. PICK m \in DOMAIN log[th] : EndsAt(log[th], i, m)
    BY <1>1, <1>2, <2>1 DEF Story, Told
  <2>3. log[th][m].kind = status[log[th][i].turn]
    BY <1>1, <2>1, <2>2 DEF Story, Faithful, EndsAt
  <2>4. log[th][m] \in Events
    BY <2>2 DEF Base, ThreadsOK
  <2>5. log[th][m] = Event(log[th][i].turn, status[log[th][i].turn])
    BY <2>2, <2>3, <2>4 DEF EndsAt, Event, Events
  <2> QED BY <1>2, <2>2, <2>5 DEF EndsAt
<1>6. EndIsLast(th)
  BY <1>1, <1>2 DEF Story, Whole, EndIsLast, Over
<1> QED BY <1>3, <1>4, <1>5, <1>6

-----------------------------------------------------------------------------
(*                                 Theorems                                *)

(* The inductive invariant: what is where (Base), the types of the rest,   *)
(* what a cancellation leaves, one running turn per thread, which is its   *)
(* newest, has a started owner and no clear by that owner, what the        *)
(* executions and the histories need, and what the events tell.            *)
IInv ==
    /\ Base /\ DataOK /\ VerdictOK
    /\ OneRunningPerThread /\ Newest /\ Owned /\ Clears
    /\ LiveTurnHasExecutor /\ HistoryStaysCurrent
    /\ LostOK /\ StoryOK

(* The invariant holds at first.                                           *)
LEMMA InitIInv == ASSUME Init PROVE IInv
<1>1. \A t \in Turns : status[t] = "absent"
  BY DEF Init, StoreInit
<1>2. DataOK
  BY RuntimeTurnsAssumption DEF Init, DataOK
<1>3. VerdictOK
  BY DEF Init, VerdictOK
<1>4. /\ OneRunningPerThread /\ Newest /\ Owned /\ Clears
      /\ LiveTurnHasExecutor /\ HistoryStaysCurrent
  BY <1>1 DEF OneRunningPerThread, Newest, Owned, Clears, LiveTurnHasExecutor,
         HistoryStaysCurrent, Running
<1>5. LostOK /\ StoryOK
  BY StoryEmpty DEF Init, StoreInit, LostOK, StoryOK
<1> QED BY <1>2, <1>3, <1>4, <1>5, BaseInit DEF IInv

(* It is inductive.                                                        *)
LEMMA StepIInv == ASSUME IInv, [Next]_vars PROVE IInv'
BY BaseStep, DataStep, VerdictStep, OneRunningStep, NewestStep, OwnedStep, ClearsStep,
   LiveStep, HistoryStep, LostStep, StoryStep
   DEF IInv

(* The inductive invariant holds in every reachable state.                 *)
THEOREM Invariant == Spec => []IInv
<1>1. Init => IInv
  BY InitIInv
<1>2. IInv /\ [Next]_vars => IInv'
  BY StepIInv
<1> QED BY <1>1, <1>2, PTL DEF Spec

(* Every variable keeps its type; the columns of a row are empty exactly   *)
(* where the code empties them, and no row or event outlives its thread.   *)
THEOREM TypeCorrect == Spec => []TypeOK
<1>1. IInv => TypeOK
  BY StoreParts DEF IInv, Base, ServersOK, HomesOK, DataOK, VerdictOK, TypeOK
<1> QED BY <1>1, Invariant, PTL

(* However many servers share the database, and whichever of them die, a   *)
(* thread never has two running turns.                                     *)
THEOREM OneRunning == Spec => []OneRunningPerThread
<1>1. IInv => OneRunningPerThread
  BY DEF IInv
<1> QED BY <1>1, Invariant, PTL

(* Short of a database error in its last handler, a running turn of a      *)
(* server that serves is queued or executing there, and a server that has  *)
(* begun its shutdown owns none.                                           *)
THEOREM Executed == Spec => []LiveTurnHasExecutor
<1>1. IInv => LiveTurnHasExecutor
  BY DEF IInv
<1> QED BY <1>1, Invariant, PTL

(* The messages a turn was given are its thread's for as long as it runs.  *)
THEOREM HistoryCurrent == Spec => []HistoryStaysCurrent
<1>1. IInv => HistoryStaysCurrent
  BY DEF IInv
<1> QED BY <1>1, Invariant, PTL

(* A cancelled turn's approver cannot return a grant.                      *)
THEOREM CancellationRefuses == Spec => []CancelRefuses
<1>1. IInv => CancelRefuses
  BY DEF IInv, VerdictOK, DataOK, CancelRefuses
<1> QED BY <1>1, Invariant, PTL

(* What a client reads off the events of a thread is what happened: a turn *)
(* ends once, starts after the one before it has ended, its end is told    *)
(* with its status, and after all that it streamed, unless recovery ended  *)
(* it.  For any retention and any size of the delta buffers.               *)
THEOREM LogTellsTheStoryHolds == Spec => []LogTellsTheStory
<1>1. IInv => LogTellsTheStory
  BY StoryRead DEF IInv
<1> QED BY <1>1, Invariant, PTL

(* Recovery fails no turn of a server that lives, and retention evicts no  *)
(* running turn.                                                           *)
THEOREM LivingSpared == Spec => UpkeepSparesTheLiving
<1>1. IInv /\ [Next]_vars =>
        [\A t \in Running :
          /\ t \in recovered' \ recovered => server[owner[t]] = "dead"
          /\ status'[t] = "gone" =>
              \/ deletes' # deletes
              \/ \E s \in Owners \ {owner[t]} : clearing[s] = thread[t]]_vars
  BY UpkeepStep DEF IInv
<1> QED BY <1>1, Invariant, PTL DEF Spec, UpkeepSparesTheLiving
=============================================================================
