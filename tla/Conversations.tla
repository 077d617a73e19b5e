--------------------------- MODULE Conversations ---------------------------
(***************************************************************************)
(* The saved conversations of one workspace (sessions.py) and the programs *)
(* that keep them: the interactive CLI, the TUI and one-shot runs, each in *)
(* its own process with its own SessionStore object, on one database.      *)
(*                                                                         *)
(* A save captures the agent's history on the event loop, hands the        *)
(* snapshot to a worker thread and goes on when the thread answers.  The   *)
(* store writes only over the message revision it knows.  A conversation   *)
(* is the sequence of its turns, each turn tagged with the session it was  *)
(* held in; the table's rows are ordered by updated_at in `recency`.       *)
(***************************************************************************)
EXTENDS Integers, Sequences, FiniteSets, SequencesExt

CONSTANTS
    Processes,     \* every process that may open the database
    Prints,        \* those started to run one prompt and exit
    Sessions,      \* the session ids create() may mint
    NoRow,         \* a session that is not in the table
    Unread,        \* a revision the store does not remember
    MaxRows,       \* sessions kept per workspace (100 in the code)
    MaxKept,       \* turns kept in a row (1000 messages in the code)
    MaxTurns,      \* bound: turns held in all
    MaxCaptures,   \* bound: snapshots captured by one store
    MaxRevision    \* bound: saves of one session

Turn == Sessions \X (1 .. MaxTurns)
Row == [rev : Nat, turns : Seq(Turn)]

ConversationsAssumption ==
    /\ Prints \subseteq Processes
    /\ {MaxRows, MaxKept, MaxTurns, MaxCaptures, MaxRevision} \subseteq Nat \ {0}
    /\ Unread \notin Nat /\ NoRow \notin Sessions \cup Row

VARIABLES
    rows,       \* the sessions table: [Sessions -> row or NoRow]
    recency,    \* the ids of the table by updated_at, oldest first
    minted,     \* ids handed out so far: uuid4 never repeats one
    turns,      \* turns held so far
    known,      \* _message_revisions of each process's store
    captured,   \* _next_save_sequence of each process's store
    committed,  \* _committed_save_sequences of each process's store
    program,    \* "cli" or "tui"; a run of one prompt ends like a CLI
    active,     \* session_id of each process
    history,    \* agent.history of each process
    phase,      \* "off", "idle", "turn", "saving" or "answered"
    awaits,     \* the capture whose thread the process awaits
    warned,     \* a save has answered with a warning since it began to wait
    left,       \* a turn the TUI's shutdown has left running
    follow,     \* what the process does once its save has answered
    fetched,    \* the state /session resume has loaded
    threads,    \* snapshots in worker threads
    seen,       \* history: revision the process's messages descend from
    looked      \* history: it loaded its own session without adopting it

store == <<known, captured, committed>>
driver == <<program, active, history, phase, awaits, warned, left, follow, fetched>>
vars == <<rows, recency, minted, turns, store, driver, threads, seen, looked>>

Follow == {"stay", "look", "new", "apply", "exit"}
Job == [proc : Processes, session : Sessions, seq : Nat, turns : Seq(Turn)]

TypeOK ==
    /\ rows \in [Sessions -> Row \cup {NoRow}]
    /\ Range(recency) = {s \in Sessions : rows[s] # NoRow}
    /\ minted \subseteq Sessions /\ turns \in 0 .. MaxTurns
    /\ known \in [Processes -> [Sessions -> Nat \cup {Unread}]]
    /\ captured \in [Processes -> 0 .. MaxCaptures]
    /\ committed \in [Processes -> [Sessions -> Int]]
    /\ program \in [Processes -> {"cli", "tui"}]
    /\ active \in [Processes -> Sessions \cup {NoRow}]
    /\ history \in [Processes -> Seq(Turn)]
    /\ phase \in [Processes -> {"off", "idle", "turn", "saving", "answered"}]
    /\ awaits \in [Processes -> 0 .. MaxCaptures]
    /\ warned \in [Processes -> BOOLEAN] /\ left \in [Processes -> BOOLEAN]
    /\ follow \in [Processes -> Follow]
    /\ threads \subseteq Job
    /\ seen \in [Processes -> Nat] /\ looked \in [Processes -> BOOLEAN]

\* A store object that has read and written nothing.
Forgotten == [s \in Sessions |-> Unread]
Nothing == [s \in Sessions |-> -1]

Init ==
    /\ rows = [s \in Sessions |-> NoRow]
    /\ recency = <<>> /\ minted = {} /\ turns = 0
    /\ known = [p \in Processes |-> Forgotten]
    /\ captured = [p \in Processes |-> 0]
    /\ committed = [p \in Processes |-> Nothing]
    /\ program = [p \in Processes |-> "cli"]
    /\ active = [p \in Processes |-> NoRow]
    /\ history = [p \in Processes |-> <<>>]
    /\ phase = [p \in Processes |-> "off"]
    /\ awaits = [p \in Processes |-> 0]
    /\ warned = [p \in Processes |-> FALSE]
    /\ left = [p \in Processes |-> FALSE]
    /\ follow = [p \in Processes |-> "stay"]
    /\ fetched = [p \in Processes |-> NoRow]
    /\ threads = {}
    /\ seen = [p \in Processes |-> 0]
    /\ looked = [p \in Processes |-> FALSE]

----------------------------------------------------------------------------
(* The store *)

Newest(q, n) == SubSeq(q, IF Len(q) > n THEN Len(q) - n + 1 ELSE 1, Len(q))

\* What a DELETE or a touched updated_at takes out of the order.
Without(q, gone) ==
    LET kept[i \in 0 .. Len(q)] ==
            IF i = 0 THEN <<>>
            ELSE IF q[i] \in gone THEN kept[i - 1] ELSE Append(kept[i - 1], q[i])
    IN  kept[Len(q)]

\* The serializer keeps the newest messages.
Bounded(h) == Newest(h, MaxKept)

\* INSERT of a fresh session, then the DELETE that keeps the newest rows.
Create(s) ==
    LET kept == Newest(Append(recency, s), MaxRows)
    IN  /\ s \notin minted
        /\ minted' = minted \cup {s}
        /\ recency' = kept
        /\ rows' = [r \in Sessions |->
                     IF r = s THEN [rev |-> 0, turns |-> <<>>]
                     ELSE IF r \in Range(kept) THEN rows[r] ELSE NoRow]

\* load(): the store remembers the revision it read unless it knows a newer one.
Remembered(mine, s) ==
    IF mine[s] = Unread \/ rows[s].rev > mine[s]
    THEN [mine EXCEPT ![s] = rows[s].rev] ELSE mine

SupersededNever(t) == FALSE  \* mutant: a late snapshot is not recognised
Superseded(t) == t.seq <= committed[t.proc][t.session]

\* The revision the UPDATE of a snapshot asks for.
Expected(t) ==
    IF known[t.proc][t.session] = Unread THEN rows[t.session].rev
    ELSE known[t.proc][t.session]

WritableIfThere(t) == rows[t.session] # NoRow  \* mutant: no revision in the WHERE
Writable(t) == rows[t.session] # NoRow /\ rows[t.session].rev = Expected(t)

\* The thread answers: the process goes on if it still waits for this snapshot.
Answered(t, saved) ==
    /\ threads' = threads \ {t}
    /\ phase' = IF phase[t.proc] = "saving" /\ t.seq = awaits[t.proc]
                THEN [phase EXCEPT ![t.proc] = "answered"] ELSE phase
    /\ warned' = [warned EXCEPT ![t.proc] = @ \/ ~saved]
    /\ UNCHANGED <<minted, turns, captured, program, active, history, awaits, left, follow,
                   fetched, looked>>

SaveSkipped(t) ==
    /\ Superseded(t)
    /\ Answered(t, TRUE)
    /\ UNCHANGED <<rows, recency, known, committed, seen>>

SaveCommits(t) ==
    LET p == t.proc
        s == t.session
    IN  /\ ~Superseded(t) /\ Writable(t) /\ rows[s].rev < MaxRevision
        /\ rows' = [rows EXCEPT ![s] = [rev |-> rows[s].rev + 1, turns |-> Bounded(t.turns)]]
        /\ recency' = Append(Without(recency, {s}), s)
        /\ known' = [known EXCEPT ![p][s] = Expected(t) + 1]
        /\ committed' = [committed EXCEPT ![p][s] = t.seq]
        /\ seen' = [seen EXCEPT ![p] = rows[s].rev + 1]
        /\ Answered(t, TRUE)

\* The row is gone, has another revision, or the database fails.
SaveFails(t) ==
    /\ ~Superseded(t)
    /\ Answered(t, FALSE)
    /\ UNCHANGED <<rows, recency, known, committed, seen>>

----------------------------------------------------------------------------
(* The programs *)

Adopt(p, s, h, rev) ==
    /\ active' = [active EXCEPT ![p] = s]
    /\ history' = [history EXCEPT ![p] = h]
    /\ seen' = [seen EXCEPT ![p] = IF s = active[p] /\ @ > rev THEN @ ELSE rev]
    /\ looked' = [looked EXCEPT ![p] = FALSE]

\* --resume ID or --continue with a session to continue.
OpenOld(p, s) ==
    /\ rows[s] # NoRow
    /\ known' = [known EXCEPT ![p] = Remembered(Forgotten, s)]
    /\ Adopt(p, s, rows[s].turns, rows[s].rev)
    /\ UNCHANGED <<rows, recency, minted>>

\* A new conversation, also for --continue in an empty workspace.
OpenNew(p, s) ==
    /\ Create(s)
    /\ known' = [known EXCEPT ![p] = [Forgotten EXCEPT ![s] = 0]]
    /\ Adopt(p, s, <<>>, 0)

Open(p) ==
    /\ phase[p] = "off"
    /\ \E s \in Sessions : OpenOld(p, s) \/ OpenNew(p, s)
    /\ \E k \in {"cli"} \cup IF p \in Prints THEN {} ELSE {"tui"} : program' = [program EXCEPT ![p] = k]
    /\ phase' = [phase EXCEPT ![p] = "idle"]
    /\ UNCHANGED <<turns, captured, committed, awaits, warned, left, follow, fetched, threads>>

\* The process has ended, and its store and its agent with it.
Ended(p) ==
    /\ known' = [known EXCEPT ![p] = Forgotten]
    /\ captured' = [captured EXCEPT ![p] = 0]
    /\ committed' = [committed EXCEPT ![p] = Nothing]
    /\ program' = [program EXCEPT ![p] = "cli"]
    /\ active' = [active EXCEPT ![p] = NoRow]
    /\ history' = [history EXCEPT ![p] = <<>>]
    /\ phase' = [phase EXCEPT ![p] = "off"]
    /\ awaits' = [awaits EXCEPT ![p] = 0]
    /\ warned' = [warned EXCEPT ![p] = FALSE]
    /\ left' = [left EXCEPT ![p] = FALSE]
    /\ follow' = [follow EXCEPT ![p] = "stay"]
    /\ fetched' = [fetched EXCEPT ![p] = NoRow]
    /\ threads' = {t \in threads : t.proc # p}
    /\ seen' = [seen EXCEPT ![p] = 0]
    /\ looked' = [looked EXCEPT ![p] = FALSE]
    /\ UNCHANGED <<rows, recency, minted, turns>>

\* capture_snapshot and the hand-over to a thread.
Capture(p, h) ==
    /\ captured[p] < MaxCaptures
    /\ captured' = [captured EXCEPT ![p] = @ + 1]
    /\ threads' = threads \cup {[proc |-> p, session |-> active[p],
                                 seq |-> captured[p] + 1, turns |-> h]}
    /\ history' = [history EXCEPT ![p] = h]
    /\ UNCHANGED <<rows, recency, minted, committed, program, active, seen>>

Save(p, h, next) ==
    /\ Capture(p, h)
    /\ phase' = [phase EXCEPT ![p] = "saving"]
    /\ awaits' = [awaits EXCEPT ![p] = captured[p] + 1]
    /\ warned' = [warned EXCEPT ![p] = FALSE]
    /\ follow' = [follow EXCEPT ![p] = next]

TurnStarts(p) ==
    /\ phase[p] = "idle" /\ turns < MaxTurns
    /\ p \in Prints => captured[p] = 0
    /\ phase' = [phase EXCEPT ![p] = "turn"]
    /\ UNCHANGED <<rows, recency, minted, turns, store, program, active, history, awaits,
                   warned, left, follow, fetched, threads, seen, looked>>

\* Whatever the turn has added to the history.
AfterTurn(p) ==
    {history[p]} \cup
    IF turns < MaxTurns THEN {Append(history[p], <<active[p], turns + 1>>)} ELSE {}

\* Whatever became of the turn, its messages are saved.
TurnEnds(p) ==
    /\ phase[p] = "turn"
    /\ \E h \in AfterTurn(p) :
           /\ Save(p, h, IF p \in Prints THEN "exit" ELSE "stay")
           /\ turns' = IF h = history[p] THEN turns ELSE turns + 1
    /\ UNCHANGED <<left, known, fetched, looked>>

\* A turn that outlives the shutdown's grace saves when it ends.
LateTurnEnds(p) ==
    /\ left[p]
    /\ \E h \in AfterTurn(p) :
           /\ Capture(p, h)
           /\ turns' = IF h = history[p] THEN turns ELSE turns + 1
    /\ left' = [left EXCEPT ![p] = FALSE]
    /\ UNCHANGED <<phase, awaits, warned, follow, known, fetched, looked>>

Attended(p) == phase[p] = "idle" /\ p \notin Prints

\* /clear and every other command that ends in a save.
Command(p) ==
    /\ Attended(p)
    /\ \E h \in {history[p], <<>>} :
           Save(p, h, "stay")
    /\ UNCHANGED <<turns, left, known, fetched, looked>>

\* /session status, /session save and /session new
SaveFirst(p) ==
    /\ Attended(p)
    /\ \E next \in {"look", "new"} : Save(p, history[p], next)
    /\ UNCHANGED <<turns, left, known, fetched, looked>>

\* /session resume loads the target before it saves the session it leaves.
Resume(p, s) ==
    /\ Attended(p) /\ rows[s] # NoRow
    /\ known' = [known EXCEPT ![p] = Remembered(@, s)]
    /\ fetched' = [fetched EXCEPT ![p] = [session |-> s, turns |-> rows[s].turns,
                                          rev |-> rows[s].rev]]
    /\ looked' = [looked EXCEPT ![p] = @ \/ s = active[p]]
    /\ Save(p, history[p], "apply")
    /\ UNCHANGED <<turns, left>>

Removed(p, gone) ==
    /\ Attended(p)
    /\ rows' = [s \in Sessions |-> IF s \in gone THEN NoRow ELSE rows[s]]
    /\ recency' = Without(recency, gone)
    /\ known' = [known EXCEPT ![p] = [s \in Sessions |-> IF s \in gone THEN Unread ELSE @[s]]]
    /\ committed' = [committed EXCEPT ![p] = [s \in Sessions |-> IF s \in gone THEN -1 ELSE @[s]]]
    /\ UNCHANGED <<minted, turns, captured, driver, threads, seen, looked>>

\* /session delete ID...: all of them or none, and never the active one.
Delete(p) ==
    \E gone \in SUBSET (Range(recency) \ {active[p]}) : gone # {} /\ Removed(p, gone)

\* /session delete --empty
DeleteEmpty(p) ==
    LET empty == {s \in Range(recency) \ {active[p]} : rows[s].turns = <<>>}
    IN  empty # {} /\ Removed(p, empty)

\* The save has answered: return to the prompt, whatever it answered.
Stays(p) ==
    /\ follow[p] = "stay"
    /\ UNCHANGED <<rows, recency, minted, known, active, history, seen, looked>>

\* status shows the row it loads: the CLI after a save that succeeded, the TUI always.
Looks(p) ==
    /\ follow[p] = "look"
    /\ IF rows[active[p]] # NoRow /\ (~warned[p] \/ program[p] = "tui")
       THEN /\ known' = [known EXCEPT ![p] = Remembered(@, active[p])]
            /\ looked' = [looked EXCEPT ![p] = TRUE]
       ELSE UNCHANGED <<known, looked>>
    /\ UNCHANGED <<rows, recency, minted, active, history, seen>>

StartsNew(p) ==
    /\ follow[p] = "new"
    /\ \E s \in Sessions :
           /\ Create(s)
           /\ known' = [known EXCEPT ![p][s] = 0]
           /\ Adopt(p, s, <<>>, 0)

Applies(p) ==
    /\ follow[p] = "apply"
    /\ Adopt(p, fetched[p].session, fetched[p].turns, fetched[p].rev)
    /\ UNCHANGED <<rows, recency, minted, known>>

GoesOn(p) ==
    /\ phase[p] = "answered"
    /\ Stays(p) \/ Looks(p) \/ StartsNew(p) \/ Applies(p)
    /\ phase' = [phase EXCEPT ![p] = "idle"]
    /\ follow' = [follow EXCEPT ![p] = "stay"]
    /\ fetched' = [fetched EXCEPT ![p] = NoRow]
    /\ UNCHANGED <<turns, captured, committed, program, awaits, warned, left, threads>>

\* Shutdown saves once more.  The TUI does not wait for a worker longer than
\* its grace: it may leave a turn, or a save in its thread, behind.
Quit(p) ==
    /\ Attended(p) \/ (program[p] = "tui" /\ phase[p] # "off" /\ follow[p] # "exit")
    /\ Save(p, history[p], "exit")
    /\ left' = [left EXCEPT ![p] = phase[p] = "turn"]
    /\ UNCHANGED <<turns, known, fetched, looked>>

\* The interpreter waits for the threads its executor still runs.
Exit(p) ==
    /\ phase[p] = "answered" /\ follow[p] = "exit"
    /\ \A t \in threads : t.proc # p
    /\ Ended(p)

Crash(p) == phase[p] # "off" /\ Ended(p)

Program(p) ==
    \/ Open(p) \/ TurnStarts(p) \/ TurnEnds(p) \/ LateTurnEnds(p) \/ Command(p) \/ SaveFirst(p)
    \/ (\E s \in Sessions : Resume(p, s))
    \/ Delete(p) \/ DeleteEmpty(p) \/ GoesOn(p) \/ Quit(p) \/ Exit(p) \/ Crash(p)

Next ==
    \/ \E p \in Processes : Program(p)
    \/ \E t \in threads : SaveSkipped(t) \/ SaveCommits(t) \/ SaveFails(t)

Spec == Init /\ [][Next]_vars

----------------------------------------------------------------------------
(* Properties *)

\* The process whose snapshot a step has written over the row of s.
Rewrites(p, s) ==
    /\ rows[s] # NoRow /\ rows'[s] # NoRow /\ rows'[s].rev # rows[s].rev
    /\ \E t \in threads \ threads' : t.proc = p

\* A stale process must not write over messages it has not read: a save goes over
\* the row its history was loaded from or that it wrote itself.  The optimistic
\* revision promises it as long as the process does not load its own session
\* without adopting what it read (status in the TUI, resuming the session it is
\* in), which refreshes the revision and not the history.
LooksOrReads ==
    \A p \in Processes, s \in Sessions : Rewrites(p, s) => looked[p] \/ rows[s].rev = seen[p]
OverwritesOnlyAfterLooking == [][LooksOrReads]_vars

\* The same without the exception, as the architecture promises it.
NeverOverwritesUnread ==
    [][\A p \in Processes, s \in Sessions : Rewrites(p, s) => rows[s].rev = seen[p]]_vars

\* A save that answers without a warning has stored the conversation as it stands,
\* and no older snapshot of the same process, left behind in a thread, replaces it.
SavedMeansSaved ==
    \A p \in Processes :
        /\ phase[p] = "answered" /\ ~warned[p] /\ (\A t \in threads : t.proc # p)
        /\ rows[active[p]] # NoRow /\ rows[active[p]].rev = seen[p]
        => rows[active[p]].turns = Bounded(history[p])

\* A row holds turns of its own session only, in the order they were held, through
\* new sessions, resumes, saves that answer late and processes that share it.
RowsKeepApart ==
    \A s \in Sessions : rows[s] # NoRow =>
        \A i \in 1 .. Len(rows[s].turns) :
            /\ rows[s].turns[i][1] = s
            /\ \A j \in 1 .. i - 1 : rows[s].turns[j][2] < rows[s].turns[i][2]
============================================================================
