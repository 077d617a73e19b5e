----------------------------- MODULE Snapshots -----------------------------
(***************************************************************************)
(* The side-git snapshots of one workspace (snapshot.py) around the turns  *)
(* of one process: a snapshot before the turn, a background one after it,  *)
(* and restores that put a whole tree back or roll back.  One asyncio lock *)
(* serialises captures and restores, first come first served: the head of  *)
(* `queue` holds it.  A tree says what each file of the workspace holds.   *)
(***************************************************************************)
EXTENDS Naturals, Sequences, FiniteSets, SequencesExt

CONSTANTS
    Files, Contents,
    Gone,          \* the content of a file that does not exist
    MaxTurns,      \* bound: turns
    MaxCommits     \* bound: commits of the side repository

SnapshotsAssumption == Gone \notin Contents /\ {MaxTurns, MaxCommits} \subseteq Nat

VARIABLES
    tree,          \* the workspace
    head,          \* the commits of the side repository, oldest first
    index,         \* what the capture under way has staged
    queue,         \* who holds the lock and who waits for it: Main or a turn
    pc,            \* where the process's own flow is
    home,          \* where a restore returns to: the prompt or the running turn
    turn,          \* turns begun
    captured,      \* the pre-turn snapshot of this turn was taken
    background,    \* turns whose post-turn capture runs: [turn -> step]
    restore,       \* the restore under way
    loose,         \* a rollback that goes on without the lock
    closing,
    strayed,       \* history: a rollback was left behind
    starts, ends   \* history: the tree when each turn began and ended

flow == <<pc, home, turn, captured>>
undo == <<restore, loose, strayed>>
past == <<starts, ends>>
git == <<head, index>>
vars == <<tree, git, queue, flow, background, undo, closing, past>>

Main == 0
Turns == 1 .. MaxTurns
Tree == [Files -> Contents \cup {Gone}]
Commit == [phase : {"pre-turn", "post-turn", "pre-restore"}, turn : 0 .. MaxTurns, tree : Tree]
Nothing == [f \in Files |-> Gone]
FilesOf(t) == {f \in Files : t[f] # Gone}
Work == [goal : Tree, todo : SUBSET Files]
NoWork == [goal |-> Nothing, todo |-> {}]
NoRestore == [target |-> Nothing, before |-> Nothing, todo |-> {}]

TypeOK ==
    /\ tree \in Tree /\ index \in Tree /\ head \in Seq(Commit)
    /\ queue \in Seq({Main} \cup Turns) /\ turn \in 0 .. MaxTurns
    /\ pc \in {"idle", "pre", "preCommit", "run", "wait", "save", "apply", "back"}
    /\ home \in {"idle", "run"} /\ captured \in BOOLEAN /\ closing \in BOOLEAN
    /\ background \in [Turns -> {"none", "waits", "staged"}]
    /\ restore \in [target : Tree, before : Tree, todo : SUBSET Files]
    /\ loose \in Work /\ strayed \in BOOLEAN

Init ==
    /\ tree \in Tree /\ head = <<>> /\ index = Nothing /\ queue = <<>>
    /\ pc = "idle" /\ home = "idle" /\ turn = 0 /\ captured = FALSE
    /\ background = [t \in Turns |-> "none"]
    /\ restore = NoRestore
    /\ loose = NoWork /\ strayed = FALSE /\ closing = FALSE
    /\ starts = [t \in Turns |-> Nothing] /\ ends = [t \in Turns |-> Nothing]

Holds(id) == queue # <<>> /\ Head(queue) = id
Commits(phase, t) ==
    /\ Len(head) < MaxCommits
    /\ head' = Append(head, [phase |-> phase, turn |-> t, tree |-> index])
    /\ index' = Nothing
Forgets == UNCHANGED head /\ index' = Nothing

----------------------------------------------------------------------------
(* A turn *)

TurnJumpsQueue ==  \* mutant: the pre-turn capture does not wait for its turn at the lock
    /\ pc = "idle" /\ turn < MaxTurns
    /\ turn' = turn + 1 /\ captured' = FALSE
    /\ pc' = "pre" /\ queue' = <<Main>> \o queue
    /\ UNCHANGED <<tree, git, home, background, undo, closing, past>>

TurnBegins ==
    /\ pc = "idle" /\ turn < MaxTurns
    /\ turn' = turn + 1 /\ captured' = FALSE
    /\ pc' = "pre" /\ queue' = Append(queue, Main)
    /\ UNCHANGED <<tree, git, home, background, undo, closing, past>>

PreAdds ==
    /\ pc = "pre" /\ Holds(Main) /\ ~closing
    /\ index' = tree /\ pc' = "preCommit"
    /\ UNCHANGED <<tree, head, queue, home, turn, captured, background, undo,
                   closing, past>>

Runs(took) ==
    /\ pc' = "run" /\ captured' = took
    /\ queue' = Tail(queue)
    /\ starts' = [starts EXCEPT ![turn] = tree]
    /\ UNCHANGED <<tree, home, turn, background, undo, closing, ends>>

PreCommits == pc = "preCommit" /\ Commits("pre-turn", turn) /\ Runs(TRUE)

\* A failing snapshot is a warning: the turn runs without one.
PreFails ==
    /\ pc \in {"pre", "preCommit"} /\ Holds(Main)
    /\ Runs(FALSE) /\ Forgets

\* A cancelled turn never runs; the commit may have come through.
PreCanceled ==
    /\ pc \in {"pre", "preCommit"}
    /\ pc' = "idle"
    /\ \E i \in 1 .. Len(queue) : queue[i] = Main /\ queue' = RemoveAt(queue, i)
    /\ IF pc = "pre" THEN UNCHANGED git ELSE Forgets \/ Commits("pre-turn", turn)
    /\ starts' = [starts EXCEPT ![turn] = tree]
    /\ UNCHANGED <<tree, home, turn, captured, background, undo, closing, ends>>

\* The agent's tools change the workspace.
Writes ==
    /\ pc = "run"
    /\ \E f \in Files, c \in Contents \cup {Gone} : tree' = [tree EXCEPT ![f] = c]
    /\ UNCHANGED <<git, queue, flow, background, undo, closing, past>>

\* The post-turn capture starts in the background, if there was a pre-turn one.
TurnEnds ==
    /\ pc = "run"
    /\ pc' = "idle"
    /\ ends' = [ends EXCEPT ![turn] = tree]
    /\ IF captured /\ ~closing
       THEN /\ background' = [background EXCEPT ![turn] = "waits"]
            /\ queue' = Append(queue, turn)
       ELSE UNCHANGED <<background, queue>>
    /\ UNCHANGED <<tree, git, home, turn, captured, undo, closing, starts>>

BackgroundAdds(t) ==
    /\ background[t] = "waits" /\ Holds(t) /\ ~closing
    /\ index' = tree
    /\ background' = [background EXCEPT ![t] = "staged"]
    /\ UNCHANGED <<tree, head, queue, flow, undo, closing, past>>

BackgroundEnds(t) ==
    /\ Holds(t)
    /\ background' = [background EXCEPT ![t] = "none"]
    /\ queue' = Tail(queue)
    /\ UNCHANGED <<tree, flow, undo, closing, past>>

BackgroundCommits(t) ==
    background[t] = "staged" /\ Commits("post-turn", t) /\ BackgroundEnds(t)

\* Git fails, or close() has begun, or has cancelled what outlives its grace.
BackgroundFails(t) == BackgroundEnds(t) /\ Forgets

----------------------------------------------------------------------------
(* Restores: /restore at the prompt, revert_turn in a turn *)

PreTurns == {i \in 1 .. Len(head) : head[i].phase = "pre-turn"}

\* The n-th newest pre-turn snapshot, once no background capture runs.
RestoreBegins(n) ==
    /\ pc \in {"idle", "run"} /\ ~closing
    /\ \A t \in Turns : background[t] = "none"
    /\ \E i \in PreTurns :
        /\ Cardinality({j \in PreTurns : j >= i}) = n
        /\ restore' = [restore EXCEPT !.target = head[i].tree]
    /\ home' = pc /\ pc' = "wait" /\ queue' = Append(queue, Main)
    /\ UNCHANGED <<tree, git, turn, captured, background, loose, strayed, closing, past>>

RestoreAdds ==
    /\ pc = "wait" /\ Holds(Main) /\ ~closing
    /\ index' = tree /\ pc' = "save"
    /\ restore' = [restore EXCEPT !.before = tree]
    /\ UNCHANGED <<tree, head, queue, home, turn, captured, background, loose, strayed, closing,
                   past>>

\* The state to roll back to is committed before the first file changes.
RestoreSaves ==
    /\ pc = "save" /\ Commits("pre-restore", 0)
    /\ pc' = "apply"
    /\ restore' = [restore EXCEPT !.todo = FilesOf(restore.before) \cup FilesOf(restore.target)]
    /\ UNCHANGED <<tree, queue, home, turn, captured, background, loose, strayed, closing,
                   past>>

\* Files only the source holds are unlinked, then the goal's are checked out.
PutFile(work, goal) ==
    \E f \in work :
        /\ f \in FilesOf(goal) => work \subseteq FilesOf(goal)
        /\ tree' = [tree EXCEPT ![f] = goal[f]]
        /\ restore' = [restore EXCEPT !.todo = @ \ {f}]
        /\ UNCHANGED <<git, queue, flow, background, loose, strayed, closing, past>>

RestoreFile == pc = "apply" /\ PutFile(restore.todo, restore.target)
RollbackFile == pc = "back" /\ PutFile(restore.todo, restore.before)

Returns ==
    /\ pc' = home /\ queue' = Tail(queue)
    /\ restore' = NoRestore
    /\ UNCHANGED <<tree, home, turn, captured, background, closing, past>>

Restored == pc = "apply" /\ restore.todo = {} /\ Returns /\ UNCHANGED <<git, loose, strayed>>
RolledBack == pc = "back" /\ restore.todo = {} /\ Returns /\ UNCHANGED <<git, loose, strayed>>

\* Nothing was changed yet: an unknown revision, a failing capture, a cancellation.
RestoreRefused ==
    /\ pc \in {"wait", "save"} /\ Holds(Main)
    /\ Returns /\ Forgets /\ UNCHANGED <<loose, strayed>>

RollbackOwnFiles == FilesOf(restore.before)  \* mutant: new files of the target stay
RollbackFiles == FilesOf(restore.before) \cup FilesOf(restore.target)

\* A checkout fails or the restore is cancelled half way.
RestoreBreaks ==
    /\ pc = "apply"
    /\ pc' = "back"
    /\ restore' = [restore EXCEPT !.todo = RollbackFiles]
    /\ UNCHANGED <<tree, git, queue, home, turn, captured, background, loose, strayed, closing,
                   past>>

\* The rollback fails as well.
RollbackBreaks == pc = "back" /\ Returns /\ UNCHANGED <<git, loose, strayed>>

\* A second cancellation ends the wait for the shielded rollback and frees the
\* lock; the rollback goes on.
RollbackLeft ==
    /\ pc = "back" /\ loose.todo = {}
    /\ loose' = [goal |-> restore.before, todo |-> restore.todo]
    /\ strayed' = TRUE
    /\ Returns /\ UNCHANGED git

LooseFile ==
    \E f \in loose.todo :
        /\ tree' = [tree EXCEPT ![f] = loose.goal[f]]
        /\ loose' = IF loose.todo = {f} THEN NoWork ELSE [loose EXCEPT !.todo = @ \ {f}]
        /\ UNCHANGED <<git, queue, flow, background, restore, strayed, closing, past>>

----------------------------------------------------------------------------

\* /snapshot clean removes the repository.
Cleans ==
    /\ pc = "idle" /\ ~closing /\ queue = <<>> /\ head # <<>>
    /\ head' = <<>>
    /\ UNCHANGED <<tree, index, queue, flow, background, undo, closing, past>>

\* The shutdown closes the service; the TUI may do so while its flow is busy.
Closes ==
    /\ ~closing /\ closing' = TRUE
    /\ UNCHANGED <<tree, git, queue, flow, background, undo, past>>

Next ==
    \/ TurnBegins \/ PreAdds \/ PreCommits \/ PreFails \/ PreCanceled \/ Writes \/ TurnEnds
    \/ \E t \in Turns : BackgroundAdds(t) \/ BackgroundCommits(t) \/ BackgroundFails(t)
    \/ \E n \in Turns : RestoreBegins(n)
    \/ RestoreAdds \/ RestoreSaves \/ RestoreFile \/ Restored \/ RestoreRefused
    \/ RestoreBreaks \/ RollbackFile \/ RolledBack \/ RollbackBreaks \/ RollbackLeft
    \/ LooseFile \/ Cleans \/ Closes

Spec == Init /\ [][Next]_vars

----------------------------------------------------------------------------
(* Properties *)

\* A pre-turn snapshot holds the workspace as the turn found it, a post-turn
\* snapshot as the turn left it, although the latter is taken in the background
\* while the next turn begins: only a rollback left behind without the lock
\* can disturb them.
SnapshotsFaithful ==
    ~strayed =>
        \A i \in 1 .. Len(head) :
            /\ head[i].phase = "pre-turn" => head[i].tree = starts[head[i].turn]
            /\ head[i].phase = "post-turn" => head[i].tree = ends[head[i].turn]

\* A restore that ends well leaves the snapshot's tree, one that fails and rolls
\* back leaves the tree it found: nothing in between is ever reported as either.
WholeRestore ==
    ~strayed =>
        /\ pc = "apply" /\ pc' \notin {"apply", "back"} => tree = restore.target
        /\ pc = "back" /\ pc' # "back" /\ restore.todo = {} => tree = restore.before
RestoreAllOrNothing == [][WholeRestore]_vars
============================================================================
