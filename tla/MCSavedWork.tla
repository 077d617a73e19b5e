----------------------------- MODULE MCSavedWork ----------------------------
(* Instance for TLC of what keeps a session's work: the conversations      *)
(* (Conversations), the snapshots of the workspace (Snapshots) and the     *)
(* edits of its files by tools (Edits). They share no state: one of them   *)
(* runs in each behaviour and the others are Off. Session ids, tool calls  *)
(* and the paths they edit are interchangeable.                            *)
EXTENDS Parts, Naturals, FiniteSets, TLC

CONSTANTS Processes, Printing, Sessions, NoRow, Unread,
          MaxRows, MaxKept, MaxTurns, MaxCaptures, MaxRevision,
          Files, Contents, Missing,
          MaxCommits,
          Edits, Paths, User, Old, Nobody

VARIABLES
    rows, recency, minted, turns, known, captured, committed, program, active, messages,
    phase, awaits, warned, left, follow, fetched, threads, seen, looked,
    tree, head, index, queue, pc, home, turnOf, taken, background, restore, loose, closing,
    strayed, starts, ends,
    drafts, edit, mutator, writes, temps, landed, halfDone, target, crashed

Talk == INSTANCE Conversations WITH Prints <- Printing, history <- messages
Side == INSTANCE Snapshots WITH captured <- taken, turn <- turnOf, Gone <- Missing
Edited == INSTANCE Edits WITH tree <- drafts

talkVars == <<rows, recency, minted, turns, known, captured, committed, program, active,
             messages, phase, awaits, warned, left, follow, fetched, threads, seen, looked>>
snapshotsVars == <<tree, head, index, queue, pc, home, turnOf, taken, background, restore,
                    loose, closing, strayed, starts, ends>>
editsVars == <<drafts, edit, mutator, writes, temps, landed, halfDone, target,
               crashed>>

ASSUME WorkAssumption ==
    Talk!ConversationsAssumption /\ Side!SnapshotsAssumption /\ Edited!EditsAssumption

ConversationsOff ==
    /\ rows = Off /\ recency = Off /\ minted = Off /\ turns = Off /\ known = Off
    /\ captured = Off /\ committed = Off /\ program = Off /\ active = Off /\ messages = Off
    /\ phase = Off /\ awaits = Off /\ warned = Off /\ left = Off /\ follow = Off
    /\ fetched = Off /\ threads = Off /\ seen = Off /\ looked = Off
SnapshotsOff ==
    /\ tree = Off /\ head = Off /\ index = Off /\ queue = Off /\ pc = Off /\ home = Off
    /\ turnOf = Off /\ taken = Off /\ background = Off /\ restore = Off /\ loose = Off
    /\ closing = Off /\ strayed = Off /\ starts = Off /\ ends = Off
EditsOff ==
    /\ drafts = Off /\ edit = Off /\ mutator = Off /\ writes = Off /\ temps = Off
    /\ landed = Off /\ halfDone = Off /\ target = Off /\ crashed = Off

WorkInit ==
    \/ part = "conversations" /\ Talk!Init /\ SnapshotsOff /\ EditsOff
    \/ part = "snapshots" /\ Side!Init /\ ConversationsOff /\ EditsOff
    \/ part = "edits" /\ Edited!Init /\ ConversationsOff /\ SnapshotsOff

WorkNext ==
    \/ part = "conversations" /\ Talk!Next /\ UNCHANGED <<part, snapshotsVars, editsVars>>
    \/ part = "snapshots" /\ Side!Next /\ UNCHANGED <<part, talkVars, editsVars>>
    \/ part = "edits" /\ Edited!Next /\ UNCHANGED <<part, talkVars, snapshotsVars>>

WorkSpec == WorkInit /\ [][WorkNext]_<<part, talkVars, snapshotsVars, editsVars>>

SymmetricWork == Permutations(Sessions) \cup Permutations(Files)

(* A save that answers without a warning has stored the conversation as it *)
(* stands (SessionStore._save_locked), and a row holds turns of its own    *)
(* session only, in the order they were held.                              *)
HistoriesKept ==
    part = "conversations" => Talk!TypeOK /\ Talk!SavedMeansSaved /\ Talk!RowsKeepApart

(* A process writes over messages it has not read only after one of its    *)
(* commands has looked at its own session without adopting it: the         *)
(* optimistic revision of SessionStore.save_snapshot.                      *)
OverwritesLooked == [][part = "conversations" => Talk!LooksOrReads]_<<part, talkVars>>

(* A snapshot of a turn holds the tree that the turn began or ended with   *)
(* (SnapshotService._capture_locked, in the background after a turn).      *)
SnapshotsFaithful == part = "snapshots" => Side!TypeOK /\ Side!SnapshotsFaithful

(* A tool's edit that succeeded has written all of its files, one that     *)
(* failed none unless git was stopped half way or a directory could not be *)
(* synced, and nothing temporary stays (_atomic_write_text, _apply_patch). *)
EditsWhole ==
    part = "edits" => Edited!TypeOK /\ Edited!AllOrNothing /\ Edited!NothingLeftOver

(* A restore that ends well leaves the tree it was asked for, one that     *)
(* rolled back the tree it found (SnapshotService.restore); a project that *)
(* was made is complete, and a file changes only under the mutation lock,  *)
(* by its user or by a cancelled call (_create_project_atomic).            *)
RestoreAllOrNothing ==
    [][/\ part = "snapshots" => Side!WholeRestore
       /\ part = "edits" => Edited!ProjectWhole /\ Edited!ChangedUnderLock
      ]_<<part, snapshotsVars, editsVars>>
=============================================================================
