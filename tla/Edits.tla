-------------------------------- MODULE Edits --------------------------------
(***************************************************************************)
(* Edits of workspace files by tools: write_file and apply_patch           *)
(* (kairocli/tools/registry.py) and create_project, with the writes of     *)
(* kairocli/tools/filesystem.py.  They run one at a time under the         *)
(* mutation lock, but a cancelled write_file leaves its thread to finish,  *)
(* a user edits the same files, git may be stopped half way, and the       *)
(* process may crash.                                                      *)
(***************************************************************************)
EXTENDS FiniteSets

CONSTANTS
    Edits,     \* the tool calls
    Paths,     \* the files they are about
    User, Old, \* contents of a file that no call has written
    Nobody     \* the holder of the free mutation lock

Texts == Edits \cup {User, Old}   \* the content of a file: who wrote it

EditsAssumption == Cardinality({User, Old, Nobody}) = 3 /\ Edits \cap {User, Old, Nobody} = {}

VARIABLES
    tree,      \* path -> its content
    edit,      \* call -> what it is, where it stands and what it answered
    mutator,   \* _workspace_mutation_lock
    writes,    \* calls whose thread in _atomic_write_text has not ended
    temps,     \* calls whose temporary file or staging directory exists
    landed,    \* call -> the paths it has written
    halfDone,  \* calls stopped, or whose directory failed to sync, after a write
    target,    \* the directory a project is created in
    crashed

vars == <<tree, edit, mutator, writes, temps, landed, halfDone, target, crashed>>

Idle == [kind |-> "write", at |-> "idle", paths |-> {}, base |-> [p \in Paths |-> Old],
         todo |-> {}, existed |-> FALSE, answer |-> "none"]

TypeOK ==
    /\ tree \in [Paths -> Texts]
    /\ edit \in [Edits -> [kind : {"write", "patch", "project"}, paths : SUBSET Paths,
                           at : {"idle", "capture", "write", "check", "apply", "git", "diagnose",
                                 "stage", "clear", "move", "restore", "done"},
                           base : [Paths -> Texts], todo : SUBSET Paths, existed : BOOLEAN,
                           answer : {"none", "ok", "error", "canceled"}]]
    /\ mutator \in Edits \cup {Nobody} /\ writes \subseteq Edits /\ temps \subseteq Edits
    /\ landed \in [Edits -> SUBSET Paths] /\ halfDone \subseteq Edits
    /\ target \in {"absent", "empty", "users", "project"} /\ crashed \in BOOLEAN

Init ==
    /\ tree = [p \in Paths |-> Old] /\ edit = [c \in Edits |-> Idle] /\ mutator = Nobody
    /\ writes = {} /\ temps = {} /\ landed = [c \in Edits |-> {}] /\ halfDone = {}
    /\ target \in {"absent", "empty"} /\ crashed = FALSE

At(c) == edit[c].at
Goes(c, at) == edit' = [edit EXCEPT ![c].at = at] /\ UNCHANGED mutator
Answers(c, answer) ==
    /\ edit' = [edit EXCEPT ![c].at = "done", ![c].answer = answer, ![c].todo = {}]
    /\ mutator' = Nobody

-----------------------------------------------------------------------------
(* A call under the mutation lock. A patch was made for the files as they  *)
(* were when the model read them.                                          *)
Begin(c, kind, paths) ==
    /\ At(c) = "idle" /\ mutator = Nobody /\ mutator' = c
    /\ edit' = [edit EXCEPT ![c] = [Idle EXCEPT !.kind = kind, !.paths = paths, !.base = tree,
                                                !.at = IF kind = "project" THEN "stage" ELSE "capture"]]
    /\ UNCHANGED <<tree, writes, temps, landed, halfDone, target, crashed>>

(* The contents for the diff are read in a thread of their own; then       *)
(* write_file starts the thread that writes.                               *)
Capture(c) ==
    /\ At(c) = "capture"
    /\ IF edit[c].kind = "write"
       THEN Goes(c, "write") /\ writes' = writes \cup {c}
       ELSE Goes(c, "check") /\ UNCHANGED writes
    /\ UNCHANGED <<tree, temps, landed, halfDone, target, crashed>>

(* _atomic_write_text: the text is written to a temporary file, which      *)
(* replaces the file; the directory is synced; the temporary file is       *)
(* removed whatever happens. The call may be over by then.                 *)
WriteTemp(c) ==
    /\ c \in writes \ temps /\ temps' = temps \cup {c}
    /\ UNCHANGED <<tree, edit, mutator, writes, landed, halfDone, target, crashed>>
WriteLands(c, synced) ==
    /\ c \in writes \cap temps
    /\ tree' = [p \in Paths |-> IF p \in edit[c].paths THEN c ELSE tree[p]]
    /\ landed' = [landed EXCEPT ![c] = edit[c].paths]
    /\ writes' = writes \ {c} /\ temps' = temps \ {c}
    /\ halfDone' = IF synced THEN halfDone ELSE halfDone \cup {c}
    /\ IF At(c) # "write" THEN UNCHANGED <<edit, mutator>>
       ELSE IF synced THEN Goes(c, "diagnose") ELSE Answers(c, "error")
    /\ UNCHANGED <<target, crashed>>
WriteFailsAndLeaves(c) ==  \* mutant: the temporary file stays
    /\ c \in writes /\ writes' = writes \ {c} /\ UNCHANGED temps
    /\ IF At(c) = "write" THEN Answers(c, "error") ELSE UNCHANGED <<edit, mutator>>
    /\ UNCHANGED <<tree, landed, halfDone, target, crashed>>
WriteFails(c) ==
    /\ c \in writes /\ writes' = writes \ {c} /\ temps' = temps \ {c}
    /\ IF At(c) = "write" THEN Answers(c, "error") ELSE UNCHANGED <<edit, mutator>>
    /\ UNCHANGED <<tree, landed, halfDone, target, crashed>>

(* `git apply --check`, and `git apply`, which looks again at every file   *)
(* before it writes the first.                                             *)
Fits(c) == \A p \in edit[c].paths : tree[p] = edit[c].base[p]
CheckPatch(c) ==
    /\ At(c) \in {"check", "apply"}
    /\ IF ~Fits(c) THEN Answers(c, "error")
       ELSE IF At(c) = "check" THEN Goes(c, "apply")
       ELSE /\ edit' = [edit EXCEPT ![c].at = "git", ![c].todo = edit[c].paths]
            /\ UNCHANGED mutator
    /\ UNCHANGED <<tree, writes, temps, landed, halfDone, target, crashed>>
GitWrites(c, p) ==
    /\ At(c) = "git" /\ p \in edit[c].todo
    /\ tree' = [tree EXCEPT ![p] = c] /\ landed' = [landed EXCEPT ![c] = @ \cup {p}]
    /\ edit' = [edit EXCEPT ![c].todo = @ \ {p}, ![c].at = IF @ = "git" /\ edit[c].todo = {p} THEN "diagnose" ELSE @]
    /\ UNCHANGED <<mutator, writes, temps, halfDone, target, crashed>>

(* Diagnostics of the files, whose failure is only a warning; the answer.  *)
Diagnose(c) ==
    /\ At(c) = "diagnose" /\ Answers(c, "ok")
    /\ UNCHANGED <<tree, writes, temps, landed, halfDone, target, crashed>>

-----------------------------------------------------------------------------
(* create_project: refuses a directory with something in it, and builds    *)
(* the project beside it.                                                  *)
StageProject(c) ==
    /\ At(c) = "stage"
    /\ IF target \in {"absent", "empty"}
       THEN /\ edit' = [edit EXCEPT ![c].at = "clear"] /\ temps' = temps \cup {c}
            /\ UNCHANGED mutator
       ELSE Answers(c, "error") /\ UNCHANGED temps
    /\ UNCHANGED <<tree, writes, landed, halfDone, target, crashed>>

(* An empty directory in its place is deleted, which fails if it is no     *)
(* longer empty, ...                                                       *)
ClearTarget(c, fails) ==
    /\ At(c) = "clear"
    /\ IF fails \/ target \in {"users", "project"}
       THEN Answers(c, "error") /\ temps' = temps \ {c} /\ UNCHANGED target
       ELSE /\ edit' = [edit EXCEPT ![c].at = "move", ![c].existed = (target = "empty")]
            /\ target' = "absent" /\ UNCHANGED <<mutator, temps>>
    /\ UNCHANGED <<tree, writes, landed, halfDone, crashed>>

(* ... and the project is renamed to its place, or cannot be; the parent   *)
(* is synced.                                                              *)
MoveProject(c, fails, synced) ==
    /\ At(c) = "move"
    /\ IF fails \/ target \in {"users", "project"}
       THEN Goes(c, "restore") /\ UNCHANGED <<target, temps, halfDone>>
       ELSE /\ target' = "project" /\ temps' = temps \ {c}
            /\ Answers(c, IF synced THEN "ok" ELSE "error")
            /\ halfDone' = IF synced THEN halfDone ELSE halfDone \cup {c}
    /\ UNCHANGED <<tree, writes, landed, crashed>>

(* The empty directory is made again, and the staging directory removed.   *)
RestoreTarget(c) ==
    /\ At(c) = "restore" /\ Answers(c, "error") /\ temps' = temps \ {c}
    /\ target' = IF edit[c].existed /\ target = "absent" THEN "empty" ELSE target
    /\ UNCHANGED <<tree, writes, landed, halfDone, crashed>>

-----------------------------------------------------------------------------
(* A call is cancelled or timed out at an await: the thread of a write     *)
(* goes on; git is stopped (_run_git_apply).                               *)
Cancel(c) ==
    /\ At(c) \in {"capture", "write", "check", "apply", "git", "diagnose"}
    /\ Answers(c, "canceled")
    /\ halfDone' = IF At(c) = "git" THEN halfDone \cup {c} ELSE halfDone
    /\ UNCHANGED <<tree, writes, temps, landed, target, crashed>>
GitTimesOut(c) ==
    /\ At(c) = "git" /\ Answers(c, "error") /\ halfDone' = halfDone \cup {c}
    /\ UNCHANGED <<tree, writes, temps, landed, target, crashed>>

(* The user saves a file, or puts one into the directory of the project.   *)
UserEdits ==
    /\ \/ \E p \in Paths : tree' = [tree EXCEPT ![p] = User] /\ UNCHANGED target
       \/ target \in {"absent", "empty"} /\ target' = "users" /\ UNCHANGED tree
    /\ UNCHANGED <<edit, mutator, writes, temps, landed, halfDone, crashed>>

(* The process is killed: what it was doing stops where it stands.         *)
Crash ==
    /\ ~crashed /\ crashed' = TRUE /\ writes' = {} /\ mutator' = Nobody
    /\ edit' = [c \in Edits |-> [edit[c] EXCEPT !.at = "done"]]
    /\ UNCHANGED <<tree, temps, landed, halfDone, target>>

Next ==
    \/ \E c \in Edits :
        \/ \E p \in Paths : Begin(c, "write", {p}) \/ GitWrites(c, p)
        \/ \E ps \in SUBSET Paths : ps # {} /\ Begin(c, "patch", ps)
        \/ Begin(c, "project", {})
        \/ Capture(c) \/ WriteTemp(c) \/ WriteFails(c) \/ CheckPatch(c) \/ Diagnose(c)
        \/ StageProject(c) \/ RestoreTarget(c) \/ Cancel(c) \/ GitTimesOut(c)
        \/ \E b \in BOOLEAN : WriteLands(c, b) \/ ClearTarget(c, b)
        \/ \E fails, synced \in BOOLEAN : MoveProject(c, fails, synced)
    \/ UserEdits \/ Crash

Spec == Init /\ [][Next]_vars

-----------------------------------------------------------------------------
(* A call that succeeded has written all of its files. One that failed has *)
(* written none, but for git stopped half way and a directory that could   *)
(* not be synced after the write (_atomic_write_text, _apply_patch).       *)
AllOrNothing ==
    \A c \in Edits :
        /\ edit[c].answer = "ok" => landed[c] = edit[c].paths
        /\ edit[c].answer = "error" /\ c \notin halfDone => landed[c] = {} /\ \A p \in Paths : tree[p] # c

(* A temporary file or staging directory is left only by a crash.          *)
NothingLeftOver ==
    ~crashed => \A c \in temps : c \in writes \/ At(c) \in {"clear", "move", "restore"}

(* A project that was made is complete and in its place; when making it    *)
(* failed, the empty directory it was to replace is there again            *)
(* (_create_project_atomic).                                               *)
ProjectWhole ==
    \A c \in Edits : edit[c].kind = "project" /\ At(c) # "done" =>
        /\ edit'[c].answer = "ok" => target' = "project" /\ c \notin temps'
        /\ edit'[c].answer = "error" /\ edit[c].existed => target' # "absent"

(* What the user put into the directory of a project stays there, and a    *)
(* file changes only under the lock, by the user, or by the thread of a    *)
(* call that was cancelled.                                                *)
ChangedUnderLock ==
    /\ target = "users" => target' = "users"
    /\ \A p \in Paths : tree'[p] # tree[p] =>
        tree'[p] \in {User, mutator} \cup {c \in Edits : edit[c].answer = "canceled"}
=============================================================================
