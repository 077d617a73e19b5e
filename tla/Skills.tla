------------------------------- MODULE Skills -------------------------------
(***************************************************************************)
(* Skill directories and the set of disabled skills (skills.py,            *)
(* skill_installer.py), shared by several CLI processes.  An installation  *)
(* and a toggle hold the state lock; a registry reads the directories and  *)
(* the set without it.  A replacement stages a copy beside the skills,     *)
(* moves the old directory aside, renames the copy into place and removes  *)
(* the old one; a rename that fails puts the old one back.                 *)
(***************************************************************************)
EXTENDS Naturals, FiniteSets

CONSTANTS Processes, Names,
          Contents,         \* versions of a skill's files
          Absent,           \* no such directory
          MaxSteps          \* bound: commands and crashes
SkillsAssumption == Absent \notin Contents /\ MaxSteps \in Nat

Scopes == {"user", "project"}
Places == Scopes \X Names

VARIABLES dirs,        \* the skill directories
          disabled,    \* skills.json
          holder,      \* the processes that hold the state lock
          registry,    \* each process's SkillRegistry.skills
          op,          \* each process's command
          steps,
          published,   \* observer: the content last renamed into each place
          orphaned,    \* observer: places whose old directory a crash left moved aside
          wanted       \* observer: the names the last toggle or installation left disabled

vars == <<dirs, disabled, holder, registry, op, steps, published, orphaned, wanted>>

Idle == [at |-> "idle"]
Unknown == [n \in Names |-> Absent]

\* a process reads its registry when it starts
Starting == [at |-> "reading", then |-> Idle]

\* what a registry reads while nobody writes
Read == [n \in Names |->
    LET Found(scope) == [scope |-> scope, body |-> dirs[<<scope, n>>], enabled |-> n \notin disabled]
    IN  IF dirs[<<"project", n>>] # Absent THEN Found("project")
        ELSE IF dirs[<<"user", n>>] # Absent THEN Found("user") ELSE Absent]

Init ==
    /\ \E there \in SUBSET Names, c \in Contents :
          dirs = [place \in Places |->
                     IF place[1] = "user" /\ place[2] \in there THEN c ELSE Absent]
    /\ disabled \in SUBSET Names
    /\ holder = {}
    /\ registry = [p \in Processes |-> Read]
    /\ op = [p \in Processes |-> Idle]
    /\ steps = 0
    /\ published = dirs
    /\ orphaned = {}
    /\ wanted = disabled

Goes(p, o) == op' = [op EXCEPT ![p] = o]
Begins(p, o) ==
    /\ op[p] = Idle
    /\ steps < MaxSteps
    /\ steps' = steps + 1
    /\ Goes(p, o)
    /\ UNCHANGED <<dirs, disabled, holder, registry, published, orphaned, wanted>>

\* _state_lock
Locks(p, next) ==
    /\ holder = {}
    /\ holder' = {p}
    /\ op' = [op EXCEPT ![p].at = next]
    /\ UNCHANGED <<dirs, disabled, registry, steps, published, orphaned, wanted>>

-----------------------------------------------------------------------------
\* SkillRegistry.reload: the disabled set first, then the user's directories and
\* the project's, which win; then: what the command does next
Reload(p) == Begins(p, Starting)

ReadsDisabled(p) ==
    /\ op[p].at = "reading"
    /\ Goes(p, [at |-> "scanning", then |-> op[p].then, off |-> disabled, found |-> Unknown])
    /\ UNCHANGED <<dirs, disabled, holder, registry, steps, published, orphaned, wanted>>

Skill(p, scope, n) ==
    [scope |-> scope, body |-> dirs[<<scope, n>>], enabled |-> n \notin op[p].off]
Scanned(p, scope) ==
    [n \in Names |-> IF dirs[<<scope, n>>] = Absent THEN op[p].found[n] ELSE Skill(p, scope, n)]

ScansUser(p) ==
    /\ op[p].at = "scanning"
    /\ Goes(p, [op[p] EXCEPT !.at = "scanned", !.found = Scanned(p, "user")])
    /\ UNCHANGED <<dirs, disabled, holder, registry, steps, published, orphaned, wanted>>

\* The installer enables the skill it installed when the directory it wrote is
\* the one the registry found; any other reload ends the command.
ScansProject(p) ==
    LET found == Scanned(p, "project")
        next == op[p].then
        enables == /\ next # Idle
                   /\ found[next.name] # Absent
                   /\ found[next.name].scope = next.scope
                   /\ ~found[next.name].enabled
    IN  /\ op[p].at = "scanned"
        /\ registry' = [registry EXCEPT ![p] = found]
        /\ Goes(p, IF enables
                   THEN [at |-> "toggling", name |-> next.name, on |-> TRUE, install |-> TRUE]
                   ELSE Idle)
        /\ UNCHANGED <<dirs, disabled, holder, steps, published, orphaned, wanted>>

-----------------------------------------------------------------------------
\* set_enabled
Toggle(p) == \E n \in Names, on \in BOOLEAN :
    /\ registry[p][n] # Absent
    /\ Begins(p, [at |-> "toggling", name |-> n, on |-> on, install |-> FALSE])

ToggleLocks(p) ==
    /\ op[p].at = "toggling"
    /\ Locks(p, "toggle")

Without(off, n, on) == IF on THEN off \ {n} ELSE off \cup {n}
\* the set toggled is the one read from the file under the lock
Toggled(p) == Without(disabled, op[p].name, op[p].on)

Unlocks(p) == holder' = holder \ {p}

Toggles(p) ==
    LET n == op[p].name
    IN  /\ op[p].at = "toggle"
        /\ disabled' = Toggled(p)
        /\ wanted' = Without(wanted, n, op[p].on)
        /\ registry' = [registry EXCEPT ![p][n].enabled = op[p].on]
        /\ Unlocks(p)
        /\ Goes(p, IF op[p].install THEN [at |-> "reading", then |-> Idle] ELSE Idle)
        /\ UNCHANGED <<dirs, steps, published, orphaned>>

\* _write_disabled fails before its rename: the file and the memory stay
ToggleFails(p) ==
    /\ op[p].at = "toggle"
    /\ Unlocks(p)
    /\ Goes(p, Idle)
    /\ UNCHANGED <<dirs, disabled, registry, steps, published, orphaned, wanted>>

-----------------------------------------------------------------------------
\* install_skill
Install(p) == \E place \in Places, c \in Contents, force \in BOOLEAN :
    Begins(p, [at |-> "installing", place |-> place, content |-> c, force |-> force,
               backup |-> Absent])

InstallLocks(p) ==
    /\ op[p].at = "installing"
    /\ Locks(p, "locked")

\* No lock is held and the staged copy is gone: the installer's finally clauses.
Fails(p) ==
    /\ Unlocks(p)
    /\ Goes(p, Idle)
    /\ UNCHANGED <<disabled, registry, steps, wanted>>

\* The source cannot be fetched or copied, or the skill is there without --force.
InstallRefused(p) ==
    /\ op[p].at \in {"locked", "staged"}
    /\ Fails(p)
    /\ UNCHANGED <<dirs, published, orphaned>>

Stages(p) ==
    /\ op[p].at = "locked"
    /\ dirs[op[p].place] = Absent \/ op[p].force
    /\ Goes(p, [op[p] EXCEPT !.at = IF dirs[op[p].place] = Absent THEN "ready" ELSE "staged"])
    /\ UNCHANGED <<dirs, disabled, holder, registry, steps, published, orphaned, wanted>>

MovesAside(p) ==
    /\ op[p].at = "staged"
    /\ dirs' = [dirs EXCEPT ![op[p].place] = Absent]
    /\ Goes(p, [op[p] EXCEPT !.at = "ready", !.backup = dirs[op[p].place]])
    /\ UNCHANGED <<disabled, holder, registry, steps, published, orphaned, wanted>>

\* os.replace(staging, target)
Renamed(p) ==
    /\ dirs' = [dirs EXCEPT ![op[p].place] = op[p].content]
    /\ published' = [published EXCEPT ![op[p].place] = op[p].content]
    /\ orphaned' = orphaned \ {op[p].place}

\* Then the old directory is removed, the lock released and the registry read.
Publishes(p) ==
    /\ op[p].at = "ready"
    /\ Renamed(p)
    /\ Unlocks(p)
    /\ Goes(p, [at |-> "reading",
                then |-> [scope |-> op[p].place[1], name |-> op[p].place[2]]])
    /\ UNCHANGED <<disabled, registry, steps, wanted>>

\* Syncing the directory, or removing the old one, fails after the rename: the
\* command reports a failure, and the new skill stays.
PublishedAndFails(p) ==
    /\ op[p].at = "ready"
    /\ Renamed(p)
    /\ Fails(p)

LeftAside(p) == dirs' = dirs
PutBack(p) == dirs' = [dirs EXCEPT ![op[p].place] = op[p].backup]

PublishFails(p) ==
    /\ op[p].at = "ready"
    /\ PutBack(p)
    /\ Fails(p)
    /\ UNCHANGED <<published, orphaned>>

\* The process dies; what it had moved aside stays under its temporary name.
\* Another process starts in its place.
Crashes(p) ==
    /\ op[p] # Idle
    /\ steps < MaxSteps
    /\ steps' = steps + 1
    /\ orphaned' = IF op[p].at = "ready" /\ op[p].backup # Absent
                   THEN orphaned \cup {op[p].place} ELSE orphaned
    /\ holder' = holder \ {p}
    /\ registry' = [registry EXCEPT ![p] = Unknown]
    /\ Goes(p, Starting)
    /\ UNCHANGED <<dirs, disabled, published, wanted>>

Next == \E p \in Processes :
    \/ Reload(p) \/ ReadsDisabled(p) \/ ScansUser(p) \/ ScansProject(p)
    \/ Toggle(p) \/ ToggleLocks(p) \/ Toggles(p) \/ ToggleFails(p)
    \/ Install(p) \/ InstallLocks(p) \/ InstallRefused(p) \/ Stages(p) \/ MovesAside(p)
    \/ Publishes(p) \/ PublishedAndFails(p) \/ PublishFails(p)
    \/ Crashes(p)

Spec == Init /\ [][Next]_vars

-----------------------------------------------------------------------------
TypeOK ==
    /\ dirs \in [Places -> Contents \cup {Absent}]
    /\ disabled \subseteq Names
    /\ Cardinality(holder) <= 1
    /\ \A p \in Processes, n \in Names : registry[p][n] # Absent =>
           registry[p][n] \in [scope : Scopes, body : Contents, enabled : BOOLEAN]
    /\ steps \in 0..MaxSteps
    /\ orphaned \subseteq Places

(***************************************************************************)
(* A skill, once installed, is there, whole: a failed replacement brings   *)
(* the old one back, and only while a replacement is between its two       *)
(* renames, or after a crash exactly there, is the directory missing.      *)
(***************************************************************************)
Replacing(place) == \E p \in Processes :
    /\ op[p].at = "ready"
    /\ op[p].place = place
    /\ op[p].backup = published[place]
InstalledSkillsStay == \A place \in Places \ orphaned :
    published[place] # Absent => dirs[place] = published[place] \/ Replacing(place)

(***************************************************************************)
(* A name is disabled when the last toggle of it, or installation of it,   *)
(* said so: no process's toggle undoes another process's.                  *)
(***************************************************************************)
TogglesKept == disabled = wanted
=============================================================================
