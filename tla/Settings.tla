------------------------------ MODULE Settings ------------------------------
(***************************************************************************)
(* The user's configuration file (config.py): several CLI processes share  *)
(* one JSON file.  A process reads it once, when it starts, and lays the   *)
(* environment over it; a /config, /model or /approval command changes one *)
(* field of the process's copy and saves.  A save takes the lock file,     *)
(* reads the file again, lays over it the fields this process changed, and *)
(* publishes the result with one rename; a save that fails puts the        *)
(* process's copy back.  A field stands for a key of the file (a provider's *)
(* model, the approval mode ...), a value for a valid value of it.          *)
(***************************************************************************)
EXTENDS Naturals, FiniteSets

CONSTANTS Processes, Fields, Values,
          Unset,            \* no environment variable for a field
          MaxCommands       \* bound: the commands given
SettingsAssumption == Unset \notin Values /\ MaxCommands \in Nat

VARIABLES file,      \* the file: the value of every field
          conf,      \* each process's AppConfig
          step,      \* what each process's command is doing
          holder,    \* the processes that hold the lock file
          commands,
          asked      \* observer: what the last command to reach the file asked of each field

vars == <<file, conf, step, holder, commands, asked>>

Idle == [at |-> "idle"]

\* AppConfig's effective values, _loaded_values, _persisted_values, _dirty_values
AppConfig(mem, disk, dirty) ==
    [mem |-> mem, loaded |-> mem, persisted |-> disk, dirty |-> dirty]

\* AppConfig.load: the environment (with .env) wins over the file
Effective(env) == [f \in Fields |-> IF env[f] = Unset THEN file[f] ELSE env[f]]
Loaded(env) == AppConfig(Effective(env), file, {})

Changed(c, f) == f \in c.dirty \/ c.mem[f] # c.loaded[f]

\* _config_payload: a field nobody changed keeps its persisted value, so that
\* what the environment gave is not written down
Desired(c) == [f \in Fields |-> IF Changed(c, f) THEN c.mem[f] ELSE c.persisted[f]]

Everything(c, latest) == Desired(c)
OverEnvironment(c, latest) ==
    [f \in Fields |-> IF c.mem[f] # c.persisted[f] THEN c.mem[f] ELSE latest[f]]

\* _merge_config_payload: only the changed fields go over the latest file
Merged(c, latest) ==
    [f \in Fields |-> IF Changed(c, f) THEN Desired(c)[f] ELSE latest[f]]

Init ==
    /\ file \in [Fields -> Values]
    /\ asked = file
    /\ \E env \in [Processes -> [Fields -> Values \cup {Unset}]] :
          conf = [p \in Processes |-> Loaded(env[p])]
    /\ step = [p \in Processes |-> Idle]
    /\ holder = {}
    /\ commands = 0

Restarts(p) ==
    /\ step[p] = Idle
    /\ commands < MaxCommands
    /\ commands' = commands + 1
    /\ \E env \in [Fields -> Values \cup {Unset}] : conf' = [conf EXCEPT ![p] = Loaded(env)]
    /\ UNCHANGED <<file, step, holder, asked>>

\* A command sets a field of the copy and marks it dirty; the copy as it was is
\* kept for the rollback.
Command(p) ==
    /\ step[p] = Idle
    /\ commands < MaxCommands
    /\ commands' = commands + 1
    /\ \E f \in Fields, v \in Values :
          /\ conf' = [conf EXCEPT ![p].mem[f] = v, ![p].dirty = @ \cup {f}]
          /\ step' = [step EXCEPT ![p] =
                         [at |-> "saving", field |-> f, value |-> v, old |-> conf[p]]]
    /\ UNCHANGED <<file, holder, asked>>

\* _config_file_lock, then AppConfig.load(paths) again
Locks(p) ==
    /\ step[p].at = "saving"
    /\ holder = {}
    /\ holder' = {p}
    /\ step' = [step EXCEPT ![p] = [at |-> "publishing", field |-> @.field, value |-> @.value,
                                    old |-> @.old, latest |-> file]]
    /\ UNCHANGED <<file, conf, commands, asked>>

Replaced(p) ==
    /\ file' = Merged(conf[p], step[p].latest)
    /\ asked' = [asked EXCEPT ![step[p].field] = step[p].value]

Released(p) ==
    /\ holder' = holder \ {p}
    /\ step' = [step EXCEPT ![p] = Idle]
    /\ UNCHANGED commands

Publishes(p) ==
    /\ step[p].at = "publishing"
    /\ Replaced(p)
    /\ conf' = [conf EXCEPT ![p] = AppConfig(@.mem, file', {})]
    /\ Released(p)

\* the command's except clause: the value and the dirty set as they were
RolledBack(c, old) == [c EXCEPT !.mem = old.mem, !.dirty = old.dirty]

\* the directory, the lock, the second load, the temporary file or the rename fails
Refused(p) ==
    /\ step[p].at \in {"saving", "publishing"}
    /\ conf' = [conf EXCEPT ![p] = RolledBack(@, step[p].old)]
    /\ Released(p)
    /\ UNCHANGED <<file, asked>>

\* chmod fails after the rename: the file is new, the copy is put back
LateFails(p) ==
    /\ step[p].at = "publishing"
    /\ Replaced(p)
    /\ conf' = [conf EXCEPT ![p] = RolledBack(@, step[p].old)]
    /\ Released(p)

\* the process dies with its lock; another starts in its place
Crashes(p) ==
    /\ step[p] # Idle
    /\ \E env \in [Fields -> Values \cup {Unset}] : conf' = [conf EXCEPT ![p] = Loaded(env)]
    /\ Released(p)
    /\ UNCHANGED <<file, asked>>

Next == \E p \in Processes :
    Restarts(p) \/ Command(p) \/ Locks(p) \/ Publishes(p) \/ Refused(p) \/ LateFails(p) \/ Crashes(p)

Spec == Init /\ [][Next]_vars

-----------------------------------------------------------------------------
AppConfigs == [mem : [Fields -> Values], loaded : [Fields -> Values],
               persisted : [Fields -> Values], dirty : SUBSET Fields]
Steps == {Idle}
    \cup [at : {"saving"}, field : Fields, value : Values, old : AppConfigs]
    \cup [at : {"publishing"}, field : Fields, value : Values, old : AppConfigs,
          latest : [Fields -> Values]]

TypeOK ==
    /\ file \in [Fields -> Values]
    /\ asked \in [Fields -> Values]
    /\ conf \in [Processes -> AppConfigs]
    /\ step \in [Processes -> Steps]
    /\ holder \in SUBSET Processes
    /\ commands \in 0..MaxCommands

(***************************************************************************)
(* Every field of the file is what the last command that reached the file  *)
(* asked of it: a process that started long ago, or whose environment      *)
(* overrides a field, or whose earlier save failed, never writes a value   *)
(* nobody asked for over another process's.                                *)
(***************************************************************************)
FileIsWhatWasSet == file = asked

(***************************************************************************)
(* Between commands a process owes the file nothing: what its next save    *)
(* will write is the field that command sets and no other.                 *)
(***************************************************************************)
NothingOwed == \A p \in Processes :
    step[p] = Idle => \A f \in Fields : ~Changed(conf[p], f)
=============================================================================
