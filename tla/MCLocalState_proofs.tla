------------------------- MODULE MCLocalState_proofs -------------------------
(***************************************************************************)
(* Theorems about what the processes of one user share in files: the       *)
(* configuration (Settings), the skills (Skills), the long-term memory     *)
(* (Memory), the code index (CodeIndex) and the account of a WeChat        *)
(* channel (Binding).  MCLocalState runs one of them in each behaviour;    *)
(* here each one's properties are proved for every value of its constants, *)
(* from an inductive invariant of its own.                                 *)
(***************************************************************************)
EXTENDS MCLocalState, Sequences, SequenceTheorems, FiniteSetTheorems, WellFoundedInduction, TLAPS

localVars == <<part, vars, skillsVars, memoryVars, settingsVars, bindingVars, logsVars, tracesVars>>
-----------------------------------------------------------------------------
(*                       The configuration (Settings)                       *)

(* The copy of a process asks nothing of the file.                         *)
Clean(c) == \A f \in Fields : ~Configured!Changed(c, f)

(* What a command under way has done to its process's copy: one field set  *)
(* and marked, over a copy that owed nothing.                              *)
Commanded(c, s) ==
    /\ Clean(s.old)
    /\ c.mem = [s.old.mem EXCEPT ![s.field] = s.value]
    /\ c.dirty = s.old.dirty \cup {s.field}
    /\ c.loaded = s.old.loaded

CopyOf(c, s) == IF s.at = "idle" THEN Clean(c) ELSE Commanded(c, s)

CopyInv == \A p \in Processes : CopyOf(conf[p], step[p])

(* Whoever publishes holds the lock alone, and the file is as it read it.  *)
LockInv ==
    /\ \A p \in Processes : p \in locked <=> step[p].at = "publishing"
    /\ \A p, q \in locked : p = q
    /\ \A p \in locked : step[p].latest = file

SettingsInv == Configured!TypeOK /\ CopyInv /\ LockInv /\ Configured!FileIsWhatWasSet

(* A fresh copy is clean: what it has in memory is what it loaded.         *)
LEMMA LoadedClean ==
    ASSUME NEW env \in [Fields -> Values \cup {Unset}], file \in [Fields -> Values]
    PROVE  Configured!Loaded(env) \in Configured!AppConfigs /\ Clean(Configured!Loaded(env))
BY DEF Configured!Loaded, Configured!Effective, Configured!AppConfig, Configured!AppConfigs,
       Clean, Configured!Changed

(* Every process starts with a clean copy of the file.                     *)
LEMMA SettingsInit == Configured!Init => SettingsInv
<1> SUFFICES ASSUME Configured!Init PROVE SettingsInv
  OBVIOUS
<1> USE DEF Configured!Init
<1>1. PICK env \in [Processes -> [Fields -> Values \cup {Unset}]] :
        conf = [p \in Processes |-> Configured!Loaded(env[p])]
  OBVIOUS
<1>2. \A p \in Processes : conf[p] \in Configured!AppConfigs /\ Clean(conf[p])
  BY <1>1, LoadedClean
<1>3. \A p \in Processes : step[p] = Configured!Idle /\ step[p].at = "idle"
  BY DEF Configured!Idle
<1>4. 0 \in 0..MaxCommands
  BY LocalAssumption DEF Configured!SettingsAssumption
<1>5. Configured!TypeOK
  BY <1>1, <1>2, <1>3, <1>4 DEF Configured!TypeOK, Configured!Steps, Configured!Idle
<1>6. CopyInv /\ LockInv /\ Configured!FileIsWhatWasSet
  BY <1>2, <1>3 DEF CopyInv, CopyOf, LockInv, Configured!FileIsWhatWasSet
<1>. QED
  BY <1>5, <1>6 DEF SettingsInv

(* A step's place tells its fields.                                        *)
LEMMA StepFields ==
    ASSUME Configured!TypeOK, NEW p \in Processes, step[p].at # "idle"
    PROVE  /\ step[p].at \in {"saving", "publishing"}
           /\ step[p].field \in Fields /\ step[p].value \in Values
           /\ step[p].old \in Configured!AppConfigs
           /\ step[p].at = "publishing" => step[p].latest \in [Fields -> Values]
BY DEF Configured!TypeOK, Configured!Steps, Configured!Idle

(* Laid over the file as it is, a command's copy changes its field only.   *)
LEMMA MergedIsAsked ==
    ASSUME Configured!TypeOK, CopyInv, LockInv, Configured!FileIsWhatWasSet,
           NEW p \in Processes, step[p].at = "publishing", Configured!Replaced(p)
    PROVE  file' = asked' /\ file' \in [Fields -> Values]
<1> DEFINE f == step[p].field
           c == conf[p]
           old == step[p].old
<1>1. /\ f \in Fields /\ step[p].value \in Values /\ step[p].latest = file
      /\ old \in Configured!AppConfigs /\ c \in Configured!AppConfigs
      /\ p \in locked
  BY StepFields DEF LockInv, Configured!TypeOK
<1>2. Commanded(c, step[p])
  BY DEF CopyInv, CopyOf
<1>3. Configured!Changed(c, f) /\ c.mem[f] = step[p].value
  BY <1>1, <1>2 DEF Commanded, Configured!Changed, Configured!AppConfigs
<1>4. \A g \in Fields : g # f => ~Configured!Changed(c, g)
  BY <1>1, <1>2 DEF Commanded, Clean, Configured!Changed, Configured!AppConfigs
<1>5. file' = [g \in Fields |-> IF g = f THEN step[p].value ELSE file[g]]
  BY <1>1, <1>3, <1>4 DEF Configured!Replaced, Configured!Merged, Configured!Desired
<1>6. asked' = [g \in Fields |-> IF g = f THEN step[p].value ELSE file[g]]
  BY <1>1 DEF Configured!Replaced, Configured!FileIsWhatWasSet, Configured!TypeOK
<1>. QED
  BY <1>1, <1>5, <1>6 DEF Configured!TypeOK

(* Every command leaves the copies clean or under a command, the lock with *)
(* its holder, and the file as asked.                                      *)
LEMMA SettingsStep == SettingsInv /\ [Configured!Next]_settingsVars => SettingsInv'
<1> SUFFICES ASSUME SettingsInv, [Configured!Next]_settingsVars PROVE SettingsInv'
  OBVIOUS
<1> USE DEF SettingsInv
<1>0. ASSUME NEW p \in Processes, step' = [step EXCEPT ![p] = Configured!Idle],
             conf' = [conf EXCEPT ![p] = conf'[p]], Clean(conf'[p]),
             conf'[p] \in Configured!AppConfigs,
             locked' = locked \ {p}, UNCHANGED commands,
             \/ UNCHANGED <<file, asked>>
             \/ p \in locked /\ file' = asked' /\ file' \in [Fields -> Values]
      PROVE  SettingsInv'
  <2>1. Configured!TypeOK'
    BY <1>0 DEF Configured!TypeOK, Configured!Steps, Configured!FileIsWhatWasSet
  <2>2. CopyInv'
    BY <1>0 DEF CopyInv, CopyOf, Configured!TypeOK, Configured!Idle
  <2>3. LockInv'
    BY <1>0 DEF LockInv, Configured!TypeOK, Configured!Idle
  <2>4. Configured!FileIsWhatWasSet'
    BY <1>0 DEF Configured!FileIsWhatWasSet
  <2>. QED
    BY <2>1, <2>2, <2>3, <2>4
<1>Restarts. ASSUME NEW p \in Processes, Configured!Restarts(p) PROVE SettingsInv'
  <2>1. PICK env \in [Fields -> Values \cup {Unset}] :
          conf' = [conf EXCEPT ![p] = Configured!Loaded(env)]
    BY <1>Restarts DEF Configured!Restarts
  <2>2. Configured!Loaded(env) \in Configured!AppConfigs /\ Clean(Configured!Loaded(env))
    BY LoadedClean DEF Configured!TypeOK
  <2>3. /\ UNCHANGED <<file, step, locked, asked>> /\ step[p].at = "idle"
        /\ commands' \in 0..MaxCommands
    BY <1>Restarts, LocalAssumption
       DEF Configured!Restarts, Configured!Idle, Configured!TypeOK, Configured!SettingsAssumption
  <2>4. Configured!TypeOK'
    BY <2>1, <2>2, <2>3 DEF Configured!TypeOK, Configured!Steps
  <2>5. CopyInv'
    BY <2>1, <2>2, <2>3 DEF CopyInv, CopyOf, Configured!TypeOK
  <2>. QED
    BY <2>3, <2>4, <2>5 DEF LockInv, Configured!FileIsWhatWasSet
<1>Command. ASSUME NEW p \in Processes, Configured!Command(p) PROVE SettingsInv'
  <2>1. PICK f \in Fields, v \in Values :
          /\ conf' = [conf EXCEPT ![p].mem[f] = v, ![p].dirty = @ \cup {f}]
          /\ step' = [step EXCEPT ![p] =
                         [at |-> "saving", field |-> f, value |-> v, old |-> conf[p]]]
    BY <1>Command DEF Configured!Command
  <2>2. /\ UNCHANGED <<file, locked, asked>> /\ step[p].at = "idle" /\ Clean(conf[p])
        /\ commands' \in 0..MaxCommands /\ conf[p] \in Configured!AppConfigs
    BY <1>Command, LocalAssumption
       DEF Configured!Command, Configured!Idle, Configured!TypeOK, Configured!SettingsAssumption,
           CopyInv, CopyOf
  <2>3. /\ conf'[p] = [conf[p] EXCEPT !.mem = [conf[p].mem EXCEPT ![f] = v],
                                      !.dirty = conf[p].dirty \cup {f}]
        /\ \A q \in Processes \ {p} : conf'[q] = conf[q] /\ step'[q] = step[q]
        /\ step'[p] = [at |-> "saving", field |-> f, value |-> v, old |-> conf[p]]
    BY <2>1, <2>2 DEF Configured!TypeOK, Configured!AppConfigs
  <2>4. Configured!TypeOK'
    <3>1. conf'[p] \in Configured!AppConfigs
      <4>1. [conf[p].mem EXCEPT ![f] = v] \in [Fields -> Values]
        BY <2>2 DEF Configured!AppConfigs
      <4>2. conf[p].dirty \cup {f} \in SUBSET Fields
        BY <2>2 DEF Configured!AppConfigs
      <4>. QED
        BY <2>2, <2>3, <4>1, <4>2 DEF Configured!AppConfigs
    <3>2. step'[p] \in Configured!Steps
      BY <2>2, <2>3 DEF Configured!Steps
    <3>. QED
      BY <2>1, <2>2, <3>1, <3>2 DEF Configured!TypeOK
  <2>5. CopyInv'
    <3>1. Commanded(conf[p], step[p])'
      BY <2>2, <2>3 DEF Commanded, Clean, Configured!Changed, Configured!AppConfigs
    <3>2. CopyOf(conf'[p], step'[p])
      BY <2>3, <3>1 DEF CopyOf
    <3>. QED
      BY <2>3, <3>2 DEF CopyInv
  <2>6. LockInv'
    BY <2>2, <2>3 DEF LockInv, Configured!TypeOK
  <2>. QED
    BY <2>2, <2>4, <2>5, <2>6 DEF Configured!FileIsWhatWasSet
<1>Locks. ASSUME NEW p \in Processes, Configured!Locks(p) PROVE SettingsInv'
  <2>1. /\ step[p].at = "saving" /\ locked = {} /\ locked' = {p}
        /\ step' = [step EXCEPT ![p] =
              [at |-> "publishing", field |-> step[p].field, value |-> step[p].value,
               old |-> step[p].old, latest |-> file]]
        /\ UNCHANGED <<file, conf, commands, asked>>
    BY <1>Locks DEF Configured!Locks, Configured!TypeOK
  <2>2. Configured!TypeOK'
    BY <2>1, StepFields DEF Configured!TypeOK, Configured!Steps
  <2>3. CopyInv'
    <3>1. CopyOf(conf'[p], step'[p])
      BY <2>1 DEF CopyInv, CopyOf, Commanded, Configured!TypeOK
    <3>. QED
      BY <2>1, <3>1 DEF CopyInv, Configured!TypeOK
  <2>4. LockInv'
    BY <2>1 DEF LockInv, Configured!TypeOK
  <2>. QED
    BY <2>1, <2>2, <2>3, <2>4 DEF Configured!FileIsWhatWasSet
<1>1. ASSUME NEW p \in Processes, step[p].at # "idle"
      PROVE  LET back == Configured!RolledBack(conf[p], step[p].old)
             IN  back \in Configured!AppConfigs /\ Clean(back)
  <2>1. Commanded(conf[p], step[p]) /\ conf[p] \in Configured!AppConfigs
    BY <1>1 DEF CopyInv, CopyOf, Configured!TypeOK
  <2>2. step[p].old \in Configured!AppConfigs
    BY <1>1, StepFields
  <2>. QED
    BY <2>1, <2>2 DEF Configured!RolledBack, Configured!AppConfigs, Commanded, Clean,
                      Configured!Changed
<1>Publishes. ASSUME NEW p \in Processes, Configured!Publishes(p) PROVE SettingsInv'
  <2>1. file' = asked' /\ file' \in [Fields -> Values] /\ p \in locked
    BY <1>Publishes, MergedIsAsked DEF Configured!Publishes, LockInv
  <2>2. conf[p] \in Configured!AppConfigs
    BY DEF Configured!TypeOK
  <2>3. /\ conf'[p] \in Configured!AppConfigs /\ Clean(conf'[p])
        /\ conf' = [conf EXCEPT ![p] = conf'[p]]
    BY <1>Publishes, <2>1, <2>2
       DEF Configured!Publishes, Configured!AppConfig, Configured!AppConfigs, Clean,
           Configured!Changed, Configured!TypeOK
  <2>. QED
    BY <1>0, <1>Publishes, <2>1, <2>3 DEF Configured!Publishes, Configured!Released
<1>Refused. ASSUME NEW p \in Processes, Configured!Refused(p) \/ Configured!LateFails(p)
            PROVE  SettingsInv'
  <2>1. /\ step[p].at # "idle"
        /\ conf' = [conf EXCEPT ![p] = Configured!RolledBack(conf[p], step[p].old)]
        /\ Configured!Released(p)
    BY <1>Refused DEF Configured!Refused, Configured!LateFails, Configured!TypeOK
  <2>2. /\ conf'[p] \in Configured!AppConfigs /\ Clean(conf'[p])
        /\ conf' = [conf EXCEPT ![p] = conf'[p]]
    BY <1>1, <2>1 DEF Configured!TypeOK
  <2>3. \/ UNCHANGED <<file, asked>>
        \/ p \in locked /\ file' = asked' /\ file' \in [Fields -> Values]
    BY <1>Refused, MergedIsAsked DEF Configured!Refused, Configured!LateFails, LockInv
  <2>. QED
    BY <1>0, <2>1, <2>2, <2>3 DEF Configured!Released
<1>Crashes. ASSUME NEW p \in Processes, Configured!Crashes(p) PROVE SettingsInv'
  <2>1. PICK env \in [Fields -> Values \cup {Unset}] :
          conf' = [conf EXCEPT ![p] = Configured!Loaded(env)]
    BY <1>Crashes DEF Configured!Crashes
  <2>2. Configured!Loaded(env) \in Configured!AppConfigs /\ Clean(Configured!Loaded(env))
    BY LoadedClean DEF Configured!TypeOK
  <2>3. /\ conf'[p] \in Configured!AppConfigs /\ Clean(conf'[p])
        /\ conf' = [conf EXCEPT ![p] = conf'[p]]
    BY <2>1, <2>2 DEF Configured!TypeOK
  <2>. QED
    BY <1>0, <1>Crashes, <2>3 DEF Configured!Crashes, Configured!Released
<1>u. CASE UNCHANGED settingsVars
  BY <1>u DEF settingsVars, Configured!TypeOK, CopyInv, LockInv, Configured!FileIsWhatWasSet
<1>. QED
  BY <1>Restarts, <1>Command, <1>Locks, <1>Publishes, <1>Refused, <1>Crashes, <1>u
     DEF Configured!Next

(* Every field of the file is what the last command that reached it asked, *)
(* and between commands no process owes the file anything, however many    *)
(* processes share it.                                                     *)
THEOREM SettingsKeptHolds == LocalSpec => []SettingsKept
<1> DEFINE Inv == part = "settings" => SettingsInv
<1>1. LocalInit => Inv
  BY SettingsInit DEF LocalInit
<1>2. Inv /\ [LocalNext]_localVars => Inv'
  <2>1. ASSUME Inv, LocalNext, part' = "settings" PROVE SettingsInv'
    BY <2>1, SettingsStep DEF LocalNext
  <2>2. ASSUME Inv, UNCHANGED localVars, part' = "settings" PROVE SettingsInv'
    BY <2>2, SettingsStep DEF localVars
  <2>. QED
    BY <2>1, <2>2
<1>3. Inv => SettingsKept
  BY DEF SettingsKept, SettingsInv, CopyInv, CopyOf, Configured!NothingOwed, Clean, Configured!Idle
<1>. QED
  BY <1>1, <1>2, <1>3, PTL DEF LocalSpec, localVars
-----------------------------------------------------------------------------
(*                             The skills (Skills)                          *)

Found == [scope : Skilled!Scopes, body : Contents, enabled : BOOLEAN]
Registries == [Names -> Found \cup {Absent}]
Targets == {Skilled!Idle} \cup [scope : Skilled!Scopes, name : Names]

(* What a process's command may be at.                                     *)
Readings == [at : {"reading"}, then : Targets]
Scans == [at : {"scanning", "scanned"}, then : Targets, off : SUBSET Names, found : Registries]
Toggling == [at : {"toggling", "toggle"}, name : Names, on : BOOLEAN, install : BOOLEAN]
Installing == [at : {"installing", "locked", "staged", "ready"}, place : Skilled!Places,
               content : Contents, force : BOOLEAN, backup : Contents \cup {Absent}]
SkillCommands == {Skilled!Idle} \cup Readings \cup Scans \cup Toggling \cup Installing

SkillTypes ==
    /\ dirs \in [Skilled!Places -> Contents \cup {Absent}]
    /\ published \in [Skilled!Places -> Contents \cup {Absent}]
    /\ disabled \in SUBSET Names /\ wanted \in SUBSET Names
    /\ registry \in [Processes -> Registries]
    /\ op \in [Processes -> SkillCommands]
    /\ steps \in 0..MaxSteps
    /\ orphaned \in SUBSET Skilled!Places

(* The state lock has one holder: the process at a place under the lock.   *)
UnderLock == {"toggle", "locked", "staged", "ready"}
HolderInv ==
    /\ holder \in {{}} \cup {{p} : p \in Processes}
    /\ \A p \in Processes : p \in holder <=> op[p].at \in UnderLock

(* A toggle is of a skill that the process has in its registry.            *)
ToggleInv == \A p \in Processes :
    op[p].at \in {"toggling", "toggle"} => registry[p][op[p].name] # Absent

(* Before its rename an installer has moved aside what was last published  *)
(* there, or nothing that counts was.                                      *)
ReadyInv == \A p \in Processes : op[p].at = "ready" =>
    \/ op[p].place \in orphaned
    \/ published[op[p].place] = Absent
    \/ op[p].backup = published[op[p].place]

SkillsInv ==
    /\ SkillTypes /\ HolderInv /\ ToggleInv /\ ReadyInv
    /\ Skilled!InstalledSkillsStay /\ Skilled!TogglesKept

(* Where a command is tells its fields.                                    *)
LEMMA CommandFields ==
    ASSUME NEW o \in SkillCommands
    PROVE  /\ o = Skilled!Idle <=> o.at = "idle"
           /\ o.at = "reading" => o \in Readings
           /\ o.at \in {"scanning", "scanned"} => o \in Scans
           /\ o.at \in {"toggling", "toggle"} => o \in Toggling
           /\ o.at \in {"installing", "locked", "staged", "ready"} => o \in Installing
BY DEF SkillCommands, Readings, Scans, Toggling, Installing, Skilled!Idle

(* What a registry finds in a scope is a registry.                         *)
LEMMA ScannedType ==
    ASSUME SkillTypes, NEW p \in Processes, op[p] \in Scans, NEW scope \in Skilled!Scopes
    PROVE  Skilled!Scanned(p, scope) \in Registries
<1>1. \A n \in Names : <<scope, n>> \in Skilled!Places
  BY DEF Skilled!Places
<1>2. \A n \in Names : dirs[<<scope, n>>] # Absent => Skilled!Skill(p, scope, n) \in Found
  BY <1>1 DEF SkillTypes, Skilled!Skill, Found
<1>3. op[p].found \in Registries
  BY DEF Scans
<1>. QED
  BY <1>2, <1>3 DEF Skilled!Scanned, Registries

(* Every process starts idle with the skills as they are.                  *)
LEMMA SkillsInit == Skilled!Init => SkillsInv
<1> SUFFICES ASSUME Skilled!Init PROVE SkillsInv
  OBVIOUS
<1> USE DEF Skilled!Init
<1>1. dirs \in [Skilled!Places -> Contents \cup {Absent}]
  OBVIOUS
<1>2. \A p \in Processes : op[p] = Skilled!Idle /\ op[p].at = "idle"
  BY DEF Skilled!Idle
<1>3. registry \in [Processes -> Registries]
  <2>1. \A n \in Names : <<"user", n>> \in Skilled!Places /\ <<"project", n>> \in Skilled!Places
    BY DEF Skilled!Places, Skilled!Scopes
  <2>2. Skilled!Read \in Registries
    BY <1>1, <2>1 DEF Skilled!Read, Registries, Found, Skilled!Scopes
  <2>. QED
    BY <2>2
<1>4. 0 \in 0..MaxSteps
  BY LocalAssumption DEF Skilled!SkillsAssumption
<1>5. SkillTypes
  BY <1>1, <1>3, <1>4 DEF SkillTypes, SkillCommands
<1>6. HolderInv /\ ToggleInv /\ ReadyInv
  BY <1>2 DEF HolderInv, ToggleInv, ReadyInv, UnderLock
<1>. QED
  BY <1>5, <1>6 DEF SkillsInv, Skilled!InstalledSkillsStay, Skilled!TogglesKept

(* A step of one process.                                                  *)
SkillMove(p) ==
    \/ Skilled!Reload(p) \/ Skilled!ReadsDisabled(p) \/ Skilled!ScansUser(p)
    \/ Skilled!ScansProject(p) \/ Skilled!Toggle(p) \/ Skilled!ToggleLocks(p)
    \/ Skilled!Toggles(p) \/ Skilled!ToggleFails(p) \/ Skilled!Install(p)
    \/ Skilled!InstallLocks(p) \/ Skilled!InstallRefused(p) \/ Skilled!Stages(p)
    \/ Skilled!MovesAside(p) \/ Skilled!Publishes(p) \/ Skilled!PublishedAndFails(p)
    \/ Skilled!PublishFails(p) \/ Skilled!Crashes(p)

(* Every action keeps directories, registries and commands in their types. *)
LEMMA SkillTypesStep ==
    ASSUME SkillTypes, ToggleInv, NEW p \in Processes,
           SkillMove(p)
    PROVE  SkillTypes' /\ op' = [op EXCEPT ![p] = op'[p]]
<1> USE DEF SkillTypes, Skilled!Goes, Skilled!Begins
<1>0. op[p] \in SkillCommands
  OBVIOUS
<1>i. Skilled!Idle \in SkillCommands /\ Skilled!Idle \in Targets
  BY DEF SkillCommands, Targets
<1>s. steps < MaxSteps => steps + 1 \in 0..MaxSteps
  BY LocalAssumption DEF Skilled!SkillsAssumption
<1>Reload. CASE Skilled!Reload(p)
  <2>1. Skilled!Starting \in SkillCommands
    BY <1>i DEF Skilled!Starting, SkillCommands, Readings
  <2>. QED
    BY <1>Reload, <1>s, <2>1 DEF Skilled!Reload
<1>ReadsDisabled. CASE Skilled!ReadsDisabled(p)
  <2>1. op[p].then \in Targets
    BY <1>0, <1>ReadsDisabled, CommandFields DEF Skilled!ReadsDisabled, Readings
  <2>2. Skilled!Unknown \in Registries
    BY DEF Skilled!Unknown, Registries
  <2>3. [at |-> "scanning", then |-> op[p].then, off |-> disabled, found |-> Skilled!Unknown]
          \in SkillCommands
    BY <2>1, <2>2 DEF SkillCommands, Scans
  <2>. QED
    BY <1>ReadsDisabled, <2>3 DEF Skilled!ReadsDisabled
<1>ScansUser. CASE Skilled!ScansUser(p)
  <2>1. op[p] \in Scans
    BY <1>0, <1>ScansUser, CommandFields DEF Skilled!ScansUser
  <2>2. Skilled!Scanned(p, "user") \in Registries
    BY <2>1, ScannedType DEF Skilled!Scopes
  <2>3. [op[p] EXCEPT !.at = "scanned", !.found = Skilled!Scanned(p, "user")] \in Scans
    BY <2>1, <2>2 DEF Scans
  <2>. QED
    BY <1>ScansUser, <2>3 DEF Skilled!ScansUser, SkillCommands
<1>ScansProject. CASE Skilled!ScansProject(p)
  <2>1. op[p] \in Scans
    BY <1>0, <1>ScansProject, CommandFields DEF Skilled!ScansProject
  <2>2. Skilled!Scanned(p, "project") \in Registries
    BY <2>1, ScannedType DEF Skilled!Scopes
  <2>3. op[p].then # Skilled!Idle => op[p].then.name \in Names
    BY <2>1 DEF Scans, Targets
  <2>4. op[p].then # Skilled!Idle =>
          [at |-> "toggling", name |-> op[p].then.name, on |-> TRUE, install |-> TRUE]
            \in SkillCommands
    BY <2>3 DEF SkillCommands, Toggling
  <2> DEFINE found == Skilled!Scanned(p, "project")
  <2>5. /\ registry' = [registry EXCEPT ![p] = found]
        /\ op'[p] \in SkillCommands /\ op' = [op EXCEPT ![p] = op'[p]]
    <3> HIDE DEF found
    <3>. QED
      BY <1>ScansProject, <1>i, <2>4 DEF Skilled!ScansProject, found
  <2>. QED
    BY <1>ScansProject, <2>2, <2>5 DEF Skilled!ScansProject
<1>Toggle. CASE Skilled!Toggle(p)
  <2>1. PICK n \in Names, on \in BOOLEAN :
          Skilled!Begins(p, [at |-> "toggling", name |-> n, on |-> on, install |-> FALSE])
    BY <1>Toggle DEF Skilled!Toggle
  <2>2. [at |-> "toggling", name |-> n, on |-> on, install |-> FALSE] \in SkillCommands
    BY DEF SkillCommands, Toggling
  <2>. QED
    BY <1>s, <2>1, <2>2
<1>ToggleLocks. CASE Skilled!ToggleLocks(p)
  <2>1. op[p] \in Toggling
    BY <1>0, <1>ToggleLocks, CommandFields DEF Skilled!ToggleLocks
  <2>2. [op[p] EXCEPT !.at = "toggle"] \in Toggling
    BY <2>1 DEF Toggling
  <2>. QED
    BY <1>ToggleLocks, <2>2 DEF Skilled!ToggleLocks, Skilled!Locks, SkillCommands
<1>Toggles. CASE Skilled!Toggles(p)
  <2>1. op[p] \in Toggling /\ registry[p][op[p].name] # Absent
    BY <1>0, <1>Toggles, CommandFields DEF Skilled!Toggles, ToggleInv
  <2>2. op[p].name \in Names /\ op[p].on \in BOOLEAN
    BY <2>1 DEF Toggling
  <2>3. registry[p] \in Registries /\ registry[p][op[p].name] \in Found
    BY <2>1, <2>2 DEF Registries
  <2>4. [registry[p] EXCEPT ![op[p].name].enabled = op[p].on] \in Registries
    BY <2>2, <2>3 DEF Registries, Found
  <2>5. [at |-> "reading", then |-> Skilled!Idle] \in SkillCommands
    BY <1>i DEF SkillCommands, Readings
  <2>6. registry' \in [Processes -> Registries]
    BY <1>Toggles, <2>4 DEF Skilled!Toggles
  <2>7. disabled' \in SUBSET Names /\ wanted' \in SUBSET Names
    BY <1>Toggles, <2>2 DEF Skilled!Toggles, Skilled!Toggled, Skilled!Without
  <2>. QED
    BY <1>Toggles, <1>i, <2>5, <2>6, <2>7 DEF Skilled!Toggles
<1>ToggleFails. CASE Skilled!ToggleFails(p)
  BY <1>ToggleFails, <1>i DEF Skilled!ToggleFails
<1>Install. CASE Skilled!Install(p)
  <2>1. PICK place \in Skilled!Places, c \in Contents, force \in BOOLEAN :
          Skilled!Begins(p, [at |-> "installing", place |-> place, content |-> c,
                             force |-> force, backup |-> Absent])
    BY <1>Install DEF Skilled!Install
  <2>2. [at |-> "installing", place |-> place, content |-> c, force |-> force, backup |-> Absent]
          \in SkillCommands
    BY DEF SkillCommands, Installing
  <2>. QED
    BY <1>s, <2>1, <2>2
<1>1. ASSUME op[p].at \in {"installing", "locked", "staged", "ready"}
      PROVE  /\ op[p] \in Installing /\ op[p].place \in Skilled!Places
             /\ op[p].content \in Contents /\ op[p].backup \in Contents \cup {Absent}
  <2>1. op[p] \in Installing
    BY <1>0, <1>1, CommandFields
  <2>. QED
    BY <2>1 DEF Installing
<1>InstallLocks. CASE Skilled!InstallLocks(p)
  <2>1. [op[p] EXCEPT !.at = "locked"] \in Installing
    BY <1>1, <1>InstallLocks DEF Skilled!InstallLocks, Installing
  <2>. QED
    BY <1>InstallLocks, <2>1 DEF Skilled!InstallLocks, Skilled!Locks, SkillCommands
<1>InstallRefused. CASE Skilled!InstallRefused(p)
  BY <1>InstallRefused, <1>i DEF Skilled!InstallRefused, Skilled!Fails
<1>Stages. CASE Skilled!Stages(p)
  <2>1. \A at \in {"ready", "staged"} : [op[p] EXCEPT !.at = at] \in Installing
    BY <1>1, <1>Stages DEF Skilled!Stages, Installing
  <2>. QED
    BY <1>Stages, <2>1 DEF Skilled!Stages, SkillCommands
<1>MovesAside. CASE Skilled!MovesAside(p)
  <2>0. dirs[op[p].place] \in Contents \cup {Absent}
    BY <1>1, <1>MovesAside DEF Skilled!MovesAside
  <2>1. [op[p] EXCEPT !.at = "ready", !.backup = dirs[op[p].place]] \in Installing
    BY <1>1, <1>MovesAside, <2>0 DEF Skilled!MovesAside, Installing
  <2>. QED
    BY <1>MovesAside, <2>1 DEF Skilled!MovesAside, SkillCommands
<1>Publishes. CASE Skilled!Publishes(p)
  <2>1. op[p].place[1] \in Skilled!Scopes /\ op[p].place[2] \in Names
    BY <1>1, <1>Publishes DEF Skilled!Publishes, Skilled!Places
  <2>2. [at |-> "reading", then |-> [scope |-> op[p].place[1], name |-> op[p].place[2]]]
          \in SkillCommands
    BY <2>1 DEF SkillCommands, Readings, Targets
  <2>. QED
    BY <1>1, <1>Publishes, <2>2 DEF Skilled!Publishes, Skilled!Renamed
<1>PublishedAndFails. CASE Skilled!PublishedAndFails(p)
  BY <1>1, <1>i, <1>PublishedAndFails
     DEF Skilled!PublishedAndFails, Skilled!Renamed, Skilled!Fails
<1>PublishFails. CASE Skilled!PublishFails(p)
  BY <1>1, <1>i, <1>PublishFails DEF Skilled!PublishFails, Skilled!PutBack, Skilled!Fails
<1>Crashes. CASE Skilled!Crashes(p)
  <2>1. Skilled!Starting \in SkillCommands
    BY <1>i DEF Skilled!Starting, SkillCommands, Readings
  <2>2. Skilled!Unknown \in Registries
    BY DEF Skilled!Unknown, Registries
  <2>3. orphaned' \in SUBSET Skilled!Places
    BY <1>1, <1>Crashes DEF Skilled!Crashes
  <2>. QED
    BY <1>s, <1>Crashes, <2>1, <2>2, <2>3 DEF Skilled!Crashes
<1>. QED
  BY <1>Reload, <1>ReadsDisabled, <1>ScansUser, <1>ScansProject, <1>Toggle, <1>ToggleLocks,
     <1>Toggles, <1>ToggleFails, <1>Install, <1>InstallLocks, <1>InstallRefused, <1>Stages,
     <1>MovesAside, <1>Publishes, <1>PublishedAndFails, <1>PublishFails, <1>Crashes DEF SkillMove

(* An installation goes from step to step under the lock, its place and    *)
(* content with it.                                                        *)
LEMMA InstallMoves ==
    ASSUME SkillTypes, NEW p \in Processes
    PROVE  /\ Skilled!InstallLocks(p) => op'[p].at = "locked"
           /\ Skilled!Stages(p) =>
                 /\ op'[p].at = IF dirs[op[p].place] = Absent THEN "ready" ELSE "staged"
                 /\ op'[p].place = op[p].place
           /\ Skilled!MovesAside(p) =>
                 /\ op'[p].at = "ready" /\ op'[p].place = op[p].place
                 /\ op'[p].backup = dirs[op[p].place]
<1> USE DEF SkillTypes, Skilled!Goes
<1>1. ASSUME op[p].at \in {"installing", "locked", "staged"} PROVE op[p] \in Installing
  BY <1>1, CommandFields
<1>2. CASE Skilled!InstallLocks(p)
  BY <1>1, <1>2 DEF Skilled!InstallLocks, Skilled!Locks, Skilled!Stages, Skilled!MovesAside,
                    Installing
<1>3. CASE Skilled!Stages(p)
  <2>1. op[p] \in Installing /\ op[p].at = "locked"
    BY <1>1, <1>3 DEF Skilled!Stages
  <2>2. op'[p] = [op[p] EXCEPT !.at = IF dirs[op[p].place] = Absent THEN "ready" ELSE "staged"]
    BY <1>3 DEF Skilled!Stages
  <2>3. /\ op'[p].at = IF dirs[op[p].place] = Absent THEN "ready" ELSE "staged"
        /\ op'[p].place = op[p].place
    BY <2>1, <2>2 DEF Installing
  <2>. QED
    BY <2>1, <2>3 DEF Skilled!InstallLocks, Skilled!MovesAside
<1>4. CASE Skilled!MovesAside(p)
  <2>1. op[p] \in Installing /\ op[p].at = "staged"
    BY <1>1, <1>4 DEF Skilled!MovesAside
  <2>2. op'[p] = [op[p] EXCEPT !.at = "ready", !.backup = dirs[op[p].place]]
    BY <1>4 DEF Skilled!MovesAside
  <2>3. /\ op'[p].at = "ready" /\ op'[p].place = op[p].place
        /\ op'[p].backup = dirs[op[p].place]
    BY <2>1, <2>2 DEF Installing
  <2>. QED
    BY <2>1, <2>3 DEF Skilled!InstallLocks, Skilled!Stages
<1>. QED
  BY <1>2, <1>3, <1>4

(* The lock is taken when it is free, and given back by who leaves it.     *)
LEMMA HolderStep ==
    ASSUME SkillTypes, ToggleInv, HolderInv, NEW p \in Processes, SkillMove(p)
    PROVE  HolderInv'
<1>1. op' = [op EXCEPT ![p] = op'[p]] /\ op'[p] \in SkillCommands /\ op[p] \in SkillCommands
  BY SkillTypesStep DEF SkillTypes
<1>2. \/ /\ UNCHANGED holder
         /\ op'[p].at \in UnderLock <=> op[p].at \in UnderLock
      \/ holder = {} /\ holder' = {p} /\ op'[p].at \in UnderLock
      \/ holder' = holder \ {p} /\ op'[p].at \notin UnderLock
  <2> USE <1>1 DEF Skilled!Goes, UnderLock, SkillTypes
  <2>1. CASE Skilled!Reload(p) \/ Skilled!Toggle(p) \/ Skilled!Install(p)
    BY <2>1 DEF Skilled!Reload, Skilled!Toggle, Skilled!Install, Skilled!Begins,
                Skilled!Starting, Skilled!Idle
  <2>2. CASE Skilled!ReadsDisabled(p) \/ Skilled!ScansProject(p)
    BY <2>2 DEF Skilled!ReadsDisabled, Skilled!ScansProject, Skilled!Idle
  <2>3. CASE Skilled!ScansUser(p)
    <3>1. op[p].at = "scanned" \/ op'[p].at = "scanned"
      <4>1. op[p] \in Scans
        BY <2>3, CommandFields DEF Skilled!ScansUser
      <4>. QED
        BY <2>3, <4>1 DEF Skilled!ScansUser, Scans
    <3>. QED
      BY <2>3, <3>1 DEF Skilled!ScansUser
  <2>4. CASE Skilled!ToggleLocks(p)
    <3>1. op[p] \in Toggling
      BY <2>4, CommandFields DEF Skilled!ToggleLocks
    <3>. QED
      BY <2>4, <3>1 DEF Skilled!ToggleLocks, Skilled!Locks, Toggling
  <2>5. CASE Skilled!InstallLocks(p)
    <3>1. op[p] \in Installing
      BY <2>5, CommandFields DEF Skilled!InstallLocks
    <3>. QED
      BY <2>5, <3>1 DEF Skilled!InstallLocks, Skilled!Locks, Installing
  <2>6. CASE Skilled!Stages(p) \/ Skilled!MovesAside(p)
    <3>1. op[p] \in Installing /\ op[p].at \in UnderLock
      BY <2>6, CommandFields DEF Skilled!Stages, Skilled!MovesAside
    <3>2. op'[p].at \in UnderLock
      BY <2>6, <3>1, InstallMoves
    <3>. QED
      BY <2>6, <3>1, <3>2 DEF Skilled!Stages, Skilled!MovesAside
  <2>7. CASE Skilled!Toggles(p) \/ Skilled!ToggleFails(p)
    BY <2>7 DEF Skilled!Toggles, Skilled!ToggleFails, Skilled!Unlocks, Skilled!Idle
  <2>8. CASE \/ Skilled!InstallRefused(p) \/ Skilled!Publishes(p)
             \/ Skilled!PublishedAndFails(p) \/ Skilled!PublishFails(p)
    BY <2>8 DEF Skilled!InstallRefused, Skilled!Publishes, Skilled!PublishedAndFails,
                Skilled!PublishFails, Skilled!Fails, Skilled!Unlocks, Skilled!Idle
  <2>9. CASE Skilled!Crashes(p)
    BY <2>9 DEF Skilled!Crashes, Skilled!Starting
  <2>. QED
    BY <2>1, <2>2, <2>3, <2>4, <2>5, <2>6, <2>7, <2>8, <2>9 DEF SkillMove
<1>3. \A q \in Processes : q # p => op'[q] = op[q]
  BY <1>1 DEF SkillTypes
<1>. QED
  BY <1>2, <1>3 DEF HolderInv

(* A registry changes under its own process's commands only, and those     *)
(* toggle what it holds.                                                   *)
LEMMA ToggleStep ==
    ASSUME SkillTypes, ToggleInv, NEW p \in Processes, SkillMove(p)
    PROVE  ToggleInv'
<1>1. op' = [op EXCEPT ![p] = op'[p]] /\ SkillTypes' /\ op[p] \in SkillCommands
  BY SkillTypesStep DEF SkillTypes
<1>2. \A q \in Processes : q # p => op'[q] = op[q] /\ registry'[q] = registry[q]
  BY <1>1 DEF SkillTypes, SkillMove, Skilled!Reload, Skilled!ReadsDisabled, Skilled!ScansUser,
     Skilled!ScansProject, Skilled!Toggle, Skilled!ToggleLocks, Skilled!Toggles,
     Skilled!ToggleFails, Skilled!Install, Skilled!InstallLocks, Skilled!InstallRefused,
     Skilled!Stages, Skilled!MovesAside, Skilled!Publishes, Skilled!PublishedAndFails,
     Skilled!PublishFails, Skilled!Crashes, Skilled!Begins, Skilled!Locks, Skilled!Fails
<1>3. op'[p].at \in {"toggling", "toggle"} => registry'[p][op'[p].name] # Absent
  <2> USE <1>1 DEF Skilled!Goes, SkillTypes
  <2>1. CASE Skilled!Toggle(p)
    BY <2>1 DEF Skilled!Toggle, Skilled!Begins
  <2>2. CASE Skilled!ToggleLocks(p)
    <3>1. op[p] \in Toggling
      BY <2>2, CommandFields DEF Skilled!ToggleLocks
    <3>. QED
      BY <2>2, <3>1 DEF Skilled!ToggleLocks, Skilled!Locks, Toggling, ToggleInv
  <2>3. CASE Skilled!ScansProject(p)
    BY <2>3 DEF Skilled!ScansProject, Skilled!Idle
  <2>4. CASE \/ Skilled!Reload(p) \/ Skilled!Install(p) \/ Skilled!ReadsDisabled(p)
             \/ Skilled!Toggles(p) \/ Skilled!ToggleFails(p) \/ Skilled!InstallRefused(p)
             \/ Skilled!Publishes(p) \/ Skilled!PublishedAndFails(p) \/ Skilled!PublishFails(p)
             \/ Skilled!Crashes(p)
    BY <2>4 DEF Skilled!Reload, Skilled!Install, Skilled!Begins, Skilled!ReadsDisabled,
       Skilled!Toggles, Skilled!ToggleFails, Skilled!InstallRefused, Skilled!Publishes,
       Skilled!PublishedAndFails, Skilled!PublishFails, Skilled!Crashes, Skilled!Fails,
       Skilled!Starting, Skilled!Idle
  <2>5. CASE Skilled!ScansUser(p)
    <3>1. op[p] \in Scans
      BY <2>5, CommandFields DEF Skilled!ScansUser
    <3>. QED
      BY <2>5, <3>1 DEF Skilled!ScansUser, Scans
  <2>6. CASE Skilled!InstallLocks(p) \/ Skilled!Stages(p) \/ Skilled!MovesAside(p)
    BY <2>6, InstallMoves
  <2>. QED
    BY <2>1, <2>2, <2>3, <2>4, <2>5, <2>6 DEF SkillMove
<1>. QED
  BY <1>2, <1>3 DEF ToggleInv

(* Only the lock's holder changes the directories, and each step of a      *)
(* replacement leaves the place with what was published, or with what puts *)
(* it back in the holder's hands.                                          *)
LEMMA StayStep ==
    ASSUME SkillsInv, NEW p \in Processes, SkillMove(p)
    PROVE  ReadyInv' /\ Skilled!InstalledSkillsStay' /\ Skilled!TogglesKept'
<1> USE DEF SkillsInv
<1> DEFINE place == op[p].place
           Stays(x) == published[x] = Absent \/ dirs[x] = published[x]
<1>1. op' = [op EXCEPT ![p] = op'[p]] /\ op \in [Processes -> SkillCommands]
  BY SkillTypesStep DEF SkillTypes
<1>2. \A q \in Processes \ {p} : op'[q] = op[q]
  BY <1>1
<1>3. ASSUME op[p].at \in UnderLock PROVE \A q \in Processes \ {p} : op[q].at \notin UnderLock
  BY <1>3 DEF HolderInv
<1>4. ASSUME op[p].at \in {"locked", "staged", "ready"}
      PROVE  /\ place \in Skilled!Places
             /\ \A x \in Skilled!Places \ orphaned :
                   Stays(x) \/ (op[p].at = "ready" /\ x = place /\ op[p].backup = published[x])
  <2>1. op[p] \in Installing
    BY <1>1, <1>4, CommandFields
  <2>2. \A q \in Processes \ {p} : op[q].at # "ready"
    BY <1>3, <1>4 DEF UnderLock
  <2>. QED
    BY <2>1, <2>2 DEF Installing, Skilled!InstalledSkillsStay, Skilled!Replacing
\* a step that touches no directory and starts or ends no replacement
<1>5. ASSUME UNCHANGED <<dirs, published, orphaned>>, op[p].at # "ready", op'[p].at # "ready"
      PROVE  ReadyInv' /\ Skilled!InstalledSkillsStay'
  <2>1. ReadyInv'
    BY <1>2, <1>5 DEF ReadyInv
  <2>2. Skilled!InstalledSkillsStay'
    BY <1>2, <1>5 DEF Skilled!InstalledSkillsStay, Skilled!Replacing
  <2>. QED
    BY <2>1, <2>2
\* a step of the holder after which nobody is replacing anything
<1>6. ASSUME op[p].at \in UnderLock, op'[p].at # "ready",
             \A x \in Skilled!Places \ orphaned' : Stays(x)'
      PROVE  ReadyInv' /\ Skilled!InstalledSkillsStay'
  <2>1. \A q \in Processes : op'[q].at # "ready"
    BY <1>2, <1>3, <1>6 DEF UnderLock
  <2>. QED
    BY <1>6, <2>1 DEF ReadyInv, Skilled!InstalledSkillsStay
<1>7. ReadyInv' /\ Skilled!InstalledSkillsStay'
  <2> USE <1>1 DEF Skilled!Goes
  <2>1. CASE \/ Skilled!Reload(p) \/ Skilled!Toggle(p) \/ Skilled!Install(p)
             \/ Skilled!ReadsDisabled(p) \/ Skilled!ScansProject(p)
             \/ Skilled!Toggles(p) \/ Skilled!ToggleFails(p) \/ Skilled!InstallRefused(p)
    BY <1>5, <2>1 DEF Skilled!Reload, Skilled!Toggle, Skilled!Install, Skilled!Begins,
       Skilled!ReadsDisabled, Skilled!ScansProject, Skilled!Toggles, Skilled!ToggleFails,
       Skilled!InstallRefused, Skilled!Fails, Skilled!Starting, Skilled!Idle
  <2>2. CASE Skilled!ScansUser(p)
    <3>1. op[p] \in Scans
      BY <2>2, CommandFields DEF Skilled!ScansUser
    <3>. QED
      BY <1>5, <2>2, <3>1 DEF Skilled!ScansUser, Scans
  <2>3. CASE Skilled!ToggleLocks(p)
    <3>1. op[p] \in Toggling
      BY <2>3, CommandFields DEF Skilled!ToggleLocks
    <3>. QED
      BY <1>5, <2>3, <3>1 DEF Skilled!ToggleLocks, Skilled!Locks, Toggling
  <2>4. CASE Skilled!InstallLocks(p)
    BY <1>5, <2>4, InstallMoves DEF Skilled!InstallLocks, Skilled!Locks
  <2>5. CASE Skilled!Stages(p)
    <3>1. /\ op[p].at = "locked" /\ UNCHANGED <<dirs, published, orphaned>>
          /\ op'[p].at = IF dirs[place] = Absent THEN "ready" ELSE "staged"
          /\ op'[p].place = place
      BY <2>5, InstallMoves DEF Skilled!Stages
    <3>2. op'[p].at = "ready" => place \in orphaned \/ published[place] = Absent
      BY <1>4, <3>1
    <3>3. ReadyInv'
      BY <1>2, <3>1, <3>2 DEF ReadyInv
    <3>4. Skilled!InstalledSkillsStay'
      BY <1>2, <1>4, <3>1 DEF Skilled!InstalledSkillsStay
    <3>. QED
      BY <3>3, <3>4
  <2>6. CASE Skilled!MovesAside(p)
    <3>1. /\ op[p].at = "staged" /\ UNCHANGED <<published, orphaned>>
          /\ dirs' = [dirs EXCEPT ![place] = Absent]
          /\ op'[p].at = "ready" /\ op'[p].place = place /\ op'[p].backup = dirs[place]
      BY <2>6, InstallMoves DEF Skilled!MovesAside
    <3>2. place \in orphaned \/ published[place] = Absent \/ dirs[place] = published[place]
      BY <1>4, <3>1
    <3>3. ReadyInv'
      BY <1>2, <3>1, <3>2 DEF ReadyInv
    <3>4. ASSUME NEW x \in Skilled!Places \ orphaned, published[x] # Absent, x # place
          PROVE  dirs'[x] = published[x]
      BY <1>4, <3>1, <3>4 DEF SkillTypes
    <3>5. Skilled!InstalledSkillsStay'
      BY <3>1, <3>2, <3>4 DEF Skilled!InstalledSkillsStay, Skilled!Replacing
    <3>. QED
      BY <3>3, <3>5
  <2>7. CASE Skilled!Publishes(p) \/ Skilled!PublishedAndFails(p)
    <3>1. /\ op[p].at = "ready" /\ Skilled!Renamed(p) /\ op'[p].at # "ready"
      BY <2>7 DEF Skilled!Publishes, Skilled!PublishedAndFails, Skilled!Fails, Skilled!Idle
    <3>2. \A x \in Skilled!Places \ orphaned' : Stays(x)'
      BY <1>4, <3>1 DEF Skilled!Renamed, SkillTypes
    <3>. QED
      BY <1>6, <3>1, <3>2 DEF UnderLock
  <2>8. CASE Skilled!PublishFails(p)
    <3>1. /\ op[p].at = "ready" /\ op'[p].at # "ready" /\ UNCHANGED <<published, orphaned>>
          /\ dirs' = [dirs EXCEPT ![place] = op[p].backup]
      BY <2>8 DEF Skilled!PublishFails, Skilled!PutBack, Skilled!Fails, Skilled!Idle
    <3>2. \A x \in Skilled!Places \ orphaned' : Stays(x)'
      BY <1>4, <3>1 DEF SkillTypes, ReadyInv
    <3>. QED
      BY <1>6, <3>1, <3>2 DEF UnderLock
  <2>9. CASE Skilled!Crashes(p)
    <3>1. /\ op'[p].at # "ready" /\ UNCHANGED <<dirs, published>>
          /\ orphaned' = IF op[p].at = "ready" /\ op[p].backup # Absent
                         THEN orphaned \cup {place} ELSE orphaned
      BY <2>9 DEF Skilled!Crashes, Skilled!Starting
    <3>2. CASE op[p].at # "ready"
      BY <1>5, <3>1, <3>2
    <3>3. CASE op[p].at = "ready"
      <4>1. \A x \in Skilled!Places \ orphaned' : Stays(x)'
        BY <1>4, <3>1, <3>3
      <4>. QED
        BY <1>6, <3>1, <3>3, <4>1 DEF UnderLock
    <3>. QED
      BY <3>2, <3>3
  <2>. QED
    BY <2>1, <2>2, <2>3, <2>4, <2>5, <2>6, <2>7, <2>8, <2>9 DEF SkillMove
<1>8. Skilled!TogglesKept'
  BY DEF Skilled!TogglesKept, SkillMove, Skilled!Reload, Skilled!ReadsDisabled,
     Skilled!ScansUser, Skilled!ScansProject, Skilled!Toggle, Skilled!ToggleLocks,
     Skilled!Toggles, Skilled!Toggled, Skilled!ToggleFails, Skilled!Install,
     Skilled!InstallLocks, Skilled!InstallRefused, Skilled!Stages, Skilled!MovesAside,
     Skilled!Publishes, Skilled!PublishedAndFails, Skilled!PublishFails, Skilled!Crashes,
     Skilled!Begins, Skilled!Locks, Skilled!Fails
<1>. QED
  BY <1>7, <1>8

(* SkillsInv is inductive.                                                 *)
LEMMA SkillsStep == SkillsInv /\ [Skilled!Next]_skillsVars => SkillsInv'
<1> SUFFICES ASSUME SkillsInv, [Skilled!Next]_skillsVars PROVE SkillsInv'
  OBVIOUS
<1>1. ASSUME NEW p \in Processes, SkillMove(p) PROVE SkillsInv'
  BY <1>1, SkillTypesStep, HolderStep, ToggleStep, StayStep DEF SkillsInv
<1>2. CASE UNCHANGED skillsVars
  BY <1>2 DEF skillsVars, SkillsInv, SkillTypes, HolderInv, ToggleInv, ReadyInv,
     Skilled!InstalledSkillsStay, Skilled!Replacing, Skilled!TogglesKept
<1>. QED
  BY <1>1, <1>2 DEF Skilled!Next, SkillMove

(* An installed skill is there, whole, except between the two renames of a *)
(* replacement or after a crash exactly there; and no process's toggle     *)
(* undoes another's: for any number of processes and skills.               *)
THEOREM SkillsKeptHolds == LocalSpec => []SkillsKept
<1> DEFINE Inv == part = "skills" => SkillsInv
<1>1. LocalInit => Inv
  BY SkillsInit DEF LocalInit
<1>2. Inv /\ [LocalNext]_localVars => Inv'
  <2>1. ASSUME Inv, LocalNext, part' = "skills" PROVE SkillsInv'
    BY <2>1, SkillsStep DEF LocalNext
  <2>2. ASSUME Inv, UNCHANGED localVars, part' = "skills" PROVE SkillsInv'
    BY <2>2, SkillsStep DEF localVars
  <2>. QED
    BY <2>1, <2>2
<1>3. SkillsInv => Skilled!TypeOK
  <2> SUFFICES ASSUME SkillsInv PROVE Skilled!TypeOK
    OBVIOUS
  <2>1. Skilled!Cardinality(holder) <= 1
    <3>1. Skilled!Cardinality(holder) = Cardinality(holder)
      BY DEF Skilled!Cardinality, Cardinality
    <3>2. CASE holder = {}
      BY <3>1, <3>2, FS_EmptySet
    <3>3. ASSUME NEW p \in Processes, holder = {p} PROVE Cardinality(holder) = 1
      BY <3>3, FS_Singleton
    <3>. QED
      BY <3>1, <3>2, <3>3 DEF SkillsInv, HolderInv
  <2>2. \A p \in Processes, n \in Names : registry[p][n] # Absent => registry[p][n] \in Found
    BY DEF SkillsInv, SkillTypes, Registries
  <2>. QED
    BY <2>1, <2>2 DEF SkillsInv, SkillTypes, Skilled!TypeOK, Found
<1>4. Inv => SkillsKept
  BY <1>3 DEF SkillsKept, SkillsInv
<1>. QED
  BY <1>1, <1>2, <1>4, PTL DEF LocalSpec, localVars
-----------------------------------------------------------------------------
(*                       Induction, and filtered sequences                  *)

(* A set with 0 that is closed under successor holds every natural number: *)
(* otherwise the least number outside it would be a successor inside it.   *)
LEMMA NatSetInduction ==
    ASSUME NEW S, 0 \in S, \A n \in Nat : n \in S => n + 1 \in S
    PROVE  Nat \subseteq S
<1> SUFFICES ASSUME Nat \ S # {} PROVE FALSE
  OBVIOUS
<1> DEFINE T == Nat \ S
<1>1. \E x \in T : \A y \in T : ~(<<y, x>> \in OpToRel(<, Nat))
  <2>1. T \subseteq Nat /\ T # {}
    OBVIOUS
  <2> HIDE DEF T
  <2>. QED
    BY <2>1, NatLessThanWellFounded, WFMin
<1>2. \E x \in T : \A y \in T : ~(y < x)
  BY <1>1 DEF OpToRel
<1>3. PICK x \in T : \A y \in T : ~(y < x)
  BY <1>2
<1>4. x # 0 /\ x - 1 \in Nat /\ x - 1 \in S
  BY <1>3
<1>. QED
  BY <1>3, <1>4

(* The recursion of Memory!Without over a sequence s.                      *)
FilterStep(s, ids, F, i) ==
    IF i = 0 THEN <<>>
    ELSE IF s[i].id \in ids THEN F[i - 1] ELSE Append(F[i - 1], s[i])

Filters(s, ids, F) == F = [i \in 0..Len(s) |-> FilterStep(s, ids, F, i)]

(* The recursion has a solution.                                           *)
LEMMA FilterExists ==
    ASSUME NEW R, NEW s \in Seq(R), NEW ids
    PROVE  \E F : Filters(s, ids, F)
<1> DEFINE S == {m \in Nat : m <= Len(s) =>
                   \E F \in [0..m -> Seq(R)] : \A i \in 0..m : F[i] = FilterStep(s, ids, F, i)}
<1>1. 0 \in S
  <2> DEFINE F == [i \in 0..0 |-> <<>>]
  <2>1. F \in [0..0 -> Seq(R)]
    OBVIOUS
  <2>2. \A i \in 0..0 : i = 0 /\ F[i] = <<>>
    OBVIOUS
  <2> HIDE DEF F
  <2>3. \A i \in 0..0 : F[i] = FilterStep(s, ids, F, i)
    BY <2>2 DEF FilterStep
  <2>. QED
    BY <2>1, <2>3
<1>2. ASSUME NEW m \in Nat, m \in S PROVE m + 1 \in S
  <2>0. SUFFICES ASSUME m + 1 <= Len(s)
                 PROVE  \E F \in [0..m + 1 -> Seq(R)] :
                           \A i \in 0..m + 1 : F[i] = FilterStep(s, ids, F, i)
    <3>1. m + 1 \in Nat
      OBVIOUS
    <3>. QED
      BY <3>1
  <2>1. PICK F \in [0..m -> Seq(R)] : \A i \in 0..m : F[i] = FilterStep(s, ids, F, i)
    <3>1. m <= Len(s)
      BY <2>0, LenProperties
    <3>. QED
      BY <1>2, <3>1
  <2> DEFINE final == IF s[m + 1].id \in ids THEN F[m] ELSE Append(F[m], s[m + 1])
             G == [i \in 0..m + 1 |-> IF i = m + 1 THEN final ELSE F[i]]
  <2>2. final \in Seq(R)
    <3>1. F[m] \in Seq(R)
      BY <2>1
    <3>2. m + 1 \in 1..Len(s)
      BY <2>0, LenProperties
    <3>3. s[m + 1] \in R
      BY <3>2
    <3>. QED
      BY <3>1, <3>3
  <2>3. G \in [0..m + 1 -> Seq(R)]
    BY <2>2
  <2>4. \A i \in 0..m : G[i] = F[i]
    OBVIOUS
  <2>5. G[m + 1] = final
    OBVIOUS
  <2> HIDE DEF G
  <2>6. ASSUME NEW i \in 0..m PROVE G[i] = FilterStep(s, ids, G, i)
    <3>1. i # 0 => i - 1 \in 0..m
      OBVIOUS
    <3>. QED
      BY <2>1, <2>4, <3>1 DEF FilterStep
  <2>7. G[m + 1] = FilterStep(s, ids, G, m + 1)
    BY <2>4, <2>5 DEF FilterStep
  <2>8. \A i \in 0..m + 1 : G[i] = FilterStep(s, ids, G, i)
    BY <2>6, <2>7
  <2>. QED
    BY <2>3, <2>8
<1>3. Len(s) \in S
  <2> HIDE DEF S
  <2>. QED
    BY <1>1, <1>2, NatSetInduction, LenProperties
<1>4. PICK F \in [0..Len(s) -> Seq(R)] :
        \A i \in 0..Len(s) : F[i] = FilterStep(s, ids, F, i)
  BY <1>3
<1>5. Filters(s, ids, F)
  BY <1>4 DEF Filters
<1>. QED
  BY <1>5

(* Numbered sequences: the ids of their records increase.                  *)
Numbered(s) == \A i, j \in 1..Len(s) : i < j => s[i].id < s[j].id

(* What a filter keeps of the first m records, in their order.             *)
FilterOf(s, ids, m, t) ==
    /\ Len(t) <= m
    /\ \A i \in 1..Len(t) : \E k \in 1..m : t[i] = s[k] /\ s[k].id \notin ids
    /\ \A k \in 1..m : s[k].id \notin ids => \E i \in 1..Len(t) : t[i] = s[k]
    /\ Numbered(t)

(* A filter keeps the records whose id is not in ids, and their order.     *)
LEMMA FilterFacts ==
    ASSUME NEW R, NEW s \in Seq(R), NEW ids, NEW F, Filters(s, ids, F),
           Numbered(s), \A r \in R : r.id \in Nat
    PROVE  F[Len(s)] \in Seq(R) /\ FilterOf(s, ids, Len(s), F[Len(s)])
<1> DEFINE S == {m \in Nat : m <= Len(s) => F[m] \in Seq(R) /\ FilterOf(s, ids, m, F[m])}
<1>0. \A i \in 0..Len(s) : F[i] = FilterStep(s, ids, F, i)
  BY DEF Filters
<1>1. 0 \in S
  <2>1. F[0] = <<>>
    BY <1>0, LenProperties DEF FilterStep
  <2>2. F[0] \in Seq(R) /\ Len(F[0]) = 0 /\ 1..0 = {}
    BY <2>1
  <2>. QED
    BY <2>2 DEF FilterOf, Numbered
<1>2. ASSUME NEW m \in Nat, m \in S PROVE m + 1 \in S
  <2>0. SUFFICES ASSUME m + 1 <= Len(s)
                 PROVE  F[m + 1] \in Seq(R) /\ FilterOf(s, ids, m + 1, F[m + 1])
    <3>1. m + 1 \in Nat
      OBVIOUS
    <3>. QED
      BY <3>1
  <2>1. F[m] \in Seq(R) /\ FilterOf(s, ids, m, F[m])
    <3>1. m <= Len(s)
      BY <2>0, LenProperties
    <3>. QED
      BY <1>2, <3>1
  <2>2. /\ m + 1 \in 0..Len(s) /\ m + 1 \in 1..Len(s) /\ s[m + 1] \in R /\ Len(s) \in Nat
        /\ m + 1 # 0 /\ (m + 1) - 1 = m
    BY <2>0, LenProperties
  <2>3. CASE s[m + 1].id \in ids
    <3>1. F[m + 1] = F[m]
      BY <1>0, <2>2, <2>3 DEF FilterStep
    <3>. QED
      BY <2>1, <2>3, <3>1, LenProperties DEF FilterOf
  <2>4. CASE s[m + 1].id \notin ids
    <3> DEFINE t == F[m]
               u == Append(t, s[m + 1])
    <3>1. F[m + 1] = u
      BY <1>0, <2>2, <2>4 DEF FilterStep
    <3>2. /\ u \in Seq(R) /\ Len(u) = Len(t) + 1 /\ Len(t) \in Nat
          /\ \A i \in 1..Len(t) : u[i] = t[i]
          /\ u[Len(u)] = s[m + 1]
      BY <2>1, <2>2, AppendProperties, LenProperties
    <3> HIDE DEF t, u
    <3>3. FilterOf(s, ids, m, t)
      BY <2>1 DEF t
    <3>4. Len(u) <= m + 1
      BY <3>2, <3>3 DEF FilterOf
    <3>5. ASSUME NEW i \in 1..Len(u)
          PROVE  \E k \in 1..m + 1 : u[i] = s[k] /\ s[k].id \notin ids
      <4>1. CASE i = Len(u)
        BY <2>4, <3>2, <4>1
      <4>2. CASE i \in 1..Len(t)
        <5>1. PICK k \in 1..m : t[i] = s[k] /\ s[k].id \notin ids
          BY <3>3, <4>2 DEF FilterOf
        <5>. QED
          BY <3>2, <4>2, <5>1
      <4>. QED
        BY <3>2, <4>1, <4>2
    <3>6. ASSUME NEW k \in 1..m + 1, s[k].id \notin ids
          PROVE  \E i \in 1..Len(u) : u[i] = s[k]
      <4>1. CASE k = m + 1
        BY <3>2, <4>1
      <4>2. CASE k \in 1..m
        <5>1. PICK i \in 1..Len(t) : t[i] = s[k]
          BY <3>3, <3>6, <4>2 DEF FilterOf
        <5>. QED
          BY <3>2, <5>1
      <4>. QED
        BY <4>1, <4>2
    <3>7. Numbered(u)
      <4> SUFFICES ASSUME NEW i \in 1..Len(u), NEW j \in 1..Len(u), i < j
                   PROVE  u[i].id < u[j].id
        BY DEF Numbered
      <4>1. CASE j = Len(u)
        <5>1. i \in 1..Len(t) /\ u[i] = t[i] /\ u[j] = s[m + 1]
          BY <3>2, <4>1
        <5>2. PICK k \in 1..m : t[i] = s[k]
          BY <3>3, <5>1 DEF FilterOf
        <5>3. k \in 1..Len(s) /\ k < m + 1
          BY <2>2
        <5>4. s[k].id < s[m + 1].id
          BY <2>2, <5>3 DEF Numbered
        <5>. QED
          BY <5>1, <5>2, <5>4
      <4>2. CASE j \in 1..Len(t)
        <5>1. i \in 1..Len(t) /\ t[i].id < t[j].id
          BY <3>2, <3>3, <4>2 DEF FilterOf, Numbered
        <5>. QED
          BY <3>2, <4>2, <5>1
      <4>3. j = Len(u) \/ j \in 1..Len(t)
        BY <3>2
      <4>. QED
        BY <4>1, <4>2, <4>3
    <3>. QED
      BY <3>1, <3>2, <3>4, <3>5, <3>6, <3>7 DEF FilterOf
  <2>. QED
    BY <2>3, <2>4
<1>3. Len(s) \in S
  <2> HIDE DEF S
  <2>. QED
    BY <1>1, <1>2, NatSetInduction, LenProperties
<1>. QED
  BY <1>3
-----------------------------------------------------------------------------
(*                          The memory (Memory)                             *)

Entry == [id : 0..MaxIds, fact : Facts, place : Remembers!Places, key : Keys \cup {NoKey},
          active : BOOLEAN]
Tasks == {Remembers!Idle} \cup [at : {"embedding", "searching"}, ids : SUBSET (0..MaxIds)]
         \cup {[at |-> "pruning"]}

(* What the file may hold: ids in their order, and of the active entries   *)
(* no two with one fact or with one key in one place.                      *)
Alike(d, e) ==
    \/ d.fact = e.fact
    \/ d.key # NoKey /\ d.key = e.key /\ d.place = e.place
Distinct(s) == \A i, j \in 1..Len(s) :
    i # j /\ s[i].active /\ s[j].active => ~Alike(s[i], s[j])
Store(s, n) ==
    /\ s \in Seq(Entry)
    /\ \A i \in 1..Len(s) : s[i].id < n
    /\ Numbered(s)
    /\ Distinct(s)

MemoryTypes ==
    /\ Len(entries) <= MaxEntries
    /\ vectors \subseteq 0..MaxIds
    /\ task \in [Projects -> Tasks]
    /\ ops \in 0..MaxOps /\ nextId \in 0..MaxIds
MemoryInv == MemoryTypes /\ Store(entries, nextId)

(* The entries of a numbered sequence have ids of their own.               *)
LEMMA IdsDiffer ==
    ASSUME NEW s \in Seq(Entry), Numbered(s), NEW i \in 1..Len(s), NEW j \in 1..Len(s),
           s[i].id = s[j].id
    PROVE  i = j
<1>1. s[i] \in Entry /\ s[j] \in Entry /\ Len(s) \in Nat
  BY LenProperties
<1>2. s[i].id \in Int /\ s[j].id \in Int
  BY <1>1 DEF Entry
<1>. QED
  BY <1>1, <1>2 DEF Numbered

(* What is left of a store, some entries gone, is a store.                 *)
LEMMA PartOfStore ==
    ASSUME NEW n, NEW s, Store(s, n), NEW t \in Seq(Entry), Numbered(t),
           \A i \in 1..Len(t) : \E k \in 1..Len(s) : t[i] = s[k]
    PROVE  Store(t, n)
<1>1. \A i \in 1..Len(t) : t[i].id < n
  BY DEF Store
<1>2. ASSUME NEW i \in 1..Len(t), NEW j \in 1..Len(t), i # j, t[i].active, t[j].active
      PROVE  ~Alike(t[i], t[j])
  <2>1. PICK k \in 1..Len(s) : t[i] = s[k]
    OBVIOUS
  <2>2. PICK l \in 1..Len(s) : t[j] = s[l]
    OBVIOUS
  <2>3. k # l
    BY <1>2, <2>1, <2>2, IdsDiffer
  <2>. QED
    BY <1>2, <2>1, <2>2, <2>3 DEF Store, Distinct
<1>. QED
  BY <1>1, <1>2 DEF Store, Distinct

(* The entries of the file, by their place in it.                          *)
LEMMA EntriesOf ==
    ASSUME NEW s \in Seq(Entry)
    PROVE  Remembers!Range(s) = {s[i] : i \in 1..Len(s)}
BY LenProperties DEF Remembers!Range

(* A deletion leaves the entries of other ids, in their order.             *)
LEMMA WithoutKeeps ==
    ASSUME MemoryInv, NEW ids
    PROVE  LET kept == Remembers!Without(ids) IN
           /\ Store(kept, nextId)
           /\ Len(kept) <= Len(entries)
           /\ \A k \in 1..Len(entries) : entries[k].id \notin ids =>
                 \E i \in 1..Len(kept) : kept[i] = entries[k]
<1>1. entries \in Seq(Entry) /\ Numbered(entries) /\ \A r \in Entry : r.id \in Nat
  BY DEF MemoryInv, Store, Entry
<1>2. PICK F : Filters(entries, ids, F)
  BY <1>1, FilterExists
<1>3. \E G : Filters(entries, ids, G) /\ Remembers!Without(ids) = G[Len(entries)]
  BY <1>2 DEF Filters, FilterStep, Remembers!Without
<1>4. PICK G : Filters(entries, ids, G) /\ Remembers!Without(ids) = G[Len(entries)]
  BY <1>3
<1> DEFINE kept == Remembers!Without(ids)
<1>5. kept \in Seq(Entry) /\ FilterOf(entries, ids, Len(entries), kept)
  BY <1>1, <1>4, FilterFacts
<1> HIDE DEF kept
<1>6. Store(kept, nextId)
  BY <1>5, PartOfStore DEF FilterOf, MemoryInv
<1>. QED
  BY <1>5, <1>6 DEF FilterOf, kept

(* The empty file is a store.                                              *)
LEMMA MemoryInit == Remembers!Init => MemoryInv
<1> SUFFICES ASSUME Remembers!Init PROVE MemoryInv
  OBVIOUS
<1> USE DEF Remembers!Init
<1>1. entries = <<>> /\ entries \in Seq(Entry) /\ Len(entries) = 0 /\ 1..0 = {}
  OBVIOUS
<1>2. Store(entries, nextId)
  BY <1>1 DEF Store, Numbered, Distinct
<1>3. MemoryTypes
  BY <1>1, LocalAssumption DEF MemoryTypes, Tasks, Remembers!MemoryAssumption
<1>. QED
  BY <1>2, <1>3 DEF MemoryInv

(* The entries as a save leaves them, before the oldest may have to go.    *)
Saved(replaced, new) == Append(Remembers!Superseded(replaced), new)

(* A save of a fact that is not active, under a key whose other entries it *)
(* supersedes, leaves a store: of the entries it finds it changes those it *)
(* supersedes, and only to make them inactive.                             *)
LEMMA SaveStores ==
    ASSUME MemoryInv, nextId < MaxIds,
           NEW fact \in Facts, NEW place \in Remembers!Places, NEW key \in Keys \cup {NoKey},
           NEW replaced, Remembers!SameKey(key, place) \subseteq replaced,
           \A e \in Remembers!Active : e.fact # fact
    PROVE  LET new == [id |-> nextId, fact |-> fact, place |-> place, key |-> key,
                       active |-> TRUE]
               s == Saved(replaced, new) IN
           /\ Store(s, nextId + 1)
           /\ Len(s) = Len(entries) + 1
           /\ \A i \in 1..Len(entries) : entries[i].id \notin replaced => s[i] = entries[i]
<1> DEFINE new == [id |-> nextId, fact |-> fact, place |-> place, key |-> key, active |-> TRUE]
           old == Remembers!Superseded(replaced)
           s == Saved(replaced, new)
<1>1. /\ entries \in Seq(Entry) /\ Len(entries) \in Nat /\ DOMAIN entries = 1..Len(entries)
      /\ \A i \in 1..Len(entries) : entries[i] \in Entry
  BY LenProperties DEF MemoryInv, Store
<1>2. new \in Entry
  BY DEF Entry, MemoryInv, MemoryTypes
<1>3. old = [i \in 1..Len(entries) |->
                IF entries[i].id \in replaced THEN [entries[i] EXCEPT !.active = FALSE]
                                              ELSE entries[i]]
  BY <1>1 DEF Remembers!Superseded
<1>4. ASSUME NEW i \in 1..Len(entries)
      PROVE  /\ old[i] \in Entry
             /\ old[i].id = entries[i].id /\ old[i].fact = entries[i].fact
             /\ old[i].key = entries[i].key /\ old[i].place = entries[i].place
             /\ old[i].active => entries[i].active /\ entries[i].id \notin replaced
             /\ entries[i].id \notin replaced => old[i] = entries[i]
  <2>1. CASE entries[i].id \in replaced
    <3>1. old[i] = [entries[i] EXCEPT !.active = FALSE]
      BY <1>3, <2>1
    <3>2. entries[i] \in Entry
      BY <1>1
    <3> HIDE DEF old
    <3>. QED
      BY <2>1, <3>1, <3>2 DEF Entry
  <2>2. CASE entries[i].id \notin replaced
    <3>1. old[i] = entries[i]
      BY <1>3, <2>2
    <3> HIDE DEF old
    <3>. QED
      BY <1>1, <2>2, <3>1
  <2>. QED
    BY <2>1, <2>2
<1>5. old \in Seq(Entry) /\ Len(old) = Len(entries)
  BY <1>1, <1>3, <1>4, IsASeq
<1> HIDE DEF old, new
<1>6. /\ s \in Seq(Entry) /\ Len(s) = Len(entries) + 1
      /\ \A i \in 1..Len(entries) : s[i] = old[i]
      /\ s[Len(entries) + 1] = new
  BY <1>2, <1>5, AppendProperties DEF old, Saved
<1> HIDE DEF s
<1>7. /\ new.id = nextId /\ new.fact = fact /\ new.place = place /\ new.key = key
      /\ nextId \in Nat
  BY DEF new, MemoryInv, MemoryTypes
<1>8. \A i \in 1..Len(entries) : entries[i].id \in Nat /\ entries[i].id < nextId
  <2>1. \A e \in Entry : e.id \in Nat
    BY DEF Entry
  <2>. QED
    BY <1>1, <2>1 DEF MemoryInv, Store
<1>9. \A i \in 1..Len(s) : i \in 1..Len(entries) \/ i = Len(entries) + 1
  BY <1>1, <1>6
<1>10. \A i \in 1..Len(s) : s[i].id < nextId + 1
  BY <1>4, <1>6, <1>7, <1>8, <1>9
<1>11. Numbered(s)
  <2> SUFFICES ASSUME NEW i \in 1..Len(s), NEW j \in 1..Len(s), i < j PROVE s[i].id < s[j].id
    BY DEF Numbered
  <2>1. i \in 1..Len(entries)
    BY <1>1, <1>6
  <2>2. CASE j \in 1..Len(entries)
    BY <1>4, <1>6, <2>1, <2>2 DEF MemoryInv, Store, Numbered
  <2>3. CASE j = Len(entries) + 1
    BY <1>4, <1>6, <1>7, <1>8, <2>1, <2>3
  <2>. QED
    BY <1>9, <2>2, <2>3
<1>12. ASSUME NEW i \in 1..Len(entries), s[i].active PROVE ~Alike(s[i], new) /\ ~Alike(new, s[i])
  <2>1. entries[i].active /\ entries[i].id \notin replaced
    BY <1>4, <1>6, <1>12
  <2>2. entries[i] \in Remembers!Active
    BY <1>1, <2>1, EntriesOf DEF Remembers!Active
  <2>3. entries[i].id \notin Remembers!SameKey(key, place)
    BY <2>1
  <2>4. ~(key # NoKey /\ entries[i].key = key /\ entries[i].place = place)
    BY <2>2, <2>3 DEF Remembers!SameKey
  <2>. QED
    BY <1>4, <1>6, <1>7, <2>2, <2>4 DEF Alike
<1>13. Distinct(s)
  <2> SUFFICES ASSUME NEW i \in 1..Len(s), NEW j \in 1..Len(s), i # j, s[i].active, s[j].active
               PROVE  ~Alike(s[i], s[j])
    BY DEF Distinct
  <2>1. CASE i \in 1..Len(entries) /\ j \in 1..Len(entries)
    <3>1. ~Alike(entries[i], entries[j])
      BY <1>4, <1>6, <2>1 DEF MemoryInv, Store, Distinct
    <3>. QED
      BY <1>4, <1>6, <2>1, <3>1 DEF Alike
  <2>2. CASE i = Len(entries) + 1
    BY <1>6, <1>9, <1>12, <2>2
  <2>3. CASE j = Len(entries) + 1
    BY <1>6, <1>9, <1>12, <2>3
  <2>. QED
    BY <1>9, <2>1, <2>2, <2>3
<1>14. \A i \in 1..Len(entries) : entries[i].id \notin replaced => s[i] = entries[i]
  BY <1>4, <1>6
<1>. QED
  BY <1>6, <1>10, <1>11, <1>13, <1>14 DEF Store, s, new

(* The newest of a store are a store, and of a sequence that is one too    *)
(* long they are all but the first.                                        *)
LEMMA NewestKept ==
    ASSUME NEW n, NEW s, Store(s, n), Len(s) <= MaxEntries + 1
    PROVE  LET kept == Remembers!Newest(s) IN
           /\ Store(kept, n)
           /\ Len(kept) <= MaxEntries
           /\ \A k \in 1..Len(s) :
                 (\E i \in 1..Len(kept) : kept[i] = s[k]) \/ (k = 1 /\ Len(s) = MaxEntries + 1)
<1> DEFINE kept == Remembers!Newest(s)
<1>0. s \in Seq(Entry) /\ Len(s) \in Nat /\ MaxEntries \in Nat \ {0}
  BY LenProperties, LocalAssumption DEF Store, Remembers!MemoryAssumption
<1>1. CASE Len(s) <= MaxEntries
  <2>1. ~(Len(s) > MaxEntries)
    BY <1>0, <1>1
  <2>2. kept = SubSeq(s, 1, Len(s))
    BY <2>1 DEF Remembers!Newest
  <2>3. kept = s
    BY <1>0, <2>2, SubSeqFull
  <2>. QED
    BY <1>1, <2>3
<1>2. CASE Len(s) = MaxEntries + 1
  <2>1. kept = SubSeq(s, 2, Len(s))
    BY <1>0, <1>2 DEF Remembers!Newest
  <2> HIDE DEF kept
  <2>2. /\ kept \in Seq(Entry) /\ Len(kept) = MaxEntries
        /\ \A i \in 1..MaxEntries : kept[i] = s[i + 1]
    <3>1. \A i \in 2..Len(s) : s[i] \in Entry
      BY <1>0
    <3>2. 2 <= Len(s) /\ Len(s) - 2 + 1 = MaxEntries
      BY <1>0, <1>2
    <3>3. \A i \in Int : 2 + i - 1 = i + 1
      OBVIOUS
    <3>. QED
      BY <1>0, <2>1, <3>1, <3>2, <3>3, SubSeqProperties
  <2>3. Numbered(kept)
    <3> SUFFICES ASSUME NEW i \in 1..Len(kept), NEW j \in 1..Len(kept), i < j
                 PROVE  kept[i].id < kept[j].id
      BY DEF Numbered
    <3>1. i + 1 \in 1..Len(s) /\ j + 1 \in 1..Len(s) /\ i + 1 < j + 1
      BY <1>0, <1>2, <2>2
    <3>. QED
      BY <1>0, <2>2, <3>1 DEF Store, Numbered
  <2>4. \A i \in 1..Len(kept) : \E k \in 1..Len(s) : kept[i] = s[k]
    <3>1. \A i \in 1..Len(kept) : i + 1 \in 1..Len(s)
      BY <1>0, <1>2, <2>2
    <3>. QED
      BY <2>2, <3>1
  <2>5. Store(kept, n)
    BY <2>2, <2>3, <2>4, PartOfStore
  <2>6. ASSUME NEW k \in 1..Len(s), k # 1 PROVE \E i \in 1..Len(kept) : kept[i] = s[k]
    <3>1. k - 1 \in 1..MaxEntries /\ (k - 1) + 1 = k
      BY <1>0, <1>2, <2>6
    <3>2. kept[k - 1] = s[k]
      BY <2>2, <3>1
    <3>. QED
      BY <2>2, <3>1, <3>2
  <2>. QED
    BY <1>0, <1>2, <2>2, <2>5, <2>6 DEF kept
<1>. QED
  BY <1>0, <1>1, <1>2

(* Every step of a process leaves a store, and takes an active memory away *)
(* only for a reason.                                                      *)
MemoryGoal == MemoryInv' /\ Remembers!LossHasReason

(* A step that leaves the file alone loses nothing.                        *)
LEMMA SameFile ==
    ASSUME MemoryInv, MemoryTypes', entries' = entries, nextId' = nextId
    PROVE  MemoryGoal
<1>1. Remembers!Lost = {}
  BY DEF Remembers!Lost, Remembers!Active
<1>. QED
  BY <1>1 DEF MemoryGoal, MemoryInv, Remembers!LossHasReason

(* The ids of the entries are ids, and so are those of the visible ones.   *)
LEMMA IdsBounded ==
    ASSUME MemoryInv
    PROVE  /\ \A e \in Remembers!Range(entries) : e \in Entry /\ e.id \in 0..MaxIds
           /\ Remembers!Active \subseteq Remembers!Range(entries)
           /\ \A d, e \in Remembers!Range(entries) : d.id = e.id => d = e
<1>1. entries \in Seq(Entry) /\ Numbered(entries)
  BY DEF MemoryInv, Store
<1>2. \A e \in Remembers!Range(entries) : e \in Entry
  BY <1>1, EntriesOf
<1>3. \A e \in Entry : e.id \in 0..MaxIds
  BY DEF Entry
<1>4. \A d, e \in Remembers!Range(entries) : d.id = e.id => d = e
  BY <1>1, EntriesOf, IdsDiffer
<1>. QED
  BY <1>2, <1>3, <1>4 DEF Remembers!Active

(* A save.                                                                 *)
LEMMA SaveStep ==
    ASSUME MemoryInv, NEW p \in Projects, Remembers!Save(p)
    PROVE  MemoryGoal
<1>1. PICK fact \in Facts, place \in {p, Remembers!Global}, key \in Keys \cup {NoKey} :
        \E given \in {{}} \cup {{i} : i \in Remembers!Ids} :
          LET replaced == given \cup Remembers!SameKey(key, place) IN
          /\ \A e \in Remembers!Active : e.fact # fact
          /\ replaced \subseteq Remembers!Replaceable(place)
          /\ nextId < MaxIds
          /\ Remembers!Command(p, [at |-> "save", by |-> p, place |-> place])
          /\ nextId' = nextId + 1
          /\ entries' = Remembers!Newest(Append(Remembers!Superseded(replaced),
                 [id |-> nextId, fact |-> fact, place |-> place, key |-> key,
                  active |-> TRUE]))
          /\ task' = [task EXCEPT ![p] = [at |-> "embedding", ids |-> {nextId}]]
          /\ UNCHANGED vectors
  BY Zenon DEF Remembers!Save
<1>2. PICK given \in {{}} \cup {{i} : i \in Remembers!Ids} :
          LET replaced == given \cup Remembers!SameKey(key, place) IN
          /\ \A e \in Remembers!Active : e.fact # fact
          /\ replaced \subseteq Remembers!Replaceable(place)
          /\ nextId < MaxIds
          /\ Remembers!Command(p, [at |-> "save", by |-> p, place |-> place])
          /\ nextId' = nextId + 1
          /\ entries' = Remembers!Newest(Append(Remembers!Superseded(replaced),
                 [id |-> nextId, fact |-> fact, place |-> place, key |-> key,
                  active |-> TRUE]))
          /\ task' = [task EXCEPT ![p] = [at |-> "embedding", ids |-> {nextId}]]
          /\ UNCHANGED vectors
  BY <1>1
<1> DEFINE replaced == given \cup Remembers!SameKey(key, place)
           new == [id |-> nextId, fact |-> fact, place |-> place, key |-> key,
                   active |-> TRUE]
           s == Saved(replaced, new)
<1>3. /\ nextId \in 0..MaxIds /\ MaxIds \in Nat /\ nextId' \in 0..MaxIds
      /\ nextId \in 0..MaxIds
  BY <1>2, LocalAssumption DEF MemoryInv, MemoryTypes, Remembers!MemoryAssumption
<1>4. place \in Remembers!Places
  BY DEF Remembers!Places
<1>5. /\ Store(s, nextId + 1)
      /\ Len(s) = Len(entries) + 1
      /\ \A i \in 1..Len(entries) : entries[i].id \notin replaced => s[i] = entries[i]
  <2>1. Remembers!SameKey(key, place) \subseteq replaced
    OBVIOUS
  <2>. QED
    BY <1>2, <1>4, <2>1, SaveStores
<1>6. entries' = Remembers!Newest(s)
  BY <1>2 DEF Saved
<1>7. entries \in Seq(Entry) /\ Len(entries) \in Nat /\ Len(entries) <= MaxEntries
  BY LenProperties DEF MemoryInv, MemoryTypes, Store
<1>8. MaxEntries \in Nat \ {0}
  BY LocalAssumption DEF Remembers!MemoryAssumption
<1> HIDE DEF s
<1>9. /\ Store(entries', nextId + 1)
      /\ Len(entries') <= MaxEntries
      /\ \A k \in 1..Len(s) :
            (\E i \in 1..Len(entries') : entries'[i] = s[k]) \/ (k = 1 /\ Len(s) = MaxEntries + 1)
  <2>1. Len(s) <= MaxEntries + 1
    BY <1>5, <1>7, <1>8
  <2>. QED
    BY <1>5, <1>6, <2>1, NewestKept
<1>10. MemoryTypes'
  <2>1. [at |-> "embedding", ids |-> {nextId}] \in Tasks
    BY <1>3 DEF Tasks
  <2>2. task' \in [Projects -> Tasks] /\ vectors' \subseteq 0..MaxIds
    BY <1>2, <2>1 DEF MemoryInv, MemoryTypes
  <2>3. ops' \in 0..MaxOps
    BY <1>2, LocalAssumption DEF MemoryInv, MemoryTypes, Remembers!Command,
       Remembers!MemoryAssumption
  <2>. QED
    BY <1>3, <1>9, <2>2, <2>3 DEF MemoryTypes
<1>11. MemoryInv'
  BY <1>2, <1>9, <1>10 DEF MemoryInv, Store, Numbered, Distinct
<1>12. ASSUME NEW e \in Remembers!Lost
       PROVE  \/ e.place = place
              \/ e = Head(entries) /\ Len(entries) = MaxEntries
  <2>1. PICK k \in 1..Len(entries) : e = entries[k]
    BY <1>7, EntriesOf DEF Remembers!Lost, Remembers!Active
  <2>2. CASE e.id \in replaced
    <3>1. PICK d \in Remembers!Range(entries) : d.id = e.id /\ d.place = place
      BY <1>2, <2>2 DEF Remembers!Replaceable
    <3>2. e \in Remembers!Range(entries)
      BY DEF Remembers!Lost, Remembers!Active
    <3>3. e = d
      BY <3>1, <3>2, IdsBounded
    <3>. QED
      BY <3>1, <3>3
  <2>3. CASE e.id \notin replaced
    <3>1. s[k] = e /\ k \in 1..Len(s)
      BY <1>5, <1>7, <2>1, <2>3
    <3>2. ~\E i \in 1..Len(entries') : entries'[i] = e
      <4> SUFFICES ASSUME NEW i \in 1..Len(entries'), entries'[i] = e PROVE FALSE
        OBVIOUS
      <4>1. e \in Remembers!Range(entries')
        BY <1>9, EntriesOf DEF Store
      <4>. QED
        BY <4>1 DEF Remembers!Lost, Remembers!Active
    <3>3. k = 1 /\ Len(s) = MaxEntries + 1
      BY <1>9, <3>1, <3>2
    <3>4. Head(entries) = entries[1]
      BY <1>7, <2>1
    <3>. QED
      BY <1>5, <1>7, <1>8, <2>1, <3>3, <3>4
  <2>. QED
    BY <2>2, <2>3
<1>13. last'.at = "save" /\ last'.place = place
  BY <1>2 DEF Remembers!Command
<1>. QED
  BY <1>11, <1>12, <1>13 DEF MemoryGoal, Remembers!LossHasReason

(* What a deletion or a clearing leaves out is what it asks for.           *)
LEMMA WithoutStep ==
    ASSUME MemoryInv, MemoryTypes', NEW ids, entries' = Remembers!Without(ids), nextId' = nextId
    PROVE  MemoryInv' /\ \A e \in Remembers!Lost : e.id \in ids
<1>1. /\ Store(entries', nextId)
      /\ \A k \in 1..Len(entries) : entries[k].id \notin ids =>
            \E i \in 1..Len(entries') : entries'[i] = entries[k]
  BY WithoutKeeps
<1>2. MemoryInv'
  BY <1>1 DEF MemoryInv, Store, Numbered, Distinct
<1>3. ASSUME NEW e \in Remembers!Lost PROVE e.id \in ids
  <2>1. PICK k \in 1..Len(entries) : e = entries[k]
    BY EntriesOf DEF MemoryInv, Store, Remembers!Lost, Remembers!Active
  <2>2. ASSUME NEW i \in 1..Len(entries'), entries'[i] = e PROVE FALSE
    <3>1. e \in Remembers!Range(entries')
      BY <1>1, <2>2, EntriesOf DEF Store
    <3>. QED
      BY <3>1 DEF Remembers!Lost, Remembers!Active
  <2>. QED
    BY <1>1, <2>1, <2>2
<1>. QED
  BY <1>2, <1>3

(* A deletion.                                                             *)
LEMMA DeleteStep ==
    ASSUME MemoryInv, MemoryTypes', NEW p \in Projects, Remembers!Delete(p)
    PROVE  MemoryGoal
<1>1. PICK i \in Remembers!Ids :
        /\ Remembers!Command(p, [at |-> "delete", by |-> p, id |-> i])
        /\ entries' = Remembers!Without({i})
        /\ nextId' = nextId
  BY DEF Remembers!Delete
<1>2. MemoryInv' /\ \A e \in Remembers!Lost : e.id = i
  BY <1>1, WithoutStep
<1>3. last'.at = "delete" /\ last'.id = i
  BY <1>1 DEF Remembers!Command
<1>. QED
  BY <1>2, <1>3 DEF MemoryGoal, Remembers!LossHasReason

(* A clearing: the ids it takes are of entries it may take, and no other   *)
(* entry has one of them.                                                  *)
LEMMA ClearStep ==
    ASSUME MemoryInv, MemoryTypes', NEW p \in Projects, Remembers!Clear(p)
    PROVE  MemoryGoal
<1>1. /\ Remembers!Command(p, [at |-> "clear", by |-> p])
      /\ entries' = Remembers!Without(Remembers!Cleared(p))
      /\ nextId' = nextId
  BY DEF Remembers!Clear
<1>2. MemoryInv' /\ \A e \in Remembers!Lost : e.id \in Remembers!Cleared(p)
  BY <1>1, WithoutStep
<1>3. ASSUME NEW e \in Remembers!Lost PROVE e.place \in {p, Remembers!Global}
  <2>1. PICK d \in Remembers!Range(entries) :
          d.id = e.id /\ d.place \in {p, Remembers!Global}
    BY <1>2 DEF Remembers!Cleared
  <2>2. e \in Remembers!Range(entries)
    BY DEF Remembers!Lost, Remembers!Active
  <2>3. d = e
    BY <2>1, <2>2, IdsBounded
  <2>. QED
    BY <2>1, <2>3
<1>4. last'.at = "clear" /\ last'.by = p
  BY <1>1 DEF Remembers!Command
<1>. QED
  BY <1>2, <1>3, <1>4 DEF MemoryGoal, Remembers!LossHasReason

(* The steps that do not save keep the types.                              *)
LEMMA MemoryTypesStep ==
    ASSUME MemoryInv, NEW p \in Projects,
           \/ Remembers!SaveKnown(p) \/ Remembers!Delete(p) \/ Remembers!Clear(p)
           \/ Remembers!Search(p) \/ Remembers!Embedded(p) \/ Remembers!Prunes(p)
           \/ Remembers!Fails(p)
    PROVE  MemoryTypes'
<1> USE DEF MemoryInv, MemoryTypes
<1>0. /\ \A act : Remembers!Command(p, act) => ops' \in 0..MaxOps
      /\ Remembers!Idle \in Tasks /\ [at |-> "pruning"] \in Tasks
  BY LocalAssumption DEF Remembers!Command, Tasks, Remembers!MemoryAssumption
<1>1. CASE Remembers!SaveKnown(p)
  <2>1. PICK e \in Remembers!Active :
          /\ Remembers!Command(p, [at |-> "known", by |-> p])
          /\ task' = [task EXCEPT ![p] = IF e.id \in vectors THEN Remembers!Idle
                                   ELSE [at |-> "embedding", ids |-> {e.id}]]
          /\ UNCHANGED <<entries, nextId, vectors>>
    BY <1>1 DEF Remembers!SaveKnown
  <2>2. [at |-> "embedding", ids |-> {e.id}] \in Tasks
    BY IdsBounded DEF Tasks
  <2>. QED
    BY <1>0, <2>1, <2>2
<1>2. CASE Remembers!Delete(p)
  <2>1. PICK i \in Remembers!Ids :
          /\ Remembers!Command(p, [at |-> "delete", by |-> p, id |-> i])
          /\ entries' = Remembers!Without({i})
          /\ vectors' = vectors \ {i}
          /\ UNCHANGED <<nextId, task>>
    BY <1>2 DEF Remembers!Delete
  <2>2. Len(Remembers!Without({i})) <= Len(entries)
        /\ Remembers!Without({i}) \in Seq(Entry) /\ entries \in Seq(Entry)
    BY WithoutKeeps DEF Store
  <2>3. Len(entries') <= MaxEntries
    BY <2>1, <2>2, LenProperties, LocalAssumption DEF Remembers!MemoryAssumption
  <2>. QED
    BY <1>0, <2>1, <2>3
<1>3. CASE Remembers!Clear(p)
  <2>1. /\ Remembers!Command(p, [at |-> "clear", by |-> p])
        /\ entries' = Remembers!Without(Remembers!Cleared(p))
        /\ vectors' = vectors \ Remembers!Cleared(p)
        /\ UNCHANGED <<nextId, task>>
    BY <1>3 DEF Remembers!Clear
  <2>2. Len(entries') <= Len(entries) /\ entries' \in Seq(Entry) /\ entries \in Seq(Entry)
    BY <2>1, WithoutKeeps DEF Store
  <2>3. Len(entries') <= MaxEntries
    BY <2>2, LenProperties, LocalAssumption DEF Remembers!MemoryAssumption
  <2>. QED
    BY <1>0, <2>1, <2>3
<1>4. CASE Remembers!Search(p)
  <2>1. {e.id : e \in Remembers!Visible(p)} \ vectors \subseteq 0..MaxIds
    BY IdsBounded DEF Remembers!Visible, Remembers!Own
  <2>2. [at |-> "searching", ids |-> {e.id : e \in Remembers!Visible(p)} \ vectors] \in Tasks
    BY <2>1 DEF Tasks
  <2>. QED
    BY <1>0, <1>4, <2>2 DEF Remembers!Search
<1>5. CASE Remembers!Embedded(p)
  <2>1. task[p].ids \subseteq 0..MaxIds
    BY <1>5 DEF Remembers!Embedded, Tasks, Remembers!Idle
  <2>. QED
    BY <1>0, <1>5, <2>1 DEF Remembers!Embedded
<1>6. CASE Remembers!Prunes(p)
  BY <1>0, <1>6 DEF Remembers!Prunes
<1>7. CASE Remembers!Fails(p)
  BY <1>0, <1>7 DEF Remembers!Fails
<1>. QED
  BY <1>1, <1>2, <1>3, <1>4, <1>5, <1>6, <1>7

(* Every step of the memory.                                               *)
LEMMA MemoryStep == MemoryInv /\ Remembers!Next => MemoryGoal
<1> SUFFICES ASSUME MemoryInv, NEW p \in Projects,
                    \/ Remembers!SaveKnown(p) \/ Remembers!Save(p) \/ Remembers!Delete(p)
                    \/ Remembers!Clear(p) \/ Remembers!Search(p) \/ Remembers!Embedded(p)
                    \/ Remembers!Prunes(p) \/ Remembers!Fails(p)
             PROVE  MemoryGoal
  BY DEF Remembers!Next
<1>1. CASE Remembers!Save(p)
  BY <1>1, SaveStep
<1>2. CASE Remembers!Delete(p)
  BY <1>2, DeleteStep, MemoryTypesStep
<1>3. CASE Remembers!Clear(p)
  BY <1>3, ClearStep, MemoryTypesStep
<1>4. CASE \/ Remembers!SaveKnown(p) \/ Remembers!Search(p) \/ Remembers!Embedded(p)
           \/ Remembers!Prunes(p) \/ Remembers!Fails(p)
  <2>1. entries' = entries /\ nextId' = nextId
    BY <1>4 DEF Remembers!SaveKnown, Remembers!Search, Remembers!Embedded, Remembers!Prunes,
       Remembers!Fails
  <2>2. MemoryTypes'
    BY <1>4, MemoryTypesStep
  <2>. QED
    BY <2>1, <2>2, SameFile
<1>. QED
  BY <1>1, <1>2, <1>3, <1>4

(* The store is one in every state.                                        *)
MemoryKept == part = "memory" => MemoryInv
(* The memory invariant holds in every behaviour.                          *)
LEMMA MemoryInvariant == LocalSpec => []MemoryKept
<1> USE DEF MemoryKept
<1>1. LocalInit => MemoryKept
  BY MemoryInit DEF LocalInit
<1>2. MemoryKept /\ [LocalNext]_localVars => MemoryKept'
  <2> SUFFICES ASSUME MemoryKept, [LocalNext]_localVars PROVE MemoryKept'
    OBVIOUS
  <2>1. CASE part = "memory" /\ Remembers!Next /\ UNCHANGED part
    BY <2>1, MemoryStep DEF MemoryGoal
  <2>2. CASE part # "memory" /\ UNCHANGED part
    BY <2>2
  <2>3. CASE UNCHANGED localVars
    BY <2>3 DEF localVars, memoryVars, MemoryInv, MemoryTypes, Store, Numbered, Distinct
  <2>. QED
    BY <2>1, <2>2, <2>3 DEF LocalNext
<1>. QED
  BY <1>1, <1>2, PTL DEF LocalSpec, localVars

(* Whoever saves, deletes and clears at the same time, from whatever       *)
(* project, a key has one active memory in a place and no fact is active   *)
(* twice (LongTermMemory.save).                                            *)
THEOREM OneActiveHolds == LocalSpec => []OneActive
<1>1. MemoryInv => Remembers!TypeOK /\ Remembers!OneActive
  <2> SUFFICES ASSUME MemoryInv PROVE Remembers!TypeOK /\ Remembers!OneActive
    OBVIOUS
  <2>1. Remembers!TypeOK
    BY IdsBounded DEF Remembers!TypeOK, MemoryInv, MemoryTypes, Entry
  <2>2. ASSUME NEW d \in Remembers!Active, NEW e \in Remembers!Active, d # e
        PROVE  ~Alike(d, e)
    <3>1. PICK i \in 1..Len(entries) : d = entries[i]
      BY EntriesOf DEF MemoryInv, Store, Remembers!Active
    <3>2. PICK j \in 1..Len(entries) : e = entries[j]
      BY EntriesOf DEF MemoryInv, Store, Remembers!Active
    <3>. QED
      BY <2>2, <3>1, <3>2 DEF MemoryInv, Store, Distinct, Remembers!Active
  <2>. QED
    BY <2>1, <2>2 DEF Remembers!OneActive, Alike
<1>2. MemoryKept => OneActive
  BY <1>1 DEF OneActive, MemoryKept
<1>. QED
  BY <1>2, MemoryInvariant, PTL

(* A memory goes only when it is superseded, deleted or cleared, or as the *)
(* oldest of a full store (LongTermMemory._write_unlocked).                *)
THEOREM LostForAReasonHolds == LocalSpec => LostForAReason
<1>1. MemoryKept /\ [LocalNext]_localVars
      => [part = "memory" => Remembers!LossHasReason]_<<part, memoryVars>>
  <2> SUFFICES ASSUME MemoryKept, [LocalNext]_localVars, part = "memory"
               PROVE  Remembers!LossHasReason \/ UNCHANGED <<part, memoryVars>>
    OBVIOUS
  <2>1. CASE Remembers!Next
    BY <2>1, MemoryStep DEF MemoryGoal, MemoryKept
  <2>2. CASE UNCHANGED localVars
    BY <2>2 DEF localVars
  <2>. QED
    BY <2>1, <2>2 DEF LocalNext
<1>. QED
  BY <1>1, MemoryInvariant, PTL DEF LocalSpec, localVars, LostForAReason
-----------------------------------------------------------------------------
(*                        The code index (CodeIndex)                        *)

IndexRuns == [at : {"scanning", "read", "relations", "embedding", "done"}, sig : Signatures,
              scope : SUBSET Files, todo : SUBSET Files, current : SUBSET Files,
              rebuild : BOOLEAN, file : Files \cup {Absent}, text : Texts \cup {Absent, TooBig},
              pending : SUBSET (Files \X Texts), quiet : BOOLEAN]
(* A run that has read a file has its text, and goes on to the relations   *)
(* of a text only.                                                         *)
RunOK(r) ==
    \/ r = Idle
    \/ /\ r \in IndexRuns
       /\ r.at \in {"read", "relations"} => r.file \in Files /\ r.text # Absent
       /\ r.at = "relations" => r.text \in Texts
CodeTypes == TypeOK /\ run \in [Processes -> {r \in {Idle} \cup IndexRuns : RunOK(r)}]

(* The chunks of a file are of its present text and the embedding.         *)
Right(f) == chunks[f] = IF disk[f] \in Texts THEN [text |-> disk[f], sig |-> signature] ELSE Absent

(* A run of the whole workspace that nobody has disturbed knows the files  *)
(* as they are, and has the chunks of each right, or has still to do it.   *)
Watched(r) == r.at # "idle" /\ r.quiet /\ r.scope = Files
RunsWell(r) ==
    /\ signature = r.sig
    /\ r.current = {f \in Files : disk[f] # Absent}
    /\ r.todo \subseteq r.current
    /\ r.at \in {"read", "relations"} => r.text = disk[r.file]
    /\ \A item \in r.pending : item[2] = disk[item[1]]
    /\ \A f \in r.current : \/ f \in r.todo
                            \/ r.at = "read" /\ f = r.file
                            \/ <<f, disk[f]>> \in r.pending
                            \/ Right(f)
    /\ r.at = "done" => \A f \in Files : Right(f)
QuietInv == \A p \in Processes : Watched(run[p]) => RunsWell(run[p])

CodeInv == CodeTypes /\ StateTellsChunks /\ QuietInv

(* The tables are empty and nothing runs.                                  *)
LEMMA CodeInit == Init => CodeInv
<1> SUFFICES ASSUME Init PROVE CodeInv
  OBVIOUS
<1> USE DEF Init
<1>1. 0 \in 0..MaxRuns /\ 0 \in 0..MaxEdits
  BY LocalAssumption DEF CodeIndexAssumption
<1>2. TypeOK
  BY <1>1 DEF TypeOK, NoRows, Of
<1>3. CodeTypes
  BY <1>2 DEF CodeTypes, RunOK
<1>4. StateTellsChunks
  BY DEF StateTellsChunks, NoRows
<1>5. QuietInv
  BY DEF QuietInv, Watched, Idle
<1>. QED
  BY <1>3, <1>4, <1>5 DEF CodeInv

(* A run that goes on without being idle is of its type.                   *)
LEMMA RunFields ==
    ASSUME CodeTypes, NEW p \in Processes, run[p].at # "idle"
    PROVE  run[p] \in IndexRuns /\ RunOK(run[p])
BY DEF CodeTypes, RunOK, Idle

(* After a disturbance no run but those excepted is watched.               *)
LEMMA DisturbedRuns ==
    ASSUME CodeTypes, NEW except
    PROVE  /\ Disturbed(except) \in [Processes -> {r \in {Idle} \cup IndexRuns : RunOK(r)}]
           /\ \A p \in Processes \ except : ~Watched(Disturbed(except)[p])
           /\ \A p \in except \cap Processes : Disturbed(except)[p] = run[p]
<1>1. ASSUME NEW p \in Processes
      PROVE  /\ Disturbed(except)[p] \in {Idle} \cup IndexRuns /\ RunOK(Disturbed(except)[p])
             /\ p \notin except => ~Watched(Disturbed(except)[p])
             /\ p \in except => Disturbed(except)[p] = run[p]
  <2>0. run[p] \in {Idle} \cup IndexRuns /\ RunOK(run[p])
    BY DEF CodeTypes
  <2>1. CASE p \in except \/ run[p] = Idle
    BY <2>0, <2>1 DEF Disturbed, Watched, Idle
  <2>2. CASE ~(p \in except \/ run[p] = Idle)
    <3>1. Disturbed(except)[p] = [run[p] EXCEPT !.quiet = FALSE]
      BY <2>2 DEF Disturbed
    <3>2. run[p] \in IndexRuns
      BY <2>0, <2>2
    <3>. QED
      BY <2>0, <2>2, <3>1, <3>2 DEF IndexRuns, RunOK, Watched
  <2>. QED
    BY <2>1, <2>2
<1>. QED
  BY <1>1 DEF Disturbed

(* A step of one run that writes no table: the others see nothing of it.   *)
LEMMA GoesStep ==
    ASSUME CodeInv, NEW p \in Processes, run' = [run EXCEPT ![p] = run'[p]], RunOK(run'[p]),
           (Watched(run[p]) => RunsWell(run[p]))',
           UNCHANGED <<disk, tables, edits, rebuilt>>, runs' = runs
    PROVE  CodeInv'
<1>0. UNCHANGED <<disk, chunks, fileState, relations, signature>>
  BY DEF tables
<1>1. CodeTypes'
  <2>1. TypeOK'
    BY <1>0 DEF CodeInv, CodeTypes, TypeOK
  <2>2. run' \in [Processes -> {r \in {Idle} \cup IndexRuns : RunOK(r)}]
    BY DEF CodeInv, CodeTypes, RunOK
  <2>. QED
    BY <2>1, <2>2 DEF CodeTypes
<1>2. StateTellsChunks'
  BY <1>0 DEF CodeInv, StateTellsChunks
<1>3. ASSUME NEW q \in Processes PROVE (Watched(run[q]) => RunsWell(run[q]))'
  <2>1. CASE q = p
    BY <2>1
  <2>2. CASE q # p
    <3>1. run'[q] = run[q]
      BY <2>2 DEF CodeInv, CodeTypes
    <3>2. Watched(run[q]) => RunsWell(run[q])
      BY DEF CodeInv, QuietInv
    <3>. QED
      BY <1>0, <3>1, <3>2 DEF RunsWell, Right, Watched
  <2>. QED
    BY <2>1, <2>2
<1>. QED
  BY <1>1, <1>2, <1>3 DEF CodeInv, QuietInv

(* A step of one run that writes the tables: nobody else is watched after. *)
LEMMA WritesStep ==
    ASSUME CodeInv, NEW p \in Processes, run' = [Disturbed({p}) EXCEPT ![p] = run'[p]],
           RunOK(run'[p]), TypeOK', StateTellsChunks',
           (Watched(run[p]) => RunsWell(run[p]))'
    PROVE  CodeInv'
<1> DEFINE R == {x \in {Idle} \cup IndexRuns : RunOK(x)}
<1>1. Disturbed({p}) \in [Processes -> R] /\ \A q \in Processes \ {p} : ~Watched(Disturbed({p})[q])
  BY DisturbedRuns DEF CodeInv
<1>2. run'[p] \in R
  BY DEF RunOK
<1>3. run' \in [Processes -> R] /\ \A q \in Processes \ {p} : run'[q] = Disturbed({p})[q]
  BY <1>1, <1>2
<1>4. CodeTypes'
  BY <1>3 DEF CodeTypes
<1>5. \A q \in Processes \ {p} : ~Watched(run'[q])
  BY <1>1, <1>3
<1>6. QuietInv'
  BY <1>5 DEF QuietInv, Watched
<1>. QED
  BY <1>4, <1>6 DEF CodeInv

(* A file is edited.                                                       *)
LEMMA EditStep ==
    ASSUME CodeInv, NEW f \in Files, Edit(f)
    PROVE  CodeInv'
<1>1. run' = Disturbed({}) /\ UNCHANGED <<chunks, fileState, relations, signature, runs, rebuilt>>
  BY DEF Edit, tables
<1>2. TypeOK'
  <2>1. disk' \in [Files -> Texts \cup {Absent, TooBig}]
    BY DEF Edit, CodeInv, CodeTypes, TypeOK
  <2>2. edits' \in 0..MaxEdits
    BY LocalAssumption DEF Edit, CodeInv, CodeTypes, TypeOK, CodeIndexAssumption
  <2>. QED
    BY <1>1, <2>1, <2>2 DEF CodeInv, CodeTypes, TypeOK
<1>3. CodeTypes' /\ QuietInv'
  BY <1>1, <1>2, DisturbedRuns DEF CodeInv, CodeTypes, QuietInv, Watched
<1>4. StateTellsChunks'
  BY <1>1 DEF CodeInv, StateTellsChunks
<1>. QED
  BY <1>3, <1>4 DEF CodeInv

(* A search drops the states of chunks of another embedding.               *)
LEMMA SearchStep ==
    ASSUME CodeInv, Search
    PROVE  CodeInv'
<1> DEFINE corrupt == {f \in Paths : chunks[f].sig # signature}
<1>1. /\ fileState' = [f \in Files |-> IF f \in corrupt THEN Absent ELSE fileState[f]]
      /\ run' = IF corrupt = {} THEN run ELSE Disturbed({})
      /\ UNCHANGED <<disk, chunks, relations, signature, runs, edits, rebuilt>>
  BY DEF Search
<1> HIDE DEF corrupt
<1>2. TypeOK'
  BY <1>1 DEF CodeInv, CodeTypes, TypeOK, Of
<1>3. CodeTypes'
  BY <1>1, <1>2, DisturbedRuns DEF CodeInv, CodeTypes
<1>4. StateTellsChunks'
  BY <1>1 DEF CodeInv, StateTellsChunks
<1>5. QuietInv'
  <2>1. CASE corrupt = {}
    BY <1>1, <2>1 DEF CodeInv, QuietInv, Watched, RunsWell, Right
  <2>2. CASE corrupt # {}
    BY <1>1, <2>2, DisturbedRuns DEF CodeInv, QuietInv, Watched
  <2>. QED
    BY <2>1, <2>2
<1>. QED
  BY <1>3, <1>4, <1>5 DEF CodeInv

(* A run begins: every file there is is still to do.                       *)
LEMMA BeginsStep ==
    ASSUME CodeInv, NEW p \in Processes, Begins(p)
    PROVE  CodeInv'
<1>1. PICK sig \in Signatures, scope \in {Files} \cup {{f} : f \in Files} :
        /\ runs < MaxRuns
        /\ runs' = runs + 1
        /\ LET present == {f \in scope : disk[f] # Absent}
           IN  Writes(p, [at |-> "scanning", sig |-> sig, scope |-> scope, todo |-> present,
                          current |-> present, rebuild |-> ~relationsCurrent,
                          file |-> Absent, text |-> Absent, pending |-> {}, quiet |-> TRUE])
        /\ IF sig = signature
           THEN UNCHANGED <<chunks, fileState, relations, signature>>
           ELSE /\ chunks' = NoRows /\ fileState' = NoRows /\ relations' = NoRows
                /\ signature' = sig
        /\ UNCHANGED <<disk, edits, rebuilt>>
  BY Zenon DEF Begins
<1> DEFINE present == {f \in scope : disk[f] # Absent}
           r == [at |-> "scanning", sig |-> sig, scope |-> scope, todo |-> present,
                 current |-> present, rebuild |-> ~relationsCurrent,
                 file |-> Absent, text |-> Absent, pending |-> {}, quiet |-> TRUE]
<1>2. r \in IndexRuns
  BY DEF IndexRuns
<1>3. run' = [Disturbed({p}) EXCEPT ![p] = r]
  BY <1>1 DEF Writes
<1>4. run'[p] = r
  BY <1>3, DisturbedRuns DEF CodeInv
<1>5. signature' = sig
  BY <1>1
<1>6. RunOK(run'[p])
  BY <1>2, <1>4 DEF RunOK
<1>7. TypeOK'
  BY <1>1, LocalAssumption DEF CodeInv, CodeTypes, TypeOK, NoRows, Of, CodeIndexAssumption
<1>8. StateTellsChunks'
  <2>1. CASE sig = signature
    BY <1>1, <2>1 DEF CodeInv, StateTellsChunks
  <2>2. CASE sig # signature
    BY <1>1, <2>2 DEF StateTellsChunks, NoRows
  <2>. QED
    BY <2>1, <2>2
<1>9. (Watched(run[p]) => RunsWell(run[p]))'
  BY <1>1, <1>4, <1>5 DEF Watched, RunsWell
<1>. QED
  BY <1>3, <1>4, <1>6, <1>7, <1>8, <1>9, WritesStep

(* A file is read; or cannot be, and the run is not watched any longer.    *)
LEMMA ReadsStep ==
    ASSUME CodeInv, NEW p \in Processes, Reads(p)
    PROVE  CodeInv'
<1>1. PICK f \in run[p].todo, readable \in BOOLEAN :
        /\ run[p].at = "scanning"
        /\ run' = [run EXCEPT ![p] =
                     IF readable /\ disk[f] # Absent
                     THEN [run[p] EXCEPT !.at = "read", !.todo = @ \ {f},
                                         !.file = f, !.text = disk[f]]
                     ELSE [run[p] EXCEPT !.todo = @ \ {f}, !.quiet = FALSE]]
        /\ UNCHANGED <<disk, tables, runs, edits, rebuilt>>
  BY DEF Reads, Goes
<1>2. run[p] \in IndexRuns
  BY <1>1, RunFields DEF CodeInv
<1>3. f \in Files /\ disk[f] \in Texts \cup {Absent, TooBig}
  BY <1>2 DEF IndexRuns, CodeInv, CodeTypes, TypeOK
<1>4. run \in [Processes -> {r \in {Idle} \cup IndexRuns : RunOK(r)}]
  BY DEF CodeInv, CodeTypes
<1>5. CASE readable /\ disk[f] # Absent
  <2>1. run'[p] = [run[p] EXCEPT !.at = "read", !.todo = @ \ {f}, !.file = f, !.text = disk[f]]
    BY <1>1, <1>4, <1>5
  <2>0. /\ run'[p].at = "read" /\ run'[p].file = f /\ run'[p].text = disk[f]
        /\ run'[p].todo = run[p].todo \ {f} /\ run'[p].sig = run[p].sig
        /\ run'[p].scope = run[p].scope /\ run'[p].current = run[p].current
        /\ run'[p].pending = run[p].pending /\ run'[p].quiet = run[p].quiet
    BY <1>2, <2>1 DEF IndexRuns
  <2>2. run'[p] \in IndexRuns /\ RunOK(run'[p])
    <3>1. run[p].todo \ {f} \in SUBSET Files
      BY <1>2 DEF IndexRuns
    <3>2. run'[p] \in IndexRuns
      BY <1>2, <1>3, <2>1, <3>1 DEF IndexRuns
    <3>. QED
      BY <1>3, <1>5, <2>0, <3>2 DEF RunOK
  <2>3. Watched(run'[p]) => Watched(run[p])
    BY <1>1, <1>2, <2>1 DEF Watched, IndexRuns
  <2>4. ASSUME Watched(run'[p]) PROVE RunsWell(run[p])'
    <3>1. RunsWell(run[p])
      BY <2>3, <2>4 DEF CodeInv, QuietInv
    <3>2. UNCHANGED <<disk, chunks, signature>>
      BY <1>1 DEF tables
    <3>3. ASSUME NEW g \in run'[p].current
          PROVE  \/ g \in run'[p].todo
                 \/ run'[p].at = "read" /\ g = run'[p].file
                 \/ <<g, disk[g]>> \in run'[p].pending
                 \/ Right(g)
      BY <1>1, <2>0, <3>1 DEF RunsWell
    <3>4. \A g : Right(g)' = Right(g)
      BY <3>2 DEF Right
    <3>. QED
      BY <2>0, <3>1, <3>2, <3>3, <3>4 DEF RunsWell
  <2>. QED
    BY <1>1, <1>4, <2>1, <2>2, <2>4, GoesStep DEF Watched
<1>6. CASE ~(readable /\ disk[f] # Absent)
  <2>1. run'[p] = [run[p] EXCEPT !.todo = @ \ {f}, !.quiet = FALSE]
    BY <1>1, <1>4, <1>6
  <2>2. RunOK(run'[p])
    <3>1. run[p].todo \ {f} \in SUBSET Files
      BY <1>2 DEF IndexRuns
    <3>2. run'[p] = [[run[p] EXCEPT !.todo = run[p].todo \ {f}] EXCEPT !.quiet = FALSE]
      BY <1>2, <2>1 DEF IndexRuns
    <3>3. [run[p] EXCEPT !.todo = run[p].todo \ {f}] \in IndexRuns
      BY <1>2, <3>1 DEF IndexRuns
    <3>4. run'[p] \in IndexRuns
      BY <3>2, <3>3 DEF IndexRuns
    <3>5. [run[p] EXCEPT !.todo = run[p].todo \ {f}].at = "scanning"
      BY <1>1, <1>2 DEF IndexRuns
    <3>6. run'[p].at = "scanning"
      BY <3>2, <3>3, <3>5 DEF IndexRuns
    <3>. QED
      BY <3>4, <3>6 DEF RunOK
  <2>3. ~Watched(run'[p])
    BY <1>2, <2>1 DEF Watched, IndexRuns
  <2>. QED
    BY <1>1, <1>4, <2>1, <2>2, <2>3, GoesStep DEF Watched
<1>. QED
  BY <1>5, <1>6

(* A watched run that goes on with the same knowledge, in a step that      *)
(* leaves the files and their chunks alone.                                *)
LEMMA StaysWell ==
    ASSUME CodeInv, NEW p \in Processes, run[p].at # "idle", run'[p].at # "idle",
           run'[p].quiet = run[p].quiet, run'[p].scope = run[p].scope,
           run'[p].sig = run[p].sig, run'[p].current = run[p].current,
           run'[p].todo = run[p].todo,
           run'[p].at \in {"read", "relations"} => run'[p].text = run[p].text
               /\ run'[p].file = run[p].file /\ run[p].at \in {"read", "relations"},
           Watched(run[p]) /\ RunsWell(run[p]) =>
             /\ \A item \in run'[p].pending : item[2] = disk[item[1]]
             /\ \A f \in run[p].current :
                   \/ run[p].at = "read" /\ f = run[p].file
                   \/ <<f, disk[f]>> \in run[p].pending
                   => \/ run'[p].at = "read" /\ f = run'[p].file
                      \/ <<f, disk[f]>> \in run'[p].pending
                      \/ Right(f)
             /\ run'[p].at = "done" => \A f \in Files : Right(f),
           UNCHANGED <<disk, chunks, signature>>
    PROVE  (Watched(run[p]) => RunsWell(run[p]))'
<1> SUFFICES ASSUME Watched(run'[p]) PROVE RunsWell(run[p])'
  BY DEF Watched
<1>1. Watched(run[p]) /\ RunsWell(run[p])
  BY DEF Watched, CodeInv, QuietInv
<1>2. \A g : Right(g)' = Right(g)
  BY DEF Right
<1>3. ASSUME NEW g \in run'[p].current
      PROVE  \/ g \in run'[p].todo
             \/ run'[p].at = "read" /\ g = run'[p].file
             \/ <<g, disk[g]>> \in run'[p].pending
             \/ Right(g)
  <2>1. \/ g \in run[p].todo
        \/ run[p].at = "read" /\ g = run[p].file
        \/ <<g, disk[g]>> \in run[p].pending
        \/ Right(g)
    BY <1>1 DEF RunsWell
  <2>. QED
    BY <1>1, <2>1
<1>. QED
  BY <1>1, <1>2, <1>3 DEF RunsWell

(* A file is passed over: its state says that its chunks are right, and    *)
(* the state tells the truth.                                              *)
LEMMA SkipsStep ==
    ASSUME CodeInv, NEW p \in Processes, Skips(p)
    PROVE  CodeInv'
<1>1. /\ run[p].at = "read" /\ run[p].text # TooBig
      /\ Unchanged(p, run[p].file, run[p].text)
      /\ run' = [run EXCEPT ![p] =
                   [run[p] EXCEPT !.at = IF run[p].rebuild THEN "relations" ELSE "scanning"]]
      /\ UNCHANGED <<disk, tables, runs, edits, rebuilt>>
  BY DEF Skips, Goes
<1>2. run[p] \in IndexRuns /\ run[p].file \in Files /\ run[p].text \in Texts
  BY <1>1, RunFields DEF CodeInv, RunOK, IndexRuns, Idle
<1>3. run'[p] = [run[p] EXCEPT !.at = IF run[p].rebuild THEN "relations" ELSE "scanning"]
  BY <1>1 DEF CodeInv, CodeTypes
<1>4. /\ run'[p] \in IndexRuns /\ run'[p].at \in {"relations", "scanning"}
      /\ run'[p].file = run[p].file /\ run'[p].text = run[p].text
      /\ run'[p].todo = run[p].todo /\ run'[p].sig = run[p].sig
      /\ run'[p].scope = run[p].scope /\ run'[p].current = run[p].current
      /\ run'[p].pending = run[p].pending /\ run'[p].quiet = run[p].quiet
  BY <1>2, <1>3 DEF IndexRuns
<1>5. RunOK(run'[p])
  <2>1. run[p].text # Absent
    BY <1>2, LocalAssumption DEF CodeIndexAssumption
  <2>. QED
    BY <1>2, <1>4, <2>1 DEF RunOK
<1>6. ASSUME Watched(run[p]), RunsWell(run[p]) PROVE Right(run[p].file)
  <2>1. /\ fileState[run[p].file] # Absent
        /\ fileState[run[p].file].text = run[p].text /\ fileState[run[p].file].sig = run[p].sig
    BY <1>1 DEF Unchanged, SameText
  <2>2. fileState[run[p].file] = [text |-> run[p].text, sig |-> run[p].sig]
    BY <1>2, <2>1 DEF CodeInv, CodeTypes, TypeOK, Of
  <2>3. chunks[run[p].file] = fileState[run[p].file]
    BY <1>1, <1>2, <2>1 DEF CodeInv, StateTellsChunks
  <2>4. run[p].text = disk[run[p].file] /\ signature = run[p].sig
    BY <1>1, <1>6 DEF RunsWell
  <2>. QED
    BY <1>2, <2>2, <2>3, <2>4 DEF Right
<1>7. (Watched(run[p]) => RunsWell(run[p]))'
  <2>1. UNCHANGED <<disk, chunks, signature>>
    BY <1>1 DEF tables
  <2>2. Watched(run[p]) /\ RunsWell(run[p]) => \A item \in run'[p].pending : item[2] = disk[item[1]]
    BY <1>4 DEF RunsWell
  <2>. QED
    BY <1>1, <1>4, <1>6, <2>1, <2>2, StaysWell
<1>. QED
  BY <1>1, <1>3, <1>5, <1>7, GoesStep

(* A file is queued for its vectors.                                       *)
LEMMA QueuesStep ==
    ASSUME CodeInv, NEW p \in Processes, Queues(p)
    PROVE  CodeInv'
<1>1. PICK next \in {"scanning", "embedding"} :
      /\ run[p].at = "read" /\ run[p].text # TooBig
      /\ run' = [run EXCEPT ![p] =
                   [run[p] EXCEPT !.at = next,
                                  !.pending = @ \cup {<<run[p].file, run[p].text>>}]]
      /\ UNCHANGED <<disk, tables, runs, edits, rebuilt>>
  BY DEF Queues, Goes
<1>2. run[p] \in IndexRuns /\ run[p].file \in Files /\ run[p].text \in Texts
  BY <1>1, RunFields DEF CodeInv, RunOK, IndexRuns, Idle
<1>3. run'[p] = [run[p] EXCEPT !.at = next, !.pending = @ \cup {<<run[p].file, run[p].text>>}]
  BY <1>1 DEF CodeInv, CodeTypes
<1>4. /\ run'[p].at \in {"embedding", "scanning"}
      /\ run'[p].todo = run[p].todo /\ run'[p].sig = run[p].sig
      /\ run'[p].scope = run[p].scope /\ run'[p].current = run[p].current
      /\ run'[p].pending = run[p].pending \cup {<<run[p].file, run[p].text>>}
      /\ run'[p].quiet = run[p].quiet
  BY <1>2, <1>3 DEF IndexRuns
<1>5. RunOK(run'[p])
  <2>1. run[p].pending \cup {<<run[p].file, run[p].text>>} \in SUBSET (Files \X Texts)
    BY <1>2 DEF IndexRuns
  <2>2. run'[p] \in IndexRuns
    BY <1>2, <1>3, <2>1 DEF IndexRuns
  <2>. QED
    BY <1>4, <2>2 DEF RunOK
<1>6. (Watched(run[p]) => RunsWell(run[p]))'
  <2>1. UNCHANGED <<disk, chunks, signature>>
    BY <1>1 DEF tables
  <2>2. Watched(run[p]) /\ RunsWell(run[p]) =>
          /\ run[p].text = disk[run[p].file]
          /\ \A item \in run'[p].pending : item[2] = disk[item[1]]
    BY <1>1, <1>4 DEF RunsWell
  <2>. QED
    BY <1>1, <1>4, <2>1, <2>2, StaysWell
<1>. QED
  BY <1>1, <1>3, <1>5, <1>6, GoesStep

(* The scan is over, and the vectors of the rest are asked for.            *)
LEMMA FlushesStep ==
    ASSUME CodeInv, NEW p \in Processes, Flushes(p)
    PROVE  CodeInv'
<1>1. /\ run[p].at = "scanning"
      /\ run' = [run EXCEPT ![p] = [run[p] EXCEPT !.at = "embedding"]]
      /\ UNCHANGED <<disk, tables, runs, edits, rebuilt>>
  BY DEF Flushes, Goes
<1>2. run[p] \in IndexRuns
  BY <1>1, RunFields DEF CodeInv
<1>3. run'[p] = [run[p] EXCEPT !.at = "embedding"]
  BY <1>1 DEF CodeInv, CodeTypes
<1>4. /\ run'[p] \in IndexRuns /\ run'[p].at = "embedding"
      /\ run'[p].todo = run[p].todo /\ run'[p].sig = run[p].sig
      /\ run'[p].scope = run[p].scope /\ run'[p].current = run[p].current
      /\ run'[p].pending = run[p].pending /\ run'[p].quiet = run[p].quiet
  BY <1>2, <1>3 DEF IndexRuns
<1>5. RunOK(run'[p])
  BY <1>4 DEF RunOK
<1>6. (Watched(run[p]) => RunsWell(run[p]))'
  <2>1. UNCHANGED <<disk, chunks, signature>>
    BY <1>1 DEF tables
  <2>2. Watched(run[p]) /\ RunsWell(run[p]) => \A item \in run'[p].pending : item[2] = disk[item[1]]
    BY <1>4 DEF RunsWell
  <2>. QED
    BY <1>1, <1>4, <2>1, <2>2, StaysWell
<1>. QED
  BY <1>1, <1>3, <1>5, <1>6, GoesStep

(* A run ends, at whatever point.                                          *)
LEMMA EndsStep ==
    ASSUME CodeInv, NEW p \in Processes, Ends(p)
    PROVE  CodeInv'
<1>1. run' = [run EXCEPT ![p] = Idle] /\ UNCHANGED <<disk, tables, runs, edits, rebuilt>>
  BY DEF Ends, Goes
<1>2. run'[p] = Idle
  BY <1>1 DEF CodeInv, CodeTypes
<1>3. RunOK(run'[p]) /\ ~Watched(run'[p])
  BY <1>2 DEF RunOK, Watched, Idle
<1>. QED
  BY <1>1, <1>2, <1>3, GoesStep DEF Watched

(* The transaction of a file leaves its rows of one text and embedding,    *)
(* and the rows of the others alone.                                       *)
LEMMA ReplacePathKeeps ==
    ASSUME CodeInv, NEW p \in Processes, run[p].sig \in Signatures, NEW f \in Files,
           NEW words \in Texts \cup {TooBig}, ReplacePath(p, f, words)
    PROVE  /\ chunks' \in [Files -> Of(Texts)]
           /\ fileState' \in [Files -> Of(Texts \cup {TooBig})]
           /\ relations' \in [Files -> Texts \cup {Absent}]
           /\ rebuilt' \subseteq Files
           /\ StateTellsChunks'
           /\ chunks'[f] = IF words = TooBig THEN Absent ELSE [text |-> words, sig |-> run[p].sig]
           /\ \A g \in Files \ {f} : chunks'[g] = chunks[g]
<1>1. [text |-> words, sig |-> run[p].sig] \in Of(Texts \cup {TooBig})
  BY DEF Of
<1>2. words # TooBig => words \in Texts /\ [text |-> words, sig |-> run[p].sig] \in Of(Texts)
  BY DEF Of
<1>3. /\ chunks' \in [Files -> Of(Texts)]
      /\ fileState' \in [Files -> Of(Texts \cup {TooBig})]
      /\ relations' \in [Files -> Texts \cup {Absent}]
      /\ rebuilt' \subseteq Files
  BY <1>1, <1>2 DEF ReplacePath, CodeInv, CodeTypes, TypeOK, Of
<1>4. /\ chunks'[f] = IF words = TooBig THEN Absent ELSE [text |-> words, sig |-> run[p].sig]
      /\ fileState'[f] = [text |-> words, sig |-> run[p].sig]
      /\ relations'[f] = IF words = TooBig THEN Absent ELSE words
      /\ \A g \in Files \ {f} : chunks'[g] = chunks[g] /\ fileState'[g] = fileState[g]
                                /\ relations'[g] = relations[g]
                                /\ (g \in rebuilt' <=> g \in rebuilt)
  BY DEF ReplacePath, CodeInv, CodeTypes, TypeOK
<1>5. StateTellsChunks'
  <2> SUFFICES ASSUME NEW g \in Files, fileState'[g] # Absent
               PROVE  /\ chunks'[g] = IF fileState'[g].text = TooBig THEN Absent
                                                                     ELSE fileState'[g]
                      /\ g \notin rebuilt' =>
                           relations'[g] = IF fileState'[g].text = TooBig
                                           THEN Absent ELSE fileState'[g].text
    BY DEF StateTellsChunks
  <2>1. CASE g = f
    BY <1>4, <2>1
  <2>2. CASE g # f
    BY <1>4, <2>2 DEF CodeInv, StateTellsChunks
  <2>. QED
    BY <2>1, <2>2
<1>. QED
  BY <1>3, <1>4, <1>5

(* A file that is too big loses its rows.                                  *)
LEMMA ExcludesStep ==
    ASSUME CodeInv, NEW p \in Processes, Excludes(p)
    PROVE  CodeInv'
<1>1. /\ run[p].at = "read" /\ run[p].text = TooBig
      /\ ReplacePath(p, run[p].file, TooBig)
      /\ run' = [Disturbed({p}) EXCEPT ![p] = [run[p] EXCEPT !.at = "scanning"]]
      /\ UNCHANGED <<disk, signature, runs, edits>>
  BY DEF Excludes, Writes
<1>2. run[p] \in IndexRuns /\ run[p].sig \in Signatures
  BY <1>1, RunFields DEF CodeInv, IndexRuns
<1>0. PICK f \in Files : f = run[p].file
  BY <1>1, RunFields DEF CodeInv, RunOK, Idle
<1>3. run'[p] = [run[p] EXCEPT !.at = "scanning"]
  BY <1>1, DisturbedRuns DEF CodeInv
<1>4. /\ run'[p] \in IndexRuns /\ run'[p].at = "scanning"
      /\ run'[p].todo = run[p].todo /\ run'[p].sig = run[p].sig
      /\ run'[p].scope = run[p].scope /\ run'[p].current = run[p].current
      /\ run'[p].pending = run[p].pending /\ run'[p].quiet = run[p].quiet
  BY <1>2, <1>3 DEF IndexRuns
<1>5. RunOK(run'[p])
  BY <1>4 DEF RunOK
<1>6. /\ chunks' \in [Files -> Of(Texts)]
      /\ fileState' \in [Files -> Of(Texts \cup {TooBig})]
      /\ relations' \in [Files -> Texts \cup {Absent}]
      /\ rebuilt' \subseteq Files
      /\ StateTellsChunks'
      /\ chunks'[f] = Absent
      /\ \A g \in Files \ {f} : chunks'[g] = chunks[g]
  <2>1. ReplacePath(p, f, TooBig) /\ TooBig \in Texts \cup {TooBig}
    BY <1>0, <1>1
  <2>. QED
    BY <1>2, <2>1, ReplacePathKeeps
<1>7. TypeOK'
  BY <1>1, <1>6 DEF CodeInv, CodeTypes, TypeOK
<1>8. (Watched(run[p]) => RunsWell(run[p]))'
  <2> SUFFICES ASSUME Watched(run'[p]) PROVE RunsWell(run[p])'
    BY DEF Watched
  <2>1. RunsWell(run[p])
    BY <1>1, <1>4 DEF Watched, CodeInv, QuietInv
  <2>2. disk[f] = TooBig
    BY <1>0, <1>1, <2>1 DEF RunsWell
  <2>3. Right(f)'
    BY <1>1, <1>6, <2>2, LocalAssumption DEF Right, CodeIndexAssumption
  <2>4. \A g \in Files \ {f} : Right(g)' = Right(g)
    BY <1>1, <1>6 DEF Right
  <2>5. \A g \in run[p].current : g \in Files
    BY <1>2 DEF IndexRuns
  <2>. QED
    BY <1>0, <1>1, <1>4, <2>1, <2>3, <2>4, <2>5 DEF RunsWell
<1>. QED
  BY <1>1, <1>3, <1>5, <1>6, <1>7, <1>8, WritesStep

(* The vectors of a file have come, and it is replaced.                    *)
LEMMA StoresStep ==
    ASSUME CodeInv, NEW p \in Processes, Stores(p)
    PROVE  CodeInv'
<1>1. PICK item \in run[p].pending :
      /\ run[p].at = "embedding"
      /\ ReplacePath(p, item[1], item[2])
      /\ run' = [Disturbed({p}) EXCEPT ![p] =
                   [run[p] EXCEPT !.pending = @ \ {item},
                        !.at = IF run[p].pending = {item} THEN "scanning" ELSE "embedding"]]
      /\ UNCHANGED <<disk, signature, runs, edits>>
  BY DEF Stores, Writes
<1> DEFINE f == item[1]
           words == item[2]
<1>2. run[p] \in IndexRuns /\ run[p].sig \in Signatures
  BY <1>1, RunFields DEF CodeInv, IndexRuns
<1>3. f \in Files /\ words \in Texts /\ item = <<f, words>>
  BY <1>1, <1>2 DEF IndexRuns
<1>4. run'[p] = [run[p] EXCEPT !.pending = @ \ {item},
                      !.at = IF run[p].pending = {item} THEN "scanning" ELSE "embedding"]
  BY <1>1, DisturbedRuns DEF CodeInv
<1>5. /\ run'[p].at \in {"scanning", "embedding"}
      /\ run'[p].todo = run[p].todo /\ run'[p].sig = run[p].sig
      /\ run'[p].scope = run[p].scope /\ run'[p].current = run[p].current
      /\ run'[p].pending = run[p].pending \ {item} /\ run'[p].quiet = run[p].quiet
  BY <1>2, <1>4 DEF IndexRuns
<1>6. RunOK(run'[p])
  <2>1. run[p].pending \ {item} \in SUBSET (Files \X Texts)
    BY <1>2 DEF IndexRuns
  <2>2. run'[p] \in IndexRuns
    BY <1>2, <1>4, <2>1 DEF IndexRuns
  <2>. QED
    BY <1>5, <2>2 DEF RunOK
<1> HIDE DEF f, words
<1>7. words # TooBig
  BY <1>3, LocalAssumption DEF CodeIndexAssumption
<1>8. /\ chunks' \in [Files -> Of(Texts)]
      /\ fileState' \in [Files -> Of(Texts \cup {TooBig})]
      /\ relations' \in [Files -> Texts \cup {Absent}]
      /\ rebuilt' \subseteq Files
      /\ StateTellsChunks'
      /\ chunks'[f] = [text |-> words, sig |-> run[p].sig]
      /\ \A g \in Files \ {f} : chunks'[g] = chunks[g]
  <2>1. ReplacePath(p, f, words) /\ words \in Texts \cup {TooBig}
    BY <1>1, <1>3 DEF f, words
  <2>. QED
    BY <1>2, <1>3, <1>7, <2>1, ReplacePathKeeps
<1>9. TypeOK'
  BY <1>1, <1>8 DEF CodeInv, CodeTypes, TypeOK
<1>10. (Watched(run[p]) => RunsWell(run[p]))'
  <2> SUFFICES ASSUME Watched(run'[p]) PROVE RunsWell(run[p])'
    BY DEF Watched
  <2>1. RunsWell(run[p])
    BY <1>1, <1>5 DEF Watched, CodeInv, QuietInv
  <2>2. disk[f] = words /\ signature = run[p].sig
    BY <1>1, <2>1 DEF RunsWell, f, words
  <2>3. Right(f)'
    BY <1>1, <1>3, <1>8, <2>2 DEF Right
  <2>4. \A g \in Files \ {f} : Right(g)' = Right(g)
    BY <1>1, <1>8 DEF Right
  <2>5. ASSUME NEW g \in run'[p].current
        PROVE  \/ g \in run'[p].todo
               \/ <<g, disk[g]>> \in run'[p].pending
               \/ Right(g)'
    <3>1. g \in Files
      BY <1>2, <1>5 DEF IndexRuns
    <3>2. g # f => <<g, disk[g]>> # item
      BY <1>3
    <3>. QED
      BY <1>1, <1>5, <2>1, <2>3, <2>4, <3>1, <3>2 DEF RunsWell
  <2>. QED
    BY <1>1, <1>5, <2>1, <2>5 DEF RunsWell
<1>. QED
  BY <1>1, <1>4, <1>6, <1>8, <1>9, <1>10, WritesStep

(* The relations of a file are made again, nothing else.                   *)
LEMMA RebuildsStep ==
    ASSUME CodeInv, NEW p \in Processes, RebuildsRelations(p)
    PROVE  CodeInv'
<1>1. /\ run[p].at = "relations"
      /\ relations' = [relations EXCEPT ![run[p].file] = run[p].text]
      /\ rebuilt' = rebuilt \cup {run[p].file}
      /\ run' = [Disturbed({p}) EXCEPT ![p] = [run[p] EXCEPT !.at = "scanning"]]
      /\ UNCHANGED <<disk, chunks, fileState, signature, runs, edits>>
  BY DEF RebuildsRelations, Writes
<1>2. run[p] \in IndexRuns /\ run[p].file \in Files /\ run[p].text \in Texts
  BY <1>1, RunFields DEF CodeInv, RunOK, Idle
<1>3. run'[p] = [run[p] EXCEPT !.at = "scanning"]
  BY <1>1, DisturbedRuns DEF CodeInv
<1>4. /\ run'[p] \in IndexRuns /\ run'[p].at = "scanning"
      /\ run'[p].todo = run[p].todo /\ run'[p].sig = run[p].sig
      /\ run'[p].scope = run[p].scope /\ run'[p].current = run[p].current
      /\ run'[p].pending = run[p].pending /\ run'[p].quiet = run[p].quiet
  BY <1>2, <1>3 DEF IndexRuns
<1>5. RunOK(run'[p])
  BY <1>4 DEF RunOK
<1>6. TypeOK'
  BY <1>1, <1>2 DEF CodeInv, CodeTypes, TypeOK
<1>7. StateTellsChunks'
  BY <1>1, <1>2 DEF CodeInv, CodeTypes, TypeOK, StateTellsChunks
<1>8. (Watched(run[p]) => RunsWell(run[p]))'
  <2>1. Watched(run[p]) /\ RunsWell(run[p]) => \A item \in run'[p].pending : item[2] = disk[item[1]]
    BY <1>4 DEF RunsWell
  <2>. QED
    BY <1>1, <1>4, <2>1, StaysWell
<1>. QED
  BY <1>1, <1>3, <1>5, <1>6, <1>7, <1>8, WritesStep

(* The end of a whole run: the files that are gone lose their rows.        *)
LEMMA ReconcilesStep ==
    ASSUME CodeInv, NEW p \in Processes, Reconciles(p)
    PROVE  CodeInv'
<1> DEFINE kept(table) == [f \in Files |-> IF f \in Gone(p) THEN Absent ELSE table[f]]
<1>1. /\ run[p].at = "scanning"
      /\ run[p].todo = {} /\ run[p].pending = {}
      /\ chunks' = kept(chunks)
      /\ relations' = kept(relations)
      /\ fileState' = kept(fileState)
      /\ run' = [Disturbed({p}) EXCEPT ![p] = [run[p] EXCEPT !.at = "done"]]
      /\ UNCHANGED <<disk, signature, runs, edits, rebuilt>>
  BY DEF Reconciles, Writes
<1>2. run[p] \in IndexRuns
  BY <1>1, RunFields DEF CodeInv
<1>3. run'[p] = [run[p] EXCEPT !.at = "done"]
  BY <1>1, DisturbedRuns DEF CodeInv
<1>4. /\ run'[p] \in IndexRuns /\ run'[p].at = "done"
      /\ run'[p].todo = run[p].todo /\ run'[p].sig = run[p].sig
      /\ run'[p].scope = run[p].scope /\ run'[p].current = run[p].current
      /\ run'[p].pending = run[p].pending /\ run'[p].quiet = run[p].quiet
  BY <1>2, <1>3 DEF IndexRuns
<1>5. RunOK(run'[p])
  BY <1>4 DEF RunOK
<1>6. TypeOK'
  BY <1>1 DEF CodeInv, CodeTypes, TypeOK, Of
<1>7. StateTellsChunks'
  BY <1>1 DEF CodeInv, StateTellsChunks
<1>8. (Watched(run[p]) => RunsWell(run[p]))'
  <2> SUFFICES ASSUME Watched(run'[p]) PROVE RunsWell(run[p])'
    BY DEF Watched
  <2>1. RunsWell(run[p]) /\ run[p].scope = Files
    BY <1>1, <1>4 DEF Watched, CodeInv, QuietInv
  <2>2. ASSUME NEW f \in Files PROVE Right(f)'
    <3>1. CASE f \in run[p].current
      <4>1. f \notin Gone(p) /\ Right(f)
        BY <1>1, <2>1, <3>1 DEF Gone, RunsWell
      <4>. QED
        BY <1>1, <4>1 DEF Right
    <3>2. CASE f \notin run[p].current
      <4>1. disk[f] = Absent
        BY <2>1, <3>2 DEF RunsWell
      <4>2. disk[f] \notin Texts
        BY <4>1, LocalAssumption DEF CodeIndexAssumption
      <4>3. chunks'[f] = Absent
        BY <1>1, <2>1, <3>2 DEF Gone, Paths
      <4>. QED
        BY <1>1, <4>2, <4>3 DEF Right
    <3>. QED
      BY <3>1, <3>2
  <2>3. \A f \in run[p].current : f \in Files
    BY <1>2 DEF IndexRuns
  <2>. QED
    BY <1>1, <1>4, <2>1, <2>2, <2>3 DEF RunsWell
<1>. QED
  BY <1>1, <1>3, <1>5, <1>6, <1>7, <1>8, WritesStep

(* Every step of the index.                                                *)
LEMMA CodeStep == CodeInv /\ Next => CodeInv'
BY EditStep, SearchStep, BeginsStep, ReadsStep, SkipsStep, RebuildsStep, ExcludesStep, QueuesStep,
   FlushesStep, StoresStep, ReconcilesStep, EndsStep DEF Next

(* The tables of the index never claim what they do not hold, and a run of *)
(* the whole workspace that nobody disturbs leaves them as the workspace   *)
(* is (CodeIndex.index, VectorStore.replace_path).                         *)
THEOREM IndexRepairedHolds == LocalSpec => []IndexRepaired
<1> DEFINE Inv == part = "code" => CodeInv
<1>1. LocalInit => Inv
  BY CodeInit DEF LocalInit
<1>2. Inv /\ [LocalNext]_localVars => Inv'
  <2> SUFFICES ASSUME Inv, [LocalNext]_localVars PROVE Inv'
    OBVIOUS
  <2>1. CASE part = "code" /\ Next /\ UNCHANGED part
    BY <2>1, CodeStep
  <2>2. CASE part # "code" /\ UNCHANGED part
    BY <2>2
  <2>3. CASE UNCHANGED localVars
    <3>0. UNCHANGED <<part, vars>>
      BY <2>3 DEF localVars
    <3>1. CodeInv => CodeTypes' /\ StateTellsChunks'
      BY <3>0 DEF vars, CodeInv, CodeTypes, TypeOK, StateTellsChunks
    <3>2. CodeInv => QuietInv'
      BY <3>0 DEF vars, CodeInv, QuietInv, RunsWell, Right, Watched
    <3>. QED
      BY <3>0, <3>1, <3>2 DEF CodeInv
  <2>. QED
    BY <2>1, <2>2, <2>3 DEF LocalNext
<1>3. CodeInv => RepairedByQuietIndex
  BY DEF CodeInv, QuietInv, Watched, RunsWell, Right, RepairedByQuietIndex
<1>4. Inv => IndexRepaired
  BY <1>3 DEF IndexRepaired, CodeInv, CodeTypes
<1>. QED
  BY <1>1, <1>2, <1>4, PTL DEF LocalSpec, localVars
-----------------------------------------------------------------------------
(*                          The binding (Binding)                           *)

WeChats == [of : {"none", "daemon", "session"},
            at : {"off", "booting", "starting", "polling", "got", "over"},
            binding : 0..MaxBindings, cursor : 0..MaxMessages, next : 0..MaxMessages,
            queue : SUBSET Bound!Messages]

(* A channel that polls does so for a binding there has been, and what it  *)
(* has got has been posted. One that boots has nothing queued.             *)
ChannelOK(ch) ==
    /\ ch.binding <= bound
    /\ ch.of # "none" => ch.at # "off"
    /\ ch.at = "booting" => ch.queue = {}
    /\ ch.queue # {} \/ ch.at \in {"starting", "polling", "got"} => ch.binding # 0
    /\ ch.at = "got" => ch.next > ch.cursor /\ ch.next <= posted[ch.binding]
ChannelInv ==
    /\ \A c \in Bound!Channels : ChannelOK(channel[c])
    /\ \A c \in Bound!Channels : c > started => channel[c] = Bound!Unstarted
    /\ account.binding <= bound
    /\ Bound!CursorOfBinding

(* Nobody takes a message twice, and those behind the cursor are taken.    *)
QueuedBy(c, b, m) == channel[c].binding = b /\ m \in channel[c].queue
TakenNow(b, m) ==
    \/ answered[b][m] = 1
    \/ \E c \in Bound!Channels : QueuedBy(c, b, m)
    \/ <<b, m>> \in dropped
TakenOnce(b, m) ==
    /\ answered[b][m] \in {0, 1}
    /\ answered[b][m] = 1 => <<b, m>> \notin dropped
    /\ \A c \in Bound!Channels : QueuedBy(c, b, m) =>
          /\ answered[b][m] = 0 /\ <<b, m>> \notin dropped
          /\ \A d \in Bound!Channels : QueuedBy(d, b, m) => d = c
TakenInv ==
    \A b \in Bound!Bindings, m \in Bound!Messages :
        /\ TakenOnce(b, m)
        /\ TakenNow(b, m) => b <= bound
        /\ account.binding = b => (m <= account.cursor <=> TakenNow(b, m))

MessageInv == Bound!TypeOK /\ ChannelInv /\ TakenInv

(* What the types say of the constants and of the parts of the state.      *)
LEMMA BindingTypes ==
    ASSUME Bound!TypeOK
    PROVE  /\ MaxChannels \in Nat /\ MaxBindings \in Nat \ {0} /\ MaxMessages \in Nat
           /\ Bound!Channels = 1..MaxChannels /\ Bound!Bindings = 1..MaxBindings
           /\ Bound!Messages = 1..MaxMessages
           /\ channel \in [Bound!Channels -> WeChats]
           /\ account \in [binding : 0..MaxBindings, cursor : 0..MaxMessages]
           /\ bound \in 1..MaxBindings /\ started \in 0..MaxChannels
           /\ posted \in [Bound!Bindings -> 0..MaxMessages]
BY LocalAssumption DEF Bound!TypeOK, Bound!BindingAssumption, Bound!Channels, Bound!Bindings,
   Bound!Messages, WeChats

(* At first there is one binding, and nothing is taken.                    *)
LEMMA MessageInit == Bound!Init => MessageInv
<1> SUFFICES ASSUME Bound!Init PROVE MessageInv
  OBVIOUS
<1> USE DEF Bound!Init
<1>0. MaxChannels \in Nat /\ MaxBindings \in Nat \ {0} /\ MaxMessages \in Nat
  BY LocalAssumption DEF Bound!BindingAssumption
<1>1. Bound!TypeOK
  <2>1. Bound!Unstarted \in WeChats
    BY <1>0 DEF Bound!Unstarted, WeChats
  <2>2. channel \in [Bound!Channels -> WeChats]
    BY <2>1
  <2>3. answered \in [Bound!Bindings -> [Bound!Messages -> 0..2]]
    OBVIOUS
  <2>4. /\ account \in [binding : 0..MaxBindings, cursor : 0..MaxMessages]
        /\ bound \in Bound!Bindings /\ posted \in [Bound!Bindings -> 0..MaxMessages]
        /\ started \in 0..MaxChannels /\ dropped \subseteq Bound!Bindings \X Bound!Messages
    BY <1>0 DEF Bound!Bindings
  <2>7. /\ pidFile \in 0..MaxChannels /\ migrating \in 0..MaxBindings
        /\ channelTask \in 0..MaxChannels /\ cleanup \in 0..MaxChannels
    BY <1>0
  <2>9. raced \in BOOLEAN
    OBVIOUS
  <2>8. /\ open \in SUBSET Bound!Channels
        /\ cleanups \in [Bound!Channels -> {"none", "scheduled", "closing"}]
    OBVIOUS
  <2>5. Bound!NoCommand \in [at : {"idle", "spawn", "write", "kill", "unlink", "done"},
                             pid : 0..MaxChannels]
    BY <1>0 DEF Bound!NoCommand
  <2>6. prompt \in [at : {"idle", "starting", "closing", "over"}, on : 0..MaxChannels,
                    waits : 0..MaxChannels, leaving : BOOLEAN]
    BY <1>0 DEF Bound!AtPrompt
  <2>. QED
    BY <2>2, <2>3, <2>4, <2>5, <2>6, <2>7, <2>8, <2>9 DEF Bound!TypeOK, WeChats
<1>2. ChannelInv
  <2>1. \A c \in Bound!Channels : channel[c] = Bound!Unstarted
    OBVIOUS
  <2>2. ChannelOK(Bound!Unstarted)
    BY DEF ChannelOK, Bound!Unstarted
  <2>3. account.binding <= bound /\ Bound!CursorOfBinding
    BY <1>0 DEF Bound!CursorOfBinding, Bound!Bindings
  <2>. QED
    BY <2>1, <2>2, <2>3 DEF ChannelInv
<1>3. TakenInv
  <2>1. \A c \in Bound!Channels : \A b, m : ~QueuedBy(c, b, m)
    BY DEF QueuedBy, Bound!Unstarted
  <2>2. \A m \in Bound!Messages : ~(m <= 0)
    BY <1>0 DEF Bound!Messages
  <2>3. \A b \in Bound!Bindings, m \in Bound!Messages : TakenOnce(b, m) /\ ~TakenNow(b, m)
    BY <2>1 DEF TakenOnce, TakenNow
  <2>. QED
    BY <2>2, <2>3 DEF TakenInv
<1>. QED
  BY <1>1, <1>2, <1>3 DEF MessageInv

(* What happens to the account beside the taking of messages: nothing, it  *)
(* is bound anew, or it is handed to the web server.                       *)
AccountMoves ==
    \/ account' = account /\ bound' = bound
    \/ bound' = bound + 1 /\ account' = [binding |-> bound + 1, cursor |-> 0]
    \/ account' = [binding |-> 0, cursor |-> 0] /\ bound' = bound

(* A step that leaves the queues alone takes nothing.                      *)
LEMMA SameQueues ==
    ASSUME MessageInv, AccountMoves, UNCHANGED <<answered, dropped>>,
           \A c \in Bound!Channels :
              /\ channel'[c].queue = channel[c].queue
              /\ channel[c].queue # {} => channel'[c].binding = channel[c].binding
    PROVE  TakenInv'
<1>1. \A c \in Bound!Channels : \A b, m : QueuedBy(c, b, m)' <=> QueuedBy(c, b, m)
  BY DEF QueuedBy
<1>2. ASSUME NEW b \in Bound!Bindings, NEW m \in Bound!Messages
      PROVE  (TakenNow(b, m)' <=> TakenNow(b, m)) /\ TakenOnce(b, m)'
  <2>1. TakenOnce(b, m)
    BY DEF MessageInv, TakenInv
  <2>. QED
    BY <1>1, <2>1 DEF TakenNow, TakenOnce
<1>3. ASSUME NEW b \in Bound!Bindings, NEW m \in Bound!Messages
      PROVE  /\ TakenNow(b, m)' => b <= bound'
             /\ account'.binding = b => (m <= account'.cursor <=> TakenNow(b, m)')
  <2>1. /\ TakenNow(b, m) => b <= bound
        /\ account.binding = b => (m <= account.cursor <=> TakenNow(b, m))
    BY DEF MessageInv, TakenInv
  <2>2. b \in Nat \ {0} /\ m \in Nat \ {0} /\ bound \in Nat
    BY BindingTypes DEF MessageInv
  <2>. QED
    BY <1>2, <2>1, <2>2 DEF AccountMoves
<1>. QED
  BY <1>2, <1>3 DEF TakenInv

(* A channel that ends forgets what it has queued.                         *)
LEMMA EndedTakes ==
    ASSUME MessageInv, NEW c \in Bound!Channels, Bound!Ended(c), UNCHANGED <<account, bound>>
    PROVE  TakenInv'
<1>1. /\ channel' = [channel EXCEPT ![c].at = "over", ![c].queue = {}]
      /\ dropped' = dropped \cup ({channel[c].binding} \X channel[c].queue)
      /\ answered' = answered
  BY DEF Bound!Ended
<1>2. channel[c] \in WeChats /\ \A d \in Bound!Channels : channel[d] \in WeChats
  BY BindingTypes DEF MessageInv
<1>3. /\ channel'[c].queue = {}
      /\ \A d \in Bound!Channels : d # c => channel'[d] = channel[d]
  BY <1>1, <1>2, BindingTypes DEF MessageInv, WeChats
<1>4. /\ \A b, m : ~QueuedBy(c, b, m)'
      /\ \A d \in Bound!Channels : \A b, m : d # c => (QueuedBy(d, b, m)' <=> QueuedBy(d, b, m))
      /\ \A b, m : <<b, m>> \in dropped' <=> <<b, m>> \in dropped \/ QueuedBy(c, b, m)
  BY <1>1, <1>3 DEF QueuedBy
<1>5. ASSUME NEW b \in Bound!Bindings, NEW m \in Bound!Messages
      PROVE  (TakenNow(b, m)' <=> TakenNow(b, m)) /\ TakenOnce(b, m)'
  <2>1. TakenOnce(b, m)
    BY DEF MessageInv, TakenInv
  <2>2. TakenNow(b, m)' <=> TakenNow(b, m)
    BY <1>1, <1>4 DEF TakenNow
  <2>3. TakenOnce(b, m)'
    BY <1>1, <1>4, <2>1 DEF TakenOnce
  <2>. QED
    BY <2>2, <2>3
<1>. QED
  BY <1>5 DEF TakenInv, MessageInv

(* A message that is given to an agent leaves its queue.                   *)
LEMMA AnswerTakes ==
    ASSUME MessageInv, NEW c \in Bound!Channels, NEW m \in channel[c].queue,
           channel' = [channel EXCEPT ![c].queue = @ \ {m}],
           answered' = [answered EXCEPT ![channel[c].binding][m] = @ + 1],
           UNCHANGED <<account, bound, dropped>>
    PROVE  TakenInv' /\ answered' \in [Bound!Bindings -> [Bound!Messages -> 0..2]]
<1>1. channel[c] \in WeChats /\ \A d \in Bound!Channels : channel[d] \in WeChats
  BY BindingTypes DEF MessageInv
<1>2. PICK o \in Bound!Bindings : o = channel[c].binding
  <2>1. channel[c].binding # 0 /\ channel[c].binding \in 0..MaxBindings
    BY <1>1 DEF MessageInv, ChannelInv, ChannelOK, WeChats
  <2>. QED
    BY <2>1, BindingTypes DEF MessageInv
<1>3. m \in Bound!Messages
  BY <1>1 DEF WeChats
<1>4. answered \in [Bound!Bindings -> [Bound!Messages -> 0..2]]
  BY DEF MessageInv, Bound!TypeOK
<1>5. QueuedBy(c, o, m)
  BY <1>2 DEF QueuedBy
<1>6. answered[o][m] = 0 /\ <<o, m>> \notin dropped
      /\ \A d \in Bound!Channels : QueuedBy(d, o, m) => d = c
  BY <1>2, <1>3, <1>5 DEF MessageInv, TakenInv, TakenOnce
<1>7. answered' = [answered EXCEPT ![o] = [answered[o] EXCEPT ![m] = 1]]
  BY <1>2, <1>6
<1>8. /\ answered' \in [Bound!Bindings -> [Bound!Messages -> 0..2]]
      /\ answered'[o][m] = 1
      /\ \A b \in Bound!Bindings, n \in Bound!Messages :
            b # o \/ n # m => answered'[b][n] = answered[b][n]
  BY <1>2, <1>3, <1>4, <1>7
<1>9. /\ channel'[c].queue = channel[c].queue \ {m} /\ channel'[c].binding = channel[c].binding
      /\ \A d \in Bound!Channels : d # c => channel'[d] = channel[d]
  BY <1>1, BindingTypes DEF MessageInv, WeChats
<1>10. \A d \in Bound!Channels : \A b, n :
         QueuedBy(d, b, n)' <=> QueuedBy(d, b, n) /\ ~(d = c /\ n = m)
  BY <1>9 DEF QueuedBy
<1>11. ASSUME NEW b \in Bound!Bindings, NEW n \in Bound!Messages
       PROVE  (TakenNow(b, n)' <=> TakenNow(b, n)) /\ TakenOnce(b, n)'
  <2>1. TakenOnce(b, n)
    BY DEF MessageInv, TakenInv
  <2>2. CASE b = o /\ n = m
    <3>1. \A d \in Bound!Channels : ~QueuedBy(d, b, n)'
      BY <1>6, <1>10, <2>2
    <3>2. TakenNow(b, n)' /\ TakenNow(b, n)
      BY <1>5, <1>8, <2>2 DEF TakenNow
    <3>3. TakenOnce(b, n)'
      BY <1>6, <1>8, <2>2, <3>1 DEF TakenOnce
    <3>. QED
      BY <3>2, <3>3
  <2>3. CASE ~(b = o /\ n = m)
    <3>1. \A d \in Bound!Channels : QueuedBy(d, b, n)' <=> QueuedBy(d, b, n)
      BY <1>2, <1>10, <2>3 DEF QueuedBy
    <3>2. answered'[b][n] = answered[b][n]
      BY <1>8, <2>3
    <3>. QED
      BY <2>1, <3>1, <3>2 DEF TakenNow, TakenOnce
  <2>. QED
    BY <2>2, <2>3
<1>12. TakenInv'
  BY <1>11 DEF TakenInv, MessageInv
<1>. QED
  BY <1>8, <1>12

(* An update whose cursor is saved is queued by the channel that saved it. *)
LEMMA UpdateTakes ==
    ASSUME MessageInv, NEW c \in Bound!Channels, channel[c].at = "got",
           Bound!SameAccount(channel[c]),
           account' = [account EXCEPT !.cursor = channel[c].next],
           channel' = [channel EXCEPT ![c].at = "polling", ![c].cursor = channel[c].next,
              ![c].queue = @ \cup (channel[c].cursor + 1)..channel[c].next],
           UNCHANGED <<answered, dropped, bound>>
    PROVE  TakenInv'
<1>1. channel[c] \in WeChats /\ \A d \in Bound!Channels : channel[d] \in WeChats
  BY BindingTypes DEF MessageInv
<1>2. PICK o \in Bound!Bindings : o = channel[c].binding
  <2>1. channel[c].binding # 0 /\ channel[c].binding \in 0..MaxBindings
    BY <1>1 DEF MessageInv, ChannelInv, ChannelOK, WeChats
  <2>. QED
    BY <2>1, BindingTypes DEF MessageInv
<1>3. PICK k \in Nat, n \in Nat :
        k = channel[c].cursor /\ n = channel[c].next /\ k < n /\ n <= MaxMessages
  <2>1. channel[c].cursor \in 0..MaxMessages /\ channel[c].next \in 0..MaxMessages
    BY <1>1 DEF WeChats
  <2>2. channel[c].next > channel[c].cursor
    BY DEF MessageInv, ChannelInv, ChannelOK
  <2>. QED
    BY <2>1, <2>2, BindingTypes DEF MessageInv
<1>4. account.binding = o /\ account.cursor = k /\ account' = [binding |-> o, cursor |-> n]
  BY <1>2, <1>3 DEF Bound!SameAccount
<1>5. /\ channel'[c].queue = channel[c].queue \cup (k + 1)..n
      /\ channel'[c].binding = channel[c].binding
      /\ \A d \in Bound!Channels : d # c => channel'[d] = channel[d]
  BY <1>1, <1>3, BindingTypes DEF MessageInv, WeChats
<1>6. \A d \in Bound!Channels : \A b, m :
        QueuedBy(d, b, m)' <=> QueuedBy(d, b, m) \/ (d = c /\ b = o /\ m \in (k + 1)..n)
  BY <1>2, <1>5 DEF QueuedBy
<1>7. \A m \in Bound!Messages : m <= k <=> TakenNow(o, m)
  BY <1>2, <1>4 DEF MessageInv, TakenInv
<1>8. ASSUME NEW b \in Bound!Bindings, NEW m \in Bound!Messages
      PROVE  /\ TakenNow(b, m)' <=> TakenNow(b, m) \/ (b = o /\ m \in (k + 1)..n)
             /\ TakenOnce(b, m)'
  <2>1. TakenOnce(b, m)
    BY DEF MessageInv, TakenInv
  <2>2. TakenNow(b, m)' <=> TakenNow(b, m) \/ (b = o /\ m \in (k + 1)..n)
    BY <1>6 DEF TakenNow
  <2>3. TakenOnce(b, m)'
    <3>1. CASE b = o /\ m \in (k + 1)..n
      <4>1. ~TakenNow(b, m)
        BY <1>3, <1>7, <3>1
      <4>2. /\ answered[b][m] = 0 /\ <<b, m>> \notin dropped
            /\ \A d \in Bound!Channels : ~QueuedBy(d, b, m)
        BY <2>1, <4>1 DEF TakenNow, TakenOnce
      <4>. QED
        BY <1>6, <4>2 DEF TakenOnce
    <3>2. CASE ~(b = o /\ m \in (k + 1)..n)
      BY <1>6, <2>1, <3>2 DEF TakenOnce
    <3>. QED
      BY <3>1, <3>2
  <2>. QED
    BY <2>2, <2>3
<1>9. ASSUME NEW b \in Bound!Bindings, NEW m \in Bound!Messages
      PROVE  /\ TakenNow(b, m)' => b <= bound'
             /\ account'.binding = b => (m <= account'.cursor <=> TakenNow(b, m)')
  <2>1. m \in Nat
    BY BindingTypes DEF MessageInv
  <2>2. o <= bound
    BY <1>4 DEF MessageInv, ChannelInv
  <2>3. TakenNow(b, m) => b <= bound
    BY DEF MessageInv, TakenInv
  <2>4. TakenNow(b, m)' => b <= bound'
    BY <1>8, <2>2, <2>3
  <2>5. b = o => (m <= n <=> TakenNow(b, m)')
    BY <1>3, <1>7, <1>8, <2>1
  <2>. QED
    BY <1>4, <2>4, <2>5
<1>. QED
  BY <1>8, <1>9 DEF TakenInv

AccountTypes ==
    /\ account \in [binding : 0..MaxBindings, cursor : 0..MaxMessages]
    /\ bound \in Bound!Bindings /\ posted \in [Bound!Bindings -> 0..MaxMessages]
ChannelTypes ==
    /\ channel \in [Bound!Channels -> WeChats] /\ started \in 0..MaxChannels
    /\ answered \in [Bound!Bindings -> [Bound!Messages -> 0..2]]
    /\ dropped \subseteq Bound!Bindings \X Bound!Messages
DaemonTypes ==
    /\ pidFile \in 0..MaxChannels /\ raced \in BOOLEAN /\ migrating \in 0..MaxBindings
    /\ command \in [Processes -> [at : {"idle", "spawn", "write", "kill", "unlink", "done"},
                                  pid : 0..MaxChannels]]
SessionTypes ==
    /\ channelTask \in 0..MaxChannels /\ open \in SUBSET Bound!Channels
    /\ cleanup \in 0..MaxChannels
    /\ prompt \in [at : {"idle", "starting", "closing", "over"}, on : 0..MaxChannels,
                   waits : 0..MaxChannels, leaving : BOOLEAN]
    /\ cleanups \in [Bound!Channels -> {"none", "scheduled", "closing"}]

(* The types of the binding, in four parts.                                *)
LEMMA TypeParts == Bound!TypeOK <=> AccountTypes /\ ChannelTypes /\ DaemonTypes /\ SessionTypes
BY Zenon DEF Bound!TypeOK, AccountTypes, ChannelTypes, DaemonTypes, SessionTypes, WeChats

(* The same parts after a step.                                            *)
LEMMA TypePartsNext ==
    AccountTypes' /\ ChannelTypes' /\ DaemonTypes' /\ SessionTypes' => Bound!TypeOK'
BY Zenon DEF Bound!TypeOK, AccountTypes, ChannelTypes, DaemonTypes, SessionTypes, WeChats

(* What a step keeps of the account, the channels and their messages.      *)
MessageKept == AccountTypes' /\ ChannelTypes' /\ ChannelInv' /\ TakenInv'

(* A step that leaves the account and the channels alone.                  *)
LEMMA NoMessages ==
    ASSUME MessageInv, UNCHANGED <<account, bound, posted, channel, started, answered, dropped>>
    PROVE  MessageKept
<1>1. AccountTypes' /\ ChannelTypes'
  BY TypeParts DEF MessageInv, AccountTypes, ChannelTypes
<1>2. ChannelInv'
  BY DEF MessageInv, ChannelInv, ChannelOK, Bound!CursorOfBinding
<1>3. TakenInv'
  BY SameQueues DEF AccountMoves
<1>. QED
  BY <1>1, <1>2, <1>3 DEF MessageKept

(* A step of one channel, that has started by then.                        *)
LEMMA OneChannel ==
    ASSUME MessageInv, NEW c \in Bound!Channels, UNCHANGED <<account, bound, posted>>,
           channel' = [channel EXCEPT ![c] = channel'[c]], channel'[c] \in WeChats,
           ChannelOK(channel[c])',
           started' \in 0..MaxChannels, started' >= started, c <= started'
    PROVE  AccountTypes' /\ channel' \in [Bound!Channels -> WeChats] /\ ChannelInv'
<1>1. AccountTypes'
  BY TypeParts DEF MessageInv, AccountTypes
<1>2. channel' \in [Bound!Channels -> WeChats]
  BY BindingTypes DEF MessageInv
<1>3. \A d \in Bound!Channels : d # c => channel'[d] = channel[d]
  BY BindingTypes DEF MessageInv
<1>4. ASSUME NEW d \in Bound!Channels
      PROVE  ChannelOK(channel[d])' /\ (d > started' => channel'[d] = Bound!Unstarted)
  <2>1. CASE d = c
    BY <2>1, BindingTypes DEF MessageInv
  <2>2. CASE d # c
    BY <1>3, <2>2, BindingTypes DEF MessageInv, ChannelInv, ChannelOK
  <2>. QED
    BY <2>1, <2>2
<1>5. ChannelInv'
  BY <1>4 DEF MessageInv, ChannelInv, Bound!CursorOfBinding
<1>. QED
  BY <1>1, <1>2, <1>5

(* A channel that does anything has started.                               *)
LEMMA HasStarted ==
    ASSUME MessageInv, NEW c \in Bound!Channels, channel[c].at # "off"
    PROVE  c <= started /\ channel[c] \in WeChats /\ ChannelOK(channel[c])
BY BindingTypes DEF MessageInv, ChannelInv, Bound!Unstarted

(* The end of a channel.                                                   *)
LEMMA EndedKeeps ==
    ASSUME MessageInv, NEW c \in Bound!Channels, channel[c].at # "off", Bound!Ended(c),
           UNCHANGED <<account, bound, posted>>
    PROVE  MessageKept
<1>1. /\ channel' = [channel EXCEPT ![c].at = "over", ![c].queue = {}]
      /\ dropped' = dropped \cup ({channel[c].binding} \X channel[c].queue)
      /\ UNCHANGED <<started, answered>>
  BY DEF Bound!Ended
<1>2. c <= started /\ channel[c] \in WeChats /\ ChannelOK(channel[c])
  BY HasStarted
<1>3. channel'[c] = [channel[c] EXCEPT !.at = "over", !.queue = {}]
  BY <1>1, BindingTypes DEF MessageInv
<1>4. /\ channel'[c] \in WeChats /\ channel'[c].at = "over" /\ channel'[c].queue = {}
      /\ channel'[c].binding = channel[c].binding
  BY <1>2, <1>3 DEF WeChats
<1>5. ChannelOK(channel[c])'
  BY <1>2, <1>4 DEF ChannelOK
<1>6. AccountTypes' /\ channel' \in [Bound!Channels -> WeChats] /\ ChannelInv'
  <2>1. channel' = [channel EXCEPT ![c] = channel'[c]]
    BY <1>1, <1>3, BindingTypes DEF MessageInv
  <2>2. started' \in 0..MaxChannels /\ started' >= started /\ c <= started'
    BY <1>1, <1>2, BindingTypes DEF MessageInv
  <2>. QED
    BY <1>4, <1>5, <2>1, <2>2, OneChannel
<1>7. channel[c].queue # {} => channel[c].binding \in Bound!Bindings
  BY <1>2, BindingTypes DEF MessageInv, ChannelOK, WeChats
<1>8. dropped' \subseteq Bound!Bindings \X Bound!Messages
  BY <1>1, <1>2, <1>7, TypeParts DEF MessageInv, ChannelTypes, WeChats
<1>9. ChannelTypes'
  BY <1>1, <1>6, <1>8, TypeParts DEF MessageInv, ChannelTypes
<1>. QED
  BY <1>6, <1>9, EndedTakes DEF MessageKept

(* A step of one channel that leaves its queue alone.                      *)
LEMMA QuietChannel ==
    ASSUME MessageInv, NEW c \in Bound!Channels,
           UNCHANGED <<account, bound, posted, answered, dropped>>,
           channel' = [channel EXCEPT ![c] = channel'[c]], channel'[c] \in WeChats,
           ChannelOK(channel[c])', channel'[c].queue = channel[c].queue,
           channel[c].queue # {} => channel'[c].binding = channel[c].binding,
           started' \in 0..MaxChannels, started' >= started, c <= started'
    PROVE  MessageKept
<1>1. AccountTypes' /\ channel' \in [Bound!Channels -> WeChats] /\ ChannelInv'
  BY OneChannel
<1>2. ChannelTypes'
  BY <1>1, TypeParts DEF MessageInv, ChannelTypes
<1>3. \A d \in Bound!Channels : d # c => channel'[d] = channel[d]
  BY BindingTypes DEF MessageInv
<1>4. TakenInv'
  BY <1>3, SameQueues DEF AccountMoves
<1>. QED
  BY <1>1, <1>2, <1>4 DEF MessageKept

(* The service, the account and the channels that poll it.                 *)
LEMMA PostStep == ASSUME MessageInv, Bound!Post PROVE MessageKept
<1> USE DEF Bound!Post, Bound!channelVars
<1>1. PICK b \in Bound!Bindings : b = account.binding
  BY BindingTypes DEF MessageInv
<1>2. /\ posted' = [posted EXCEPT ![b] = @ + 1] /\ posted[b] < MaxMessages
      /\ UNCHANGED <<account, bound, channel, started, answered, dropped>>
  BY <1>1
<1>3. posted' \in [Bound!Bindings -> 0..MaxMessages]
      /\ \A o \in Bound!Bindings : posted'[o] >= posted[o]
  BY <1>2, BindingTypes DEF MessageInv
<1>4. AccountTypes' /\ ChannelTypes'
  BY <1>2, <1>3, TypeParts DEF MessageInv, AccountTypes, ChannelTypes
<1>5. ASSUME NEW c \in Bound!Channels PROVE ChannelOK(channel[c])'
  <2>1. ChannelOK(channel[c]) /\ channel[c] \in WeChats
    BY BindingTypes DEF MessageInv, ChannelInv
  <2>2. channel[c].binding # 0 => channel[c].binding \in Bound!Bindings
    BY <2>1, BindingTypes DEF MessageInv, WeChats
  <2>3. channel[c].next \in Int
    BY <2>1, BindingTypes DEF MessageInv, WeChats
  <2>4. channel[c].at = "got" => channel[c].next <= posted'[channel[c].binding]
    BY <1>2, <1>3, <2>1, <2>2, <2>3, BindingTypes DEF ChannelOK, MessageInv
  <2>. QED
    BY <1>2, <2>1, <2>4 DEF ChannelOK
<1>6. account.cursor <= posted'[account.binding]
  BY <1>1, <1>3, BindingTypes DEF MessageInv, ChannelInv, Bound!CursorOfBinding
<1>7. ChannelInv'
  BY <1>2, <1>5, <1>6 DEF MessageInv, ChannelInv, Bound!CursorOfBinding
<1>8. TakenInv'
  BY <1>2, SameQueues DEF AccountMoves
<1>. QED
  BY <1>4, <1>7, <1>8 DEF MessageKept

(* A new binding starts with nothing taken.                                *)
LEMMA RebindStep == ASSUME MessageInv, Bound!Rebind PROVE MessageKept
<1>1. /\ bound < MaxBindings /\ bound' = bound + 1
      /\ account' = [binding |-> bound + 1, cursor |-> 0]
      /\ UNCHANGED <<posted, channel, started, answered, dropped>>
  BY DEF Bound!Rebind, Bound!channelVars
<1>2. bound' \in Bound!Bindings /\ posted[bound'] >= 0 /\ 0 \in 0..MaxMessages
  BY <1>1, BindingTypes DEF MessageInv
<1>3. AccountTypes' /\ ChannelTypes'
  BY <1>1, <1>2, TypeParts, BindingTypes DEF MessageInv, AccountTypes, ChannelTypes
<1>4. ASSUME NEW c \in Bound!Channels PROVE ChannelOK(channel[c])'
  <2>1. ChannelOK(channel[c]) /\ channel[c] \in WeChats
    BY BindingTypes DEF MessageInv, ChannelInv
  <2>. QED
    BY <1>1, <2>1, BindingTypes DEF MessageInv, ChannelOK, WeChats
<1>5. ChannelInv'
  BY <1>1, <1>2, <1>4 DEF MessageInv, ChannelInv, Bound!CursorOfBinding
<1>6. TakenInv'
  BY <1>1, SameQueues DEF AccountMoves
<1>. QED
  BY <1>3, <1>5, <1>6 DEF MessageKept

(* Migration keeps the account, or makes one without a binding.            *)
LEMMA MigrateStep == ASSUME MessageInv, Bound!Migrate PROVE MessageKept
<1>1. /\ account' = account \/ account' = [binding |-> 0, cursor |-> 0]
      /\ UNCHANGED <<bound, posted, channel, started, answered, dropped>>
  BY DEF Bound!Migrate, Bound!channelVars
<1>2. CASE account' = account
  BY <1>1, <1>2, NoMessages
<1>3. CASE account' = [binding |-> 0, cursor |-> 0]
  <2>1. AccountTypes' /\ ChannelTypes'
    BY <1>1, <1>3, TypeParts, BindingTypes DEF MessageInv, AccountTypes, ChannelTypes
  <2>2. ChannelInv'
    BY <1>1, <1>3, BindingTypes DEF MessageInv, ChannelInv, ChannelOK, Bound!CursorOfBinding
  <2>3. TakenInv'
    BY <1>1, <1>3, SameQueues DEF AccountMoves
  <2>. QED
    BY <2>1, <2>2, <2>3 DEF MessageKept
<1>. QED
  BY <1>1, <1>2, <1>3

(* A channel boots, runs and polls.                                        *)
LEMMA BootStep ==
    ASSUME MessageInv, NEW c \in Bound!Channels, Bound!Boot(c)
    PROVE  MessageKept
<1>1. /\ channel[c].at = "booting"
      /\ channel' = [channel EXCEPT ![c].at = IF account.binding = 0 THEN "over" ELSE "starting",
                                    ![c].binding = account.binding, ![c].cursor = account.cursor]
      /\ UNCHANGED <<account, bound, posted, started, answered, dropped>>
  BY DEF Bound!Boot, Bound!At, Bound!accountVars
<1>2. c <= started /\ channel[c] \in WeChats /\ ChannelOK(channel[c])
  BY <1>1, HasStarted
<1>3. channel'[c] = [channel[c] EXCEPT !.at = IF account.binding = 0 THEN "over" ELSE "starting",
                               !.binding = account.binding, !.cursor = account.cursor]
  BY <1>1, BindingTypes DEF MessageInv
<1>4. channel' = [channel EXCEPT ![c] = channel'[c]]
  BY <1>1, <1>3, BindingTypes DEF MessageInv
<1>5. /\ channel'[c] \in WeChats /\ channel'[c].queue = channel[c].queue
      /\ channel'[c].binding = account.binding
      /\ channel'[c].at = IF account.binding = 0 THEN "over" ELSE "starting"
  BY <1>2, <1>3, BindingTypes DEF MessageInv, WeChats
<1>6. channel[c].queue = {}
  BY <1>1, <1>2 DEF ChannelOK
<1>7. ChannelOK(channel[c])'
  <2>1. account.binding <= bound
    BY DEF MessageInv, ChannelInv
  <2>2. channel'[c].at \notin {"got", "booting", "polling", "off"}
    BY <1>5
  <2>3. channel'[c].at = "starting" => account.binding # 0
    BY <1>5
  <2>. QED
    BY <1>1, <1>5, <1>6, <2>1, <2>2, <2>3 DEF ChannelOK
<1>8. started' \in 0..MaxChannels /\ started' >= started /\ c <= started'
  BY <1>1, <1>2, BindingTypes DEF MessageInv
<1>. QED
  BY <1>1, <1>4, <1>5, <1>6, <1>7, <1>8, QuietChannel

(* A daemon that comes up polls with the account it was started with.      *)
LEMMA DaemonRunsStep ==
    ASSUME MessageInv, NEW c \in Bound!Channels, Bound!DaemonRuns(c)
    PROVE  MessageKept
<1>1. /\ channel[c].at = "starting"
      /\ channel' = [channel EXCEPT ![c].at = "polling"]
      /\ UNCHANGED <<account, bound, posted, started, answered, dropped>>
  BY DEF Bound!DaemonRuns, Bound!At, Bound!accountVars
<1>2. c <= started /\ channel[c] \in WeChats /\ ChannelOK(channel[c])
  BY <1>1, HasStarted
<1>3. channel'[c] = [channel[c] EXCEPT !.at = "polling"]
  BY <1>1, BindingTypes DEF MessageInv
<1>4. channel' = [channel EXCEPT ![c] = channel'[c]]
  BY <1>1, <1>3, BindingTypes DEF MessageInv
<1>5. /\ channel'[c] \in WeChats /\ channel'[c].queue = channel[c].queue
      /\ channel'[c].binding = channel[c].binding /\ channel'[c].at = "polling"
  BY <1>2, <1>3 DEF WeChats
<1>6. ChannelOK(channel[c])'
  BY <1>1, <1>2, <1>5 DEF ChannelOK
<1>7. started' \in 0..MaxChannels /\ started' >= started /\ c <= started'
  BY <1>1, <1>2, BindingTypes DEF MessageInv
<1>. QED
  BY <1>1, <1>4, <1>5, <1>6, <1>7, QuietChannel

(* A poll brings a message after the cursor.                               *)
LEMMA PollStep ==
    ASSUME MessageInv, NEW c \in Bound!Channels, NEW n \in Bound!Messages, Bound!Poll(c, n)
    PROVE  MessageKept
<1>1. /\ channel[c].at = "polling" /\ n > channel[c].cursor /\ n <= posted[channel[c].binding]
      /\ channel' = [channel EXCEPT ![c].at = "got", ![c].next = n]
      /\ UNCHANGED <<account, bound, posted, started, answered, dropped>>
  BY DEF Bound!Poll, Bound!At, Bound!accountVars
<1>2. c <= started /\ channel[c] \in WeChats /\ ChannelOK(channel[c])
  BY <1>1, HasStarted
<1>3. channel'[c] = [channel[c] EXCEPT !.at = "got", !.next = n]
  BY <1>1, BindingTypes DEF MessageInv
<1>4. channel' = [channel EXCEPT ![c] = channel'[c]]
  BY <1>1, <1>3, BindingTypes DEF MessageInv
<1>5. n \in 0..MaxMessages
  BY BindingTypes DEF MessageInv
<1>6. /\ channel'[c] \in WeChats /\ channel'[c].queue = channel[c].queue
      /\ channel'[c].binding = channel[c].binding /\ channel'[c].at = "got"
      /\ channel'[c].next = n /\ channel'[c].cursor = channel[c].cursor
  BY <1>2, <1>3, <1>5 DEF WeChats
<1>7. ChannelOK(channel[c])'
  BY <1>1, <1>2, <1>6 DEF ChannelOK
<1>8. started' \in 0..MaxChannels /\ started' >= started /\ c <= started'
  BY <1>1, <1>2, BindingTypes DEF MessageInv
<1>. QED
  BY <1>1, <1>4, <1>6, <1>7, <1>8, QuietChannel

(* An update is taken, if the account is still as the channel knows it.    *)
LEMMA TakeUpdateStep ==
    ASSUME MessageInv, NEW c \in Bound!Channels, Bound!TakeUpdate(c)
    PROVE  MessageKept
<1>1. channel[c].at = "got" /\ UNCHANGED <<bound, posted, started, answered>>
  BY DEF Bound!TakeUpdate
<1>2. c <= started /\ channel[c] \in WeChats /\ ChannelOK(channel[c])
  BY <1>1, HasStarted
<1>3. CASE ~Bound!SameAccount(channel[c])
  <2>1. account' = account /\ Bound!Ended(c)
    BY <1>1, <1>3 DEF Bound!TakeUpdate, Bound!Ended
  <2>. QED
    BY <1>1, <2>1, EndedKeeps
<1>4. CASE Bound!SameAccount(channel[c])
  <2>1. /\ account' = [account EXCEPT !.cursor = channel[c].next]
        /\ channel' = [channel EXCEPT ![c].at = "polling", ![c].cursor = channel[c].next,
                          ![c].queue = @ \cup (channel[c].cursor + 1)..channel[c].next]
        /\ dropped' = dropped
    BY <1>4 DEF Bound!TakeUpdate
  <2>2. TakenInv'
    BY <1>1, <1>4, <2>1, UpdateTakes
  <2>3. channel'[c] = [channel[c] EXCEPT !.at = "polling", !.cursor = channel[c].next,
                          !.queue = @ \cup (channel[c].cursor + 1)..channel[c].next]
    BY <2>1, BindingTypes DEF MessageInv
  <2>4. (channel[c].cursor + 1)..channel[c].next \subseteq Bound!Messages
    BY <1>2, BindingTypes DEF MessageInv, WeChats
  <2>5. /\ channel'[c].at = "polling" /\ channel'[c].binding = channel[c].binding
        /\ channel'[c] \in WeChats
    <3>1. channel[c].queue \cup (channel[c].cursor + 1)..channel[c].next \in SUBSET Bound!Messages
      BY <1>2, <2>4 DEF WeChats
    <3>. QED
      BY <1>2, <2>3, <3>1 DEF WeChats
  <2>6. ChannelOK(channel[c])'
    BY <1>1, <1>2, <2>5 DEF ChannelOK
  <2>7. /\ account.binding = channel[c].binding /\ account'.binding = account.binding
        /\ account'.cursor = channel[c].next /\ account' \in [binding : 0..MaxBindings,
                                                             cursor : 0..MaxMessages]
    BY <1>2, <1>4, <2>1, BindingTypes DEF MessageInv, Bound!SameAccount, WeChats
  <2>8. AccountTypes'
    BY <1>1, <2>7, TypeParts DEF MessageInv, AccountTypes
  <2>9. ChannelTypes'
    <3>1. channel' \in [Bound!Channels -> WeChats]
      <4>1. channel' = [channel EXCEPT ![c] = channel'[c]]
        BY <2>1, <2>3, BindingTypes DEF MessageInv
      <4>. QED
        BY <2>5, <4>1, BindingTypes DEF MessageInv
    <3>. QED
      BY <1>1, <2>1, <3>1, TypeParts DEF MessageInv, ChannelTypes
  <2>10. ASSUME NEW d \in Bound!Channels
         PROVE  ChannelOK(channel[d])' /\ (d > started' => channel'[d] = Bound!Unstarted)
    <3>1. CASE d = c
      BY <1>1, <1>2, <2>6, <3>1, BindingTypes DEF MessageInv
    <3>2. CASE d # c
      <4>1. channel'[d] = channel[d]
        BY <2>1, <3>2, BindingTypes DEF MessageInv
      <4>. QED
        BY <1>1, <4>1 DEF MessageInv, ChannelInv, ChannelOK
    <3>. QED
      BY <3>1, <3>2
  <2>11. ChannelInv'
    BY <1>1, <1>2, <2>7, <2>10 DEF MessageInv, ChannelInv, ChannelOK, Bound!CursorOfBinding
  <2>. QED
    BY <2>2, <2>8, <2>9, <2>11 DEF MessageKept
<1>. QED
  BY <1>3, <1>4

(* The first message of a queue is given to an agent: there is a first.    *)
LEMMA FirstOf ==
    ASSUME NEW S \in SUBSET Nat, S # {}
    PROVE  (CHOOSE n \in S : \A k \in S : n <= k) \in S
<1>1. \E x \in S : \A y \in S : ~(<<y, x>> \in OpToRel(<, Nat))
  BY NatLessThanWellFounded, WFMin
<1>2. PICK x \in S : \A y \in S : ~(<<y, x>> \in OpToRel(<, Nat))
  BY <1>1
<1>3. \A y \in S : ~(y < x)
  BY <1>2 DEF OpToRel
<1>4. \A y \in S : x <= y
  BY <1>3
<1>. QED
  BY <1>4

(* An answer takes the oldest message of the queue.                        *)
LEMMA AnswerStep ==
    ASSUME MessageInv, NEW c \in Bound!Channels, Bound!Answer(c)
    PROVE  MessageKept
<1>1. PICK m : /\ m = CHOOSE n \in channel[c].queue : \A k \in channel[c].queue : n <= k
               /\ channel' = [channel EXCEPT ![c].queue = @ \ {m}]
               /\ answered' = [answered EXCEPT ![channel[c].binding][m] = @ + 1]
  BY DEF Bound!Answer
<1>2. /\ channel[c].at \in {"polling", "got"} /\ channel[c].queue # {}
      /\ UNCHANGED <<account, bound, posted, started, dropped>>
  BY DEF Bound!Answer, Bound!At, Bound!accountVars
<1>3. c <= started /\ channel[c] \in WeChats /\ ChannelOK(channel[c])
  BY <1>2, HasStarted
<1>4. m \in channel[c].queue
  <2>1. channel[c].queue \in SUBSET Nat
    BY <1>3, BindingTypes DEF MessageInv, WeChats
  <2>. QED
    BY <1>1, <1>2, <2>1, FirstOf
<1>5. TakenInv' /\ answered' \in [Bound!Bindings -> [Bound!Messages -> 0..2]]
  BY <1>1, <1>2, <1>4, AnswerTakes
<1>6. channel'[c] = [channel[c] EXCEPT !.queue = @ \ {m}]
  BY <1>1, BindingTypes DEF MessageInv
<1>7. channel' = [channel EXCEPT ![c] = channel'[c]]
  BY <1>1, <1>6, BindingTypes DEF MessageInv
<1>8. /\ channel'[c] \in WeChats /\ channel'[c].at = channel[c].at
      /\ channel'[c].binding = channel[c].binding
      /\ channel'[c].next = channel[c].next /\ channel'[c].cursor = channel[c].cursor
  <2>1. channel[c].queue \ {m} \in SUBSET Bound!Messages
    BY <1>3 DEF WeChats
  <2>. QED
    BY <1>3, <1>6, <2>1 DEF WeChats
<1>9. ChannelOK(channel[c])'
  BY <1>2, <1>3, <1>8 DEF ChannelOK
<1>10. started' \in 0..MaxChannels /\ started' >= started /\ c <= started'
  BY <1>2, <1>3, BindingTypes DEF MessageInv
<1>11. AccountTypes' /\ channel' \in [Bound!Channels -> WeChats] /\ ChannelInv'
  BY <1>2, <1>7, <1>8, <1>9, <1>10, OneChannel
<1>12. ChannelTypes'
  BY <1>2, <1>5, <1>10, <1>11, TypeParts DEF MessageInv, ChannelTypes
<1>. QED
  BY <1>5, <1>11, <1>12 DEF MessageKept

(* Daemons: while no two commands have overlapped, one that is to be       *)
(* started finds none alive, one that is to be stopped is the one of the   *)
(* pid file, and a daemon that lives is named by somebody.                 *)
Busy(s) == command[s].at \notin {"idle", "done"}
Lives(c) == c # 0 /\ Bound!Live(c)
PidsInv ==
    /\ pidFile # 0 => channel[pidFile].of = "daemon"
    /\ \A s \in Processes :
        /\ command[s].pid # 0 => channel[command[s].pid].of = "daemon"
        /\ command[s].at \in {"idle", "spawn", "done"} => command[s].pid = 0
        /\ command[s].at = "write" => command[s].pid # 0
InTurn ==
    /\ \A s, t \in Processes : Busy(s) /\ Busy(t) => s = t
    /\ \A s \in Processes :
        /\ command[s].at \in {"spawn", "write", "unlink"} => ~Lives(pidFile)
        /\ command[s].at = "kill" /\ Lives(pidFile) => command[s].pid = pidFile
        /\ command[s].at = "unlink" => ~Lives(command[s].pid)
DaemonInv == PidsInv /\ (~raced => InTurn) /\ Bound!DaemonNamed

(* The session: a channel that lives is its task or is being started, and  *)
(* the components that are open have somebody to close them.               *)
SessionInv ==
    /\ prompt.at \in {"idle", "over"} => prompt.on = 0
    /\ prompt.at # "idle" => channelTask = 0
    /\ prompt.at = "starting" => prompt.on # 0 /\ channel[prompt.on].of = "session"
                                 /\ channel[prompt.on].at = "starting"
    /\ \A c \in Bound!Channels : channel[c].of = "session" /\ Bound!Live(c) =>
          c = channelTask \/ (prompt.at = "starting" /\ c = prompt.on)
    /\ \A c \in Bound!Channels : cleanups[c] # "none" => channel[c].at = "over"
    /\ \A c \in open : c \in {channelTask, prompt.on} \/ cleanups[c] = "closing"
    /\ prompt.at = "closing" => cleanup \in {0, prompt.waits}
    /\ prompt.at = "over" => \A c \in open : cleanups[c] = "closing" /\ cleanup # c

BindingInv == MessageInv /\ DaemonInv /\ SessionInv

(* Channels only move on: what is over stays over, what is off stays off.  *)
(* And a channel of the session that is starting is left alone.            *)
MovesOn == \A c \in Bound!Channels :
    /\ channel'[c].of = channel[c].of
    /\ channel'[c].at \notin {"off", "over"} => channel[c].at \notin {"off", "over"}
    /\ channel[c].at = "over" => channel'[c].at = "over"
GoOn ==
    /\ MovesOn
    /\ \A c \in Bound!Channels : channel[c].of = "session" /\ channel[c].at = "starting" =>
          channel'[c].at = "starting"

(* Daemons and commands, while no command does anything.                   *)
LEMMA DaemonSame ==
    ASSUME BindingInv, MovesOn, UNCHANGED <<pidFile, command, raced>>, migrating' \in 0..MaxBindings
    PROVE  DaemonTypes' /\ DaemonInv'
<1>0. DaemonTypes /\ MaxChannels \in Nat /\ Bound!Channels = 1..MaxChannels
  BY TypeParts, BindingTypes DEF BindingInv, MessageInv
<1>1. DaemonTypes'
  BY <1>0 DEF DaemonTypes
<1>2. \A s \in Processes : command[s].pid # 0 => command[s].pid \in Bound!Channels
  BY <1>0 DEF DaemonTypes
<1>3. pidFile # 0 => pidFile \in Bound!Channels
  BY <1>0 DEF DaemonTypes
<1>4. PidsInv'
  BY <1>2, <1>3 DEF GoOn, MovesOn, PidsInv, BindingInv, DaemonInv
<1>5. \A c \in Bound!Channels : Bound!Live(c)' => Bound!Live(c)
  BY DEF GoOn, MovesOn, Bound!Live, Bound!At
<1>6. Lives(pidFile)' => Lives(pidFile)
  BY <1>3, <1>5 DEF Lives, Bound!Live, Bound!At
<1>7. \A s \in Processes : Lives(command[s].pid)' => Lives(command[s].pid)
  BY <1>2, <1>5 DEF Lives, Bound!Live, Bound!At
<1>8. ~raced' => InTurn'
  BY <1>6, <1>7 DEF BindingInv, DaemonInv, InTurn, Busy
<1>9. Bound!DaemonNamed'
  BY <1>5 DEF BindingInv, DaemonInv, Bound!DaemonNamed, GoOn, MovesOn
<1>. QED
  BY <1>1, <1>4, <1>8, <1>9 DEF DaemonInv

(* The session, while it does nothing itself.                              *)
LEMMA SessionSame ==
    ASSUME BindingInv, GoOn, UNCHANGED <<channelTask, prompt, open, cleanups, cleanup>>
    PROVE  SessionTypes' /\ SessionInv'
<1>0. SessionTypes /\ MaxChannels \in Nat /\ Bound!Channels = 1..MaxChannels
  BY TypeParts, BindingTypes DEF BindingInv, MessageInv
<1>1. SessionTypes'
  BY <1>0 DEF SessionTypes
<1>2. prompt.on # 0 => prompt.on \in Bound!Channels
  BY <1>0 DEF SessionTypes
<1>3. \A c \in Bound!Channels : Bound!Live(c)' => Bound!Live(c)
  BY DEF GoOn, MovesOn, Bound!Live, Bound!At
<1>4. SessionInv'
  BY <1>2, <1>3 DEF GoOn, MovesOn, SessionInv, BindingInv
<1>. QED
  BY <1>1, <1>4

(* The end of a channel is a going on, but for one that is starting.       *)
LEMMA EndedGoesOn ==
    ASSUME MessageInv, NEW c \in Bound!Channels, Bound!Ended(c),
           ~(channel[c].of = "session" /\ channel[c].at = "starting")
    PROVE  GoOn
<1>1. channel[c] \in WeChats
  BY BindingTypes DEF MessageInv
<1>2. /\ channel'[c] = [channel[c] EXCEPT !.at = "over", !.queue = {}]
      /\ \A d \in Bound!Channels : d # c => channel'[d] = channel[d]
  BY BindingTypes DEF Bound!Ended, MessageInv
<1>3. channel'[c].of = channel[c].of /\ channel'[c].at = "over"
  BY <1>1, <1>2 DEF WeChats
<1>. QED
  BY <1>2, <1>3 DEF GoOn, MovesOn

(* The parts of the invariant together.                                    *)
LEMMA Together ==
    ASSUME MessageKept, DaemonTypes', DaemonInv', SessionTypes', SessionInv'
    PROVE  BindingInv'
<1>1. Bound!TypeOK'
  BY TypePartsNext DEF MessageKept
<1>. QED
  BY <1>1 DEF BindingInv, MessageInv, MessageKept

(* The messages, and what their steps leave alone.                         *)
LEMMA MessagesStep ==
    ASSUME BindingInv,
           \/ Bound!Post \/ Bound!Rebind \/ Bound!Migrate
           \/ \E c \in Bound!Channels :
                \/ Bound!Boot(c) \/ Bound!DaemonRuns(c) \/ Bound!TakeUpdate(c) \/ Bound!Answer(c)
                \/ \E n \in Bound!Messages : Bound!Poll(c, n)
    PROVE  BindingInv'
<1>0. MessageInv
  BY DEF BindingInv
<1>1. MessageKept
  BY <1>0, PostStep, RebindStep, MigrateStep, BootStep, DaemonRunsStep, TakeUpdateStep, AnswerStep,
     PollStep
<1>2. UNCHANGED <<channelTask, prompt, open, cleanups, cleanup, pidFile, command, raced>>
  BY DEF Bound!Post, Bound!Rebind, Bound!Migrate, Bound!Boot, Bound!DaemonRuns, Bound!TakeUpdate,
     Bound!Answer, Bound!Poll, Bound!daemonVars, Bound!sessionVars
<1>3. migrating' \in 0..MaxBindings
  <2>1. migrating \in 0..MaxBindings /\ account.binding \in 0..MaxBindings /\ 0 \in 0..MaxBindings
    BY <1>0, TypeParts, BindingTypes DEF MessageInv, DaemonTypes
  <2>2. CASE Bound!Migrate
    BY <2>1, <2>2 DEF Bound!Migrate
  <2>3. CASE ~Bound!Migrate
    BY <2>1, <2>3 DEF Bound!Post, Bound!Rebind, Bound!Boot, Bound!DaemonRuns, Bound!TakeUpdate,
       Bound!Answer, Bound!Poll, Bound!daemonVars
  <2>. QED
    BY <2>2, <2>3
<1>4. GoOn
  <2>1. CASE Bound!Post \/ Bound!Rebind \/ Bound!Migrate
    BY <2>1 DEF GoOn, MovesOn, Bound!Post, Bound!Rebind, Bound!Migrate, Bound!channelVars
  <2>2. ASSUME NEW c \in Bound!Channels, Bound!TakeUpdate(c) PROVE GoOn
    <3>0. channel[c].at = "got" /\ channel[c] \in WeChats
      BY <1>0, <2>2, BindingTypes DEF Bound!TakeUpdate, MessageInv
    <3>1. CASE Bound!SameAccount(channel[c])
      <4>1. /\ channel'[c] = [channel[c] EXCEPT !.at = "polling", !.cursor = channel[c].next,
                  !.queue = @ \cup (channel[c].cursor + 1)..channel[c].next]
            /\ \A d \in Bound!Channels : d # c => channel'[d] = channel[d]
        BY <1>0, <2>2, <3>1, BindingTypes DEF Bound!TakeUpdate, MessageInv
      <4>2. channel'[c].of = channel[c].of /\ channel'[c].at = "polling"
        BY <3>0, <4>1 DEF WeChats
      <4>. QED
        BY <3>0, <4>1, <4>2 DEF GoOn, MovesOn
    <3>2. CASE ~Bound!SameAccount(channel[c])
      <4>1. Bound!Ended(c)
        BY <2>2, <3>2 DEF Bound!TakeUpdate, Bound!Ended
      <4>. QED
        BY <1>0, <3>0, <4>1, EndedGoesOn
    <3>. QED
      BY <3>1, <3>2
  <2>3. ASSUME NEW c \in Bound!Channels, NEW n \in Bound!Messages, Bound!Poll(c, n) PROVE GoOn
    <3>0. channel[c] \in WeChats /\ channel \in [Bound!Channels -> WeChats]
      BY <1>0, BindingTypes DEF MessageInv
    <3>. QED
      BY <2>3, <3>0 DEF GoOn, MovesOn, Bound!Poll, Bound!At, WeChats
  <2>4. ASSUME NEW c \in Bound!Channels, Bound!Boot(c) \/ Bound!DaemonRuns(c) \/ Bound!Answer(c)
        PROVE  GoOn
    <3>0. channel[c] \in WeChats /\ channel \in [Bound!Channels -> WeChats]
      BY <1>0, BindingTypes DEF MessageInv
    <3>1. \A d \in Bound!Channels : d # c => channel'[d] = channel[d]
      BY <2>4, <3>0 DEF Bound!Boot, Bound!DaemonRuns, Bound!Answer, Bound!Poll
    <3>2. CASE Bound!Boot(c)
      BY <3>0, <3>1, <3>2 DEF GoOn, MovesOn, Bound!Boot, Bound!At, WeChats
    <3>3. CASE Bound!DaemonRuns(c)
      BY <3>0, <3>1, <3>3 DEF GoOn, MovesOn, Bound!DaemonRuns, Bound!At, WeChats
    <3>4. CASE Bound!Answer(c)
      BY <3>0, <3>1, <3>4 DEF GoOn, MovesOn, Bound!Answer, Bound!At, WeChats
    <3>. QED
      BY <2>4, <3>2, <3>3, <3>4
  <2>. QED
    BY <2>1, <2>2, <2>3, <2>4
<1>5. DaemonTypes' /\ DaemonInv' /\ SessionTypes' /\ SessionInv'
  BY <1>2, <1>3, <1>4, DaemonSame, SessionSame DEF GoOn
<1>. QED
  BY <1>1, <1>5, Together

(* The commands of the daemon that do not touch a channel.                 *)
LEMMA CommandTypes ==
    ASSUME BindingInv
    PROVE  /\ command \in [Processes -> [at : {"idle", "spawn", "write", "kill", "unlink", "done"},
                                         pid : 0..MaxChannels]]
           /\ pidFile \in 0..MaxChannels /\ raced \in BOOLEAN /\ migrating \in 0..MaxBindings
           /\ MaxChannels \in Nat /\ Bound!Channels = 1..MaxChannels
           /\ channel \in [Bound!Channels -> WeChats]
BY TypeParts, BindingTypes DEF BindingInv, MessageInv, DaemonTypes

(* A command enters: unless it has overlapped, it is the only one.         *)
LEMMA EntersStep ==
    ASSUME BindingInv, NEW s \in Processes, NEW cmd,
           cmd \in [at : {"spawn", "kill"}, pid : 0..MaxChannels], Bound!Enters(s, cmd),
           cmd.at = "spawn" => cmd.pid = 0 /\ ~Lives(pidFile),
           cmd.at = "kill" => /\ cmd.pid # 0 => cmd.pid = pidFile
                              /\ Lives(pidFile) => cmd.pid = pidFile,
           UNCHANGED <<channel, pidFile, migrating>>
    PROVE  DaemonTypes' /\ DaemonInv'
<1>1. /\ command[s] = Bound!NoCommand /\ command' = [command EXCEPT ![s] = cmd]
      /\ raced' = (raced \/ \E t \in Processes \ {s} : command[t].at \notin {"idle", "done"})
  BY DEF Bound!Enters
<1>2. command[s].at = "idle" /\ command[s].pid = 0
  BY <1>1 DEF Bound!NoCommand
<1>3. command'[s] = cmd /\ \A t \in Processes \ {s} : command'[t] = command[t]
  BY <1>1, CommandTypes
<1>4. raced' \in BOOLEAN
  BY <1>1
<1>5. DaemonTypes'
  BY <1>1, <1>4, CommandTypes DEF DaemonTypes
<1>6. PidsInv'
  BY <1>3 DEF PidsInv, BindingInv, DaemonInv
<1>7. ASSUME ~raced' PROVE InTurn'
  <2>1. ~raced /\ \A t \in Processes \ {s} : ~Busy(t)
    BY <1>1, <1>7 DEF Busy
  <2>2. \A t \in Processes \ {s} : ~Busy(t)'
    BY <1>3, <2>1 DEF Busy
  <2>3. \A t \in Processes : Busy(t)' => t = s
    BY <2>2
  <2>4. Lives(pidFile)' <=> Lives(pidFile)
    BY DEF Lives, Bound!Live, Bound!At
  <2>5. \A t \in Processes : t # s => command'[t].at \in {"idle", "done"}
    BY <2>2 DEF Busy
  <2>. QED
    BY <1>3, <2>3, <2>4, <2>5 DEF InTurn
<1>8. Bound!DaemonNamed'
  <2> SUFFICES ASSUME ~raced', NEW c \in Bound!Channels, channel[c].of = "daemon", Bound!Live(c)
               PROVE  pidFile = c \/ \E t \in Processes : command'[t].pid = c
    BY DEF Bound!DaemonNamed, Bound!Live, Bound!At
  <2>1. ~raced
    BY <1>1
  <2>2. pidFile = c \/ \E t \in Processes : command[t].pid = c
    BY <2>1 DEF BindingInv, DaemonInv, Bound!DaemonNamed
  <2>3. c # 0
    BY CommandTypes
  <2>. QED
    BY <1>2, <1>3, <2>2, <2>3
<1>. QED
  BY <1>5, <1>6, <1>7, <1>8 DEF DaemonInv

(* A daemon is started, or stopped: the pid file is read.                  *)
LEMMA DaemonStartStep ==
    ASSUME BindingInv, NEW s \in Processes, Bound!DaemonStart(s) \/ Bound!DaemonStop(s)
    PROVE  BindingInv'
<1>1. /\ UNCHANGED <<account, bound, posted, channel, started, answered, dropped>>
      /\ UNCHANGED <<pidFile, migrating, channelTask, prompt, open, cleanups, cleanup>>
  BY DEF Bound!DaemonStart, Bound!DaemonStop, Bound!accountVars, Bound!channelVars,
     Bound!sessionVars
<1>2. MessageKept
  BY <1>1, NoMessages DEF BindingInv
<1>3. GoOn
  BY <1>1 DEF GoOn, MovesOn
<1>4. SessionTypes' /\ SessionInv'
  BY <1>1, <1>3, SessionSame
<1>5. Bound!LiveDaemon = IF Lives(pidFile) THEN pidFile ELSE 0
  BY DEF Bound!LiveDaemon, Lives
<1>6. DaemonTypes' /\ DaemonInv'
  <2>1. CASE Bound!DaemonStart(s)
    <3> DEFINE cmd == [at |-> "spawn", pid |-> 0]
    <3>1. cmd \in [at : {"spawn", "kill"}, pid : 0..MaxChannels]
      BY CommandTypes
    <3>2. ~Lives(pidFile)
      BY <1>5, <2>1, CommandTypes DEF Bound!DaemonStart, Lives
    <3>. QED
      BY <1>1, <2>1, <3>1, <3>2, EntersStep DEF Bound!DaemonStart
  <2>2. CASE Bound!DaemonStop(s)
    <3>1. PICK d \in 0..MaxChannels : d = Bound!LiveDaemon
      BY <1>5, CommandTypes
    <3> DEFINE cmd == [at |-> "kill", pid |-> d]
    <3>2. cmd \in [at : {"spawn", "kill"}, pid : 0..MaxChannels] /\ cmd.at = "kill" /\ cmd.pid = d
      BY <3>1
    <3>3. Bound!Enters(s, cmd)
      BY <2>2, <3>1 DEF Bound!DaemonStop
    <3> HIDE DEF cmd
    <3>4. /\ cmd.pid # 0 => cmd.pid = pidFile
          /\ Lives(pidFile) => cmd.pid = pidFile
      BY <1>5, <3>1, <3>2
    <3>. QED
      BY <1>1, <3>2, <3>3, <3>4, EntersStep
  <2>. QED
    BY <2>1, <2>2
<1>. QED
  BY <1>2, <1>4, <1>6, Together

(* The pid file is written or deleted, at the end of a command.            *)
LEMMA PidFileStep ==
    ASSUME BindingInv, NEW s \in Processes, Bound!WritePid(s, FALSE) \/ Bound!UnlinkPid(s)
    PROVE  BindingInv'
<1>1. /\ UNCHANGED <<account, bound, posted, channel, started, answered, dropped>>
      /\ UNCHANGED <<raced, migrating, channelTask, prompt, open, cleanups, cleanup>>
      /\ command' = [command EXCEPT ![s] = Bound!Done]
  BY DEF Bound!WritePid, Bound!UnlinkPid, Bound!accountVars, Bound!channelVars, Bound!sessionVars
<1>2. MessageKept
  BY <1>1, NoMessages DEF BindingInv
<1>3. GoOn
  BY <1>1 DEF GoOn, MovesOn
<1>4. SessionTypes' /\ SessionInv'
  BY <1>1, <1>3, SessionSame
<1>5. /\ command'[s] = Bound!Done /\ \A t \in Processes \ {s} : command'[t] = command[t]
      /\ Bound!Done.at = "done" /\ Bound!Done.pid = 0
      /\ Bound!Done \in [at : {"done"}, pid : 0..MaxChannels]
  BY <1>1, CommandTypes DEF Bound!Done
<1>6. \/ command[s].at = "write" /\ pidFile' = command[s].pid
      \/ command[s].at = "unlink" /\ pidFile' = 0
  BY DEF Bound!WritePid, Bound!UnlinkPid
<1>7. pidFile' \in 0..MaxChannels
  BY <1>6, CommandTypes
<1>8. DaemonTypes'
  BY <1>1, <1>5, <1>7, CommandTypes DEF DaemonTypes
<1>9. PidsInv'
  BY <1>1, <1>5, <1>6 DEF PidsInv, BindingInv, DaemonInv
<1>10. ASSUME ~raced PROVE \A t \in Processes : command'[t].at \in {"idle", "done"}
  <2>1. Busy(s)
    BY <1>6 DEF Busy
  <2>2. \A t \in Processes : t # s => ~Busy(t)
    BY <1>10, <2>1 DEF BindingInv, DaemonInv, InTurn
  <2>. QED
    BY <1>5, <2>2 DEF Busy
<1>11. ~raced' => InTurn'
  BY <1>1, <1>10 DEF InTurn, Busy
<1>12. Bound!DaemonNamed'
  <2> SUFFICES ASSUME ~raced, NEW c \in Bound!Channels, channel[c].of = "daemon", Bound!Live(c)
               PROVE  pidFile' = c \/ \E t \in Processes : command'[t].pid = c
    BY <1>1 DEF Bound!DaemonNamed, Bound!Live, Bound!At
  <2>1. pidFile = c \/ \E t \in Processes : command[t].pid = c
    BY DEF BindingInv, DaemonInv, Bound!DaemonNamed
  <2>2. c # 0 /\ Lives(c)
    BY CommandTypes DEF Lives
  <2>3. ~Lives(pidFile) /\ (command[s].at = "unlink" => ~Lives(command[s].pid))
    BY <1>6 DEF BindingInv, DaemonInv, InTurn
  <2>4. \E t \in Processes : command[t].pid = c
    BY <2>1, <2>2, <2>3
  <2>. QED
    BY <1>5, <1>6, <2>2, <2>3, <2>4
<1>13. DaemonTypes' /\ DaemonInv'
  BY <1>8, <1>9, <1>11, <1>12 DEF DaemonInv
<1>. QED
  BY <1>2, <1>4, <1>13, Together

(* A command ends a daemon: the one it has just started, when the pid file *)
(* cannot be written, or the one it was to stop.                           *)
LEMMA EndsDaemon ==
    ASSUME BindingInv, NEW s \in Processes, NEW cmd,
           cmd \in [at : {"done", "unlink"}, pid : 0..MaxChannels],
           command' = [command EXCEPT ![s] = cmd],
           UNCHANGED <<account, bound, posted, pidFile, raced, migrating, channelTask, prompt, open,
                       cleanups, cleanup>>,
           NEW d \in Bound!Channels, channel[d].at # "off", Bound!Ended(d), command[s].pid = d,
           \/ command[s].at = "write" /\ cmd.at = "done" /\ cmd.pid = 0
           \/ command[s].at = "kill" /\ cmd.at = "unlink" /\ cmd.pid = d
    PROVE  BindingInv'
<1>1. MessageKept
  BY EndedKeeps DEF BindingInv
<1>2. channel[d].of = "daemon"
  BY CommandTypes DEF BindingInv, DaemonInv, PidsInv
<1>3. GoOn
  BY <1>2, EndedGoesOn DEF BindingInv
<1>4. SessionTypes' /\ SessionInv'
  BY <1>3, SessionSame
<1>5. command'[s] = cmd /\ \A t \in Processes \ {s} : command'[t] = command[t]
  BY CommandTypes
<1>6. channel'[d].at = "over"
  <2>1. channel[d] \in WeChats /\ channel'[d] = [channel[d] EXCEPT !.at = "over", !.queue = {}]
    BY CommandTypes DEF Bound!Ended
  <2>. QED
    BY <2>1 DEF WeChats
<1>7. \A c \in Bound!Channels : channel'[c].of = channel[c].of
                                /\ (Bound!Live(c)' => Bound!Live(c) /\ c # d)
  BY <1>3, <1>6 DEF GoOn, MovesOn, Bound!Live, Bound!At
<1>8. DaemonTypes'
  BY CommandTypes DEF DaemonTypes
<1>9. /\ pidFile # 0 => pidFile \in Bound!Channels
      /\ \A t \in Processes : command[t].pid # 0 => command[t].pid \in Bound!Channels
  BY CommandTypes
<1>10. PidsInv'
  BY <1>2, <1>5, <1>7, <1>9 DEF PidsInv, BindingInv, DaemonInv
<1>11. ASSUME ~raced PROVE InTurn'
  <2>1. \A t \in Processes : t # s => command'[t].at \in {"idle", "done"}
    <3>1. Busy(s)
      BY DEF Busy
    <3>2. \A t \in Processes : t # s => ~Busy(t)
      BY <1>11, <3>1 DEF BindingInv, DaemonInv, InTurn
    <3>. QED
      BY <1>5, <3>2 DEF Busy
  <2>2. \A t, u \in Processes : Busy(t)' /\ Busy(u)' => t = u
    BY <2>1 DEF Busy
  <2>3. command[s].at = "kill" => ~Lives(pidFile)'
    <3>1. command[s].at = "kill" /\ Lives(pidFile) => pidFile = d
      BY <1>11 DEF BindingInv, DaemonInv, InTurn
    <3>. QED
      BY <1>7, <1>9, <3>1 DEF Lives, Bound!Live, Bound!At
  <2>4. ~Lives(d)'
    BY <1>6 DEF Lives, Bound!Live, Bound!At
  <2>5. ASSUME NEW t \in Processes
        PROVE  /\ command'[t].at \in {"spawn", "write", "unlink"} => ~Lives(pidFile)'
               /\ command'[t].at = "kill" /\ Lives(pidFile)' => command'[t].pid = pidFile'
               /\ command'[t].at = "unlink" => ~Lives(command[t].pid)'
    <3>1. CASE t = s
      <4>1. command'[t].at = "unlink" => command'[t].pid = d
        BY <1>5, <3>1
      <4>2. command'[t].at = "unlink" => ~Lives(command[t].pid)'
        BY <2>4, <4>1 DEF Lives, Bound!Live, Bound!At
      <4>. QED
        BY <1>5, <2>3, <3>1, <4>2
    <3>2. CASE t # s
      BY <2>1, <3>2
    <3>. QED
      BY <3>1, <3>2
  <2>. QED
    BY <2>2, <2>5 DEF InTurn
<1>12. Bound!DaemonNamed'
  <2> SUFFICES ASSUME ~raced, NEW c \in Bound!Channels, channel'[c].of = "daemon", Bound!Live(c)'
               PROVE  pidFile = c \/ \E t \in Processes : command'[t].pid = c
    BY DEF Bound!DaemonNamed
  <2>1. pidFile = c \/ \E t \in Processes : command[t].pid = c
    BY <1>7 DEF BindingInv, DaemonInv, Bound!DaemonNamed
  <2>2. c # d
    BY <1>7
  <2>. QED
    BY <1>5, <2>1, <2>2
<1>13. DaemonTypes' /\ DaemonInv'
  BY <1>8, <1>10, <1>11, <1>12 DEF DaemonInv
<1>. QED
  BY <1>1, <1>4, <1>13, Together

(* A daemon that was to be stopped has ended already, or there was none.   *)
LEMMA KillsNobody ==
    ASSUME BindingInv, NEW s \in Processes, Bound!KillDaemon(s), ~Lives(command[s].pid)
    PROVE  BindingInv'
<1>1. /\ command[s].at = "kill" /\ command' = [command EXCEPT ![s].at = "unlink"]
      /\ UNCHANGED <<account, bound, posted, channel, started, answered, dropped>>
      /\ UNCHANGED <<pidFile, raced, migrating, channelTask, prompt, open, cleanups, cleanup>>
  BY DEF Bound!KillDaemon, Lives, Bound!accountVars, Bound!channelVars, Bound!sessionVars
<1>2. MessageKept
  BY <1>1, NoMessages DEF BindingInv
<1>3. GoOn
  BY <1>1 DEF GoOn, MovesOn
<1>4. SessionTypes' /\ SessionInv'
  BY <1>1, <1>3, SessionSame
<1>5. /\ command'[s] = [command[s] EXCEPT !.at = "unlink"]
      /\ \A t \in Processes \ {s} : command'[t] = command[t]
  BY <1>1, CommandTypes
<1>6. command'[s].at = "unlink" /\ command'[s].pid = command[s].pid
  BY <1>5, CommandTypes
<1>7. DaemonTypes'
  BY <1>1, CommandTypes DEF DaemonTypes
<1>8. PidsInv'
  BY <1>1, <1>5, <1>6 DEF PidsInv, BindingInv, DaemonInv
<1>9. ASSUME ~raced PROVE InTurn'
  <2>1. \A t \in Processes : Busy(t)' <=> Busy(t)
    BY <1>1, <1>5, <1>6 DEF Busy
  <2>2. Busy(s) /\ InTurn
    BY <1>1, <1>9 DEF Busy, BindingInv, DaemonInv
  <2>3. \A t \in Processes : t # s => command'[t].at \in {"idle", "done"}
    BY <2>1, <2>2 DEF InTurn, Busy
  <2>4. ~Lives(pidFile)
    BY <1>1, <2>2 DEF InTurn
  <2>5. ~Lives(pidFile)' /\ ~Lives(command[s].pid)'
    BY <1>1, <1>6, <2>4 DEF Lives, Bound!Live, Bound!At
  <2>6. \A t, u \in Processes : Busy(t)' /\ Busy(u)' => t = u
    BY <2>1, <2>2 DEF InTurn
  <2>. QED
    BY <1>6, <2>3, <2>5, <2>6 DEF InTurn
<1>10. Bound!DaemonNamed'
  <2> SUFFICES ASSUME ~raced, NEW c \in Bound!Channels, channel[c].of = "daemon", Bound!Live(c)
               PROVE  pidFile = c \/ \E t \in Processes : command'[t].pid = c
    BY <1>1 DEF Bound!DaemonNamed, Bound!Live, Bound!At
  <2>1. pidFile = c \/ \E t \in Processes : command[t].pid = c
    BY DEF BindingInv, DaemonInv, Bound!DaemonNamed
  <2>. QED
    BY <1>5, <1>6, <2>1
<1>11. DaemonTypes' /\ DaemonInv'
  BY <1>1, <1>7, <1>8, <1>9, <1>10 DEF DaemonInv
<1>. QED
  BY <1>2, <1>4, <1>11, Together

(* Killing by pid ends the daemon that was looked up, or nobody.           *)
LEMMA KillStep ==
    ASSUME BindingInv, NEW s \in Processes, Bound!KillDaemon(s) \/ Bound!WritePid(s, TRUE)
    PROVE  BindingInv'
<1>1. CASE Bound!KillDaemon(s) /\ ~Lives(command[s].pid)
  BY <1>1, KillsNobody
<1>2. CASE Bound!KillDaemon(s) /\ Lives(command[s].pid)
  <2>1. PICK d \in Bound!Channels : d = command[s].pid
    BY <1>2, CommandTypes DEF Lives
  <2> DEFINE cmd == [at |-> "unlink", pid |-> d]
  <2>2. command' = [command EXCEPT ![s] = cmd] /\ command[s].at = "kill"
    <3>1. command' = [command EXCEPT ![s].at = "unlink"] /\ command[s].at = "kill"
      BY <1>2 DEF Bound!KillDaemon
    <3>2. command[s] \in [at : {"idle", "spawn", "write", "kill", "unlink", "done"},
                          pid : 0..MaxChannels]
      BY CommandTypes
    <3>3. [command[s] EXCEPT !.at = "unlink"] = cmd
      BY <2>1, <3>2
    <3>. QED
      BY <3>1, <3>3, CommandTypes
  <2>3. cmd \in [at : {"done", "unlink"}, pid : 0..MaxChannels] /\ cmd.at = "unlink" /\ cmd.pid = d
    BY CommandTypes
  <2> HIDE DEF cmd
  <2>4. channel[d].at # "off" /\ Bound!Ended(d)
    BY <1>2, <2>1 DEF Lives, Bound!KillDaemon, Bound!Live, Bound!At
  <2>5. UNCHANGED <<account, bound, posted, pidFile, raced, migrating, channelTask, prompt, open,
                    cleanups, cleanup>>
    BY <1>2 DEF Bound!KillDaemon, Bound!accountVars, Bound!sessionVars
  <2>. QED
    BY <2>1, <2>2, <2>3, <2>4, <2>5, EndsDaemon
<1>3. CASE Bound!WritePid(s, TRUE)
  <2>1. command[s].at = "write" /\ command[s].pid # 0
    BY <1>3 DEF Bound!WritePid, BindingInv, DaemonInv, PidsInv
  <2>2. PICK d \in Bound!Channels : d = command[s].pid
    BY <2>1, CommandTypes
  <2> DEFINE cmd == Bound!Done
  <2>3. cmd \in [at : {"done", "unlink"}, pid : 0..MaxChannels] /\ cmd.at = "done" /\ cmd.pid = 0
    BY CommandTypes DEF Bound!Done
  <2>4. command' = [command EXCEPT ![s] = cmd] /\ Bound!Ended(d)
    BY <1>3, <2>2 DEF Bound!WritePid
  <2> HIDE DEF cmd
  <2>5. channel[d].at # "off"
    <3>1. channel[d].of = "daemon"
      BY <2>1, <2>2 DEF BindingInv, DaemonInv, PidsInv
    <3>2. ChannelOK(channel[d])
      BY DEF BindingInv, MessageInv, ChannelInv
    <3>. QED
      BY <3>1, <3>2 DEF ChannelOK
  <2>6. UNCHANGED <<account, bound, posted, pidFile, raced, migrating, channelTask, prompt, open,
                    cleanups, cleanup>>
    BY <1>3 DEF Bound!WritePid, Bound!accountVars, Bound!sessionVars
  <2>. QED
    BY <2>1, <2>2, <2>3, <2>4, <2>5, <2>6, EndsDaemon
<1>. QED
  BY <1>1, <1>2, <1>3

(* A channel that never started has no message and no binding.             *)
LEMMA UnstartedType ==
    ASSUME Bound!TypeOK
    PROVE  /\ Bound!Unstarted \in WeChats /\ Bound!Unstarted.queue = {}
           /\ Bound!Unstarted.binding = 0
<1>1. 0 \in 0..MaxBindings /\ 0 \in 0..MaxMessages
  BY BindingTypes
<1>. QED
  BY <1>1 DEF Bound!Unstarted, WeChats

(* A channel is made: nobody knew its number before.                       *)
LEMMA NewChannel ==
    ASSUME BindingInv, NEW new \in WeChats, started < MaxChannels, started' = started + 1,
           channel' = [channel EXCEPT ![started'] = new],
           UNCHANGED <<account, bound, posted, answered, dropped>>,
           new.at \in {"booting", "starting"}, new.queue = {}, new.binding <= bound,
           new.at = "starting" => new.binding # 0
    PROVE  /\ MessageKept
           /\ started + 1 \in Bound!Channels /\ channel[started + 1] = Bound!Unstarted
           /\ channel'[started + 1] = new
           /\ \A d \in Bound!Channels : d # started + 1 => channel'[d] = channel[d]
<1>1. PICK c \in Bound!Channels : c = started + 1 /\ c > started
  BY BindingTypes DEF BindingInv, MessageInv
<1>2. channel[c] = Bound!Unstarted
  BY <1>1 DEF BindingInv, MessageInv, ChannelInv
<1>3. channel' = [channel EXCEPT ![c] = new]
  BY <1>1
<1>4. channel'[c] = new /\ \A d \in Bound!Channels : d # c => channel'[d] = channel[d]
  BY <1>3, BindingTypes DEF BindingInv, MessageInv
<1>5. channel[c].queue = {}
  BY <1>2 DEF Bound!Unstarted
<1>6. ChannelOK(channel[c])'
  BY <1>4 DEF ChannelOK
<1>7. started' \in 0..MaxChannels /\ started' >= started /\ c <= started'
  BY <1>1, BindingTypes DEF BindingInv, MessageInv
<1>8. MessageKept
  BY <1>3, <1>4, <1>5, <1>6, <1>7, QuietChannel DEF BindingInv
<1>. QED
  BY <1>1, <1>2, <1>4, <1>8

(* The process of a daemon is started.                                     *)
LEMMA SpawnStep ==
    ASSUME BindingInv, NEW s \in Processes, Bound!SpawnDaemon(s)
    PROVE  BindingInv'
<1> DEFINE new == [Bound!Unstarted EXCEPT !.of = "daemon", !.at = "booting"]
<1>1. /\ command[s].at = "spawn" /\ started < MaxChannels /\ started' = started + 1
      /\ channel' = [channel EXCEPT ![started'] = new]
      /\ command' = [command EXCEPT ![s] = [at |-> "write", pid |-> started']]
      /\ UNCHANGED <<account, bound, posted, answered, dropped, pidFile, raced, migrating,
                     channelTask, prompt, open, cleanups, cleanup>>
  BY DEF Bound!SpawnDaemon, Bound!accountVars, Bound!sessionVars
<1>2. /\ new \in WeChats /\ new.at = "booting" /\ new.of = "daemon" /\ new.queue = {}
      /\ new.binding = 0
  <2>1. Bound!Unstarted \in WeChats /\ Bound!Unstarted.queue = {} /\ Bound!Unstarted.binding = 0
    BY UnstartedType DEF BindingInv, MessageInv
  <2>. QED
    BY <2>1 DEF WeChats
<1> HIDE DEF new
<1>3. PICK c \in Bound!Channels : c = started + 1
  BY <1>1, BindingTypes DEF BindingInv, MessageInv
<1>4. /\ MessageKept
      /\ channel[c] = Bound!Unstarted /\ channel'[c] = new
      /\ \A d \in Bound!Channels : d # c => channel'[d] = channel[d]
  <2>1. new.binding <= bound
    BY <1>2, BindingTypes DEF BindingInv, MessageInv
  <2>. QED
    BY <1>1, <1>2, <1>3, <2>1, NewChannel
<1>5. /\ channel[c].of = "none" /\ channel[c].at = "off"
      /\ channel'[c].of = "daemon" /\ channel'[c].at = "booting"
  BY <1>2, <1>4 DEF Bound!Unstarted
<1>6. /\ command'[s] = [at |-> "write", pid |-> c] /\ c # 0 /\ c \in 0..MaxChannels
      /\ \A t \in Processes \ {s} : command'[t] = command[t]
  BY <1>1, <1>3, CommandTypes
<1>7. DaemonTypes'
  BY <1>1, <1>3, <1>6, CommandTypes DEF DaemonTypes
<1>8. /\ pidFile # 0 => pidFile \in Bound!Channels /\ pidFile # c
      /\ \A t \in Processes : command[t].pid # 0 => command[t].pid \in Bound!Channels
                                                    /\ command[t].pid # c
  BY <1>5, CommandTypes DEF BindingInv, DaemonInv, PidsInv
<1>9. PidsInv'
  <2>1. pidFile' # 0 => channel'[pidFile'].of = "daemon"
    BY <1>1, <1>4, <1>8 DEF BindingInv, DaemonInv, PidsInv
  <2>2. ASSUME NEW t \in Processes
        PROVE  /\ command'[t].pid # 0 => channel'[command'[t].pid].of = "daemon"
               /\ command'[t].at \in {"idle", "spawn", "done"} => command'[t].pid = 0
               /\ command'[t].at = "write" => command'[t].pid # 0
    <3>1. CASE t = s
      BY <1>5, <1>6, <3>1
    <3>2. CASE t # s
      BY <1>4, <1>6, <1>8, <3>2 DEF BindingInv, DaemonInv, PidsInv
    <3>. QED
      BY <3>1, <3>2
  <2>. QED
    BY <2>1, <2>2 DEF PidsInv
<1>10. Lives(pidFile)' <=> Lives(pidFile)
  BY <1>1, <1>4, <1>8 DEF Lives, Bound!Live, Bound!At
<1>11. ASSUME ~raced PROVE InTurn'
  <2>1. Busy(s) /\ InTurn
    BY <1>1, <1>11 DEF Busy, BindingInv, DaemonInv
  <2>2. \A t \in Processes : t # s => command'[t].at \in {"idle", "done"}
    BY <1>6, <2>1 DEF InTurn, Busy
  <2>3. ~Lives(pidFile)'
    BY <1>1, <1>10, <2>1 DEF InTurn
  <2>4. \A t, u \in Processes : Busy(t)' /\ Busy(u)' => t = u
    BY <2>2 DEF Busy
  <2>. QED
    BY <1>6, <2>2, <2>3, <2>4 DEF InTurn
<1>12. Bound!DaemonNamed'
  <2> SUFFICES ASSUME ~raced, NEW d \in Bound!Channels, channel'[d].of = "daemon", Bound!Live(d)'
               PROVE  pidFile = d \/ \E t \in Processes : command'[t].pid = d
    BY <1>1 DEF Bound!DaemonNamed
  <2>1. CASE d = c
    BY <1>6, <2>1
  <2>2. CASE d # c
    <3>1. channel[d].of = "daemon" /\ Bound!Live(d)
      BY <1>4, <2>2 DEF Bound!Live, Bound!At
    <3>2. pidFile = d \/ \E t \in Processes : command[t].pid = d
      BY <3>1 DEF BindingInv, DaemonInv, Bound!DaemonNamed
    <3>3. command[s].pid = 0 /\ d # 0
      BY <1>1, CommandTypes DEF BindingInv, DaemonInv, PidsInv
    <3>. QED
      BY <1>6, <3>2, <3>3
  <2>. QED
    BY <2>1, <2>2
<1>13. DaemonTypes' /\ DaemonInv'
  BY <1>1, <1>7, <1>9, <1>11, <1>12 DEF DaemonInv
<1>14. SessionTypes'
  BY <1>1, TypeParts DEF BindingInv, MessageInv, SessionTypes
<1>15. SessionInv'
  <2>1. prompt.on # 0 => prompt.on \in Bound!Channels
    BY TypeParts, CommandTypes DEF BindingInv, MessageInv, SessionTypes
  <2>2. \A d \in Bound!Channels : cleanups[d] # "none" => d # c
    BY <1>5 DEF BindingInv, SessionInv
  <2>3. prompt.at = "starting" => prompt.on # c
    BY <1>5 DEF BindingInv, SessionInv
  <2>4. \A d \in Bound!Channels : channel'[d].of = "session" /\ Bound!Live(d)' =>
          d # c /\ channel[d].of = "session" /\ Bound!Live(d)
    BY <1>4, <1>5 DEF Bound!Live, Bound!At
  <2>. QED
    BY <1>1, <1>4, <2>1, <2>2, <2>3, <2>4 DEF BindingInv, SessionInv
<1>. QED
  BY <1>4, <1>13, <1>14, <1>15, Together

(* The session starts a channel.                                           *)
LEMMA SessionStartStep ==
    ASSUME BindingInv, Bound!SessionStart
    PROVE  BindingInv'
<1> DEFINE new == [Bound!Unstarted EXCEPT !.of = "session", !.at = "starting",
                       !.binding = account.binding, !.cursor = account.cursor]
<1>1. /\ prompt = Bound!AtPrompt /\ channelTask = 0 /\ account.binding # 0
      /\ started < MaxChannels /\ started' = started + 1
      /\ channel' = [channel EXCEPT ![started'] = new]
      /\ open' = open \cup {started'}
      /\ prompt' = [Bound!AtPrompt EXCEPT !.at = "starting", !.on = started']
      /\ UNCHANGED <<account, bound, posted, answered, dropped, pidFile, command, raced, migrating,
                     channelTask, cleanups, cleanup>>
  BY DEF Bound!SessionStart, Bound!accountVars, Bound!daemonVars
<1>2. /\ new \in WeChats /\ new.at = "starting" /\ new.of = "session" /\ new.queue = {}
      /\ new.binding = account.binding
  <2>1. Bound!Unstarted \in WeChats /\ Bound!Unstarted.queue = {}
    BY UnstartedType DEF BindingInv, MessageInv
  <2>2. account.binding \in 0..MaxBindings /\ account.cursor \in 0..MaxMessages
    BY BindingTypes DEF BindingInv, MessageInv
  <2>. QED
    BY <2>1, <2>2 DEF WeChats
<1> HIDE DEF new
<1>3. PICK c \in Bound!Channels : c = started + 1 /\ c # 0 /\ c \in 0..MaxChannels
  BY <1>1, BindingTypes DEF BindingInv, MessageInv
<1>4. /\ MessageKept
      /\ channel[c] = Bound!Unstarted /\ channel'[c] = new
      /\ \A d \in Bound!Channels : d # c => channel'[d] = channel[d]
  <2>1. new.binding <= bound
    BY <1>2 DEF BindingInv, MessageInv, ChannelInv
  <2>. QED
    BY <1>1, <1>2, <1>3, <2>1, NewChannel
<1>5. /\ channel[c].of = "none" /\ channel[c].at = "off"
      /\ channel'[c].of = "session" /\ channel'[c].at = "starting"
  BY <1>2, <1>4 DEF Bound!Unstarted
<1>6. DaemonTypes'
  BY <1>1, CommandTypes DEF DaemonTypes
<1>7. /\ pidFile # 0 => pidFile \in Bound!Channels /\ pidFile # c
      /\ \A t \in Processes : command[t].pid # 0 => command[t].pid \in Bound!Channels
                                                    /\ command[t].pid # c
  BY <1>5, CommandTypes DEF BindingInv, DaemonInv, PidsInv
<1>8. PidsInv'
  BY <1>1, <1>4, <1>7 DEF BindingInv, DaemonInv, PidsInv
<1>9. /\ Lives(pidFile)' <=> Lives(pidFile)
      /\ \A t \in Processes : Lives(command[t].pid)' <=> Lives(command[t].pid)
  BY <1>1, <1>4, <1>7 DEF Lives, Bound!Live, Bound!At
<1>10. ~raced' => InTurn'
  BY <1>1, <1>9 DEF BindingInv, DaemonInv, InTurn, Busy
<1>11. \A d \in Bound!Channels : channel'[d].of = "daemon" /\ Bound!Live(d)' =>
          channel[d].of = "daemon" /\ Bound!Live(d)
  BY <1>4, <1>5 DEF Bound!Live, Bound!At
<1>12. Bound!DaemonNamed'
  BY <1>1, <1>11 DEF BindingInv, DaemonInv, Bound!DaemonNamed
<1>13. DaemonTypes' /\ DaemonInv'
  BY <1>6, <1>8, <1>10, <1>12 DEF DaemonInv
<1>14. /\ prompt'.at = "starting" /\ prompt'.on = c /\ prompt.on = 0 /\ prompt.at = "idle"
       /\ prompt' \in [at : {"idle", "starting", "closing", "over"}, on : 0..MaxChannels,
                       waits : 0..MaxChannels, leaving : BOOLEAN]
  <2>1. prompt' = [at |-> "starting", on |-> c, waits |-> 0, leaving |-> FALSE]
    BY <1>1, <1>3 DEF Bound!AtPrompt
  <2>2. 0 \in 0..MaxChannels
    BY CommandTypes
  <2>3. prompt.on = 0 /\ prompt.at = "idle"
    BY <1>1 DEF Bound!AtPrompt
  <2>. QED
    BY <1>3, <2>1, <2>2, <2>3
<1>15. SessionTypes'
  BY <1>1, <1>3, <1>14, TypeParts DEF BindingInv, MessageInv, SessionTypes
<1>16. SessionInv'
  <2>1. \A d \in Bound!Channels : cleanups[d] # "none" => d # c
    BY <1>5 DEF BindingInv, SessionInv
  <2>2. \A d \in Bound!Channels : channel'[d].of = "session" /\ Bound!Live(d)' /\ d # c =>
          channel[d].of = "session" /\ Bound!Live(d)
    BY <1>4 DEF Bound!Live, Bound!At
  <2>3. open' = open \cup {c} /\ open \subseteq Bound!Channels
    BY <1>1, <1>3, TypeParts DEF BindingInv, MessageInv, SessionTypes
  <2>4. \A d \in open : d # 0 /\ cleanups[d] = "closing"
    BY <1>1, <1>14, <2>3, CommandTypes DEF BindingInv, SessionInv
  <2>5. \A d \in Bound!Channels : channel[d].of = "session" => ~Bound!Live(d)
    BY <1>1, <1>14, CommandTypes DEF BindingInv, SessionInv
  <2>. QED
    BY <1>1, <1>3, <1>4, <1>5, <1>14, <2>1, <2>2, <2>3, <2>4, <2>5 DEF BindingInv, SessionInv
<1>. QED
  BY <1>4, <1>13, <1>15, <1>16, Together

(* The types of the session, and what an idle prompt means.                *)
LEMMA SessionParts ==
    ASSUME BindingInv
    PROVE  /\ channelTask \in 0..MaxChannels /\ open \subseteq Bound!Channels
           /\ cleanup \in 0..MaxChannels
           /\ prompt \in [at : {"idle", "starting", "closing", "over"}, on : 0..MaxChannels,
                          waits : 0..MaxChannels, leaving : BOOLEAN]
           /\ cleanups \in [Bound!Channels -> {"none", "scheduled", "closing"}]
           /\ MaxChannels \in Nat /\ Bound!Channels = 1..MaxChannels
BY TypeParts, BindingTypes DEF BindingInv, MessageInv, SessionTypes

(* A channel that ends only moves on.                                      *)
LEMMA EndedMovesOn ==
    ASSUME MessageInv, NEW c \in Bound!Channels, Bound!Ended(c)
    PROVE  MovesOn /\ channel'[c].at = "over"
<1>1. channel[c] \in WeChats
  BY BindingTypes DEF MessageInv
<1>2. /\ channel'[c] = [channel[c] EXCEPT !.at = "over", !.queue = {}]
      /\ \A d \in Bound!Channels : d # c => channel'[d] = channel[d]
  BY BindingTypes DEF Bound!Ended, MessageInv
<1>3. channel'[c].of = channel[c].of /\ channel'[c].at = "over"
  BY <1>1, <1>2 DEF WeChats
<1>. QED
  BY <1>2, <1>3 DEF MovesOn

(* The channel that the session starts runs, or is over at once.           *)
LEMMA SessionStartedStep ==
    ASSUME BindingInv, NEW fails \in BOOLEAN, Bound!SessionStarted(fails)
    PROVE  BindingInv'
<1> DEFINE at == IF fails THEN "over" ELSE "polling"
<1>1. /\ prompt.at = "starting" /\ prompt' = Bound!AtPrompt
      /\ channel' = [channel EXCEPT ![prompt.on].at = at]
      /\ channelTask' = IF fails THEN channelTask ELSE prompt.on
      /\ open' = IF fails THEN open \ {prompt.on} ELSE open
      /\ UNCHANGED <<account, bound, posted, started, answered, dropped, pidFile, command, raced,
                     migrating, cleanups, cleanup>>
  BY DEF Bound!SessionStarted, Bound!accountVars, Bound!daemonVars
<1>2. at \in {"over", "polling"} /\ (at = "over" <=> fails)
  OBVIOUS
<1> HIDE DEF at
<1>3. PICK c \in Bound!Channels : c = prompt.on /\ c # 0
  BY <1>1, SessionParts DEF BindingInv, SessionInv
<1>4. channel[c].of = "session" /\ channel[c].at = "starting" /\ channelTask = 0
  BY <1>1, <1>3 DEF BindingInv, SessionInv
<1>5. c <= started /\ channel[c] \in WeChats /\ ChannelOK(channel[c])
  BY <1>4, HasStarted DEF BindingInv
<1>6. /\ channel'[c] = [channel[c] EXCEPT !.at = at]
      /\ \A d \in Bound!Channels : d # c => channel'[d] = channel[d]
  BY <1>1, <1>3, CommandTypes
<1>7. /\ channel'[c] \in WeChats /\ channel'[c].at = at /\ channel'[c].of = "session"
      /\ channel'[c].queue = channel[c].queue /\ channel'[c].binding = channel[c].binding
  BY <1>2, <1>4, <1>5, <1>6 DEF WeChats
<1>8. MessageKept
  <2>1. channel' = [channel EXCEPT ![c] = channel'[c]]
    BY <1>1, <1>3, <1>6, CommandTypes
  <2>2. ChannelOK(channel[c])'
    <3>1. bound' = bound /\ posted' = posted
      BY <1>1
    <3>2. channel[c].binding # 0 /\ channel[c].binding <= bound
      BY <1>4, <1>5 DEF ChannelOK
    <3>. QED
      BY <1>2, <1>7, <3>1, <3>2 DEF ChannelOK
  <2>3. started' \in 0..MaxChannels /\ started' >= started /\ c <= started'
    BY <1>1, <1>5, BindingTypes DEF BindingInv, MessageInv
  <2>. QED
    BY <1>1, <1>7, <2>1, <2>2, <2>3, QuietChannel DEF BindingInv
<1>9. MovesOn
  BY <1>2, <1>4, <1>6, <1>7 DEF MovesOn
<1>10. DaemonTypes' /\ DaemonInv'
  BY <1>1, <1>9, CommandTypes, DaemonSame
<1>11. /\ prompt'.at = "idle" /\ prompt'.on = 0
       /\ prompt' \in [at : {"idle", "starting", "closing", "over"}, on : 0..MaxChannels,
                       waits : 0..MaxChannels, leaving : BOOLEAN]
  BY <1>1, SessionParts DEF Bound!AtPrompt
<1>12. SessionTypes'
  BY <1>1, <1>3, <1>11, SessionParts DEF SessionTypes
<1>13. SessionInv'
  <2>1. ASSUME NEW d \in Bound!Channels, channel'[d].of = "session", Bound!Live(d)'
        PROVE  d = channelTask'
    <3>1. CASE d = c
      BY <1>1, <1>2, <1>3, <1>7, <2>1, <3>1 DEF Bound!Live, Bound!At
    <3>2. CASE d # c
      BY <1>3, <1>4, <1>6, <2>1, <3>2, SessionParts DEF BindingInv, SessionInv, Bound!Live, Bound!At
    <3>. QED
      BY <3>1, <3>2
  <2>2. \A d \in Bound!Channels : cleanups[d] # "none" => channel'[d].at = "over"
    BY <1>9 DEF MovesOn, BindingInv, SessionInv
  <2>3. \A d \in open' : d \in {channelTask', prompt'.on} \/ cleanups[d] = "closing"
    BY <1>1, <1>3, <1>4, SessionParts DEF BindingInv, SessionInv
  <2>. QED
    BY <1>1, <1>11, <2>1, <2>2, <2>3 DEF SessionInv
<1>. QED
  BY <1>8, <1>10, <1>12, <1>13, Together

(* The session closes what it has: its task is over.                       *)
LEMMA SessionCloseStep ==
    ASSUME BindingInv, NEW leaving \in BOOLEAN, Bound!SessionClose(leaving)
    PROVE  BindingInv'
<1>1. /\ prompt = Bound!AtPrompt /\ channelTask' = 0
      /\ prompt' = [at |-> "closing", on |-> channelTask, waits |-> cleanup, leaving |-> leaving]
      /\ UNCHANGED <<account, bound, posted, pidFile, command, raced, migrating, open, cleanups,
                     cleanup>>
  BY DEF Bound!SessionClose, Bound!accountVars, Bound!daemonVars
<1>2. prompt.at = "idle" /\ prompt.on = 0
  BY <1>1 DEF Bound!AtPrompt
<1>3. /\ MessageKept /\ MovesOn
      /\ \A d \in Bound!Channels : d = channelTask => ~Bound!Live(d)'
  <2>1. CASE channelTask # 0 /\ Bound!Live(channelTask)
    <3>1. PICK c \in Bound!Channels : c = channelTask
      BY <2>1, SessionParts
    <3>2. Bound!Ended(c) /\ channel[c].at # "off"
      BY <2>1, <3>1 DEF Bound!SessionClose, Bound!Live, Bound!At
    <3>3. MovesOn /\ channel'[c].at = "over"
      BY <3>2, EndedMovesOn DEF BindingInv
    <3>4. ~Bound!Live(c)'
      BY <3>3 DEF Bound!Live, Bound!At
    <3>5. MessageKept
      BY <1>1, <3>2, EndedKeeps DEF BindingInv
    <3>. QED
      BY <3>1, <3>3, <3>4, <3>5
  <2>2. CASE ~(channelTask # 0 /\ Bound!Live(channelTask))
    <3>1. UNCHANGED <<channel, started, answered, dropped>>
      BY <2>2 DEF Bound!SessionClose, Bound!channelVars
    <3>2. MessageKept
      BY <1>1, <3>1, NoMessages DEF BindingInv
    <3>3. \A d \in Bound!Channels : d = channelTask => ~Bound!Live(d)'
      BY <2>2, <3>1, SessionParts DEF Bound!Live, Bound!At
    <3>. QED
      BY <3>1, <3>2, <3>3 DEF MovesOn
  <2>. QED
    BY <2>1, <2>2
<1>4. DaemonTypes' /\ DaemonInv'
  BY <1>1, <1>3, CommandTypes, DaemonSame
<1>5. SessionTypes'
  BY <1>1, SessionParts DEF SessionTypes
<1>6. SessionInv'
  <2>1. ASSUME NEW d \in Bound!Channels, channel'[d].of = "session", Bound!Live(d)' PROVE FALSE
    <3>1. channel[d].of = "session" /\ Bound!Live(d)
      BY <1>3, <2>1 DEF MovesOn, Bound!Live, Bound!At
    <3>2. d = channelTask /\ d # 0
      BY <1>2, <3>1, SessionParts DEF BindingInv, SessionInv
    <3>. QED
      BY <1>3, <2>1, <3>2
  <2>2. \A d \in Bound!Channels : cleanups[d] # "none" => channel'[d].at = "over"
    BY <1>3 DEF MovesOn, BindingInv, SessionInv
  <2>3. prompt'.at = "closing" /\ prompt'.on = channelTask /\ prompt'.waits = cleanup
    BY <1>1
  <2>4. \A d \in open' : d \in {channelTask', prompt'.on} \/ cleanups[d] = "closing"
    BY <1>1, <1>2, <2>3, SessionParts DEF BindingInv, SessionInv
  <2>. QED
    BY <1>1, <2>1, <2>2, <2>3, <2>4 DEF SessionInv
<1>. QED
  BY <1>3, <1>4, <1>5, <1>6, Together

(* ... and when the cleanup that it knows of is done, it is closed.        *)
LEMMA SessionClosedStep ==
    ASSUME BindingInv, Bound!SessionClosed
    PROVE  BindingInv'
<1>1. /\ prompt.at = "closing" /\ (prompt.waits # 0 => cleanups[prompt.waits] = "none")
      /\ open' = open \ {prompt.on}
      /\ prompt' = [Bound!AtPrompt EXCEPT !.at = IF prompt.leaving THEN "over" ELSE "idle"]
      /\ UNCHANGED <<account, bound, posted, channel, started, answered, dropped, pidFile, command,
                     raced, migrating, channelTask, cleanups, cleanup>>
  BY DEF Bound!SessionClosed, Bound!accountVars, Bound!channelVars, Bound!daemonVars
<1>2. MessageKept /\ MovesOn
  BY <1>1, NoMessages DEF BindingInv, MovesOn
<1>3. DaemonTypes' /\ DaemonInv'
  BY <1>1, <1>2, CommandTypes, DaemonSame
<1>4. /\ prompt'.at \in {"idle", "over"} /\ prompt'.on = 0
      /\ prompt' \in [at : {"idle", "starting", "closing", "over"}, on : 0..MaxChannels,
                      waits : 0..MaxChannels, leaving : BOOLEAN]
  <2>1. PICK at \in {"idle", "over"} : at = IF prompt.leaving THEN "over" ELSE "idle"
    OBVIOUS
  <2>2. prompt' = [at |-> at, on |-> 0, waits |-> 0, leaving |-> FALSE]
    BY <1>1, <2>1 DEF Bound!AtPrompt
  <2>. QED
    BY <2>2, SessionParts
<1>5. SessionTypes'
  BY <1>1, <1>4, SessionParts DEF SessionTypes
<1>6. SessionInv'
  <2>1. \A c \in Bound!Channels : channel[c].of = "session" => ~Bound!Live(c)
    BY <1>1, SessionParts DEF BindingInv, SessionInv
  <2>2. \A c \in open : c \in Bound!Channels /\ c # 0 /\ (c = prompt.on \/ cleanups[c] = "closing")
    BY <1>1, SessionParts DEF BindingInv, SessionInv
  <2>3. cleanup \in {0, prompt.waits} /\ channelTask = 0
    BY <1>1 DEF BindingInv, SessionInv
  <2>4. \A c \in open' : cleanups[c] = "closing" /\ cleanup # c
    BY <1>1, <2>2, <2>3
  <2>. QED
    BY <1>1, <1>4, <2>1, <2>3, <2>4 DEF SessionInv, BindingInv, Bound!Live, Bound!At
<1>. QED
  BY <1>2, <1>3, <1>5, <1>6, Together

(* The task of a channel that is over has its cleanup scheduled.           *)
LEMMA ChannelDoneStep ==
    ASSUME BindingInv, NEW c \in Bound!Channels, Bound!OnChannelDone(c)
    PROVE  BindingInv'
<1>1. /\ channelTask = c /\ channel[c].at = "over" /\ cleanups[c] = "none"
      /\ cleanups' = [cleanups EXCEPT ![c] = "scheduled"] /\ cleanup' = c
      /\ UNCHANGED <<account, bound, posted, channel, started, answered, dropped, pidFile, command,
                     raced, migrating, channelTask, prompt, open>>
  BY DEF Bound!OnChannelDone, Bound!At, Bound!accountVars, Bound!channelVars, Bound!daemonVars
<1>2. MessageKept /\ MovesOn
  BY <1>1, NoMessages DEF BindingInv, MovesOn
<1>3. DaemonTypes' /\ DaemonInv'
  BY <1>1, <1>2, CommandTypes, DaemonSame
<1>4. c # 0 /\ prompt.at = "idle"
  BY <1>1, SessionParts DEF BindingInv, SessionInv
<1>5. SessionTypes'
  BY <1>1, SessionParts DEF SessionTypes
<1>6. SessionInv'
  <2>1. cleanups'[c] = "scheduled" /\ \A d \in Bound!Channels : d # c => cleanups'[d] = cleanups[d]
    BY <1>1, SessionParts
  <2>2. \A d \in open : d \in Bound!Channels
    BY SessionParts
  <2>3. \A d \in Bound!Channels : Bound!Live(d)' <=> Bound!Live(d)
    BY <1>1 DEF Bound!Live, Bound!At
  <2>. QED
    BY <1>1, <1>4, <2>1, <2>2, <2>3 DEF SessionInv, BindingInv
<1>. QED
  BY <1>2, <1>3, <1>5, <1>6, Together

(* A cleanup takes over the channel's components, or is done.              *)
LEMMA CleanupStep ==
    ASSUME BindingInv, NEW c \in Bound!Channels, Bound!Cleanup(c)
    PROVE  BindingInv'
<1>1. /\ \/ /\ cleanups[c] = "scheduled" /\ channelTask = c
            /\ channelTask' = 0 /\ cleanups' = [cleanups EXCEPT ![c] = "closing"]
            /\ UNCHANGED <<open, cleanup>>
         \/ /\ cleanups[c] = "closing" \/ (cleanups[c] = "scheduled" /\ channelTask # c)
            /\ open' = IF cleanups[c] = "closing" THEN open \ {c} ELSE open
            /\ cleanups' = [cleanups EXCEPT ![c] = "none"]
            /\ cleanup' = IF cleanup = c THEN 0 ELSE cleanup
            /\ UNCHANGED channelTask
      /\ UNCHANGED <<account, bound, posted, channel, started, answered, dropped, pidFile, command,
                     raced, migrating, prompt>>
  BY DEF Bound!Cleanup, Bound!accountVars, Bound!channelVars, Bound!daemonVars
<1>2. MessageKept /\ MovesOn
  BY <1>1, NoMessages DEF BindingInv, MovesOn
<1>3. DaemonTypes' /\ DaemonInv'
  BY <1>1, <1>2, CommandTypes, DaemonSame
<1>4. SessionTypes'
  <2>1. channelTask' \in 0..MaxChannels /\ cleanup' \in 0..MaxChannels
    BY <1>1, SessionParts
  <2>2. open' \subseteq Bound!Channels
    BY <1>1, SessionParts
  <2>3. cleanups' \in [Bound!Channels -> {"none", "scheduled", "closing"}]
    BY <1>1, SessionParts
  <2>. QED
    BY <1>1, <2>1, <2>2, <2>3, SessionParts DEF SessionTypes
<1>5. /\ \A d \in open : d \in Bound!Channels /\ d # 0
      /\ \A d \in Bound!Channels : Bound!Live(d)' <=> Bound!Live(d)
  BY <1>1, SessionParts DEF Bound!Live, Bound!At
<1>6. channel[c].at = "over" /\ ~Bound!Live(c)
  BY <1>1 DEF SessionInv, BindingInv, Bound!Live, Bound!At
<1>7. SessionInv'
  <2>1. CASE cleanups[c] = "scheduled" /\ channelTask = c
    <3>1. /\ channelTask' = 0 /\ UNCHANGED <<open, cleanup, channel, prompt>> /\ cleanups'[c] = "closing"
          /\ \A d \in Bound!Channels : d # c => cleanups'[d] = cleanups[d]
      BY <1>1, <2>1, SessionParts
    <3>. QED
      BY <1>5, <1>6, <2>1, <3>1 DEF SessionInv, BindingInv
  <2>2. CASE ~(cleanups[c] = "scheduled" /\ channelTask = c)
    <3>1. /\ UNCHANGED <<channelTask, channel, prompt>> /\ cleanups'[c] = "none"
          /\ \A d \in Bound!Channels : d # c => cleanups'[d] = cleanups[d]
          /\ cleanup' \in {0, cleanup} /\ open' \subseteq open
      BY <1>1, <2>2, SessionParts
    <3>2. \A d \in open' : cleanups[d] = "closing" => cleanups'[d] = "closing"
      BY <1>1, <1>5, <2>2, <3>1
    <3>. QED
      BY <1>5, <1>6, <3>1, <3>2 DEF SessionInv, BindingInv
  <2>. QED
    BY <2>1, <2>2
<1>. QED
  BY <1>2, <1>3, <1>4, <1>7, Together

(* The invariant holds at first, ...                                       *)
LEMMA BindingInit == Bound!Init => BindingInv
<1> SUFFICES ASSUME Bound!Init PROVE BindingInv
  OBVIOUS
<1>1. MessageInv
  BY MessageInit
<1>2. /\ \A c \in Bound!Channels : channel[c].of = "none" /\ channel[c].at = "off"
      /\ \A s \in Processes : command[s].at = "idle" /\ command[s].pid = 0
      /\ prompt.at = "idle" /\ prompt.on = 0
      /\ \A c \in Bound!Channels : cleanups[c] = "none"
  BY DEF Bound!Init, Bound!Unstarted, Bound!NoCommand, Bound!AtPrompt
<1>3. PidsInv /\ InTurn
  BY <1>2 DEF PidsInv, InTurn, Busy, Lives, Bound!Init
<1>4. Bound!DaemonNamed
  BY <1>2 DEF Bound!DaemonNamed
<1>5. SessionInv
  BY <1>2 DEF SessionInv, Bound!Init, Bound!Live, Bound!At
<1>. QED
  BY <1>1, <1>3, <1>4, <1>5 DEF BindingInv, DaemonInv

(* ... and every step keeps it.                                            *)
LEMMA BindingStep == BindingInv /\ Bound!Next => BindingInv'
<1> SUFFICES ASSUME BindingInv, Bound!Next PROVE BindingInv'
  OBVIOUS
<1>1. ASSUME NEW s \in Processes, NEW fails \in BOOLEAN, Bound!WritePid(s, fails) PROVE BindingInv'
  <2>1. CASE fails
    BY <1>1, <2>1, KillStep
  <2>2. CASE ~fails
    BY <1>1, <2>2, PidFileStep
  <2>. QED
    BY <2>1, <2>2
<1>2. CASE Bound!SessionStart \/ Bound!SessionClosed
  BY <1>2, SessionStartStep, SessionClosedStep
<1>3. CASE \E b \in BOOLEAN : Bound!SessionStarted(b) \/ Bound!SessionClose(b)
  BY <1>3, SessionStartedStep, SessionCloseStep
<1>4. CASE \E c \in Bound!Channels : Bound!OnChannelDone(c) \/ Bound!Cleanup(c)
  BY <1>4, ChannelDoneStep, CleanupStep
<1>5. ASSUME NEW s \in Processes,
             \/ Bound!DaemonStart(s) \/ Bound!SpawnDaemon(s) \/ Bound!DaemonStop(s)
             \/ Bound!KillDaemon(s) \/ Bound!UnlinkPid(s)
      PROVE  BindingInv'
  BY <1>5, DaemonStartStep, SpawnStep, KillStep, PidFileStep
<1>. QED
  BY <1>1, <1>2, <1>3, <1>4, <1>5, MessagesStep DEF Bound!Next

(* What it says of a message: it is in one place at most.                  *)
LEMMA OnePlace == MessageInv => Bound!TakenByOne
<1> SUFFICES ASSUME MessageInv, NEW b \in Bound!Bindings, NEW m \in Bound!Messages
             PROVE  LET times == answered[b][m]
                         + Bound!Cardinality({c \in Bound!Channels :
                               channel[c].binding = b /\ m \in channel[c].queue})
                         + (IF <<b, m>> \in dropped THEN 1 ELSE 0)
                    IN  /\ times <= 1
                        /\ account.binding = b => (m <= account.cursor <=> times = 1)
  BY DEF Bound!TakenByOne
<1> DEFINE queued == {c \in Bound!Channels : QueuedBy(c, b, m)}
           inQueues == Cardinality(queued)
           forgotten == IF <<b, m>> \in dropped THEN 1 ELSE 0
           times == answered[b][m] + inQueues + forgotten
<1>1. TakenOnce(b, m) /\ (account.binding = b => (m <= account.cursor <=> TakenNow(b, m)))
  BY DEF MessageInv, TakenInv
<1>2. \/ queued = {} /\ inQueues = 0
      \/ \E c \in queued : queued = {c} /\ inQueues = 1
  <2>1. CASE queued = {}
    BY <2>1, FS_EmptySet
  <2>2. CASE queued # {}
    <3>1. PICK c \in queued : TRUE
      BY <2>2
    <3>2. \A d \in queued : d = c
      BY <1>1, <3>1 DEF TakenOnce
    <3>3. queued = {c}
      BY <3>1, <3>2
    <3>. QED
      BY <3>1, <3>3, FS_Singleton
  <2>. QED
    BY <2>1, <2>2
<1>3. answered[b][m] \in {0, 1} /\ forgotten \in {0, 1} /\ (forgotten = 1 <=> <<b, m>> \in dropped)
  BY <1>1 DEF TakenOnce
<1>4. /\ answered[b][m] = 1 => inQueues = 0 /\ forgotten = 0
      /\ inQueues = 1 => answered[b][m] = 0 /\ forgotten = 0
      /\ inQueues \in {0, 1}
      /\ TakenNow(b, m) <=> answered[b][m] = 1 \/ inQueues = 1 \/ forgotten = 1
  <2>1. \A c \in Bound!Channels : c \in queued <=> QueuedBy(c, b, m)
    OBVIOUS
  <2>3. queued \subseteq Bound!Channels
    OBVIOUS
  <2> HIDE DEF queued, inQueues
  <2>2. inQueues = 1 <=> \E c \in Bound!Channels : QueuedBy(c, b, m)
    BY <1>2, <2>1, <2>3
  <2>. QED
    BY <1>1, <1>2, <1>3, <2>2 DEF TakenOnce, TakenNow
<1> HIDE DEF inQueues, forgotten
<1>5. times <= 1 /\ (TakenNow(b, m) <=> times = 1)
  BY <1>3, <1>4
<1>6. Bound!Cardinality({c \in Bound!Channels : channel[c].binding = b /\ m \in channel[c].queue})
        = inQueues
  BY DEF inQueues, queued, QueuedBy, Bound!Cardinality, Cardinality
<1>. QED
  BY <1>1, <1>5, <1>6 DEF forgotten

(* However many channels poll one WeChat account, each message goes to one *)
(* agent once; a daemon that lives is the one the pid file names unless    *)
(* commands overlapped; and a session that is left has closed what its     *)
(* channels opened (WechatAccountStore.update_sync_buf, daemon_command,    *)
(* _InteractiveWechatRuntime).                                             *)
THEOREM BindingKeptHolds == LocalSpec => []BindingKept
<1> DEFINE Inv == part = "binding" => BindingInv
<1>1. LocalInit => Inv
  BY BindingInit DEF LocalInit
<1>2. Inv /\ [LocalNext]_localVars => Inv'
  <2> SUFFICES ASSUME Inv, [LocalNext]_localVars PROVE Inv'
    OBVIOUS
  <2>1. CASE part = "binding" /\ Bound!Next /\ UNCHANGED part
    BY <2>1, BindingStep
  <2>2. CASE part # "binding" /\ UNCHANGED part
    BY <2>2
  <2>3. CASE UNCHANGED localVars
    <3>0. UNCHANGED <<part, account, bound, posted, channel, started, answered, dropped, pidFile,
                      command, raced, migrating, channelTask, prompt, open, cleanups, cleanup>>
      BY <2>3 DEF localVars, bindingVars
    <3>1. ASSUME BindingInv PROVE BindingInv'
      <4>1. MessageKept
        BY <3>0, <3>1, NoMessages DEF BindingInv
      <4>2. GoOn
        BY <3>0 DEF GoOn, MovesOn
      <4>3. migrating' \in 0..MaxBindings
        BY <3>0, <3>1, CommandTypes
      <4>4. DaemonTypes' /\ DaemonInv' /\ SessionTypes' /\ SessionInv'
        BY <3>0, <3>1, <4>2, <4>3, DaemonSame, SessionSame DEF GoOn
      <4>. QED
        BY <4>1, <4>4, Together
    <3>. QED
      BY <3>0, <3>1
  <2>. QED
    BY <2>1, <2>2, <2>3 DEF LocalNext
<1>3. BindingInv => Bound!SessionClosesAll
  <2> SUFFICES ASSUME BindingInv PROVE Bound!SessionClosesAll
    OBVIOUS
  <2>1. \A c \in Bound!Channels : c # 0
    BY SessionParts
  <2>. QED
    BY <2>1 DEF BindingInv, SessionInv, Bound!SessionClosesAll
<1>4. Inv => BindingKept
  BY <1>3, OnePlace DEF BindingKept, BindingInv, MessageInv, DaemonInv, ChannelInv
<1>. QED
  BY <1>1, <1>2, <1>4, PTL DEF LocalSpec, localVars
=============================================================================
