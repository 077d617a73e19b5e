---------------------------- MODULE MCLocalState ----------------------------
(* Instance for TLC of what the processes of one user share in files: the  *)
(* skills (Skills), the code index of a workspace (CodeIndex), the long-   *)
(* term memory (Memory), the configuration (Settings), the WeChat binding  *)
(* (Binding), the logs (Logs) and the traces of agent runs (Traces). They  *)
(* share no state: one of them runs in each behaviour and the others are   *)
(* Off.                                                                    *)
EXTENDS CodeIndex, TLC

CONSTANTS Off,   \* the state of what does not run
          Names, Contents, MaxSteps,
          Projects, Facts, Keys, NoKey, MaxEntries, MaxIds, MaxOps, Fields, Values, Unset,
          MaxCommands,
          MaxChannels, MaxBindings, MaxMessages,
          Nobody, Generations, Limit, MaxLines, MaxTraces, MaxRecords

VARIABLES part,   \* what runs
    dirs, disabled, holder, registry, op, steps, published, orphaned, wanted, entries,
    nextId, vectors, task, ops, last, file, conf, step, locked, commands, asked,
    account, bound, posted, channel, started, answered, dropped, pidFile, command,
    raced, migrating, channelTask, prompt, open, cleanups, cleanup,
    log, files, logHolder, writer, submitted, done, cleared, trimmed,
    traced, known, recorded, text, recent, jobs, failed, deleted, late, short

Skilled == INSTANCE Skills
Remembers == INSTANCE Memory
Configured == INSTANCE Settings WITH holder <- locked
Bound == INSTANCE Binding WITH Commands <- Processes, file <- account, task <- channelTask
Logged == INSTANCE Logs WITH
    Writers <- Processes, MaxEntries <- MaxLines, holder <- logHolder, entries <- submitted,
    lost <- trimmed

Traced == INSTANCE Traces WITH Runs <- Processes, run <- traced

skillsVars == <<dirs, disabled, holder, registry, op, steps, published, orphaned, wanted>>
memoryVars == <<entries, nextId, vectors, task, ops, last>>
settingsVars == <<file, conf, step, locked, commands, asked>>
bindingVars == <<account, bound, posted, channel, started, answered, dropped, pidFile,
                 command, raced, migrating, channelTask, prompt, open, cleanups,
                 cleanup>>
logsVars == <<log, files, logHolder, writer, submitted, done, cleared, trimmed>>
tracesVars == <<traced, known, recorded, text, recent, jobs, failed, deleted, late, short>>

ASSUME LocalAssumption ==
    /\ CodeIndexAssumption /\ Skilled!SkillsAssumption /\ Remembers!MemoryAssumption
    /\ Configured!SettingsAssumption /\ Bound!BindingAssumption /\ Logged!LogsAssumption
    /\ Traced!TracesAssumption

CodeOff ==
    /\ disk = Off /\ chunks = Off /\ fileState = Off /\ relations = Off /\ signature = Off
    /\ relationsCurrent = Off /\ run = Off /\ runs = Off /\ edits = Off /\ rebuilt = Off
SkillsOff ==
    /\ dirs = Off /\ disabled = Off /\ holder = Off /\ registry = Off /\ op = Off
    /\ steps = Off /\ published = Off /\ orphaned = Off /\ wanted = Off
MemoryOff ==
    /\ entries = Off /\ nextId = Off /\ vectors = Off /\ task = Off /\ ops = Off
    /\ last = Off
SettingsOff ==
    /\ file = Off /\ conf = Off /\ step = Off /\ locked = Off /\ commands = Off
    /\ asked = Off
BindingOff ==
    /\ account = Off /\ bound = Off /\ posted = Off /\ channel = Off /\ started = Off
    /\ answered = Off /\ dropped = Off /\ pidFile = Off /\ command = Off /\ raced = Off
    /\ migrating = Off /\ channelTask = Off /\ prompt = Off /\ open = Off
    /\ cleanups = Off /\ cleanup = Off
LogsOff ==
    /\ log = Off /\ files = Off /\ logHolder = Off /\ writer = Off /\ submitted = Off
    /\ done = Off /\ cleared = Off /\ trimmed = Off
TracesOff ==
    /\ traced = Off /\ known = Off /\ recorded = Off /\ text = Off /\ recent = Off
    /\ jobs = Off /\ failed = Off /\ deleted = Off /\ late = Off /\ short = Off

LocalInit ==
    \/ /\ part = "code" /\ Init
       /\ SkillsOff /\ MemoryOff /\ SettingsOff /\ BindingOff /\ LogsOff /\ TracesOff
    \/ /\ part = "skills" /\ Skilled!Init
       /\ CodeOff /\ MemoryOff /\ SettingsOff /\ BindingOff /\ LogsOff /\ TracesOff
    \/ /\ part = "memory" /\ Remembers!Init
       /\ CodeOff /\ SkillsOff /\ SettingsOff /\ BindingOff /\ LogsOff /\ TracesOff
    \/ /\ part = "settings" /\ Configured!Init
       /\ CodeOff /\ SkillsOff /\ MemoryOff /\ BindingOff /\ LogsOff /\ TracesOff
    \/ /\ part = "binding" /\ Bound!Init
       /\ CodeOff /\ SkillsOff /\ MemoryOff /\ SettingsOff /\ LogsOff /\ TracesOff
    \/ /\ part = "logs" /\ Logged!Init
       /\ CodeOff /\ SkillsOff /\ MemoryOff /\ SettingsOff /\ BindingOff /\ TracesOff
    \/ /\ part = "traces" /\ Traced!Init
       /\ CodeOff /\ SkillsOff /\ MemoryOff /\ SettingsOff /\ BindingOff /\ LogsOff

LocalNext ==
    \/ /\ part = "code" /\ Next
       /\ UNCHANGED <<part, skillsVars, memoryVars, settingsVars, bindingVars, logsVars, tracesVars>>
    \/ /\ part = "skills" /\ Skilled!Next
       /\ UNCHANGED <<part, vars, memoryVars, settingsVars, bindingVars, logsVars, tracesVars>>
    \/ /\ part = "memory" /\ Remembers!Next
       /\ UNCHANGED <<part, vars, skillsVars, settingsVars, bindingVars, logsVars, tracesVars>>
    \/ /\ part = "settings" /\ Configured!Next
       /\ UNCHANGED <<part, vars, skillsVars, memoryVars, bindingVars, logsVars, tracesVars>>
    \/ /\ part = "binding" /\ Bound!Next
       /\ UNCHANGED <<part, vars, skillsVars, memoryVars, settingsVars, logsVars, tracesVars>>
    \/ /\ part = "logs" /\ Logged!Next
       /\ UNCHANGED <<part, vars, skillsVars, memoryVars, settingsVars, bindingVars, tracesVars>>
    \/ /\ part = "traces" /\ Traced!Next
       /\ UNCHANGED <<part, vars, skillsVars, memoryVars, settingsVars, bindingVars, logsVars>>

LocalSpec ==
    LocalInit /\ [][LocalNext]_<<part, vars, skillsVars, memoryVars, settingsVars, bindingVars,
                               logsVars, tracesVars>>

Symmetric == Permutations(Processes) \cup Permutations(Files) \cup Permutations(Signatures)

(* What the tables say of a file agrees with its chunks, and an index run  *)
(* that nobody disturbs leaves every table as the workspace is             *)
(* (CodeIndex.index, VectorStore.replace_path).                            *)
IndexRepaired == part = "code" => TypeOK /\ StateTellsChunks /\ RepairedByQuietIndex

(* An installed skill stays until another is published in its place, and   *)
(* no toggle of one process undoes another's (_install_candidate,          *)
(* SkillRegistry.set_enabled).                                             *)
SkillsKept ==
    part = "skills" => Skilled!TypeOK /\ Skilled!InstalledSkillsStay /\ Skilled!TogglesKept

(* One memory per key and project, whoever saves at the same time          *)
(* (LongTermMemory.save).                                                  *)
OneActive == part = "memory" => Remembers!TypeOK /\ Remembers!OneActive

(* A memory leaves the file for a reason: superseded, deleted, cleared or  *)
(* evicted at the limit (LongTermMemory._write_unlocked).                  *)
LostForAReason == [][part = "memory" => Remembers!LossHasReason]_<<part, memoryVars>>

(* A save keeps what other processes have set (AppConfig.save), and a      *)
(* failed one is taken back (handle_config_command).                       *)
SettingsKept ==
    part = "settings" =>
        Configured!TypeOK /\ Configured!FileIsWhatWasSet /\ Configured!NothingOwed

(* However many channels poll one WeChat account, each message goes to one *)
(* agent once; a daemon that lives is the one the pid file names unless    *)
(* commands overlapped; and a session that is left has closed what its     *)
(* channels opened (WechatAccountStore, daemon_command,                    *)
(* _InteractiveWechatRuntime).                                             *)
BindingKept ==
    part = "binding" =>
        /\ Bound!TypeOK /\ Bound!TakenByOne /\ Bound!CursorOfBinding
        /\ Bound!DaemonNamed /\ Bound!SessionClosesAll

(* The audit log and the input history lose the oldest entries only, and   *)
(* none runs into another (AuditLog.append, _append_input_history). A      *)
(* trace tells its run from the header to the footer, and old traces go    *)
(* (LlmTraceLogger).                                                       *)
LogsKept ==
    /\ part = "logs" => Logged!TypeOK /\ Logged!NewestKept /\ Logged!OwnLine
    /\ part = "traces" => Traced!TypeOK /\ Traced!TraceTellsRun /\ Traced!TracesBounded
=============================================================================
