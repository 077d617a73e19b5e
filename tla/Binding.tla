------------------------------- MODULE Binding -------------------------------
(***************************************************************************)
(* The WeChat account of a user without the web server: one file with a    *)
(* binding and the service's cursor (kairocli/channels/wechat/             *)
(* accounts.py), the processes that poll it (channel.py without a durable  *)
(* store), the daemon commands and their pid file (daemon.py), and the     *)
(* channel that an interactive session runs beside its prompt              *)
(* (_InteractiveWechatRuntime of cli/interactive.py).                      *)
(***************************************************************************)
EXTENDS Naturals, FiniteSets

CONSTANTS
    Commands,     \* the daemon commands that are given
    MaxChannels,  \* bound: channels ever started
    MaxBindings,  \* bound: bindings ever saved
    MaxMessages   \* bound: messages sent to one binding

Channels == 1..MaxChannels
Bindings == 1..MaxBindings
Messages == 1..MaxMessages

BindingAssumption == MaxChannels \in Nat /\ MaxBindings \in Nat \ {0} /\ MaxMessages \in Nat

VARIABLES
    file,      \* account.json: its binding (0 when there is none) and cursor
    bound,     \* bindings so far
    posted,    \* binding -> messages the service has for it
    channel,   \* the channels, of whatever process
    started,   \* channels so far
    answered,  \* binding -> message -> times it was given to an agent
    dropped,   \* messages that a channel took and forgot when it ended
    pidFile,   \* the daemon that daemon.pid names, or 0
    command,   \* daemon command -> what it does
    raced,     \* two daemon commands have overlapped
    migrating, \* the binding that migrate-web has loaded, or 0
    task,      \* channel_task of the interactive session, or 0
    prompt,    \* what its prompt runs
    open,      \* channels of it whose agent and MCP servers are open
    cleanups,  \* channel -> where its _cleanup_finished_channel stands
    cleanup    \* cleanup_task: the channel it is for, or 0

accountVars == <<file, bound, posted>>
channelVars == <<channel, started, answered, dropped>>
daemonVars == <<pidFile, command, raced, migrating>>
sessionVars == <<task, prompt, open, cleanups, cleanup>>
vars == <<accountVars, channelVars, daemonVars, sessionVars>>

Unstarted == [of |-> "none", at |-> "off", binding |-> 0, cursor |-> 0, next |-> 0, queue |-> {}]

TypeOK ==
    /\ file \in [binding : 0..MaxBindings, cursor : 0..MaxMessages]
    /\ bound \in Bindings /\ posted \in [Bindings -> 0..MaxMessages]
    /\ channel \in [Channels -> [of : {"none", "daemon", "session"},
                                 at : {"off", "booting", "starting", "polling", "got", "over"},
                                 binding : 0..MaxBindings, cursor : 0..MaxMessages,
                                 next : 0..MaxMessages, queue : SUBSET Messages]]
    /\ started \in 0..MaxChannels /\ answered \in [Bindings -> [Messages -> 0..2]]
    /\ dropped \subseteq Bindings \X Messages
    /\ pidFile \in 0..MaxChannels /\ raced \in BOOLEAN /\ migrating \in 0..MaxBindings
    /\ command \in [Commands -> [at : {"idle", "spawn", "write", "kill", "unlink", "done"}, pid : 0..MaxChannels]]
    /\ task \in 0..MaxChannels /\ open \in SUBSET Channels /\ cleanup \in 0..MaxChannels
    /\ prompt \in [at : {"idle", "starting", "closing", "over"}, on : 0..MaxChannels,
                   waits : 0..MaxChannels, leaving : BOOLEAN]
    /\ cleanups \in [Channels -> {"none", "scheduled", "closing"}]

AtPrompt == [at |-> "idle", on |-> 0, waits |-> 0, leaving |-> FALSE]
NoCommand == [at |-> "idle", pid |-> 0]
Done == [at |-> "done", pid |-> 0]

Init ==
    /\ file = [binding |-> 1, cursor |-> 0] /\ bound = 1 /\ posted = [b \in Bindings |-> 0]
    /\ channel = [c \in Channels |-> Unstarted] /\ started = 0 /\ dropped = {}
    /\ answered = [b \in Bindings |-> [m \in Messages |-> 0]]
    /\ pidFile = 0 /\ command = [s \in Commands |-> NoCommand] /\ raced = FALSE /\ migrating = 0
    /\ task = 0 /\ prompt = AtPrompt /\ open = {} /\ cleanup = 0
    /\ cleanups = [c \in Channels |-> "none"]

At(c) == channel[c].at
Live(c) == At(c) \notin {"off", "over"}

-----------------------------------------------------------------------------
(* Somebody writes to the bound user. A binding is saved anew (setup).     *)
Post ==
    /\ file.binding # 0 /\ posted[file.binding] < MaxMessages
    /\ posted' = [posted EXCEPT ![file.binding] = @ + 1]
    /\ UNCHANGED <<file, bound, channelVars, daemonVars, sessionVars>>
Rebind ==
    /\ bound < MaxBindings /\ bound' = bound + 1
    /\ file' = [binding |-> bound', cursor |-> 0]
    /\ UNCHANGED <<posted, channelVars, daemonVars, sessionVars>>

(* A channel that was cancelled, killed or has lost its account: what it   *)
(* had queued is gone (the finally of WechatChannel.run).                  *)
Ended(c) ==
    /\ channel' = [channel EXCEPT ![c].at = "over", ![c].queue = {}]
    /\ dropped' = dropped \cup ({channel[c].binding} \X channel[c].queue)
    /\ UNCHANGED <<started, answered>>

(* The process of a daemon loads the account, if there is one.             *)
Boot(c) ==
    /\ At(c) = "booting"
    /\ channel' = [channel EXCEPT ![c].at = IF file.binding = 0 THEN "over" ELSE "starting",
                                  ![c].binding = file.binding, ![c].cursor = file.cursor]
    /\ UNCHANGED <<accountVars, started, answered, dropped, daemonVars, sessionVars>>

(* ... and runs its channel when the MCP servers have started.             *)
DaemonRuns(c) ==
    /\ At(c) = "starting" /\ channel[c].of = "daemon"
    /\ channel' = [channel EXCEPT ![c].at = "polling"]
    /\ UNCHANGED <<accountVars, started, answered, dropped, daemonVars, sessionVars>>

(* An update: some of the messages after the cursor, and their cursor.     *)
Poll(c, n) ==
    /\ At(c) = "polling" /\ n > channel[c].cursor /\ n <= posted[channel[c].binding]
    /\ channel' = [channel EXCEPT ![c].at = "got", ![c].next = n]
    /\ UNCHANGED <<accountVars, started, answered, dropped, daemonVars, sessionVars>>

SameBinding(ch) == file.binding = ch.binding  \* mutant: the cursors are not compared
(* update_sync_buf compares the whole account with what the channel knows. *)
SameAccount(ch) == file = [binding |-> ch.binding, cursor |-> ch.cursor]

(* The cursor is saved, only if the whole account is still as this channel *)
(* knows it (update_sync_buf), before the messages are queued; or the      *)
(* channel stops.                                                          *)
TakeUpdate(c) ==
    LET ch == channel[c] IN
    /\ ch.at = "got"
    /\ IF SameAccount(ch)
       THEN /\ file' = [file EXCEPT !.cursor = ch.next]
            /\ channel' = [channel EXCEPT ![c].at = "polling", ![c].cursor = ch.next,
                                          ![c].queue = @ \cup (ch.cursor + 1)..ch.next]
            /\ UNCHANGED dropped
       ELSE /\ channel' = [channel EXCEPT ![c].at = "over", ![c].queue = {}]
            /\ dropped' = dropped \cup ({ch.binding} \X ch.queue)
            /\ UNCHANGED file
    /\ UNCHANGED <<bound, posted, started, answered, daemonVars, sessionVars>>

(* The next message of the queue is given to the agent (_start_next).      *)
Answer(c) ==
    /\ At(c) \in {"polling", "got"} /\ channel[c].queue # {}
    /\ LET m == CHOOSE n \in channel[c].queue : \A k \in channel[c].queue : n <= k IN
        /\ channel' = [channel EXCEPT ![c].queue = @ \ {m}]
        /\ answered' = [answered EXCEPT ![channel[c].binding][m] = @ + 1]
    /\ UNCHANGED <<accountVars, started, dropped, daemonVars, sessionVars>>

-----------------------------------------------------------------------------
(* `wechat daemon start`: nothing if the pid file names a live daemon, and *)
(* without an account an error; then the process, then the pid file.       *)
LiveDaemon == IF pidFile # 0 /\ Live(pidFile) THEN pidFile ELSE 0

Enters(s, cmd) ==
    /\ command[s] = NoCommand /\ command' = [command EXCEPT ![s] = cmd]
    /\ raced' = (raced \/ \E t \in Commands \ {s} : command[t].at \notin {"idle", "done"})

DaemonStart(s) ==
    /\ LiveDaemon = 0 /\ file.binding # 0 /\ Enters(s, [at |-> "spawn", pid |-> 0])
    /\ UNCHANGED <<accountVars, channelVars, pidFile, migrating, sessionVars>>
SpawnDaemon(s) ==
    /\ command[s].at = "spawn" /\ started < MaxChannels
    /\ started' = started + 1
    /\ channel' = [channel EXCEPT ![started'] = [Unstarted EXCEPT !.of = "daemon", !.at = "booting"]]
    /\ command' = [command EXCEPT ![s] = [at |-> "write", pid |-> started']]
    /\ UNCHANGED <<accountVars, answered, dropped, pidFile, raced, migrating, sessionVars>>

(* The pid file is replaced, or cannot be and the process is ended.        *)
WritePid(s, fails) ==
    /\ command[s].at = "write" /\ command' = [command EXCEPT ![s] = Done]
    /\ IF fails
       THEN Ended(command[s].pid) /\ UNCHANGED pidFile
       ELSE pidFile' = command[s].pid /\ UNCHANGED channelVars
    /\ UNCHANGED <<accountVars, raced, migrating, sessionVars>>

(* `wechat daemon stop`: reads the pid file, ends that process and its     *)
(* group, and then deletes the pid file, whatever it names by now.         *)
DaemonStop(s) ==
    /\ Enters(s, [at |-> "kill", pid |-> LiveDaemon])
    /\ UNCHANGED <<accountVars, channelVars, pidFile, migrating, sessionVars>>
KillDaemon(s) ==
    /\ command[s].at = "kill" /\ command' = [command EXCEPT ![s].at = "unlink"]
    /\ IF command[s].pid # 0 /\ Live(command[s].pid) THEN Ended(command[s].pid) ELSE UNCHANGED channelVars
    /\ UNCHANGED <<accountVars, pidFile, raced, migrating, sessionVars>>
UnlinkPid(s) ==
    /\ command[s].at = "unlink" /\ command' = [command EXCEPT ![s] = Done]
    /\ pidFile' = 0
    /\ UNCHANGED <<accountVars, channelVars, raced, migrating, sessionVars>>

(* `wechat migrate-web`: loads the account when no daemon lives, hands it  *)
(* to the web server and moves the file away.                              *)
Migrate ==
    /\ \/ /\ migrating = 0 /\ LiveDaemon = 0 /\ file.binding # 0
          /\ migrating' = file.binding /\ UNCHANGED file
       \/ migrating # 0 /\ migrating' = 0 /\ file' = [binding |-> 0, cursor |-> 0]
    /\ UNCHANGED <<bound, posted, channelVars, pidFile, command, raced, sessionVars>>

-----------------------------------------------------------------------------
(* `/wechat start` at the prompt, when no channel runs: the account is     *)
(* loaded and its agent made, and the MCP servers are started ...          *)
SessionStart ==
    /\ prompt = AtPrompt /\ task = 0 /\ file.binding # 0 /\ started < MaxChannels
    /\ started' = started + 1
    /\ channel' = [channel EXCEPT ![started'] =
                    [Unstarted EXCEPT !.of = "session", !.at = "starting",
                                !.binding = file.binding, !.cursor = file.cursor]]
    /\ open' = open \cup {started'} /\ prompt' = [AtPrompt EXCEPT !.at = "starting", !.on = started']
    /\ UNCHANGED <<accountVars, answered, dropped, daemonVars, task, cleanups, cleanup>>

(* ... and its task runs; or starting them fails or is interrupted and     *)
(* everything is closed.                                                   *)
SessionStarted(fails) ==
    /\ prompt.at = "starting" /\ prompt' = AtPrompt
    /\ channel' = [channel EXCEPT ![prompt.on].at = IF fails THEN "over" ELSE "polling"]
    /\ task' = IF fails THEN task ELSE prompt.on
    /\ open' = IF fails THEN open \ {prompt.on} ELSE open
    /\ UNCHANGED <<accountVars, started, answered, dropped, daemonVars, cleanups, cleanup>>

(* close(): at `/wechat stop` and `setup`, before another start when the   *)
(* last channel is over, and when the session is left. It takes over what  *)
(* there is, cancels the task, ...                                         *)
SessionClose(leaving) ==
    /\ prompt = AtPrompt /\ (leaving \/ task # 0)
    /\ prompt' = [at |-> "closing", on |-> task, waits |-> cleanup, leaving |-> leaving]
    /\ task' = 0
    /\ IF task # 0 /\ Live(task) THEN Ended(task) ELSE UNCHANGED channelVars
    /\ UNCHANGED <<accountVars, daemonVars, open, cleanups, cleanup>>

(* ... closes the components and waits for the cleanup it knows of.        *)
SessionClosed ==
    /\ prompt.at = "closing" /\ (prompt.waits # 0 => cleanups[prompt.waits] = "none")
    /\ open' = open \ {prompt.on}
    /\ prompt' = [AtPrompt EXCEPT !.at = IF prompt.leaving THEN "over" ELSE "idle"]
    /\ UNCHANGED <<accountVars, channelVars, daemonVars, task, cleanups, cleanup>>

(* The channel's task has ended: _on_channel_done schedules a cleanup if   *)
(* it is still the session's; the cleanup looks again, takes over the      *)
(* components and closes them.                                             *)
OnChannelDone(c) ==
    /\ task = c /\ At(c) = "over" /\ cleanups[c] = "none"
    /\ cleanups' = [cleanups EXCEPT ![c] = "scheduled"] /\ cleanup' = c
    /\ UNCHANGED <<accountVars, channelVars, daemonVars, task, prompt, open>>
Cleanup(c) ==
    /\ \/ /\ cleanups[c] = "scheduled" /\ task = c
          /\ task' = 0 /\ cleanups' = [cleanups EXCEPT ![c] = "closing"]
          /\ UNCHANGED <<open, cleanup>>
       \/ /\ cleanups[c] = "closing" \/ (cleanups[c] = "scheduled" /\ task # c)
          /\ open' = IF cleanups[c] = "closing" THEN open \ {c} ELSE open
          /\ cleanups' = [cleanups EXCEPT ![c] = "none"]
          /\ cleanup' = IF cleanup = c THEN 0 ELSE cleanup
          /\ UNCHANGED task
    /\ UNCHANGED <<accountVars, channelVars, daemonVars, prompt>>

Next ==
    \/ Post \/ Rebind \/ Migrate
    \/ \E c \in Channels :
        \/ Boot(c) \/ DaemonRuns(c) \/ TakeUpdate(c) \/ Answer(c)
        \/ \E n \in Messages : Poll(c, n)
        \/ OnChannelDone(c) \/ Cleanup(c)
    \/ \E s \in Commands :
        \/ DaemonStart(s) \/ SpawnDaemon(s) \/ DaemonStop(s) \/ KillDaemon(s) \/ UnlinkPid(s)
        \/ \E fails \in BOOLEAN : WritePid(s, fails)
    \/ SessionStart \/ SessionClosed
    \/ \E b \in BOOLEAN : SessionStarted(b) \/ SessionClose(b)

Spec == Init /\ [][Next]_vars

-----------------------------------------------------------------------------
(* However many channels poll one account, no message is given to two      *)
(* agents or twice to one, and one behind the cursor was answered, is in   *)
(* the queue of the one channel that took it, or was forgotten when that   *)
(* channel ended (WechatAccountStore.update_sync_buf).                     *)
TakenByOne ==
    \A b \in Bindings, m \in Messages :
        LET times == answered[b][m]
                     + Cardinality({c \in Channels : channel[c].binding = b /\ m \in channel[c].queue})
                     + (IF <<b, m>> \in dropped THEN 1 ELSE 0)
        IN  /\ times <= 1
            /\ file.binding = b => (m <= file.cursor <=> times = 1)

(* A binding saved while an older one is polled keeps its own cursor       *)
(* (update_sync_buf compares the whole account).                           *)
CursorOfBinding == file.binding # 0 => file.cursor <= posted[file.binding]

(* While daemon commands do not overlap, a daemon that lives is the one    *)
(* the pid file names (daemon_command).                                    *)
DaemonNamed ==
    ~raced => \A c \in Channels :
        channel[c].of = "daemon" /\ Live(c) =>
            pidFile = c \/ \E s \in Commands : command[s].pid = c

(* The agent and MCP servers of a channel at the prompt are closed, or     *)
(* somebody is about to; a session that was left has no channel, and what  *)
(* is still open a cleanup closes that a later one has taken the place of  *)
(* (_InteractiveWechatRuntime.close).                                      *)
SessionClosesAll ==
    /\ \A c \in open : c \in {task, prompt.on} \/ cleanups[c] \in {"scheduled", "closing"}
    /\ prompt.at = "over" =>
        /\ \A c \in Channels : channel[c].of = "session" => ~Live(c)
        /\ \A c \in open : cleanups[c] = "closing" /\ cleanup # c
=============================================================================
