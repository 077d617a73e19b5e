-------------------------------- MODULE Shell --------------------------------
(***************************************************************************)
(* The processes that commands run in: the persistent shells of a          *)
(* ShellSessionManager (kairocli/tools/shell.py) and the one-shot process  *)
(* of execute_command (ToolRegistry._execute_command). Tool calls start,   *)
(* use, list and stop shells, are timed out and cancelled, and the         *)
(* registry closes. A command may ignore SIGTERM, so that ending its       *)
(* process takes a second that may be cut short.                           *)
(***************************************************************************)
EXTENDS Naturals, FiniteSets

CONSTANTS
    Tools,        \* the tool calls
    Free,         \* the holder of a lock that is free
    MaxSessions,  \* MAX_SHELL_SESSIONS
    MaxSpawned    \* bound: processes started

Kinds == {"start", "exec", "list", "stop", "once"}
Pids == 1..MaxSpawned

ShellAssumption == Free \notin Tools /\ MaxSessions \in Nat \ {0} /\ MaxSpawned \in Nat

VARIABLES
    call,      \* tool call -> what it is, and where it stands
    table,     \* _sessions
    alive,     \* process groups that are alive
    stubborn,  \* those of them that ignore SIGTERM
    expired,   \* sessions last used half an hour ago
    running,   \* session.lock: process -> the call whose command it runs
    unread,    \* process -> the calls whose output is in its pipe
    starting,  \* _registry_lock
    mutating,  \* the registry's _workspace_mutation_lock
    spawned,   \* processes so far
    phase,     \* how far close() has come
    told,      \* call -> who has cancelled it
    spared,    \* processes whose ending was cut short before SIGKILL
    cutOff     \* calls cancelled while their command was being written

vars == <<call, table, alive, stubborn, expired, running, unread, starting, mutating,
          spawned, phase, told, spared, cutOff>>

Idle == [kind |-> "list", at |-> "idle", on |-> 0, target |-> 0, todo |-> {}, got |-> {}]

TypeOK ==
    /\ call \in [Tools -> [kind : Kinds, on : 0..MaxSpawned, target : 0..MaxSpawned,
                           at : {"idle", "prune", "lock", "spawn", "drain", "read", "wait",
                                 "kill", "done"},
                           todo : SUBSET Pids, got : SUBSET Tools]]
    /\ table \in SUBSET Pids /\ alive \in SUBSET Pids /\ stubborn \in SUBSET Pids
    /\ expired \in SUBSET Pids /\ running \in [Pids -> Tools \cup {Free}]
    /\ unread \in [Pids -> SUBSET Tools] /\ starting \in Tools \cup {Free}
    /\ mutating \in Tools \cup {Free} /\ spawned \in 0..MaxSpawned
    /\ phase \in {"open", "canceling", "closing", "closed"}
    /\ told \in [Tools -> SUBSET {"owner", "registry"}] /\ spared \in SUBSET Pids /\ cutOff \in SUBSET Tools

Init ==
    /\ call = [c \in Tools |-> Idle] /\ table = {} /\ alive = {} /\ stubborn = {}
    /\ expired = {} /\ running = [p \in Pids |-> Free] /\ unread = [p \in Pids |-> {}]
    /\ starting = Free /\ mutating = Free /\ spawned = 0 /\ phase = "open"
    /\ told = [c \in Tools |-> {}]
    /\ spared = {} /\ cutOff = {}

At(c) == call[c].at
Goes(c, at) == call' = [call EXCEPT ![c].at = at]
IsClosing == phase \in {"closing", "closed"}

(* A call that is over gives back the locks it holds, with its answer.     *)
Ends(c, got) ==
    /\ call' = [call EXCEPT ![c].at = "done", ![c].got = got]
    /\ running' = [p \in Pids |-> IF running[p] = c THEN Free ELSE running[p]]
    /\ starting' = IF starting = c THEN Free ELSE starting
    /\ mutating' = IF mutating = c THEN Free ELSE mutating

(* What a call that stops reading takes out of the pipe (_drain_closed_    *)
(* output), if it was reading from its own process.                        *)
Leftover(c) == IF call[c].kind = "exec" /\ running[call[c].on] = c THEN unread[call[c].on] ELSE {}

(* Deletes a session, sends SIGTERM and begins to wait (_discard).         *)
Discard(c, p) ==
    /\ call' = [call EXCEPT ![c].at = "kill", ![c].target = p]
    /\ table' = table \ {p}

-----------------------------------------------------------------------------
(* A tool call reaches its handler: shell_exec and execute_command under   *)
(* the mutation lock, and the sessions' tools with a look for idle ones.   *)
Begin(c, k) ==
    /\ At(c) = "idle" /\ phase = "open"
    /\ k = "exec" => mutating = Free
    /\ mutating' = IF k = "exec" THEN c ELSE mutating
    /\ \E p \in 0..spawned :
        /\ (k = "exec") = (p # 0)
        /\ call' = [call EXCEPT ![c] = [Idle EXCEPT !.kind = k, !.at = "prune", !.on = p, !.todo = table]]
    /\ UNCHANGED <<table, alive, stubborn, expired, running, unread, starting, spawned,
                   phase, told, spared, cutOff>>

(* stop() *)
Stop(c, p) ==
    /\ At(c) = "idle" /\ phase = "open" /\ p \in table
    /\ call' = [call EXCEPT ![c] = [Idle EXCEPT !.kind = "stop", !.at = "kill", !.target = p]]
    /\ table' = table \ {p}
    /\ UNCHANGED <<alive, stubborn, expired, running, unread, starting, mutating, spawned,
                   phase, told, spared, cutOff>>

(* execute_command starts its process.                                     *)
RunOnce(c, ignores) ==
    /\ At(c) = "idle" /\ phase = "open" /\ mutating = Free /\ spawned < MaxSpawned
    /\ spawned' = spawned + 1 /\ mutating' = c
    /\ call' = [call EXCEPT ![c] = [Idle EXCEPT !.kind = "once", !.at = "wait", !.on = spawned']]
    /\ alive' = alive \cup {spawned'}
    /\ stubborn' = IF ignores THEN stubborn \cup {spawned'} ELSE stubborn
    /\ UNCHANGED <<table, expired, running, unread, starting, phase, told, spared, cutOff>>

PrunableInUse(p) == p \notin alive \/ p \in expired  \* mutant: a session in use is not spared
(* Sessions _prune_idle deletes: not in use, and exited or expired.        *)
Prunable(p) == running[p] = Free /\ (p \notin alive \/ p \in expired)

(* _prune_idle comes to a session it deletes, past others it need not.     *)
Prune(c, p) ==
    /\ At(c) = "prune" /\ p \in call[c].todo /\ Prunable(p)
    /\ \E rest \in SUBSET (call[c].todo \ {p}) :
        /\ \A q \in call[c].todo \ (rest \cup {p}) : ~Prunable(q)
        /\ call' = [call EXCEPT ![c].at = "kill", ![c].target = p, ![c].todo = rest]
    /\ table' = table \ {p}
    /\ UNCHANGED <<alive, stubborn, expired, running, unread, starting, mutating, spawned,
                   phase, told, spared, cutOff>>

(* ... or to the end of its list. Then start() waits for the registry      *)
(* lock, list() answers, and execute() has the session only if it is still *)
(* in the table and its process has not exited; it writes the command,     *)
(* which a long one takes more than one step for (stdin.drain).            *)
Pruned(c, ignores, long) ==
    /\ At(c) = "prune" /\ \A p \in call[c].todo : ~Prunable(p)
    /\ LET p == call[c].on IN
        \/ /\ call[c].kind = "start" /\ Goes(c, "lock")
           /\ UNCHANGED <<table, stubborn, running, unread, starting, mutating>>
        \/ /\ call[c].kind = "list" /\ Ends(c, {}) /\ UNCHANGED <<table, stubborn, unread>>
        \/ /\ call[c].kind = "exec" /\ (p \notin table \/ p \notin alive)
           /\ table' = table \ {p} /\ Ends(c, {}) /\ UNCHANGED <<stubborn, unread>>
        \/ /\ call[c].kind = "exec" /\ p \in table /\ p \in alive /\ running[p] = Free
           /\ running' = [running EXCEPT ![p] = c]
           /\ unread' = [unread EXCEPT ![p] = @ \cup {c}]
           /\ stubborn' = IF ignores THEN stubborn \cup {p} ELSE stubborn
           /\ Goes(c, IF long THEN "drain" ELSE "read")
           /\ UNCHANGED <<table, starting, mutating>>
    /\ UNCHANGED <<alive, expired, spawned, phase, told, spared, cutOff>>

-----------------------------------------------------------------------------
(* start() under the registry lock: refused when the manager closes or     *)
(* the table is full ...                                                   *)
Spawn(c) ==
    /\ At(c) = "lock" /\ starting = Free
    /\ IF IsClosing \/ Cardinality(table) >= MaxSessions
       THEN Ends(c, {})
       ELSE /\ spawned < MaxSpawned /\ starting' = c /\ Goes(c, "spawn")
            /\ UNCHANGED <<running, mutating>>
    /\ UNCHANGED <<table, alive, stubborn, expired, unread, spawned, phase, told, spared, cutOff>>

(* ... and the process is there: the table has it, or the manager was      *)
(* closed meanwhile and the process is ended under the lock.               *)
Spawned(c) ==
    /\ At(c) = "spawn" /\ spawned < MaxSpawned
    /\ spawned' = spawned + 1 /\ alive' = alive \cup {spawned'}
    /\ IF IsClosing
       THEN /\ call' = [call EXCEPT ![c].at = "kill", ![c].target = spawned']
            /\ UNCHANGED <<table, running, starting, mutating>>
       ELSE table' = table \cup {spawned'} /\ Ends(c, {})
    /\ UNCHANGED <<stubborn, expired, unread, phase, told, spared, cutOff>>

(* The shell has taken the whole command, or has exited before it did.     *)
Drained(c) ==
    /\ At(c) = "drain"
    /\ IF call[c].on \in alive THEN Goes(c, "read") /\ UNCHANGED table ELSE Discard(c, call[c].on)
    /\ UNCHANGED <<alive, stubborn, expired, running, unread, starting, mutating, spawned,
                   phase, told, spared, cutOff>>

(* The completion marker of the command arrives with what came before it   *)
(* (_read_until_marker), or the pipe ends because the shell has exited; a  *)
(* one-shot process exits.                                                 *)
Completes(c) ==
    LET p == call[c].on IN
    /\ \/ /\ At(c) = "read" /\ Ends(c, unread[p])
          /\ unread' = [unread EXCEPT ![p] = {}]
          /\ table' = IF p \in alive THEN table ELSE table \ {p}
          /\ expired' = expired \ {p} /\ UNCHANGED alive
       \/ /\ At(c) = "wait" /\ Ends(c, {c})
          /\ alive' = alive \ {p} /\ UNCHANGED <<unread, table, expired>>
    /\ UNCHANGED <<stubborn, spawned, phase, told, spared, cutOff>>

(* The command's timeout: its process is ended (execute, _execute_command).*)
TimesOut(c) ==
    /\ At(c) \in {"read", "wait"} /\ Discard(c, call[c].on)
    /\ UNCHANGED <<alive, stubborn, expired, running, unread, starting, mutating, spawned,
                   phase, told, spared, cutOff>>

(* The process that is being ended was found idle by the call.             *)
WasPruning(c) ==
    /\ call[c].kind \in {"start", "exec", "list"} /\ starting # c
    /\ call[c].kind = "exec" => running[call[c].on] # c

(* The process has gone, at SIGTERM or a second later at SIGKILL           *)
(* (_terminate_process_tree).                                              *)
Killed(c) ==
    /\ At(c) = "kill" /\ alive' = alive \ {call[c].target}
    /\ IF WasPruning(c)
       THEN Goes(c, "prune") /\ UNCHANGED <<running, starting, mutating, unread>>
       ELSE /\ Ends(c, Leftover(c))
            /\ unread' = [p \in Pids |-> IF running[p] = c THEN {} ELSE unread[p]]
    /\ UNCHANGED <<table, stubborn, expired, spawned, phase, told, spared, cutOff>>

(* CancelledError reaches the call: a command's process is ended; a        *)
(* process that was being started is not; a command that was being written *)
(* stays with its shell; and the ending of a process is cut short, which a *)
(* process survives that ignores SIGTERM.                                  *)
Interrupt(c) ==
    /\ At(c) \notin {"idle", "done"}
    /\ IF At(c) \in {"read", "wait"}
       THEN Discard(c, call[c].on) /\ UNCHANGED <<alive, running, starting, mutating, spared, cutOff>>
       ELSE LET p == call[c].target IN
            /\ Ends(c, {})
            /\ alive' = IF At(c) = "kill" /\ p \notin stubborn THEN alive \ {p} ELSE alive
            /\ spared' = IF At(c) = "kill" /\ p \in stubborn THEN spared \cup {p} ELSE spared
            /\ cutOff' = IF At(c) = "drain" THEN cutOff \cup {c} ELSE cutOff
            /\ UNCHANGED table
    /\ UNCHANGED <<stubborn, expired, unread, spawned, phase>>

-----------------------------------------------------------------------------
(* A shell exits, as a command may tell it to; half an hour passes.        *)
Exits(p) ==
    /\ p \in alive \cap table /\ alive' = alive \ {p}
    /\ UNCHANGED <<call, table, stubborn, expired, running, unread, starting, mutating,
                   spawned, phase, told, spared, cutOff>>
Expires(p) ==
    /\ p \in table \ expired /\ expired' = expired \cup {p}
    /\ UNCHANGED <<call, table, alive, stubborn, running, unread, starting, mutating,
                   spawned, phase, told, spared, cutOff>>

(* ToolRegistry.close: cancels the calls, then closes the shells, which    *)
(* waits for the registry lock and ends what the table holds               *)
(* (ShellSessionManager._close_once).                                      *)
Close ==
    /\ \/ phase = "open" /\ phase' = "canceling" /\ UNCHANGED <<table, alive>>
       \/ /\ phase = "canceling" /\ \A c \in Tools : At(c) \notin {"idle", "done"} => "registry" \in told[c]
          /\ phase' = "closing" /\ UNCHANGED <<table, alive>>
       \/ /\ phase = "closing" /\ starting = Free
          /\ phase' = "closed" /\ alive' = alive \ table /\ table' = {}
    /\ UNCHANGED <<call, stubborn, expired, running, unread, starting, mutating, spawned,
                   told, spared, cutOff>>

(* Who cancels a call: its batch or its wall-clock limit, and the closing  *)
(* registry, each once (_cancel_tool_task, _close_once).                   *)
Cancel(c, who) ==
    /\ who \notin told[c] /\ who = "registry" => phase = "canceling"
    /\ told' = [told EXCEPT ![c] = @ \cup {who}]
    /\ Interrupt(c)

Next ==
    \/ \E c \in Tools :
        \/ \E k \in {"start", "exec", "list"} : Begin(c, k)
        \/ \E p \in Pids : Stop(c, p) \/ Prune(c, p)
        \/ \E ignores, long \in BOOLEAN : Pruned(c, ignores, long)
        \/ \E ignores \in BOOLEAN : RunOnce(c, ignores)
        \/ Spawn(c) \/ Spawned(c) \/ Drained(c) \/ Completes(c) \/ TimesOut(c) \/ Killed(c)
        \/ \E who \in {"owner", "registry"} : Cancel(c, who)
    \/ \E p \in Pids : Exits(p) \/ Expires(p)
    \/ Close

Spec == Init /\ [][Next]_vars

-----------------------------------------------------------------------------
(* When the registry has closed, no process is left but those whose ending *)
(* is under way and those whose ending a second cancellation cut short     *)
(* (_close_once, start's second look at _closing, _discard).               *)
ClosedLeavesNothing ==
    phase = "closed" =>
        alive \subseteq spared \cup {call[c].target : c \in {d \in Tools : At(d) = "kill"}}

(* A process that still runs is in the table or somebody is at it: the     *)
(* call that runs it or ends it. The table never exceeds its limit.        *)
NoForgottenProcess ==
    /\ Cardinality(table) <= MaxSessions
    /\ alive \subseteq table \cup spared \cup {call[c].target : c \in {d \in Tools : At(d) = "kill"}}
                       \cup {call[c].on : c \in {d \in Tools : At(d) \in {"drain", "read", "wait"}}}

(* A look for idle sessions never ends one whose command runs, however     *)
(* long ago the session was last used (_prune_idle).                       *)
CommandsNotPruned ==
    \A c \in Tools : At(c) = "kill" /\ WasPruning(c) => running[call[c].target] = Free

(* What a command is said to have printed is its own, or of a command that *)
(* was cancelled while it was being written (_read_until_marker).          *)
OwnOutput == \A c \in Tools : call[c].got \subseteq {c} \cup cutOff
=============================================================================
