------------------------------ MODULE MCClients -----------------------------
(* Instance for TLC of the three kinds of subprocess that answer over      *)
(* pipes: MCP servers (McpClient), language servers (Lsp) and shells       *)
(* (Shell). They share no state: one of them runs in each behaviour and    *)
(* the others are Off. Resources, and tool calls, are interchangeable.     *)
EXTENDS Parts, Naturals, FiniteSets, TLC

CONSTANTS Uris, Unanswered, Failed, NoRead, MaxTasks, MaxInflight, MaxCached, MaxChanges,
          MaxId, MaxFaults, MaxStarts,
          Ops, Documents, None,
          MaxProcesses, MaxEpoch,
          Tools, Free, MaxSessions, MaxSpawned

VARIABLES
    server, requests, stream, reading, connection, nextId, pending, tasks, tools, registered,
    cache, reads, orphans, epoch, versions, subscriptions, connections, changes, faults,
    silent, unheard,
    proc, spawned, dead, initialized, startLock, lspEpoch, holder, signalled, lspVersions, found,
    sent, doc, published, ops, lspClosing, crossed, astray,
    call, table, alive, stubborn, expired, executing, unread, starting, mutating,
    shells, shutdown, told, spared, cutOff

Served == INSTANCE McpClient WITH
    Waiting <- Unanswered, phase <- connection, starts <- connections
Language == INSTANCE Lsp WITH
    Uris <- Documents, ready <- initialized, epoch <- lspEpoch, versions <- lspVersions,
    closing <- lspClosing
Commanded == INSTANCE Shell WITH
    running <- executing, spawned <- shells, phase <- shutdown

mcpVars == <<server, requests, stream, reading, connection, nextId, pending, tasks, tools,
             registered, cache, reads, orphans, epoch, versions, subscriptions, connections,
             changes, faults, silent, unheard>>
lspVars == <<proc, spawned, dead, initialized, startLock, lspEpoch, holder, signalled,
              lspVersions, found, sent, doc, published, ops, lspClosing, crossed,
              astray>>
shellVars == <<call, table, alive, stubborn, expired, executing, unread, starting,
               mutating, shells, shutdown, told, spared, cutOff>>

ASSUME ClientsAssumption ==
    Served!McpClientAssumption /\ Language!LspAssumption /\ Commanded!ShellAssumption

McpOff ==
    /\ server = Off /\ requests = Off /\ stream = Off /\ reading = Off /\ connection = Off
    /\ nextId = Off /\ pending = Off /\ tasks = Off /\ tools = Off /\ registered = Off
    /\ cache = Off /\ reads = Off /\ orphans = Off /\ epoch = Off /\ versions = Off
    /\ subscriptions = Off /\ connections = Off /\ changes = Off /\ faults = Off
    /\ silent = Off /\ unheard = Off
LspOff ==
    /\ proc = Off /\ spawned = Off /\ dead = Off /\ initialized = Off /\ startLock = Off
    /\ lspEpoch = Off /\ holder = Off /\ signalled = Off /\ lspVersions = Off /\ found = Off
    /\ sent = Off /\ doc = Off /\ published = Off /\ ops = Off /\ lspClosing = Off
    /\ crossed = Off /\ astray = Off
ShellOff ==
    /\ call = Off /\ table = Off /\ alive = Off /\ stubborn = Off /\ expired = Off
    /\ executing = Off /\ unread = Off /\ starting = Off /\ mutating = Off /\ shells = Off
    /\ shutdown = Off /\ told = Off /\ spared = Off /\ cutOff = Off

ClientsInit ==
    \/ part = "mcp" /\ Served!Init /\ LspOff /\ ShellOff
    \/ part = "lsp" /\ Language!Init /\ McpOff /\ ShellOff
    \/ part = "shell" /\ Commanded!Init /\ McpOff /\ LspOff

ClientsNext ==
    \/ part = "mcp" /\ Served!Next /\ UNCHANGED <<part, lspVars, shellVars>>
    \/ part = "lsp" /\ Language!Next /\ UNCHANGED <<part, mcpVars, shellVars>>
    \/ part = "shell" /\ Commanded!Next /\ UNCHANGED <<part, mcpVars, lspVars>>

ClientsSpec == ClientsInit /\ [][ClientsNext]_<<part, mcpVars, lspVars, shellVars>>

SymmetricClients == Permutations(Uris) \cup Permutations(Tools)

(* A cached resource is the server's text, and the registry offers the     *)
(* server's tools, unless the word of the change is on its way, was never  *)
(* sent or was given up (McpClient._read_resource_uncached,                *)
(* _handle_notification).                                                  *)
ServerStateCurrent ==
    part = "mcp" =>
        /\ Served!TypeOK /\ Served!CacheCurrentOrUnannounced
        /\ Served!ToolsCurrentOrGivenUp

(* Diagnostics are those of the text the caller sent, and a document's     *)
(* notifications reach a language server in the order of their versions    *)
(* (LspManager._diagnose_document).                                        *)
DiagnosticsOfOwnText ==
    part = "lsp" => Language!TypeOK /\ Language!OwnDiagnostics /\ Language!DocumentsInOrder

(* A shell process is in the table or in somebody's hands, an idle look    *)
(* ends no session whose command runs, and a command's answer holds its    *)
(* own output (ShellSessionManager).                                       *)
ShellsAccounted ==
    part = "shell" =>
        /\ Commanded!TypeOK /\ Commanded!NoForgottenProcess
        /\ Commanded!CommandsNotPruned /\ Commanded!OwnOutput

(* Nothing of a connection to an MCP server survives its close, a closed   *)
(* LSP client has no process and starts none, and a closed registry leaves *)
(* no shell process (McpClient._close_once, LspClient.close,               *)
(* ShellSessionManager.close).                                             *)
ClosedIsOver ==
    /\ part = "mcp" => Served!ClosedForgets
    /\ part = "lsp" => Language!ClosedForGood
    /\ part = "shell" => Commanded!ClosedLeavesNothing
=============================================================================
