-------------------------------- MODULE Lsp --------------------------------
(***************************************************************************)
(* One language server client (lsp.py): diagnoses of documents that share  *)
(* a server process, which may die and is replaced by the next diagnose,   *)
(* and the close that fences them all.  A document's lock, event, version  *)
(* and diagnostics are dictionary entries that a replacement forgets; the  *)
(* lock and event objects live on with whoever holds them, so each has the *)
(* number of the reset it was made after.  The text of a document is named *)
(* by the operation that sent it.                                          *)
(***************************************************************************)
EXTENDS Naturals, Sequences, FiniteSets

CONSTANTS
    Ops, Uris,
    None,          \* no operation, no text
    MaxProcesses,  \* bound: server processes
    MaxEpoch       \* bound: resets of the document state

LspAssumption ==
    /\ None \notin Ops /\ IsFiniteSet(Ops)
    /\ {MaxProcesses, MaxEpoch} \subseteq Nat

VARIABLES
    proc,        \* the process of the client, 0 for none
    spawned,     \* processes started so far
    dead,        \* it has exited, or its reader has ended
    ready,       \* it has been initialized
    startLock,   \* the operation that starts it, "close" or None
    epoch,       \* resets of the document state
    holder,      \* [uri -> [epoch of the lock -> operation]]
    signalled,   \* [uri -> [epoch of the event -> BOOLEAN]]
    versions,    \* [uri -> version last sent], 0 for a document not opened
    found,       \* _diagnostics: [uri -> the text they are about]
    sent,        \* document notifications on their way to the process
    doc,         \* what the process holds of each document
    published,   \* diagnostics on their way back
    ops,         \* the operations
    closing,     \* "no", "cancel", "stop" or "done"
    crossed,     \* history: a document was changed under a lock already replaced
    astray       \* history: a version was counted while there was no process, or sent
                 \* to one not yet initialized

process == <<proc, spawned, dead, ready, startLock>>
documents == <<epoch, holder, signalled, versions, found>>
wire == <<sent, doc, published>>
history == <<crossed, astray>>
vars == <<process, documents, wire, ops, closing, history>>

Epochs == 0 .. MaxEpoch
Versions == 0 .. Cardinality(Ops)
Closed == [version |-> 0, text |-> None]
Idle == [pc |-> "off", uri |-> None, lock |-> 0, event |-> 0, started |-> 0, result |-> None]

TypeOK ==
    /\ proc \in 0 .. MaxProcesses /\ spawned \in proc .. MaxProcesses
    /\ dead \in BOOLEAN /\ ready \in BOOLEAN
    /\ startLock \in Ops \cup {None, "close"} /\ epoch \in Epochs
    /\ holder \in [Uris -> [Epochs -> Ops \cup {None}]]
    /\ signalled \in [Uris -> [Epochs -> BOOLEAN]]
    /\ versions \in [Uris -> Versions] /\ found \in [Uris -> Ops \cup {None}]
    /\ doc \in [Uris -> [version : Versions, text : Ops \cup {None}]]
    /\ \A o \in Ops : ops[o].pc \in {"off", "start", "abort", "spawn", "init", "undo", "name",
                                     "queue", "wait", "actions", "done"}
    /\ closing \in {"no", "cancel", "stop", "done"}

Init ==
    /\ proc = 0 /\ spawned = 0 /\ dead = FALSE /\ ready = FALSE /\ startLock = None
    /\ epoch = 0 /\ holder = [u \in Uris |-> [e \in Epochs |-> None]]
    /\ signalled = [u \in Uris |-> [e \in Epochs |-> FALSE]]
    /\ versions = [u \in Uris |-> 0] /\ found = [u \in Uris |-> None]
    /\ sent = <<>> /\ doc = [u \in Uris |-> Closed] /\ published = <<>>
    /\ ops = [o \in Ops |-> Idle] /\ closing = "no"
    /\ crossed = FALSE /\ astray = FALSE

\* _reset_document_state
Reset ==
    /\ epoch < MaxEpoch /\ epoch' = epoch + 1
    /\ versions' = [u \in Uris |-> 0]
    /\ found' = [u \in Uris |-> None]
    /\ UNCHANGED <<holder, signalled>>

NoProcess ==
    /\ proc' = 0 /\ dead' = FALSE /\ ready' = FALSE
    /\ sent' = <<>> /\ doc' = [u \in Uris |-> Closed] /\ published' = <<>>

\* The event loop resumes a signalled operation before it hears of a process again.
Quiet == \A o \in Ops : ops[o].pc = "wait" => ~signalled[ops[o].uri][ops[o].event]

Goes(o, pc) == ops' = [ops EXCEPT ![o].pc = pc]

----------------------------------------------------------------------------
(* Start *)

Call(o, u) ==
    /\ ops[o].pc = "off" /\ closing = "no"
    /\ ops' = [ops EXCEPT ![o] = [Idle EXCEPT !.pc = "start", !.uri = u]]
    /\ UNCHANGED <<process, documents, wire, closing, history>>

Usable == proc # 0 /\ ~dead

StartSkips(o) ==
    /\ ops[o].pc = "start" /\ startLock = None /\ closing = "no" /\ Usable
    /\ ops' = [ops EXCEPT ![o].pc = "name", ![o].started = proc]
    /\ UNCHANGED <<process, documents, wire, closing, history>>

\* A process that is gone, or whose reader is, is put away first.
StartBegins(o) ==
    /\ ops[o].pc = "start" /\ startLock = None /\ closing = "no" /\ ~Usable
    /\ startLock' = o
    /\ Goes(o, IF proc = 0 THEN "spawn" ELSE "abort")
    /\ UNCHANGED <<proc, spawned, dead, ready, documents, wire, closing, history>>

Aborted(o) ==
    /\ ops[o].pc = "abort"
    /\ Reset /\ NoProcess
    /\ Goes(o, "spawn")
    /\ UNCHANGED <<spawned, startLock, closing, history>>

\* A close that came while the process was being spawned undoes it.
Spawns(o) ==
    /\ ops[o].pc = "spawn" /\ spawned < MaxProcesses /\ Quiet
    /\ spawned' = spawned + 1 /\ proc' = spawned + 1
    /\ Goes(o, IF closing = "no" THEN "init" ELSE "undo")
    /\ UNCHANGED <<dead, ready, startLock, documents, wire, closing, history>>

Initialized(o) ==
    /\ ops[o].pc = "init" /\ ~dead /\ closing = "no" /\ Quiet
    /\ ready' = TRUE /\ startLock' = None
    /\ ops' = [ops EXCEPT ![o].pc = "name", ![o].started = proc]
    /\ UNCHANGED <<proc, spawned, dead, documents, wire, closing, history>>

\* initialize is refused, times out, or its server closes.
InitFails(o) ==
    /\ ops[o].pc = "init"
    /\ Goes(o, "undo")
    /\ UNCHANGED <<process, documents, wire, closing, history>>

Undone(o) ==
    /\ ops[o].pc = "undo"
    /\ Reset /\ NoProcess
    /\ startLock' = None
    /\ Goes(o, "done")
    /\ UNCHANGED <<spawned, closing, history>>

----------------------------------------------------------------------------
(* Diagnose *)

\* setdefault finds or makes the document's lock.
Names(o) ==
    /\ ops[o].pc = "name"
    /\ ops' = [ops EXCEPT ![o].pc = "queue", ![o].lock = epoch]
    /\ UNCHANGED <<process, documents, wire, closing, history>>

\* didOpen for version 1, didChange after; nothing is sent to a process that is gone.
Sends(o) ==
    LET u == ops[o].uri
        next == versions[u] + 1
    IN  /\ ops[o].pc = "queue" /\ closing = "no"
        /\ holder[u][ops[o].lock] = None
        /\ versions' = [versions EXCEPT ![u] = next]
        /\ found' = [found EXCEPT ![u] = None]
        /\ signalled' = [signalled EXCEPT ![u][epoch] = FALSE]
        /\ IF Usable
           THEN /\ holder' = [holder EXCEPT ![u][ops[o].lock] = o]
                /\ ops' = [ops EXCEPT ![o].pc = "wait", ![o].event = epoch]
                /\ sent' = Append(sent, [uri |-> u, version |-> next, text |-> o,
                                         started |-> ops[o].started, ready |-> ready])
                /\ astray' = (astray \/ ~ready)
                /\ crossed' = (crossed \/ ops[o].lock # epoch)
           ELSE /\ Goes(o, "done")
                /\ astray' = (astray \/ proc = 0)
                /\ UNCHANGED <<holder, sent, crossed>>
        /\ UNCHANGED <<process, epoch, doc, published, closing>>

Returns(o, result, pc) ==
    /\ ops' = [ops EXCEPT ![o].pc = pc, ![o].result = result]
    /\ holder' = IF pc = "done" THEN [holder EXCEPT ![ops[o].uri][ops[o].lock] = None] ELSE holder
    /\ UNCHANGED <<process, epoch, signalled, versions, found, wire, closing, history>>

\* The event is set: the diagnostics of the moment; code actions keep the lock.
Diagnosed(o) ==
    /\ ops[o].pc = "wait" /\ signalled[ops[o].uri][ops[o].event]
    /\ \E pc \in {"actions", "done"} : Returns(o, found[ops[o].uri], pc)

TimesOut(o) ==
    /\ ops[o].pc = "wait"
    /\ \E pc \in {"actions", "done"} : Returns(o, None, pc)

ActionsEnd(o) == ops[o].pc = "actions" /\ Returns(o, ops[o].result, "done")

\* The process takes a document that follows what it holds, and publishes about it.
ServerReads ==
    LET m == Head(sent)
        follows == ready /\ doc[m.uri].version = m.version - 1
    IN  /\ sent # <<>> /\ Usable
        /\ sent' = Tail(sent)
        /\ IF follows
           THEN /\ doc' = [doc EXCEPT ![m.uri] = [version |-> m.version, text |-> m.text]]
                /\ published' = Append(published, [uri |-> m.uri, version |-> m.version,
                                                   text |-> m.text])
           ELSE UNCHANGED <<doc, published>>
        /\ UNCHANGED <<process, documents, ops, closing, history>>

\* mutant: diagnostics of any version are taken
CurrentAnyVersion(m) == versions[m.uri] # 0
Current(m) == versions[m.uri] # 0 /\ m.version = versions[m.uri]

Dispatches ==
    LET m == Head(published)
    IN  /\ published # <<>> /\ proc # 0 /\ closing \in {"no", "cancel"} /\ Quiet
        /\ published' = Tail(published)
        /\ IF Current(m)
           THEN /\ found' = [found EXCEPT ![m.uri] = m.text]
                /\ signalled' = [signalled EXCEPT ![m.uri][epoch] = TRUE]
           ELSE UNCHANGED <<found, signalled>>
        /\ UNCHANGED <<process, epoch, holder, versions, sent, doc, ops, closing, history>>

Dies ==
    /\ Usable
    /\ dead' = TRUE
    /\ UNCHANGED <<proc, spawned, ready, startLock, documents, wire, ops, closing, history>>

----------------------------------------------------------------------------
(* Close *)

CloseBegins ==
    /\ closing = "no" /\ closing' = "cancel"
    /\ UNCHANGED <<process, documents, wire, ops, history>>

\* A cancelled operation, or one that finds the client closed, frees what it holds;
\* a start is undone, and one that was only spawning has no process yet.
Canceled(o) ==
    /\ closing # "no"
    /\ \/ /\ ops[o].pc \in {"start", "name", "queue"}
          /\ Goes(o, "done")
          /\ UNCHANGED <<process, documents>>
       \/ /\ ops[o].pc \in {"abort", "spawn"}
          /\ Goes(o, "done")
          /\ startLock' = None
          /\ UNCHANGED <<proc, spawned, dead, ready, documents>>
       \/ ops[o].pc = "init" /\ Goes(o, "undo") /\ UNCHANGED <<process, documents>>
       \/ /\ ops[o].pc \in {"wait", "actions"}
          /\ Goes(o, "done")
          /\ holder' = [holder EXCEPT ![ops[o].uri][ops[o].lock] = None]
          /\ UNCHANGED <<process, epoch, signalled, versions, found>>
    /\ UNCHANGED <<wire, closing, history>>

\* After a grace for the operations, the start lock; then the process is stopped.
CloseStops ==
    /\ closing = "cancel" /\ startLock = None
    /\ closing' = "stop" /\ startLock' = "close"
    /\ UNCHANGED <<proc, spawned, dead, ready, documents, wire, ops, history>>

CloseEnds ==
    /\ closing = "stop"
    /\ closing' = "done" /\ startLock' = None
    /\ Reset /\ NoProcess
    /\ UNCHANGED <<spawned, ops, history>>

Next ==
    \/ \E o \in Ops :
           \/ \E u \in Uris : Call(o, u)
           \/ StartSkips(o) \/ StartBegins(o) \/ Aborted(o) \/ Spawns(o) \/ Initialized(o)
           \/ InitFails(o) \/ Undone(o) \/ Names(o) \/ Sends(o) \/ Diagnosed(o) \/ TimesOut(o)
           \/ ActionsEnd(o) \/ Canceled(o)
    \/ ServerReads \/ Dispatches \/ Dies \/ CloseBegins \/ CloseStops \/ CloseEnds

Spec == Init /\ [][Next]_vars

----------------------------------------------------------------------------
(* Properties *)

\* A diagnose returns what the server found in the text it sent, or nothing:
\* late publications about other texts of the document are not mistaken for it.
\* The document's lock promises it, unless the process was replaced while an
\* operation waited for a lock that the replacement then forgot.
OwnDiagnostics == \A o \in Ops : ops[o].result \in {None, o} \/ crossed

\* The same without the exception: diagnoses of one document are serialized.
Serialized == \A o \in Ops : ops[o].result \in {None, o}

\* A process hears of a document only after it was initialized, by operations
\* that started or found this process; and it hears didOpen first and then one
\* version after the other, also when it replaces a process that knew the document,
\* unless an operation of the old process went on while the new one was started.
DocumentsInOrder ==
    sent # <<>> =>
        LET m == Head(sent)
        IN  /\ m.started = proc => m.ready
            /\ ~astray => m.version = doc[m.uri].version + 1

\* Once close has returned there is no process, and none appears: not from a start
\* that was spawning, nor from an operation that was waiting for the start lock.
ClosedForGood == closing = "done" => proc = 0 /\ \A o \in Ops : ops[o].pc # "init"
============================================================================
