----------------------------- MODULE McpClient -----------------------------
(***************************************************************************)
(* One MCP client (mcp/client.py) and its server over stdio: requests and  *)
(* their answers, timeouts, a server that dies, the notifications that     *)
(* refresh the tool list, and the cache of resources that reads fill and   *)
(* notifications empty.  Everything on the client's side runs on one event *)
(* loop: a step is what runs between two awaits.                           *)
(*                                                                         *)
(* Texts and tool lists are the numbers of their versions.                 *)
(***************************************************************************)
EXTENDS Naturals, Sequences, SequencesExt, FiniteSets, FiniteSetsExt

CONSTANTS
    Uris,
    Waiting, Failed,  \* a request without an answer, and one that raised
    NoRead,
    MaxTasks,         \* notifications handled or waiting (64 in the code)
    MaxInflight,      \* resource reads in flight (32 in the code)
    MaxCached,        \* cached resources (64 in the code)
    MaxChanges,       \* bound: changes of texts and lists on the server
    MaxId,            \* bound: requests
    MaxFaults,        \* bound: timeouts, error answers and failing refreshes
    MaxStarts         \* bound: connections

Versions == 0 .. MaxChanges + 1
Request == [id : 1 .. MaxId, owner : {"start", "refresh", "read", "subscribe"},
            uri : Uris \cup {NoRead}]
Notice == [kind : {"tools", "updated", "resources"}, uri : Uris \cup {NoRead}, value : Versions]
Read == [pc : {"begin", "read", "subscribe", "done"}, attempt : 1 .. 2, epoch : Nat,
         version : Nat, text : Versions]

McpClientAssumption ==
    /\ Waiting \notin Nat /\ Failed \notin Nat /\ Waiting # Failed
    /\ NoRead \notin Uris \cup Read
    /\ {MaxTasks, MaxInflight, MaxCached, MaxChanges, MaxId, MaxFaults, MaxStarts} \subseteq Nat

VARIABLES
    server,     \* the process: up, texts, tools, subs (its subscribers)
    requests,   \* on their way to the server
    stream,     \* the server's stdout, oldest first
    reading,    \* the reader task has not seen the end of the stream
    phase,      \* "closed", "init", "list", "started" or "open" (its tools registered)
    nextId, pending,
    tasks,      \* notification tasks; the head holds the notification lock
    tools,      \* the tool list the client holds
    registered, \* the version the registry offers, 0 for none
    cache,      \* least recently used first: [uri, text]
    reads,      \* _resource_reads: the task registered for a uri
    orphans,    \* finished reads replaced before their callback ran
    epoch, versions, subscriptions,
    starts, changes, faults, \* what the bounds count
    silent,     \* history: newest version of a text that was not announced
    unheard     \* history: newest tool notice that was dropped or whose refresh failed

wire == <<server, requests, stream, reading>>
rpc == <<nextId, pending>>
content == <<cache, reads, orphans, epoch, versions, subscriptions>>
bounds == <<starts, changes, faults, silent, unheard>>
vars == <<wire, phase, rpc, tasks, tools, registered, content, bounds>>

TypeOK ==
    /\ server \in [up : BOOLEAN, texts : [Uris -> Versions], tools : Versions,
                   subs : SUBSET Uris]
    /\ requests \subseteq Request
    /\ phase \in {"closed", "init", "list", "started", "open"}
    /\ \A p \in pending : p.id < nextId /\ p.owner \in {"start", "refresh", "read", "subscribe"}
    /\ Len(tasks) <= MaxTasks /\ Len(cache) <= MaxCached
    /\ \A i \in DOMAIN tasks : tasks[i].notice \in Notice
    /\ tools \in Versions /\ registered \in Versions
    /\ reads \in [Uris -> Read \cup {NoRead}] /\ orphans \subseteq Uris
    /\ epoch \in Nat /\ versions \in [Uris -> Nat] /\ subscriptions \subseteq Uris

Init ==
    /\ server = [up |-> FALSE, texts |-> [u \in Uris |-> 0], tools |-> 1, subs |-> {}]
    /\ requests = {} /\ stream = <<>> /\ reading = FALSE
    /\ phase = "closed" /\ nextId = 1 /\ pending = {}
    /\ tasks = <<>> /\ tools = 0 /\ registered = 0
    /\ cache = <<>> /\ reads = [u \in Uris |-> NoRead] /\ orphans = {}
    /\ epoch = 0 /\ versions = [u \in Uris |-> 0] /\ subscriptions = {}
    /\ starts = 0 /\ changes = 0 /\ faults = 0
    /\ silent = [u \in Uris |-> 0] /\ unheard = 0

----------------------------------------------------------------------------
(* Requests *)

\* request(): take an id, leave a future, write the line.  A write to a server
\* that is gone may still succeed: nothing but the timeout answers it.
Sends(owner, uri, answered) ==
    /\ nextId <= MaxId
    /\ nextId' = nextId + 1
    /\ pending' = (pending \ answered)
                  \cup {[id |-> nextId, owner |-> owner, uri |-> uri, answer |-> Waiting]}
    /\ requests' = IF server.up
                   THEN requests \cup {[id |-> nextId, owner |-> owner, uri |-> uri]}
                   ELSE requests

\* The owner resumes with its answer and pops the future.
Resumes(answered) == pending' = pending \ answered /\ UNCHANGED <<nextId, requests>>

Answered(owner, uri) ==
    {p \in pending : p.owner = owner /\ p.uri = uri /\ p.answer # Waiting}

Resolve(p, value) == pending' = (pending \ {p}) \cup {[p EXCEPT !.answer = value]}

Changes == changes < MaxChanges /\ changes' = changes + 1
Faults == faults < MaxFaults /\ faults' = faults + 1

Timeout ==
    /\ Faults
    /\ \E p \in pending : p.answer = Waiting /\ Resolve(p, Failed)
    /\ UNCHANGED <<wire, phase, nextId, tasks, tools, registered, content, starts, changes, silent,
                   unheard>>

----------------------------------------------------------------------------
(* The server *)

\* It answers in any order, with what it holds at that moment, or with an error.
Answers ==
    \E q \in requests :
        /\ server.up
        /\ requests' = requests \ {q}
        /\ \E value \in {Failed,
                CASE q.owner = "read" -> server.texts[q.uri]
                  [] q.owner \in {"start", "refresh"} -> server.tools
                  [] q.owner = "subscribe" -> 0} :
               /\ stream' = Append(stream, [kind |-> "answer", id |-> q.id, value |-> value])
               /\ IF value = Failed THEN Faults ELSE UNCHANGED faults
               /\ server' = IF q.owner = "subscribe" /\ value # Failed
                            THEN [server EXCEPT !.subs = @ \cup {q.uri}] ELSE server
        /\ UNCHANGED <<reading, phase, rpc, tasks, tools, registered, content, starts, changes,
                       silent, unheard>>

TextChanges(u) ==
    LET next == server.texts[u] + 1
    IN  /\ server.up /\ Changes
        /\ server' = [server EXCEPT !.texts[u] = next]
        /\ IF u \in server.subs
           THEN /\ stream' = Append(stream, [kind |-> "updated", uri |-> u, value |-> 0])
                /\ UNCHANGED silent
           ELSE silent' = [silent EXCEPT ![u] = next] /\ UNCHANGED stream
        /\ UNCHANGED <<requests, reading, phase, rpc, tasks, tools, registered, content, starts,
                       faults, unheard>>

ToolsChange ==
    LET next == server.tools + 1
    IN  /\ server.up /\ Changes
        /\ server' = [server EXCEPT !.tools = next]
        /\ stream' = Append(stream, [kind |-> "tools", uri |-> NoRead, value |-> next])
        /\ UNCHANGED <<requests, reading, phase, rpc, tasks, tools, registered, content, starts,
                       faults, silent, unheard>>

ResourceListChanges ==
    /\ server.up /\ Changes
    /\ stream' = Append(stream, [kind |-> "resources", uri |-> NoRead, value |-> 0])
    /\ UNCHANGED <<server, requests, reading, phase, rpc, tasks, tools, registered, content,
                   starts, faults, silent, unheard>>

Dies ==
    /\ server.up
    /\ server' = [server EXCEPT !.up = FALSE] /\ requests' = {}
    /\ UNCHANGED <<stream, reading, phase, rpc, tasks, tools, registered, content, bounds>>

----------------------------------------------------------------------------
(* The cache *)

Without(uri) ==
    IF \E i \in DOMAIN cache : cache[i].uri = uri
    THEN RemoveAt(cache, CHOOSE i \in DOMAIN cache : cache[i].uri = uri) ELSE cache

CacheResource(u, text) ==
    LET others == Without(u)
        room == IF Len(others) >= MaxCached THEN Tail(others) ELSE others
    IN  cache' = IF MaxCached = 0 THEN <<>> ELSE Append(room, [uri |-> u, text |-> text])

\* mutant: the version is kept for cached resources, not for those being read
MarkChangedIfCached(u) ==
    /\ versions' = IF \E i \in DOMAIN cache : cache[i].uri = u
                   THEN [versions EXCEPT ![u] = @ + 1] ELSE [versions EXCEPT ![u] = 0]
    /\ cache' = Without(u)
    /\ UNCHANGED <<reads, orphans, epoch, subscriptions>>

\* A change moves the version only while a read is registered to compare it.
MarkChanged(u) ==
    /\ versions' = IF reads[u] # NoRead THEN [versions EXCEPT ![u] = @ + 1]
                   ELSE [versions EXCEPT ![u] = 0]
    /\ cache' = Without(u)
    /\ UNCHANGED <<reads, orphans, epoch, subscriptions>>

MarkAllChanged ==
    /\ epoch' = epoch + 1
    /\ versions' = [u \in Uris |-> 0]
    /\ cache' = <<>>
    /\ UNCHANGED <<reads, orphans, subscriptions>>

----------------------------------------------------------------------------
(* The reader task and the notifications *)

\* Whoever has an answer resumes before another answer can be read.  An answer
\* that nobody waits for any more is dropped.
ReadsAnswer ==
    LET m == Head(stream)
        asked == {p \in pending : p.id = m.id}
    IN  /\ m.kind = "answer"
        /\ \A p \in pending : p.answer = Waiting
        /\ IF asked = {} THEN UNCHANGED pending
           ELSE \A p \in asked : Resolve(p, m.value)
        /\ UNCHANGED <<tasks, content, unheard>>

\* At the limit a notification is dropped; one about resources still empties the cache.
ReadsNotice ==
    LET m == Head(stream)
    IN  /\ m.kind # "answer"
        /\ IF Len(tasks) < MaxTasks
           THEN /\ tasks' = Append(tasks, [notice |-> m, asked |-> FALSE])
                /\ UNCHANGED <<content, unheard>>
           ELSE /\ IF m.kind = "tools" THEN UNCHANGED content /\ unheard' = m.value
                   ELSE MarkAllChanged /\ UNCHANGED unheard
                /\ UNCHANGED tasks
        /\ UNCHANGED pending

Reads ==
    /\ reading /\ stream # <<>>
    /\ ReadsAnswer \/ ReadsNotice
    /\ stream' = Tail(stream)
    /\ UNCHANGED <<server, requests, reading, phase, nextId, tools, registered, starts, changes,
                   faults, silent>>

\* The end of the stream fails every request that still waits.
Disconnects ==
    /\ reading /\ ~server.up /\ stream = <<>>
    /\ reading' = FALSE
    /\ pending' = {IF p.answer = Waiting THEN [p EXCEPT !.answer = Failed] ELSE p : p \in pending}
    /\ UNCHANGED <<server, requests, stream, phase, nextId, tasks, tools, registered, content,
                   bounds>>

HandlesUpdate ==
    /\ tasks # <<>> /\ Head(tasks).notice.kind = "updated"
    /\ MarkChanged(Head(tasks).notice.uri)
    /\ tasks' = Tail(tasks)
    /\ UNCHANGED <<wire, phase, rpc, tools, registered, bounds>>

RefreshBegins ==
    /\ tasks # <<>> /\ Head(tasks).notice.kind # "updated" /\ ~Head(tasks).asked
    /\ Sends("refresh", NoRead, {})
    /\ tasks' = [tasks EXCEPT ![1].asked = TRUE]
    /\ IF Head(tasks).notice.kind = "resources" THEN MarkAllChanged ELSE UNCHANGED content
    /\ UNCHANGED <<server, stream, reading, phase, tools, registered, bounds>>

RegisterRefreshed(version) == registered' = IF phase = "open" THEN version ELSE registered

\* A failing refresh is logged; so is a list that does not validate.
RefreshEnds ==
    /\ tasks # <<>> /\ Head(tasks).asked
    /\ \E p \in Answered("refresh", NoRead), valid \in BOOLEAN :
           /\ Resumes({p})
           /\ IF valid THEN UNCHANGED faults ELSE Faults
           /\ IF p.answer = Failed \/ ~valid
              THEN /\ unheard' = IF Head(tasks).notice.kind = "tools" /\ Head(tasks).notice.value > unheard
                                 THEN Head(tasks).notice.value ELSE unheard
                   /\ UNCHANGED <<tools, registered>>
              ELSE /\ tools' = IF Head(tasks).notice.kind = "tools" THEN p.answer ELSE tools
                   /\ RegisterRefreshed(tools')
                   /\ UNCHANGED unheard
    /\ tasks' = Tail(tasks)
    /\ UNCHANGED <<server, stream, reading, phase, content, starts, changes, silent>>

----------------------------------------------------------------------------
(* Reading a resource *)

\* A cached text is the newest use; a read in flight is joined.
ReadResource(u) ==
    /\ phase = "open"
    /\ IF \E i \in DOMAIN cache : cache[i].uri = u
       THEN /\ cache' = Append(Without(u), CHOOSE c \in ToSet(cache) : c.uri = u)
            /\ UNCHANGED <<reads, orphans>>
       ELSE /\ reads[u] # NoRead => reads[u].pc = "done"
            /\ Cardinality({w \in Uris \ {u} : reads[w] # NoRead}) < MaxInflight
            /\ orphans' = IF reads[u] = NoRead THEN orphans ELSE orphans \cup {u}
            /\ reads' = [reads EXCEPT ![u] = [pc |-> "begin", attempt |-> 1, epoch |-> 0,
                                              version |-> 0, text |-> 0]]
            /\ UNCHANGED cache
    /\ UNCHANGED <<wire, phase, rpc, tasks, tools, registered, epoch, versions, subscriptions,
                   bounds>>

\* An attempt remembers the epoch and the version, then asks.
Attempt(u, n, answered) ==
    /\ Sends("read", u, answered)
    /\ reads' = [reads EXCEPT ![u] = [pc |-> "read", attempt |-> n, epoch |-> epoch,
                                      version |-> versions[u], text |-> 0]]
    /\ UNCHANGED cache

Ends(u, answered) ==
    /\ Resumes(answered)
    /\ reads' = [reads EXCEPT ![u].pc = "done"]

Current(u) == reads[u].epoch = epoch /\ reads[u].version = versions[u]

\* Cache the text unless a change was announced meanwhile; then read once more.
Concludes(u, text, answered) ==
    IF Current(u) THEN CacheResource(u, text) /\ Ends(u, answered)
    ELSE IF reads[u].attempt = 1 THEN Attempt(u, 2, answered)
    ELSE Ends(u, answered) /\ UNCHANGED cache

ReadBegins(u) ==
    /\ reads[u] # NoRead /\ reads[u].pc = "begin"
    /\ Attempt(u, 1, {})
    /\ UNCHANGED <<server, stream, reading, phase, tasks, tools, registered, orphans, epoch,
                   versions, subscriptions, bounds>>

\* The text is here: the first read of a resource subscribes to it afterwards.
Fetched(u) ==
    /\ reads[u] # NoRead /\ reads[u].pc = "read"
    /\ \E p \in Answered("read", u) :
           IF p.answer = Failed THEN Ends(u, {p}) /\ UNCHANGED cache
           ELSE IF u \in subscriptions THEN Concludes(u, p.answer, {p})
           ELSE /\ Sends("subscribe", u, {p})
                /\ reads' = [reads EXCEPT ![u].pc = "subscribe", ![u].text = p.answer]
                /\ UNCHANGED cache
    /\ UNCHANGED <<server, stream, reading, phase, tasks, tools, registered, orphans, epoch,
                   versions, subscriptions, bounds>>

Subscribed(u) ==
    /\ reads[u] # NoRead /\ reads[u].pc = "subscribe"
    /\ \E p \in Answered("subscribe", u) :
           /\ subscriptions' = IF p.answer = Failed THEN subscriptions ELSE subscriptions \cup {u}
           /\ Concludes(u, reads[u].text, {p})
    /\ UNCHANGED <<server, stream, reading, phase, tasks, tools, registered, orphans, epoch,
                   versions, bounds>>

\* The callback of a finished read; only the registered task gives up its place.
ReadFinished(u) ==
    /\ \/ u \in orphans /\ orphans' = orphans \ {u} /\ UNCHANGED <<reads, versions>>
       \/ /\ reads[u] # NoRead /\ reads[u].pc = "done"
          /\ reads' = [reads EXCEPT ![u] = NoRead]
          /\ versions' = [versions EXCEPT ![u] = 0]
          /\ UNCHANGED orphans
    /\ UNCHANGED <<wire, phase, rpc, tasks, tools, registered, cache, epoch, subscriptions, bounds>>

----------------------------------------------------------------------------
(* Start and close *)

Start ==
    /\ phase = "closed" /\ starts < MaxStarts /\ nextId <= MaxId
    /\ phase' = "init" /\ starts' = starts + 1
    /\ server' = [server EXCEPT !.up = TRUE] /\ reading' = TRUE
    /\ nextId' = nextId + 1
    /\ pending' = {[id |-> nextId, owner |-> "start", uri |-> NoRead, answer |-> Waiting]}
    /\ requests' = {[id |-> nextId, owner |-> "start", uri |-> NoRead]}
    /\ UNCHANGED <<stream, tasks, tools, registered, content, changes, faults, silent, unheard>>

Initialized ==
    /\ phase = "init"
    /\ \E p \in Answered("start", NoRead) :
           p.answer # Failed /\ Sends("start", NoRead, {p})
    /\ phase' = "list"
    /\ UNCHANGED <<server, stream, reading, tasks, tools, registered, content, bounds>>

Listed ==
    /\ phase = "list"
    /\ \E p \in Answered("start", NoRead) :
           p.answer # Failed /\ Resumes({p}) /\ tools' = p.answer
    /\ phase' = "started"
    /\ UNCHANGED <<server, stream, reading, tasks, registered, content, bounds>>

\* The manager registers the tools of a client that has started.
Registers ==
    /\ phase = "started"
    /\ phase' = "open" /\ registered' = tools
    /\ UNCHANGED <<wire, rpc, tasks, tools, content, bounds>>

ReadsSurvive == reads  \* mutant: reads in flight outlive the connection
ReadsCancelled == [u \in Uris |-> NoRead]

\* A start that fails closes the client too.  Closing cancels every task, fails
\* every request and forgets what the connection had subscribed and cached.
Close ==
    /\ phase # "closed"
    /\ phase' = "closed" /\ registered' = 0
    /\ server' = [server EXCEPT !.up = FALSE, !.subs = {}]
    /\ requests' = {} /\ stream' = <<>> /\ reading' = FALSE
    /\ pending' = {} /\ tasks' = <<>>
    /\ cache' = <<>> /\ epoch' = epoch + 1 /\ versions' = [u \in Uris |-> 0]
    /\ subscriptions' = {}
    /\ reads' = ReadsCancelled /\ orphans' = {}
    /\ UNCHANGED <<nextId, tools, bounds>>

Next ==
    \/ Start \/ Initialized \/ Listed \/ Registers \/ Close
    \/ Answers \/ ToolsChange \/ ResourceListChanges \/ Dies
    \/ Reads \/ Disconnects \/ Timeout \/ HandlesUpdate \/ RefreshBegins \/ RefreshEnds
    \/ \E u \in Uris : \/ TextChanges(u) \/ ReadResource(u) \/ ReadBegins(u) \/ Fetched(u)
                       \/ Subscribed(u) \/ ReadFinished(u)

Spec == Init /\ [][Next]_vars

----------------------------------------------------------------------------
(* Properties *)

\* A change of u that the client has not dealt with yet.
Announced(u) ==
    \/ \E i \in DOMAIN stream : \/ stream[i].kind = "resources"
                                \/ stream[i].kind = "updated" /\ stream[i].uri = u
    \/ \E i \in DOMAIN tasks :
           \/ tasks[i].notice.kind = "resources" /\ ~tasks[i].asked
           \/ tasks[i].notice.kind = "updated" /\ tasks[i].notice.uri = u

\* A cached resource is the server's current text unless the server's word of the
\* change is on its way, or the server never sent one: the first read subscribes
\* after it has its text, and a subscription may fail.
CacheCurrentOrUnannounced ==
    \A i \in DOMAIN cache :
        LET u == cache[i].uri
        IN  server.up => \/ cache[i].text = server.texts[u]
                         \/ Announced(u)
                         \/ silent[u] > cache[i].text

\* The same without the first-subscription gap.
CacheCurrent ==
    \A i \in DOMAIN cache :
        server.up => cache[i].text = server.texts[cache[i].uri] \/ Announced(cache[i].uri)

\* The registry offers the server's current tools unless a notice is on its way or
\* being handled, or the client gave one up: dropped at the limit, or its refresh
\* failed.  Until the next notice the registry then stays behind.
ToolsCurrentOrGivenUp ==
    phase = "open" /\ server.up =>
        \/ registered = server.tools
        \/ \E i \in DOMAIN stream : stream[i].kind = "tools"
        \/ \E i \in DOMAIN tasks : tasks[i].notice.kind = "tools"
        \/ unheard > registered

\* Nothing of a connection survives its close: a read or a refresh that it
\* interrupted neither fills the cache nor registers tools, now or after a restart.
ClosedForgets ==
    phase \in {"closed", "init"} =>
        /\ cache = <<>> /\ subscriptions = {} /\ registered = 0
        /\ \A u \in Uris : reads[u] = NoRead
============================================================================
