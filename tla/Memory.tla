------------------------------- MODULE Memory -------------------------------
(***************************************************************************)
(* The long-term memory (memory.py): one file of facts shared by the        *)
(* processes of several projects, and a cache of their vectors.  A save     *)
(* reads the file, drops nothing but what it supersedes and the oldest      *)
(* entry of a full store, and writes it back, all under the lock; the       *)
(* vectors follow later, once the embedding service has answered.           *)
(***************************************************************************)
EXTENDS Naturals, Sequences, FiniteSets, SequencesExt

CONSTANTS Projects,         \* one process each
          Facts, Keys,
          NoKey,
          MaxEntries,       \* MAX_MEMORY_ENTRIES
          MaxIds, MaxOps    \* bounds
MemoryAssumption ==
    /\ NoKey \notin Keys /\ MaxEntries \in Nat \ {0}
    /\ MaxIds \in Nat /\ MaxOps \in Nat

VARIABLES entries,     \* the file, oldest first
          nextId,
          vectors,     \* memory_embeddings: the entries with a vector
          task,        \* what each process's embedding is for
          ops,
          last         \* observer: the command that made the last step, if one did

vars == <<entries, nextId, vectors, task, ops, last>>

Idle == [at |-> "idle"]
Global == "global"
Places == Projects \cup {Global}

Init ==
    /\ entries = <<>> /\ nextId = 0 /\ vectors = {} /\ ops = 0
    /\ task = [p \in Projects |-> Idle]
    /\ last = Idle

Ids == {e.id : e \in Range(entries)}
Active == {e \in Range(entries) : e.active}

\* what list_entries shows in a project: a project's key hides the global one
Own(p) == {e \in Active : e.place \in {p, Global}}
Visible(p) == {e \in Own(p) :
    ~(e.place = Global /\ e.key # NoKey /\ \E o \in Own(p) : o.place = p /\ o.key = e.key)}

Command(p, op) ==
    /\ task[p] = Idle
    /\ ops < MaxOps
    /\ ops' = ops + 1
    /\ last' = op

-----------------------------------------------------------------------------
SameKeyNewer(key, place) == {}
SameKey(key, place) ==
    {e.id : e \in {e \in Active : key # NoKey /\ e.key = key /\ e.place = place}}
ReplaceableAny(place) == Ids
Replaceable(place) == {e.id : e \in {e \in Range(entries) : e.place = place}}

Superseded(ids) ==
    [i \in DOMAIN entries |->
        IF entries[i].id \in ids THEN [entries[i] EXCEPT !.active = FALSE] ELSE entries[i]]
Newest(s) == SubSeq(s, IF Len(s) > MaxEntries THEN Len(s) - MaxEntries + 1 ELSE 1, Len(s))

\* The fact is known already, in whatever project: nothing is written, and its
\* entry is the one given back.
SaveKnown(p) == \E e \in Active :
    /\ Command(p, [at |-> "known", by |-> p])
    /\ task' = [task EXCEPT ![p] = IF e.id \in vectors THEN Idle
                                   ELSE [at |-> "embedding", ids |-> {e.id}]]
    /\ UNCHANGED <<entries, nextId, vectors>>

Save(p) == \E fact \in Facts, place \in {p, Global}, key \in Keys \cup {NoKey} :
    \E asked \in {{}} \cup {{i} : i \in Ids} :
    LET replaced == asked \cup SameKey(key, place)
    IN  /\ \A e \in Active : e.fact # fact
        /\ replaced \subseteq Replaceable(place)
        /\ nextId < MaxIds
        /\ Command(p, [at |-> "save", by |-> p, place |-> place])
        /\ nextId' = nextId + 1
        /\ entries' = Newest(Append(Superseded(replaced),
                          [id |-> nextId, fact |-> fact, place |-> place, key |-> key,
                           active |-> TRUE]))
        /\ task' = [task EXCEPT ![p] = [at |-> "embedding", ids |-> {nextId}]]
        /\ UNCHANGED vectors

\* the entries in their order, but for those of ids
Without(ids) ==
    LET kept[i \in 0..Len(entries)] ==
            IF i = 0 THEN <<>>
            ELSE IF entries[i].id \in ids THEN kept[i - 1] ELSE Append(kept[i - 1], entries[i])
    IN  kept[Len(entries)]

\* /memory delete, of any id
Delete(p) == \E i \in Ids :
    /\ Command(p, [at |-> "delete", by |-> p, id |-> i])
    /\ entries' = Without({i})
    /\ vectors' = vectors \ {i}
    /\ UNCHANGED <<nextId, task>>

Cleared(p) == {e.id : e \in {e \in Range(entries) : e.place \in {p, Global}}}
Clear(p) ==
    /\ Command(p, [at |-> "clear", by |-> p])
    /\ entries' = Without(Cleared(p))
    /\ vectors' = vectors \ Cleared(p)
    /\ UNCHANGED <<nextId, task>>

\* search_hybrid: the visible entries without a vector are embedded with the query
Search(p) ==
    /\ Command(p, [at |-> "search", by |-> p])
    /\ task' = [task EXCEPT ![p] =
                   [at |-> "searching", ids |-> {e.id : e \in Visible(p)} \ vectors]]
    /\ UNCHANGED <<entries, nextId, vectors>>

\* The answer comes: the vectors are stored, of entries gone meanwhile too.
Embedded(p) ==
    /\ task[p].at \in {"embedding", "searching"}
    /\ vectors' = vectors \cup task[p].ids
    /\ task' = [task EXCEPT ![p] = IF @.at = "embedding" THEN [at |-> "pruning"] ELSE Idle]
    /\ last' = Idle
    /\ UNCHANGED <<entries, nextId, ops>>

\* _prune_embedding_cache, after a save whose vector was stored
Prunes(p) ==
    /\ task[p].at = "pruning"
    /\ vectors' = vectors \cap {e.id : e \in Active}
    /\ task' = [task EXCEPT ![p] = Idle]
    /\ last' = Idle
    /\ UNCHANGED <<entries, nextId, ops>>

\* the service or the cache fails, or the process ends
Fails(p) ==
    /\ task[p] # Idle
    /\ task' = [task EXCEPT ![p] = Idle]
    /\ last' = Idle
    /\ UNCHANGED <<entries, nextId, vectors, ops>>

Next == \E p \in Projects :
    \/ SaveKnown(p) \/ Save(p) \/ Delete(p) \/ Clear(p) \/ Search(p)
    \/ Embedded(p) \/ Prunes(p) \/ Fails(p)

Spec == Init /\ [][Next]_vars

-----------------------------------------------------------------------------
TypeOK ==
    /\ Range(entries) \subseteq [id : 0..MaxIds, fact : Facts, place : Places,
                                 key : Keys \cup {NoKey}, active : BOOLEAN]
    /\ Len(entries) <= MaxEntries
    /\ vectors \subseteq 0..MaxIds
    /\ ops \in 0..MaxOps /\ nextId \in 0..MaxIds

(***************************************************************************)
(* Every key has one active memory in a project and one among the global   *)
(* memories, and no fact is active twice.                                  *)
(***************************************************************************)
OneActive == \A d, e \in Active : d # e =>
    /\ d.fact # e.fact
    /\ ~(d.key # NoKey /\ d.key = e.key /\ d.place = e.place)

(***************************************************************************)
(* A memory is lost to a project only by a deletion of it, by a clearing   *)
(* in that project (or of the global ones), by a later memory of the same  *)
(* place, or, the oldest, by a save into a full store.                     *)
(***************************************************************************)
Lost == {e \in Active : ~\E n \in Range(entries') : n.id = e.id /\ n.active}
LossHasReason == \A e \in Lost :
    \/ last'.at = "delete" /\ last'.id = e.id
    \/ last'.at = "clear" /\ e.place \in {last'.by, Global}
    \/ last'.at = "save" /\ e.place = last'.place
    \/ last'.at = "save" /\ e = Head(entries) /\ Len(entries) = MaxEntries
LostForAReason == [][LossHasReason]_vars
=============================================================================
