------------------------------ MODULE CodeIndex ------------------------------
(***************************************************************************)
(* The code index of a workspace (rag.py): for every file its chunks with   *)
(* their vectors, the state that says which text and which embedding they   *)
(* come from, and its relations.  Each change of a file's rows is one       *)
(* transaction, but an index run is many of them, with the embedding        *)
(* service awaited in between; several processes may run one at once, files *)
(* change meanwhile, and a run may die or be refused its embeddings.        *)
(***************************************************************************)
EXTENDS Naturals, FiniteSets

CONSTANTS Processes, Files,
          Texts,            \* contents of a file
          Signatures,       \* configurations of the embedding service
          Absent,           \* no file, no row
          TooBig,           \* a file over the size limit, or binary
          MaxRuns, MaxEdits \* bounds
CodeIndexAssumption ==
    /\ {Absent, TooBig} \cap Texts = {}
    /\ MaxRuns \in Nat /\ MaxEdits \in Nat

VARIABLES disk,        \* the workspace
          chunks,      \* table chunks: the text and embedding of a file's chunks
          fileState,   \* table file_state
          relations,   \* table relations: the text of a file's relations
          signature,   \* metadata embedding_signature
          relationsCurrent,   \* metadata relation_index_version is this program's
          run,         \* each process's index run
          runs, edits,
          rebuilt      \* observer: files whose relations were last written alone

vars == <<disk, chunks, fileState, relations, signature, relationsCurrent, run, runs, edits, rebuilt>>
tables == <<chunks, fileState, relations, signature, relationsCurrent>>

Idle == [at |-> "idle", todo |-> {}, pending |-> {}]
NoRows == [f \in Files |-> Absent]

Init ==
    /\ disk \in [Files -> Texts \cup {Absent, TooBig}]
    /\ chunks = NoRows
    /\ fileState = NoRows
    /\ relations = NoRows
    /\ signature = Absent
    /\ relationsCurrent = FALSE
    /\ run = [p \in Processes |-> Idle]
    /\ runs = 0
    /\ edits = 0
    /\ rebuilt = {}

\* "quiet" is an observer: nobody else has written and no file has changed or
\* been unreadable since the run began
Disturbed(except) == [p \in Processes |->
    IF p \in except \/ run[p] = Idle THEN run[p] ELSE [run[p] EXCEPT !.quiet = FALSE]]
Goes(p, r) == run' = [run EXCEPT ![p] = r]
Writes(p, r) == run' = [Disturbed({p}) EXCEPT ![p] = r]

-----------------------------------------------------------------------------
Edit(f) ==
    /\ edits < MaxEdits
    /\ edits' = edits + 1
    /\ disk' \in {[disk EXCEPT ![f] = t] : t \in Texts \cup {Absent, TooBig}}
    /\ run' = Disturbed({})
    /\ UNCHANGED <<tables, runs, rebuilt>>

Paths == {f \in Files : chunks[f] # Absent}

\* index(): of the whole workspace, or of a part of it unless the embedding
\* service has changed; a changed one empties the tables
Begins(p) == \E sig \in Signatures, scope \in {Files} \cup {{f} : f \in Files} :
    /\ run[p] = Idle
    /\ runs < MaxRuns
    /\ runs' = runs + 1
    /\ sig # signature /\ scope # Files => Paths = {}
    /\ LET present == {f \in scope : disk[f] # Absent}
       IN  Writes(p, [at |-> "scanning", sig |-> sig, scope |-> scope, todo |-> present,
                      current |-> present, rebuild |-> ~relationsCurrent,
                      file |-> Absent, text |-> Absent, pending |-> {}, quiet |-> TRUE])
    /\ IF sig = signature
       THEN UNCHANGED <<chunks, fileState, relations, signature>>
       ELSE /\ chunks' = NoRows /\ fileState' = NoRows /\ relations' = NoRows
            /\ signature' = sig
    /\ UNCHANGED <<disk, relationsCurrent, edits, rebuilt>>

\* _read_index_source, in a thread; a file that cannot be read keeps its rows
Reads(p) == \E f \in run[p].todo, readable \in BOOLEAN :
    /\ run[p].at = "scanning"
    /\ Goes(p, IF readable /\ disk[f] # Absent
               THEN [run[p] EXCEPT !.at = "read", !.todo = @ \ {f},
                                   !.file = f, !.text = disk[f]]
               ELSE [run[p] EXCEPT !.todo = @ \ {f}, !.quiet = FALSE])
    /\ UNCHANGED <<disk, tables, runs, edits, rebuilt>>

\* The state says that these chunks are of this text and this embedding.
SameText(p, f, text) == fileState[f] # Absent /\ fileState[f].text = text
Unchanged(p, f, text) == SameText(p, f, text) /\ fileState[f].sig = run[p].sig

\* replace_path, one transaction: the chunks, the state and the relations
ReplaceState(p, f, text) ==
    /\ fileState' = [fileState EXCEPT ![f] = [text |-> text, sig |-> run[p].sig]]
    /\ UNCHANGED <<chunks, relations, rebuilt>>
ReplacePath(p, f, text) ==
    /\ chunks' = [chunks EXCEPT ![f] =
                     IF text = TooBig THEN Absent ELSE [text |-> text, sig |-> run[p].sig]]
    /\ fileState' = [fileState EXCEPT ![f] = [text |-> text, sig |-> run[p].sig]]
    /\ relations' = [relations EXCEPT ![f] = IF text = TooBig THEN Absent ELSE text]
    /\ rebuilt' = rebuilt \ {f}

\* Skipped: the file's rows are right; only its relations may be to do again.
Skips(p) ==
    /\ run[p].at = "read"
    /\ run[p].text # TooBig
    /\ Unchanged(p, run[p].file, run[p].text)
    /\ Goes(p, [run[p] EXCEPT !.at = IF run[p].rebuild THEN "relations" ELSE "scanning"])
    /\ UNCHANGED <<disk, tables, runs, edits, rebuilt>>

RebuildsRelations(p) ==
    /\ run[p].at = "relations"
    /\ relations' = [relations EXCEPT ![run[p].file] = run[p].text]
    /\ rebuilt' = rebuilt \cup {run[p].file}
    /\ Writes(p, [run[p] EXCEPT !.at = "scanning"])
    /\ UNCHANGED <<disk, chunks, fileState, signature, relationsCurrent, runs, edits>>

Excludes(p) ==
    /\ run[p].at = "read"
    /\ run[p].text = TooBig
    /\ ReplacePath(p, run[p].file, TooBig)
    /\ Writes(p, [run[p] EXCEPT !.at = "scanning"])
    /\ UNCHANGED <<disk, signature, relationsCurrent, runs, edits>>

\* Chunked, and queued for its vectors; the queue may be full
Queues(p) ==
    /\ run[p].at = "read"
    /\ run[p].text # TooBig
    /\ ~Unchanged(p, run[p].file, run[p].text)
    /\ \E next \in {"scanning", "embedding"} :
          Goes(p, [run[p] EXCEPT !.at = next,
                                 !.pending = @ \cup {<<run[p].file, run[p].text>>}])
    /\ UNCHANGED <<disk, tables, runs, edits, rebuilt>>

\* flush_pending: the vectors are awaited, then each file is replaced in turn
Flushes(p) ==
    /\ run[p].at = "scanning"
    /\ run[p].todo = {}
    /\ run[p].pending # {}
    /\ Goes(p, [run[p] EXCEPT !.at = "embedding"])
    /\ UNCHANGED <<disk, tables, runs, edits, rebuilt>>

Stores(p) == \E item \in run[p].pending :
    /\ run[p].at = "embedding"
    /\ ReplacePath(p, item[1], item[2])
    /\ Writes(p, [run[p] EXCEPT !.pending = @ \ {item},
                               !.at = IF run[p].pending = {item} THEN "scanning" ELSE "embedding"])
    /\ UNCHANGED <<disk, signature, relationsCurrent, runs, edits>>

\* The files that are gone lose their rows; a whole run makes the relations current.
Gone(p) == (Paths \cap run[p].scope) \ run[p].current
Reconciles(p) ==
    LET kept(table) == [f \in Files |-> IF f \in Gone(p) THEN Absent ELSE table[f]]
    IN  /\ run[p].at = "scanning"
        /\ run[p].todo = {} /\ run[p].pending = {}
        /\ chunks' = kept(chunks)
        /\ relations' = kept(relations)
        /\ fileState' = kept(fileState)
        /\ relationsCurrent' = (relationsCurrent \/ run[p].scope = Files)
        /\ Writes(p, [run[p] EXCEPT !.at = "done"])
        /\ UNCHANGED <<disk, signature, runs, edits, rebuilt>>

\* The run ends; or it is refused its embeddings, cancelled or killed at any point.
Ends(p) ==
    /\ run[p] # Idle
    /\ Goes(p, Idle)
    /\ UNCHANGED <<disk, tables, runs, edits, rebuilt>>

\* search(): chunks whose vectors are of another embedding have their state
\* dropped, to be indexed again
Search ==
    LET corrupt == {f \in Paths : chunks[f].sig # signature}
    IN  /\ fileState' = [f \in Files |-> IF f \in corrupt THEN Absent ELSE fileState[f]]
        /\ run' = IF corrupt = {} THEN run ELSE Disturbed({})
        /\ UNCHANGED <<disk, chunks, relations, signature, relationsCurrent, runs, edits, rebuilt>>

Next ==
    \/ \E f \in Files : Edit(f)
    \/ Search
    \/ \E p \in Processes :
          \/ Begins(p) \/ Reads(p) \/ Skips(p) \/ RebuildsRelations(p) \/ Excludes(p)
          \/ Queues(p) \/ Flushes(p) \/ Stores(p) \/ Reconciles(p) \/ Ends(p)

Spec == Init /\ [][Next]_vars

-----------------------------------------------------------------------------
Of(texts) == [text : texts, sig : Signatures] \cup {Absent}
TypeOK ==
    /\ disk \in [Files -> Texts \cup {Absent, TooBig}]
    /\ chunks \in [Files -> Of(Texts)]
    /\ fileState \in [Files -> Of(Texts \cup {TooBig})]
    /\ relations \in [Files -> Texts \cup {Absent}]
    /\ signature \in Signatures \cup {Absent}
    /\ runs \in 0..MaxRuns /\ edits \in 0..MaxEdits /\ rebuilt \subseteq Files

(***************************************************************************)
(* A file's state never claims what the tables do not hold: it stands for  *)
(* chunks of exactly that text and embedding, and for that text's          *)
(* relations, unless relations alone were rebuilt.                         *)
(***************************************************************************)
StateTellsChunks == \A f \in Files : fileState[f] # Absent =>
    /\ chunks[f] = IF fileState[f].text = TooBig THEN Absent ELSE fileState[f]
    /\ f \notin rebuilt =>
          relations[f] = IF fileState[f].text = TooBig THEN Absent ELSE fileState[f].text

(***************************************************************************)
(* Whatever earlier runs, crashes, overlapping runs and edits left, a run  *)
(* of the whole workspace that nobody disturbs ends with every file's      *)
(* chunks being of its present text and of the run's embedding.            *)
(***************************************************************************)
RepairedByQuietIndex == \A p \in Processes :
    run[p].at = "done" /\ run[p].quiet /\ run[p].scope = Files =>
        /\ signature = run[p].sig
        /\ \A f \in Files :
              chunks[f] = IF disk[f] \in Texts THEN [text |-> disk[f], sig |-> signature]
                                               ELSE Absent
=============================================================================
