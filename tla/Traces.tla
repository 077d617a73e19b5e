-------------------------------- MODULE Traces --------------------------------
(***************************************************************************)
(* The trace files of agent runs (kairocli/trace.py): a header when the    *)
(* run starts, a record around every call of the model and of the tools,   *)
(* and a footer, after which old files are deleted. Records and footer are *)
(* written by threads that the run awaits, and that go on when the run is  *)
(* cancelled. Runs of several processes share the directory, and one may   *)
(* end without notice.                                                     *)
(***************************************************************************)
EXTENDS Naturals, Sequences, FiniteSets, SequencesExt

CONSTANTS
    Runs,        \* agent runs that are traced
    MaxTraces,   \* MAX_TRACE_FILES
    MaxRecords   \* bound: records of a run

(* What a trace file consists of, in the order of a run.                   *)
Header == 0
Footer == MaxRecords + 1
Records == 1..MaxRecords

TracesAssumption == IsFiniteSet(Runs) /\ MaxTraces \in Nat /\ MaxRecords \in Nat

VARIABLES
    run,       \* run -> where it stands
    known,     \* the runs in _session_files
    recorded,  \* run -> records so far
    text,      \* run -> what is in its file
    recent,    \* the runs whose file exists, the last written last
    jobs,      \* the threads: what each writes, and how far it has come
    failed,    \* runs of which a write failed
    deleted,   \* runs whose file was deleted as an old one
    late,      \* runs that were cancelled while a thread wrote for them
    short      \* runs that were cancelled before it wrote, or ended without notice

vars == <<run, known, recorded, text, recent, jobs, failed, deleted, late, short>>

TypeOK ==
    /\ run \in [Runs -> {"off", "on", "record", "close", "over"}]
    /\ known \subseteq Runs /\ recorded \in [Runs -> 0..MaxRecords]
    /\ \A r \in Runs : text[r] \in Seq(Header..Footer)
    /\ recent \in Seq(Runs)
    /\ jobs \subseteq [of : Runs, line : Header..Footer, at : {"queued", "write", "choose", "delete"},
                       stale : SUBSET Runs]
    /\ failed \subseteq Runs /\ deleted \subseteq Runs /\ late \subseteq Runs /\ short \subseteq Runs

Init ==
    /\ run = [r \in Runs |-> "off"] /\ known = {} /\ recorded = [r \in Runs |-> 0]
    /\ text = [r \in Runs |-> <<>>] /\ recent = <<>> /\ jobs = {}
    /\ failed = {} /\ deleted = {} /\ late = {} /\ short = {}

Job(r, line) == [of |-> r, line |-> line, at |-> "queued", stale |-> {}]

(* _write, _append: a write that fails is passed over.                     *)
Adds(r, line) ==
    \/ /\ text' = [text EXCEPT ![r] = Append(@, line)]
       /\ recent' = Append(Remove(recent, r), r) /\ UNCHANGED failed
    \/ failed' = failed \cup {r} /\ UNCHANGED <<text, recent>>

(* The run that awaits a thread goes on when the thread has ended.         *)
Awaits(r, j) ==
    /\ j.of = r
    /\ \/ run[r] = "record" /\ j.line = recorded[r]
       \/ run[r] = "close" /\ j.line = Footer
Ends(j) ==
    /\ jobs' = jobs \ {j}
    /\ run' = [r \in Runs |-> IF ~Awaits(r, j) THEN run[r] ELSE IF run[r] = "record" THEN "on" ELSE "over"]

-----------------------------------------------------------------------------
(* open_session; then the records before and after a call of the model,    *)
(* and of the results of tools; and close_session.                         *)
Open(r) ==
    /\ run[r] = "off" /\ run' = [run EXCEPT ![r] = "on"]
    /\ known' = known \cup {r} /\ Adds(r, Header)
    /\ UNCHANGED <<recorded, jobs, deleted, late, short>>
Record(r) ==
    /\ run[r] = "on" /\ recorded[r] < MaxRecords
    /\ run' = [run EXCEPT ![r] = "record"] /\ recorded' = [recorded EXCEPT ![r] = @ + 1]
    /\ jobs' = jobs \cup {Job(r, recorded'[r])}
    /\ UNCHANGED <<known, text, recent, failed, deleted, late, short>>
Close(r) ==
    /\ run[r] = "on" /\ run' = [run EXCEPT ![r] = "close"]
    /\ jobs' = jobs \cup {Job(r, Footer)}
    /\ UNCHANGED <<known, recorded, text, recent, failed, deleted, late, short>>

(* A thread looks up the file of its session; the last one forgets it.     *)
LookUp(j) ==
    /\ j.at = "queued"
    /\ known' = IF j.line = Footer THEN known \ {j.of} ELSE known
    /\ IF j.of \in known
       THEN jobs' = (jobs \ {j}) \cup {[j EXCEPT !.at = "write"]} /\ UNCHANGED run
       ELSE Ends(j)
    /\ UNCHANGED <<recorded, text, recent, failed, deleted, late, short>>
Write(j) ==
    /\ j.at = "write" /\ Adds(j.of, j.line)
    /\ IF j.line = Footer
       THEN jobs' = (jobs \ {j}) \cup {[j EXCEPT !.at = "choose"]} /\ UNCHANGED run
       ELSE Ends(j)
    /\ UNCHANGED <<known, recorded, deleted, late, short>>

(* _prune: all but the newest files, as their times were read, are         *)
(* deleted.                                                                *)
Choose(j) ==
    /\ j.at = "choose"
    /\ LET old == {recent[i] : i \in {k \in DOMAIN recent : k + MaxTraces <= Len(recent)}} IN
        jobs' = (jobs \ {j}) \cup {[j EXCEPT !.at = "delete", !.stale = old]}
    /\ UNCHANGED <<run, known, recorded, text, recent, failed, deleted, late, short>>
Delete(j) ==
    /\ j.at = "delete" /\ Ends(j)
    /\ recent' = SelectSeq(recent, LAMBDA r : r \notin j.stale)
    /\ text' = [r \in Runs |-> IF r \in j.stale THEN <<>> ELSE text[r]]
    /\ deleted' = deleted \cup j.stale
    /\ UNCHANGED <<known, recorded, failed, late, short>>

(* The run is cancelled while it awaits a thread: one that has not begun   *)
(* never does. After a record the trace is closed.                         *)
Cancel(r) ==
    /\ run[r] \in {"record", "close"}
    /\ LET begun == {j \in jobs : Awaits(r, j) /\ j.at # "queued"}
           other == {j \in jobs : ~Awaits(r, j)}
       IN  /\ late' = IF begun # {} THEN late \cup {r} ELSE late
           /\ short' = IF begun = {} THEN short \cup {r} ELSE short
           /\ IF run[r] = "record"
              THEN /\ run' = [run EXCEPT ![r] = "close"]
                   /\ jobs' = other \cup begun \cup {Job(r, Footer)}
              ELSE run' = [run EXCEPT ![r] = "over"] /\ jobs' = other \cup begun
    /\ UNCHANGED <<known, recorded, text, recent, failed, deleted>>

(* The process of the run is killed.                                       *)
Killed(r) ==
    /\ run[r] \in {"on", "record", "close"} /\ run' = [run EXCEPT ![r] = "over"]
    /\ jobs' = {j \in jobs : j.of # r} /\ short' = short \cup {r}
    /\ UNCHANGED <<known, recorded, text, recent, failed, deleted, late>>

Next ==
    \/ \E r \in Runs : Open(r) \/ Record(r) \/ Close(r) \/ Cancel(r) \/ Killed(r)
    \/ \E j \in jobs : LookUp(j) \/ Write(j) \/ Choose(j) \/ Delete(j)

Spec == Init /\ [][Next]_vars

-----------------------------------------------------------------------------
(* A trace has its records in the order of the run, begins with the header *)
(* and ends with the footer, unless the run was cancelled while a thread   *)
(* wrote, or its file was deleted while it was still written to            *)
(* (record_llm_turn, close_session, _prune).                               *)
TraceTellsRun ==
    \A r \in Runs :
        /\ r \notin late => \A i, k \in DOMAIN text[r] : i < k => text[r][i] < text[r][k]
        /\ text[r] # <<>> /\ r \notin failed \cup deleted => Head(text[r]) = Header
        /\ run[r] = "over" /\ r \notin failed \cup deleted \cup late \cup short =>
               text[r] = [i \in 1..recorded[r] + 1 |-> i - 1] \o <<Footer>>

(* There are no more traces than the limit, but for those of runs that     *)
(* still go on or were cut off from deleting old ones (_prune).            *)
TracesBounded ==
    Len(recent) <= MaxTraces + Cardinality({r \in Runs :
        run[r] \notin {"off", "over"} \/ r \in late \cup short \/ \E j \in jobs : j.of = r})
=============================================================================
