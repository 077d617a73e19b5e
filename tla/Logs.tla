--------------------------------- MODULE Logs ---------------------------------
(***************************************************************************)
(* Two logs that several processes append to under a file lock             *)
(* (kairocli/private_lock.py): the audit log, which is rotated             *)
(* (kairocli/policy.py), and the history of inputs, which is trimmed in    *)
(* place (kairocli/cli/history.py). A process may be killed or fail        *)
(* between any two steps, and leave half an entry.                         *)
(***************************************************************************)
EXTENDS Naturals, Sequences, SequencesExt

CONSTANTS
    Writers,      \* the processes
    Nobody,       \* the holder of a lock that is free
    Generations,  \* MAX_AUDIT_FILES_PER_DAY
    Limit,        \* entries that fit into a file
    MaxEntries    \* bound: entries ever submitted

LogsAssumption ==
    Nobody \notin Writers /\ Generations > 1 /\ Limit > 0 /\ MaxEntries \in Nat

VARIABLES
    log,      \* the log that this behaviour is about
    files,    \* its files, the newest is 0: sequences of lines
    holder,   \* the file lock
    writer,   \* process -> what it does with the log
    entries,  \* entries so far, in the order of the lock
    done,     \* entries whose append has returned
    cleared,  \* the last entry there was at a /history clear
    lost      \* the last entry there was when a trim did not end

vars == <<log, files, holder, writer, entries, done, cleared, lost>>

(* A line holds one entry; after half an entry without a line break the    *)
(* next entry of the audit log continues it.                               *)
Line(e, whole) == [parts |-> <<e>>, whole |-> whole]
Idle == [at |-> "idle", entry |-> 0, step |-> 0, keep |-> <<>>]
Gens == 0..Generations - 1

IsFile(f) == \A i \in DOMAIN f : f[i].parts \in Seq(1..MaxEntries) /\ f[i].whole \in BOOLEAN
TypeOK ==
    /\ log \in {"audit", "input"} /\ DOMAIN files = Gens /\ \A g \in Gens : IsFile(files[g])
    /\ holder \in Writers \cup {Nobody}
    /\ \A w \in Writers :
        /\ writer[w].at \in {"idle", "rotate", "refill", "write"} /\ IsFile(writer[w].keep)
        /\ (writer[w].at # "idle") = (holder = w)
    /\ entries \in 0..MaxEntries /\ done \subseteq 1..MaxEntries
    /\ cleared \in 0..MaxEntries /\ lost \in 0..MaxEntries

Init ==
    /\ log \in {"audit", "input"} /\ files = [g \in Gens |-> <<>>] /\ holder = Nobody
    /\ writer = [w \in Writers |-> Idle] /\ entries = 0 /\ done = {} /\ cleared = 0 /\ lost = 0

Goes(w, what) == writer' = [writer EXCEPT ![w] = what] /\ UNCHANGED holder
Leaves(w) == writer' = [writer EXCEPT ![w] = Idle] /\ holder' = Nobody

-----------------------------------------------------------------------------
(* A process with an entry gets the lock: a full audit file is rotated     *)
(* first, and a full history is truncated, what is to stay being in        *)
(* memory.                                                                 *)
Locked(w) ==
    /\ holder = Nobody /\ entries < MaxEntries
    /\ holder' = w /\ entries' = entries + 1
    /\ LET full == Len(files[0]) >= Limit IN
        /\ writer' = [writer EXCEPT ![w] =
            [at |-> IF ~full THEN "write" ELSE IF log = "audit" THEN "rotate" ELSE "refill",
             entry |-> entries', step |-> Generations - 1,
             keep |-> IF full /\ log = "input" THEN Tail(files[0]) ELSE <<>>]]
        /\ files' = IF full /\ log = "input" THEN [files EXCEPT ![0] = <<>>] ELSE files
    /\ UNCHANGED <<log, done, cleared, lost>>

(* AuditLog._rotate renames one file after the other, the oldest first.    *)
Rotate(w) ==
    /\ writer[w].at = "rotate"
    /\ LET g == writer[w].step IN
        /\ files' = IF files[g - 1] = <<>> THEN files
                    ELSE [files EXCEPT ![g] = files[g - 1], ![g - 1] = <<>>]
        /\ Goes(w, [writer[w] EXCEPT !.step = g - 1, !.at = IF g = 1 THEN "write" ELSE @])
    /\ UNCHANGED <<log, entries, done, cleared, lost>>

(* _trim_input_history_for_append writes what stays.                       *)
Refill(w) ==
    /\ writer[w].at = "refill"
    /\ files' = [files EXCEPT ![0] = writer[w].keep]
    /\ Goes(w, [writer[w] EXCEPT !.at = "write"])
    /\ UNCHANGED <<log, entries, done, cleared, lost>>

AppendedAtOnce(f, e, whole) ==  \* mutant: no entry begins with a line break
    IF f # <<>> /\ ~Last(f).whole
    THEN Append(Front(f), [parts |-> Append(Last(f).parts, e), whole |-> whole])
    ELSE Append(f, Line(e, whole))
(* An entry at the end of the file, whole or in part. An entry of the      *)
(* history begins with a line break, one of the audit log only ends with   *)
(* one.                                                                    *)
Appended(f, e, whole) ==
    IF log = "audit" /\ f # <<>> /\ ~Last(f).whole
    THEN Append(Front(f), [parts |-> Append(Last(f).parts, e), whole |-> whole])
    ELSE Append(f, Line(e, whole))

Write(w) ==
    /\ writer[w].at = "write" /\ Leaves(w)
    /\ files' = [files EXCEPT ![0] = Appended(@, writer[w].entry, TRUE)]
    /\ done' = done \cup {writer[w].entry}
    /\ UNCHANGED <<log, entries, cleared, lost>>

(* The process is killed, or a call of the system fails: the append ends   *)
(* where it stands, without its caller taking notice.                      *)
Breaks(w) ==
    /\ holder = w /\ Leaves(w)
    /\ \/ UNCHANGED files
       \/ /\ writer[w].at = "write"
          /\ files' = [files EXCEPT ![0] = Appended(@, writer[w].entry, FALSE)]
       \/ /\ writer[w].at = "refill"
          /\ \E n \in 0..Len(writer[w].keep) : files' = [files EXCEPT ![0] = SubSeq(writer[w].keep, 1, n)]
    /\ lost' = IF writer[w].at = "refill" THEN entries ELSE lost
    /\ UNCHANGED <<log, entries, done, cleared>>

(* /history clear, under the lock.                                         *)
Clear(w) ==
    /\ log = "input" /\ holder = Nobody /\ cleared' = entries
    /\ files' = [files EXCEPT ![0] = <<>>]
    /\ UNCHANGED <<log, holder, writer, entries, done, lost>>

Next == \E w \in Writers : Locked(w) \/ Rotate(w) \/ Refill(w) \/ Write(w) \/ Breaks(w) \/ Clear(w)

Spec == Init /\ [][Next]_vars

-----------------------------------------------------------------------------
AllLines == FlattenSeq([i \in 1..Generations |-> files[Generations - i]])
AllParts == FlattenSeq([i \in DOMAIN AllLines |-> AllLines[i].parts])

(* The entries of all files, the oldest file first, are in the order of    *)
(* their appends; one that is missing is older than those that are there,  *)
(* or was cleared, or was in a history whose trim did not end              *)
(* (AuditLog._rotate, _trim_input_history_for_append).                     *)
NewestKept ==
    /\ \A i, j \in DOMAIN AllParts : i < j => AllParts[i] < AllParts[j]
    /\ holder = Nobody =>
        \A e \in done : \/ e <= cleared \/ e <= lost
                        \/ \A i \in DOMAIN AllParts : AllParts[i] >= e
                        \/ \E i \in DOMAIN AllParts : AllParts[i] = e

(* An entry whose append returned is on a line of its own, but for one of  *)
(* the audit log that follows half an entry (AuditLog.append).             *)
OwnLine ==
    \A i \in DOMAIN AllLines : LET line == AllLines[i] IN
        /\ Len(line.parts) > 1 => log = "audit" /\ line.parts[1] \notin done
        /\ \A e \in ToSet(line.parts) \cap done : line.whole \/ e # Last(line.parts)
=============================================================================
