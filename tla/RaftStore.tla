----------------------------- MODULE RaftStore ------------------------------
(***************************************************************************)
(* The durable metadata of a node: RaftMetadataStore (raft-store.ts), that *)
(* is raft-state.json, raft-log.ndjson and raft-snapshot.json, and what of *)
(* them is held in memory.                                                 *)
(*                                                                         *)
(* Each file is written on its own, the state and the snapshot by renaming *)
(* a new file over the old one, the log by appending a line.  The process  *)
(* may die between two writes, and in the middle of an append, which       *)
(* leaves a line without its end; the next append continues that line.     *)
(*                                                                         *)
(* commit_index and last_applied always equal last_log_index.  The order   *)
(* of cluster events within a sync is left open.  The directory is there:  *)
(* an ENOENT, which the code takes for a shutdown, is not modelled.        *)
(***************************************************************************)
EXTENDS Integers, Sequences, SequencesExt

CONSTANTS
    Event,          \* event ids
    NoEvent,        \* the event_id of any other entry
    Junk,           \* a line that does not parse
    MaxLogEntries,  \* max_log_entries: more lines than this are compacted
    MaxIndex,       \* bound: entries written
    MaxTerm,        \* bound: terms
    MaxCrashes,     \* bound: crashes
    MaxTears        \* bound: those of them that tear an append

ASSUME StoreAssumption ==
    /\ NoEvent \notin Event
    /\ MaxLogEntries \in Nat /\ MaxIndex \in Nat /\ MaxTerm \in Nat
    /\ MaxCrashes \in Nat /\ MaxTears \in Nat

Entry    == [index : Nat, term : Nat, event : Event \cup {NoEvent}]
State    == [term : Nat, lastIndex : Nat, lastTerm : Nat]
Snapshot == [index : Nat, term : Nat, ids : SUBSET Event]

ASSUME JunkAssumption == Junk \notin Entry

VARIABLES
    state,      \* this.state
    known,      \* this.knownEventIds
    stateFile,  \* raft-state.json
    lines,      \* raft-log.ndjson
    torn,       \* its last line has no end
    snapFile,   \* raft-snapshot.json and this.snapshot; index 0 without one
    step,       \* the write that comes next
    budget      \* crashes and tears so far

vars == <<state, known, stateFile, lines, torn, snapFile, step, budget>>

TypeOK ==
    /\ state \in State /\ stateFile \in State
    /\ known \subseteq Event
    /\ lines \in Seq(Entry \cup {Junk})
    /\ torn \in BOOLEAN
    /\ snapFile \in Snapshot
    /\ step \in {"idle", "persist", "compact", "dead"}
    /\ budget \in [crashes : 0 .. MaxCrashes, tears : 0 .. MaxTears]

Readable == {i \in DOMAIN lines : lines[i] # Junk}
IdsOf(S) == {e.event : e \in S} \ {NoEvent}
LoggedIds == IdsOf({lines[i] : i \in Readable})

\* Slips in the helpers below, to show that the properties can tell them apart.
NextIndexOfFile == Len(lines) + 1
UnloggedOrNot == Event
SnapshotOfLog == [index |-> state.lastIndex, term |-> state.lastTerm, ids |-> LoggedIds]

Init ==
    /\ state = [term |-> 0, lastIndex |-> 0, lastTerm |-> 0] /\ stateFile = state
    /\ known = {} /\ lines = <<>> /\ torn = FALSE
    /\ snapFile = [index |-> 0, term |-> 0, ids |-> {}]
    /\ step = "idle"
    /\ budget = [crashes |-> 0, tears |-> 0]

\* setState() with a new term, vote or hint; the state machine never lowers the term.
setState(t) ==
    /\ step = "idle" /\ t > state.term
    /\ state' = [state EXCEPT !.term = t]
    /\ stateFile' = state'
    /\ UNCHANGED <<known, lines, torn, snapFile, step, budget>>

NextIndex == state.lastIndex + 1

\* appendEntry(): the line first, then the state file.
appendEntry(e) ==
    /\ step = "idle" /\ NextIndex <= MaxIndex
    /\ LET entry == [index |-> NextIndex, term |-> state.term, event |-> e]
       IN  /\ lines' = Append(lines, IF torn THEN Junk ELSE entry)
           /\ state' = [state EXCEPT !.lastIndex = entry.index, !.lastTerm = entry.term]
    /\ torn' = FALSE
    /\ known' = known \cup ({e} \ {NoEvent})
    /\ step' = "persist"
    /\ UNCHANGED <<stateFile, snapFile, budget>>

persistState ==
    /\ step = "persist"
    /\ stateFile' = state
    /\ step' = "idle"
    /\ UNCHANGED <<state, known, lines, torn, snapFile, budget>>

\* Entries of the election, of heartbeats, of membership and of the runtime.
AppendOther == appendEntry(NoEvent)

\* What appendClusterEvents() still has to log.
Unlogged == Event \ known
appendClusterEvents == \E e \in Unlogged : appendEntry(e)

SnapshotNow == [index |-> state.lastIndex, term |-> state.lastTerm, ids |-> known]

\* createSnapshot() of createSnapshotAndCompact(), when maybeCompact() finds the log long.
createSnapshot ==
    /\ step = "idle"
    /\ Len(lines) + (IF torn THEN 1 ELSE 0) > MaxLogEntries
    /\ snapFile' = SnapshotNow
    /\ step' = "compact"
    /\ UNCHANGED <<state, known, stateFile, lines, torn, budget>>

Retained(e) == e # Junk /\ e.index > snapFile.index

compactLog ==
    /\ step = "compact"
    /\ LET kept == {i \in DOMAIN lines : Retained(lines[i])}
       IN  \E n \in 0 .. Len(lines) : \E from \in [1 .. n -> kept] :
              /\ \A j, k \in 1 .. n : j < k => from[j] < from[k]
              /\ kept = {from[k] : k \in 1 .. n}
              /\ lines' = [k \in 1 .. n |-> lines[from[k]]]
    /\ torn' = FALSE
    /\ step' = "idle"
    /\ UNCHANGED <<state, known, stateFile, snapFile, budget>>

Die ==
    /\ step # "dead" /\ budget.crashes < MaxCrashes
    /\ step' = "dead"
    /\ budget' = [budget EXCEPT !.crashes = @ + 1]

Crash == Die /\ UNCHANGED <<state, known, stateFile, lines, torn, snapFile>>

\* The process dies inside appendFileSync().
TornAppend ==
    /\ step = "idle" /\ budget.tears < MaxTears /\ budget.crashes < MaxCrashes
    /\ torn' = TRUE
    /\ step' = "dead"
    /\ budget' = [crashes |-> budget.crashes + 1, tears |-> budget.tears + 1]
    /\ UNCHANGED <<state, known, stateFile, lines, snapFile>>

Greatest(S) == CHOOSE x \in S : \A y \in S : y <= x

\* loadOrCreateState(), loadSnapshot() and rebuildFromLog().  The state that was known
\* in memory before has no influence.
Loaded ==
    LET entries == {lines[i] : i \in Readable}
        base == Greatest({stateFile.lastIndex, snapFile.index})
        baseTerm == Greatest({stateFile.lastTerm, snapFile.term})
        beyond == {e \in entries : e.index > base}
        last == CHOOSE e \in beyond : \A f \in beyond : f.index <= e.index
    IN  [stateFile EXCEPT !.lastIndex = IF beyond = {} THEN base ELSE last.index,
                          !.lastTerm = IF beyond = {} THEN baseTerm
                                       ELSE Greatest({baseTerm, last.term})]

Remembered == snapFile.ids \cup LoggedIds

Restart ==
    /\ step = "dead"
    /\ state' = Loaded
    /\ known' = Remembered
    /\ stateFile' = state'
    /\ step' = "idle"
    /\ UNCHANGED <<lines, torn, snapFile, budget>>

Next ==
    \/ \E t \in 1 .. MaxTerm : setState(t)
    \/ AppendOther
    \/ appendClusterEvents
    \/ persistState
    \/ createSnapshot
    \/ compactLog
    \/ Crash
    \/ TornAppend
    \/ Restart

Spec == Init /\ [][Next]_vars

(***************************************************************************)
(* Properties.                                                             *)
(***************************************************************************)

\* An index is given once, crashes or not: the entries of the log ascend.
LogAscends ==
    /\ \A i, j \in Readable : i < j => lines[i].index < lines[j].index
    /\ step # "dead" => \A i \in Readable : lines[i].index <= state.lastIndex

\* Compaction drops by index what the snapshot remembers by id: an event that the
\* snapshot does not know is logged beyond it, whatever was compacted or torn before.
DroppedIsCovered ==
    \A i \in Readable :
        lines[i].event \in snapFile.ids \cup {NoEvent} \/ lines[i].index > snapFile.index

\* The log never names an event twice: a crash between the line and the state, or
\* between the snapshot and the compaction, does not make a sync log it again.
OncePerEvent ==
    \A i, j \in Readable :
        lines[i].event = lines[j].event /\ lines[i].event # NoEvent => i = j

\* Along the log terms never fall, and the last term known is that of the last entry.
TermsFollowTheLog ==
    /\ \A i, j \in Readable : i < j => lines[i].term <= lines[j].term
    /\ step \in {"idle", "persist"} => \A i \in Readable : lines[i].term <= state.lastTerm

\* Compaction, crashes and restarts never lose an id that the files held.
IdsAreKept == [][snapFile.ids \cup LoggedIds \subseteq snapFile'.ids \cup LoggedIds']_vars

\* distributed-system.test.ts:598: "restores persisted events after restart and ignores
\* malformed log lines": an event taken for logged is one a restart will find, but for
\* one per torn append, the one that continued the torn line.
KnownIsDurable == Cardinality(known \ (snapFile.ids \cup LoggedIds)) <= budget.tears
=============================================================================
