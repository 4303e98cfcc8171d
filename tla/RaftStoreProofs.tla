--------------------------- MODULE RaftStoreProofs ---------------------------
(***************************************************************************)
(* Theorems about RaftStore, for any events, bounds, crashes and tears.    *)
(*                                                                         *)
(* What is in memory knows of every event that the files hold, so that no  *)
(* event is logged twice; entries ascend, and the snapshot is never ahead  *)
(* of the state, so that a new entry is beyond it; and each torn append    *)
(* has taken at most one event with it, or will.                           *)
(***************************************************************************)
EXTENDS RaftStore, FiniteSetTheorems, WellFoundedInduction, TLAPS

Alive == step # "dead"
Line  == Entry \cup {Junk}

-----------------------------------------------------------------------------
(* Lemmas about the operators of the model.                                *)

LEMMA GreatestOfTwo ==
    ASSUME NEW a \in Nat, NEW b \in Nat
    PROVE  Greatest({a, b}) \in {a, b} /\ a <= Greatest({a, b}) /\ b <= Greatest({a, b})
<1>1. \E x \in {a, b} : \A y \in {a, b} : y <= x
  OBVIOUS
<1> QED BY <1>1 DEF Greatest

\* A set of positions has a last one: the least distance from the end.
LEMMA LastOne ==
    ASSUME NEW b \in Nat, NEW S \in SUBSET (1 .. b), S # {}
    PROVE  \E x \in S : \A y \in S : y <= x
<1> DEFINE T == {k \in Nat : b - k \in S}
<1>1. T \subseteq Nat /\ T # {}
  <2>1. PICK x \in S : TRUE
    OBVIOUS
  <2>2. b - x \in T
    BY <2>1
  <2> QED BY <2>2
<1>2. PICK k \in T : \A j \in T : ~(<<j, k>> \in OpToRel(<, Nat))
  <2> HIDE DEF T
  <2> QED BY <1>1, NatLessThanWellFounded, WFMin
<1>3. \A j \in T : ~(j < k)
  BY <1>2 DEF OpToRel
<1>4. ASSUME NEW y \in S
      PROVE  y <= b - k
  <2>1. b - y \in T
    OBVIOUS
  <2> QED BY <1>3, <2>1
<1> QED BY <1>2, <1>4

LEMMA LinesType ==
    ASSUME TypeOK
    PROVE  /\ DOMAIN lines = 1 .. Len(lines) /\ Len(lines) \in Nat
           /\ \A i \in Readable : /\ i \in DOMAIN lines /\ i \in Nat /\ lines[i] \in Entry
                                  /\ lines[i].index \in Nat /\ lines[i].term \in Nat
                                  /\ lines[i].event \in Event \cup {NoEvent}
BY DEF TypeOK, Readable, Entry

LEMMA LoggedMeans ==
    ASSUME NEW x
    PROVE  x \in LoggedIds <=> x # NoEvent /\ \E i \in Readable : lines[i].event = x
BY DEF LoggedIds, IdsOf

LEMMA LoggedMeansNext ==
    ASSUME NEW x
    PROVE  x \in LoggedIds' <=> x # NoEvent /\ \E i \in Readable' : lines'[i].event = x
BY DEF LoggedIds, IdsOf

LEMMA SameLines ==
    ASSUME lines' = lines
    PROVE  Readable' = Readable /\ LoggedIds' = LoggedIds
BY DEF Readable, LoggedIds, IdsOf

-----------------------------------------------------------------------------
\* What a restart computes: it is not behind the state file, the snapshot or any line, and
\* its last term is that of one of them.
LEMMA LoadedType ==
    ASSUME TypeOK, LogAscends
    PROVE  /\ Loaded \in State /\ Loaded.term = stateFile.term
           /\ stateFile.lastIndex <= Loaded.lastIndex /\ snapFile.index <= Loaded.lastIndex
           /\ stateFile.lastTerm <= Loaded.lastTerm /\ snapFile.term <= Loaded.lastTerm
           /\ \A i \in Readable : lines[i].index <= Loaded.lastIndex
           /\ \/ Loaded.lastTerm \in {stateFile.lastTerm, snapFile.term}
              \/ \E i \in Readable : Loaded.lastTerm = lines[i].term
           /\ \A i \in Readable : \/ lines[i].index <= stateFile.lastIndex
                                  \/ lines[i].index <= snapFile.index
                                  \/ \E j \in Readable : i <= j /\ lines[j].term <= Loaded.lastTerm
<1> DEFINE entries == {lines[i] : i \in Readable}
           base == Greatest({stateFile.lastIndex, snapFile.index})
           baseTerm == Greatest({stateFile.lastTerm, snapFile.term})
           beyond == {e \in entries : e.index > base}
           last == CHOOSE e \in beyond : \A f \in beyond : f.index <= e.index
           index == IF beyond = {} THEN base ELSE last.index
           term == IF beyond = {} THEN baseTerm ELSE Greatest({baseTerm, last.term})
<1>0. Loaded = [stateFile EXCEPT !.lastIndex = index, !.lastTerm = term]
  BY DEF Loaded
<1>1. /\ stateFile \in State /\ stateFile.lastIndex \in Nat /\ stateFile.lastTerm \in Nat
      /\ snapFile.index \in Nat /\ snapFile.term \in Nat
  BY DEF TypeOK, State, Snapshot
<1>2. base \in {stateFile.lastIndex, snapFile.index} /\ stateFile.lastIndex <= base /\ snapFile.index <= base
  BY <1>1, GreatestOfTwo
<1>3. baseTerm \in {stateFile.lastTerm, snapFile.term} /\ stateFile.lastTerm <= baseTerm /\ snapFile.term <= baseTerm
  BY <1>1, GreatestOfTwo
<1> HIDE DEF base, baseTerm
<1>4. base \in Nat /\ baseTerm \in Nat
  BY <1>1, <1>2, <1>3
<1> DEFINE S == {i \in Readable : lines[i].index > base}
<1>5. CASE S = {}
  <2>1. beyond = {}
    BY <1>5
  <2>2. \A i \in Readable : lines[i].index <= base
    BY <1>4, <1>5, LinesType
  <2>3. index = base /\ term = baseTerm
    BY <2>1
  <2> HIDE DEF index, term, S, beyond
  <2>4. Loaded \in State /\ Loaded.term = stateFile.term /\ Loaded.lastIndex = base /\ Loaded.lastTerm = baseTerm
    BY <1>0, <1>1, <1>4, <2>3 DEF State
  <2>5. \A i \in Readable : lines[i].index <= stateFile.lastIndex \/ lines[i].index <= snapFile.index
    BY <1>2, <2>2
  <2> QED BY <1>2, <1>3, <2>2, <2>4, <2>5
<1>6. CASE S # {}
  <2>1. PICK m \in S : \A i \in S : i <= m
    BY <1>6, LastOne, LinesType
  <2>2. \A i \in Readable : lines[i].index \in Nat /\ i \in Nat
    BY LinesType
  <2>3. \A i \in S : lines[i].index <= lines[m].index /\ (i # m => lines[i].index < lines[m].index)
    BY <2>1, <2>2 DEF LogAscends
  <2>4. lines[m] \in beyond /\ \A f \in beyond : f.index <= lines[m].index
    BY <2>1, <2>3
  <2>5. last \in beyond /\ \A f \in beyond : f.index <= last.index
    BY <2>4
  <2>6. PICK k \in S : last = lines[k]
    BY <2>5
  <2>7. last = lines[m]
    BY <2>1, <2>2, <2>3, <2>4, <2>5, <2>6
  <2>8. lines[m].index > base /\ lines[m].term \in Nat /\ lines[m].index \in Nat /\ m \in Readable
    BY <2>1, LinesType
  <2>9. index = lines[m].index /\ term = Greatest({baseTerm, lines[m].term})
    BY <2>5, <2>7
  <2>10. term \in {baseTerm, lines[m].term} /\ baseTerm <= term /\ lines[m].term <= term
    BY <1>4, <2>8, <2>9, GreatestOfTwo
  <2>11. \A i \in Readable : lines[i].index <= base \/ i \in S
    BY <1>4, <2>2
  <2> HIDE DEF index, term, S, beyond, last, entries
  <2>12. Loaded \in State /\ Loaded.term = stateFile.term /\ Loaded.lastIndex = index /\ Loaded.lastTerm = term
    BY <1>0, <1>1, <1>4, <2>8, <2>9, <2>10 DEF State
  <2>13. \A i \in Readable : lines[i].index <= index
    BY <1>4, <2>2, <2>3, <2>8, <2>9, <2>11
  <2>14. ASSUME NEW i \in Readable
         PROVE  \/ lines[i].index <= stateFile.lastIndex
                \/ lines[i].index <= snapFile.index
                \/ i <= m
    BY <1>2, <2>1, <2>11
  <2>15. stateFile.lastIndex <= index /\ snapFile.index <= index /\ stateFile.lastTerm <= term /\ snapFile.term <= term
    BY <1>1, <1>2, <1>3, <1>4, <2>8, <2>9, <2>10
  <2> QED BY <1>3, <2>8, <2>10, <2>12, <2>13, <2>14, <2>15
<1> QED BY <1>5, <1>6

\* What an append does to the log: nothing before its end, and there one readable line,
\* unless the append continues a torn one.
LEMMA Appended ==
    ASSUME TypeOK, NEW e \in Event \cup {NoEvent}, appendEntry(e)
    PROVE  LET entry == [index |-> NextIndex, term |-> state.term, event |-> e]
           IN  /\ lines' \in Seq(Line) /\ entry \in Entry
               /\ \A i \in Readable : i \in Readable' /\ lines'[i] = lines[i]
               /\ \A i \in Readable' : \/ i \in Readable
                                       \/ ~torn /\ lines'[i] = entry /\ \A j \in Readable : j < i
               /\ ~torn => \E i \in Readable' : lines'[i] = entry
               /\ \A i, j \in Readable' : i \notin Readable /\ j \notin Readable => i = j
<1> DEFINE entry == [index |-> NextIndex, term |-> state.term, event |-> e]
           line == IF torn THEN Junk ELSE entry
<1>1. entry \in Entry
  <2>1. state.lastIndex \in Nat /\ state.term \in Nat
    BY DEF TypeOK, State
  <2> QED BY <2>1 DEF Entry, NextIndex
<1>2. entry # Junk /\ line \in Line
  BY <1>1, JunkAssumption DEF Line
<1>3. lines \in Seq(Line) /\ lines' = Append(lines, line)
  BY DEF TypeOK, Line, appendEntry
<1>4. line # Junk => line = entry /\ ~torn
  BY DEF line
<1>5. ~torn => line = entry
  BY DEF line
<1> HIDE DEF entry, line
<1>6. /\ lines' \in Seq(Line) /\ DOMAIN lines = 1 .. Len(lines) /\ Len(lines) \in Nat
      /\ DOMAIN lines' = 1 .. Len(lines) + 1
      /\ \A i \in DOMAIN lines : lines'[i] = lines[i]
      /\ lines'[Len(lines) + 1] = line
  BY <1>2, <1>3
<1>7. \A i \in Readable : i \in Readable' /\ lines'[i] = lines[i]
  BY <1>6 DEF Readable
<1>8. \A i \in Readable' : i \in Readable \/ i = Len(lines) + 1
  BY <1>6 DEF Readable
<1>9. \A i \in Readable' : i \in Readable \/ (~torn /\ lines'[i] = entry /\ \A j \in Readable : j < i)
  BY <1>4, <1>6, <1>8 DEF Readable
<1>10. ~torn => \E i \in Readable' : lines'[i] = entry
  BY <1>2, <1>5, <1>6 DEF Readable
<1> QED BY <1>1, <1>6, <1>7, <1>8, <1>9, <1>10 DEF entry

\* Compaction keeps the lines it retains, in their order.
LEMMA Compacted ==
    ASSUME TypeOK, compactLog
    PROVE  /\ lines' \in Seq(Line)
           /\ \A k \in Readable' : \E i \in Readable : lines'[k] = lines[i]
           /\ \A i \in Readable : lines[i].index > snapFile.index => \E k \in Readable' : lines'[k] = lines[i]
           /\ \E from \in [DOMAIN lines' -> Readable] :
                 /\ \A k \in DOMAIN lines' : lines'[k] = lines[from[k]]
                 /\ \A j, k \in DOMAIN lines' : j < k => from[j] < from[k]
<1> DEFINE kept == {i \in DOMAIN lines : Retained(lines[i])}
<1>0. PICK n \in 0 .. Len(lines) : \E from \in [1 .. n -> kept] :
        /\ \A j, k \in 1 .. n : j < k => from[j] < from[k]
        /\ kept = {from[k] : k \in 1 .. n}
        /\ lines' = [k \in 1 .. n |-> lines[from[k]]]
  BY DEF compactLog
<1>1. PICK from \in [1 .. n -> kept] :
        /\ \A j, k \in 1 .. n : j < k => from[j] < from[k]
        /\ kept = {from[k] : k \in 1 .. n}
        /\ lines' = [k \in 1 .. n |-> lines[from[k]]]
  BY <1>0
<1>2. kept \subseteq Readable /\ \A i \in Readable : lines[i].index > snapFile.index => i \in kept
  BY DEF Readable, Retained
<1> HIDE DEF kept
<1>3. lines \in Seq(Line) /\ n \in Nat /\ DOMAIN lines' = 1 .. n
  BY <1>1, LinesType DEF TypeOK, Line
<1>4. \A k \in 1 .. n : from[k] \in Readable /\ lines'[k] = lines[from[k]] /\ lines[from[k]] # Junk
  BY <1>1, <1>2 DEF Readable
<1>5. lines' \in Seq(Line)
  <2>1. lines' \in [1 .. n -> Line]
    <3>1. \A k \in 1 .. n : lines[from[k]] \in Line
      BY <1>4, LinesType DEF Line
    <3> QED BY <1>1, <3>1
  <2> QED BY <1>3, <2>1
<1>6. \A k \in 1 .. n : k \in Readable'
  BY <1>3, <1>4 DEF Readable
<1>7. ASSUME NEW i \in Readable, lines[i].index > snapFile.index
      PROVE  \E k \in Readable' : lines'[k] = lines[i]
  <2>1. PICK k \in 1 .. n : i = from[k]
    BY <1>1, <1>2, <1>7
  <2> QED BY <1>4, <1>6, <2>1
<1>8. \A k \in Readable' : k \in 1 .. n
  BY <1>3 DEF Readable
<1>9. from \in [DOMAIN lines' -> Readable]
  BY <1>2, <1>3
<1> QED BY <1>1, <1>3, <1>4, <1>5, <1>7, <1>8, <1>9

-----------------------------------------------------------------------------
(* Types.                                                                  *)

LEMMA TypeInit == Init => TypeOK
<1> SUFFICES ASSUME Init PROVE TypeOK
  OBVIOUS
<1>1. state \in State /\ stateFile \in State
  BY DEF Init, State
<1>2. snapFile \in Snapshot
  BY DEF Init, Snapshot
<1>3. lines \in Seq(Line)
  BY DEF Init
<1>4. budget \in [crashes : 0 .. MaxCrashes, tears : 0 .. MaxTears]
  BY StoreAssumption DEF Init
<1> QED BY <1>1, <1>2, <1>3, <1>4 DEF Init, TypeOK, Line

LEMMA TypeStep ==
    ASSUME TypeOK, LogAscends, [Next]_vars
    PROVE  TypeOK'
<1>0. /\ state \in State /\ stateFile \in State /\ snapFile \in Snapshot /\ known \subseteq Event
      /\ lines \in Seq(Line) /\ torn \in BOOLEAN
      /\ budget \in [crashes : 0 .. MaxCrashes, tears : 0 .. MaxTears]
  BY DEF TypeOK, Line
<1>1. ASSUME NEW t \in 1 .. MaxTerm, setState(t)
      PROVE  TypeOK'
  <2>1. state' \in State
    BY <1>0, <1>1 DEF setState, State
  <2> QED BY <1>0, <1>1, <2>1 DEF setState, TypeOK, Line
<1>2. ASSUME NEW e \in Event \cup {NoEvent}, appendEntry(e)
      PROVE  TypeOK'
  <2>1. lines' \in Seq(Line)
    BY <1>2, Appended
  <2>2. state' \in State
    <3>1. NextIndex \in Nat /\ state.term \in Nat
      BY <1>0 DEF NextIndex, State
    <3>2. state' = [state EXCEPT !.lastIndex = NextIndex, !.lastTerm = state.term]
      BY <1>2 DEF appendEntry
    <3> QED BY <1>0, <3>1, <3>2 DEF State
  <2>3. known' \subseteq Event
    BY <1>0, <1>2 DEF appendEntry
  <2> QED BY <1>0, <1>2, <2>1, <2>2, <2>3 DEF appendEntry, TypeOK, Line
<1>3. CASE persistState
  BY <1>0, <1>3 DEF persistState, TypeOK, Line
<1>4. CASE createSnapshot
  <2>1. SnapshotNow \in Snapshot
    BY <1>0 DEF SnapshotNow, Snapshot, State
  <2> QED BY <1>0, <1>4, <2>1 DEF createSnapshot, TypeOK, Line
<1>5. CASE compactLog
  BY <1>0, <1>5, Compacted DEF compactLog, TypeOK, Line
<1>6. CASE Crash
  <2>1. budget' \in [crashes : 0 .. MaxCrashes, tears : 0 .. MaxTears]
    BY <1>0, <1>6, StoreAssumption DEF Crash, Die
  <2> QED BY <1>0, <1>6, <2>1 DEF Crash, Die, TypeOK, Line
<1>7. CASE TornAppend
  <2>1. budget' \in [crashes : 0 .. MaxCrashes, tears : 0 .. MaxTears]
    BY <1>0, <1>7, StoreAssumption DEF TornAppend
  <2> QED BY <1>0, <1>7, <2>1 DEF TornAppend, TypeOK, Line
<1>8. CASE Restart
  <2>1. Remembered \subseteq Event
    BY <1>0, LinesType, LoggedMeans DEF Remembered, Snapshot
  <2> QED BY <1>0, <1>8, <2>1, LoadedType DEF Restart, TypeOK, Line
<1>9. CASE UNCHANGED vars
  BY <1>9 DEF vars, TypeOK
<1> QED BY <1>1, <1>2, <1>3, <1>4, <1>5, <1>6, <1>7, <1>8, <1>9
     DEF Next, AppendOther, appendClusterEvents, Unlogged
-----------------------------------------------------------------------------
(* What the files hold after an append and after a compaction.             *)

LEMMA AppendedIds ==
    ASSUME TypeOK, NEW e \in Event \cup {NoEvent}, appendEntry(e)
    PROVE  /\ LoggedIds \subseteq LoggedIds'
           /\ LoggedIds' \subseteq LoggedIds \cup ({e} \ {NoEvent})
           /\ ~torn => {e} \ {NoEvent} \subseteq LoggedIds'
<1> DEFINE entry == [index |-> NextIndex, term |-> state.term, event |-> e]
<1>1. /\ \A i \in Readable : i \in Readable' /\ lines'[i] = lines[i]
      /\ \A i \in Readable' : i \in Readable \/ lines'[i] = entry
      /\ ~torn => \E i \in Readable' : lines'[i] = entry
  BY Appended
<1>2. entry.event = e
  OBVIOUS
<1> HIDE DEF entry
<1> QED BY <1>1, <1>2, LoggedMeans, LoggedMeansNext

LEMMA CompactedIds ==
    ASSUME TypeOK, DroppedIsCovered, compactLog
    PROVE  Remembered' = Remembered
<1>1. /\ snapFile' = snapFile
      /\ \A k \in Readable' : \E i \in Readable : lines'[k] = lines[i]
      /\ \A i \in Readable : lines[i].index > snapFile.index => \E k \in Readable' : lines'[k] = lines[i]
  BY Compacted DEF compactLog
<1>2. LoggedIds' \subseteq LoggedIds
  BY <1>1, LoggedMeans, LoggedMeansNext
<1>3. ASSUME NEW x \in LoggedIds
      PROVE  x \in snapFile.ids \/ x \in LoggedIds'
  <2>1. PICK i \in Readable : lines[i].event = x
    BY <1>3, LoggedMeans
  <2>2. x # NoEvent
    BY <1>3, LoggedMeans
  <2>3. x \in snapFile.ids \/ lines[i].index > snapFile.index
    BY <2>1, <2>2 DEF DroppedIsCovered
  <2>4. CASE lines[i].index > snapFile.index
    <3>1. PICK k \in Readable' : lines'[k] = lines[i]
      BY <1>1, <2>4
    <3> QED BY <2>1, <2>2, <3>1, LoggedMeansNext
  <2> QED BY <2>3, <2>4
<1> QED BY <1>1, <1>2, <1>3 DEF Remembered

-----------------------------------------------------------------------------
(* The inductive invariant, one part after another.                        *)

\* The state in memory is never behind a file.
OrderInv ==
    /\ Alive => snapFile.index <= state.lastIndex /\ stateFile.lastIndex <= state.lastIndex
    /\ LogAscends

LEMMA OrderStep ==
    ASSUME TypeOK, OrderInv, [Next]_vars
    PROVE  OrderInv'
<1>0. /\ state.lastIndex \in Nat /\ state.term \in Nat /\ stateFile.lastIndex \in Nat
      /\ snapFile.index \in Nat /\ state \in State
  BY DEF TypeOK, State, Snapshot
<1>1. ASSUME NEW t \in 1 .. MaxTerm, setState(t)
      PROVE  OrderInv'
  <2>1. state'.lastIndex = state.lastIndex /\ stateFile'.lastIndex = state.lastIndex
    BY <1>0, <1>1 DEF setState, State
  <2> QED BY <1>0, <1>1, <2>1, SameLines DEF setState, OrderInv, LogAscends, Alive
<1>2. ASSUME NEW e \in Event \cup {NoEvent}, appendEntry(e)
      PROVE  OrderInv'
  <2> DEFINE entry == [index |-> NextIndex, term |-> state.term, event |-> e]
  <2>1. /\ \A i \in Readable : i \in Readable' /\ lines'[i] = lines[i]
        /\ \A i \in Readable' : i \in Readable \/ (lines'[i] = entry /\ \A j \in Readable : j < i)
        /\ \A i, j \in Readable' : i \notin Readable /\ j \notin Readable => i = j
    BY <1>2, Appended
  <2>2. entry.index = state.lastIndex + 1
    BY DEF NextIndex
  <2> HIDE DEF entry
  <2>3. Alive /\ state'.lastIndex = state.lastIndex + 1 /\ UNCHANGED <<snapFile, stateFile>>
    BY <1>0, <1>2 DEF appendEntry, Alive, NextIndex, State
  <2>4. \A i \in Readable : i \in Nat /\ lines[i].index \in Nat /\ lines[i].index <= state.lastIndex
    BY <2>3, LinesType DEF OrderInv, LogAscends, Alive
  <2>5. \A i \in Readable' : lines'[i].index <= state'.lastIndex
    BY <1>0, <2>1, <2>2, <2>3, <2>4
  <2>6. ASSUME NEW i \in Readable', NEW j \in Readable', i < j
        PROVE  lines'[i].index < lines'[j].index
    <3>1. CASE i \in Readable /\ j \in Readable
      BY <2>1, <2>6, <3>1 DEF OrderInv, LogAscends
    <3>2. CASE i \in Readable /\ j \notin Readable
      BY <1>0, <2>1, <2>2, <2>4, <3>2
    <3>3. CASE i \notin Readable /\ j \in Readable
      <4>1. j < i /\ j \in Nat
        BY <2>1, <2>4, <3>3
      <4>2. i \in Nat
        BY <1>2, Appended DEF Readable
      <4> QED BY <2>6, <4>1, <4>2
    <3>4. CASE i \notin Readable /\ j \notin Readable
      <4>1. i = j
        BY <2>1, <3>4
      <4>2. i \in Nat
        BY <1>2, Appended DEF Readable
      <4> QED BY <2>6, <4>1, <4>2
    <3> QED BY <3>1, <3>2, <3>3, <3>4
  <2> QED BY <1>0, <2>3, <2>5, <2>6 DEF OrderInv, LogAscends, Alive
<1>3. CASE persistState
  BY <1>0, <1>3, SameLines DEF persistState, OrderInv, LogAscends, Alive
<1>4. CASE createSnapshot
  BY <1>0, <1>4, SameLines DEF createSnapshot, SnapshotNow, OrderInv, LogAscends, Alive
<1>5. CASE compactLog
  <2>1. PICK from \in [DOMAIN lines' -> Readable] :
          /\ \A k \in DOMAIN lines' : lines'[k] = lines[from[k]]
          /\ \A j, k \in DOMAIN lines' : j < k => from[j] < from[k]
    BY <1>5, Compacted
  <2>2. Readable' \subseteq DOMAIN lines'
    BY DEF Readable
  <2>3. \A i, j \in Readable' : i < j => lines'[i].index < lines'[j].index
    BY <2>1, <2>2 DEF OrderInv, LogAscends
  <2>4. Alive /\ UNCHANGED <<state, stateFile, snapFile>>
    BY <1>5 DEF compactLog, Alive
  <2>5. \A i \in Readable' : lines'[i].index <= state'.lastIndex
    BY <2>1, <2>2, <2>4 DEF OrderInv, LogAscends, Alive
  <2> QED BY <2>3, <2>4, <2>5 DEF OrderInv, LogAscends, Alive
<1>6. CASE Crash
  BY <1>6, SameLines DEF Crash, Die, OrderInv, LogAscends, Alive
<1>7. CASE TornAppend
  BY <1>7, SameLines DEF TornAppend, OrderInv, LogAscends, Alive
<1>8. CASE Restart
  <2>1. state' = Loaded /\ stateFile' = Loaded /\ lines' = lines /\ snapFile' = snapFile
    BY <1>8 DEF Restart
  <2>2. /\ Loaded.lastIndex \in Nat /\ snapFile.index <= Loaded.lastIndex
        /\ \A i \in Readable : lines[i].index <= Loaded.lastIndex
    BY LoadedType DEF OrderInv, State
  <2> QED BY <2>1, <2>2, SameLines DEF OrderInv, LogAscends, Alive
<1>9. CASE UNCHANGED vars
  BY <1>9, SameLines DEF vars, OrderInv, LogAscends, Alive
<1> QED BY <1>1, <1>2, <1>3, <1>4, <1>5, <1>6, <1>7, <1>8, <1>9
     DEF Next, AppendOther, appendClusterEvents, Unlogged

-----------------------------------------------------------------------------
\* No line is of a later term than the memory, and up to the index of a file, not than it.
TermInv ==
    /\ stateFile.term = state.term
    /\ state.lastTerm <= state.term /\ stateFile.lastTerm <= state.term /\ snapFile.term <= state.term
    /\ \A i \in Readable :
          /\ lines[i].term <= state.term
          /\ Alive => lines[i].term <= state.lastTerm
          /\ lines[i].index <= stateFile.lastIndex => lines[i].term <= stateFile.lastTerm
          /\ lines[i].index <= snapFile.index => lines[i].term <= snapFile.term
    /\ \A i, j \in Readable : i < j => lines[i].term <= lines[j].term

LEMMA TermStep ==
    ASSUME TypeOK, OrderInv, TermInv, [Next]_vars
    PROVE  TermInv'
<1>0. /\ state \in State /\ state.lastIndex \in Nat /\ state.term \in Nat /\ state.lastTerm \in Nat
      /\ stateFile.lastIndex \in Nat /\ stateFile.term \in Nat /\ stateFile.lastTerm \in Nat
      /\ snapFile.index \in Nat /\ snapFile.term \in Nat
      /\ \A i \in Readable : i \in Nat /\ lines[i].index \in Nat /\ lines[i].term \in Nat
  BY LinesType DEF TypeOK, State, Snapshot
<1>1. ASSUME NEW t \in 1 .. MaxTerm, setState(t)
      PROVE  TermInv'
  <2>1. /\ state'.lastTerm = state.lastTerm /\ state'.term = t /\ stateFile' = state' /\ t > state.term
        /\ state'.lastIndex = state.lastIndex /\ lines' = lines /\ snapFile' = snapFile /\ step' = step /\ Alive
    BY <1>0, <1>1 DEF setState, State, Alive
  <2>2. Readable' = Readable
    BY <2>1, SameLines
  <2> QED BY <1>0, <2>1, <2>2 DEF TermInv, Alive
<1>2. ASSUME NEW e \in Event \cup {NoEvent}, appendEntry(e)
      PROVE  TermInv'
  <2> DEFINE entry == [index |-> NextIndex, term |-> state.term, event |-> e]
  <2>1. /\ \A i \in Readable : i \in Readable' /\ lines'[i] = lines[i]
        /\ \A i \in Readable' : i \in Readable \/ (lines'[i] = entry /\ \A j \in Readable : j < i)
        /\ \A i, j \in Readable' : i \notin Readable /\ j \notin Readable => i = j
    BY <1>2, Appended
  <2>0. \A i \in Readable' : i \in Nat
    BY <1>2, Appended DEF Readable
  <2>2. entry.index = state.lastIndex + 1 /\ entry.term = state.term
    BY DEF NextIndex
  <2> HIDE DEF entry
  <2>3. /\ Alive /\ Alive' /\ UNCHANGED <<snapFile, stateFile>>
        /\ state'.lastTerm = state.term /\ state'.term = state.term
    BY <1>0, <1>2 DEF appendEntry, Alive, NextIndex, State
  <2>4. snapFile.index <= state.lastIndex /\ stateFile.lastIndex <= state.lastIndex
    BY <2>3 DEF OrderInv
  <2>5. ASSUME NEW i \in Readable'
        PROVE  /\ lines'[i].term <= state'.term /\ lines'[i].term <= state'.lastTerm
               /\ lines'[i].index <= stateFile'.lastIndex => lines'[i].term <= stateFile'.lastTerm
               /\ lines'[i].index <= snapFile'.index => lines'[i].term <= snapFile'.term
    <3>1. CASE i \in Readable
      BY <1>0, <2>1, <2>3, <3>1 DEF TermInv
    <3>2. CASE i \notin Readable
      BY <1>0, <2>1, <2>2, <2>3, <2>4, <3>2
    <3> QED BY <3>1, <3>2
  <2>6. ASSUME NEW i \in Readable', NEW j \in Readable', i < j
        PROVE  lines'[i].term <= lines'[j].term
    <3>1. CASE i \in Readable /\ j \in Readable
      BY <2>1, <2>6, <3>1 DEF TermInv
    <3>2. CASE i \in Readable /\ j \notin Readable
      BY <1>0, <2>1, <2>2, <3>2 DEF TermInv
    <3>3. CASE i \notin Readable /\ j \in Readable
      BY <2>0, <2>1, <2>6, <3>3
    <3>4. CASE i \notin Readable /\ j \notin Readable
      BY <2>0, <2>1, <2>6, <3>4
    <3> QED BY <3>1, <3>2, <3>3, <3>4
  <2>7. /\ stateFile'.term = state'.term /\ state'.lastTerm <= state'.term
        /\ stateFile'.lastTerm <= state'.term /\ snapFile'.term <= state'.term
    BY <1>0, <2>3 DEF TermInv
  <2> QED BY <2>5, <2>6, <2>7 DEF TermInv
<1>3. CASE persistState
  <2>1. /\ Alive /\ Alive' /\ stateFile' = state /\ state' = state /\ snapFile' = snapFile /\ lines' = lines
    BY <1>3 DEF persistState, Alive
  <2>2. Readable' = Readable
    BY <2>1, SameLines
  <2> QED BY <1>0, <2>1, <2>2 DEF TermInv
<1>4. CASE createSnapshot
  <2>1. /\ Alive /\ Alive' /\ UNCHANGED <<state, stateFile, lines>>
        /\ snapFile'.index = state.lastIndex /\ snapFile'.term = state.lastTerm
    BY <1>4 DEF createSnapshot, SnapshotNow, Alive
  <2>2. Readable' = Readable
    BY <2>1, SameLines
  <2> QED BY <1>0, <2>1, <2>2 DEF TermInv
<1>5. CASE compactLog
  <2>1. PICK from \in [DOMAIN lines' -> Readable] :
          /\ \A k \in DOMAIN lines' : lines'[k] = lines[from[k]]
          /\ \A j, k \in DOMAIN lines' : j < k => from[j] < from[k]
    BY <1>5, Compacted
  <2>2. Readable' \subseteq DOMAIN lines'
    BY DEF Readable
  <2>3. Alive /\ Alive' /\ UNCHANGED <<state, stateFile, snapFile>>
    BY <1>5 DEF compactLog, Alive
  <2>4. \A k \in Readable' : from[k] \in Readable /\ lines'[k] = lines[from[k]]
    BY <2>1, <2>2
  <2>5. \A i, j \in Readable' : i < j => lines'[i].term <= lines'[j].term
    BY <2>1, <2>2, <2>4 DEF TermInv
  <2> QED BY <2>3, <2>4, <2>5 DEF TermInv
<1>6. CASE Crash
  <2>1. Readable' = Readable /\ UNCHANGED <<state, stateFile, lines, snapFile>> /\ ~Alive'
    BY <1>6, SameLines DEF Crash, Die, Alive
  <2> QED BY <2>1 DEF TermInv
<1>7. CASE TornAppend
  <2>1. Readable' = Readable /\ UNCHANGED <<state, stateFile, lines, snapFile>> /\ ~Alive'
    BY <1>7, SameLines DEF TornAppend, Alive
  <2> QED BY <2>1 DEF TermInv
<1>8. CASE Restart
  <2>1. state' = Loaded /\ stateFile' = Loaded /\ lines' = lines /\ snapFile' = snapFile
    BY <1>8 DEF Restart
  <2>2. Readable' = Readable
    BY <2>1, SameLines
  <2>3. /\ Loaded \in State /\ Loaded.term = stateFile.term
        /\ stateFile.lastTerm <= Loaded.lastTerm /\ snapFile.term <= Loaded.lastTerm
        /\ \/ Loaded.lastTerm \in {stateFile.lastTerm, snapFile.term}
           \/ \E i \in Readable : Loaded.lastTerm = lines[i].term
        /\ \A i \in Readable : \/ lines[i].index <= stateFile.lastIndex
                               \/ lines[i].index <= snapFile.index
                               \/ \E j \in Readable : i <= j /\ lines[j].term <= Loaded.lastTerm
    BY LoadedType DEF OrderInv
  <2>4. Loaded.lastTerm \in Nat /\ Loaded.term = state.term
    BY <2>3 DEF State, TermInv
  <2>5. Loaded.lastTerm <= state.term
    BY <2>3 DEF TermInv
  <2>6. ASSUME NEW i \in Readable
        PROVE  lines[i].term <= Loaded.lastTerm
    <3>1. CASE lines[i].index <= stateFile.lastIndex \/ lines[i].index <= snapFile.index
      BY <1>0, <2>3, <2>4, <3>1 DEF TermInv
    <3>2. ASSUME NEW j \in Readable, i <= j, lines[j].term <= Loaded.lastTerm
          PROVE  lines[i].term <= Loaded.lastTerm
      BY <1>0, <2>4, <3>2 DEF TermInv
    <3> QED BY <2>3, <3>1, <3>2
  <2>7. \A i \in Readable : /\ lines[i].term <= state.term
                            /\ lines[i].index <= snapFile.index => lines[i].term <= snapFile.term
    BY DEF TermInv
  <2>8. \A i, j \in Readable : i < j => lines[i].term <= lines[j].term
    BY DEF TermInv
  <2>9. snapFile.term <= state.term
    BY DEF TermInv
  <2> QED BY <2>1, <2>2, <2>4, <2>5, <2>6, <2>7, <2>8, <2>9 DEF TermInv
<1>9. CASE UNCHANGED vars
  BY <1>9, SameLines DEF vars, TermInv, Alive
<1> QED BY <1>1, <1>2, <1>3, <1>4, <1>5, <1>6, <1>7, <1>8, <1>9
     DEF Next, AppendOther, appendClusterEvents, Unlogged

-----------------------------------------------------------------------------
\* The events in the files are known, each is logged once, and beyond the snapshot unless
\* the snapshot names it.
EventInv ==
    /\ Remembered \subseteq known
    /\ OncePerEvent
    /\ DroppedIsCovered

LEMMA EventStep ==
    ASSUME TypeOK, OrderInv, EventInv, [Next]_vars
    PROVE  EventInv'
<1>0. /\ state.lastIndex \in Nat /\ snapFile.index \in Nat
      /\ \A i \in Readable : i \in Nat /\ lines[i].index \in Nat
  BY LinesType DEF TypeOK, State, Snapshot
<1>1. ASSUME UNCHANGED <<known, lines, snapFile>>
      PROVE  EventInv'
  <2>1. Readable' = Readable /\ LoggedIds' = LoggedIds
    BY <1>1, SameLines
  <2> QED BY <1>1, <2>1 DEF EventInv, Remembered, OncePerEvent, DroppedIsCovered
<1>2. ASSUME NEW e \in Event \cup {NoEvent}, appendEntry(e), e \notin known
      PROVE  EventInv'
  <2> DEFINE entry == [index |-> NextIndex, term |-> state.term, event |-> e]
  <2>1. /\ \A i \in Readable : i \in Readable' /\ lines'[i] = lines[i]
        /\ \A i \in Readable' : i \in Readable \/ lines'[i] = entry
        /\ \A i, j \in Readable' : i \notin Readable /\ j \notin Readable => i = j
    BY <1>2, Appended
  <2>2. entry.index = state.lastIndex + 1 /\ entry.event = e
    BY DEF NextIndex
  <2> HIDE DEF entry
  <2>3. Alive /\ snapFile' = snapFile /\ known' = known \cup ({e} \ {NoEvent})
    BY <1>2 DEF appendEntry, Alive
  <2>4. Remembered' \subseteq known'
    BY <1>2, <2>3, AppendedIds DEF EventInv, Remembered
  <2>5. e = NoEvent \/ \A i \in Readable : lines[i].event # e
    BY <1>2, LoggedMeans DEF EventInv, Remembered
  <2>6. ASSUME NEW i \in Readable', NEW j \in Readable',
               lines'[i].event = lines'[j].event, lines'[i].event # NoEvent
        PROVE  i = j
    <3>1. CASE i \in Readable /\ j \in Readable
      BY <2>1, <2>6, <3>1 DEF EventInv, OncePerEvent
    <3>2. CASE i \in Readable /\ j \notin Readable
      BY <2>1, <2>2, <2>5, <2>6, <3>2
    <3>3. CASE i \notin Readable /\ j \in Readable
      BY <2>1, <2>2, <2>5, <2>6, <3>3
    <3>4. CASE i \notin Readable /\ j \notin Readable
      BY <2>1, <3>4
    <3> QED BY <3>1, <3>2, <3>3, <3>4
  <2>7. ASSUME NEW i \in Readable'
        PROVE  lines'[i].event \in snapFile'.ids \cup {NoEvent} \/ lines'[i].index > snapFile'.index
    <3>1. CASE i \in Readable
      BY <2>1, <2>3, <3>1 DEF EventInv, DroppedIsCovered
    <3>2. CASE i \notin Readable
      <4>1. snapFile.index <= state.lastIndex
        BY <2>3 DEF OrderInv
      <4> QED BY <1>0, <2>1, <2>2, <2>3, <3>2, <4>1
    <3> QED BY <3>1, <3>2
  <2> QED BY <2>4, <2>6, <2>7 DEF EventInv, OncePerEvent, DroppedIsCovered
<1>3. NoEvent \notin known
  BY StoreAssumption DEF TypeOK
<1>4. CASE createSnapshot
  <2>1. snapFile'.ids = known /\ known' = known /\ lines' = lines
    BY <1>4 DEF createSnapshot, SnapshotNow
  <2>2. Readable' = Readable /\ LoggedIds' = LoggedIds
    BY <2>1, SameLines
  <2>3. \A i \in Readable : lines[i].event \in known \cup {NoEvent}
    BY LoggedMeans DEF EventInv, Remembered
  <2> QED BY <2>1, <2>2, <2>3 DEF EventInv, Remembered, OncePerEvent, DroppedIsCovered
<1>5. CASE compactLog
  <2>1. PICK from \in [DOMAIN lines' -> Readable] :
          /\ \A k \in DOMAIN lines' : lines'[k] = lines[from[k]]
          /\ \A j, k \in DOMAIN lines' : j < k => from[j] < from[k]
    BY <1>5, Compacted
  <2>2. /\ known' = known /\ snapFile' = snapFile
        /\ Readable' \subseteq DOMAIN lines' /\ \A k \in Readable' : k \in Nat
    BY <1>5, Compacted DEF compactLog, Readable
  <2>3. \A k \in Readable' : from[k] \in Readable /\ lines'[k] = lines[from[k]]
    BY <2>1, <2>2
  <2>4. ASSUME NEW i \in Readable', NEW j \in Readable',
               lines'[i].event = lines'[j].event, lines'[i].event # NoEvent
        PROVE  i = j
    <3>1. from[i] = from[j]
      BY <2>3, <2>4 DEF EventInv, OncePerEvent
    <3>2. ~(i < j) /\ ~(j < i)
      BY <1>0, <2>1, <2>2, <2>3, <3>1
    <3> QED BY <2>2, <3>2
  <2>5. Remembered' \subseteq known'
    BY <1>5, <2>2, CompactedIds DEF EventInv
  <2>6. DroppedIsCovered'
    BY <2>2, <2>3 DEF EventInv, DroppedIsCovered
  <2> QED BY <2>4, <2>5, <2>6 DEF EventInv, OncePerEvent
<1>6. CASE Restart
  <2>1. known' = Remembered /\ lines' = lines /\ snapFile' = snapFile
    BY <1>6 DEF Restart
  <2>2. Readable' = Readable /\ LoggedIds' = LoggedIds
    BY <2>1, SameLines
  <2> QED BY <2>1, <2>2 DEF EventInv, Remembered, OncePerEvent, DroppedIsCovered
<1>7. ASSUME NEW t \in 1 .. MaxTerm, setState(t)
      PROVE  UNCHANGED <<known, lines, snapFile>>
  BY <1>7 DEF setState
<1>8. persistState \/ Crash \/ TornAppend \/ UNCHANGED vars => UNCHANGED <<known, lines, snapFile>>
  BY DEF persistState, Crash, Die, TornAppend, vars
<1>9. AppendOther => EventInv'
  BY <1>2, <1>3 DEF AppendOther
<1>10. appendClusterEvents => EventInv'
  BY <1>2 DEF appendClusterEvents, Unlogged
<1> QED BY <1>1, <1>4, <1>5, <1>6, <1>7, <1>8, <1>9, <1>10 DEF Next

-----------------------------------------------------------------------------
\* What is known and in no file: each such event was the end of a torn line.
Lost == known \ Remembered

LostInv == IsFiniteSet(Lost) /\ Cardinality(Lost) + (IF torn THEN 1 ELSE 0) <= budget.tears

LEMMA FewerLost ==
    ASSUME IsFiniteSet(Lost), Lost' \subseteq Lost
    PROVE  /\ IsFiniteSet(Lost') /\ Cardinality(Lost') \in Nat /\ Cardinality(Lost) \in Nat
           /\ Cardinality(Lost') <= Cardinality(Lost)
BY FS_Subset, FS_CardinalityType

LEMMA LostStep ==
    ASSUME TypeOK, OrderInv, EventInv, LostInv, [Next]_vars
    PROVE  LostInv'
<1>0. torn \in BOOLEAN /\ budget.tears \in Nat /\ budget.crashes \in Nat
  BY StoreAssumption DEF TypeOK
<1>1. IsFiniteSet(Lost) /\ Cardinality(Lost) \in Nat
  BY FS_CardinalityType DEF LostInv
<1>2. ASSUME Lost' \subseteq Lost, torn' \in BOOLEAN, torn' => torn, budget' = budget
      PROVE  LostInv'
  <2>1. /\ IsFiniteSet(Lost') /\ Cardinality(Lost') \in Nat
        /\ Cardinality(Lost') <= Cardinality(Lost)
    BY <1>1, <1>2, FewerLost
  <2> QED BY <1>0, <1>1, <1>2, <2>1 DEF LostInv
<1>3. ASSUME UNCHANGED <<known, lines, snapFile>>
      PROVE  Lost' = Lost
  BY <1>3, SameLines DEF Lost, Remembered
<1>4. ASSUME NEW t \in 1 .. MaxTerm, setState(t)
      PROVE  LostInv'
  BY <1>0, <1>2, <1>3, <1>4 DEF setState
<1>5. ASSUME NEW e \in Event \cup {NoEvent}, appendEntry(e)
      PROVE  LostInv'
  <2>1. /\ LoggedIds \subseteq LoggedIds'
        /\ ~torn => {e} \ {NoEvent} \subseteq LoggedIds'
        /\ known' = known \cup ({e} \ {NoEvent}) /\ UNCHANGED <<snapFile, budget>> /\ torn' = FALSE
    BY <1>5, AppendedIds DEF appendEntry
  <2>2. CASE ~torn
    <3>1. Lost' \subseteq Lost
      BY <2>1, <2>2 DEF Lost, Remembered
    <3> QED BY <1>2, <2>1, <3>1
  <2>3. CASE torn
    <3>1. Lost' \subseteq Lost \cup {e}
      BY <2>1 DEF Lost, Remembered
    <3>2. IsFiniteSet(Lost \cup {e}) /\ Cardinality(Lost \cup {e}) <= Cardinality(Lost) + 1
          /\ Cardinality(Lost \cup {e}) \in Nat
      <4>1. /\ IsFiniteSet(Lost \cup {e})
            /\ Cardinality(Lost \cup {e}) = Cardinality(Lost) \/ Cardinality(Lost \cup {e}) = Cardinality(Lost) + 1
        BY <1>1, FS_AddElement
      <4> QED BY <1>1, <4>1
    <3>3. IsFiniteSet(Lost') /\ Cardinality(Lost') <= Cardinality(Lost \cup {e}) /\ Cardinality(Lost') \in Nat
      BY <3>1, <3>2, FS_Subset, FS_CardinalityType
    <3>4. Cardinality(Lost) + 1 <= budget.tears
      BY <2>3 DEF LostInv
    <3> QED BY <1>0, <1>1, <2>1, <3>2, <3>3, <3>4 DEF LostInv
  <2> QED BY <1>0, <2>2, <2>3
<1>6. CASE persistState
  BY <1>0, <1>2, <1>3, <1>6 DEF persistState
<1>7. CASE createSnapshot
  <2>1. Lost' = {} /\ torn' = torn /\ budget' = budget
    BY <1>7 DEF createSnapshot, SnapshotNow, Lost, Remembered
  <2> QED BY <1>0, <1>2, <2>1
<1>8. CASE compactLog
  <2>1. Lost' = Lost /\ torn' = FALSE /\ budget' = budget
    BY <1>8, CompactedIds DEF compactLog, EventInv, Lost
  <2> QED BY <1>2, <2>1
<1>9. CASE Crash
  <2>1. Lost' = Lost /\ torn' = torn /\ budget' = [budget EXCEPT !.crashes = @ + 1]
    BY <1>3, <1>9 DEF Crash, Die
  <2>2. budget'.tears = budget.tears
    BY <2>1 DEF TypeOK
  <2> QED BY <2>1, <2>2 DEF LostInv
<1>10. CASE TornAppend
  <2>1. Lost' = Lost /\ torn' = TRUE /\ budget'.tears = budget.tears + 1
    BY <1>3, <1>10 DEF TornAppend
  <2> QED BY <1>0, <1>1, <2>1 DEF LostInv
<1>11. CASE Restart
  <2>1. known' = Remembered /\ UNCHANGED <<lines, snapFile, torn, budget>>
    BY <1>11 DEF Restart
  <2>2. Lost' = {}
    BY <2>1, SameLines DEF Lost, Remembered
  <2> QED BY <1>0, <1>2, <2>1, <2>2
<1>12. CASE UNCHANGED vars
  BY <1>0, <1>2, <1>3, <1>12 DEF vars
<1> QED BY <1>4, <1>5, <1>6, <1>7, <1>8, <1>9, <1>10, <1>11, <1>12
     DEF Next, AppendOther, appendClusterEvents, Unlogged

-----------------------------------------------------------------------------
(* The theorems.                                                           *)

IInv == TypeOK /\ OrderInv /\ TermInv /\ EventInv /\ LostInv

LEMMA Invariance == Spec => []IInv
<1>1. Init => IInv
  <2> SUFFICES ASSUME Init PROVE IInv
    OBVIOUS
  <2>1. Readable = {} /\ LoggedIds = {} /\ Remembered = {}
    BY DEF Init, Readable, LoggedIds, IdsOf, Remembered
  <2>2. TypeOK
    BY TypeInit
  <2>3. OrderInv /\ EventInv
    BY <2>1 DEF Init, OrderInv, LogAscends, EventInv, OncePerEvent, DroppedIsCovered
  <2>4. TermInv
    BY <2>1 DEF Init, TermInv
  <2>5. LostInv
    <3>1. Lost = {} /\ torn = FALSE /\ budget.tears = 0
      BY DEF Init, Lost
    <3> QED BY <3>1, FS_EmptySet DEF LostInv
  <2> QED BY <2>2, <2>3, <2>4, <2>5 DEF IInv
<1>2. IInv /\ [Next]_vars => IInv'
  BY TypeStep, OrderStep, TermStep, EventStep, LostStep DEF IInv, OrderInv
<1> QED BY <1>1, <1>2, PTL DEF Spec

\* The state of the store has its type, whatever is written, torn and restarted.
THEOREM TypeCorrect == Spec => []TypeOK
<1>1. IInv => TypeOK
  BY DEF IInv
<1> QED BY <1>1, Invariance, PTL

\* Indices are given once and ascend, and the state of a running process is behind no line
\* (appendEntry(), loadOrCreateState(), compactLog()).
THEOREM Ascending == Spec => []LogAscends
<1>1. IInv => LogAscends
  BY DEF IInv, OrderInv
<1> QED BY <1>1, Invariance, PTL

\* Terms never fall along the log, and none is later than the last term the process knows:
\* the term of a snapshot or of the state file stands for all that they cover.
THEOREM Terms == Spec => []TermsFollowTheLog
<1>1. IInv => TermsFollowTheLog
  BY DEF IInv, TermInv, TermsFollowTheLog, Alive
<1> QED BY <1>1, Invariance, PTL

\* The log names an event at most once (appendClusterEvents(), rebuildFromLog()).
THEOREM LoggedOnce == Spec => []OncePerEvent
<1>1. IInv => OncePerEvent
  BY DEF IInv, EventInv
<1> QED BY <1>1, Invariance, PTL

\* Compaction drops only lines whose events the snapshot names (createSnapshotAndCompact()).
THEOREM Covered == Spec => []DroppedIsCovered
<1>1. IInv => DroppedIsCovered
  BY DEF IInv, EventInv
<1> QED BY <1>1, Invariance, PTL

\* Of the events taken for logged, at most one per torn append is in no file.
THEOREM Durable == Spec => []KnownIsDurable
<1>1. IInv => KnownIsDurable
  <2> SUFFICES ASSUME IInv PROVE KnownIsDurable
    OBVIOUS
  <2>1. /\ Cardinality(Lost) \in Nat /\ torn \in BOOLEAN /\ budget.tears \in Nat
        /\ Cardinality(Lost) + (IF torn THEN 1 ELSE 0) <= budget.tears
    BY FS_CardinalityType, StoreAssumption DEF IInv, LostInv, TypeOK
  <2>2. Cardinality(Lost) <= budget.tears
    BY <2>1
  <2> QED BY <2>2 DEF KnownIsDurable, Lost, Remembered
<1> QED BY <1>1, Invariance, PTL

\* No step takes from the files an id that they held: an append and a snapshot add ids, and a
\* compaction drops lines whose ids are in the snapshot.
THEOREM IdsStay == Spec => IdsAreKept
<1>1. ASSUME IInv, [Next]_vars
      PROVE  [snapFile.ids \cup LoggedIds \subseteq snapFile'.ids \cup LoggedIds']_vars
  <2>1. CASE UNCHANGED <<lines, snapFile>>
    BY <2>1, SameLines
  <2>2. ASSUME NEW e \in Event \cup {NoEvent}, appendEntry(e)
        PROVE  snapFile.ids \cup LoggedIds \subseteq snapFile'.ids \cup LoggedIds'
    <3>1. LoggedIds \subseteq LoggedIds' /\ snapFile' = snapFile
      BY <1>1, <2>2, AppendedIds DEF IInv, appendEntry
    <3> QED BY <3>1
  <2>3. CASE createSnapshot
    <3>1. snapFile'.ids = known /\ Remembered \subseteq known
      BY <1>1, <2>3 DEF createSnapshot, SnapshotNow, IInv, EventInv
    <3> QED BY <3>1 DEF Remembered
  <2>4. CASE compactLog
    BY <1>1, <2>4, CompactedIds DEF IInv, EventInv, Remembered
  <2>5. (\E t \in 1 .. MaxTerm : setState(t)) => UNCHANGED <<lines, snapFile>>
    BY DEF setState
  <2>6. persistState \/ Crash \/ TornAppend \/ Restart \/ UNCHANGED vars => UNCHANGED <<lines, snapFile>>
    BY DEF persistState, Crash, Die, TornAppend, Restart, vars
  <2> QED BY <1>1, <2>1, <2>2, <2>3, <2>4, <2>5, <2>6 DEF Next, AppendOther, appendClusterEvents, Unlogged
<1> QED BY <1>1, Invariance, PTL DEF Spec, IdsAreKept
=============================================================================
