-------------------------- MODULE ReplicationProofs --------------------------
(***************************************************************************)
(* Theorems about Replication, for any number of nodes and rows, any       *)
(* limits, crashes and failing links.                                      *)
(*                                                                         *)
(* While no node has crashed, an id stands for one event and the events of *)
(* a node are stamped in the order of their counters.  So an answer that   *)
(* was cut is cut behind the counters it leaves out, and what is applied   *)
(* of it, after a failed snapshot too, leaves no gap.  With clocks in step *)
(* a new event is the newest of its row, so that rows follow the log.      *)
(***************************************************************************)
EXTENDS Replication, FiniteSetTheorems, WellFoundedInduction, TLAPS

-----------------------------------------------------------------------------
(* Lemmas about numbers and finite sets.                                   *)

\* A bounded set of numbers has a greatest one: the least distance from the bound.
LEMMA GreatestOf ==
    ASSUME NEW b \in Nat, NEW S \in SUBSET (0 .. b), S # {}
    PROVE  Greatest(S) \in S /\ \A y \in S : y <= Greatest(S)
<1> DEFINE T == {k \in Nat : b - k \in S}
<1>1. T \subseteq Nat /\ T # {}
  <2>1. PICK x \in S : TRUE
    OBVIOUS
  <2>2. b - x \in T
    BY <2>1
  <2> QED BY <2>2
<1>2. PICK k \in T : \A j \in T : ~(<<j, k>> \in OpToRel(<, Nat))
  <2> HIDE DEF T
  <2> QED BY <1>1, NatLessThanWellFounded, WFMin
<1>3. \A j \in T : ~(j < k)
  BY <1>2 DEF OpToRel
<1>4. ASSUME NEW y \in S
      PROVE  y <= b - k
  <2>1. b - y \in T
    OBVIOUS
  <2> QED BY <1>3, <2>1
<1>5. \E x \in S : \A y \in S : y <= x
  BY <1>2, <1>4
<1> QED BY <1>5 DEF Greatest

\* The greater of two numbers.
LEMMA GreatestOfTwo ==
    ASSUME NEW a \in Nat, NEW b \in Nat
    PROVE  Greatest({a, b}) \in {a, b} /\ a <= Greatest({a, b}) /\ b <= Greatest({a, b})
<1>1. \E x \in {a, b} : \A y \in {a, b} : y <= x
  OBVIOUS
<1> QED BY <1>1 DEF Greatest

\* Where every element of a finite set counts some of its others, one counts least.
LEMMA LeastCount ==
    ASSUME NEW E, E # {}, NEW rank \in [E -> Nat]
    PROVE  \E e \in E : \A f \in E : rank[e] <= rank[f]
<1> DEFINE T == {rank[e] : e \in E}
<1>1. T \subseteq Nat /\ T # {}
  OBVIOUS
<1>2. PICK k \in T : \A j \in T : ~(<<j, k>> \in OpToRel(<, Nat))
  <2> HIDE DEF T
  <2> QED BY <1>1, NatLessThanWellFounded, WFMin
<1>3. \A j \in T : ~(j < k)
  BY <1>2 DEF OpToRel
<1>4. PICK e \in E : k = rank[e]
  BY <1>2
<1>5. \A f \in E : rank[e] <= rank[f]
  BY <1>3, <1>4
<1> QED BY <1>5

-----------------------------------------------------------------------------
(* The order of versions.                                                  *)

Stamped(a) == a.ts \in Nat /\ a.actor \in Node /\ a.ctr \in Nat

\* Whatever stamps events or versions, compareVersion() orders it strictly, and totally
\* but for those that have time, actor and counter in common.
LEMMA NewerOrders ==
    ASSUME NEW a, NEW b, NEW c, Stamped(a), Stamped(b), Stamped(c)
    PROVE  /\ ~Newer(a, a)
           /\ ~(Newer(a, b) /\ Newer(b, a))
           /\ Newer(a, b) /\ Newer(b, c) => Newer(a, c)
           /\ Newer(a, b) \/ Newer(b, a) \/ (a.ts = b.ts /\ a.actor = b.actor /\ a.ctr = b.ctr)
<1>1. /\ Rank[a.actor] \in Nat /\ Rank[b.actor] \in Nat /\ Rank[c.actor] \in Nat
      /\ Rank[a.actor] = Rank[b.actor] => a.actor = b.actor
  BY NodesAssumption DEF Stamped
<1>2. a.ts \in Nat /\ b.ts \in Nat /\ c.ts \in Nat /\ a.ctr \in Nat /\ b.ctr \in Nat /\ c.ctr \in Nat
  BY DEF Stamped
<1> QED BY <1>1, <1>2 DEF Newer

\* Events and versions are stamped as emitLocalEvent() does it.
LEMMA EventsStamped ==
    /\ \A e \in Event : Stamped(e) /\ Stamped(VersionOf(e)) /\ e.key \in Key /\ e.row \in Row
    /\ \A v \in Version : Stamped(v)
BY DEF Event, Version, Stamped, VersionOf

\* An event compares as its version does.
LEMMA VersionStandsForEvent ==
    ASSUME NEW e, NEW f
    PROVE  /\ Newer(VersionOf(e), VersionOf(f)) <=> Newer(e, f)
           /\ Newer(e, VersionOf(f)) <=> Newer(e, f)
           /\ Newer(VersionOf(e), f) <=> Newer(e, f)
BY DEF VersionOf, Newer

\* No two of the events share a version.
Distinct(E) == \A e, f \in E : VersionOf(e) = VersionOf(f) => e = f

\* An id is an actor and a counter.
LEMMA SameId ==
    ASSUME NEW e, NEW f
    PROVE  Id(e) = Id(f) <=> e.actor = f.actor /\ e.ctr = f.ctr
BY DEF Id

\* A version is an id and a time.
LEMMA SameVersion ==
    ASSUME NEW e, NEW f
    PROVE  VersionOf(e) = VersionOf(f) <=> e.ts = f.ts /\ e.actor = f.actor /\ e.ctr = f.ctr
<1>1. ASSUME VersionOf(e) = VersionOf(f)
      PROVE  e.ts = f.ts /\ e.actor = f.actor /\ e.ctr = f.ctr
  <2>1. VersionOf(e).ts = VersionOf(f).ts /\ VersionOf(e).actor = VersionOf(f).actor
        /\ VersionOf(e).ctr = VersionOf(f).ctr
    BY <1>1
  <2> QED BY <2>1 DEF VersionOf
<1> QED BY <1>1 DEF VersionOf

\* The event that is newer than all others is the newest.
LEMMA NewestIs ==
    ASSUME NEW E \in SUBSET Event, NEW e \in E, \A f \in E \ {e} : Newer(e, f)
    PROVE  Newest(E) = e
<1>1. Newest(E) \in E /\ \A f \in E \ {Newest(E)} : Newer(Newest(E), f)
  BY DEF Newest
<1>2. CASE Newest(E) # e
  BY <1>1, <1>2, NewerOrders, EventsStamped
<1> QED BY <1>2

\* Of finitely many events with versions of their own one is the newest: the one that has the
\* fewest newer ones.
LEMMA NewestOf ==
    ASSUME NEW E \in SUBSET Event, IsFiniteSet(E), E # {}, Distinct(E)
    PROVE  Newest(E) \in E /\ \A f \in E \ {Newest(E)} : Newer(Newest(E), f)
<1> DEFINE Above(e) == {f \in E : Newer(f, e)}
           rank == [e \in E |-> Cardinality(Above(e))]
<1>1. \A e \in E : IsFiniteSet(Above(e)) /\ Cardinality(Above(e)) \in Nat
  BY FS_Subset, FS_CardinalityType
<1>2. rank \in [E -> Nat]
  BY <1>1
<1>3. PICK e \in E : \A f \in E : rank[e] <= rank[f]
  <2> HIDE DEF rank
  <2> QED BY <1>2, LeastCount
<1>4. ASSUME NEW f \in E, Newer(f, e)
      PROVE  FALSE
  <2>1. Above(f) \subseteq Above(e) /\ f \in Above(e) /\ f \notin Above(f)
    BY <1>4, NewerOrders, EventsStamped
  <2>2. Cardinality(Above(f)) <= Cardinality(Above(e)) /\ Cardinality(Above(f)) # Cardinality(Above(e))
    BY <1>1, <2>1, FS_Subset
  <2>3. rank[e] <= rank[f]
    BY <1>3
  <2> QED BY <1>1, <2>2, <2>3
<1>5. \A f \in E \ {e} : Newer(e, f)
  BY <1>4, NewerOrders, EventsStamped, SameVersion DEF Distinct
<1> QED BY <1>5 DEF Newest

\* The first events are those before which there are few: with an event they have those
\* before it.
LEMMA FirstOfIsPrefix ==
    ASSUME NEW E \in SUBSET Event, IsFiniteSet(E), NEW n \in Nat, NEW e \in FirstOf(E, n),
           NEW f \in E, Newer(e, f)
    PROVE  f \in FirstOf(E, n)
<1> DEFINE Below(x) == {g \in E : Newer(x, g)}
<1>1. e \in E /\ Cardinality(Below(e)) < n
  BY DEF FirstOf
<1>2. Below(f) \subseteq Below(e)
  BY <1>1, NewerOrders, EventsStamped
<1>3. IsFiniteSet(Below(e)) /\ Cardinality(Below(e)) \in Nat
  BY FS_Subset, FS_CardinalityType
<1>4. Cardinality(Below(f)) <= Cardinality(Below(e)) /\ Cardinality(Below(f)) \in Nat
  BY <1>2, <1>3, FS_Subset, FS_CardinalityType
<1> QED BY <1>1, <1>3, <1>4 DEF FirstOf

\* What LastOf() leaves out, it leaves out of more than it keeps; it keeps few events whole.
LEMMA LastOfKeeps ==
    ASSUME NEW E \in SUBSET Event, IsFiniteSet(E), NEW n \in Nat
    PROVE  /\ LastOf(E, n) \subseteq E
           /\ Cardinality(E) <= n => LastOf(E, n) = E
           /\ LastOf(E, n) = E \/ Cardinality(LastOf(E, n)) >= n
<1> DEFINE Above(e) == {f \in E : Newer(f, e)}
           Out == E \ LastOf(E, n)
           rank == [e \in Out |-> Cardinality(Above(e))]
<1>1. LastOf(E, n) \subseteq E
  BY DEF LastOf
<1>2. \A e \in E : /\ Above(e) \subseteq E /\ IsFiniteSet(Above(e)) /\ Cardinality(Above(e)) \in Nat
                   /\ e \in LastOf(E, n) <=> Cardinality(Above(e)) < n
  BY FS_Subset, FS_CardinalityType DEF LastOf
<1>3. \A e \in E : e \notin Above(e)
  BY NewerOrders, EventsStamped
<1>4. ASSUME Cardinality(E) <= n, NEW e \in E
      PROVE  e \in LastOf(E, n)
  <2>1. Cardinality(Above(e)) <= Cardinality(E) /\ Cardinality(Above(e)) # Cardinality(E)
    BY <1>2, <1>3, FS_Subset
  <2> QED BY <1>2, <1>4, <2>1, FS_CardinalityType
<1>5. ASSUME Out # {}
      PROVE  Cardinality(LastOf(E, n)) >= n
  <2>1. rank \in [Out -> Nat]
    BY <1>2
  <2>2. PICK e \in Out : \A f \in Out : rank[e] <= rank[f]
    <3> HIDE DEF rank, Out
    <3> QED BY <1>5, <2>1, LeastCount
  <2>3. e \in E /\ Cardinality(Above(e)) >= n
    BY <1>2
  <2>4. ASSUME NEW f \in Above(e)
        PROVE  f \in LastOf(E, n)
    <3>1. Above(f) \subseteq Above(e) /\ f \notin Above(f) /\ f \in E
      BY <2>3, <1>3, NewerOrders, EventsStamped
    <3>2. Cardinality(Above(f)) <= Cardinality(Above(e)) /\ Cardinality(Above(f)) # Cardinality(Above(e))
      BY <1>2, <2>3, <3>1, FS_Subset
    <3>3. f \in Out => Cardinality(Above(e)) <= Cardinality(Above(f))
      BY <2>2
    <3> QED BY <1>2, <2>3, <3>1, <3>2, <3>3
  <2>5. IsFiniteSet(LastOf(E, n)) /\ Cardinality(Above(e)) <= Cardinality(LastOf(E, n))
    BY <1>1, <2>4, FS_Subset
  <2> QED BY <1>1, <1>2, <2>3, <2>5, FS_CardinalityType
<1> QED BY <1>1, <1>4, <1>5

\* Numbers of their own that finitely many elements have, none beyond how many they are, are
\* all the numbers up to there.
LEMMA NumbersOfTheirOwn ==
    ASSUME NEW S, IsFiniteSet(S), NEW number \in [S -> 1 .. Cardinality(S)],
           \A x, y \in S : number[x] = number[y] => x = y
    PROVE  \A c \in 1 .. Cardinality(S) : \E x \in S : number[x] = c
<1> DEFINE T == 1 .. Cardinality(S)
<1>1. Cardinality(S) \in Nat
  BY FS_CardinalityType
<1>2. IsFiniteSet(T) /\ Cardinality(T) = Cardinality(S)
  BY <1>1, FS_Interval
<1>3. number \in Injection(S, T)
  BY DEF Injection, IsInjective
<1>4. number \in Surjection(S, T)
  <2> HIDE DEF T
  <2> QED BY <1>2, <1>3, FS_Injection
<1> QED BY <1>4 DEF Surjection

-----------------------------------------------------------------------------
(* What the operations on a database do to it.                             *)

\* The types of what a database holds.
LEMMA DbFields ==
    ASSUME NEW d \in Db
    PROVE  /\ d.row \in [Key -> Row] /\ d.hash \in [Key -> Row]
           /\ d.version \in [Key -> Version \cup {NoVersion}]
           /\ d.log \in SUBSET Event /\ d.counter \in Nat /\ d.snapVector \in Vector
BY DEF Db

\* A vector has the greatest counter of each actor.
LEMMA VectorOfMeans ==
    ASSUME NEW E \in SUBSET Event, \A e \in E : e.ctr \in 1 .. MaxCounter
    PROVE  /\ VectorOf(E) \in Vector
           /\ \A e \in E : e.actor \in Node /\ e.ctr <= VectorOf(E)[e.actor]
           /\ \A a \in Node : VectorOf(E)[a] > 0 =>
                 \E e \in E : e.actor = a /\ e.ctr = VectorOf(E)[a]
<1> DEFINE Counters(a) == {0} \cup {e.ctr : e \in {f \in E : f.actor = a}}
<1>1. \A a \in Node : /\ VectorOf(E)[a] = Greatest(Counters(a))
                      /\ Counters(a) \subseteq 0 .. MaxCounter /\ Counters(a) # {}
  BY LimitsAssumption DEF VectorOf
<1>2. \A a \in Node : /\ VectorOf(E)[a] \in Counters(a)
                      /\ \A y \in Counters(a) : y <= VectorOf(E)[a]
  <2> HIDE DEF Counters
  <2> QED BY <1>1, GreatestOf, LimitsAssumption
<1>3. \A e \in E : e.actor \in Node /\ e.ctr \in Counters(e.actor)
  BY DEF Event
<1>4. VectorOf(E) = [a \in Node |-> VectorOf(E)[a]]
  BY DEF VectorOf
<1>5. \A a \in Node : VectorOf(E)[a] \in Nat
  BY <1>1, <1>2
<1>6. VectorOf(E) \in Vector
  BY <1>4, <1>5 DEF Vector
<1>7. \A a \in Node : VectorOf(E)[a] > 0 => \E e \in E : e.actor = a /\ e.ctr = VectorOf(E)[a]
  BY <1>2
<1> HIDE DEF Counters
<1> QED BY <1>2, <1>3, <1>6, <1>7

\* getVersionVector() is the vector of the log.
LEMMA VectorMeans ==
    ASSUME NEW d \in Db, \A e \in d.log : e.ctr \in 1 .. MaxCounter
    PROVE  /\ getVersionVector(d) \in Vector
           /\ \A e \in d.log : e.actor \in Node /\ e.ctr <= getVersionVector(d)[e.actor]
           /\ \A a \in Node : getVersionVector(d)[a] > 0 =>
                 \E e \in d.log : e.actor = a /\ e.ctr = getVersionVector(d)[a]
BY VectorOfMeans, DbFields DEF getVersionVector

\* What is covered stays covered.
LEMMA Covering ==
    ASSUME covered \in Vector, NEW v \in Vector, Cover(v)
    PROVE  covered' \in Vector /\ \A a \in Node : covered[a] <= covered'[a] /\ v[a] <= covered'[a]
<1>1. \A a \in Node : covered[a] \in Nat /\ v[a] \in Nat /\ covered'[a] = Greatest({covered[a], v[a]})
  BY DEF Cover, Vector
<1>2. ASSUME NEW a \in Node
      PROVE  /\ Greatest({covered[a], v[a]}) \in Nat
             /\ covered[a] <= Greatest({covered[a], v[a]}) /\ v[a] <= Greatest({covered[a], v[a]})
  <2>1. covered[a] \in Nat /\ v[a] \in Nat
    BY <1>1
  <2> QED BY <2>1, GreatestOfTwo
<1>3. \A a \in Node : covered[a] <= covered'[a] /\ v[a] <= covered'[a]
  BY <1>1, <1>2
<1>4. covered' \in Vector
  BY <1>2 DEF Cover, Vector
<1> QED BY <1>3, <1>4

\* The effective vector knows what the log has, or what a snapshot stood for.
LEMMA EffectiveMeans ==
    ASSUME NEW d \in Db, \A e \in d.log : e.ctr \in 1 .. MaxCounter
    PROVE  \A a \in Node : /\ getEffectiveVersionVector(d)[a] \in Nat
                           /\ getEffectiveVersionVector(d)[a] \in {d.snapVector[a], getVersionVector(d)[a]}
                           /\ getVersionVector(d)[a] <= getEffectiveVersionVector(d)[a]
<1>1. \A a \in Node : d.snapVector[a] \in Nat /\ getVersionVector(d)[a] \in Nat
  BY VectorMeans, DbFields DEF Vector
<1>2. \A a \in Node : getEffectiveVersionVector(d)[a] = Greatest({d.snapVector[a], getVersionVector(d)[a]})
  BY DEF getEffectiveVersionVector
<1> QED BY <1>1, <1>2, GreatestOfTwo

-----------------------------------------------------------------------------
\* The events of a scan.
EventOf(d, n, t, k) ==
    [ts |-> t, actor |-> n, ctr |-> incrementAndGetCounter(d, k), key |-> k, row |-> d.row[k]]
NewEvents(d, n, t) == {EventOf(d, n, t, k) : k \in Unscanned(d)}

\* They have the counters that come next, all of them, one each.
LEMMA CountersOfScan ==
    ASSUME NEW d \in Db
    PROVE  /\ IsFiniteSet(Unscanned(d)) /\ Cardinality(Unscanned(d)) \in Nat
           /\ Cardinality(Unscanned(d)) <= Cardinality(Key) /\ Cardinality(Key) \in Nat
           /\ \A k \in Unscanned(d) :
                 incrementAndGetCounter(d, k) \in d.counter + 1 .. d.counter + Cardinality(Unscanned(d))
           /\ \A j, k \in Unscanned(d) : incrementAndGetCounter(d, j) = incrementAndGetCounter(d, k) => j = k
           /\ \A c \in d.counter + 1 .. d.counter + Cardinality(Unscanned(d)) :
                 \E k \in Unscanned(d) : incrementAndGetCounter(d, k) = c
<1> DEFINE U == Unscanned(d)
           Until(k) == {j \in U : NotAfter(d, j, k)}
           number == [k \in U |-> Cardinality(Until(k))]
<1>1. U \subseteq Key /\ IsFiniteSet(U) /\ Cardinality(U) \in Nat /\ Cardinality(U) <= Cardinality(Key)
      /\ Cardinality(Key) \in Nat
  BY RowsAssumption, FS_Subset, FS_CardinalityType DEF Unscanned
<1>2. \A j \in Key : KeyRank[j] \in Nat
  BY RowsAssumption
<1>3. \A j, k \in Key : KeyRank[j] = KeyRank[k] => j = k
  BY RowsAssumption
<1>4. \A k \in Key : NotAfter(d, k, k)
  BY <1>2 DEF NotAfter
<1>5. ASSUME NEW i \in Key, NEW j \in Key, NEW k \in Key, NotAfter(d, i, j), NotAfter(d, j, k)
      PROVE  NotAfter(d, i, k)
  BY <1>2, <1>5 DEF NotAfter
<1>6. ASSUME NEW j \in Key, NEW k \in Key, j # k
      PROVE  /\ NotAfter(d, j, k) \/ NotAfter(d, k, j)
             /\ ~(NotAfter(d, j, k) /\ NotAfter(d, k, j))
  BY <1>2, <1>3, <1>6 DEF NotAfter
<1>7. \A k \in U : /\ IsFiniteSet(Until(k)) /\ Cardinality(Until(k)) \in Nat
                   /\ Cardinality(Until(k)) <= Cardinality(U) /\ Cardinality(Until(k)) # 0
  <2> TAKE k \in U
  <2>1. Until(k) \subseteq U /\ k \in Until(k)
    BY <1>1, <1>4
  <2> HIDE DEF Until, U
  <2> QED BY <1>1, <2>1, FS_Subset, FS_CardinalityType, FS_EmptySet
<1>8. ASSUME NEW j \in U, NEW k \in U, j # k, NotAfter(d, j, k)
      PROVE  Cardinality(Until(j)) # Cardinality(Until(k))
  <2>1. Until(j) \subseteq Until(k) /\ k \in Until(k) /\ k \notin Until(j)
    BY <1>1, <1>4, <1>5, <1>6, <1>8
  <2> HIDE DEF Until, U
  <2> QED BY <1>7, <2>1, FS_Subset
<1>9. \A j, k \in U : number[j] = number[k] => j = k
  <2> SUFFICES ASSUME NEW j \in U, NEW k \in U, j # k PROVE number[j] # number[k]
    OBVIOUS
  <2>1. number[j] = Cardinality(Until(j)) /\ number[k] = Cardinality(Until(k))
    OBVIOUS
  <2>2. NotAfter(d, j, k) \/ NotAfter(d, k, j)
    BY <1>1, <1>6
  <2> HIDE DEF number, Until, U
  <2> QED BY <1>8, <2>1, <2>2
<1>10. number \in [U -> 1 .. Cardinality(U)]
  <2>1. \A k \in U : Cardinality(Until(k)) \in 1 .. Cardinality(U)
    <3> HIDE DEF Until, U
    <3> QED BY <1>1, <1>7
  <2> QED BY <2>1
<1>11. \A c \in 1 .. Cardinality(U) : \E k \in U : number[k] = c
  <2> HIDE DEF number, U
  <2> QED BY <1>1, <1>9, <1>10, NumbersOfTheirOwn
<1>12. \A k \in U : incrementAndGetCounter(d, k) = d.counter + number[k]
  BY DEF incrementAndGetCounter
<1>13. d.counter \in Nat
  BY DbFields
<1>14. \A c \in d.counter + 1 .. d.counter + Cardinality(U) : c - d.counter \in 1 .. Cardinality(U)
  BY <1>1, <1>13
<1>15. \A k \in U : number[k] \in 1 .. Cardinality(U)
  <2> HIDE DEF number, U
  <2> QED BY <1>10
<1>16. \A k \in U : incrementAndGetCounter(d, k) \in d.counter + 1 .. d.counter + Cardinality(U)
  <2> HIDE DEF number, U
  <2> QED BY <1>1, <1>12, <1>13, <1>15
<1>17. \A j, k \in U : incrementAndGetCounter(d, j) = incrementAndGetCounter(d, k) => j = k
  <2> HIDE DEF number, U
  <2> QED BY <1>1, <1>9, <1>12, <1>13, <1>15
<1>18. \A c \in d.counter + 1 .. d.counter + Cardinality(U) : \E k \in U : incrementAndGetCounter(d, k) = c
  <2> HIDE DEF number, U
  <2> TAKE c \in d.counter + 1 .. d.counter + Cardinality(U)
  <2>1. PICK k \in U : number[k] = c - d.counter
    BY <1>11, <1>14
  <2> QED BY <1>1, <1>12, <1>13, <2>1
<1> QED BY <1>1, <1>16, <1>17, <1>18

\* A scan makes events.
LEMMA EventOfType ==
    ASSUME NEW d \in Db, NEW n \in Node, NEW t \in Nat, NEW k \in Unscanned(d)
    PROVE  EventOf(d, n, t, k) \in Event
<1>1. k \in Key
  BY DEF Unscanned
<1>2. d.row[k] \in Row /\ d.counter \in Nat
  BY <1>1, DbFields
<1>3. incrementAndGetCounter(d, k) \in d.counter + 1 .. d.counter + Cardinality(Unscanned(d))
      /\ Cardinality(Unscanned(d)) \in Nat
  BY CountersOfScan
<1>4. incrementAndGetCounter(d, k) \in Nat
  BY <1>2, <1>3
<1> QED BY <1>1, <1>2, <1>4 DEF EventOf, Event

\* scanLocalChanges(): the table as it is, an event for each row that has changed, and its
\* version for the row.
LEMMA Scanned ==
    ASSUME NEW d \in Db, NEW n \in Node, NEW t \in Nat
    PROVE  /\ scanLocalChanges(d, n, t) \in Db
           /\ scanLocalChanges(d, n, t).row = d.row
           /\ scanLocalChanges(d, n, t).hash = d.row
           /\ scanLocalChanges(d, n, t).snapVector = d.snapVector
           /\ scanLocalChanges(d, n, t).counter = d.counter + Cardinality(Unscanned(d))
           /\ scanLocalChanges(d, n, t).log =
                 {e \in d.log : Id(e) \notin {Id(f) : f \in NewEvents(d, n, t)}} \cup NewEvents(d, n, t)
           /\ \A k \in Key : scanLocalChanges(d, n, t).version[k] =
                 IF k \in Unscanned(d) THEN VersionOf(EventOf(d, n, t, k)) ELSE d.version[k]
<1> DEFINE U == Unscanned(d)
           New == NewEvents(d, n, t)
           v == [k \in Key |-> IF k \in U THEN VersionOf(EventOf(d, n, t, k)) ELSE d.version[k]]
           l == {e \in d.log : Id(e) \notin {Id(f) : f \in New}} \cup New
           c == d.counter + Cardinality(U)
<1>1. scanLocalChanges(d, n, t) =
        [d EXCEPT !.hash = d.row, !.version = v, !.log = l, !.counter = c]
  BY DEF scanLocalChanges, NewEvents, EventOf
<1>2. \A k \in U : EventOf(d, n, t, k) \in Event
  BY EventOfType
<1>3. v \in [Key -> Version \cup {NoVersion}]
  <2>1. \A k \in U : VersionOf(EventOf(d, n, t, k)) \in Version
    BY <1>2 DEF VersionOf, Version, Event
  <2> QED BY <2>1, DbFields
<1>4. l \in SUBSET Event
  BY <1>2, DbFields DEF NewEvents
<1>5. c \in Nat
  BY CountersOfScan, DbFields
<1> HIDE DEF v, l, c
<1>6. scanLocalChanges(d, n, t) \in Db
  BY <1>1, <1>3, <1>4, <1>5, DbFields DEF Db
<1>7. /\ scanLocalChanges(d, n, t).row = d.row /\ scanLocalChanges(d, n, t).hash = d.row
      /\ scanLocalChanges(d, n, t).snapVector = d.snapVector /\ scanLocalChanges(d, n, t).counter = c
      /\ scanLocalChanges(d, n, t).log = l /\ scanLocalChanges(d, n, t).version = v
  BY <1>1 DEF Db
<1> QED BY <1>6, <1>7 DEF v, l, c

\* The events of a scan: one per row that has changed, with the next counters.
LEMMA NewEventsAre ==
    ASSUME NEW d \in Db, NEW n \in Node, NEW t \in Nat
    PROVE  /\ NewEvents(d, n, t) \in SUBSET Event /\ IsFiniteSet(NewEvents(d, n, t))
           /\ \A e \in NewEvents(d, n, t) :
                 /\ e.ts = t /\ e.actor = n /\ e.key \in Unscanned(d) /\ e = EventOf(d, n, t, e.key)
                 /\ e.ctr \in d.counter + 1 .. d.counter + Cardinality(Unscanned(d))
           /\ \A e, f \in NewEvents(d, n, t) : e.ctr = f.ctr => e = f
           /\ \A c \in d.counter + 1 .. d.counter + Cardinality(Unscanned(d)) :
                 \E e \in NewEvents(d, n, t) : e.ctr = c
           /\ \A k \in Unscanned(d) : EventOf(d, n, t, k) \in NewEvents(d, n, t)
<1> DEFINE U == Unscanned(d)
           New == NewEvents(d, n, t)
           ev == [k \in U |-> EventOf(d, n, t, k)]
<1>1. \A k \in U : /\ EventOf(d, n, t, k).ts = t /\ EventOf(d, n, t, k).actor = n
                   /\ EventOf(d, n, t, k).key = k /\ EventOf(d, n, t, k).row = d.row[k]
                   /\ EventOf(d, n, t, k).ctr = incrementAndGetCounter(d, k)
  BY DEF EventOf
<1>2. \A k \in U : EventOf(d, n, t, k) \in Event
  BY EventOfType
<1>3. \A e \in New : \E k \in U : e = EventOf(d, n, t, k)
  BY DEF NewEvents
<1>4. \A k \in U : EventOf(d, n, t, k) \in New
  BY DEF NewEvents
<1>5. IsFiniteSet(New)
  <2>1. ev \in [U -> New] /\ \A e \in New : \E k \in U : ev[k] = e
    BY <1>3, <1>4
  <2>2. ev \in Surjection(U, New)
    BY <2>1 DEF Surjection
  <2> HIDE DEF ev, New, U
  <2>3. IsFiniteSet(U)
    BY CountersOfScan DEF U
  <2> QED BY <2>2, <2>3, FS_Surjection
<1> HIDE DEF New, U
<1>6. \A e \in New : /\ e.ts = t /\ e.actor = n /\ e.key \in U /\ e = EventOf(d, n, t, e.key)
                     /\ e.ctr = incrementAndGetCounter(d, e.key)
  BY <1>1, <1>3
<1>7. \A e, f \in New : e.ctr = f.ctr => e = f
  BY <1>6, CountersOfScan DEF U
<1>8. \A c \in d.counter + 1 .. d.counter + Cardinality(U) : \E e \in New : e.ctr = c
  BY <1>1, <1>4, CountersOfScan DEF U
<1>9. \A e \in New : e.ctr \in d.counter + 1 .. d.counter + Cardinality(U)
  BY <1>6, CountersOfScan DEF U
<1>10. New \subseteq Event
  BY <1>2, <1>3
<1> QED BY <1>4, <1>5, <1>6, <1>7, <1>8, <1>9, <1>10 DEF New, U

-----------------------------------------------------------------------------
\* The events of an answer about a row that are new.
FreshOf(d, E, k) == {e \in Fresh(d, E) : e.key = k}
Wins(d, E, k) == FreshOf(d, E, k) # {} /\ shouldApplyEvent(d, Newest(FreshOf(d, E, k)))

\* applyRemoteEvents(): the new events are logged, and of each row the newest of them
\* decides.
LEMMA Applied ==
    ASSUME NEW d \in Db, NEW E \in SUBSET Event, IsFiniteSet(E), Distinct(E)
    PROVE  /\ applyRemoteEvents(d, E) \in Db
           /\ applyRemoteEvents(d, E).log = d.log \cup Fresh(d, E)
           /\ applyRemoteEvents(d, E).counter = d.counter
           /\ applyRemoteEvents(d, E).snapVector = d.snapVector
           /\ \A k \in Key :
                 /\ applyRemoteEvents(d, E).version[k] =
                       IF Wins(d, E, k) THEN VersionOf(Newest(FreshOf(d, E, k))) ELSE d.version[k]
                 /\ applyRemoteEvents(d, E).hash[k] =
                       IF Wins(d, E, k) THEN Newest(FreshOf(d, E, k)).row ELSE d.hash[k]
<1> DEFINE winning == [k \in {j \in Key : Wins(d, E, j)} |-> Newest(FreshOf(d, E, k)).row]
           r == WithRows(d.row, winning)
           h == WithRows(d.hash, winning)
           v == [k \in Key |-> IF Wins(d, E, k) THEN VersionOf(Newest(FreshOf(d, E, k))) ELSE d.version[k]]
           l == d.log \cup Fresh(d, E)
<1>1. applyRemoteEvents(d, E) = [d EXCEPT !.row = r, !.hash = h, !.version = v, !.log = l]
  BY DEF applyRemoteEvents, FreshOf, Wins
<1>2. \A k \in Key : Wins(d, E, k) => Newest(FreshOf(d, E, k)) \in Event
  <2> SUFFICES ASSUME NEW k \in Key, Wins(d, E, k) PROVE Newest(FreshOf(d, E, k)) \in Event
    OBVIOUS
  <2>1. FreshOf(d, E, k) \subseteq E /\ FreshOf(d, E, k) # {}
    BY DEF FreshOf, Fresh, Wins
  <2>2. IsFiniteSet(FreshOf(d, E, k)) /\ Distinct(FreshOf(d, E, k))
    BY <2>1, FS_Subset DEF Distinct
  <2> QED BY <2>1, <2>2, NewestOf
<1>3. \A k \in Key : Wins(d, E, k) => VersionOf(Newest(FreshOf(d, E, k))) \in Version /\ Newest(FreshOf(d, E, k)).row \in Row
  <2>1. \A e \in Event : VersionOf(e) \in Version /\ e.row \in Row
    BY DEF VersionOf, Version, Event
  <2> QED BY <1>2, <2>1
<1>4. /\ \A k \in Key : r[k] = IF Wins(d, E, k) THEN Newest(FreshOf(d, E, k)).row ELSE d.row[k]
      /\ \A k \in Key : h[k] = IF Wins(d, E, k) THEN Newest(FreshOf(d, E, k)).row ELSE d.hash[k]
      /\ r = [k \in Key |-> r[k]] /\ h = [k \in Key |-> h[k]]
  BY DEF WithRows
<1>5. \A k \in Key : r[k] \in Row /\ h[k] \in Row
  <2> HIDE DEF r, h
  <2> QED BY <1>3, <1>4, DbFields
<1>6. r \in [Key -> Row] /\ h \in [Key -> Row]
  <2> HIDE DEF r, h
  <2> QED BY <1>4, <1>5
<1>7. v \in [Key -> Version \cup {NoVersion}]
  BY <1>3, DbFields
<1>8. l \in SUBSET Event
  BY DbFields DEF Fresh
<1>9. \A k \in Key : v[k] = IF Wins(d, E, k) THEN VersionOf(Newest(FreshOf(d, E, k))) ELSE d.version[k]
  OBVIOUS
<1> HIDE DEF r, h, v, l
<1>10. applyRemoteEvents(d, E) \in Db
  BY <1>1, <1>6, <1>7, <1>8, DbFields DEF Db
<1>11. /\ applyRemoteEvents(d, E).version = v /\ applyRemoteEvents(d, E).hash = h
       /\ applyRemoteEvents(d, E).log = l /\ applyRemoteEvents(d, E).counter = d.counter
       /\ applyRemoteEvents(d, E).snapVector = d.snapVector
  BY <1>1 DEF Db
<1> QED BY <1>4, <1>9, <1>10, <1>11 DEF l

Snap == [row : [Key -> Row], vector : Vector]

\* A snapshot has rows and a vector.
LEMMA SnapshotTaken ==
    ASSUME NEW d \in Db, \A e \in d.log : e.ctr \in 1 .. MaxCounter
    PROVE  buildSnapshot(d) \in Snap
BY VectorMeans, DbFields DEF buildSnapshot, Snap

\* applySnapshot() changes rows, and what the vector says besides the log.
LEMMA SnapshotApplied ==
    ASSUME NEW d \in Db, NEW s \in Snap
    PROVE  /\ applySnapshot(d, s) \in Db
           /\ applySnapshot(d, s).hash = d.hash /\ applySnapshot(d, s).version = d.version
           /\ applySnapshot(d, s).log = d.log /\ applySnapshot(d, s).counter = d.counter
           /\ applySnapshot(d, s).snapVector = s.vector
<1> DEFINE r == WithRows(d.row, [k \in {j \in Key : s.row[j] # NoRow} |-> s.row[k]])
<1>1. applySnapshot(d, s) = [d EXCEPT !.row = r, !.snapVector = s.vector]
  BY DEF applySnapshot
<1>2. s.row \in [Key -> Row] /\ s.vector \in Vector
  BY DEF Snap
<1>3. r \in [Key -> Row]
  BY <1>2, DbFields DEF WithRows
<1> HIDE DEF r
<1> QED BY <1>1, <1>2, <1>3, DbFields DEF Db

\* maybeCompact() drops the oldest events, or none.
LEMMA MayBeCompacted ==
    ASSUME NEW d \in Db, IsFiniteSet(d.log), NEW c \in maybeCompact(d)
    PROVE  /\ c \in Db /\ c.row = d.row /\ c.hash = d.hash /\ c.version = d.version
           /\ c.counter = d.counter /\ c.snapVector = d.snapVector /\ c.log \subseteq d.log
           /\ c.log = d.log \/ Cardinality(c.log) >= KeepEvents
<1>1. CASE c = d
  BY <1>1
<1>2. CASE c = pruneClusterEvents(d)
  <2>1. c = [d EXCEPT !.log = LastOf(d.log, KeepEvents)]
    BY <1>2 DEF pruneClusterEvents
  <2>2. /\ LastOf(d.log, KeepEvents) \subseteq d.log
        /\ LastOf(d.log, KeepEvents) = d.log \/ Cardinality(LastOf(d.log, KeepEvents)) >= KeepEvents
    BY DbFields, LastOfKeeps, LimitsAssumption
  <2>3. c \in Db
    BY <2>1, <2>2, DbFields DEF Db
  <2>4. /\ c.row = d.row /\ c.hash = d.hash /\ c.version = d.version
        /\ c.counter = d.counter /\ c.snapVector = d.snapVector /\ c.log = LastOf(d.log, KeepEvents)
    BY <2>1 DEF Db
  <2> QED BY <2>2, <2>3, <2>4
<1> QED BY <1>1, <1>2 DEF maybeCompact

-----------------------------------------------------------------------------
(* Types, and what holds of stamps and counters, crashes or not.           *)

Kept == {d \in Db : IsFiniteSet(d.log) /\ d.counter <= MaxCounter /\ \A e \in d.log : e.ctr \in 1 .. MaxCounter}

\* Every node's sets of events are finite, and their counters have been given.
CountInv ==
    /\ \A n \in Node : db[n] \in Kept /\ disk[n] \in Kept
    /\ \A n \in Node : IsFiniteSet(events[n]) /\ \A e \in events[n] : e.ctr \in 1 .. MaxCounter
    /\ \A n \in Node : IsFiniteSet(delta[n]) /\ \A e \in delta[n] : e.ctr \in 1 .. MaxCounter
    /\ \A n \in Node : phase[n] = "recovering" => source[n] \in Node
    /\ now >= 1

\* The database of a new node.
LEMMA EmptyDbKept == EmptyDb \in Kept
<1>1. /\ EmptyDb.row \in [Key -> Row] /\ EmptyDb.hash \in [Key -> Row]
      /\ EmptyDb.version \in [Key -> Version \cup {NoVersion}]
      /\ EmptyDb.log = {} /\ EmptyDb.counter = 0 /\ EmptyDb.snapVector \in Vector
  BY DEF EmptyDb, Row, Vector, NoVector
<1>2. EmptyDb \in Db
  BY DEF EmptyDb, Db, Row, Vector, NoVector
<1>3. IsFiniteSet({}) /\ 0 <= MaxCounter
  BY FS_EmptySet, LimitsAssumption
<1> QED BY <1>1, <1>2, <1>3 DEF Kept

\* A node starts with nothing.
LEMMA TypeInit == Init => TypeOK /\ CountInv
<1> SUFFICES ASSUME Init PROVE TypeOK /\ CountInv
  OBVIOUS
<1>1. EmptySnapshot \in Snap
  BY DEF EmptySnapshot, Snap, Row, Vector, NoVector
<1>2. NoVector \in Vector
  BY DEF Vector, NoVector
<1>3. EmptyDb \in Db /\ EmptyDb \in Kept
  BY EmptyDbKept DEF Kept
<1>4. disk \in [Node -> Db] /\ db \in [Node -> Db]
  BY <1>3 DEF Init
<1>5. snapshot \in [Node -> Snap] /\ vector \in [Node -> Vector] /\ covered \in Vector
  BY <1>1, <1>2 DEF Init
<1>6. budget \in [writes : 0 .. MaxWrites, crashes : 0 .. MaxCrashes]
  BY LimitsAssumption DEF Init
<1>7. TypeOK
  BY <1>4, <1>5, <1>6 DEF Init, TypeOK, Snap, Phases
<1>8. CountInv
  BY <1>3, FS_EmptySet DEF Init, CountInv
<1> QED BY <1>7, <1>8

\* What the type invariants say of one node.
LEMMA Types ==
    ASSUME TypeOK, CountInv, NEW n \in Node
    PROVE  /\ db[n] \in Db /\ db[n] \in Kept /\ disk[n] \in Db /\ disk[n] \in Kept
           /\ phase[n] \in Phases /\ todo[n] \in SUBSET Node /\ source[n] \in Node \cup {NoNode}
           /\ delta[n] \in SUBSET Event /\ events[n] \in SUBSET Event
           /\ vector[n] \in Vector /\ snapshot[n] \in Snap
           /\ IsFiniteSet(db[n].log) /\ db[n].counter <= MaxCounter /\ \A e \in db[n].log : e.ctr \in 1 .. MaxCounter
           /\ now + Offset[n] \in Nat
BY LimitsAssumption DEF TypeOK, CountInv, Kept, Snap

\* What the operations make of a database keeps these bounds.
LEMMA ScanKept ==
    ASSUME NEW d \in Kept, NEW n \in Node, NEW t \in Nat, d.counter + Cardinality(Key) <= MaxCounter
    PROVE  /\ scanLocalChanges(d, n, t) \in Kept
           /\ \A e \in NewEvents(d, n, t) : e.ctr \in 1 .. MaxCounter
<1>0. d \in Db /\ IsFiniteSet(d.log) /\ d.counter \in Nat /\ \A e \in d.log : e.ctr \in 1 .. MaxCounter
  BY DbFields DEF Kept
<1>1. /\ Cardinality(Unscanned(d)) \in Nat /\ Cardinality(Unscanned(d)) <= Cardinality(Key) /\ Cardinality(Key) \in Nat
      /\ MaxCounter \in Nat
  BY <1>0, CountersOfScan, LimitsAssumption
<1>2. \A e \in NewEvents(d, n, t) : e.ctr \in d.counter + 1 .. d.counter + Cardinality(Unscanned(d))
  BY <1>0, NewEventsAre
<1>3. \A e \in NewEvents(d, n, t) : e.ctr \in 1 .. MaxCounter
  BY <1>0, <1>1, <1>2
<1>4. /\ scanLocalChanges(d, n, t) \in Db
      /\ scanLocalChanges(d, n, t).log \subseteq d.log \cup NewEvents(d, n, t)
      /\ scanLocalChanges(d, n, t).counter = d.counter + Cardinality(Unscanned(d))
  BY <1>0, Scanned
<1>5. IsFiniteSet(scanLocalChanges(d, n, t).log)
  <2>1. IsFiniteSet(NewEvents(d, n, t))
    BY <1>0, NewEventsAre
  <2>2. IsFiniteSet(d.log \cup NewEvents(d, n, t))
    BY <1>0, <2>1, FS_Union
  <2> QED BY <1>4, <2>2, FS_Subset
<1>6. scanLocalChanges(d, n, t).counter <= MaxCounter
  BY <1>0, <1>1, <1>4
<1>7. \A e \in scanLocalChanges(d, n, t).log : e.ctr \in 1 .. MaxCounter
  BY <1>0, <1>3, <1>4
<1> QED BY <1>3, <1>4, <1>5, <1>6, <1>7 DEF Kept

\* Pruning keeps the bounds.
LEMMA CompactKept ==
    ASSUME NEW d \in Kept, NEW c \in maybeCompact(d)
    PROVE  c \in Kept
<1>1. d \in Db /\ IsFiniteSet(d.log) /\ d.counter <= MaxCounter /\ \A e \in d.log : e.ctr \in 1 .. MaxCounter
  BY DEF Kept
<1>2. c \in Db /\ c.counter = d.counter /\ c.log \subseteq d.log
  BY <1>1, MayBeCompacted
<1> QED BY <1>1, <1>2, FS_Subset DEF Kept

\* What refreshCache() puts into the caches.
LEMMA CacheKept ==
    ASSUME NEW d \in Kept
    PROVE  /\ LastOf(d.log, CacheLimit) \in SUBSET Event /\ LastOf(d.log, CacheLimit) \subseteq d.log
           /\ IsFiniteSet(LastOf(d.log, CacheLimit))
           /\ getVersionVector(d) \in Vector
           /\ \A e \in LastOf(d.log, CacheLimit) : e.ctr \in 1 .. MaxCounter
<1>1. d \in Db /\ IsFiniteSet(d.log) /\ \A e \in d.log : e.ctr \in 1 .. MaxCounter
  BY DEF Kept
<1>2. LastOf(d.log, CacheLimit) \subseteq d.log
  BY DEF LastOf
<1> QED BY <1>1, <1>2, FS_Subset, DbFields, VectorMeans

\* What a sync drops at its end is within the vector of it.
LEMMA DroppedIs ==
    ASSUME NEW d \in Kept, NEW E
    PROVE  /\ VectorOf(d.log \ E) \in Vector
           /\ \A e \in d.log \ E : e.ctr <= VectorOf(d.log \ E)[e.actor]
<1>1. d.log \ E \in SUBSET Event /\ \A e \in d.log \ E : e.ctr \in 1 .. MaxCounter
  BY DbFields DEF Kept
<1> QED BY <1>1, VectorOfMeans

\* applyRemoteEvents() keeps the bounds.
LEMMA ApplyKept ==
    ASSUME NEW d \in Kept, NEW E \in SUBSET Event, IsFiniteSet(E), Distinct(E),
           \A e \in E : e.ctr \in 1 .. MaxCounter
    PROVE  applyRemoteEvents(d, E) \in Kept
<1>1. d \in Db /\ IsFiniteSet(d.log) /\ d.counter <= MaxCounter /\ \A e \in d.log : e.ctr \in 1 .. MaxCounter
  BY DEF Kept
<1>2. Fresh(d, E) \subseteq E
  BY DEF Fresh
<1>3. /\ applyRemoteEvents(d, E) \in Db
      /\ applyRemoteEvents(d, E).log = d.log \cup Fresh(d, E)
      /\ applyRemoteEvents(d, E).counter = d.counter
  BY <1>1, Applied
<1>4. IsFiniteSet(d.log \cup Fresh(d, E))
  BY <1>1, <1>2, FS_Subset, FS_Union
<1> QED BY <1>1, <1>2, <1>3, <1>4 DEF Kept

\* applySnapshot() keeps the bounds.
LEMMA SnapshotKept ==
    ASSUME NEW d \in Kept, NEW s \in Snap
    PROVE  applySnapshot(d, s) \in Kept
BY SnapshotApplied DEF Kept

\* The events that a node works with or will find after a crash, and the former of them.
Ever == {e \in Event : \E n \in Node : e \in db[n].log \cup disk[n].log \cup events[n] \cup delta[n]}
All  == {e \in Event : \E n \in Node : e \in db[n].log \cup events[n] \cup delta[n]}

\* Nothing is stamped with a time to come, and so no two scans stamp alike.
StampInv ==
    /\ \A e \in Ever : e.ts >= 1 /\ e.ts < now + Offset[e.actor]
    /\ Distinct(Ever)

\* An answer is a set of events from the cache of the peer.
LEMMA AnswerIs ==
    ASSUME TypeOK, CountInv, StampInv, NEW n \in Node, NEW p \in Node, NEW local
    PROVE  /\ getDeltaFromCache(p, local) \in SUBSET Event
           /\ getDeltaFromCache(p, local) \subseteq events[p]
           /\ IsFiniteSet(getDeltaFromCache(p, local)) /\ Distinct(getDeltaFromCache(p, local))
           /\ \A e \in getDeltaFromCache(p, local) : e.ctr \in 1 .. MaxCounter
<1>1. getDeltaFromCache(p, local) \subseteq events[p]
  BY DEF getDeltaFromCache, FirstOf
<1>2. events[p] \in SUBSET Event /\ IsFiniteSet(events[p]) /\ \A e \in events[p] : e.ctr \in 1 .. MaxCounter
  BY Types DEF CountInv
<1>3. events[p] \subseteq Ever
  BY <1>2 DEF Ever
<1> QED BY <1>1, <1>2, <1>3, FS_Subset DEF StampInv, Distinct

\* So is the one that is kept while a snapshot is requested.
LEMMA DeltaIs ==
    ASSUME TypeOK, CountInv, StampInv, NEW n \in Node
    PROVE  /\ delta[n] \in SUBSET Event /\ IsFiniteSet(delta[n]) /\ Distinct(delta[n])
           /\ \A e \in delta[n] : e.ctr \in 1 .. MaxCounter
<1>1. delta[n] \in SUBSET Event /\ IsFiniteSet(delta[n]) /\ \A e \in delta[n] : e.ctr \in 1 .. MaxCounter
  BY Types DEF CountInv
<1>2. delta[n] \subseteq Ever
  BY <1>1 DEF Ever
<1> QED BY <1>1, <1>2 DEF StampInv, Distinct

\* Every step keeps the types.
LEMMA TypeStep ==
    ASSUME TypeOK, CountInv, StampInv, [Next]_vars
    PROVE  TypeOK' /\ CountInv'
<1>0. /\ disk \in [Node -> Db] /\ db \in [Node -> Db] /\ phase \in [Node -> Phases]
      /\ todo \in [Node -> SUBSET Node] /\ source \in [Node -> Node \cup {NoNode}]
      /\ delta \in [Node -> SUBSET Event] /\ events \in [Node -> SUBSET Event]
      /\ vector \in [Node -> Vector] /\ snapshot \in [Node -> Snap] /\ now \in Nat
      /\ budget \in [writes : 0 .. MaxWrites, crashes : 0 .. MaxCrashes] /\ covered \in Vector
  BY DEF TypeOK, Snap
<1>a. ASSUME disk' \in [Node -> Db], db' \in [Node -> Db], phase' \in [Node -> Phases],
             todo' \in [Node -> SUBSET Node], source' \in [Node -> Node \cup {NoNode}],
             delta' \in [Node -> SUBSET Event], events' \in [Node -> SUBSET Event],
             vector' \in [Node -> Vector], snapshot' \in [Node -> Snap], now' \in Nat,
             budget' \in [writes : 0 .. MaxWrites, crashes : 0 .. MaxCrashes], covered' \in Vector
      PROVE  TypeOK'
  BY <1>a DEF TypeOK, Snap
<1>b. /\ \A n \in Node : db[n] \in Kept /\ disk[n] \in Kept
      /\ \A n \in Node : IsFiniteSet(events[n]) /\ \A e \in events[n] : e.ctr \in 1 .. MaxCounter
      /\ \A n \in Node : IsFiniteSet(delta[n]) /\ \A e \in delta[n] : e.ctr \in 1 .. MaxCounter
      /\ \A n \in Node : phase[n] = "recovering" => source[n] \in Node
      /\ now >= 1
  BY DEF CountInv
<1>c. \A d \in Kept : d \in Db
  BY DEF Kept
<1>1. ASSUME NEW n \in Node, NEW k \in Key, NEW r \in Row, WriteRow(n, k, r)
      PROVE  TypeOK' /\ CountInv'
  <2>1. \A d \in Kept : [d EXCEPT !.row[k] = r] \in Kept
    <3> SUFFICES ASSUME NEW d \in Kept PROVE [d EXCEPT !.row[k] = r] \in Kept
      OBVIOUS
    <3>1. d \in Db /\ [d.row EXCEPT ![k] = r] \in [Key -> Row]
      BY DbFields DEF Kept
    <3>2. [d EXCEPT !.row[k] = r] = [d EXCEPT !.row = [d.row EXCEPT ![k] = r]]
      BY <3>1 DEF Db
    <3>3. [d EXCEPT !.row = [d.row EXCEPT ![k] = r]] \in Db
      BY <3>1 DEF Db
    <3>4. /\ [d EXCEPT !.row = [d.row EXCEPT ![k] = r]].log = d.log
          /\ [d EXCEPT !.row = [d.row EXCEPT ![k] = r]].counter = d.counter
      BY <3>1 DEF Db
    <3> QED BY <3>2, <3>3, <3>4 DEF Kept
  <2>2. /\ disk' = [disk EXCEPT ![n] = [disk[n] EXCEPT !.row[k] = r]]
        /\ db' = [db EXCEPT ![n] = [db[n] EXCEPT !.row[k] = r]]
        /\ budget' = [budget EXCEPT !.writes = @ + 1] /\ budget.writes < MaxWrites
        /\ UNCHANGED <<syncVars, cacheVars, now, covered>>
    BY <1>0, <1>1 DEF WriteRow, Db
  <2>3. budget' \in [writes : 0 .. MaxWrites, crashes : 0 .. MaxCrashes]
    BY <1>0, <2>2, LimitsAssumption
  <2>4. \A m \in Node : db'[m] \in Kept /\ disk'[m] \in Kept
    BY <1>0, <1>b, <2>1, <2>2
  <2>5. db' \in [Node -> Db] /\ disk' \in [Node -> Db]
    BY <1>0, <1>b, <1>c, <2>1, <2>2
  <2>6. TypeOK'
    BY <1>0, <1>a, <2>2, <2>3, <2>5 DEF syncVars, cacheVars
  <2>7. CountInv'
    BY <1>b, <2>2, <2>4 DEF CountInv, syncVars, cacheVars
  <2> QED BY <2>6, <2>7
<1>2. ASSUME NEW n \in Node, BeginSync(n)
      PROVE  TypeOK' /\ CountInv'
  <2> DEFINE s == buildSnapshot(db[n])
             x == Scan(n, db[n])
  <2>1. s \in Snap
    BY Types, SnapshotTaken
  <2>2. x \in Kept /\ x \in Db
    BY <1>2, <1>c, Types, ScanKept DEF BeginSync, Scan
  <2>3. /\ snapshot' = [snapshot EXCEPT ![n] = s] /\ db' = [db EXCEPT ![n] = x]
        /\ phase' = [phase EXCEPT ![n] = "pulling"] /\ todo' = [todo EXCEPT ![n] = Node \ {n}]
        /\ UNCHANGED <<disk, source, delta, events, vector, budget, covered>>
    BY <1>2 DEF BeginSync
  <2>4. now' \in Nat /\ now' >= 1
    BY <1>0, <1>2, <1>b DEF BeginSync, Tick
  <2> HIDE DEF s, x
  <2>5. snapshot' \in [Node -> Snap] /\ db' \in [Node -> Db] /\ phase' \in [Node -> Phases]
    BY <1>0, <2>1, <2>2, <2>3 DEF Phases
  <2>6. todo' \in [Node -> SUBSET Node]
    BY <1>0, <2>3
  <2>7. TypeOK'
    BY <1>0, <1>a, <2>3, <2>4, <2>5, <2>6
  <2>8. \A m \in Node : db'[m] \in Kept /\ (phase'[m] = "recovering" => phase[m] = "recovering")
    BY <1>0, <1>b, <2>2, <2>3
  <2> QED BY <1>b, <2>3, <2>4, <2>7, <2>8 DEF CountInv
<1>3. ASSUME NEW n \in Node, NEW p \in Node, PullFails(n, p)
      PROVE  TypeOK' /\ CountInv'
  <2>1. todo' \in [Node -> SUBSET Node]
    BY <1>0, <1>3 DEF PullFails
  <2>2. UNCHANGED <<disk, db, phase, source, delta, events, vector, snapshot, now, budget, covered>>
    BY <1>3 DEF PullFails, dbVars, cacheVars
  <2> QED BY <1>0, <1>a, <1>b, <2>1, <2>2 DEF CountInv
<1>4. ASSUME NEW n \in Node, NEW p \in Node, PullDelta(n, p)
      PROVE  TypeOK' /\ CountInv'
  <2> DEFINE answer == getDeltaFromCache(p, getEffectiveVersionVector(db[n]))
             x == applyRemoteEvents(db[n], answer)
  <2>1. answer \in SUBSET Event /\ IsFiniteSet(answer) /\ \A e \in answer : e.ctr \in 1 .. MaxCounter
    BY AnswerIs
  <2>2. x \in Kept /\ x \in Db
    BY <1>c, Types, AnswerIs, ApplyKept
  <2>3. /\ \/ /\ phase' = [phase EXCEPT ![n] = "recovering"]
              /\ source' = [source EXCEPT ![n] = p]
              /\ delta' = [delta EXCEPT ![n] = answer]
              /\ UNCHANGED <<db, todo>>
           \/ /\ db' = [db EXCEPT ![n] = x]
              /\ todo' = [todo EXCEPT ![n] = @ \ {p}]
              /\ UNCHANGED <<phase, source, delta>>
        /\ UNCHANGED <<disk, events, vector, snapshot, now, budget, covered>>
    BY <1>4 DEF PullDelta, cacheVars
  <2> HIDE DEF answer, x
  <2>4. /\ phase' \in [Node -> Phases] /\ source' \in [Node -> Node \cup {NoNode}]
        /\ delta' \in [Node -> SUBSET Event] /\ db' \in [Node -> Db] /\ todo' \in [Node -> SUBSET Node]
    BY <1>0, <2>1, <2>2, <2>3 DEF Phases
  <2>5. TypeOK'
    BY <1>0, <1>a, <2>3, <2>4
  <2>6. \A m \in Node : /\ db'[m] \in Kept /\ IsFiniteSet(delta'[m]) /\ \A e \in delta'[m] : e.ctr \in 1 .. MaxCounter
                        /\ phase'[m] = "recovering" => source'[m] \in Node
    BY <1>0, <1>b, <2>1, <2>2, <2>3
  <2> QED BY <1>b, <2>3, <2>5, <2>6 DEF CountInv
<1>5. ASSUME NEW n \in Node, SnapshotArrives(n)
      PROVE  TypeOK' /\ CountInv'
  <2> DEFINE s == snapshot[source[n]]
             x == applySnapshot(db[n], s)
  <2>0. source[n] \in Node
    BY <1>5, <1>b DEF SnapshotArrives
  <2>1. s \in Snap
    BY <1>0, <2>0
  <2>2. x \in Kept /\ x \in Db
    BY <1>c, <2>1, Types, SnapshotKept
  <2>3. covered' \in Vector
    BY <1>0, <1>5, <2>1, Covering DEF SnapshotArrives, Snap
  <2>4. /\ db' = [db EXCEPT ![n] = x] /\ phase' = [phase EXCEPT ![n] = "pulling"]
        /\ todo' = [todo EXCEPT ![n] = {}] /\ source' = [source EXCEPT ![n] = NoNode]
        /\ delta' = [delta EXCEPT ![n] = {}]
        /\ UNCHANGED <<disk, events, vector, snapshot, now, budget>>
    BY <1>5 DEF SnapshotArrives, cacheVars
  <2> HIDE DEF s, x
  <2>5. /\ phase' \in [Node -> Phases] /\ source' \in [Node -> Node \cup {NoNode}]
        /\ delta' \in [Node -> SUBSET Event] /\ db' \in [Node -> Db] /\ todo' \in [Node -> SUBSET Node]
    BY <1>0, <2>2, <2>4 DEF Phases
  <2>6. TypeOK'
    BY <1>0, <1>a, <2>3, <2>4, <2>5
  <2>7. \A m \in Node : /\ db'[m] \in Kept /\ IsFiniteSet(delta'[m]) /\ \A e \in delta'[m] : e.ctr \in 1 .. MaxCounter
                        /\ phase'[m] = "recovering" => source'[m] \in Node
    BY <1>0, <1>b, <2>2, <2>4, FS_EmptySet
  <2> QED BY <1>b, <2>4, <2>6, <2>7 DEF CountInv
<1>6. ASSUME NEW n \in Node, SnapshotFails(n)
      PROVE  TypeOK' /\ CountInv'
  <2> DEFINE x == applyRemoteEvents(db[n], delta[n])
  <2>1. x \in Kept /\ x \in Db
    BY <1>c, Types, DeltaIs, ApplyKept
  <2>2. /\ db' = [db EXCEPT ![n] = x] /\ phase' = [phase EXCEPT ![n] = "pulling"]
        /\ todo' = [todo EXCEPT ![n] = @ \ {source[n]}] /\ source' = [source EXCEPT ![n] = NoNode]
        /\ delta' = [delta EXCEPT ![n] = {}]
        /\ UNCHANGED <<disk, events, vector, snapshot, now, budget, covered>>
    BY <1>6 DEF SnapshotFails, cacheVars
  <2> HIDE DEF x
  <2>3. /\ phase' \in [Node -> Phases] /\ source' \in [Node -> Node \cup {NoNode}]
        /\ delta' \in [Node -> SUBSET Event] /\ db' \in [Node -> Db] /\ todo' \in [Node -> SUBSET Node]
    BY <1>0, <2>1, <2>2 DEF Phases
  <2>4. TypeOK'
    BY <1>0, <1>a, <2>2, <2>3
  <2>5. \A m \in Node : /\ db'[m] \in Kept /\ IsFiniteSet(delta'[m]) /\ \A e \in delta'[m] : e.ctr \in 1 .. MaxCounter
                        /\ phase'[m] = "recovering" => source'[m] \in Node
    BY <1>0, <1>b, <2>1, <2>2, FS_EmptySet
  <2> QED BY <1>b, <2>2, <2>4, <2>5 DEF CountInv
<1>7. ASSUME NEW n \in Node, FinishSync(n)
      PROVE  TypeOK' /\ CountInv'
  <2>1. Scan(n, db[n]) \in Kept
    BY <1>7, Types, ScanKept DEF FinishSync, Scan
  <2>2. PICK x \in maybeCompact(Scan(n, db[n])) : db' = [db EXCEPT ![n] = x] /\ refreshCache(n, x)
    BY <1>7 DEF FinishSync
  <2>3. x \in Kept /\ x \in Db
    BY <1>c, <2>1, <2>2, CompactKept
  <2> DEFINE es == LastOf(x.log, CacheLimit)
             v == getVersionVector(x)
  <2>4. es \in SUBSET Event /\ v \in Vector /\ IsFiniteSet(es) /\ \A e \in es : e.ctr \in 1 .. MaxCounter
    BY <2>3, CacheKept
  <2>5. /\ events' = [events EXCEPT ![n] = es] /\ vector' = [vector EXCEPT ![n] = v]
        /\ phase' = [phase EXCEPT ![n] = "unsaved"]
        /\ UNCHANGED <<disk, todo, source, delta, snapshot, budget>>
    BY <1>7, <2>2 DEF FinishSync, refreshCache
  <2>6. now' \in Nat /\ now' >= 1 /\ covered' \in Vector
    <3>1. VectorOf(Scan(n, db[n]).log \ events'[n]) \in Vector
      BY <2>1, DroppedIs
    <3>2. covered' \in Vector
      BY <1>0, <1>7, <3>1, Covering DEF FinishSync
    <3> QED BY <1>0, <1>7, <1>b, <3>2 DEF FinishSync, Tick
  <2> HIDE DEF es, v
  <2>7. /\ phase' \in [Node -> Phases] /\ db' \in [Node -> Db] /\ events' \in [Node -> SUBSET Event]
        /\ vector' \in [Node -> Vector]
    BY <1>0, <2>2, <2>3, <2>4, <2>5 DEF Phases
  <2>8. TypeOK'
    BY <1>0, <1>a, <2>5, <2>6, <2>7
  <2>9. \A m \in Node : /\ db'[m] \in Kept /\ IsFiniteSet(events'[m]) /\ \A e \in events'[m] : e.ctr \in 1 .. MaxCounter
                        /\ phase'[m] = "recovering" => phase[m] = "recovering"
    BY <1>0, <1>b, <2>2, <2>3, <2>4, <2>5
  <2> QED BY <1>b, <2>5, <2>6, <2>8, <2>9 DEF CountInv
<1>8. ASSUME NEW n \in Node, Save(n)
      PROVE  TypeOK' /\ CountInv'
  <2>1. /\ disk' = [disk EXCEPT ![n] = db[n]] /\ phase' = [phase EXCEPT ![n] = "idle"]
        /\ UNCHANGED <<db, todo, source, delta, events, vector, snapshot, now, budget, covered>>
    BY <1>8 DEF Save, cacheVars
  <2>2. phase' \in [Node -> Phases] /\ disk' \in [Node -> Db]
    BY <1>0, <2>1 DEF Phases
  <2>3. \A m \in Node : disk'[m] \in Kept /\ (phase'[m] = "recovering" => phase[m] = "recovering")
    BY <1>0, <1>b, <2>1
  <2>4. TypeOK'
    BY <1>0, <1>a, <2>1, <2>2
  <2> QED BY <1>b, <2>1, <2>3, <2>4 DEF CountInv
<1>9. ASSUME NEW n \in Node, Crash(n)
      PROVE  TypeOK' /\ CountInv'
  <2>1. /\ db' = [db EXCEPT ![n] = disk[n]] /\ phase' = [phase EXCEPT ![n] = "idle"]
        /\ todo' = [todo EXCEPT ![n] = {}] /\ source' = [source EXCEPT ![n] = NoNode]
        /\ delta' = [delta EXCEPT ![n] = {}] /\ events' = [events EXCEPT ![n] = {}]
        /\ vector' = [vector EXCEPT ![n] = NoVector] /\ snapshot' = [snapshot EXCEPT ![n] = EmptySnapshot]
        /\ budget' = [budget EXCEPT !.crashes = @ + 1] /\ budget.crashes < MaxCrashes
        /\ UNCHANGED <<disk, now, covered>>
    BY <1>9 DEF Crash
  <2>2. EmptySnapshot \in Snap /\ NoVector \in Vector
    BY DEF EmptySnapshot, Snap, Row, Vector, NoVector
  <2>3. /\ phase' \in [Node -> Phases] /\ source' \in [Node -> Node \cup {NoNode}]
        /\ delta' \in [Node -> SUBSET Event] /\ db' \in [Node -> Db] /\ todo' \in [Node -> SUBSET Node]
        /\ events' \in [Node -> SUBSET Event] /\ vector' \in [Node -> Vector] /\ snapshot' \in [Node -> Snap]
    BY <1>0, <2>1, <2>2 DEF Phases
  <2>4. budget' \in [writes : 0 .. MaxWrites, crashes : 0 .. MaxCrashes]
    BY <1>0, <2>1, LimitsAssumption
  <2>5. TypeOK'
    BY <1>0, <1>a, <2>1, <2>3, <2>4
  <2>6. \A m \in Node : /\ db'[m] \in Kept /\ IsFiniteSet(delta'[m]) /\ \A e \in delta'[m] : e.ctr \in 1 .. MaxCounter
                        /\ IsFiniteSet(events'[m]) /\ \A e \in events'[m] : e.ctr \in 1 .. MaxCounter
                        /\ phase'[m] = "recovering" => source'[m] \in Node
    BY <1>0, <1>b, <2>1, FS_EmptySet
  <2> QED BY <1>b, <2>1, <2>5, <2>6 DEF CountInv
<1>10. CASE UNCHANGED vars
  BY <1>0, <1>a, <1>b, <1>10 DEF vars, dbVars, syncVars, cacheVars, CountInv
<1> QED BY <1>1, <1>2, <1>3, <1>4, <1>5, <1>6, <1>7, <1>8, <1>9, <1>10 DEF Next

-----------------------------------------------------------------------------
(* How a step moves the events: it loses some, and a scan adds its own.    *)

Quiet ==
    /\ Ever' \subseteq Ever /\ All' \subseteq All
    /\ now' = now /\ budget'.crashes = budget.crashes
    /\ \A m \in Node : db'[m].counter = db[m].counter

NewOf(n) == NewEvents(db[n], n, now + Offset[n])

ScanBy(n) ==
    /\ Ever' \subseteq Ever \cup NewOf(n) /\ All' \subseteq All \cup NewOf(n)
    /\ now' = IF Unscanned(db[n]) = {} THEN now ELSE now + 1
    /\ budget'.crashes = budget.crashes
    /\ \A m \in Node : db'[m].counter =
          IF m = n THEN db[n].counter + Cardinality(Unscanned(db[n])) ELSE db[m].counter

AfterCrash ==
    /\ Ever' \subseteq Ever /\ now' = now
    /\ budget.crashes \in Nat /\ budget'.crashes = budget.crashes + 1

\* Where the events are.
LEMMA InAll ==
    ASSUME TypeOK, CountInv, NEW n \in Node
    PROVE  /\ db[n].log \subseteq All /\ events[n] \subseteq All /\ delta[n] \subseteq All
           /\ disk[n].log \subseteq Ever /\ All \subseteq Ever
<1>1. db[n].log \subseteq Event /\ disk[n].log \subseteq Event /\ events[n] \subseteq Event /\ delta[n] \subseteq Event
  BY Types, DbFields
<1> QED BY <1>1 DEF All, Ever

\* Only a scan makes events, and only it moves the time.
LEMMA EventsMove ==
    ASSUME TypeOK, CountInv, StampInv, [Next]_vars
    PROVE  Quiet \/ (\E n \in Node : ScanBy(n)) \/ AfterCrash
<1>0. /\ disk \in [Node -> Db] /\ db \in [Node -> Db]
      /\ delta \in [Node -> SUBSET Event] /\ events \in [Node -> SUBSET Event]
      /\ budget \in [writes : 0 .. MaxWrites, crashes : 0 .. MaxCrashes]
  BY DEF TypeOK
<1>a. ASSUME NEW N, \A m \in Node : /\ db'[m].log \subseteq All \cup N
                                    /\ events'[m] \subseteq All \cup N
                                    /\ delta'[m] \subseteq All \cup N
                                    /\ disk'[m].log \subseteq Ever
      PROVE  Ever' \subseteq Ever \cup N /\ All' \subseteq All \cup N
  BY <1>a DEF Ever, All
<1>b. \A m \in Node : /\ db[m].log \subseteq All /\ events[m] \subseteq All /\ delta[m] \subseteq All
                      /\ disk[m].log \subseteq Ever /\ All \subseteq Ever
  BY InAll
<1>c. ASSUME \A m \in Node : /\ db'[m].log \subseteq All /\ db'[m].counter = db[m].counter
                             /\ events'[m] \subseteq All /\ delta'[m] \subseteq All
                             /\ disk'[m].log \subseteq Ever,
             now' = now, budget'.crashes = budget.crashes
      PROVE  Quiet
  <2>1. Ever' \subseteq Ever \cup {} /\ All' \subseteq All \cup {}
    BY <1>a, <1>c
  <2> QED BY <1>c, <2>1 DEF Quiet
<1>1. ASSUME NEW n \in Node, NEW k \in Key, NEW r \in Row, WriteRow(n, k, r)
      PROVE  Quiet
  <2>1. /\ disk' = [disk EXCEPT ![n] = [disk[n] EXCEPT !.row[k] = r]]
        /\ db' = [db EXCEPT ![n] = [db[n] EXCEPT !.row[k] = r]]
        /\ budget' = [budget EXCEPT !.writes = @ + 1]
        /\ UNCHANGED <<events, delta, now>>
    BY <1>0, <1>1 DEF WriteRow, syncVars, cacheVars, Db
  <2>2. \A d \in Db : [d EXCEPT !.row[k] = r].log = d.log /\ [d EXCEPT !.row[k] = r].counter = d.counter
    BY DEF Db
  <2>3. \A m \in Node : db'[m].log = db[m].log /\ db'[m].counter = db[m].counter /\ disk'[m].log = disk[m].log
    BY <1>0, <2>1, <2>2
  <2>4. budget'.crashes = budget.crashes
    BY <1>0, <2>1
  <2> QED BY <1>b, <1>c, <2>1, <2>3, <2>4
<1>2. ASSUME NEW n \in Node, BeginSync(n)
      PROVE  ScanBy(n)
  <2> DEFINE x == Scan(n, db[n])
  <2>1. /\ x.log \subseteq db[n].log \cup NewOf(n)
        /\ x.counter = db[n].counter + Cardinality(Unscanned(db[n]))
    BY Types, Scanned DEF Scan, NewOf
  <2>2. /\ db' = [db EXCEPT ![n] = x] /\ now' = IF Unscanned(db[n]) = {} THEN now ELSE now + 1
        /\ UNCHANGED <<disk, events, delta, budget>>
    BY <1>2 DEF BeginSync, Tick
  <2> HIDE DEF x
  <2>3. \A m \in Node : /\ db'[m].log \subseteq All \cup NewOf(n)
                        /\ db'[m].counter = IF m = n THEN db[n].counter + Cardinality(Unscanned(db[n])) ELSE db[m].counter
    BY <1>0, <1>b, <2>1, <2>2
  <2>4. Ever' \subseteq Ever \cup NewOf(n) /\ All' \subseteq All \cup NewOf(n)
    BY <1>a, <1>b, <2>2, <2>3
  <2> QED BY <2>2, <2>3, <2>4 DEF ScanBy
<1>3. ASSUME NEW n \in Node, NEW p \in Node, PullFails(n, p)
      PROVE  Quiet
  BY <1>b, <1>c, <1>3 DEF PullFails, dbVars, cacheVars
<1>4. ASSUME NEW n \in Node, NEW p \in Node, PullDelta(n, p)
      PROVE  Quiet
  <2> DEFINE answer == getDeltaFromCache(p, getEffectiveVersionVector(db[n]))
             x == applyRemoteEvents(db[n], answer)
  <2>1. answer \subseteq All
    BY <1>b, AnswerIs
  <2>2. x.log = db[n].log \cup Fresh(db[n], answer) /\ x.counter = db[n].counter
    BY Types, AnswerIs, Applied
  <2>3. x.log \subseteq All
    BY <1>b, <2>1, <2>2 DEF Fresh
  <2>4. /\ \/ delta' = [delta EXCEPT ![n] = answer] /\ UNCHANGED db
           \/ db' = [db EXCEPT ![n] = x] /\ UNCHANGED delta
        /\ UNCHANGED <<disk, events, now, budget>>
    BY <1>4 DEF PullDelta, cacheVars
  <2> HIDE DEF answer, x
  <2>5. \A m \in Node : db'[m].log \subseteq All /\ db'[m].counter = db[m].counter /\ delta'[m] \subseteq All
    BY <1>0, <1>b, <2>1, <2>2, <2>3, <2>4
  <2> QED BY <1>b, <1>c, <2>4, <2>5
<1>5. ASSUME NEW n \in Node, SnapshotArrives(n)
      PROVE  Quiet
  <2> DEFINE x == applySnapshot(db[n], snapshot[source[n]])
  <2>1. snapshot[source[n]] \in Snap
    BY <1>5, Types DEF SnapshotArrives, CountInv
  <2>2. x.log = db[n].log /\ x.counter = db[n].counter
    BY <2>1, Types, SnapshotApplied
  <2>3. /\ db' = [db EXCEPT ![n] = x] /\ delta' = [delta EXCEPT ![n] = {}]
        /\ UNCHANGED <<disk, events, now, budget>>
    BY <1>5 DEF SnapshotArrives, cacheVars
  <2> HIDE DEF x
  <2>4. \A m \in Node : db'[m].log = db[m].log /\ db'[m].counter = db[m].counter /\ delta'[m] \subseteq All
    BY <1>0, <1>b, <2>2, <2>3
  <2> QED BY <1>b, <1>c, <2>3, <2>4
<1>6. ASSUME NEW n \in Node, SnapshotFails(n)
      PROVE  Quiet
  <2> DEFINE x == applyRemoteEvents(db[n], delta[n])
  <2>1. x.log = db[n].log \cup Fresh(db[n], delta[n]) /\ x.counter = db[n].counter
    BY Types, DeltaIs, Applied
  <2>2. x.log \subseteq All
    BY <1>b, <2>1 DEF Fresh
  <2>3. /\ db' = [db EXCEPT ![n] = x] /\ delta' = [delta EXCEPT ![n] = {}]
        /\ UNCHANGED <<disk, events, now, budget>>
    BY <1>6 DEF SnapshotFails, cacheVars
  <2> HIDE DEF x
  <2>4. \A m \in Node : db'[m].log \subseteq All /\ db'[m].counter = db[m].counter /\ delta'[m] \subseteq All
    BY <1>0, <1>b, <2>1, <2>2, <2>3
  <2> QED BY <1>b, <1>c, <2>3, <2>4
<1>7. ASSUME NEW n \in Node, FinishSync(n)
      PROVE  ScanBy(n)
  <2> DEFINE y == Scan(n, db[n])
  <2>1. y \in Kept
    BY <1>7, Types, ScanKept DEF FinishSync, Scan
  <2>2. /\ y.log \subseteq db[n].log \cup NewOf(n)
        /\ y.counter = db[n].counter + Cardinality(Unscanned(db[n]))
    BY Types, Scanned DEF Scan, NewOf
  <2>3. PICK x \in maybeCompact(y) : db' = [db EXCEPT ![n] = x] /\ refreshCache(n, x)
    BY <1>7 DEF FinishSync
  <2>4. x.log \subseteq y.log /\ x.counter = y.counter /\ LastOf(x.log, CacheLimit) \subseteq x.log
    BY <2>1, <2>3, MayBeCompacted DEF Kept, LastOf
  <2>5. /\ events' = [events EXCEPT ![n] = LastOf(x.log, CacheLimit)]
        /\ now' = IF Unscanned(db[n]) = {} THEN now ELSE now + 1
        /\ UNCHANGED <<disk, delta, budget>>
    BY <1>7, <2>3 DEF FinishSync, refreshCache, Tick
  <2> HIDE DEF y
  <2>6. \A m \in Node : /\ db'[m].log \subseteq All \cup NewOf(n) /\ events'[m] \subseteq All \cup NewOf(n)
                        /\ db'[m].counter = IF m = n THEN db[n].counter + Cardinality(Unscanned(db[n])) ELSE db[m].counter
    BY <1>0, <1>b, <2>2, <2>3, <2>4, <2>5
  <2>7. Ever' \subseteq Ever \cup NewOf(n) /\ All' \subseteq All \cup NewOf(n)
    BY <1>a, <1>b, <2>5, <2>6
  <2> QED BY <2>5, <2>6, <2>7 DEF ScanBy
<1>8. ASSUME NEW n \in Node, Save(n)
      PROVE  Quiet
  <2>1. disk' = [disk EXCEPT ![n] = db[n]] /\ UNCHANGED <<db, delta, events, now, budget>>
    BY <1>8 DEF Save, cacheVars
  <2>2. \A m \in Node : disk'[m].log \subseteq Ever
    BY <1>0, <1>b, <2>1
  <2> QED BY <1>b, <1>c, <2>1, <2>2
<1>9. ASSUME NEW n \in Node, Crash(n)
      PROVE  AfterCrash
  <2>1. /\ db' = [db EXCEPT ![n] = disk[n]] /\ delta' = [delta EXCEPT ![n] = {}]
        /\ events' = [events EXCEPT ![n] = {}] /\ budget' = [budget EXCEPT !.crashes = @ + 1]
        /\ UNCHANGED <<disk, now>>
    BY <1>9 DEF Crash
  <2>2. \A m \in Node : /\ db'[m].log \subseteq Ever /\ delta'[m] \subseteq Ever /\ events'[m] \subseteq Ever
                        /\ disk'[m].log \subseteq Ever
    BY <1>0, <1>b, <2>1
  <2>3. Ever' \subseteq Ever
    BY <2>2 DEF Ever
  <2>4. budget.crashes \in Nat /\ budget'.crashes = budget.crashes + 1
    BY <1>0, <2>1, LimitsAssumption
  <2> QED BY <2>1, <2>3, <2>4 DEF AfterCrash
<1>10. CASE UNCHANGED vars
  BY <1>b, <1>c, <1>10 DEF vars, dbVars, syncVars, cacheVars
<1> QED BY <1>1, <1>2, <1>3, <1>4, <1>5, <1>6, <1>7, <1>8, <1>9, <1>10 DEF Next

\* A scan stamps its events with a time that nothing of the node has yet.
LEMMA StampStep ==
    ASSUME TypeOK, CountInv, StampInv, [Next]_vars
    PROVE  StampInv'
<1>0. /\ now \in Nat /\ \A n \in Node : Offset[n] \in Nat /\ now + Offset[n] \in Nat
      /\ \A e \in Ever : e.actor \in Node /\ e.ts \in Nat
  BY LimitsAssumption DEF TypeOK, Ever, Event
<1>1. ASSUME Ever' \subseteq Ever, now' = now
      PROVE  StampInv'
  BY <1>1 DEF StampInv, Distinct
<1>2. ASSUME NEW n \in Node, ScanBy(n)
      PROVE  StampInv'
  <2>1. /\ \A e \in NewOf(n) : e.ts = now + Offset[n] /\ e.actor = n /\ Unscanned(db[n]) # {}
        /\ \A e, f \in NewOf(n) : e.ctr = f.ctr => e = f
    BY Types, NewEventsAre DEF NewOf
  <2>2. now' >= now /\ now' \in Nat /\ (NewOf(n) # {} => now' = now + 1)
    BY <1>0, <1>2, <2>1 DEF ScanBy
  <2>3. \A e \in Ever' : e \in Ever \/ e \in NewOf(n)
    BY <1>2 DEF ScanBy
  <2>4. \A e \in Ever' : e.ts >= 1 /\ e.ts < now' + Offset[e.actor]
    <3> SUFFICES ASSUME NEW e \in Ever' PROVE e.ts >= 1 /\ e.ts < now' + Offset[e.actor]
      OBVIOUS
    <3>1. CASE e \in Ever
      <4>1. e.ts >= 1 /\ e.ts < now + Offset[e.actor]
        BY <3>1 DEF StampInv
      <4> QED BY <1>0, <2>2, <3>1, <4>1
    <3>2. CASE e \in NewOf(n)
      <4>1. e.ts = now + Offset[n] /\ e.actor = n /\ now' = now + 1 /\ now >= 1
        BY <2>1, <2>2, <3>2 DEF CountInv
      <4> QED BY <1>0, <4>1
    <3> QED BY <2>3, <3>1, <3>2
  <2>5. \A e \in Ever, f \in NewOf(n) : e.actor = f.actor => e.ts < f.ts
    BY <2>1 DEF StampInv
  <2>6. ASSUME NEW e \in Ever', NEW f \in Ever', VersionOf(e) = VersionOf(f)
        PROVE  e = f
    <3>1. e.ts = f.ts /\ e.actor = f.actor /\ e.ctr = f.ctr
      BY <2>6, SameVersion
    <3>2. CASE e \in Ever /\ f \in Ever
      BY <2>6, <3>2 DEF StampInv, Distinct
    <3>3. CASE e \in NewOf(n) /\ f \in NewOf(n)
      BY <2>1, <3>1, <3>3
    <3>4. CASE e \in Ever /\ f \in NewOf(n)
      BY <1>0, <2>5, <3>1, <3>4
    <3>5. CASE e \in NewOf(n) /\ f \in Ever
      BY <1>0, <2>5, <3>1, <3>5
    <3> QED BY <2>3, <3>2, <3>3, <3>4, <3>5
  <2> QED BY <2>4, <2>6 DEF StampInv, Distinct
<1> QED BY <1>1, <1>2, EventsMove DEF Quiet, AfterCrash

-----------------------------------------------------------------------------
(* While nobody has crashed: ids and the order of the events of a node.    *)

NoCrash == budget.crashes = 0

\* An id stands for one event, has been given, and later ones are stamped no earlier.
OrderInv ==
    NoCrash =>
        /\ \A e \in All : e.ctr <= db[e.actor].counter
        /\ \A e, f \in All : Id(e) = Id(f) => e = f
        /\ \A e, f \in All : e.actor = f.actor /\ e.ctr < f.ctr => e.ts <= f.ts

\* A scan gives counters that no event of the node has, at a time that none is after.
LEMMA OrderStep ==
    ASSUME TypeOK, CountInv, StampInv, OrderInv, [Next]_vars
    PROVE  OrderInv'
<1>0. /\ now \in Nat /\ \A n \in Node : Offset[n] \in Nat /\ now + Offset[n] \in Nat /\ db[n].counter \in Nat
      /\ \A e \in All : e.actor \in Node /\ e.ts \in Nat /\ e.ctr \in Nat /\ e \in Ever
  BY LimitsAssumption, Types, DbFields DEF TypeOK, All, Ever, Event
<1>1. CASE Quiet
  <2>1. \A e \in All' : e \in All /\ db'[e.actor].counter = db[e.actor].counter
    BY <1>0, <1>1 DEF Quiet
  <2>2. NoCrash' => NoCrash
    BY <1>1 DEF Quiet, NoCrash
  <2> QED BY <2>1, <2>2 DEF OrderInv
<1>2. ASSUME NEW n \in Node, ScanBy(n), NoCrash
      PROVE  OrderInv'
  <2> DEFINE more == Cardinality(Unscanned(db[n]))
  <2>1. /\ \A e \in NewOf(n) : /\ e.ts = now + Offset[n] /\ e.actor = n
                               /\ e.ctr \in db[n].counter + 1 .. db[n].counter + more
        /\ \A e, f \in NewOf(n) : e.ctr = f.ctr => e = f
    BY Types, NewEventsAre DEF NewOf
  <2>2. more \in Nat
    BY Types, CountersOfScan
  <2>3. \A m \in Node : db'[m].counter = IF m = n THEN db[n].counter + more ELSE db[m].counter
    BY <1>2 DEF ScanBy
  <2>4. \A e \in All' : e \in All \/ e \in NewOf(n)
    BY <1>2 DEF ScanBy
  <2> HIDE DEF more
  <2>5. \A e \in All : e.ctr <= db[e.actor].counter
    BY <1>2 DEF OrderInv
  <2>6. \A e \in NewOf(n) : e.ctr > db[n].counter /\ e.ctr <= db[n].counter + more /\ e.ctr \in Nat
    BY <1>0, <2>1, <2>2
  <2>7. \A e \in All, f \in NewOf(n) : e.actor = f.actor => e.ctr < f.ctr /\ e.ts <= f.ts
    <3> TAKE e \in All, f \in NewOf(n)
    <3> HAVE e.actor = f.actor
    <3>1. e.actor = n /\ f.ts = now + Offset[n] /\ f.ctr > db[n].counter /\ f.ctr \in Nat
      BY <2>1, <2>6
    <3>2. e.ts < now + Offset[n] /\ e.ctr <= db[n].counter
      BY <1>0, <2>5, <3>1 DEF StampInv
    <3> QED BY <1>0, <3>1, <3>2
  <2>8. \A e \in All' : e.ctr <= db'[e.actor].counter
    <3> TAKE e \in All'
    <3>1. CASE e \in All
      BY <1>0, <2>2, <2>3, <2>5, <3>1
    <3>2. CASE e \in NewOf(n)
      BY <2>1, <2>3, <2>6, <3>2
    <3> QED BY <2>4, <3>1, <3>2
  <2>9. ASSUME NEW e \in All', NEW f \in All', e.actor = f.actor
        PROVE  /\ e.ctr = f.ctr => e = f
               /\ e.ctr < f.ctr => e.ts <= f.ts
    <3>1. CASE e \in All /\ f \in All
      BY <1>2, <2>9, <3>1, SameId DEF OrderInv
    <3>2. CASE e \in NewOf(n) /\ f \in NewOf(n)
      BY <1>0, <2>1, <3>2
    <3>3. CASE e \in All /\ f \in NewOf(n)
      BY <1>0, <2>6, <2>7, <2>9, <3>3
    <3>4. CASE e \in NewOf(n) /\ f \in All
      BY <1>0, <2>6, <2>7, <2>9, <3>4
    <3> QED BY <2>4, <3>1, <3>2, <3>3, <3>4
  <2> QED BY <2>8, <2>9, SameId DEF OrderInv
<1>3. ASSUME NEW n \in Node, ScanBy(n)
      PROVE  OrderInv'
  <2>1. NoCrash' => NoCrash
    BY <1>3 DEF ScanBy, NoCrash
  <2> QED BY <1>2, <1>3, <2>1 DEF OrderInv
<1>4. CASE AfterCrash
  BY <1>4 DEF AfterCrash, OrderInv, NoCrash
<1> QED BY <1>1, <1>3, <1>4, EventsMove

\* A crash is remembered.
LEMMA CrashesCount ==
    ASSUME TypeOK, CountInv, StampInv, [Next]_vars, NoCrash'
    PROVE  NoCrash /\ ~AfterCrash
BY EventsMove DEF NoCrash, Quiet, ScanBy, AfterCrash

\* A scan only adds to the log.
LEMMA ScanAdds ==
    ASSUME TypeOK, CountInv, OrderInv, NoCrash, NEW n \in Node
    PROVE  Scan(n, db[n]).log = db[n].log \cup NewOf(n)
<1>1. Scan(n, db[n]).log = {e \in db[n].log : Id(e) \notin {Id(f) : f \in NewOf(n)}} \cup NewOf(n)
  BY Types, Scanned DEF Scan, NewOf
<1>2. \A f \in NewOf(n) : f.actor = n /\ f.ctr \in db[n].counter + 1 .. db[n].counter + Cardinality(Unscanned(db[n]))
  BY Types, NewEventsAre DEF NewOf
<1>3. ASSUME NEW e \in db[n].log, NEW f \in NewOf(n), Id(e) = Id(f)
      PROVE  FALSE
  <2>1. e.actor = n /\ e.ctr = f.ctr
    BY <1>2, <1>3, SameId
  <2>2. e \in All /\ e.ctr \in Nat /\ db[n].counter \in Nat
    BY Types, InAll, DbFields DEF Event
  <2>3. e.ctr <= db[n].counter
    BY <2>1, <2>2 DEF OrderInv
  <2> QED BY <1>2, <2>1, <2>2, <2>3, CountersOfScan, Types
<1> QED BY <1>1, <1>3

\* No log gets smaller but by pruning.
LEMMA LogsGrow ==
    ASSUME TypeOK, CountInv, StampInv, OrderInv, [Next]_vars, NoCrash', NEW m \in Node
    PROVE  db[m].log \subseteq db'[m].log \/ Cardinality(db'[m].log) >= KeepEvents
<1>0. NoCrash /\ db \in [Node -> Db] /\ disk \in [Node -> Db]
  BY CrashesCount DEF TypeOK
<1>1. ASSUME NEW n \in Node, NEW k \in Key, NEW r \in Row, WriteRow(n, k, r)
      PROVE  db[m].log \subseteq db'[m].log
  <2>1. db' = [db EXCEPT ![n] = [db[n] EXCEPT !.row[k] = r]]
    BY <1>0, <1>1 DEF WriteRow, Db
  <2>2. \A d \in Db : [d EXCEPT !.row[k] = r].log = d.log
    BY DEF Db
  <2> QED BY <1>0, <2>1, <2>2
<1>2. ASSUME NEW n \in Node, BeginSync(n)
      PROVE  db[m].log \subseteq db'[m].log
  <2>1. db' = [db EXCEPT ![n] = Scan(n, db[n])]
    BY <1>2 DEF BeginSync
  <2> QED BY <1>0, <2>1, ScanAdds
<1>3. ASSUME NEW n \in Node, NEW p \in Node, PullDelta(n, p)
      PROVE  db[m].log \subseteq db'[m].log
  <2> DEFINE answer == getDeltaFromCache(p, getEffectiveVersionVector(db[n]))
  <2>1. UNCHANGED db \/ db' = [db EXCEPT ![n] = applyRemoteEvents(db[n], answer)]
    BY <1>3 DEF PullDelta
  <2>2. applyRemoteEvents(db[n], answer).log = db[n].log \cup Fresh(db[n], answer)
    BY Types, AnswerIs, Applied
  <2> HIDE DEF answer
  <2> QED BY <1>0, <2>1, <2>2
<1>4. ASSUME NEW n \in Node, SnapshotArrives(n)
      PROVE  db[m].log \subseteq db'[m].log
  <2>1. snapshot[source[n]] \in Snap /\ db' = [db EXCEPT ![n] = applySnapshot(db[n], snapshot[source[n]])]
    BY <1>4, Types DEF SnapshotArrives, CountInv
  <2>2. applySnapshot(db[n], snapshot[source[n]]).log = db[n].log
    BY <2>1, Types, SnapshotApplied
  <2> QED BY <1>0, <2>1, <2>2
<1>5. ASSUME NEW n \in Node, SnapshotFails(n)
      PROVE  db[m].log \subseteq db'[m].log
  <2>1. db' = [db EXCEPT ![n] = applyRemoteEvents(db[n], delta[n])]
    BY <1>5 DEF SnapshotFails
  <2>2. applyRemoteEvents(db[n], delta[n]).log = db[n].log \cup Fresh(db[n], delta[n])
    BY Types, DeltaIs, Applied
  <2> QED BY <1>0, <2>1, <2>2
<1>6. ASSUME NEW n \in Node, FinishSync(n)
      PROVE  db[m].log \subseteq db'[m].log \/ Cardinality(db'[m].log) >= KeepEvents
  <2>1. PICK x \in maybeCompact(Scan(n, db[n])) : db' = [db EXCEPT ![n] = x]
    BY <1>6 DEF FinishSync
  <2>2. Scan(n, db[n]) \in Kept
    BY <1>6, Types, ScanKept DEF FinishSync, Scan
  <2>3. x.log = Scan(n, db[n]).log \/ Cardinality(x.log) >= KeepEvents
    BY <2>1, <2>2, MayBeCompacted DEF Kept
  <2> QED BY <1>0, <2>1, <2>3, ScanAdds
<1>7. ASSUME NEW n \in Node, Crash(n)
      PROVE  FALSE
  BY <1>0, <1>7 DEF Crash, NoCrash, TypeOK
<1>8. ASSUME NEW n \in Node, NEW p \in Node, PullFails(n, p) \/ Save(n)
      PROVE  db[m].log \subseteq db'[m].log
  BY <1>8 DEF PullFails, Save, dbVars
<1>9. CASE UNCHANGED vars
  BY <1>9 DEF vars, dbVars
<1> QED BY <1>1, <1>2, <1>3, <1>4, <1>5, <1>6, <1>7, <1>8, <1>9 DEF Next

\* A log that is short now has never been pruned.
LEMMA StaysWhole ==
    ASSUME TypeOK, CountInv, StampInv, OrderInv, [Next]_vars, NoCrash', NEW m \in Node,
           TypeOK', CountInv'
    PROVE  ~Pruned(m)' => ~Pruned(m) /\ db[m].log \subseteq db'[m].log
<1>1. /\ IsFiniteSet(db[m].log) /\ IsFiniteSet(db'[m].log) /\ KeepEvents \in Nat
  BY LimitsAssumption DEF CountInv, Kept
<1>2. Cardinality(db[m].log) \in Nat /\ Cardinality(db'[m].log) \in Nat
  BY <1>1, FS_CardinalityType
<1>3. CASE db[m].log \subseteq db'[m].log
  <2>1. Cardinality(db[m].log) <= Cardinality(db'[m].log)
    BY <1>1, <1>3, FS_Subset
  <2> QED BY <1>1, <1>2, <1>3, <2>1 DEF Pruned
<1>4. CASE Cardinality(db'[m].log) >= KeepEvents
  BY <1>1, <1>2, <1>4 DEF Pruned
<1> QED BY <1>3, <1>4, LogsGrow

-----------------------------------------------------------------------------
(* No gaps.                                                                *)

\* With an event the set L has the earlier ones of its actor, from those on that c covers.
Closed(c, L) ==
    \A e \in L : \A x \in c[e.actor] + 1 .. e.ctr - 1 : \E f \in L : f.actor = e.actor /\ f.ctr = x

\* A set closed from some counters on is closed from later ones on.
LEMMA ClosedFurther ==
    ASSUME NEW c \in Vector, NEW b \in Vector, \A a \in Node : c[a] <= b[a],
           NEW L \in SUBSET Event, Closed(c, L)
    PROVE  Closed(b, L)
<1> SUFFICES ASSUME NEW e \in L, NEW x \in b[e.actor] + 1 .. e.ctr - 1
             PROVE  \E f \in L : f.actor = e.actor /\ f.ctr = x
  BY DEF Closed
<1>1. e.actor \in Node /\ e.ctr \in Nat /\ c[e.actor] \in Nat /\ b[e.actor] \in Nat
  BY DEF Event, Vector
<1>2. x \in c[e.actor] + 1 .. e.ctr - 1
  BY <1>1
<1> QED BY <1>2 DEF Closed

\* Events that are logged already stand for those of the answer with their ids.
LEMMA ClosedApplied ==
    ASSUME NEW c \in Vector, NEW d \in Db, NEW E \in SUBSET Event, Closed(c, d.log \cup E)
    PROVE  Closed(c, d.log \cup Fresh(d, E))
<1> SUFFICES ASSUME NEW e \in d.log \cup Fresh(d, E), NEW x \in c[e.actor] + 1 .. e.ctr - 1
             PROVE  \E f \in d.log \cup Fresh(d, E) : f.actor = e.actor /\ f.ctr = x
  BY DEF Closed
<1>1. PICK f \in d.log \cup E : f.actor = e.actor /\ f.ctr = x
  <2>1. e \in d.log \cup E
    BY DEF Fresh
  <2> QED BY <2>1 DEF Closed
<1>2. CASE f \in d.log
  BY <1>1, <1>2
<1>3. CASE f \in E /\ f \in Fresh(d, E)
  BY <1>1, <1>3
<1>4. CASE f \in E /\ f \notin Fresh(d, E)
  <2>1. PICK g \in d.log : Id(f) = Id(g)
    BY <1>4 DEF Fresh
  <2> QED BY <1>1, <2>1, SameId
<1> QED BY <1>1, <1>2, <1>3, <1>4

\* A log is closed together with what a peer answers, cut as it may be: the log has
\* everything up to its vector, and the answer what comes next.
LEMMA AnswerCloses ==
    ASSUME TypeOK, CountInv, StampInv, OrderInv, NoCrash, NEW n \in Node, NEW p \in Node,
           Closed(covered, db[n].log), Closed(covered, events[p]),
           \A a \in Node : db[n].snapVector[a] <= covered[a]
    PROVE  Closed(covered, db[n].log \cup getDeltaFromCache(p, getEffectiveVersionVector(db[n])))
<1> DEFINE local == getEffectiveVersionVector(db[n])
           wanted == {e \in events[p] : e.ctr > local[e.actor]}
           answer == getDeltaFromCache(p, local)
<1>0. covered \in Vector /\ db[n].snapVector \in Vector /\ db[n] \in Db
  BY Types, DbFields DEF TypeOK
<1>1. answer = FirstOf(wanted, DeltaLimit) /\ DeltaLimit \in Nat
  BY LimitsAssumption DEF getDeltaFromCache
<1>2. wanted \in SUBSET Event /\ IsFiniteSet(wanted) /\ wanted \subseteq events[p]
  BY Types, FS_Subset DEF CountInv
<1>3. answer \subseteq wanted
  BY <1>1 DEF FirstOf
<1>4. \A a \in Node : /\ local[a] \in Nat /\ local[a] \in {db[n].snapVector[a], getVersionVector(db[n])[a]}
                      /\ getVersionVector(db[n])[a] \in Nat
                      /\ covered[a] \in Nat /\ db[n].snapVector[a] <= covered[a]
                      /\ getVersionVector(db[n])[a] > 0 =>
                            \E e \in db[n].log : e.actor = a /\ e.ctr = getVersionVector(db[n])[a]
  BY <1>0, Types, EffectiveMeans, VectorMeans DEF Vector
<1> HIDE DEF local, wanted, answer
<1>5. \A e \in db[n].log \cup events[p] : e.actor \in Node /\ e.ctr \in Nat /\ e.ts \in Nat /\ e \in Event /\ e \in All
  BY Types, InAll, DbFields DEF Event
<1>6. ASSUME NEW e \in answer, NEW x \in covered[e.actor] + 1 .. e.ctr - 1
      PROVE  \E f \in db[n].log \cup answer : f.actor = e.actor /\ f.ctr = x
  <2>1. e \in wanted /\ e \in events[p] /\ e.actor \in Node /\ e.ctr \in Nat
    BY <1>2, <1>3, <1>5
  <2>2. x \in Nat /\ x > covered[e.actor] /\ x < e.ctr
    BY <1>4, <2>1
  <2>3. CASE x <= local[e.actor]
    <3>1. local[e.actor] = getVersionVector(db[n])[e.actor] /\ local[e.actor] > 0
      BY <1>4, <2>1, <2>2, <2>3
    <3>2. PICK g \in db[n].log : g.actor = e.actor /\ g.ctr = local[e.actor]
      BY <1>4, <2>1, <3>1
    <3>3. CASE x = g.ctr
      BY <3>2, <3>3
    <3>4. CASE x # g.ctr
      <4>1. x \in covered[g.actor] + 1 .. g.ctr - 1
        BY <1>4, <2>1, <2>2, <2>3, <3>2, <3>4
      <4> QED BY <3>2, <4>1 DEF Closed
    <3> QED BY <3>3, <3>4
  <2>4. CASE x > local[e.actor]
    <3>1. PICK f \in events[p] : f.actor = e.actor /\ f.ctr = x
      BY <2>1 DEF Closed
    <3>2. f \in wanted
      BY <2>4, <3>1 DEF wanted
    <3>3. f.ts <= e.ts
      BY <1>5, <2>1, <2>2, <3>1 DEF OrderInv
    <3>4. Newer(e, f)
      BY <1>5, <2>1, <2>2, <3>1, <3>3 DEF Newer
    <3>5. f \in answer
      BY <1>1, <1>2, <3>2, <3>4, FirstOfIsPrefix
    <3> QED BY <3>1, <3>5
  <2> QED BY <1>4, <2>1, <2>2, <2>3, <2>4
<1>7. ASSUME NEW e \in db[n].log, NEW x \in covered[e.actor] + 1 .. e.ctr - 1
      PROVE  \E f \in db[n].log \cup answer : f.actor = e.actor /\ f.ctr = x
  BY DEF Closed
<1> QED BY <1>6, <1>7 DEF Closed, answer, local

\* A set that loses what the vector b covers stays closed.
LEMMA ClosedWithout ==
    ASSUME NEW c \in Vector, NEW b \in Vector, \A a \in Node : c[a] <= b[a],
           NEW L \in SUBSET Event, Closed(c, L), NEW M \in SUBSET L,
           \A e \in L \ M : e.ctr <= b[e.actor]
    PROVE  Closed(b, M)
<1>1. Closed(b, L)
  BY ClosedFurther
<1> SUFFICES ASSUME NEW e \in M, NEW x \in b[e.actor] + 1 .. e.ctr - 1
             PROVE  \E f \in M : f.actor = e.actor /\ f.ctr = x
  BY DEF Closed
<1>2. PICK f \in L : f.actor = e.actor /\ f.ctr = x
  BY <1>1 DEF Closed
<1>3. b[e.actor] \in Nat /\ e.ctr \in Nat
  BY DEF Event, Vector
<1>4. x > b[e.actor]
  BY <1>3
<1>5. f \in M
  BY <1>2, <1>3, <1>4
<1> QED BY <1>2, <1>5

\* What a cluster without crashes has of each node: no gaps but where something was dropped.
NoGapsAt(n) ==
    /\ \A a \in Node : db[n].snapVector[a] <= covered[a]
    /\ Closed(covered, db[n].log) /\ Closed(covered, events[n])
    /\ phase[n] = "recovering" => Closed(covered, db[n].log \cup delta[n])
    /\ \A x \in covered[n] + 1 .. db[n].counter : \E e \in db[n].log : e.actor = n /\ e.ctr = x

GapInv == NoCrash => \A n \in Node : NoGapsAt(n)

\* A scan continues the node's own events where they end.
LEMMA ScanCloses ==
    ASSUME TypeOK, CountInv, OrderInv, NoCrash, NEW n \in Node, NoGapsAt(n)
    PROVE  /\ Closed(covered, Scan(n, db[n]).log)
           /\ \A x \in covered[n] + 1 .. Scan(n, db[n]).counter : \E e \in Scan(n, db[n]).log : e.actor = n /\ e.ctr = x
<1> DEFINE more == Cardinality(Unscanned(db[n]))
<1>1. Scan(n, db[n]).log = db[n].log \cup NewOf(n)
  BY ScanAdds
<1>2. Scan(n, db[n]).counter = db[n].counter + more
  BY Types, Scanned DEF Scan
<1>3. /\ \A e \in NewOf(n) : e.actor = n /\ e.ctr \in db[n].counter + 1 .. db[n].counter + more
      /\ \A x \in db[n].counter + 1 .. db[n].counter + more : \E e \in NewOf(n) : e.ctr = x
  BY Types, NewEventsAre DEF NewOf
<1>4. more \in Nat /\ db[n].counter \in Nat /\ covered[n] \in Nat
  BY Types, CountersOfScan, DbFields DEF TypeOK, Vector
<1> HIDE DEF more
<1>5. \A x \in covered[n] + 1 .. db[n].counter + more : \E e \in db[n].log \cup NewOf(n) : e.actor = n /\ e.ctr = x
  <2> TAKE x \in covered[n] + 1 .. db[n].counter + more
  <2>1. CASE x <= db[n].counter
    <3>1. x \in covered[n] + 1 .. db[n].counter
      BY <1>4, <2>1
    <3> QED BY <3>1 DEF NoGapsAt
  <2>2. CASE x > db[n].counter
    <3>1. x \in db[n].counter + 1 .. db[n].counter + more
      BY <1>4, <2>2
    <3> QED BY <1>3, <3>1
  <2> QED BY <1>4, <2>1, <2>2
<1>6. ASSUME NEW e \in NewOf(n), NEW x \in covered[e.actor] + 1 .. e.ctr - 1
      PROVE  \E f \in db[n].log \cup NewOf(n) : f.actor = e.actor /\ f.ctr = x
  <2>1. e.actor = n /\ e.ctr \in db[n].counter + 1 .. db[n].counter + more
    BY <1>3
  <2>2. x \in covered[n] + 1 .. db[n].counter + more
    BY <1>4, <2>1
  <2> QED BY <1>5, <2>1, <2>2
<1>7. \A e \in db[n].log : \A x \in covered[e.actor] + 1 .. e.ctr - 1 :
         \E f \in db[n].log \cup NewOf(n) : f.actor = e.actor /\ f.ctr = x
  BY DEF NoGapsAt, Closed
<1>8. Closed(covered, db[n].log \cup NewOf(n))
  BY <1>6, <1>7 DEF Closed
<1> QED BY <1>1, <1>2, <1>5, <1>8

\* No step makes a gap: each node's log, cache and kept answer stay closed.
LEMMA GapStep ==
    ASSUME TypeOK, CountInv, StampInv, OrderInv, GapInv, [Next]_vars, TypeOK', CountInv'
    PROVE  GapInv'
<1> SUFFICES ASSUME NoCrash' PROVE \A m \in Node : NoGapsAt(m)'
  BY DEF GapInv
<1>0. NoCrash /\ \A m \in Node : NoGapsAt(m)
  BY CrashesCount DEF GapInv
<1>a. /\ db \in [Node -> Db] /\ disk \in [Node -> Db] /\ phase \in [Node -> Phases]
      /\ delta \in [Node -> SUBSET Event] /\ events \in [Node -> SUBSET Event] /\ covered \in Vector
  BY DEF TypeOK
<1>b. ASSUME NEW n \in Node, covered' = covered,
             \A m \in Node : m # n => /\ db'[m] = db[m] /\ events'[m] = events[m]
                                      /\ phase'[m] = phase[m] /\ delta'[m] = delta[m],
             NoGapsAt(n)'
      PROVE  \A m \in Node : NoGapsAt(m)'
  <2>1. ASSUME NEW m \in Node, m # n
        PROVE  NoGapsAt(m)'
    BY <1>0, <1>b, <2>1 DEF NoGapsAt, Closed
  <2> QED BY <1>b, <2>1
<1>c. ASSUME NEW n \in Node, NoGapsAt(n), UNCHANGED <<db, events, covered>>,
             phase'[n] = "recovering" => Closed(covered', db'[n].log \cup delta'[n])
      PROVE  NoGapsAt(n)'
  BY <1>c DEF NoGapsAt
<1>d. ASSUME NEW n \in Node, NoGapsAt(n), NEW E, UNCHANGED <<events, covered>>, phase'[n] = "pulling",
             db'[n].log = db[n].log \cup E, db'[n].counter = db[n].counter,
             db'[n].snapVector = db[n].snapVector, Closed(covered', db'[n].log)
      PROVE  NoGapsAt(n)'
  <2>1. /\ \A a \in Node : db'[n].snapVector[a] <= covered'[a]
        /\ Closed(covered', events'[n])
    BY <1>d DEF NoGapsAt
  <2>2. \A y \in covered[n] + 1 .. db[n].counter : \E e \in db[n].log : e.actor = n /\ e.ctr = y
    BY <1>d DEF NoGapsAt
  <2>3. \A y \in covered'[n] + 1 .. db'[n].counter : \E e \in db'[n].log : e.actor = n /\ e.ctr = y
    BY <1>d, <2>2
  <2> QED BY <1>d, <2>1, <2>3 DEF NoGapsAt
<1>e. ASSUME NEW n \in Node, NoGapsAt(n), NEW x, db'[n] = x, covered' = covered, phase'[n] # "recovering",
             Closed(covered, x.log), \A c \in covered[n] + 1 .. x.counter : \E e \in x.log : e.actor = n /\ e.ctr = c,
             x.snapVector = db[n].snapVector, Closed(covered, events'[n])
      PROVE  NoGapsAt(n)'
  <2>1. \A a \in Node : x.snapVector[a] <= covered[a]
    BY <1>e DEF NoGapsAt
  <2> QED BY <1>e, <2>1 DEF NoGapsAt
<1>f. ASSUME covered' \in Vector, \A a \in Node : covered[a] <= covered'[a], NEW m \in Node, NoGapsAt(m)
      PROVE  /\ \A L \in SUBSET Event : Closed(covered, L) => Closed(covered', L)
             /\ \A c \in covered'[m] + 1 .. db[m].counter : \E e \in db[m].log : e.actor = m /\ e.ctr = c
             /\ \A a \in Node : db[m].snapVector[a] <= covered'[a]
  <2>1. \A L \in SUBSET Event : Closed(covered, L) => Closed(covered', L)
    BY <1>a, <1>f, ClosedFurther
  <2>2. \A a \in Node : covered[a] \in Nat /\ covered'[a] \in Nat /\ db[m].snapVector[a] \in Nat
    BY <1>a, <1>f, Types, DbFields DEF Vector
  <2>3. db[m].counter \in Nat
    BY Types, DbFields
  <2>4. ASSUME NEW c \in covered'[m] + 1 .. db[m].counter
        PROVE  \E e \in db[m].log : e.actor = m /\ e.ctr = c
    <3>1. c \in covered[m] + 1 .. db[m].counter
      BY <1>f, <2>2, <2>3
    <3> QED BY <1>f, <3>1 DEF NoGapsAt
  <2>5. \A a \in Node : db[m].snapVector[a] <= covered[a]
    BY <1>f DEF NoGapsAt
  <2>6. \A a \in Node : db[m].snapVector[a] <= covered'[a]
    BY <1>f, <2>2, <2>5
  <2> QED BY <2>1, <2>4, <2>6
<1>g. ASSUME covered' \in Vector, \A a \in Node : covered[a] <= covered'[a], NEW m \in Node,
             db'[m] = db[m], events'[m] = events[m], phase'[m] = phase[m], delta'[m] = delta[m]
      PROVE  NoGapsAt(m)'
  <2>1. db[m].log \in SUBSET Event /\ events[m] \in SUBSET Event /\ db[m].log \cup delta[m] \in SUBSET Event
    BY Types, DbFields
  <2>2. /\ Closed(covered, db[m].log) /\ Closed(covered, events[m])
        /\ phase[m] = "recovering" => Closed(covered, db[m].log \cup delta[m])
    BY <1>0 DEF NoGapsAt
  <2>3. /\ Closed(covered', db[m].log) /\ Closed(covered', events[m])
        /\ phase[m] = "recovering" => Closed(covered', db[m].log \cup delta[m])
    BY <1>0, <1>f, <1>g, <2>1, <2>2
  <2>4. /\ \A c \in covered'[m] + 1 .. db[m].counter : \E e \in db[m].log : e.actor = m /\ e.ctr = c
        /\ \A a \in Node : db[m].snapVector[a] <= covered'[a]
    BY <1>0, <1>f, <1>g
  <2>5. /\ Closed(covered', db'[m].log) /\ Closed(covered', events'[m])
        /\ phase'[m] = "recovering" => Closed(covered', db'[m].log \cup delta'[m])
    BY <1>g, <2>3
  <2>6. /\ \A c \in covered'[m] + 1 .. db'[m].counter : \E e \in db'[m].log : e.actor = m /\ e.ctr = c
        /\ \A a \in Node : db'[m].snapVector[a] <= covered'[a]
    BY <1>g, <2>4
  <2> QED BY <2>5, <2>6 DEF NoGapsAt
<1>1. ASSUME NEW n \in Node, NEW k \in Key, NEW r \in Row, WriteRow(n, k, r)
      PROVE  \A m \in Node : NoGapsAt(m)'
  <2>1. /\ db' = [db EXCEPT ![n] = [db[n] EXCEPT !.row[k] = r]]
        /\ UNCHANGED <<events, phase, delta, covered>>
    BY <1>a, <1>1 DEF WriteRow, syncVars, cacheVars, Db
  <2>2. \A d \in Db : /\ [d EXCEPT !.row[k] = r].log = d.log /\ [d EXCEPT !.row[k] = r].counter = d.counter
                      /\ [d EXCEPT !.row[k] = r].snapVector = d.snapVector
    BY DEF Db
  <2>3. /\ db'[n].log = db[n].log /\ db'[n].counter = db[n].counter /\ db'[n].snapVector = db[n].snapVector
        /\ \A m \in Node : m # n => db'[m] = db[m]
    BY <1>a, <2>1, <2>2
  <2>4. NoGapsAt(n)'
    BY <1>0, <2>1, <2>3 DEF NoGapsAt, Closed
  <2> QED BY <1>b, <2>1, <2>3, <2>4
<1>2. ASSUME NEW n \in Node, BeginSync(n)
      PROVE  \A m \in Node : NoGapsAt(m)'
  <2> DEFINE x == Scan(n, db[n])
  <2>1. /\ Closed(covered, x.log) /\ \A c \in covered[n] + 1 .. x.counter : \E e \in x.log : e.actor = n /\ e.ctr = c
        /\ x.snapVector = db[n].snapVector
    BY <1>0, ScanCloses, Types, Scanned DEF Scan
  <2>2. /\ db' = [db EXCEPT ![n] = x] /\ phase' = [phase EXCEPT ![n] = "pulling"]
        /\ UNCHANGED <<delta, events, covered>>
    BY <1>2 DEF BeginSync
  <2> HIDE DEF x
  <2>3. db'[n] = x /\ phase'[n] = "pulling" /\ \A m \in Node : m # n => db'[m] = db[m] /\ phase'[m] = phase[m]
    BY <1>a, <2>2
  <2>4. phase'[n] # "recovering" /\ Closed(covered, events'[n]) /\ NoGapsAt(n)
    BY <1>0, <2>2, <2>3 DEF NoGapsAt
  <2>5. NoGapsAt(n)'
    BY <1>e, <2>1, <2>2, <2>3, <2>4
  <2> QED BY <1>b, <2>2, <2>3, <2>5
<1>3. ASSUME NEW n \in Node, NEW p \in Node, PullDelta(n, p)
      PROVE  \A m \in Node : NoGapsAt(m)'
  <2> DEFINE answer == getDeltaFromCache(p, getEffectiveVersionVector(db[n]))
             x == applyRemoteEvents(db[n], answer)
  <2>1. Closed(covered, db[n].log \cup answer)
    BY <1>0, AnswerCloses DEF NoGapsAt
  <2>2. answer \in SUBSET Event
    BY AnswerIs
  <2>3. /\ x.log = db[n].log \cup Fresh(db[n], answer) /\ x.counter = db[n].counter
        /\ x.snapVector = db[n].snapVector
    BY Types, AnswerIs, Applied
  <2> HIDE DEF answer, x
  <2>4. Closed(covered, x.log)
    BY <1>a, <2>1, <2>2, <2>3, ClosedApplied
  <2>5. UNCHANGED <<events, covered>>
    BY <1>3 DEF PullDelta, cacheVars
  <2>6. CASE phase' = [phase EXCEPT ![n] = "recovering"] /\ delta' = [delta EXCEPT ![n] = answer] /\ UNCHANGED db
    <3>1. /\ delta'[n] = answer
          /\ \A m \in Node : m # n => phase'[m] = phase[m] /\ delta'[m] = delta[m]
      BY <1>a, <2>6
    <3>2. Closed(covered', db'[n].log \cup delta'[n])
      BY <2>1, <2>5, <2>6, <3>1
    <3>3. NoGapsAt(n)'
      BY <1>0, <1>c, <2>5, <2>6, <3>2
    <3> QED BY <1>b, <2>5, <2>6, <3>1, <3>3
  <2>7. CASE db' = [db EXCEPT ![n] = x] /\ UNCHANGED <<phase, delta>>
    <3>1. phase[n] = "pulling"
      BY <1>3 DEF PullDelta
    <3>2. db'[n] = x /\ \A m \in Node : m # n => db'[m] = db[m]
      BY <1>a, <2>7
    <3>3. Closed(covered', db'[n].log) /\ db'[n].snapVector = db[n].snapVector /\ phase'[n] = "pulling"
      BY <2>3, <2>4, <2>5, <2>7, <3>1, <3>2
    <3>4. NoGapsAt(n)'
      BY <1>0, <1>d, <2>3, <2>5, <3>2, <3>3
    <3> QED BY <1>b, <2>5, <2>7, <3>2, <3>4
  <2> QED BY <1>3, <2>6, <2>7 DEF PullDelta, answer, x
<1>4. ASSUME NEW n \in Node, SnapshotArrives(n)
      PROVE  \A m \in Node : NoGapsAt(m)'
  <2> DEFINE s == snapshot[source[n]]
             x == applySnapshot(db[n], s)
  <2>1. s \in Snap
    BY <1>4, Types DEF SnapshotArrives, CountInv
  <2>2. x.log = db[n].log /\ x.counter = db[n].counter /\ x.snapVector = s.vector
    BY <2>1, Types, SnapshotApplied
  <2>3. /\ db' = [db EXCEPT ![n] = x] /\ phase' = [phase EXCEPT ![n] = "pulling"]
        /\ delta' = [delta EXCEPT ![n] = {}] /\ events' = events
        /\ Cover(s.vector)
    BY <1>4 DEF SnapshotArrives, cacheVars
  <2>4. covered' \in Vector /\ s.vector \in Vector
    BY <2>1 DEF TypeOK, Snap
  <2> HIDE DEF s, x
  <2>5. \A a \in Node : covered[a] <= covered'[a] /\ s.vector[a] <= covered'[a]
    BY <1>a, <2>3, <2>4, Covering
  <2>6. /\ db'[n] = x /\ phase'[n] = "pulling"
        /\ \A m \in Node : m # n => db'[m] = db[m] /\ phase'[m] = phase[m] /\ delta'[m] = delta[m]
    BY <1>a, <2>3
  <2>7. /\ Closed(covered', db[n].log) /\ Closed(covered', events[n])
        /\ \A c \in covered'[n] + 1 .. db[n].counter : \E e \in db[n].log : e.actor = n /\ e.ctr = c
    <3>1. Closed(covered, db[n].log) /\ Closed(covered, events[n])
      BY <1>0 DEF NoGapsAt
    <3> QED BY <1>0, <1>f, <2>4, <2>5, <3>1, Types, DbFields
  <2>8. NoGapsAt(n)'
    <3>1. Closed(covered', db'[n].log) /\ Closed(covered', events'[n])
      BY <2>2, <2>3, <2>6, <2>7
    <3>2. \A c \in covered'[n] + 1 .. db'[n].counter : \E e \in db'[n].log : e.actor = n /\ e.ctr = c
      BY <2>2, <2>6, <2>7
    <3>3. \A a \in Node : db'[n].snapVector[a] <= covered'[a]
      BY <2>2, <2>5, <2>6
    <3> QED BY <2>6, <3>1, <3>2, <3>3 DEF NoGapsAt
  <2>9. ASSUME NEW m \in Node, m # n
        PROVE  NoGapsAt(m)'
    BY <1>g, <2>3, <2>4, <2>5, <2>6, <2>9
  <2> QED BY <2>8, <2>9
<1>5. ASSUME NEW n \in Node, SnapshotFails(n)
      PROVE  \A m \in Node : NoGapsAt(m)'
  <2> DEFINE x == applyRemoteEvents(db[n], delta[n])
  <2>1. Closed(covered, db[n].log \cup delta[n])
    BY <1>0, <1>5 DEF NoGapsAt, SnapshotFails
  <2>2. /\ x.log = db[n].log \cup Fresh(db[n], delta[n]) /\ x.counter = db[n].counter
        /\ x.snapVector = db[n].snapVector
    BY Types, DeltaIs, Applied
  <2>3. Closed(covered, x.log)
    BY <1>a, <2>1, <2>2, ClosedApplied
  <2>4. /\ db' = [db EXCEPT ![n] = x] /\ phase' = [phase EXCEPT ![n] = "pulling"]
        /\ delta' = [delta EXCEPT ![n] = {}] /\ UNCHANGED <<events, covered>>
    BY <1>5 DEF SnapshotFails, cacheVars
  <2> HIDE DEF x
  <2>5. /\ db'[n] = x /\ phase'[n] = "pulling"
        /\ \A m \in Node : m # n => db'[m] = db[m] /\ phase'[m] = phase[m] /\ delta'[m] = delta[m]
    BY <1>a, <2>4
  <2>6. Closed(covered', db'[n].log) /\ db'[n].snapVector = db[n].snapVector
    BY <2>2, <2>3, <2>4, <2>5
  <2>7. NoGapsAt(n)'
    BY <1>0, <1>d, <2>2, <2>4, <2>5, <2>6
  <2> QED BY <1>b, <2>4, <2>5, <2>7
<1>6. ASSUME NEW n \in Node, FinishSync(n)
      PROVE  \A m \in Node : NoGapsAt(m)'
  <2> DEFINE y == Scan(n, db[n])
  <2>1. PICK x \in maybeCompact(y) : db' = [db EXCEPT ![n] = x] /\ refreshCache(n, x)
    BY <1>6 DEF FinishSync
  <2>2. y \in Kept
    BY <1>6, Types, ScanKept DEF FinishSync, Scan
  <2>3. db'[n] = x /\ \A m \in Node : m # n => db'[m] = db[m]
    BY <1>a, <2>1
  <2>4. x.log \subseteq y.log /\ x.counter = y.counter /\ x.snapVector = y.snapVector
    <3> HIDE DEF y
    <3> QED BY <2>1, <2>2, MayBeCompacted DEF Kept
  <2>5. /\ Closed(covered, y.log)
        /\ \A c \in covered[n] + 1 .. y.counter : \E e \in y.log : e.actor = n /\ e.ctr = c
        /\ y.snapVector = db[n].snapVector
    BY <1>0, ScanCloses, Types, Scanned DEF Scan
  <2>6. /\ events' = [events EXCEPT ![n] = LastOf(x.log, CacheLimit)]
        /\ phase' = [phase EXCEPT ![n] = "unsaved"] /\ delta' = delta
        /\ Cover(VectorOf(y.log \ events'[n]))
    BY <1>6, <2>1 DEF FinishSync, refreshCache
  <2> HIDE DEF y
  <2>7. /\ events'[n] \subseteq x.log /\ phase'[n] = "unsaved"
        /\ \A m \in Node : m # n => events'[m] = events[m] /\ phase'[m] = phase[m]
    BY <1>a, <2>6 DEF LastOf
  <2>8. /\ covered' \in Vector /\ \A a \in Node : covered[a] <= covered'[a]
        /\ \A e \in y.log \ events'[n] : e.ctr <= covered'[e.actor]
    <3>1. /\ VectorOf(y.log \ events'[n]) \in Vector
          /\ \A e \in y.log \ events'[n] : e.ctr <= VectorOf(y.log \ events'[n])[e.actor]
      BY <2>2, DroppedIs
    <3> DEFINE v == VectorOf(y.log \ events'[n])
    <3> HIDE DEF v
    <3>2. v \in Vector /\ \A e \in y.log \ events'[n] : e.ctr <= v[e.actor]
      BY <3>1 DEF v
    <3>3. covered' \in Vector /\ \A a \in Node : covered[a] <= covered'[a] /\ v[a] <= covered'[a]
      BY <1>a, <2>6, <3>2, Covering DEF v
    <3>4. \A e \in y.log : e.actor \in Node /\ e.ctr \in Nat
      BY <2>2, DbFields DEF Kept, Event
    <3>5. \A a \in Node : v[a] \in Nat /\ covered'[a] \in Nat
      BY <3>2, <3>3 DEF Vector
    <3>6. ASSUME NEW e \in y.log \ events'[n]
          PROVE  e.ctr <= covered'[e.actor]
      BY <3>2, <3>3, <3>4, <3>5
    <3> QED BY <3>3, <3>6
  <2>9. Closed(covered', x.log) /\ Closed(covered', events'[n])
    <3>1. y.log \in SUBSET Event
      BY <2>2, DbFields DEF Kept
    <3>2. \A M \in SUBSET y.log : events'[n] \subseteq M => Closed(covered', M)
      BY <1>a, <2>5, <2>8, <3>1, ClosedWithout
    <3> QED BY <2>4, <2>7, <3>2
  <2>10. \A c \in covered'[n] + 1 .. x.counter : \E e \in x.log : e.actor = n /\ e.ctr = c
    <3> TAKE c \in covered'[n] + 1 .. x.counter
    <3>1. covered[n] \in Nat /\ covered'[n] \in Nat /\ covered[n] <= covered'[n] /\ x.counter \in Nat
      BY <1>a, <2>2, <2>4, <2>8, DbFields DEF Vector, Kept
    <3>2. c \in covered[n] + 1 .. y.counter
      BY <2>4, <3>1
    <3>3. PICK e \in y.log : e.actor = n /\ e.ctr = c
      BY <2>5, <3>2
    <3>4. e \in events'[n]
      BY <2>8, <3>1, <3>3
    <3> QED BY <2>7, <3>3, <3>4
  <2>11. \A a \in Node : x.snapVector[a] <= covered'[a]
    BY <1>0, <1>f, <2>4, <2>5, <2>8
  <2>12. NoGapsAt(n)'
    <3>1. Closed(covered', db'[n].log) /\ Closed(covered', events'[n])
      BY <2>3, <2>9
    <3>2. \A c \in covered'[n] + 1 .. db'[n].counter : \E e \in db'[n].log : e.actor = n /\ e.ctr = c
      BY <2>3, <2>10
    <3>3. \A a \in Node : db'[n].snapVector[a] <= covered'[a]
      BY <2>3, <2>11
    <3> QED BY <2>7, <3>1, <3>2, <3>3 DEF NoGapsAt
  <2>13. ASSUME NEW m \in Node, m # n
         PROVE  NoGapsAt(m)'
    BY <1>g, <2>3, <2>6, <2>7, <2>8, <2>13
  <2> QED BY <2>12, <2>13
<1>7. ASSUME NEW n \in Node, Save(n)
      PROVE  \A m \in Node : NoGapsAt(m)'
  <2>1. phase' = [phase EXCEPT ![n] = "idle"] /\ UNCHANGED <<db, delta, events, covered>>
    BY <1>7 DEF Save, cacheVars
  <2>2. phase'[n] = "idle" /\ \A m \in Node : m # n => phase'[m] = phase[m]
    BY <1>a, <2>1
  <2>3. NoGapsAt(n)'
    BY <1>0, <2>1, <2>2 DEF NoGapsAt
  <2> QED BY <1>b, <2>1, <2>2, <2>3
<1>8. ASSUME NEW n \in Node, Crash(n)
      PROVE  FALSE
  BY <1>0, <1>8 DEF Crash, NoCrash, TypeOK
<1>9. ASSUME NEW n \in Node, NEW p \in Node, PullFails(n, p) \/ UNCHANGED vars
      PROVE  \A m \in Node : NoGapsAt(m)'
  <2>1. UNCHANGED <<db, phase, delta, events, covered>>
    BY <1>9 DEF PullFails, vars, dbVars, syncVars, cacheVars
  <2> QED BY <1>0, <2>1 DEF NoGapsAt, Closed
<1> QED BY <1>1, <1>2, <1>3, <1>4, <1>5, <1>6, <1>7, <1>8, <1>9 DEF Next

-----------------------------------------------------------------------------
(* Versions, and rows, with the clocks of all nodes in step.               *)

InStep == \A m, n \in Node : Offset[m] = Offset[n]

\* How a step moves the version of a row: an event that came in and is newer sets it, or a
\* scan, or a crash puts it back.
VersionMoves(n, k) ==
    LET old == db[n].version[k]
        new == db'[n].version[k]
    IN  \/ new = old
        \/ \E e \in Ever : new = VersionOf(e) /\ Newer(VersionOf(e), old)
        \/ new.ts = now + Offset[n] /\ now' = now + 1
        \/ new = disk[n].version[k] /\ budget'.crashes > budget.crashes

\* A scan gives the rows that have changed the time of the scan.
LEMMA ScanMoves ==
    ASSUME TypeOK, CountInv, NEW n \in Node, NEW k \in Key,
           now' = IF Unscanned(db[n]) = {} THEN now ELSE now + 1,
           db'[n].version = Scan(n, db[n]).version
    PROVE  VersionMoves(n, k)
<1>1. Scan(n, db[n]).version[k] =
        IF k \in Unscanned(db[n]) THEN VersionOf(EventOf(db[n], n, now + Offset[n], k))
        ELSE db[n].version[k]
  BY Types, Scanned DEF Scan
<1>2. VersionOf(EventOf(db[n], n, now + Offset[n], k)).ts = now + Offset[n]
  BY DEF VersionOf, EventOf
<1>3. CASE k \in Unscanned(db[n])
  <2>1. now' = now + 1
    BY <1>3
  <2> QED BY <1>1, <1>2, <1>3, <2>1 DEF VersionMoves
<1>4. CASE k \notin Unscanned(db[n])
  BY <1>1, <1>4 DEF VersionMoves
<1> QED BY <1>3, <1>4

\* An event that is applied is newer than the version it replaces.
LEMMA ApplyMoves ==
    ASSUME TypeOK, CountInv, NEW n \in Node, NEW k \in Key, NEW E \in SUBSET Event,
           IsFiniteSet(E), Distinct(E), E \subseteq Ever,
           db'[n].version = applyRemoteEvents(db[n], E).version
    PROVE  VersionMoves(n, k)
<1> DEFINE F == FreshOf(db[n], E, k)
<1>1. applyRemoteEvents(db[n], E).version[k] =
        IF Wins(db[n], E, k) THEN VersionOf(Newest(F)) ELSE db[n].version[k]
  BY Types, Applied
<1>2. CASE Wins(db[n], E, k)
  <2>1. F # {} /\ shouldApplyEvent(db[n], Newest(F))
    BY <1>2 DEF Wins
  <2>2. F \subseteq E /\ \A e \in F : e.key = k
    BY DEF FreshOf, Fresh
  <2>3. F \in SUBSET Event /\ IsFiniteSet(F) /\ Distinct(F)
    BY <2>2, FS_Subset DEF Distinct
  <2> HIDE DEF F
  <2>4. Newest(F) \in F
    BY <2>1, <2>3, NewestOf
  <2>5. Newest(F) \in Ever /\ Newest(F).key = k
    BY <2>2, <2>4
  <2> QED BY <1>1, <1>2, <2>1, <2>5 DEF VersionMoves, shouldApplyEvent
<1>3. CASE ~Wins(db[n], E, k)
  BY <1>1, <1>3 DEF VersionMoves
<1> QED BY <1>2, <1>3

\* These are the only ways, and a version is saved as it is.
LEMMA VersionsMove ==
    ASSUME TypeOK, CountInv, StampInv, [Next]_vars
    PROVE  /\ now' = now \/ now' = now + 1
           /\ \A m \in Node, j \in Key :
                 /\ VersionMoves(m, j)
                 /\ disk'[m].version[j] \in {disk[m].version[j], db[m].version[j]}
<1>0. /\ disk \in [Node -> Db] /\ db \in [Node -> Db]
      /\ budget \in [writes : 0 .. MaxWrites, crashes : 0 .. MaxCrashes]
  BY DEF TypeOK
<1> DEFINE Goal == /\ now' = now \/ now' = now + 1
                   /\ \A m \in Node, j \in Key :
                         /\ VersionMoves(m, j)
                         /\ disk'[m].version[j] \in {disk[m].version[j], db[m].version[j]}
<1>a. ASSUME NEW n \in Node, now' = now \/ now' = now + 1, \A j \in Key : VersionMoves(n, j),
             \A m \in Node : m # n => db'[m] = db[m],
             \A m \in Node, j \in Key : disk'[m].version[j] \in {disk[m].version[j], db[m].version[j]}
      PROVE  Goal
  <2>1. ASSUME NEW m \in Node, NEW j \in Key, m # n
        PROVE  VersionMoves(m, j)
    BY <1>a, <2>1 DEF VersionMoves
  <2> QED BY <1>a, <2>1
<1> HIDE DEF Goal
<1>1. ASSUME NEW n \in Node, NEW k \in Key, NEW r \in Row, WriteRow(n, k, r)
      PROVE  Goal
  <2>1. /\ disk' = [disk EXCEPT ![n] = [disk[n] EXCEPT !.row[k] = r]]
        /\ db' = [db EXCEPT ![n] = [db[n] EXCEPT !.row[k] = r]] /\ now' = now
    BY <1>0, <1>1 DEF WriteRow, Db
  <2>2. \A d \in Db : [d EXCEPT !.row[k] = r].version = d.version
    BY DEF Db
  <2>3. /\ \A m \in Node : db'[m].version = db[m].version /\ disk'[m].version = disk[m].version
        /\ \A m \in Node : m # n => db'[m] = db[m]
    BY <1>0, <2>1, <2>2
  <2>4. \A j \in Key : VersionMoves(n, j)
    BY <2>3 DEF VersionMoves
  <2> QED BY <1>a, <2>1, <2>3, <2>4
<1>2. ASSUME NEW n \in Node, NEW x, x.version = Scan(n, db[n]).version, db' = [db EXCEPT ![n] = x],
             Tick(db[n]), disk' = disk
      PROVE  Goal
  <2>1. now' = IF Unscanned(db[n]) = {} THEN now ELSE now + 1
    BY <1>2 DEF Tick
  <2>2. db'[n].version = Scan(n, db[n]).version /\ \A m \in Node : m # n => db'[m] = db[m]
    BY <1>0, <1>2
  <2>3. \A j \in Key : VersionMoves(n, j)
    BY <2>1, <2>2, ScanMoves
  <2>4. now' = now \/ now' = now + 1
    BY <2>1
  <2> QED BY <1>2, <1>a, <2>2, <2>3, <2>4
<1>3. ASSUME NEW n \in Node, NEW E \in SUBSET Event, IsFiniteSet(E), Distinct(E), E \subseteq Ever,
             db' = [db EXCEPT ![n] = applyRemoteEvents(db[n], E)], disk' = disk, now' = now
      PROVE  Goal
  <2>1. db'[n].version = applyRemoteEvents(db[n], E).version /\ \A m \in Node : m # n => db'[m] = db[m]
    BY <1>0, <1>3
  <2>2. \A j \in Key : VersionMoves(n, j)
    BY <1>3, <2>1, ApplyMoves
  <2> QED BY <1>3, <1>a, <2>1, <2>2
<1>4. ASSUME \A m \in Node : db'[m].version = db[m].version, now' = now,
             \A m \in Node : disk'[m] \in {disk[m], db[m]}
      PROVE  Goal
  <2>1. \A m \in Node, j \in Key : VersionMoves(m, j)
    BY <1>4 DEF VersionMoves
  <2>2. \A m \in Node, j \in Key : disk'[m].version[j] \in {disk[m].version[j], db[m].version[j]}
    BY <1>4
  <2> QED BY <1>4, <2>1, <2>2 DEF Goal
<1>5. ASSUME NEW n \in Node, BeginSync(n)
      PROVE  Goal
  BY <1>2, <1>5 DEF BeginSync
<1>6. ASSUME NEW n \in Node, NEW p \in Node, PullDelta(n, p)
      PROVE  Goal
  <2> DEFINE answer == getDeltaFromCache(p, getEffectiveVersionVector(db[n]))
  <2>1. UNCHANGED db \/ db' = [db EXCEPT ![n] = applyRemoteEvents(db[n], answer)]
    BY <1>6 DEF PullDelta
  <2>2. disk' = disk /\ now' = now
    BY <1>6 DEF PullDelta
  <2>3. answer \in SUBSET Event /\ IsFiniteSet(answer) /\ Distinct(answer) /\ answer \subseteq Ever
    BY AnswerIs, InAll
  <2> HIDE DEF answer
  <2>4. CASE UNCHANGED db
    BY <1>4, <2>2, <2>4
  <2> QED BY <1>3, <2>1, <2>2, <2>3, <2>4
<1>7. ASSUME NEW n \in Node, SnapshotArrives(n)
      PROVE  Goal
  <2>1. snapshot[source[n]] \in Snap /\ db' = [db EXCEPT ![n] = applySnapshot(db[n], snapshot[source[n]])]
    BY <1>7, Types DEF SnapshotArrives, CountInv
  <2>2. applySnapshot(db[n], snapshot[source[n]]).version = db[n].version
    BY <2>1, Types, SnapshotApplied
  <2>3. disk' = disk /\ now' = now
    BY <1>7 DEF SnapshotArrives
  <2>4. \A m \in Node : db'[m].version = db[m].version
    BY <1>0, <2>1, <2>2
  <2> QED BY <1>4, <2>3, <2>4
<1>8. ASSUME NEW n \in Node, SnapshotFails(n)
      PROVE  Goal
  <2>1. db' = [db EXCEPT ![n] = applyRemoteEvents(db[n], delta[n])] /\ disk' = disk /\ now' = now
    BY <1>8 DEF SnapshotFails
  <2>2. delta[n] \subseteq Ever
    BY InAll
  <2> QED BY <1>3, <2>1, <2>2, DeltaIs
<1>9. ASSUME NEW n \in Node, FinishSync(n)
      PROVE  Goal
  <2>1. PICK x \in maybeCompact(Scan(n, db[n])) : db' = [db EXCEPT ![n] = x]
    BY <1>9 DEF FinishSync
  <2>2. Scan(n, db[n]) \in Kept
    BY <1>9, Types, ScanKept DEF FinishSync, Scan
  <2>3. x.version = Scan(n, db[n]).version
    BY <2>1, <2>2, MayBeCompacted DEF Kept
  <2>4. Tick(db[n]) /\ disk' = disk
    BY <1>9 DEF FinishSync
  <2> QED BY <1>2, <2>1, <2>3, <2>4
<1>10. ASSUME NEW n \in Node, Save(n)
      PROVE  Goal
  <2>1. disk' = [disk EXCEPT ![n] = db[n]] /\ UNCHANGED <<db, now>>
    BY <1>10 DEF Save
  <2>2. \A m \in Node : disk'[m] \in {disk[m], db[m]}
    BY <1>0, <2>1
  <2> QED BY <1>4, <2>1, <2>2
<1>11. ASSUME NEW n \in Node, Crash(n)
      PROVE  Goal
  <2>1. /\ db' = [db EXCEPT ![n] = disk[n]] /\ budget' = [budget EXCEPT !.crashes = @ + 1]
        /\ UNCHANGED <<disk, now>>
    BY <1>11 DEF Crash
  <2>2. budget'.crashes > budget.crashes
    BY <1>0, <2>1, LimitsAssumption
  <2>3. db'[n] = disk[n] /\ \A m \in Node : m # n => db'[m] = db[m]
    BY <1>0, <2>1
  <2>4. \A j \in Key : VersionMoves(n, j)
    BY <2>2, <2>3 DEF VersionMoves
  <2> QED BY <1>a, <2>1, <2>3, <2>4
<1>12. ASSUME UNCHANGED vars \/ \E n, p \in Node : PullFails(n, p)
      PROVE  Goal
  <2>1. UNCHANGED <<db, disk, now>>
    BY <1>12 DEF PullFails, vars, dbVars
  <2> QED BY <1>4, <2>1
<1>13. Goal
  BY <1>1, <1>5, <1>6, <1>7, <1>8, <1>9, <1>10, <1>11, <1>12 DEF Next
<1> QED BY <1>13 DEF Goal

\* No row has a version of a time to come.
VersionInv ==
    InStep => \A n \in Node, k \in Key : /\ db[n].version[k].ts < now + Offset[n]
                                         /\ disk[n].version[k].ts < now + Offset[n]

\* Every step keeps versions in the past.
LEMMA VersionStep ==
    ASSUME TypeOK, CountInv, StampInv, VersionInv, [Next]_vars
    PROVE  VersionInv'
<1> SUFFICES ASSUME InStep, NEW n \in Node, NEW k \in Key
             PROVE  /\ db'[n].version[k].ts < now' + Offset[n]
                    /\ disk'[n].version[k].ts < now' + Offset[n]
  BY DEF VersionInv
<1>1. /\ now \in Nat /\ Offset[n] \in Nat
      /\ db[n].version[k].ts \in Nat /\ disk[n].version[k].ts \in Nat
  <2>1. db[n].version[k] \in Version \cup {NoVersion} /\ disk[n].version[k] \in Version \cup {NoVersion}
    BY Types, DbFields
  <2> QED BY <2>1, LimitsAssumption DEF TypeOK, Version, NoVersion
<1>2. db[n].version[k].ts < now + Offset[n] /\ disk[n].version[k].ts < now + Offset[n]
  BY DEF VersionInv
<1>3. now' = now \/ now' = now + 1
  BY VersionsMove
<1>4. disk'[n].version[k].ts < now' + Offset[n]
  <2>1. disk'[n].version[k] \in {disk[n].version[k], db[n].version[k]}
    BY VersionsMove
  <2> QED BY <1>1, <1>2, <1>3, <2>1
<1>5. ASSUME NEW e \in Ever
      PROVE  VersionOf(e).ts < now' + Offset[n]
  <2>1. e.ts \in Nat /\ e.ts < now + Offset[e.actor] /\ e.actor \in Node
    BY DEF StampInv, Ever, Event
  <2>2. Offset[e.actor] = Offset[n]
    BY <2>1 DEF InStep
  <2> QED BY <1>1, <1>3, <2>1, <2>2 DEF VersionOf
<1>6. VersionMoves(n, k)
  BY VersionsMove
<1>7. ASSUME db'[n].version[k].ts = now + Offset[n], now' = now + 1
      PROVE  db'[n].version[k].ts < now' + Offset[n]
  BY <1>1, <1>7
<1>8. db'[n].version[k].ts < now' + Offset[n]
  BY <1>1, <1>2, <1>3, <1>5, <1>6, <1>7 DEF VersionMoves
<1> QED BY <1>4, <1>8

\* So a scan, which stamps later, and an event that is applied make the version newer.
LEMMA VersionGrows ==
    ASSUME TypeOK, CountInv, StampInv, VersionInv, [Next]_vars, InStep, NEW n \in Node, NEW k \in Key
    PROVE  \/ db'[n].version[k] = db[n].version[k]
           \/ Newer(db'[n].version[k], db[n].version[k])
           \/ budget'.crashes > budget.crashes
<1>1. VersionMoves(n, k)
  BY VersionsMove
<1>2. CASE db'[n].version[k].ts = now + Offset[n]
  <2>1. db[n].version[k].ts < now + Offset[n] /\ now + Offset[n] \in Nat
    BY Types DEF VersionInv
  <2>2. db[n].version[k].ts \in Nat
    <3>1. db[n].version[k] \in Version \cup {NoVersion}
      BY Types, DbFields
    <3> QED BY <3>1 DEF Version, NoVersion
  <2>3. db'[n].version[k].ts > db[n].version[k].ts
    BY <1>2, <2>1, <2>2
  <2> QED BY <2>3 DEF Newer
<1> QED BY <1>1, <1>2 DEF VersionMoves

-----------------------------------------------------------------------------
\* A row is what the newest event about it says, in its hash and in its version.
Follows(d, k) ==
    LET about == {e \in d.log : e.key = k}
    IN  \/ about = {} /\ d.hash[k] = NoRow /\ d.version[k] = NoVersion
        \/ \E e \in about : /\ \A f \in about \ {e} : Newer(e, f)
                            /\ d.hash[k] = e.row /\ d.version[k] = VersionOf(e)

\* So it is while the log is whole and ids are unique, and clocks are in step.
Whole(n) == ~Pruned(n) \/ covered = NoVector

RowInv ==
    InStep /\ NoCrash => \A n \in Node, k \in Key : Whole(n) => Follows(db[n], k)

\* The event of a scan is the newest of its row.
LEMMA ScanFollows ==
    ASSUME TypeOK, CountInv, StampInv, OrderInv, NoCrash, InStep,
           NEW n \in Node, NEW k \in Key, Follows(db[n], k)
    PROVE  Follows(Scan(n, db[n]), k)
<1> DEFINE d == db[n]
           x == Scan(n, d)
           new == EventOf(d, n, now + Offset[n], k)
           about == {e \in d.log : e.key = k}
<1>1. x.log = d.log \cup NewOf(n)
  BY ScanAdds
<1>2. /\ x.hash = d.row
      /\ x.version[k] = IF k \in Unscanned(d) THEN VersionOf(new) ELSE d.version[k]
  BY Types, Scanned DEF Scan
<1>3. /\ \A e \in NewOf(n) : e.key \in Unscanned(d) /\ e = EventOf(d, n, now + Offset[n], e.key)
      /\ k \in Unscanned(d) => new \in NewOf(n)
  BY Types, NewEventsAre DEF NewOf
<1>4. new.ts = now + Offset[n] /\ new.key = k /\ new.row = d.row[k]
  BY DEF EventOf
<1>5. k \notin Unscanned(d) => d.hash[k] = d.row[k]
  BY DEF Unscanned
<1> HIDE DEF x, new
<1>6. CASE k \in Unscanned(d)
  <2>1. {e \in x.log : e.key = k} = about \cup {new}
    BY <1>1, <1>3, <1>4, <1>6 DEF new
  <2>2. ASSUME NEW f \in about
        PROVE  Newer(new, f)
    <3>1. f \in Ever /\ f.ts \in Nat /\ f.actor \in Node
      BY InAll, Types, DbFields DEF Event
    <3>2. f.ts < now + Offset[f.actor] /\ Offset[f.actor] = Offset[n]
      BY <3>1 DEF StampInv, InStep
    <3>3. new.ts > f.ts
      BY <1>4, <3>1, <3>2, Types
    <3> QED BY <3>3 DEF Newer
  <2>3. x.hash[k] = new.row /\ x.version[k] = VersionOf(new)
    BY <1>2, <1>4, <1>6
  <2> QED BY <2>1, <2>2, <2>3 DEF Follows, x
<1>7. CASE k \notin Unscanned(d)
  <2>1. {e \in x.log : e.key = k} = about
    BY <1>1, <1>3, <1>7
  <2>2. x.hash[k] = d.hash[k] /\ x.version[k] = d.version[k]
    BY <1>2, <1>5, <1>7
  <2> QED BY <2>1, <2>2 DEF Follows, x
<1> QED BY <1>6, <1>7

\* Of the events that come in the newest decides, unless the log has a newer one.
LEMMA ApplyFollows ==
    ASSUME TypeOK, CountInv, StampInv, NEW n \in Node, NEW k \in Key, Follows(db[n], k),
           NEW E \in SUBSET Event, IsFiniteSet(E), E \subseteq Ever
    PROVE  Follows(applyRemoteEvents(db[n], E), k)
<1> DEFINE d == db[n]
           x == applyRemoteEvents(d, E)
           F == FreshOf(d, E, k)
           about == {e \in d.log : e.key = k}
<1>1. Distinct(E) /\ d \in Db /\ d.log \subseteq Event /\ d.log \subseteq Ever
  BY Types, DbFields, InAll DEF StampInv, Distinct
<1>2. /\ x.log = d.log \cup Fresh(d, E)
      /\ x.version[k] = IF Wins(d, E, k) THEN VersionOf(Newest(F)) ELSE d.version[k]
      /\ x.hash[k] = IF Wins(d, E, k) THEN Newest(F).row ELSE d.hash[k]
  BY <1>1, Applied
<1>3. {e \in x.log : e.key = k} = about \cup F
  BY <1>2 DEF FreshOf
<1>4. Wins(d, E, k) <=> F # {} /\ Newer(VersionOf(Newest(F)), d.version[Newest(F).key])
  BY DEF Wins, shouldApplyEvent
<1>5. /\ F \subseteq E /\ \A e \in F : e.key = k /\ e.ts >= 1 /\ e.ts \in Nat
      /\ \A e \in F, f \in about : VersionOf(e) # VersionOf(f)
  <2>1. F \subseteq E /\ \A e \in F : e.key = k /\ Id(e) \notin {Id(f) : f \in d.log}
    BY DEF FreshOf, Fresh
  <2>2. \A e \in F : e \in Ever /\ e.ts >= 1 /\ e.ts \in Nat
    BY <2>1 DEF StampInv, Event
  <2>3. \A e \in F, f \in about : VersionOf(e) # VersionOf(f)
    BY <2>1, SameVersion, SameId
  <2> QED BY <2>1, <2>2, <2>3
<1>6. F \in SUBSET Event /\ IsFiniteSet(F) /\ Distinct(F) /\ about \in SUBSET Event
  BY <1>1, <1>5, FS_Subset DEF Distinct
<1> HIDE DEF x, F
<1>7. CASE F = {}
  <2>1. x.version[k] = d.version[k] /\ x.hash[k] = d.hash[k] /\ {e \in x.log : e.key = k} = about
    BY <1>2, <1>3, <1>4, <1>7
  <2> QED BY <2>1 DEF Follows, x
<1>8. CASE F # {}
  <2> DEFINE top == Newest(F)
  <2>1. top \in F /\ top.key = k /\ \A f \in F \ {top} : Newer(top, f)
    BY <1>5, <1>6, <1>8, NewestOf
  <2> HIDE DEF top
  <2>2. CASE Newer(VersionOf(top), d.version[k])
    <3>1. x.version[k] = VersionOf(top) /\ x.hash[k] = top.row
      BY <1>2, <1>4, <1>8, <2>1, <2>2 DEF top
    <3>2. ASSUME NEW f \in about
          PROVE  Newer(top, f)
      <4>1. PICK e \in about : (\A g \in about \ {e} : Newer(e, g)) /\ d.version[k] = VersionOf(e)
        BY DEF Follows
      <4>2. Newer(top, e)
        BY <2>2, <4>1, VersionStandsForEvent
      <4>3. f = e \/ Newer(e, f)
        BY <4>1
      <4>4. Stamped(top) /\ Stamped(e) /\ Stamped(f)
        BY <1>6, <2>1, EventsStamped
      <4> QED BY <4>2, <4>3, <4>4, NewerOrders
    <3> QED BY <1>3, <2>1, <3>1, <3>2 DEF Follows, x
  <2>3. CASE ~Newer(VersionOf(top), d.version[k])
    <3>1. x.version[k] = d.version[k] /\ x.hash[k] = d.hash[k]
      BY <1>2, <1>4, <1>8, <2>1, <2>3 DEF top
    <3>2. d.version[k] # NoVersion
      <4>1. VersionOf(top).ts >= 1 /\ VersionOf(top).ts \in Nat
        BY <1>5, <2>1 DEF VersionOf
      <4> QED BY <2>3, <4>1 DEF Newer, NoVersion
    <3>3. PICK e \in about : /\ \A g \in about \ {e} : Newer(e, g)
                             /\ d.hash[k] = e.row /\ d.version[k] = VersionOf(e)
      BY <3>2 DEF Follows
    <3>4. Newer(e, top)
      <4>1. ~Newer(top, e)
        BY <2>3, <3>3, VersionStandsForEvent
      <4>2. Stamped(top) /\ Stamped(e)
        BY <1>6, <2>1, EventsStamped
      <4>3. ~(top.ts = e.ts /\ top.actor = e.actor /\ top.ctr = e.ctr)
        BY <1>5, <2>1, SameVersion
      <4> QED BY <4>1, <4>2, <4>3, NewerOrders
    <3>5. ASSUME NEW f \in F
          PROVE  Newer(e, f)
      <4>1. f = top \/ Newer(top, f)
        BY <2>1
      <4>2. Stamped(top) /\ Stamped(e) /\ Stamped(f)
        BY <1>6, <2>1, EventsStamped
      <4> QED BY <3>4, <4>1, <4>2, NewerOrders
    <3> QED BY <1>3, <3>1, <3>3, <3>5 DEF Follows, x
  <2> QED BY <2>2, <2>3
<1> QED BY <1>7, <1>8

\* No step uncovers an event.
LEMMA CoveredGrows ==
    ASSUME TypeOK, CountInv, [Next]_vars
    PROVE  \A a \in Node : covered[a] <= covered'[a]
<1>0. covered \in Vector /\ \A a \in Node : covered[a] \in Nat
  BY DEF TypeOK, Vector
<1>1. ASSUME NEW n \in Node, SnapshotArrives(n)
      PROVE  \A a \in Node : covered[a] <= covered'[a]
  <2>1. snapshot[source[n]].vector \in Vector
    BY <1>1, Types DEF SnapshotArrives, CountInv, Snap
  <2> QED BY <1>0, <1>1, <2>1, Covering DEF SnapshotArrives
<1>2. ASSUME NEW n \in Node, FinishSync(n)
      PROVE  \A a \in Node : covered[a] <= covered'[a]
  <2>1. Scan(n, db[n]) \in Kept
    BY <1>2, Types, ScanKept DEF FinishSync, Scan
  <2>2. VectorOf(Scan(n, db[n]).log \ events'[n]) \in Vector
    BY <2>1, DroppedIs
  <2> QED BY <1>0, <1>2, <2>2, Covering DEF FinishSync
<1>3. CASE covered' = covered
  BY <1>0, <1>3
<1> QED BY <1>1, <1>2, <1>3
        DEF Next, WriteRow, BeginSync, PullFails, PullDelta, SnapshotFails, Save, Crash, vars

\* Where nothing is covered nothing has been dropped.
LEMMA DropsNothing ==
    ASSUME TypeOK, NEW d \in Kept, NEW E, Cover(VectorOf(d.log \ E)), covered' = NoVector
    PROVE  d.log \subseteq E
<1>1. /\ VectorOf(d.log \ E) \in Vector
      /\ \A e \in d.log \ E : e.ctr <= VectorOf(d.log \ E)[e.actor]
  BY DroppedIs
<1>2. \A a \in Node : VectorOf(d.log \ E)[a] <= covered'[a] /\ covered'[a] = 0
  BY <1>1, Covering DEF TypeOK, NoVector
<1>3. ASSUME NEW e \in d.log \ E
      PROVE  FALSE
  <2>1. e.actor \in Node /\ e.ctr \in 1 .. MaxCounter /\ MaxCounter \in Nat
    BY DbFields, LimitsAssumption DEF Kept, Event
  <2>2. e.ctr <= VectorOf(d.log \ E)[e.actor] /\ VectorOf(d.log \ E)[e.actor] <= 0
    BY <1>1, <1>2, <2>1
  <2>3. VectorOf(d.log \ E)[e.actor] \in Nat
    BY <1>1, <2>1 DEF Vector
  <2> QED BY <2>1, <2>2, <2>3
<1> QED BY <1>3

\* Every step keeps the rows behind whole logs.
LEMMA RowStep ==
    ASSUME TypeOK, CountInv, StampInv, OrderInv, RowInv, [Next]_vars, TypeOK', CountInv'
    PROVE  RowInv'
<1> SUFFICES ASSUME InStep, NoCrash', NEW m \in Node, NEW k \in Key, Whole(m)'
             PROVE  Follows(db'[m], k)
  BY DEF RowInv, Follows
<1>0. /\ NoCrash /\ Follows(db[m], k) /\ db \in [Node -> Db]
      /\ ~(Cardinality(db'[m].log) >= KeepEvents) \/ covered' = NoVector
  <2>1. NoCrash
    BY CrashesCount
  <2>2. CASE ~Pruned(m)'
    <3>1. ~Pruned(m)
      BY <2>2, StaysWhole
    <3> QED BY <2>1, <2>2, <3>1 DEF RowInv, TypeOK, Pruned, Whole
  <2>3. CASE covered' = NoVector
    <3>1. \A a \in Node : covered[a] <= covered'[a] /\ covered[a] \in Nat /\ covered'[a] = 0
      BY <2>3, CoveredGrows DEF TypeOK, Vector, NoVector
    <3>2. \A a \in Node : covered[a] = 0
      BY <3>1
    <3>3. covered = NoVector
      BY <3>2 DEF TypeOK, Vector, NoVector
    <3> QED BY <2>1, <2>3, <3>3 DEF RowInv, TypeOK, Whole
  <2> QED BY <2>2, <2>3 DEF Whole
<1>a. ASSUME NEW d, Follows(d, k), db'[m].log = d.log, db'[m].hash = d.hash, db'[m].version = d.version
      PROVE  Follows(db'[m], k)
  BY <1>a DEF Follows
<1>1. ASSUME NEW n \in Node, NEW j \in Key, NEW r \in Row, WriteRow(n, j, r)
      PROVE  Follows(db'[m], k)
  <2>1. db' = [db EXCEPT ![n] = [db[n] EXCEPT !.row[j] = r]]
    BY <1>0, <1>1 DEF WriteRow, Db
  <2>2. \A d \in Db : /\ [d EXCEPT !.row[j] = r].log = d.log /\ [d EXCEPT !.row[j] = r].hash = d.hash
                      /\ [d EXCEPT !.row[j] = r].version = d.version
    BY DEF Db
  <2>3. db'[m].log = db[m].log /\ db'[m].hash = db[m].hash /\ db'[m].version = db[m].version
    BY <1>0, <2>1, <2>2
  <2> QED BY <1>0, <1>a, <2>3
<1>2. ASSUME NEW n \in Node, BeginSync(n)
      PROVE  Follows(db'[m], k)
  <2>1. db' = [db EXCEPT ![n] = Scan(n, db[n])]
    BY <1>2 DEF BeginSync
  <2>2. Follows(Scan(m, db[m]), k)
    BY <1>0, ScanFollows
  <2> QED BY <1>0, <2>1, <2>2
<1>3. ASSUME NEW n \in Node, NEW p \in Node, PullDelta(n, p)
      PROVE  Follows(db'[m], k)
  <2> DEFINE answer == getDeltaFromCache(p, getEffectiveVersionVector(db[n]))
  <2>1. UNCHANGED db \/ db' = [db EXCEPT ![n] = applyRemoteEvents(db[n], answer)]
    BY <1>3 DEF PullDelta
  <2>2. answer \in SUBSET Event /\ IsFiniteSet(answer) /\ answer \subseteq Ever
    BY AnswerIs, InAll
  <2> HIDE DEF answer
  <2>3. Follows(applyRemoteEvents(db[m], answer), k)
    BY <1>0, <2>2, ApplyFollows
  <2> QED BY <1>0, <2>1, <2>3
<1>4. ASSUME NEW n \in Node, SnapshotArrives(n)
      PROVE  Follows(db'[m], k)
  <2>1. snapshot[source[n]] \in Snap /\ db' = [db EXCEPT ![n] = applySnapshot(db[n], snapshot[source[n]])]
    BY <1>4, Types DEF SnapshotArrives, CountInv
  <2>2. /\ applySnapshot(db[n], snapshot[source[n]]).version = db[n].version
        /\ applySnapshot(db[n], snapshot[source[n]]).hash = db[n].hash
        /\ applySnapshot(db[n], snapshot[source[n]]).log = db[n].log
    BY <2>1, Types, SnapshotApplied
  <2>3. db'[m].log = db[m].log /\ db'[m].hash = db[m].hash /\ db'[m].version = db[m].version
    BY <1>0, <2>1, <2>2
  <2> QED BY <1>0, <1>a, <2>3
<1>5. ASSUME NEW n \in Node, SnapshotFails(n)
      PROVE  Follows(db'[m], k)
  <2>1. db' = [db EXCEPT ![n] = applyRemoteEvents(db[n], delta[n])]
    BY <1>5 DEF SnapshotFails
  <2>2. delta[n] \in SUBSET Event /\ IsFiniteSet(delta[n]) /\ delta[n] \subseteq Ever
    BY DeltaIs, InAll
  <2>3. Follows(applyRemoteEvents(db[m], delta[n]), k)
    BY <1>0, <2>2, ApplyFollows
  <2> QED BY <1>0, <2>1, <2>3
<1>6. ASSUME NEW n \in Node, FinishSync(n)
      PROVE  Follows(db'[m], k)
  <2> DEFINE y == Scan(n, db[n])
  <2>1. PICK x \in maybeCompact(y) : db' = [db EXCEPT ![n] = x] /\ refreshCache(n, x)
    BY <1>6 DEF FinishSync
  <2>2. CASE m # n
    <3>1. db'[m] = db[m]
      BY <1>0, <2>1, <2>2
    <3> QED BY <1>0, <3>1
  <2>3. CASE m = n
    <3>1. y \in Kept
      BY <1>6, Types, ScanKept DEF FinishSync, Scan
    <3>2. Follows(y, k)
      BY <1>0, <2>3, ScanFollows
    <3>3. db'[m] = x
      BY <1>0, <2>1, <2>3
    <3>4. Cover(VectorOf(y.log \ events'[n])) /\ events'[n] \subseteq x.log
      BY <1>6, <2>1 DEF FinishSync, refreshCache, TypeOK, LastOf
    <3> HIDE DEF y
    <3>5. /\ x.log \subseteq y.log /\ x.hash = y.hash /\ x.version = y.version
          /\ x.log = y.log \/ Cardinality(x.log) >= KeepEvents
      BY <2>1, <3>1, MayBeCompacted DEF Kept
    <3>6. ASSUME covered' = NoVector
          PROVE  x.log = y.log
      BY <3>1, <3>4, <3>5, <3>6, DropsNothing
    <3>7. x.log = y.log
      BY <1>0, <3>3, <3>5, <3>6
    <3> QED BY <1>a, <3>2, <3>3, <3>5, <3>7
  <2> QED BY <2>2, <2>3
<1>7. ASSUME NEW n \in Node, Crash(n)
      PROVE  FALSE
  BY <1>0, <1>7 DEF Crash, NoCrash, TypeOK
<1>8. ASSUME UNCHANGED vars \/ (\E n, p \in Node : PullFails(n, p)) \/ \E n \in Node : Save(n)
      PROVE  Follows(db'[m], k)
  <2>1. db' = db
    BY <1>8 DEF PullFails, Save, vars, dbVars
  <2> QED BY <1>0, <2>1
<1> QED BY <1>1, <1>2, <1>3, <1>4, <1>5, <1>6, <1>7, <1>8 DEF Next

-----------------------------------------------------------------------------
(* The invariant, and what it implies.                                     *)

IInv ==
    /\ TypeOK /\ CountInv /\ StampInv /\ OrderInv /\ GapInv
    /\ VersionInv /\ RowInv

\* A new cluster has nothing of which the invariant could fail.
LEMMA Start == Init => IInv
<1> SUFFICES ASSUME Init PROVE IInv
  OBVIOUS
<1>1. TypeOK /\ CountInv
  BY TypeInit
<1>2. /\ \A n \in Node : /\ db[n] = EmptyDb /\ disk[n] = EmptyDb
                         /\ delta[n] = {} /\ events[n] = {} /\ phase[n] = "idle"
      /\ now = 1 /\ covered = NoVector
  BY DEF Init
<1>3. /\ EmptyDb.log = {} /\ EmptyDb.counter = 0 /\ EmptyDb.snapVector = NoVector
      /\ \A k \in Key : EmptyDb.hash[k] = NoRow /\ EmptyDb.version[k] = NoVersion
  BY DEF EmptyDb
<1>4. Ever = {} /\ All = {}
  BY <1>2, <1>3 DEF Ever, All
<1>5. StampInv /\ OrderInv
  BY <1>4 DEF StampInv, OrderInv, Distinct
<1>6. ASSUME NEW n \in Node
      PROVE  NoGapsAt(n)
  <2>1. \A a \in Node : db[n].snapVector[a] <= covered[a]
    BY <1>2, <1>3 DEF NoVector
  <2>2. Closed(covered, db[n].log) /\ Closed(covered, events[n])
    BY <1>2, <1>3 DEF Closed
  <2>3. \A x \in covered[n] + 1 .. db[n].counter : \E e \in db[n].log : e.actor = n /\ e.ctr = x
    BY <1>2, <1>3 DEF NoVector
  <2> QED BY <1>2, <2>1, <2>2, <2>3 DEF NoGapsAt
<1>7. VersionInv
  <2>1. \A n \in Node : 0 < 1 + Offset[n]
    BY LimitsAssumption
  <2> QED BY <1>2, <1>3, <2>1 DEF VersionInv, NoVersion
<1>8. RowInv
  BY <1>2, <1>3 DEF RowInv, Follows
<1> QED BY <1>1, <1>5, <1>6, <1>7, <1>8 DEF IInv, GapInv

\* The inductive invariant of sync(): ids and stamps are in order, logs are closed, rows follow.
THEOREM Invariance == Spec => []IInv
<1>1. IInv /\ [Next]_vars => IInv'
  <2> SUFFICES ASSUME IInv, [Next]_vars PROVE IInv'
    OBVIOUS
  <2>1. TypeOK /\ CountInv /\ StampInv /\ OrderInv /\ GapInv /\ VersionInv /\ RowInv
    BY DEF IInv
  <2>2. TypeOK' /\ CountInv'
    BY <2>1, TypeStep
  <2>3. StampInv' /\ OrderInv' /\ VersionInv'
    BY <2>1, StampStep, OrderStep, VersionStep
  <2>4. GapInv' /\ RowInv'
    BY <2>1, <2>2, GapStep, RowStep
  <2> QED BY <2>2, <2>3, <2>4 DEF IInv
<1> QED BY <1>1, Start, PTL DEF Spec

\* Each variable keeps its type, through every step of a sync and through a crash.
THEOREM TypeCorrect == Spec => []TypeOK
<1>1. IInv => TypeOK
  BY DEF IInv
<1> QED BY <1>1, Invariance, PTL

\* Two events with the same id are one.
LEMMA IdsAreUnique ==
    ASSUME IInv, NoCrash, NEW m \in Node, NEW n \in Node, NEW e \in db[m].log, NEW f \in db[n].log,
           e.actor = f.actor, e.ctr = f.ctr
    PROVE  e = f
<1>1. e \in All /\ f \in All
  BY InAll DEF IInv
<1> QED BY <1>1, SameId DEF IInv, OrderInv

\* Until a node has crashed, an id stands for the same event in every log: counters are given
\* once (incrementAndGetCounter()), and answers, caches and snapshots pass ids on unchanged.
THEOREM UniqueIds == Spec => [](NoCrash => OneEventPerId)
<1>1. IInv => (NoCrash => OneEventPerId)
  BY IdsAreUnique, SameId DEF OneEventPerId
<1> QED BY <1>1, Invariance, PTL

\* A vector names an event of the log, and those before it are there or covered.
LEMMA NoGapsInLogs ==
    ASSUME IInv, NoCrash, NEW n \in Node, NEW a \in Node,
           NEW c \in covered[a] + 1 .. getVersionVector(db[n])[a]
    PROVE  \E e \in LogOf(n, a) : e.ctr = c
<1>1. /\ db[n] \in Db /\ \A e \in db[n].log : e.ctr \in 1 .. MaxCounter
      /\ covered[a] \in Nat
  BY Types DEF IInv, TypeOK, Vector
<1>2. getVersionVector(db[n])[a] \in Nat
  BY <1>1, VectorMeans DEF Vector
<1>3. c \in Nat /\ c > covered[a] /\ c <= getVersionVector(db[n])[a] /\ getVersionVector(db[n])[a] > 0
  BY <1>1, <1>2
<1>4. PICK e \in db[n].log : e.actor = a /\ e.ctr = getVersionVector(db[n])[a]
  BY <1>1, <1>3, VectorMeans
<1>5. CASE c = e.ctr
  BY <1>4, <1>5 DEF LogOf
<1>6. CASE c # e.ctr
  <2>1. c \in covered[e.actor] + 1 .. e.ctr - 1
    BY <1>1, <1>2, <1>3, <1>4, <1>6
  <2>2. Closed(covered, db[n].log)
    BY DEF IInv, GapInv, NoGapsAt
  <2> QED BY <1>4, <2>1, <2>2 DEF Closed, LogOf
<1> QED BY <1>5, <1>6

\* Version vectors hide nothing (pullEventsFromPeers(), recoverFromSnapshot()), whatever the
\* limits, the clocks and the writes, and whichever answers are cut and snapshots fail.
THEOREM NoGaps == Spec => []VectorHasNoGaps
<1>1. IInv => VectorHasNoGaps
  BY NoGapsInLogs DEF VectorHasNoGaps, NoCrash
<1> QED BY <1>1, Invariance, PTL

\* With clocks in step: until a crash, the rows a node has scanned are what the newest events
\* of its log say, for every log that pruneClusterEvents() has not cut.
THEOREM RowsFollow ==
    ASSUME InStep
    PROVE  Spec => []RowsFollowTheLog
<1>1. IInv => RowsFollowTheLog
  <2> SUFFICES ASSUME IInv, NoCrash, NEW n \in Node, NEW k \in Key, ~Pruned(n),
                      NEW about, about = {e \in db[n].log : e.key = k}
               PROVE  db[n].hash[k] = IF about = {} THEN NoRow ELSE Newest(about).row
    BY DEF RowsFollowTheLog, NoCrash
  <2>1. Follows(db[n], k)
    BY DEF IInv, RowInv, Whole
  <2>2. about \in SUBSET Event
    BY Types, DbFields DEF IInv
  <2>3. CASE about = {}
    BY <2>1, <2>3 DEF Follows
  <2>4. CASE about # {}
    <3>1. PICK e \in about : (\A f \in about \ {e} : Newer(e, f)) /\ db[n].hash[k] = e.row
      BY <2>1, <2>4 DEF Follows
    <3>2. Newest(about) = e
      BY <2>2, <3>1, NewestIs
    <3> QED BY <2>4, <3>1, <3>2
  <2> QED BY <2>3, <2>4
<1> QED BY <1>1, Invariance, PTL

\* With clocks in step: until a crash, a snapshot or a dropped event, nodes whose vectors are
\* equal have scanned the same rows (sync(), compareVersion()). Without gaps and with unique
\* ids their logs are equal, and rows follow the log.
THEOREM Agree ==
    ASSUME InStep
    PROVE  Spec => []SyncedNodesAgree
<1>1. IInv => SyncedNodesAgree
  <2> SUFFICES ASSUME IInv, NoCrash, covered = NoVector, NEW m \in Node, NEW n \in Node,
                      getVersionVector(db[m]) = getVersionVector(db[n])
               PROVE  db[m].hash = db[n].hash
    BY DEF SyncedNodesAgree, NoCrash
  <2>1. ASSUME NEW i \in Node, NEW j \in Node, getVersionVector(db[i]) = getVersionVector(db[j]),
               NEW e \in db[i].log
        PROVE  e \in db[j].log
    <3>1. db[i] \in Db /\ e \in Event /\ \A f \in db[i].log : f.ctr \in 1 .. MaxCounter
      BY Types, DbFields DEF IInv
    <3>2. e.actor \in Node /\ e.ctr <= getVersionVector(db[i])[e.actor]
          /\ getVersionVector(db[i])[e.actor] \in Nat /\ e.ctr >= 1 /\ e.ctr \in Nat
      BY <3>1, VectorMeans, LimitsAssumption DEF Vector
    <3>3. covered[e.actor] = 0
      BY <3>2 DEF NoVector
    <3>4. e.ctr \in covered[e.actor] + 1 .. getVersionVector(db[j])[e.actor]
      BY <2>1, <3>2, <3>3
    <3>5. PICK f \in LogOf(j, e.actor) : f.ctr = e.ctr
      BY <3>2, <3>4, NoGapsInLogs
    <3>6. f \in db[j].log /\ f.actor = e.actor
      BY <3>5 DEF LogOf
    <3>7. e = f
      BY <3>5, <3>6, IdsAreUnique
    <3> QED BY <3>6, <3>7
  <2>2. db[m].log = db[n].log
    <3>1. db[m].log \subseteq db[n].log
      BY <2>1
    <3>2. db[n].log \subseteq db[m].log
      BY <2>1
    <3> QED BY <3>1, <3>2
  <2>3. ASSUME NEW k \in Key
        PROVE  db[m].hash[k] = db[n].hash[k]
    <3>1. Follows(db[m], k) /\ Follows(db[n], k)
      BY DEF IInv, RowInv, Whole
    <3>2. \A e \in db[m].log : Stamped(e)
      BY Types, DbFields, EventsStamped DEF IInv
    <3>3. ASSUME NEW e \in db[m].log, NEW f \in db[m].log, e.key = k, f.key = k,
                 \A g \in {h \in db[m].log : h.key = k} \ {e} : Newer(e, g),
                 \A g \in {h \in db[m].log : h.key = k} \ {f} : Newer(f, g)
          PROVE  e = f
      <4>1. CASE e # f
        <5>1. Newer(e, f) /\ Newer(f, e)
          BY <3>3, <4>1
        <5> QED BY <3>2, <5>1, NewerOrders
      <4> QED BY <4>1
    <3> QED BY <2>2, <3>1, <3>3 DEF Follows
  <2>4. db[m].hash \in [Key -> Row] /\ db[n].hash \in [Key -> Row]
    BY Types, DbFields DEF IInv
  <2> QED BY <2>3, <2>4
<1> QED BY <1>1, Invariance, PTL

\* With clocks in step: no row goes back to an older version but by a crash: a scan overwrites
\* versions unseen (scanLocalChanges()), but with a time that no node has reached yet.
THEOREM VersionsGrow ==
    ASSUME InStep
    PROVE  Spec => VersionsOnlyGrow
<1>1. ASSUME IInv, [Next]_vars
      PROVE  [\A n \in Node, k \in Key :
                \/ db'[n].version[k] = db[n].version[k]
                \/ Newer(db'[n].version[k], db[n].version[k])
                \/ budget'.crashes > budget.crashes]_vars
  BY <1>1, VersionGrows DEF IInv
<1> QED BY <1>1, Invariance, PTL DEF VersionsOnlyGrow, Spec
=============================================================================
