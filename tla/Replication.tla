---------------------------- MODULE Replication -----------------------------
(***************************************************************************)
(* Anti-entropy of the distributed mode: ClusterRuntime.sync() and what it *)
(* calls in sync.ts and events.ts.                                         *)
(*                                                                         *)
(* A node finds its own changes by comparing rows with the hashes of the   *)
(* last scan, logs each as an event, pulls from every peer in turn the     *)
(* events its version vector lacks, and keeps per row the event with the   *)
(* greatest version.  A pull that cannot be complete falls back to a       *)
(* snapshot of the peer's rows.  Peers read only the caches that a sync    *)
(* leaves behind in memory; the database is saved after that.              *)
(*                                                                         *)
(* The database lock is held through a sync, so that other commands write  *)
(* rows only between two of them.  A sync awaits the network, where the    *)
(* syncs of other nodes, and crashes, come in: one action per await.  The  *)
(* answer of a peer depends on the peer's caches alone, so asking and      *)
(* answering are one step.  An unreachable peer, a timeout and a refused   *)
(* fencing token (409) all come back as null: they are one action.         *)
(*                                                                         *)
(* One table stands for the replicated ones; a payload is a value and its  *)
(* hash is the value itself.  Merging of similar stories is not here.      *)
(***************************************************************************)
EXTENDS Integers, FiniteSets

CONSTANTS
    Node,         \* cluster node ids
    NoNode,       \* the actor of no version
    Rank,         \* localeCompare() of node ids
    Key,          \* row ids
    KeyRank,      \* their order in the table
    Value,        \* payloads
    NoRow,        \* the row does not exist
    Offset,       \* how far the clock of a node is ahead
    DeltaLimit,   \* events in an answer (4000)
    CacheLimit,   \* events in eventCache (20000)
    KeepEvents,   \* max_cluster_events
    MaxWrites,    \* bound: writes of rows, all nodes together
    MaxCrashes,   \* bound: crashes, all nodes together
    MaxCounter    \* bound: events a node logs

ASSUME NodesAssumption ==
    /\ IsFiniteSet(Node) /\ NoNode \notin Node
    /\ Rank \in [Node -> Nat] /\ \A m, n \in Node : Rank[m] = Rank[n] => m = n
ASSUME RowsAssumption ==
    /\ IsFiniteSet(Key) /\ NoRow \notin Value
    /\ KeyRank \in [Key -> Nat] /\ \A j, k \in Key : KeyRank[j] = KeyRank[k] => j = k
ASSUME LimitsAssumption ==
    /\ Offset \in [Node -> Nat]
    /\ DeltaLimit \in Nat \ {0} /\ CacheLimit \in Nat \ {0} /\ KeepEvents \in Nat \ {0}
    /\ MaxWrites \in Nat /\ MaxCrashes \in Nat /\ MaxCounter \in Nat

Row     == Value \cup {NoRow}
Version == [ts : Nat, actor : Node, ctr : Nat]
Event   == [ts : Nat, actor : Node, ctr : Nat, key : Key, row : Row]
Vector  == [Node -> Nat]
NoVersion == [ts |-> 0, actor |-> NoNode, ctr |-> 0]
Phases  == {"idle", "pulling", "recovering", "unsaved"}

\* What a database holds of replication.
Db == [row : [Key -> Row],                            \* the replicated table
       hash : [Key -> Row],                           \* cluster_row_hashes
       version : [Key -> Version \cup {NoVersion}],   \* cluster_row_versions
       log : SUBSET Event,                            \* cluster_events
       counter : Nat,                                 \* cluster_state.event_counter
       snapVector : Vector]                           \* .snapshot_version_vector

VARIABLES
    disk,       \* the saved database of each node
    db,         \* the database its manager works on
    phase,      \* how far its sync() is
    todo,       \* the peers it has still to pull from
    source,     \* the peer a snapshot is requested from
    delta,      \* its insufficient answer, kept meanwhile
    events,     \* eventCache
    vector,     \* versionVectorCache
    snapshot,   \* cachedSnapshot
    now,        \* time, counted in scans that found a change
    budget,     \* writes and crashes so far
    covered     \* history: the events that somebody may do without

dbVars    == <<disk, db>>
syncVars  == <<phase, todo, source, delta>>
cacheVars == <<events, vector, snapshot>>
vars == <<dbVars, syncVars, cacheVars, now, budget, covered>>

TypeOK ==
    /\ disk \in [Node -> Db] /\ db \in [Node -> Db]
    /\ phase \in [Node -> Phases]
    /\ todo \in [Node -> SUBSET Node]
    /\ source \in [Node -> Node \cup {NoNode}]
    /\ delta \in [Node -> SUBSET Event]
    /\ events \in [Node -> SUBSET Event]
    /\ vector \in [Node -> Vector]
    /\ snapshot \in [Node -> [row : [Key -> Row], vector : Vector]]
    /\ now \in Nat
    /\ budget \in [writes : 0 .. MaxWrites, crashes : 0 .. MaxCrashes]
    /\ covered \in Vector

(***************************************************************************)
(* Versions and vectors.                                                   *)
(***************************************************************************)

\* Slips in the helpers below, to show that the properties can tell them apart.
LatestOf(E, n) == {e \in E : Cardinality({f \in E : f.ts > e.ts}) < n}
shouldApplyAny(d, e) == TRUE

VersionOf(e) == [ts |-> e.ts, actor |-> e.actor, ctr |-> e.ctr]
Id(e) == <<e.actor, e.ctr>>

\* compareVersion(a, b) > 0
Newer(a, b) ==
    \/ a.ts > b.ts
    \/ a.ts = b.ts /\ a.actor # b.actor /\ Rank[a.actor] > Rank[b.actor]
    \/ a.ts = b.ts /\ a.actor = b.actor /\ a.ctr > b.ctr

Newest(E) == CHOOSE e \in E : \A f \in E \ {e} : Newer(e, f)

\* The n last, and the n first, of the events E in the order of their versions.
LastOf(E, n)  == {e \in E : Cardinality({f \in E : Newer(f, e)}) < n}
FirstOf(E, n) == {e \in E : Cardinality({f \in E : Newer(e, f)}) < n}

NoVector == [n \in Node |-> 0]
Greatest(S) == CHOOSE c \in S : \A d \in S : d <= c

\* The greatest counter of each node among the events E.
VectorOf(E) == [a \in Node |-> Greatest({0} \cup {e.ctr : e \in {f \in E : f.actor = a}})]
getVersionVector(d) == VectorOf(d.log)

getEffectiveVersionVector(d) ==
    [a \in Node |-> Greatest({d.snapVector[a], getVersionVector(d)[a]})]

(***************************************************************************)
(* The database.                                                           *)
(***************************************************************************)

Unscanned(d) == {k \in Key : d.row[k] # d.hash[k]}

\* A scan meets the rows that exist first, those that are gone after them.
NotAfter(d, j, k) ==
    IF (d.row[j] = NoRow) = (d.row[k] = NoRow)
    THEN KeyRank[j] <= KeyRank[k]
    ELSE d.row[k] = NoRow

incrementAndGetCounter(d, k) ==
    d.counter + Cardinality({j \in Unscanned(d) : NotAfter(d, j, k)})

\* emitLocalEvent() for every row that has changed: the version of the row becomes
\* that of the new event, whatever it was.
scanLocalChanges(d, n, t) ==
    LET changed == Unscanned(d)
        event(k) == [ts |-> t, actor |-> n, ctr |-> incrementAndGetCounter(d, k),
                     key |-> k, row |-> d.row[k]]
        new == {event(k) : k \in changed}
    IN  [d EXCEPT !.hash = d.row,
                  !.version = [k \in Key |-> IF k \in changed THEN VersionOf(event(k)) ELSE @[k]],
                  !.log = {e \in @ : Id(e) \notin {Id(f) : f \in new}} \cup new,
                  !.counter = @ + Cardinality(changed)]

shouldApplyEvent(d, e) == Newer(VersionOf(e), d.version[e.key])

\* Events not logged yet.
Fresh(d, E) == {e \in E : Id(e) \notin {Id(f) : f \in d.log}}

\* upsert() and delete() of the adapters
WithRows(rows, new) == [k \in Key |-> IF k \in DOMAIN new THEN new[k] ELSE rows[k]]

\* Events already logged are skipped; of the others, applied in the order of their
\* versions, the newest of a row decides if it beats the version of the row.
applyRemoteEvents(d, E) ==
    LET of(k) == {e \in Fresh(d, E) : e.key = k}
        wins(k) == of(k) # {} /\ shouldApplyEvent(d, Newest(of(k)))
        winning == [k \in {j \in Key : wins(j)} |-> Newest(of(k)).row]
    IN  [d EXCEPT !.row = WithRows(@, winning), !.hash = WithRows(@, winning),
                  !.version = [k \in Key |-> IF wins(k) THEN VersionOf(Newest(of(k))) ELSE @[k]],
                  !.log = @ \cup Fresh(d, E)]

\* buildSnapshot(), of the rows that exist
buildSnapshot(d) == [row |-> d.row, vector |-> getVersionVector(d)]
\* Rows are upserted without a look at their versions; a snapshot has no deletions.
applySnapshot(d, s) ==
    [d EXCEPT !.row = WithRows(@, [k \in {j \in Key : s.row[j] # NoRow} |-> s.row[k]]),
              !.snapVector = s.vector]

pruneClusterEvents(d) == [d EXCEPT !.log = LastOf(@, KeepEvents)]

\* Fewer events of an actor came than its counter and ours are apart.
isDeltaInsufficient(local, remote, E) ==
    \E a \in Node :
        /\ remote[a] > local[a]
        /\ Cardinality({e \in E : e.actor = a}) < remote[a] - local[a]

EmptyDb == [row |-> [k \in Key |-> NoRow], hash |-> [k \in Key |-> NoRow],
            version |-> [k \in Key |-> NoVersion], log |-> {}, counter |-> 0,
            snapVector |-> NoVector]
EmptySnapshot == [row |-> [k \in Key |-> NoRow], vector |-> NoVector]

Init ==
    /\ disk = [n \in Node |-> EmptyDb] /\ db = disk
    /\ phase = [n \in Node |-> "idle"]
    /\ todo = [n \in Node |-> {}]
    /\ source = [n \in Node |-> NoNode]
    /\ delta = [n \in Node |-> {}]
    /\ events = [n \in Node |-> {}]
    /\ vector = [n \in Node |-> NoVector]
    /\ snapshot = [n \in Node |-> EmptySnapshot]
    /\ now = 1
    /\ budget = [writes |-> 0, crashes |-> 0]
    /\ covered = NoVector

(***************************************************************************)
(* Another command of the host writes or deletes a row under the lock.     *)
(***************************************************************************)

WriteRow(n, k, r) ==
    /\ phase[n] = "idle" /\ budget.writes < MaxWrites
    /\ db[n].row[k] # r
    /\ disk' = [disk EXCEPT ![n].row[k] = r]
    /\ db' = [db EXCEPT ![n].row[k] = r]
    /\ budget' = [budget EXCEPT !.writes = @ + 1]
    /\ UNCHANGED <<syncVars, cacheVars, now, covered>>

(***************************************************************************)
(* sync().                                                                 *)
(***************************************************************************)

\* A scan by n, at the time its clock shows; no two scans share a time stamp unless
\* clocks are apart.
Scan(n, d) == scanLocalChanges(d, n, now + Offset[n])
Tick(d) == now' = IF Unscanned(d) = {} THEN now ELSE now + 1

BeginSync(n) ==
    /\ phase[n] = "idle"
    /\ db[n].counter + Cardinality(Key) <= MaxCounter
    /\ snapshot' = [snapshot EXCEPT ![n] = buildSnapshot(db[n])]
    /\ db' = [db EXCEPT ![n] = Scan(n, @)]
    /\ Tick(db[n])
    /\ phase' = [phase EXCEPT ![n] = "pulling"]
    /\ todo' = [todo EXCEPT ![n] = Node \ {n}]
    /\ UNCHANGED <<disk, source, delta, events, vector, budget, covered>>

PullFails(n, p) ==
    /\ phase[n] = "pulling" /\ p \in todo[n]
    /\ todo' = [todo EXCEPT ![n] = @ \ {p}]
    /\ UNCHANGED <<dbVars, phase, source, delta, cacheVars, now, budget, covered>>

\* What p answers a node that knows as much as local says.
getDeltaFromCache(p, local) == FirstOf({e \in events[p] : e.ctr > local[e.actor]}, DeltaLimit)

PullDelta(n, p) ==
    LET local == getEffectiveVersionVector(db[n])
        answer == getDeltaFromCache(p, local)
    IN
    /\ phase[n] = "pulling" /\ p \in todo[n]
    /\ IF isDeltaInsufficient(local, vector[p], answer)
       THEN /\ phase' = [phase EXCEPT ![n] = "recovering"]
            /\ source' = [source EXCEPT ![n] = p]
            /\ delta' = [delta EXCEPT ![n] = answer]
            /\ UNCHANGED <<db, todo>>
       ELSE /\ db' = [db EXCEPT ![n] = applyRemoteEvents(@, answer)]
            /\ todo' = [todo EXCEPT ![n] = @ \ {p}]
            /\ UNCHANGED <<phase, source, delta>>
    /\ UNCHANGED <<disk, cacheVars, now, budget, covered>>

\* What an applied snapshot stands for, or a log or a cache has dropped.
Cover(v) == covered' = [a \in Node |-> Greatest({covered[a], v[a]})]

\* The snapshot replaces rows and ends the pulling: other peers wait for the next sync.
SnapshotArrives(n) ==
    /\ phase[n] = "recovering"
    /\ db' = [db EXCEPT ![n] = applySnapshot(@, snapshot[source[n]])]
    /\ phase' = [phase EXCEPT ![n] = "pulling"]
    /\ todo' = [todo EXCEPT ![n] = {}]
    /\ source' = [source EXCEPT ![n] = NoNode]
    /\ delta' = [delta EXCEPT ![n] = {}]
    /\ Cover(snapshot[source[n]].vector)
    /\ UNCHANGED <<disk, cacheVars, now, budget>>

\* Without a snapshot whatever came in the answer is applied.
SnapshotFails(n) ==
    /\ phase[n] = "recovering"
    /\ db' = [db EXCEPT ![n] = applyRemoteEvents(@, delta[n])]
    /\ phase' = [phase EXCEPT ![n] = "pulling"]
    /\ todo' = [todo EXCEPT ![n] = @ \ {source[n]}]
    /\ source' = [source EXCEPT ![n] = NoNode]
    /\ delta' = [delta EXCEPT ![n] = {}]
    /\ UNCHANGED <<disk, cacheVars, now, budget, covered>>

\* The interval may have passed or not.
maybeCompact(d) == {d, pruneClusterEvents(d)}

refreshCache(n, d) ==
    /\ events' = [events EXCEPT ![n] = LastOf(d.log, CacheLimit)]
    /\ vector' = [vector EXCEPT ![n] = getVersionVector(d)]

\* The second scan (made when something came in; it finds nothing unless a snapshot
\* did), refreshCache() and, when its interval has passed, maybeCompact().
FinishSync(n) ==
    /\ phase[n] = "pulling" /\ todo[n] = {}
    /\ db[n].counter + Cardinality(Key) <= MaxCounter
    /\ \E d \in maybeCompact(Scan(n, db[n])) : db' = [db EXCEPT ![n] = d] /\ refreshCache(n, d)
    /\ Cover(VectorOf(Scan(n, db[n]).log \ events'[n]))
    /\ Tick(db[n])
    /\ phase' = [phase EXCEPT ![n] = "unsaved"]
    /\ UNCHANGED <<disk, todo, source, delta, snapshot, budget>>

\* save(), at the end of the caller: a follower awaits its tmux sessions before it.
Save(n) ==
    /\ phase[n] = "unsaved"
    /\ disk' = [disk EXCEPT ![n] = db[n]]
    /\ phase' = [phase EXCEPT ![n] = "idle"]
    /\ UNCHANGED <<db, todo, source, delta, cacheVars, now, budget, covered>>

\* The manager of n dies and is started again.
Crash(n) ==
    /\ budget.crashes < MaxCrashes
    /\ db' = [db EXCEPT ![n] = disk[n]]
    /\ phase' = [phase EXCEPT ![n] = "idle"]
    /\ todo' = [todo EXCEPT ![n] = {}]
    /\ source' = [source EXCEPT ![n] = NoNode]
    /\ delta' = [delta EXCEPT ![n] = {}]
    /\ events' = [events EXCEPT ![n] = {}]
    /\ vector' = [vector EXCEPT ![n] = NoVector]
    /\ snapshot' = [snapshot EXCEPT ![n] = EmptySnapshot]
    /\ budget' = [budget EXCEPT !.crashes = @ + 1]
    /\ UNCHANGED <<disk, now, covered>>

Next ==
    \/ \E n \in Node, k \in Key, r \in Row : WriteRow(n, k, r)
    \/ \E n \in Node : BeginSync(n)
    \/ \E n, p \in Node : PullFails(n, p)
    \/ \E n, p \in Node : PullDelta(n, p)
    \/ \E n \in Node : SnapshotArrives(n)
    \/ \E n \in Node : SnapshotFails(n)
    \/ \E n \in Node : FinishSync(n)
    \/ \E n \in Node : Save(n)
    \/ \E n \in Node : Crash(n)

Spec == Init /\ [][Next]_vars

(***************************************************************************)
(* Fairness.  The manager's interval timer starts a sync again and again   *)
(* and finishes it, and a peer that is asked again and again answers again *)
(* and again.                                                              *)
(***************************************************************************)

Fairness ==
    /\ \A n \in Node : WF_vars(BeginSync(n)) /\ WF_vars(FinishSync(n)) /\ WF_vars(Save(n))
    /\ \A n, p \in Node : WF_vars(PullFails(n, p)) /\ SF_vars(PullDelta(n, p))

FairSpec == Spec /\ Fairness

(***************************************************************************)
(* Properties.                                                             *)
(***************************************************************************)

LogOf(n, a) == {e \in db[n].log : e.actor = a}

\* Not so in the code after a crash: an event id stands for one event wherever it is
\* logged.  The counter of ids is saved with the rows, so that a crash gives out again
\* ids that peers have seen, and the events behind them are skipped (applyRemoteEvents).
OneEventPerId ==
    \A m, n \in Node : \A e \in db[m].log, f \in db[n].log : Id(e) = Id(f) => e = f

\* A log that may have been pruned.
Pruned(n) == Cardinality(db[n].log) >= KeepEvents

\* A version vector hides nothing: every event up to the counter a node claims to know
\* of an actor is in its log, unless it is among those that an applied snapshot stood
\* for or that a log or a cache has dropped, or before one of them, until a node has
\* crashed; also where answers are cut and snapshots fail (pullEventsFromPeers and
\* recoverFromSnapshot).
VectorHasNoGaps ==
    budget.crashes = 0 =>
        \A n, a \in Node :
            \A c \in covered[a] + 1 .. getVersionVector(db[n])[a] :
                \E e \in LogOf(n, a) : e.ctr = c

\* What a node has scanned is a function of its log, as long as that is whole and no
\* crash has lost the counter of ids: each row is what its newest event says, though a
\* scan overwrites the version of a row without comparing it.
RowsFollowTheLog ==
    budget.crashes = 0 => \A n \in {m \in Node : ~Pruned(m)}, k \in Key :
        LET about == {e \in db[n].log : e.key = k}
        IN  db[n].hash[k] = IF about = {} THEN NoRow ELSE Newest(about).row

\* README.md:618: "Followers stay in sync": two nodes whose version vectors say that
\* they know the same events have scanned the same rows, until a node has crashed or
\* applied a snapshot, or an event was dropped.
SyncedNodesAgree ==
    budget.crashes = 0 /\ covered = NoVector =>
        \A m, n \in Node :
            getVersionVector(db[m]) = getVersionVector(db[n]) => db[m].hash = db[n].hash

\* A row never goes back to an older version, save by a crash.
VersionsOnlyGrow ==
    [][\A n \in Node, k \in Key :
         \/ db'[n].version[k] = db[n].version[k]
         \/ Newer(db'[n].version[k], db[n].version[k])
         \/ budget'.crashes > budget.crashes]_vars

\* raft-state-machine.ts:124: a node that recovers waits "until it has a complete,
\* current state": afterwards every row whose version the snapshot covers is as the
\* snapshot has it, also when the snapshot has it no more.
RecoveryIsComplete ==
    [][\A n \in Node : SnapshotArrives(n) =>
         LET s == snapshot[source[n]]
         IN  \A k \in Key : LET v == db[n].version[k]
                            IN  v.actor \in Node /\ v.ctr <= s.vector[v.actor]
                                  => db'[n].row[k] = s.row[k]]_vars

\* distributed-system.test.ts:218: "rejects stale row updates with lower logical
\* timestamp": a snapshot never replaces a row that this node has written and its
\* sender had not seen.
UnseenWritesSurvive ==
    [][\A n \in Node : SnapshotArrives(n) =>
         \A k \in Key : LET v == db[n].version[k]
                        IN  v.actor = n /\ v.ctr > snapshot[source[n]].vector[n]
                              => db'[n].row[k] = db[n].row[k]]_vars

\* events.ts:171: the effective vector "prevents re-requesting events that were already
\* covered by a snapshot": what a node has once known of an actor it never asks for
\* again, until a node has crashed or it has pruned its log.
VectorOnlyGrows ==
    [][\A n, a \in Node :
         \/ getEffectiveVersionVector(db'[n])[a] >= getEffectiveVersionVector(db[n])[a]
         \/ budget'.crashes > 0 \/ Pruned(n)]_vars

\* Once writing stops, every node ends up with the same rows and keeps them, unless one
\* has crashed, or has to recover from a snapshot, which forgets what was deleted.
NodesConverge ==
    \/ <>[](\A m, n \in Node : db[m].row = db[n].row)
    \/ <>(budget.crashes > 0 \/ \E n \in Node : phase[n] = "recovering")
=============================================================================
