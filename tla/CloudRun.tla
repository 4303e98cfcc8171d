------------------------------ MODULE CloudRun ------------------------------
(***************************************************************************)
(* A run in the cloud: the lambdas that create, cancel and time out the    *)
(* run (createRun.ts, cancelRun.ts, run-timeout.ts), the adapter beside    *)
(* hive in the container, which mirrors hive.db to DynamoDB and declares   *)
(* the run complete (state-sync.ts), and the sockets over which a page     *)
(* follows it (ws-handler.ts, ws-broadcaster.ts, useRunUpdates.ts).        *)
(*                                                                         *)
(* Every call to AWS is a step of its own, and may fail.  What happens in  *)
(* hive.db is the rest of this project; here its stories are created, and  *)
(* merge.  One kind of row stands for the five that are mirrored alike.    *)
(* The messages that the adapter takes in are in HiveContext.              *)
(***************************************************************************)
EXTENDS CloudRunPromises, Naturals, FiniteSets

CONSTANTS
    Story,      \* rows of hive.db
    Poll,       \* polls that can be under way at once: one, unless a poll outlasts the interval
    Conn,       \* sockets that a page opens, one after another
    MaxFaults   \* bound: calls that fail, lambdas that die, interruptions, lost sockets

RowStatus == {"none", "open", "merged"}
Item == [story : Story, status : RowStatus]

ASSUME CloudRunAssumption ==
    IsFiniteSet(Story) /\ IsFiniteSet(Poll) /\ IsFiniteSet(Conn) /\ MaxFaults \in Nat

VARIABLES
    hive,    \* statuses of the stories in hive.db
    unread,  \* hive.db has another mtime than lastMtime
    adapter, \* off until the entrypoint starts it, polling, stopped
    poll,    \* of a poll: its step, the items still to be written, and whether it found the run complete
    create,  \* the next call of createRun()
    cancel,  \* of cancelRun(): its step and the data it read
    age,     \* of the task, against MAX_RUN_HOURS
    bus,     \* EventBridge: whether events of the run wait to be broadcast
    sock,    \* of a page's sockets: new, open or closed
    asked,   \* sockets whose subscribe message has not been handled
    left,    \* closed sockets whose $disconnect has not been handled
    subs,    \* the connections table
    faults

adapterVars == <<hive, unread, adapter, seen, poll, rows, bus, lost>>
runVars     == <<create, cancel, task, age>>
sockVars    == <<sock, asked, left, subs>>
vars == <<adapterVars, runVars, sockVars, meta, faults>>

Idle == [pc |-> "idle", items |-> {}, complete |-> FALSE]
\* The META item: data.status, whether data.taskArn is there, and GSI2PK, which no writer sets.
Meta(status, arn) == {[status |-> status, arn |-> arn, index |-> "none"]}
Final == {"completed", "cancelled"}
MetaItem == UNION {Meta(status, arn) : status \in {"pending"} \cup Final, arn \in BOOLEAN}

Init ==
    /\ hive = [s \in Story |-> "none"] /\ unread = TRUE
    /\ adapter = "off" /\ seen = [s \in Story |-> "none"] /\ poll = [p \in Poll |-> Idle]
    /\ rows = [s \in Story |-> "none"] /\ meta = {}
    /\ create = "put" /\ cancel = [pc |-> "idle", copy |-> {}]
    /\ task = "none" /\ age = "young"
    /\ bus = FALSE /\ sock = [c \in Conn |-> "new"] /\ asked = {} /\ left = {} /\ subs = {}
    /\ faults = 0 /\ lost = {}

Fault == faults < MaxFaults /\ faults' = faults + 1

-----------------------------------------------------------------------------
(* createRun(): META, the queue, the task, and META again with the task. *)

PutPending ==
    /\ create = "put" /\ create' = "queue" /\ meta' = Meta("pending", FALSE)
    /\ UNCHANGED <<adapterVars, cancel, task, age, sockVars, faults>>

Enqueue ==
    /\ create = "queue" /\ create' = "launch"
    /\ UNCHANGED <<adapterVars, cancel, task, age, sockVars, meta, faults>>

\* RunTask answers with a task, or with none when there is no capacity.
RunTask ==
    /\ create = "launch"
    /\ \/ create' = "record" /\ task' = "running" /\ UNCHANGED faults
       \/ create' = "done" /\ UNCHANGED task /\ Fault
    /\ UNCHANGED <<adapterVars, cancel, age, sockVars, meta>>

RecordTask ==
    /\ create = "record" /\ create' = "done" /\ meta' = Meta("pending", TRUE)
    /\ UNCHANGED <<adapterVars, cancel, task, age, sockVars, faults>>

CreateFails ==
    /\ create \in {"put", "queue", "launch", "record"} /\ create' = "failed" /\ Fault
    /\ UNCHANGED <<adapterVars, cancel, task, age, sockVars, meta>>

-----------------------------------------------------------------------------
(* cancelRun() *)

ReadMeta ==
    /\ cancel.pc = "idle" /\ meta # {}
    /\ \A m \in meta : m.status \notin Final
    /\ cancel' = [pc |-> IF \E m \in meta : m.arn THEN "stop" ELSE "put", copy |-> meta]
    /\ UNCHANGED <<adapterVars, create, task, age, sockVars, meta, faults>>

Stopping == IF task = "gone" THEN "gone" ELSE "stopping"

StopTask ==
    /\ cancel.pc = "stop" /\ cancel' = [cancel EXCEPT !.pc = "put"] /\ task' = Stopping
    /\ UNCHANGED <<adapterVars, create, age, sockVars, meta, faults>>

StopFailsSilently ==
    /\ cancel.pc = "stop" /\ cancel' = [cancel EXCEPT !.pc = "put"] /\ Fault
    /\ UNCHANGED <<adapterVars, create, task, age, sockVars, meta>>

\* StopTask throws: nothing is written, the caller gets a 500.
StopFails ==
    /\ cancel.pc = "stop" /\ cancel' = [pc |-> "idle", copy |-> {}] /\ Fault
    /\ UNCHANGED <<adapterVars, create, task, age, sockVars, meta>>

PutCancelled ==
    /\ cancel.pc = "put"
    /\ meta' = UNION {Meta("cancelled", m.arn) : m \in cancel.copy}
    /\ cancel' = [pc |-> "idle", copy |-> {}]
    /\ UNCHANGED <<adapterVars, create, task, age, sockVars, faults>>

-----------------------------------------------------------------------------
(* The task and its time *)

TaskAges ==
    /\ task = "running" /\ age = "young" /\ age' = "overdue"
    /\ UNCHANGED <<adapterVars, create, cancel, task, sockVars, meta, faults>>

\* What the query on the status-index finds.
Overdue == {m \in meta : m.index = "running" /\ age = "overdue"}

\* The scheduled lambda; a task without an arn, or that cannot be stopped, is passed over.
TimeoutScan ==
    /\ meta # {}
    /\ task' = IF \E m \in Overdue : m.arn THEN Stopping ELSE task
    /\ UNCHANGED <<adapterVars, create, cancel, age, sockVars, meta, faults>>

\* The entrypoint starts the adapter, with an empty snapshot.
StartAdapter ==
    /\ task = "running" /\ adapter = "off" /\ adapter' = "polling"
    /\ UNCHANGED <<hive, unread, seen, poll, rows, bus, lost, runVars, sockVars, meta, faults>>

\* Spot capacity is taken back.
Interrupt ==
    /\ task = "running" /\ task' = "stopping" /\ Fault
    /\ UNCHANGED <<adapterVars, create, cancel, age, sockVars, meta>>

TaskEnds ==
    /\ task = "stopping" /\ task' = "gone"
    /\ adapter' = "stopped" /\ poll' = [p \in Poll |-> Idle]
    /\ UNCHANGED <<hive, unread, seen, rows, bus, lost, create, cancel, age, sockVars, meta, faults>>

-----------------------------------------------------------------------------
(* hive.db, saved by hive's commands and agents *)

Live == task \in {"running", "stopping"}

Save ==
    /\ Live /\ unread' = TRUE
    /\ UNCHANGED <<hive, adapter, seen, poll, rows, bus, lost, runVars, sockVars, meta, faults>>

StoryChanges(s) ==
    /\ Live /\ hive[s] # "merged"
    /\ hive' = [hive EXCEPT ![s] = IF @ = "none" THEN "open" ELSE "merged"]
    /\ unread' = TRUE
    /\ UNCHANGED <<adapter, seen, poll, rows, bus, lost, runVars, sockVars, meta, faults>>

-----------------------------------------------------------------------------
(* poll() *)

\* The timer fires; the inbound messages come first, before the file is looked at.
Tick(p) ==
    /\ adapter = "polling" /\ poll[p].pc = "idle" /\ poll' = [poll EXCEPT ![p].pc = "stat"]
    /\ UNCHANGED <<hive, unread, adapter, seen, rows, bus, lost, runVars, sockVars, meta, faults>>

StatFile(p) ==
    /\ poll[p].pc = "stat"
    /\ poll' = [poll EXCEPT ![p].pc = IF unread THEN "load" ELSE "idle"]
    /\ unread' = FALSE
    /\ UNCHANGED <<hive, adapter, seen, rows, bus, lost, runVars, sockVars, meta, faults>>

\* hive.db cannot be read just now; its mtime counts as seen nevertheless.
LoadFails(p) ==
    /\ poll[p].pc = "load" /\ poll' = [poll EXCEPT ![p] = Idle] /\ Fault
    /\ UNCHANGED <<hive, unread, adapter, seen, rows, bus, lost, runVars, sockVars, meta>>

ChangedNew == {s \in Story : hive[s] # "none" /\ seen[s] = "none"}

Changed == {s \in Story : hive[s] # "none" /\ hive[s] # seen[s]}

isRunComplete ==
    /\ \E s \in Story : hive[s] # "none"
    /\ \A s \in Story : hive[s] \in {"none", "merged"}

DiffCompleteFirst(p) ==
    /\ poll[p].pc = "load"
    /\ poll' = [poll EXCEPT ![p] =
          IF Changed = {} /\ ~isRunComplete THEN Idle
          ELSE [pc |-> IF isRunComplete THEN "complete" ELSE "write", complete |-> isRunComplete,
                items |-> {[story |-> s, status |-> hive[s]] : s \in Changed}]]
    /\ seen' = hive
    /\ UNCHANGED <<hive, unread, adapter, rows, bus, lost, runVars, sockVars, meta, faults>>

DiffOnlyChanges(p) ==
    /\ poll[p].pc = "load"
    /\ poll' = [poll EXCEPT ![p] =
          IF Changed = {} THEN Idle
          ELSE [pc |-> "write", complete |-> isRunComplete,
                items |-> {[story |-> s, status |-> hive[s]] : s \in Changed}]]
    /\ seen' = hive
    /\ UNCHANGED <<hive, unread, adapter, rows, bus, lost, runVars, sockVars, meta, faults>>

\* syncState() up to its first await; the snapshot moves on before anything is written.
Diff(p) ==
    /\ poll[p].pc = "load"
    /\ poll' = [poll EXCEPT ![p] =
          IF Changed = {} /\ ~isRunComplete THEN Idle
          ELSE [pc |-> IF Changed = {} THEN "complete" ELSE "write", complete |-> isRunComplete,
                items |-> {[story |-> s, status |-> hive[s]] : s \in Changed}]]
    /\ seen' = hive
    /\ UNCHANGED <<hive, unread, adapter, rows, bus, lost, runVars, sockVars, meta, faults>>

\* batchWriteItems() goes through its items in chunks.
WriteChunk(p) ==
    /\ poll[p].pc = "write"
    /\ \E i \in poll[p].items :
          /\ rows' = [rows EXCEPT ![i.story] = i.status] /\ lost' = lost \ {i.story}
          /\ poll' = [poll EXCEPT ![p].items = @ \ {i}]
    /\ UNCHANGED <<hive, unread, adapter, seen, bus, runVars, sockVars, meta, faults>>

\* The rest of the batch is not written, nothing is emitted, and completion is not looked at.
WriteFails(p) ==
    /\ poll[p].pc = "write" /\ poll[p].items # {} /\ Fault
    /\ lost' = lost \cup {i.story : i \in poll[p].items}
    /\ poll' = [poll EXCEPT ![p] = Idle]
    /\ UNCHANGED <<hive, unread, adapter, seen, rows, bus, runVars, sockVars, meta>>

Emit(p) ==
    /\ poll[p].pc = "write" /\ poll[p].items = {}
    /\ bus' = TRUE
    /\ poll' = [poll EXCEPT ![p] = IF @.complete THEN [@ EXCEPT !.pc = "complete"] ELSE Idle]
    /\ UNCHANGED <<hive, unread, adapter, seen, rows, lost, runVars, sockVars, meta, faults>>

EmitFails(p) ==
    /\ poll[p].pc = "write" /\ poll[p].items = {} /\ Fault
    /\ poll' = [poll EXCEPT ![p] = Idle]
    /\ UNCHANGED <<hive, unread, adapter, seen, rows, bus, lost, runVars, sockVars, meta>>

\* handleRunComplete(): META is replaced, not merged; then stop().
WriteCompleted(p) ==
    /\ poll[p].pc = "complete"
    /\ meta' = Meta("completed", FALSE)
    /\ poll' = [poll EXCEPT ![p].pc = "announce"]
    /\ UNCHANGED <<hive, unread, adapter, seen, rows, bus, lost, runVars, sockVars, faults>>

Announce(p) ==
    /\ poll[p].pc = "announce" /\ poll' = [poll EXCEPT ![p] = Idle] /\ adapter' = "stopped"
    /\ bus' = TRUE
    /\ UNCHANGED <<hive, unread, seen, rows, lost, runVars, sockVars, meta, faults>>

\* The write or the event fails: the adapter goes on polling.
CompletionFails(p) ==
    /\ poll[p].pc \in {"complete", "announce"} /\ poll' = [poll EXCEPT ![p] = Idle] /\ Fault
    /\ UNCHANGED <<hive, unread, adapter, seen, rows, bus, lost, runVars, sockVars, meta>>

PollStep(p) ==
    \/ Tick(p) \/ StatFile(p) \/ LoadFails(p) \/ Diff(p) \/ WriteChunk(p) \/ WriteFails(p)
    \/ Emit(p) \/ EmitFails(p) \/ WriteCompleted(p) \/ Announce(p) \/ CompletionFails(p)

-----------------------------------------------------------------------------
(* A page and its sockets: useRunUpdates() *)

\* onopen: the page subscribes.  It opens the next socket when the last one has closed.
OpenSocket(c) ==
    /\ sock[c] = "new" /\ \A d \in Conn : sock[d] # "open"
    /\ sock' = [sock EXCEPT ![c] = "open"] /\ asked' = asked \cup {c}
    /\ UNCHANGED <<adapterVars, runVars, left, subs, meta, faults>>

\* onclose, for whatever reason; API Gateway invokes $disconnect, or does not get to it.
SocketCloses(c) ==
    /\ sock[c] = "open" /\ sock' = [sock EXCEPT ![c] = "closed"] /\ Fault
    /\ left' \in {left, left \cup {c}}
    /\ UNCHANGED <<adapterVars, runVars, asked, subs, meta>>

\* handleSubscribe(), which does not know whether the socket is still there.
Subscribe(c) ==
    /\ c \in asked /\ asked' = asked \ {c} /\ subs' = subs \cup {c}
    /\ UNCHANGED <<adapterVars, runVars, sock, left, meta, faults>>

\* handleDisconnect()
Disconnect(c) ==
    /\ c \in left /\ left' = left \ {c} /\ subs' = subs \ {c}
    /\ UNCHANGED <<adapterVars, runVars, sock, asked, meta, faults>>

\* postToConnection() answers Gone for closed sockets.
Gone == {c \in subs : sock[c] = "closed"}

\* WebSocketBroadcaster.handle(), for an event; others may remain.
Broadcast ==
    /\ bus /\ bus' \in BOOLEAN /\ subs' = subs \ Gone
    /\ UNCHANGED <<hive, unread, adapter, seen, poll, rows, lost, runVars, sock, asked, left, meta, faults>>

\* Another error than Gone: it is counted.
BroadcastFails(c) ==
    /\ bus /\ c \in subs /\ sock[c] = "open" /\ bus' \in BOOLEAN /\ subs' = subs \ Gone /\ Fault
    /\ UNCHANGED <<hive, unread, adapter, seen, poll, rows, lost, runVars, sock, asked, left, meta>>

-----------------------------------------------------------------------------
Create == PutPending \/ Enqueue \/ RunTask \/ RecordTask \/ CreateFails
Cancel == ReadMeta \/ StopTask \/ StopFails \/ PutCancelled
Task   == TaskAges \/ TimeoutScan \/ StartAdapter \/ Interrupt \/ TaskEnds
Hive   == Save \/ \E s \in Story : StoryChanges(s)
Page   == \/ \E c \in Conn : OpenSocket(c) \/ SocketCloses(c) \/ Subscribe(c) \/ Disconnect(c)
          \/ Broadcast \/ \E c \in Conn : BroadcastFails(c)

Next == Create \/ Cancel \/ Task \/ Hive \/ (\E p \in Poll : PollStep(p)) \/ Page

Spec == Init /\ [][Next]_vars

\* The timer of the adapter goes on, a poll's calls are answered, and in a task that
\* lives the manager saves hive.db at every check.  Nothing else is promised.
Fairness == WF_vars(Save) /\ \A p \in Poll : WF_vars(PollStep(p))

FairSpec == Spec /\ Fairness

-----------------------------------------------------------------------------
(* Types of all variables. *)
TypeOK ==
    /\ hive \in [Story -> RowStatus] /\ seen \in [Story -> RowStatus] /\ rows \in [Story -> RowStatus]
    /\ unread \in BOOLEAN /\ adapter \in {"off", "polling", "stopped"} /\ bus \in BOOLEAN
    /\ poll \in [Poll -> [pc : {"idle", "stat", "load", "write", "complete", "announce"},
                          items : SUBSET Item, complete : BOOLEAN]]
    /\ meta \in SUBSET MetaItem
    /\ create \in {"put", "queue", "launch", "record", "done", "failed"}
    /\ cancel \in [pc : {"idle", "stop", "put"}, copy : SUBSET MetaItem]
    /\ task \in {"none", "running", "stopping", "gone"} /\ age \in {"young", "overdue"}
    /\ sock \in [Conn -> {"new", "open", "closed"}]
    /\ asked \subseteq Conn /\ left \subseteq Conn /\ subs \subseteq Conn
    /\ faults \in 0..MaxFaults /\ lost \subseteq Story

(* The mirror catches up with hive.db again and again while the adapter    *)
(* polls, apart from rows whose write failed: a save that comes while a    *)
(* poll is reading or writing is not overlooked (state-sync.ts:103).       *)
MirrorCatchesUp == []<>(adapter # "polling" \/ \A s \in Story \ lost : rows[s] = hive[s])

(* When all stories are merged, the run is declared complete, though the   *)
(* poll that wrote the last of them failed, unless the task ends or a new  *)
(* story appears (state-sync.ts:316).                                      *)
CompletionIsReported ==
    (adapter = "polling" /\ isRunComplete)
        ~> (adapter = "stopped" \/ ~isRunComplete \/ \E m \in meta : m.status = "completed")

(* A socket that is open and has subscribed keeps its record, whatever     *)
(* becomes of other sockets, of late subscriptions and of failed posts     *)
(* (ws-broadcaster.ts:95).                                                 *)
LiveStaysSubscribed == \A c \in Conn : sock[c] = "open" /\ c \notin asked => c \in subs

(* Not so in the code: a run that says "cancelled" leaves no task running. *)
(* cancelRun() reads META before createRun() records the task in it, and   *)
(* overwrites the record afterwards; or createRun()'s second put turns a   *)
(* cancelled run back into a pending one (DISTRIBUTED-SPEC.md:159).        *)
CancelStopsTheTask ==
    (create = "done" /\ cancel.pc = "idle" /\ \E m \in meta : m.status = "cancelled") => task # "running"

(* Not so in the code: what a run was declared to be, it stays.            *)
(* cancelRun.ts:54 and state-sync.ts:331 replace META without a condition. *)
FinalStands ==
    [][\A m \in meta, n \in meta' : m.status \in Final => n.status = m.status]_vars

(* Not so in the code: a task that runs for too long is stopped.  The scan *)
(* asks an index for GSI2PK, which nothing writes (run-timeout.ts:45).     *)
OverdueIsStopped == (task = "running" /\ age = "overdue") ~> task # "running"
=============================================================================
