---------------------------- MODULE HiveContext -----------------------------
(***************************************************************************)
(* How the processes of one machine share .hive/hive.db: withHiveContext   *)
(* (utils/with-hive-context.ts), which every command and every step of the *)
(* manager's check runs in, the database client it opens (db/client.ts),   *)
(* the file lock around both (db/lock.ts, over proper-lockfile) and the    *)
(* polls of the state-sync adapter, which open the database without it.    *)
(*                                                                         *)
(* sql.js works on a copy of the file in memory, and a save replaces the   *)
(* whole file by the copy: through hive.db.tmp, a path all processes       *)
(* share, renamed to hive.db.  Writing opens and truncates that path, and  *)
(* what is written goes to the inode it named then: a rename by another    *)
(* process in between makes that inode hive.db.  An empty hive.db is below *)
(* CORRUPTION_CHECK_MIN_FILE_SIZE and loads as a new, empty database.      *)
(*                                                                         *)
(* A database is the set of updates in it.  An operation is two updates,   *)
(* with or without a transaction around them.  A caller that runs out of   *)
(* retries for the lock has changed nothing, and is not modelled; nor is   *)
(* hive.db.bak, which no code reads.                                       *)
(***************************************************************************)
EXTENDS Integers, FiniteSets

CONSTANTS
    Command,    \* processes that call withHiveContext
    Daemon,     \* those that live on when a call fails: the manager
    Poll,       \* polls of the state-sync adapter that may overlap
    Message,    \* inbound messages
    Nobody,     \* the owner of a free lock
    Absent,     \* no such file
    MaxOps,     \* bound: operations
    MaxMishaps  \* bound: processes that die, holders that cannot refresh their
                \* lock in time, loads and remote calls that fail

ASSUME ContextAssumption ==
    /\ Daemon \subseteq Command /\ Command \cap Poll = {}
    /\ Nobody \notin Command
    /\ MaxOps \in Nat /\ MaxMishaps \in Nat

Client == Command \cup Poll
Op     == 1 .. MaxOps
Update == (Op \X {1, 2}) \cup Message
ASSUME MessageAssumption == Message \cap (Op \X {1, 2}) = {}
File   == [updates : SUBSET Update, empty : BOOLEAN]
ASSUME AbsentAssumption == Absent \notin File

Phase  == {"idle", "ready", "open", "opened", "written", "release", "dead"}

VARIABLES
    file,      \* hive.db
    tmp,       \* hive.db.tmp
    inode,     \* which file the one a client opened for writing is by now
    lock,      \* the lock directory: its owner, and whether it looks stale
    phase,     \* where a client is in its call
    closing,   \* the save under way is the one of close()
    memory,    \* the client's copy of the database
    op,        \* the operation a command works on: how far, in a transaction
    failed,    \* the call ends with an error
    acked,     \* operations whose call returned
    atomic,    \* operations run in a transaction
    todo,      \* messages that a poll takes for pending
    inbox,     \* the messages in DynamoDB: unsent, pending, marked as delivered
    overlapped, \* history: two clients have had the database open at once
    budget     \* operations, crashes, stalls and faults so far

clientVars == <<phase, closing, memory, op, failed>>
diskVars   == <<file, tmp, inode>>
opVars     == <<acked, atomic, overlapped>>
inboxVars  == <<todo, inbox>>
vars == <<diskVars, lock, clientVars, opVars, inboxVars, budget>>

Mishap == budget.crashes + budget.stalls + budget.faults < MaxMishaps

NoOp == [id |-> 0, done |-> 0, txn |-> FALSE]

TypeOK ==
    /\ file \in File /\ tmp \in File \cup {Absent}
    /\ inode \in [Client -> {"none", "tmp", "db", "gone"}]
    /\ lock \in [owner : Command \cup {Nobody}, stale : BOOLEAN]
    /\ phase \in [Client -> Phase]
    /\ closing \in [Client -> BOOLEAN] /\ failed \in [Client -> BOOLEAN]
    /\ memory \in [Client -> SUBSET Update]
    /\ op \in [Client -> [id : 0 .. MaxOps, done : 0 .. 2, txn : BOOLEAN]]
    /\ acked \subseteq Op /\ atomic \subseteq Op /\ overlapped \in BOOLEAN
    /\ todo \in [Poll -> SUBSET Message] 
    /\ inbox \in [Message -> {"unsent", "pending", "delivered"}]
    /\ budget \in [ops : 0 .. MaxOps, crashes : Nat, stalls : Nat, faults : Nat]

\* createDatabase() on hive init: an empty database, nothing running.
Init ==
    /\ file = [updates |-> {}, empty |-> FALSE] /\ tmp = Absent
    /\ inode = [c \in Client |-> "none"]
    /\ lock = [owner |-> Nobody, stale |-> FALSE]
    /\ phase = [c \in Client |-> "idle"]
    /\ closing = [c \in Client |-> FALSE] /\ failed = [c \in Client |-> FALSE]
    /\ memory = [c \in Client |-> {}]
    /\ op = [c \in Client |-> NoOp]
    /\ acked = {} /\ atomic = {} /\ overlapped = FALSE
    /\ todo = [p \in Poll |-> {}] /\ inbox = [m \in Message |-> "unsent"]
    /\ budget = [ops |-> 0, crashes |-> 0, stalls |-> 0, faults |-> 0]

-----------------------------------------------------------------------------
(* Plausible mistakes, for the properties to catch. *)

\* A lock is taken however fresh it is.
AvailableAnyway == TRUE
\* A save cut short is finished from the temporary file.
LoadedOfTmp == IF tmp = Absent THEN {} ELSE tmp.updates
\* An error undoes the last statement of fn only.
RollbackLast(c) == memory[c] \ {<<op[c].id, op[c].done>>}
\* The message is marked first, and inserted when that has answered.
DeliverMarkedFirst(p, m) ==
    /\ phase[p] = "open" /\ ~failed[p] /\ m \in todo[p]
    /\ inbox' = [inbox EXCEPT ![m] = "delivered"]
    /\ todo' = [todo EXCEPT ![p] = @ \ {m}]
    /\ \/ memory' = [memory EXCEPT ![p] = @ \cup {m}] /\ UNCHANGED <<failed, budget>>
       \/ /\ Mishap
          /\ budget' = [budget EXCEPT !.faults = @ + 1]
          /\ failed' = [failed EXCEPT ![p] = TRUE]
          /\ UNCHANGED memory
    /\ UNCHANGED <<diskVars, lock, phase, closing, op, opVars>>

-----------------------------------------------------------------------------
(* The lock, as proper-lockfile keeps it: a directory whose age its owner   *)
(* refreshes from a timer.  One that was not refreshed for `stale' ms is    *)
(* taken over; releasing it removes whatever directory is there.            *)

Available == lock.owner = Nobody \/ lock.stale

acquireLock(c) ==
    /\ phase[c] = "idle" /\ Available
    /\ lock' = [owner |-> c, stale |-> FALSE]
    /\ phase' = [phase EXCEPT ![c] = "ready"]
    /\ UNCHANGED <<diskVars, closing, memory, op, failed, opVars, inboxVars, budget>>

Released == [owner |-> Nobody, stale |-> FALSE]

\* The owner died, or is kept from its timer by a synchronous call (execSync).
Expire(c) ==
    /\ lock.owner = c /\ ~lock.stale
    /\ \/ phase[c] = "dead" /\ UNCHANGED budget
       \/ /\ phase[c] = "open" /\ Mishap
          /\ budget' = [budget EXCEPT !.stalls = @ + 1]
    /\ lock' = [lock EXCEPT !.stale = TRUE]
    /\ UNCHANGED <<diskVars, clientVars, opVars, inboxVars>>

\* The timer of an owner that can run again.
Refresh(c) ==
    /\ lock = [owner |-> c, stale |-> TRUE] /\ phase[c] # "dead"
    /\ lock' = [lock EXCEPT !.stale = FALSE]
    /\ UNCHANGED <<diskVars, clientVars, opVars, inboxVars, budget>>

Die(C) ==
    /\ phase' = [c \in Client |-> IF c \in C THEN "dead" ELSE phase[c]]
    /\ inode' = [c \in Client |-> IF c \in C THEN "none" ELSE inode[c]]
    /\ memory' = [c \in Client |-> IF c \in C THEN {} ELSE memory[c]]
    /\ op' = [c \in Client |-> IF c \in C THEN NoOp ELSE op[c]]
    /\ closing' = [c \in Client |-> c \notin C /\ closing[c]]
    /\ failed' = [c \in Client |-> c \notin C /\ failed[c]]

\* It finds the lock gone or another's: onCompromised throws, which ends it.
Compromised(c) ==
    /\ phase[c] \in {"ready", "open", "opened", "written", "release"}
    /\ lock.owner # c
    /\ Die({c})
    /\ UNCHANGED <<file, tmp, lock, opVars, inboxVars, budget>>

-----------------------------------------------------------------------------
(* The database client. *)

\* From the load to the rename that ends the call.
InDatabase(c) == phase[c] \in {"open", "opened", "written"}

Ready(c) == phase[c] = "ready"

\* createDatabase(): the copy; validateLoadedDatabase passes an empty file.
Loaded == IF file.empty THEN {} ELSE file.updates

getDatabase(c) ==
    /\ Ready(c)
    /\ memory' = [memory EXCEPT ![c] = Loaded]
    /\ phase' = [phase EXCEPT ![c] = "open"]
    /\ overlapped' = (overlapped \/ \E d \in Client \ {c} : InDatabase(d))
    /\ UNCHANGED <<diskVars, lock, closing, op, failed, acked, atomic, inboxVars, budget>>

\* A call is over.  A process that exits on a failure takes its lock along.
Leave(c) ==
    /\ phase' = [phase EXCEPT ![c] = "idle"]
    /\ memory' = [memory EXCEPT ![c] = {}]
    /\ op' = [op EXCEPT ![c] = NoOp]
    /\ closing' = [closing EXCEPT ![c] = FALSE]
    /\ failed' = [failed EXCEPT ![c] = FALSE]

Abandon(c) ==
    /\ Leave(c)
    /\ lock' = IF lock.owner = c /\ c \notin Daemon THEN Released ELSE lock

\* getDatabase() throws, which is before the try: nothing releases the lock.
LoadFails(c) ==
    /\ Ready(c) /\ Mishap
    /\ budget' = [budget EXCEPT !.faults = @ + 1]
    /\ Abandon(c)
    /\ UNCHANGED <<diskVars, opVars, inboxVars>>

\* save(): writeFileSync opens and truncates the path ...
Truncated == [updates |-> {}, empty |-> TRUE]
OpenTmp(c) ==
    /\ tmp' = Truncated
    /\ inode' = [inode EXCEPT ![c] = "tmp"]
    /\ UNCHANGED file

BeginSave(c, last) ==
    /\ phase[c] = "open"
    /\ OpenTmp(c)
    /\ phase' = [phase EXCEPT ![c] = "opened"]
    /\ closing' = [closing EXCEPT ![c] = last]

\* ... and fills the inode it opened ...
WriteTmp(c) ==
    /\ phase[c] = "opened"
    /\ LET copy == [updates |-> memory[c], empty |-> FALSE]
       IN /\ tmp' = IF inode[c] = "tmp" THEN copy ELSE tmp
          /\ file' = IF inode[c] = "db" THEN copy ELSE file
    /\ phase' = [phase EXCEPT ![c] = "written"]
    /\ UNCHANGED <<inode, lock, closing, memory, op, failed, opVars, inboxVars, budget>>

AfterSave(c) == IF closing[c] THEN "release" ELSE "open"

\* ... and renameSync replaces hive.db.
Rename(c) ==
    /\ phase[c] = "written" /\ tmp # Absent
    /\ file' = tmp /\ tmp' = Absent
    /\ inode' = [d \in Client |-> CASE d = c -> "none"
                                    [] inode[d] = "tmp" /\ d # c -> "db"
                                    [] inode[d] = "db" /\ d # c -> "gone"
                                    [] OTHER -> inode[d]]
    /\ phase' = [phase EXCEPT ![c] = AfterSave(c)]
    /\ UNCHANGED <<lock, closing, memory, op, failed, opVars, inboxVars, budget>>

\* Another client renamed it: ENOENT.  Inside fn this fails the call, which
\* closes and so saves again; inside close() nothing after it runs.
RenameFails(c) ==
    /\ phase[c] = "written" /\ tmp = Absent
    /\ inode' = [inode EXCEPT ![c] = "none"]
    /\ IF closing[c]
       THEN Abandon(c)
       ELSE /\ phase' = [phase EXCEPT ![c] = "open"]
            /\ failed' = [failed EXCEPT ![c] = TRUE]
            /\ UNCHANGED <<lock, closing, memory, op>>
    /\ UNCHANGED <<file, tmp, opVars, inboxVars, budget>>

-----------------------------------------------------------------------------
(* withHiveContext: fn, close() and releaseLock() in a finally. *)

\* fn starts changing the database, in a transaction or not.
BeginOp(c) ==
    /\ phase[c] = "open" /\ op[c] = NoOp /\ ~failed[c] /\ budget.ops < MaxOps
    /\ LET id == budget.ops + 1
       IN \E txn \in BOOLEAN :
            /\ op' = [op EXCEPT ![c] = [id |-> id, done |-> 0, txn |-> txn]]
            /\ atomic' = IF txn THEN atomic \cup {id} ELSE atomic
            /\ budget' = [budget EXCEPT !.ops = id]
    /\ UNCHANGED <<diskVars, lock, phase, closing, memory, failed, acked, overlapped, inboxVars>>

RunUpdate(c) ==
    /\ phase[c] = "open" /\ op[c].id # 0 /\ op[c].done < 2 /\ ~failed[c]
    /\ memory' = [memory EXCEPT ![c] = @ \cup {<<op[c].id, op[c].done + 1>>}]
    /\ op' = [op EXCEPT ![c].done = @ + 1]
    /\ UNCHANGED <<diskVars, lock, phase, closing, failed, opVars, inboxVars, budget>>

\* db.save() in the course of fn, when there is something to save.
SaveInFn(c) ==
    /\ c \in Command /\ memory[c] # file.updates /\ op[c].done > 0 /\ ~op[c].txn /\ ~failed[c]
    /\ BeginSave(c, FALSE)
    /\ UNCHANGED <<lock, memory, op, failed, opVars, inboxVars, budget>>

\* withTransaction: COMMIT, and saveFn() at once.
Commit(c) ==
    /\ op[c].txn /\ op[c].done = 2 /\ ~failed[c]
    /\ BeginSave(c, FALSE)
    /\ op' = [op EXCEPT ![c].txn = FALSE]
    /\ UNCHANGED <<lock, memory, failed, opVars, inboxVars, budget>>

\* An error in fn: ROLLBACK in a transaction, nothing is undone without.
Rollback(c) == IF op[c].txn THEN memory[c] \ {<<op[c].id, 1>>, <<op[c].id, 2>>}
                            ELSE memory[c]
FnThrows(c) ==
    /\ phase[c] = "open" /\ op[c].id # 0 /\ ~failed[c]
    /\ memory' = [memory EXCEPT ![c] = Rollback(c)]
    /\ op' = [op EXCEPT ![c].txn = FALSE]
    /\ failed' = [failed EXCEPT ![c] = TRUE]
    /\ UNCHANGED <<diskVars, lock, phase, closing, opVars, inboxVars, budget>>

\* close() saves whether fn returned or threw.
Close(c) ==
    /\ c \in Command
    /\ failed[c] \/ op[c] = NoOp \/ (op[c].done = 2 /\ ~op[c].txn)
    /\ BeginSave(c, TRUE)
    /\ UNCHANGED <<lock, memory, op, failed, opVars, inboxVars, budget>>

releaseLock(c) ==
    /\ c \in Command /\ phase[c] = "release"
    /\ lock' = Released
    /\ acked' = IF failed[c] \/ op[c].id = 0 THEN acked ELSE acked \cup {op[c].id}
    /\ Leave(c)
    /\ UNCHANGED <<diskVars, atomic, overlapped, inboxVars, budget>>

-----------------------------------------------------------------------------
(* pollInboundMessages of the state-sync adapter. *)

\* A user writes to an agent.  The handler wants META to say "running", which code
\* outside this repository has to see to (CloudRun).
SendMessage(m) ==
    /\ inbox[m] = "unsent"
    /\ inbox' = [inbox EXCEPT ![m] = "pending"]
    /\ UNCHANGED <<diskVars, lock, clientVars, opVars, todo, budget>>

\* The interval fires whether or not the last poll is done.  The mark is an attribute
\* beside data, and the filter looks inside data: every message passes it, each time.
pendingMessages == {m \in Message : inbox[m] # "unsent"}

queryByRunId(p) ==
    /\ phase[p] = "idle"
    /\ pendingMessages # {} /\ todo' = [todo EXCEPT ![p] = pendingMessages]
    /\ phase' = [phase EXCEPT ![p] = "ready"]
    /\ UNCHANGED <<diskVars, lock, closing, memory, op, failed, opVars, inbox, budget>>

\* INSERT OR IGNORE, under a new id each time (copies are one update here), then
\* markInboundMessageDelivered, which may fail.
Deliver(p, m) ==
    /\ phase[p] = "open" /\ ~failed[p] /\ m \in todo[p]
    /\ memory' = [memory EXCEPT ![p] = @ \cup {m}]
    /\ \/ /\ inbox' = [inbox EXCEPT ![m] = "delivered"]
          /\ todo' = [todo EXCEPT ![p] = @ \ {m}]
          /\ UNCHANGED <<failed, budget>>
       \/ /\ Mishap
          /\ budget' = [budget EXCEPT !.faults = @ + 1]
          /\ failed' = [failed EXCEPT ![p] = TRUE]
          /\ UNCHANGED inboxVars
    /\ UNCHANGED <<diskVars, lock, phase, closing, op, opVars>>

ClosePoll(p) ==
    /\ failed[p] \/ todo[p] = {}
    /\ BeginSave(p, TRUE)
    /\ UNCHANGED <<lock, memory, op, failed, opVars, inboxVars, budget>>

FinishPoll(p) ==
    /\ phase[p] = "release"
    /\ Leave(p)
    /\ todo' = [todo EXCEPT ![p] = {}]
    /\ UNCHANGED <<diskVars, lock, opVars, inbox, budget>>

-----------------------------------------------------------------------------
\* Commands die alone, all polls with the adapter; the lock stays.
Crash(C) ==
    /\ \A c \in C : phase[c] # "dead"
    /\ Mishap
    /\ budget' = [budget EXCEPT !.crashes = @ + 1]
    /\ Die(C)
    /\ UNCHANGED <<file, tmp, lock, opVars, inboxVars>>

Proceed(c) == getDatabase(c) \/ WriteTmp(c) \/ Rename(c) \/ RenameFails(c)

Call(c) == RunUpdate(c) \/ Commit(c) \/ Close(c) \/ releaseLock(c) \/ Compromised(c)

Next ==
    \/ \E c \in Client : Proceed(c) \/ LoadFails(c)
    \/ \E c \in Command : Call(c) \/ acquireLock(c) \/ Expire(c) \/ Refresh(c)
                          \/ BeginOp(c) \/ SaveInFn(c) \/ FnThrows(c) \/ Crash({c})
    \/ \E p \in Poll : queryByRunId(p) \/ ClosePoll(p) \/ FinishPoll(p)
                       \/ \E m \in Message : Deliver(p, m)
    \/ Poll # {} /\ Crash(Poll)
    \/ \E m \in Message : SendMessage(m)

Spec == Init /\ [][Next]_vars

\* Processes that are not dead run on, fn ends, the lock of a dead one ages, and
\* whoever is alive keeps calling: the manager does so on a timer.
Fairness ==
    /\ \A c \in Client : WF_vars(Proceed(c))
    /\ \A c \in Command : /\ SF_vars(Call(c)) /\ WF_vars(acquireLock(c))
                          /\ WF_vars(phase[c] = "dead" /\ Expire(c))
    /\ \A p \in Poll : WF_vars(queryByRunId(p) \/ ClosePoll(p) \/ FinishPoll(p)
                                \/ \E m \in Message : Deliver(p, m))

FairSpec == Spec /\ Fairness

-----------------------------------------------------------------------------
(* Properties. *)

\* Two commands have the database open at once only after a holder that lives
\* was kept from its lock, and a poll only after a message has come: the lock
\* keeps commands apart whoever dies, throws or fails to load (withHiveContext).
OverlapHasACause ==
    overlapped => budget.stalls > 0 \/ \E m \in Message : inbox[m] # "unsent"

MutualExclusion ==
    budget.stalls = 0 =>
        \A c, d \in Command : InDatabase(c) /\ InDatabase(d) => c = d

\* Unless two had it open at once, an operation whose call returned without an
\* error is in hive.db for good, whoever crashes, throws or takes a dead
\* holder's lock over afterwards.
Saved(id) == {<<id, 1>>, <<id, 2>>} \subseteq file.updates
AcknowledgedIsSaved == overlapped \/ \A id \in acked : Saved(id)

\* The same whatever happens: "to prevent concurrent access and race conditions".
NothingAcknowledgedIsLost == \A id \in acked : Saved(id)

\* Nor does any save lose an update that was in hive.db: each writes the whole
\* of a copy (save()).
SavedUpdatesStay == [][overlapped \/ file.updates \subseteq file'.updates]_vars

\* Nor is hive.db ever the truncated file a save is about to fill (save()'s
\* temporary file and rename).
FileIsComplete == overlapped \/ ~file.empty

\* Half of a transaction is never on disk, not after an error, nor a crash,
\* nor a save of somebody else's copy, nor when two had the database open
\* (withTransaction).
NoHalfTransaction ==
    \A id \in atomic : <<id, 1>> \in file.updates <=> <<id, 2>> \in file.updates

\* A process that lives holds the lock only in the course of a call (withDb:
\* "the lock is only held for the duration of fn"), unless the manager's load
\* failed or another client renamed the manager's temporary file.
HeldOnlyDuringCall ==
    \A c \in Command : lock.owner = c /\ phase[c] = "idle" =>
        c \in Daemon /\ (budget.faults > 0 \/ overlapped)

\* A message that is marked delivered is in hive.db, or in the copy that a poll
\* is about to save, unless the adapter died or two had the database open
\* (pollInboundMessages marks it before it is saved).
DeliveredIsSaved ==
    \A m \in Message : inbox[m] = "delivered" =>
        \/ m \in file.updates \/ \E p \in Poll : m \in memory[p]
        \/ overlapped \/ \E p \in Poll : phase[p] = "dead"

\* A lock never stays with one process: its call ends, or it has died and
\* another takes the lock over, if one is alive (HeldOnlyDuringCall tells why
\* not the manager).
LockMovesOn ==
    \A c \in Command \ Daemon :
        lock.owner = c ~> lock.owner # c \/ \A d \in Command : phase[d] = "dead"

\* A message is delivered however often marking it failed before.
InboxDrains ==
    \A m \in Message : inbox[m] = "pending" ~>
        inbox[m] = "delivered" \/ \A p \in Poll : phase[p] = "dead"
=============================================================================
