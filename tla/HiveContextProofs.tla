------------------------- MODULE HiveContextProofs --------------------------
(***************************************************************************)
(* Theorems about HiveContext.                                             *)
(*                                                                         *)
(* Mutual exclusion holds for any number of commands, polls, crashes and   *)
(* failures as long as no holder that lives has been kept from refreshing  *)
(* its lock.  It is not inductive: a command in its call must also own the *)
(* lock, and that lock must be fresh, or another could take it over.       *)
(*                                                                         *)
(* What is in hive.db takes two invariants more.  WholeInv: whatever is on *)
(* disk or in a copy is half of no transaction but the one its client is   *)
(* in; it needs no exclusion.  Alone: as long as no two clients were in    *)
(* the database at once, who is in it has all of hive.db in its copy.      *)
(***************************************************************************)
EXTENDS HiveContext, TLAPS

InCall(c) == phase[c] \in {"ready", "open", "opened", "written", "release"}

Budget == [ops : Nat, crashes : Nat, stalls : Nat, faults : Nat]

LockType ==
    /\ lock \in [owner : Command \cup {Nobody}, stale : BOOLEAN]
    /\ phase \in [Client -> Phase]
    /\ budget \in Budget

CallOwnsLock ==
    budget.stalls = 0 =>
        \A c \in Command : InCall(c) => lock.owner = c /\ ~lock.stale

LockInv == LockType /\ CallOwnsLock

\* What steps do to the budget: a stall is never taken back.
Spent == budget' \in Budget /\ (budget'.stalls = 0 => budget.stalls = 0)

LEMMA LockInvInit == Init => LockInv
BY ContextAssumption DEF Init, LockInv, LockType, Budget, CallOwnsLock, InCall, Phase, Client

-----------------------------------------------------------------------------
(* The steps that leave the lock alone and keep a client in or out of its  *)
(* call.                                                                   *)

LEMMA QuietSteps ==
    ASSUME LockInv, lock' = lock, Spent,
           NEW c \in Client, NEW p \in Phase, phase' = [phase EXCEPT ![c] = p],
           InCall(c) \/ p \in {"idle", "dead"} \/ c \notin Command
    PROVE  LockInv'
BY DEF LockInv, LockType, CallOwnsLock, Spent, InCall, Client, Phase

LEMMA SamePhase ==
    ASSUME LockInv, UNCHANGED <<lock, phase>>, Spent
    PROVE  LockInv'
BY DEF LockInv, LockType, CallOwnsLock, Spent, InCall

LEMMA Departure ==
    ASSUME LockInv, UNCHANGED <<lock, budget>>, NEW c \in Client, Leave(c)
    PROVE  LockInv'
BY DEF LockInv, LockType, CallOwnsLock, InCall, Client, Phase, Leave

LEMMA Death ==
    ASSUME LockInv, UNCHANGED lock, Spent, NEW C, Die(C)
    PROVE  LockInv'
BY DEF LockInv, LockType, CallOwnsLock, InCall, Client, Phase, Spent, Die

\* Abandon and releaseLock give the lock back, which was the caller's own.
LEMMA Giving ==
    ASSUME LockInv, Spent, NEW c \in Client, Leave(c),
           \/ lock' = lock
           \/ (budget.stalls = 0 => lock.owner = c) /\ lock' = Released
    PROVE  LockInv'
<1>1. lock' \in [owner : Command \cup {Nobody}, stale : BOOLEAN]
  <2>1. CASE lock' = lock
    BY <2>1 DEF LockInv, LockType
  <2>2. CASE lock' = Released
    BY <2>2 DEF Released
  <2> QED BY <2>1, <2>2
<1>2. phase' \in [Client -> Phase] /\ ~InCall(c)'
  BY DEF LockInv, LockType, Leave, Phase, InCall
<1>3. ASSUME budget'.stalls = 0, NEW d \in Command, InCall(d)'
      PROVE  lock'.owner = d /\ ~lock'.stale
  <2>1. d # c /\ InCall(d)
    BY <1>2, <1>3 DEF LockInv, LockType, Leave, InCall, Client
  <2>2. lock.owner = d /\ ~lock.stale
    BY <1>3, <2>1 DEF LockInv, CallOwnsLock, Spent
  <2> QED BY <1>3, <2>1, <2>2 DEF Spent
<1> QED BY <1>1, <1>2, <1>3 DEF LockInv, LockType, CallOwnsLock, Spent

-----------------------------------------------------------------------------
\* Proceed, LoadFails: the steps of the database client.
LEMMA ClientSteps ==
    ASSUME LockInv, NEW c \in Client, Proceed(c) \/ LoadFails(c)
    PROVE  LockInv'
<1>1. CASE getDatabase(c)
  BY <1>1, QuietSteps DEF getDatabase, Ready, InCall, Phase, LockInv, LockType, Spent
<1>2. CASE WriteTmp(c)
  BY <1>2, QuietSteps DEF WriteTmp, InCall, Phase, LockInv, LockType, Spent
<1>3. CASE Rename(c)
  BY <1>3, QuietSteps DEF Rename, AfterSave, InCall, Phase, LockInv, LockType, Spent
<1>4. CASE RenameFails(c)
  <2>1. CASE closing[c]
    BY <1>4, <2>1, Giving DEF RenameFails, Abandon, LockInv, LockType, Spent
  <2>2. CASE ~closing[c]
    BY <1>4, <2>2, QuietSteps DEF RenameFails, InCall, Phase, LockInv, LockType, Spent
  <2> QED BY <2>1, <2>2
<1>5. CASE LoadFails(c)
  <2>1. Spent
    BY <1>5 DEF LoadFails, LockInv, LockType, Budget, Spent
  <2> QED BY <1>5, <2>1, Giving DEF LoadFails, Abandon
<1> QED BY <1>1, <1>2, <1>3, <1>4, <1>5 DEF Proceed

\* Taking the lock is where exclusion is won: it was free or stale, so no
\* command was in its call.
LEMMA TakingTheLock ==
    ASSUME LockInv, NEW c \in Command, acquireLock(c)
    PROVE  LockInv'
BY ContextAssumption DEF LockInv, LockType, CallOwnsLock, InCall, Client, Phase, acquireLock, Available

LEMMA CommandSteps ==
    ASSUME LockInv, NEW c \in Command,
           \/ Call(c) \/ acquireLock(c) \/ Expire(c) \/ Refresh(c)
           \/ BeginOp(c) \/ SaveInFn(c) \/ FnThrows(c) \/ Crash({c})
    PROVE  LockInv'
<1> c \in Client
  BY DEF Client
<1>1. CASE RunUpdate(c) \/ FnThrows(c)
  BY <1>1, SamePhase DEF RunUpdate, FnThrows, LockInv, LockType, Spent
<1>2. CASE BeginOp(c)
  BY <1>2, SamePhase DEF BeginOp, LockInv, LockType, Budget, Spent
<1>3. CASE Commit(c) \/ Close(c) \/ SaveInFn(c)
  BY <1>3, QuietSteps DEF Commit, Close, SaveInFn, BeginSave, InCall, Phase, LockInv, LockType, Spent
<1>4. CASE releaseLock(c)
  <2>1. budget.stalls = 0 => lock.owner = c
    BY <1>4 DEF releaseLock, LockInv, CallOwnsLock, InCall
  <2> QED BY <1>4, <2>1, Giving DEF releaseLock, LockInv, LockType, Spent
<1>5. CASE Compromised(c)
  BY <1>5, Death DEF Compromised, LockInv, LockType, Spent
<1>6. CASE acquireLock(c)
  BY <1>6, TakingTheLock
<1>7. CASE Expire(c)
  <2>1. UNCHANGED phase /\ lock' = [lock EXCEPT !.stale = TRUE] /\ lock.owner = c
    BY <1>7 DEF Expire, clientVars
  <2>2. CASE phase[c] = "dead" /\ UNCHANGED budget
    BY <2>1, <2>2 DEF LockInv, LockType, CallOwnsLock, InCall
  <2>3. CASE budget' = [budget EXCEPT !.stalls = @ + 1]
    <3>1. budget' \in Budget /\ budget'.stalls # 0
      BY <2>3 DEF LockInv, LockType, Budget
    <3>2. lock' \in [owner : Command \cup {Nobody}, stale : BOOLEAN]
      BY <2>1 DEF LockInv, LockType
    <3> QED BY <2>1, <3>1, <3>2 DEF LockInv, LockType, CallOwnsLock
  <2> QED BY <1>7, <2>2, <2>3 DEF Expire
<1>8. CASE Refresh(c)
  BY <1>8 DEF Refresh, clientVars, LockInv, LockType, CallOwnsLock, InCall
<1>9. CASE Crash({c})
  <2>1. Spent
    BY <1>9 DEF Crash, LockInv, LockType, Budget, Spent
  <2> QED BY <1>9, <2>1, Death DEF Crash
<1> QED BY <1>1, <1>2, <1>3, <1>4, <1>5, <1>6, <1>7, <1>8, <1>9 DEF Call

\* The adapter takes no lock and gives none back.
LEMMA PollSteps ==
    ASSUME LockInv, NEW p \in Poll,
           \/ queryByRunId(p) \/ ClosePoll(p) \/ FinishPoll(p)
           \/ \E m \in Message : Deliver(p, m)
    PROVE  LockInv'
<1> p \in Client /\ p \notin Command
  BY ContextAssumption DEF Client
<1>1. CASE queryByRunId(p) \/ ClosePoll(p)
  BY <1>1, QuietSteps DEF queryByRunId, ClosePoll, BeginSave, Phase, LockInv, LockType, Spent
<1>2. CASE FinishPoll(p)
  BY <1>2, Departure DEF FinishPoll
<1>3. ASSUME NEW m \in Message, Deliver(p, m)
      PROVE  LockInv'
  <2>1. Spent
    <3>1. budget' = budget \/ budget' = [budget EXCEPT !.faults = @ + 1]
      BY <1>3 DEF Deliver
    <3> QED BY <3>1 DEF LockInv, LockType, Budget, Spent
  <2> QED BY <1>3, <2>1, SamePhase DEF Deliver
<1> QED BY <1>1, <1>2, <1>3

LEMMA LockInvStep ==
    ASSUME LockInv, [Next]_vars
    PROVE  LockInv'
<1>1. CASE Poll # {} /\ Crash(Poll)
  <2>1. Spent
    BY <1>1 DEF Crash, LockInv, LockType, Budget, Spent
  <2> QED BY <1>1, <2>1, Death DEF Crash
<1>2. ASSUME NEW m \in Message, SendMessage(m)
      PROVE  LockInv'
  BY <1>2, SamePhase DEF SendMessage, clientVars, LockInv, LockType, Spent
<1>3. CASE UNCHANGED vars
  BY <1>3, SamePhase DEF vars, clientVars, LockInv, LockType, Spent
<1> QED BY <1>1, <1>2, <1>3, ClientSteps, CommandSteps, PollSteps DEF Next

-----------------------------------------------------------------------------
\* As long as no living holder has overstayed, two commands never have the
\* database open at once: withHiveContext's promise, for any number of
\* processes, crashes, failing loads and polls beside them.
THEOREM Exclusion == Spec => []MutualExclusion
<1>1. LockInv => MutualExclusion
  BY DEF LockInv, CallOwnsLock, MutualExclusion, InDatabase, InCall
<1> QED BY <1>1, LockInvInit, LockInvStep, PTL DEF Spec

-----------------------------------------------------------------------------
(* An overlap has a cause.  Whoever loads while another is in the database  *)
(* is one of two commands, which takes a stall, or one of the two is a poll *)
(* and runs because a message came.                                         *)

Spoken == \E m \in Message : inbox[m] # "unsent"

PollsWereAsked == \A p \in Poll : InCall(p) => Spoken

OverlapInv ==
    /\ inbox \in [Message -> {"unsent", "pending", "delivered"}]
    /\ OverlapHasACause /\ PollsWereAsked

LEMMA OverlapInvInit == Init => OverlapInv
BY ContextAssumption DEF Init, OverlapInv, OverlapHasACause, PollsWereAsked, InCall, Client

\* A stall and a message are never taken back, so a step that sets no overlap
\* and lets no poll in is harmless.
LEMMA CausesStay ==
    ASSUME OverlapInv, budget \in Budget, budget' \in Budget,
           budget.stalls > 0 => budget'.stalls > 0,
           inbox' \in [Message -> {"unsent", "pending", "delivered"}],
           \A m \in Message : inbox[m] # "unsent" => inbox'[m] # "unsent",
           overlapped' => overlapped \/ budget.stalls > 0 \/ Spoken,
           \A p \in Poll : InCall(p)' => InCall(p) \/ Spoken
    PROVE  OverlapInv'
<1>1. Spoken => Spoken'
  BY DEF Spoken
<1>2. overlapped' => budget'.stalls > 0 \/ Spoken'
  BY <1>1 DEF OverlapInv, OverlapHasACause, Spoken
<1>3. PollsWereAsked'
  BY <1>1 DEF OverlapInv, PollsWereAsked
<1> QED BY <1>2, <1>3 DEF OverlapInv, OverlapHasACause, Spoken

\* Only SendMessage and Deliver touch the inbox.
LEMMA InboxSteps ==
    ASSUME [Next]_vars
    PROVE  \/ UNCHANGED inbox
           \/ \E m \in Message : inbox[m] = "unsent" /\ inbox' = [inbox EXCEPT ![m] = "pending"]
           \/ \E p \in Poll, m \in Message :
                  Deliver(p, m) /\ inbox' = [inbox EXCEPT ![m] = "delivered"]
<1>1. ASSUME NEW p \in Poll, NEW m \in Message, Deliver(p, m)
      PROVE  UNCHANGED inbox \/ inbox' = [inbox EXCEPT ![m] = "delivered"]
  BY <1>1 DEF Deliver, inboxVars
<1>2. ASSUME NEW m \in Message, SendMessage(m)
      PROVE  inbox[m] = "unsent" /\ inbox' = [inbox EXCEPT ![m] = "pending"]
  BY <1>2 DEF SendMessage
<1>3. ASSUME NEW c \in Client, Proceed(c) \/ LoadFails(c)
      PROVE  UNCHANGED inbox
  BY <1>3 DEF Proceed, LoadFails, getDatabase, WriteTmp, Rename, RenameFails, inboxVars
<1>4. ASSUME NEW c \in Command,
             \/ Call(c) \/ acquireLock(c) \/ Expire(c) \/ Refresh(c)
             \/ BeginOp(c) \/ SaveInFn(c) \/ FnThrows(c) \/ Crash({c})
      PROVE  UNCHANGED inbox
  BY <1>4 DEF Call, RunUpdate, Commit, Close, releaseLock, Compromised, acquireLock,
              Expire, Refresh, BeginOp, SaveInFn, FnThrows, Crash, inboxVars
<1>5. ASSUME NEW p \in Poll, queryByRunId(p) \/ ClosePoll(p) \/ FinishPoll(p)
      PROVE  UNCHANGED inbox
  BY <1>5 DEF queryByRunId, ClosePoll, FinishPoll, inboxVars
<1>6. CASE Crash(Poll) \/ UNCHANGED vars
  BY <1>6 DEF Crash, vars, inboxVars
<1> QED BY <1>1, <1>2, <1>3, <1>4, <1>5, <1>6 DEF Next

LEMMA Messages ==
    ASSUME OverlapInv, [Next]_vars
    PROVE  /\ inbox' \in [Message -> {"unsent", "pending", "delivered"}]
           /\ \A m \in Message : inbox[m] # "unsent" => inbox'[m] # "unsent"
BY InboxSteps DEF OverlapInv

LEMMA Stalls ==
    ASSUME LockType, [Next]_vars, budget.stalls > 0
    PROVE  budget'.stalls > 0
<1> USE DEF LockType, Budget
<1>1. CASE UNCHANGED budget
  BY <1>1
<1>2. CASE \/ budget' = [budget EXCEPT !.faults = @ + 1]
           \/ budget' = [budget EXCEPT !.crashes = @ + 1]
           \/ budget' = [budget EXCEPT !.ops = @ + 1]
  BY <1>2
<1>3. CASE budget' = [budget EXCEPT !.stalls = @ + 1]
  BY <1>3
<1>4. ASSUME NEW c \in Client, Proceed(c) \/ LoadFails(c)
      PROVE  UNCHANGED budget \/ budget' = [budget EXCEPT !.faults = @ + 1]
  BY <1>4 DEF Proceed, LoadFails, getDatabase, WriteTmp, Rename, RenameFails
<1>5. ASSUME NEW c \in Command,
             \/ Call(c) \/ acquireLock(c) \/ Refresh(c) \/ SaveInFn(c) \/ FnThrows(c)
      PROVE  UNCHANGED budget
  BY <1>5 DEF Call, RunUpdate, Commit, Close, releaseLock, Compromised, acquireLock,
              Refresh, SaveInFn, FnThrows
<1>6. ASSUME NEW c \in Command, Expire(c) \/ BeginOp(c) \/ Crash({c})
      PROVE  \/ UNCHANGED budget \/ budget' = [budget EXCEPT !.stalls = @ + 1]
             \/ budget' = [budget EXCEPT !.crashes = @ + 1]
             \/ budget' = [budget EXCEPT !.ops = @ + 1]
  BY <1>6 DEF Expire, BeginOp, Crash
<1>7. ASSUME NEW p \in Poll,
             \/ queryByRunId(p) \/ ClosePoll(p) \/ FinishPoll(p)
             \/ \E m \in Message : Deliver(p, m)
      PROVE  UNCHANGED budget \/ budget' = [budget EXCEPT !.faults = @ + 1]
  BY <1>7 DEF queryByRunId, ClosePoll, FinishPoll, Deliver
<1>8. CASE Crash(Poll)
  BY <1>2, <1>8 DEF Crash
<1>9. CASE (\E m \in Message : SendMessage(m)) \/ UNCHANGED vars
  BY <1>1, <1>9 DEF SendMessage, vars
<1> QED BY <1>1, <1>2, <1>3, <1>4, <1>5, <1>6, <1>7, <1>8, <1>9 DEF Next

\* Only a load makes an overlap.  The other is a poll, or the loader is, or
\* both are commands, and then a lock was taken from a holder that lives.
LEMMA Overlaps ==
    ASSUME LockInv, PollsWereAsked, [Next]_vars, overlapped', ~overlapped
    PROVE  budget.stalls > 0 \/ Spoken
<1>1. PICK c \in Client : getDatabase(c)
  <2>1. ASSUME NEW c \in Command,
               \/ Call(c) \/ acquireLock(c) \/ Expire(c) \/ Refresh(c)
               \/ BeginOp(c) \/ SaveInFn(c) \/ FnThrows(c) \/ Crash({c})
        PROVE  UNCHANGED overlapped
    BY <2>1 DEF Call, RunUpdate, Commit, Close, releaseLock, Compromised, acquireLock,
                Expire, Refresh, BeginOp, SaveInFn, FnThrows, Crash, opVars
  <2>2. ASSUME NEW p \in Poll,
               \/ queryByRunId(p) \/ ClosePoll(p) \/ FinishPoll(p)
               \/ \E m \in Message : Deliver(p, m)
        PROVE  UNCHANGED overlapped
    BY <2>2 DEF queryByRunId, ClosePoll, FinishPoll, Deliver, opVars
  <2>3. ASSUME NEW c \in Client, WriteTmp(c) \/ Rename(c) \/ RenameFails(c) \/ LoadFails(c)
        PROVE  UNCHANGED overlapped
    BY <2>3 DEF WriteTmp, Rename, RenameFails, LoadFails, opVars
  <2>4. CASE Crash(Poll) \/ (\E m \in Message : SendMessage(m)) \/ UNCHANGED vars
    BY <2>4 DEF Crash, SendMessage, vars, opVars
  <2> QED BY <2>1, <2>2, <2>3, <2>4 DEF Next, Proceed
<1>2. PICK d \in Client \ {c} : InDatabase(d)
  BY <1>1 DEF getDatabase
<1>3. InCall(c) /\ InCall(d)
  BY <1>1, <1>2 DEF getDatabase, Ready, InDatabase, InCall
<1>4. CASE c \in Poll \/ d \in Poll
  BY <1>3, <1>4 DEF PollsWereAsked
<1>5. CASE c \in Command /\ d \in Command
  <2>1. budget.stalls # 0
    BY <1>2, <1>3, <1>5 DEF LockInv, CallOwnsLock
  <2> QED BY <2>1 DEF LockInv, LockType, Budget
<1> QED BY <1>4, <1>5 DEF Client

\* A poll opens the database because a message has been sent.
LEMMA Polls ==
    ASSUME LockType, [Next]_vars, NEW p \in Poll, InCall(p)', ~InCall(p)
    PROVE  Spoken
<1> p \in Client /\ p \notin Command
  BY ContextAssumption DEF Client
<1>1. CASE queryByRunId(p)
  BY <1>1 DEF queryByRunId, pendingMessages, Spoken
<1>2. ASSUME NEW c \in Command,
             \/ Call(c) \/ acquireLock(c) \/ Expire(c) \/ Refresh(c)
             \/ BeginOp(c) \/ SaveInFn(c) \/ FnThrows(c) \/ Crash({c})
      PROVE  phase'[p] \in {phase[p], "dead"}
  BY <1>2 DEF Call, RunUpdate, Commit, Close, releaseLock, Compromised, acquireLock, Leave,
              Expire, Refresh, BeginOp, SaveInFn, FnThrows, Crash, BeginSave, Die, clientVars, LockType
<1>3. ASSUME NEW q \in Client, Proceed(q) \/ LoadFails(q)
      PROVE  (q = p /\ InCall(p)) \/ phase'[p] \in {phase[p], "idle"}
  BY <1>3 DEF Proceed, LoadFails, getDatabase, Ready, WriteTmp, Rename, RenameFails, Abandon,
              Leave, InCall, LockType
<1>4. ASSUME NEW q \in Poll,
             \/ ClosePoll(q) \/ FinishPoll(q) \/ \E m \in Message : Deliver(q, m)
             \/ q # p /\ queryByRunId(q)
      PROVE  (q = p /\ InCall(p)) \/ phase'[p] \in {phase[p], "idle"}
  BY <1>4 DEF ClosePoll, FinishPoll, Deliver, queryByRunId, BeginSave, Leave, InCall, LockType
<1>5. CASE Crash(Poll) \/ (\E m \in Message : SendMessage(m)) \/ UNCHANGED vars
  <2>1. phase'[p] \in {phase[p], "dead"}
    BY <1>5 DEF Crash, Die, SendMessage, vars, clientVars
  <2> QED BY <2>1 DEF InCall
<1> QED BY <1>1, <1>2, <1>3, <1>4, <1>5 DEF Next, InCall

LEMMA OverlapInvStep ==
    ASSUME LockInv, OverlapInv, [Next]_vars
    PROVE  OverlapInv'
<1>1. budget \in Budget /\ budget' \in Budget
  BY LockInvStep DEF LockInv, LockType
<1>2. budget.stalls > 0 => budget'.stalls > 0
  BY Stalls DEF LockInv
<1>3. overlapped' => overlapped \/ budget.stalls > 0 \/ Spoken
  BY Overlaps DEF OverlapInv
<1>4. \A p \in Poll : InCall(p)' => InCall(p) \/ Spoken
  BY Polls DEF LockInv
<1> QED BY <1>1, <1>2, <1>3, <1>4, Messages, CausesStay

\* Two clients have the database open at once only after a living holder was
\* kept from its lock or a message came for the adapter: neither crashes nor
\* failures make them, for any number of processes.
THEOREM Overlap == Spec => []OverlapHasACause
<1>1. OverlapInv => OverlapHasACause
  BY DEF OverlapInv
<1> QED BY <1>1, LockInvInit, LockInvStep, OverlapInvInit, OverlapInvStep, PTL DEF Spec

-----------------------------------------------------------------------------
(* Types.                                                                  *)

LEMMA TypeInit == Init => TypeOK
<1> SUFFICES ASSUME Init PROVE TypeOK
  OBVIOUS
<1>1. /\ file \in File /\ tmp \in File \cup {Absent}
      /\ lock \in [owner : Command \cup {Nobody}, stale : BOOLEAN]
  BY DEF Init, File
<1>2. op \in [Client -> [id : 0 .. MaxOps, done : 0 .. 2, txn : BOOLEAN]]
  BY ContextAssumption DEF Init, NoOp
<1>3. budget \in [ops : 0 .. MaxOps, crashes : Nat, stalls : Nat, faults : Nat]
  BY ContextAssumption DEF Init
<1> QED BY <1>1, <1>2, <1>3 DEF Init, TypeOK, Phase

\* The parts of the state that a call which ends, or a process that dies, clears.
LEMMA LeaveType ==
    ASSUME TypeOK, NEW c \in Client, Leave(c)
    PROVE  /\ phase' \in [Client -> Phase]
           /\ closing' \in [Client -> BOOLEAN] /\ failed' \in [Client -> BOOLEAN]
           /\ memory' \in [Client -> SUBSET Update]
           /\ op' \in [Client -> [id : 0 .. MaxOps, done : 0 .. 2, txn : BOOLEAN]]
BY ContextAssumption DEF TypeOK, Leave, Phase, NoOp

LEMMA DieType ==
    ASSUME TypeOK, NEW C, Die(C)
    PROVE  /\ phase' \in [Client -> Phase]
           /\ inode' \in [Client -> {"none", "tmp", "db", "gone"}]
           /\ closing' \in [Client -> BOOLEAN] /\ failed' \in [Client -> BOOLEAN]
           /\ memory' \in [Client -> SUBSET Update]
           /\ op' \in [Client -> [id : 0 .. MaxOps, done : 0 .. 2, txn : BOOLEAN]]
BY ContextAssumption DEF TypeOK, Die, Phase, NoOp

LEMMA BudgetType ==
    ASSUME TypeOK,
           \/ UNCHANGED budget \/ budget' = [budget EXCEPT !.faults = @ + 1]
           \/ budget' = [budget EXCEPT !.crashes = @ + 1]
           \/ budget' = [budget EXCEPT !.stalls = @ + 1]
    PROVE  budget' \in [ops : 0 .. MaxOps, crashes : Nat, stalls : Nat, faults : Nat]
BY DEF TypeOK

LEMMA SaveType ==
    ASSUME TypeOK, NEW c \in Client, NEW last \in BOOLEAN, BeginSave(c, last)
    PROVE  /\ tmp' \in File \cup {Absent}
           /\ inode' \in [Client -> {"none", "tmp", "db", "gone"}]
           /\ phase' \in [Client -> Phase]
           /\ closing' \in [Client -> BOOLEAN]
           /\ UNCHANGED file
BY DEF TypeOK, BeginSave, OpenTmp, Truncated, File, Phase

LEMMA ClientType ==
    ASSUME TypeOK, NEW c \in Client, Proceed(c) \/ LoadFails(c)
    PROVE  TypeOK'
<1>1. CASE getDatabase(c)
  <2>1. Loaded \in SUBSET Update
    BY DEF Loaded, TypeOK, File
  <2> QED BY <1>1, <2>1 DEF getDatabase, TypeOK, diskVars, inboxVars, Phase
<1>2. CASE WriteTmp(c)
  <2>1. [updates |-> memory[c], empty |-> FALSE] \in File
    BY DEF TypeOK, File
  <2>2. file' \in File /\ tmp' \in File \cup {Absent}
    BY <1>2, <2>1 DEF WriteTmp, TypeOK
  <2>3. phase' \in [Client -> Phase]
    BY <1>2 DEF WriteTmp, TypeOK, Phase
  <2> QED BY <1>2, <2>2, <2>3 DEF WriteTmp, TypeOK, inboxVars, opVars
<1>3. CASE Rename(c)
  <2>1. file' \in File /\ tmp' \in File \cup {Absent}
    BY <1>3 DEF Rename, TypeOK
  <2>2. inode' \in [Client -> {"none", "tmp", "db", "gone"}]
    BY <1>3 DEF Rename, TypeOK
  <2>3. phase' \in [Client -> Phase]
    BY <1>3 DEF Rename, TypeOK, Phase, AfterSave
  <2> QED BY <1>3, <2>1, <2>2, <2>3 DEF Rename, TypeOK, inboxVars, opVars
<1>4. CASE RenameFails(c)
  <2>1. inode' \in [Client -> {"none", "tmp", "db", "gone"}]
    BY <1>4 DEF RenameFails, TypeOK
  <2>2. CASE closing[c]
    <3>1. Abandon(c)
      BY <1>4, <2>2 DEF RenameFails
    <3>2. lock' \in [owner : Command \cup {Nobody}, stale : BOOLEAN] /\ Leave(c)
      BY <3>1 DEF Abandon, Released, TypeOK
    <3> QED BY <1>4, <2>1, <3>2, LeaveType DEF RenameFails, TypeOK, inboxVars, opVars
  <2>3. CASE ~closing[c]
    <3>1. /\ phase' = [phase EXCEPT ![c] = "open"]
          /\ failed' = [failed EXCEPT ![c] = TRUE]
          /\ UNCHANGED <<lock, closing, memory, op>>
      BY <1>4, <2>3 DEF RenameFails
    <3>2. phase' \in [Client -> Phase] /\ failed' \in [Client -> BOOLEAN]
      BY <3>1 DEF TypeOK, Phase
    <3> QED BY <1>4, <2>1, <3>1, <3>2 DEF RenameFails, TypeOK, inboxVars, opVars
  <2> QED BY <2>2, <2>3
<1>5. CASE LoadFails(c)
  <2>1. lock' \in [owner : Command \cup {Nobody}, stale : BOOLEAN] /\ Leave(c)
    BY <1>5 DEF LoadFails, Abandon, Released, TypeOK
  <2> QED BY <1>5, <2>1, LeaveType, BudgetType DEF LoadFails, TypeOK, diskVars, inboxVars, opVars
<1> QED BY <1>1, <1>2, <1>3, <1>4, <1>5 DEF Proceed

LEMMA CommandType ==
    ASSUME TypeOK, NEW c \in Command,
           \/ Call(c) \/ acquireLock(c) \/ Expire(c) \/ Refresh(c)
           \/ BeginOp(c) \/ SaveInFn(c) \/ FnThrows(c) \/ Crash({c})
    PROVE  TypeOK'
<1> c \in Client
  BY DEF Client
<1> DEFINE Ops == [id : 0 .. MaxOps, done : 0 .. 2, txn : BOOLEAN]
<1>1. CASE RunUpdate(c)
  <2>1. op[c].id \in Op /\ op[c].done + 1 \in {1, 2}
    BY <1>1, ContextAssumption DEF RunUpdate, TypeOK, Op
  <2>2. memory' \in [Client -> SUBSET Update]
    BY <1>1, <2>1 DEF RunUpdate, TypeOK, Update
  <2>3. op' \in [Client -> Ops]
    BY <1>1, <2>1 DEF RunUpdate, TypeOK
  <2> QED BY <1>1, <2>2, <2>3 DEF RunUpdate, TypeOK, diskVars, opVars, inboxVars
<1>2. CASE Commit(c)
  <2>1. op' \in [Client -> Ops]
    <3>1. op \in [Client -> Ops] /\ op' = [op EXCEPT ![c].txn = FALSE]
      BY <1>2 DEF Commit, TypeOK
    <3> QED BY <3>1
  <2> QED BY <1>2, <2>1, SaveType DEF Commit, TypeOK, opVars, inboxVars
<1>3. CASE Close(c) \/ SaveInFn(c)
  BY <1>3, SaveType DEF Close, SaveInFn, TypeOK, opVars, inboxVars
<1>4. CASE releaseLock(c)
  <2>1. lock' \in [owner : Command \cup {Nobody}, stale : BOOLEAN]
    BY <1>4 DEF releaseLock, Released
  <2>2. acked' \subseteq Op
    <3>1. op[c].id \in 0 .. MaxOps /\ acked \subseteq Op
      BY DEF TypeOK
    <3>2. op[c].id # 0 => op[c].id \in Op
      BY <3>1, ContextAssumption DEF Op
    <3>3. acked' = acked \/ (op[c].id # 0 /\ acked' = acked \cup {op[c].id})
      BY <1>4 DEF releaseLock
    <3> QED BY <3>1, <3>2, <3>3
  <2> QED BY <1>4, <2>1, <2>2, LeaveType DEF releaseLock, TypeOK, diskVars, inboxVars
<1>5. CASE Compromised(c)
  BY <1>5, DieType DEF Compromised, TypeOK, opVars, inboxVars
<1>6. CASE acquireLock(c)
  BY <1>6 DEF acquireLock, TypeOK, Phase, diskVars, opVars, inboxVars
<1>7. CASE Expire(c)
  <2>1. UNCHANGED budget \/ budget' = [budget EXCEPT !.stalls = @ + 1]
    BY <1>7 DEF Expire
  <2>2. lock' \in [owner : Command \cup {Nobody}, stale : BOOLEAN]
    BY <1>7 DEF Expire, TypeOK
  <2> QED BY <1>7, <2>1, <2>2, BudgetType DEF Expire, TypeOK, diskVars, clientVars, opVars, inboxVars
<1>8. CASE Refresh(c)
  BY <1>8 DEF Refresh, TypeOK, diskVars, clientVars, opVars, inboxVars
<1>9. CASE BeginOp(c)
  <2>1. budget.ops + 1 \in 0 .. MaxOps /\ budget.ops + 1 \in Op
    BY <1>9, ContextAssumption DEF BeginOp, TypeOK, Op
  <2>2. PICK txn \in BOOLEAN :
            /\ op' = [op EXCEPT ![c] = [id |-> budget.ops + 1, done |-> 0, txn |-> txn]]
            /\ atomic' = IF txn THEN atomic \cup {budget.ops + 1} ELSE atomic
            /\ budget' = [budget EXCEPT !.ops = budget.ops + 1]
    BY <1>9 DEF BeginOp
  <2>3. op' \in [Client -> Ops] /\ atomic' \subseteq Op
    BY <2>1, <2>2 DEF TypeOK
  <2>4. budget' \in [ops : 0 .. MaxOps, crashes : Nat, stalls : Nat, faults : Nat]
    BY <2>1, <2>2 DEF TypeOK
  <2> QED BY <1>9, <2>3, <2>4 DEF BeginOp, TypeOK, diskVars, inboxVars
<1>10. CASE FnThrows(c)
  <2>1. Rollback(c) \in SUBSET Update
    BY DEF Rollback, TypeOK
  <2>2. op' \in [Client -> Ops]
    <3>1. op \in [Client -> Ops] /\ op' = [op EXCEPT ![c].txn = FALSE]
      BY <1>10 DEF FnThrows, TypeOK
    <3> QED BY <3>1
  <2> QED BY <1>10, <2>1, <2>2 DEF FnThrows, TypeOK, diskVars, opVars, inboxVars
<1>11. CASE Crash({c})
  BY <1>11, DieType, BudgetType DEF Crash, TypeOK, opVars, inboxVars
<1> QED BY <1>1, <1>2, <1>3, <1>4, <1>5, <1>6, <1>7, <1>8, <1>9, <1>10, <1>11 DEF Call

LEMMA PollType ==
    ASSUME TypeOK, NEW p \in Poll,
           \/ queryByRunId(p) \/ ClosePoll(p) \/ FinishPoll(p)
           \/ \E m \in Message : Deliver(p, m)
    PROVE  TypeOK'
<1> p \in Client
  BY DEF Client
<1>1. CASE queryByRunId(p)
  BY <1>1 DEF queryByRunId, pendingMessages, TypeOK, Phase, diskVars, opVars
<1>2. CASE ClosePoll(p)
  BY <1>2, SaveType DEF ClosePoll, TypeOK, opVars, inboxVars
<1>3. CASE FinishPoll(p)
  BY <1>3, LeaveType DEF FinishPoll, TypeOK, diskVars, opVars
<1>4. ASSUME NEW m \in Message, Deliver(p, m)
      PROVE  TypeOK'
  <2>1. budget' \in [ops : 0 .. MaxOps, crashes : Nat, stalls : Nat, faults : Nat]
    BY <1>4, BudgetType DEF Deliver
  <2>2. memory' \in [Client -> SUBSET Update]
    BY <1>4 DEF Deliver, TypeOK, Update
  <2>3. CASE UNCHANGED failed
    <3>1. /\ inbox' = [inbox EXCEPT ![m] = "delivered"] /\ todo' = [todo EXCEPT ![p] = @ \ {m}]
          \/ UNCHANGED inboxVars
      BY <1>4 DEF Deliver
    <3>2. /\ todo' \in [Poll -> SUBSET Message]
          /\ inbox' \in [Message -> {"unsent", "pending", "delivered"}]
      <4>1. CASE UNCHANGED inboxVars
        BY <4>1 DEF TypeOK, inboxVars
      <4>2. CASE inbox' = [inbox EXCEPT ![m] = "delivered"] /\ todo' = [todo EXCEPT ![p] = @ \ {m}]
        BY <4>2 DEF TypeOK
      <4> QED BY <3>1, <4>1, <4>2
    <3> QED BY <1>4, <2>1, <2>2, <2>3, <3>2 DEF Deliver, TypeOK, diskVars, opVars
  <2>4. CASE failed' = [failed EXCEPT ![p] = TRUE] /\ UNCHANGED inboxVars
    BY <1>4, <2>1, <2>2, <2>4 DEF Deliver, TypeOK, diskVars, opVars, inboxVars
  <2> QED BY <1>4, <2>3, <2>4 DEF Deliver
<1> QED BY <1>1, <1>2, <1>3, <1>4

LEMMA TypeStep ==
    ASSUME TypeOK, [Next]_vars
    PROVE  TypeOK'
<1>1. CASE Crash(Poll)
  BY <1>1, DieType, BudgetType DEF Crash, TypeOK, opVars, inboxVars
<1>2. ASSUME NEW m \in Message, SendMessage(m)
      PROVE  TypeOK'
  BY <1>2 DEF SendMessage, TypeOK, diskVars, clientVars, opVars
<1>3. CASE UNCHANGED vars
  BY <1>3 DEF vars, TypeOK, diskVars, clientVars, opVars, inboxVars
<1> QED BY <1>1, <1>2, <1>3, ClientType, CommandType, PollType DEF Next

\* Every variable keeps its type, for any number of clients, messages,
\* operations and mishaps.
THEOREM TypeCorrect == Spec => []TypeOK
BY TypeInit, TypeStep, PTL DEF Spec

-----------------------------------------------------------------------------
(* The steps of one client, and what they leave of another.                *)

StepOf(c) ==
    \/ Proceed(c) \/ LoadFails(c)
    \/ /\ c \in Command
       /\ \/ Call(c) \/ acquireLock(c) \/ Expire(c) \/ Refresh(c)
          \/ BeginOp(c) \/ SaveInFn(c) \/ FnThrows(c) \/ Crash({c})
    \/ /\ c \in Poll
       /\ \/ queryByRunId(c) \/ ClosePoll(c) \/ FinishPoll(c)
          \/ \E m \in Message : Deliver(c, m)

LEMMA Actors ==
    ASSUME [Next]_vars
    PROVE  \/ \E c \in Client : StepOf(c)
           \/ Crash(Poll) \/ (\E m \in Message : SendMessage(m)) \/ UNCHANGED vars
BY DEF Next, StepOf, Client

Unmoved(d) ==
    /\ phase'[d] = phase[d] /\ closing'[d] = closing[d] /\ failed'[d] = failed[d]
    /\ memory'[d] = memory[d] /\ op'[d] = op[d]

LEMMA Locality ==
    ASSUME TypeOK, NEW c \in Client, StepOf(c), NEW d \in Client, d # c
    PROVE  Unmoved(d)
<1> USE DEF TypeOK, Unmoved
<1>1. CASE Proceed(c) \/ LoadFails(c)
  BY <1>1 DEF Proceed, getDatabase, WriteTmp, Rename, RenameFails, LoadFails, Abandon, Leave
<1>2. CASE RunUpdate(c) \/ Commit(c) \/ Close(c) \/ SaveInFn(c)
  BY <1>2 DEF RunUpdate, Commit, Close, SaveInFn, BeginSave
<1>3. CASE releaseLock(c) \/ Compromised(c) \/ Crash({c})
  BY <1>3 DEF releaseLock, Leave, Compromised, Crash, Die
<1>4. CASE acquireLock(c) \/ Expire(c) \/ Refresh(c)
  BY <1>4 DEF acquireLock, Expire, Refresh, clientVars
<1>5. CASE BeginOp(c) \/ FnThrows(c)
  BY <1>5 DEF BeginOp, FnThrows
<1>6. CASE queryByRunId(c) \/ ClosePoll(c) \/ FinishPoll(c)
  BY <1>6 DEF queryByRunId, ClosePoll, BeginSave, FinishPoll, Leave
<1>7. ASSUME NEW m \in Message, Deliver(c, m)
      PROVE  Unmoved(d)
  BY <1>7 DEF Deliver
<1> QED BY <1>1, <1>2, <1>3, <1>4, <1>5, <1>6, <1>7 DEF StepOf, Call

\* Operations are numbered by BeginOp alone.
Numbering ==
    \/ UNCHANGED <<budget.ops, atomic>>
    \/ budget'.ops = budget.ops + 1 /\ atomic' \in {atomic, atomic \cup {budget'.ops}}

LEMMA Numbers ==
    ASSUME TypeOK, [Next]_vars
    PROVE  Numbering
<1> USE DEF TypeOK, Numbering
<1>1. ASSUME NEW c \in Client, Proceed(c) \/ LoadFails(c)
      PROVE  Numbering
  BY <1>1 DEF Proceed, getDatabase, WriteTmp, Rename, RenameFails, LoadFails, opVars
<1>2. ASSUME NEW c \in Command,
             Call(c) \/ acquireLock(c) \/ Refresh(c) \/ SaveInFn(c) \/ FnThrows(c)
      PROVE  Numbering
  BY <1>2 DEF Call, RunUpdate, Commit, Close, releaseLock, Compromised, acquireLock, Refresh,
              SaveInFn, FnThrows, opVars
<1>3. ASSUME NEW c \in Command, Expire(c) \/ Crash({c})
      PROVE  Numbering
  <2>1. \/ UNCHANGED budget \/ budget' = [budget EXCEPT !.stalls = @ + 1]
        \/ budget' = [budget EXCEPT !.crashes = @ + 1]
    BY <1>3 DEF Expire, Crash
  <2> QED BY <1>3, <2>1 DEF Expire, Crash, opVars
<1>4. ASSUME NEW c \in Command, BeginOp(c)
      PROVE  Numbering
  BY <1>4 DEF BeginOp
<1>5. ASSUME NEW p \in Poll, queryByRunId(p) \/ ClosePoll(p) \/ FinishPoll(p)
      PROVE  Numbering
  BY <1>5 DEF queryByRunId, ClosePoll, FinishPoll, opVars
<1>6. ASSUME NEW p \in Poll, NEW m \in Message, Deliver(p, m)
      PROVE  Numbering
  BY <1>6 DEF Deliver, opVars
<1>7. CASE Crash(Poll) \/ (\E m \in Message : SendMessage(m)) \/ UNCHANGED vars
  BY <1>7 DEF Crash, SendMessage, vars, opVars
<1> QED BY <1>1, <1>2, <1>3, <1>4, <1>5, <1>6, <1>7 DEF Next

-----------------------------------------------------------------------------
(* The operation a client is in, and what of it is in the client's copy.   *)

Outside(c) == phase[c] \in {"idle", "ready", "dead"}
Saving(c)  == phase[c] \in {"opened", "written", "release"}

OpOf(c) ==
    /\ Outside(c) \/ c \in Poll => op[c] = NoOp
    /\ Outside(c) => ~failed[c]
    /\ failed[c] \/ Saving(c) => ~op[c].txn
    /\ op[c].id = 0 => op[c] = NoOp
    /\ op[c].id <= budget.ops
    /\ op[c].id # 0 /\ ~op[c].txn /\ op[c].done < 2 /\ ~failed[c] => op[c].id \notin atomic
    /\ op[c].id # 0 /\ ~failed[c] =>
          /\ op[c].done >= 1 => <<op[c].id, 1>> \in memory[c]
          /\ op[c].done = 2 => <<op[c].id, 2>> \in memory[c]
    /\ op[c].id # 0 /\ ~failed[c] /\ Saving(c) /\ closing[c] => op[c].done = 2
    /\ phase[c] = "release" => closing[c]

OpInv == \A c \in Client : OpOf(c)

LEMMA OpUnmoved ==
    ASSUME TypeOK, Numbering, NEW d \in Client, OpOf(d), Unmoved(d)
    PROVE  OpOf(d)'
<1>1. op[d].id \in Nat /\ budget.ops \in Nat
  BY ContextAssumption DEF TypeOK
<1>2. op[d].id <= budget'.ops /\ (op[d].id \in atomic' => op[d].id \in atomic)
  BY <1>1 DEF Numbering, OpOf
<1> QED BY <1>2 DEF OpOf, Unmoved, Outside, Saving

\* A client out of the database and out of any operation.
LEMMA OpNone ==
    ASSUME TypeOK', NEW c \in Client, Outside(c)', op'[c] = NoOp, ~failed'[c]
    PROVE  OpOf(c)'
<1>1. budget'.ops \in Nat
  BY ContextAssumption DEF TypeOK
<1> QED BY <1>1 DEF OpOf, NoOp, Outside, Saving

LEMMA OpClient ==
    ASSUME TypeOK, TypeOK', OpInv, NEW c \in Client, Proceed(c) \/ LoadFails(c)
    PROVE  OpOf(c)'
<1> USE DEF TypeOK
<1> OpOf(c)
  BY DEF OpInv
<1>1. CASE getDatabase(c)
  BY <1>1 DEF getDatabase, Ready, OpOf, Outside, Saving, NoOp
<1>2. CASE WriteTmp(c)
  BY <1>2 DEF WriteTmp, opVars, OpOf, Outside, Saving
<1>3. CASE Rename(c)
  BY <1>3 DEF Rename, AfterSave, opVars, OpOf, Outside, Saving
<1>4. CASE RenameFails(c) /\ closing[c]
  BY <1>4, OpNone DEF RenameFails, Abandon, Leave, Outside
<1>5. CASE RenameFails(c) /\ ~closing[c]
  BY <1>5 DEF RenameFails, opVars, OpOf, Outside, Saving
<1>6. CASE LoadFails(c)
  BY <1>6, OpNone DEF LoadFails, Abandon, Leave, Outside
<1> QED BY <1>1, <1>2, <1>3, <1>4, <1>5, <1>6 DEF Proceed

LEMMA OpCommand ==
    ASSUME TypeOK, TypeOK', OpInv, NEW c \in Command,
           \A id \in atomic : id <= budget.ops,
           \/ Call(c) \/ acquireLock(c) \/ Expire(c) \/ Refresh(c)
           \/ BeginOp(c) \/ SaveInFn(c) \/ FnThrows(c) \/ Crash({c})
    PROVE  OpOf(c)'
<1> c \in Client /\ c \notin Poll
  BY ContextAssumption DEF Client
<1> OpOf(c)
  BY DEF OpInv
<1> op[c] \in [id : 0 .. MaxOps, done : 0 .. 2, txn : BOOLEAN]
  BY DEF TypeOK
<1> USE DEF TypeOK
<1>1. CASE RunUpdate(c)
  <2>1. /\ op'[c] = [op[c] EXCEPT !.done = @ + 1]
        /\ memory'[c] = memory[c] \cup {<<op[c].id, op[c].done + 1>>}
    BY <1>1 DEF RunUpdate
  <2>2. op[c].done \in {0, 1}
    BY <1>1 DEF RunUpdate
  <2> QED BY <1>1, <2>1, <2>2 DEF RunUpdate, opVars, OpOf, Outside, Saving
<1>2. CASE Commit(c)
  <2>1. /\ op'[c] = [op[c] EXCEPT !.txn = FALSE] /\ phase'[c] = "opened" /\ ~closing'[c]
        /\ UNCHANGED <<memory, failed, budget, atomic>>
    BY <1>2 DEF Commit, BeginSave, opVars
  <2>2. ~failed[c] /\ op[c].id # 0 /\ op[c].done = 2
    BY <1>2 DEF Commit, OpOf, NoOp
  <2> QED BY <2>1, <2>2 DEF OpOf, Outside, Saving
<1>3. CASE Close(c)
  BY <1>3 DEF Close, BeginSave, opVars, OpOf, Outside, Saving, NoOp
<1>4. CASE SaveInFn(c)
  BY <1>4 DEF SaveInFn, BeginSave, opVars, OpOf, Outside, Saving
<1>5. CASE releaseLock(c)
  BY <1>5, OpNone DEF releaseLock, Leave, Outside
<1>6. CASE Compromised(c) \/ Crash({c})
  <2>1. Die({c})
    BY <1>6 DEF Compromised, Crash
  <2>2. phase'[c] = "dead" /\ op'[c] = NoOp /\ ~failed'[c]
    BY <2>1 DEF Die
  <2> QED BY <2>2, OpNone DEF Outside
<1>7. CASE acquireLock(c)
  <2>1. Outside(c) /\ Outside(c)' /\ op'[c] = op[c] /\ failed'[c] = failed[c]
    BY <1>7 DEF acquireLock, Outside
  <2> QED BY <2>1, OpNone DEF OpOf
<1>8. CASE Expire(c) \/ Refresh(c)
  <2>1. budget'.ops = budget.ops
    <3>1. UNCHANGED budget \/ budget' = [budget EXCEPT !.stalls = @ + 1]
      BY <1>8 DEF Expire, Refresh
    <3> QED BY <3>1
  <2>2. UNCHANGED <<clientVars, atomic>>
    BY <1>8 DEF Expire, Refresh, opVars
  <2> QED BY <2>1, <2>2 DEF clientVars, OpOf, Outside, Saving
<1>9. CASE BeginOp(c)
  <2>1. budget'.ops = budget.ops + 1 /\ budget.ops \in Nat
    BY <1>9, ContextAssumption DEF BeginOp
  <2>2. PICK txn \in BOOLEAN :
            /\ op'[c] = [id |-> budget'.ops, done |-> 0, txn |-> txn]
            /\ atomic' = IF txn THEN atomic \cup {budget'.ops} ELSE atomic
    BY <1>9, <2>1 DEF BeginOp
  <2>3. budget'.ops \notin atomic
    BY <2>1, ContextAssumption DEF Op
  <2> QED BY <1>9, <2>1, <2>2, <2>3 DEF BeginOp, OpOf, Outside, Saving, NoOp
<1>10. CASE FnThrows(c)
  <2>1. op'[c] = [op[c] EXCEPT !.txn = FALSE]
    BY <1>10 DEF FnThrows
  <2> QED BY <1>10, <2>1 DEF FnThrows, opVars, OpOf, Outside, Saving
<1> QED BY <1>1, <1>2, <1>3, <1>4, <1>5, <1>6, <1>7, <1>8, <1>9, <1>10 DEF Call

LEMMA OpPoll ==
    ASSUME TypeOK, TypeOK', OpInv, NEW p \in Poll,
           \/ queryByRunId(p) \/ ClosePoll(p) \/ FinishPoll(p)
           \/ \E m \in Message : Deliver(p, m)
    PROVE  OpOf(p)'
<1> p \in Client
  BY DEF Client
<1> OpOf(p) /\ op[p] = NoOp
  BY DEF OpInv, OpOf
<1> USE DEF TypeOK
<1>1. CASE queryByRunId(p)
  <2>1. Outside(p)' /\ op'[p] = op[p] /\ ~failed'[p]
    BY <1>1 DEF queryByRunId, OpOf, Outside
  <2> QED BY <2>1, OpNone
<1>2. CASE ClosePoll(p)
  <2>1. op'[p] = NoOp /\ phase'[p] = "opened" /\ budget'.ops \in Nat
    BY <1>2, ContextAssumption DEF ClosePoll, BeginSave
  <2> QED BY <2>1 DEF OpOf, Outside, Saving, NoOp
<1>3. CASE FinishPoll(p)
  BY <1>3, OpNone DEF FinishPoll, Leave, Outside
<1>4. ASSUME NEW m \in Message, Deliver(p, m)
      PROVE  OpOf(p)'
  <2>1. op'[p] = NoOp /\ phase'[p] = "open" /\ budget'.ops \in Nat
    BY <1>4, ContextAssumption DEF Deliver
  <2> QED BY <2>1 DEF OpOf, Outside, Saving, NoOp
<1> QED BY <1>1, <1>2, <1>3, <1>4

LEMMA OpInvInit == Init => OpInv
BY ContextAssumption DEF Init, OpInv, OpOf, NoOp, Outside, Saving

LEMMA OpInvStep ==
    ASSUME TypeOK, OpInv, \A id \in atomic : id <= budget.ops, [Next]_vars
    PROVE  OpInv'
<1>1. TypeOK' /\ Numbering
  BY TypeStep, Numbers
<1>2. ASSUME NEW c \in Client, StepOf(c), NEW d \in Client
      PROVE  OpOf(d)'
  <2>1. CASE d = c
    BY <1>1, <1>2, <2>1, OpClient, OpCommand, OpPoll DEF StepOf
  <2>2. CASE d # c
    BY <1>1, <1>2, <2>2, Locality, OpUnmoved DEF OpInv
  <2> QED BY <2>1, <2>2
<1>3. CASE Crash(Poll)
  <2>1. ASSUME NEW d \in Client
        PROVE  OpOf(d)'
    <3>1. CASE d \in Poll
      BY <1>1, <1>3, <2>1, <3>1, OpNone DEF Crash, Die, Outside
    <3>2. CASE d \notin Poll
      <4>1. Unmoved(d)
        BY <1>3, <2>1, <3>2 DEF Crash, Die, Unmoved, TypeOK
      <4> QED BY <1>1, <2>1, <4>1, OpUnmoved DEF OpInv
    <3> QED BY <3>1, <3>2
  <2> QED BY <2>1 DEF OpInv
<1>4. CASE (\E m \in Message : SendMessage(m)) \/ UNCHANGED vars
  <2>1. \A d \in Client : Unmoved(d)
    BY <1>4 DEF SendMessage, vars, clientVars, Unmoved
  <2> QED BY <1>1, <2>1, OpUnmoved DEF OpInv
<1> QED BY <1>2, <1>3, <1>4, Actors DEF OpInv

-----------------------------------------------------------------------------
(* Half a transaction.  Every database, on disk or in memory, holds updates *)
(* of the first n operations only, and both updates or neither of each      *)
(* operation run in a transaction, the one a client is in excepted.         *)

Good(U, n, A) ==
    /\ \A id \in Op, k \in {1, 2} : <<id, k>> \in U => id <= n
    /\ \A id \in A : <<id, 1>> \in U <=> <<id, 2>> \in U

LEMMA GoodEmpty ==
    ASSUME NEW n, NEW A
    PROVE  Good({}, n, A)
BY DEF Good

LEMMA GoodSubset ==
    ASSUME NEW U, NEW n, NEW A, NEW B \in SUBSET A, Good(U, n, A)
    PROVE  Good(U, n, B)
BY DEF Good

\* An operation that begins has no update anywhere.
LEMMA GoodNext ==
    ASSUME NEW U, NEW n \in Nat, NEW A, Good(U, n, A), n + 1 \in Op
    PROVE  Good(U, n + 1, A) /\ Good(U, n + 1, A \cup {n + 1})
<1>1. ASSUME NEW id \in Op, NEW k \in {1, 2}, <<id, k>> \in U
      PROVE  id <= n
  BY <1>1 DEF Good
<1>2. \A id \in Op : id \in Nat
  BY ContextAssumption DEF Op
<1>3. ASSUME NEW id \in Op, NEW k \in {1, 2}, <<id, k>> \in U
      PROVE  id <= n + 1
  <2>1. id <= n
    BY <1>1, <1>3
  <2> QED BY <1>2, <2>1
<1>4. ASSUME NEW k \in {1, 2}, <<n + 1, k>> \in U
      PROVE  FALSE
  <2>1. n + 1 <= n
    BY <1>1, <1>4
  <2> QED BY <2>1
<1> QED BY <1>3, <1>4 DEF Good

LEMMA GoodMessage ==
    ASSUME NEW U, NEW n, NEW A \in SUBSET Op, NEW m \in Message, Good(U, n, A)
    PROVE  Good(U \cup {m}, n, A)
<1>1. \A id \in Op, k \in {1, 2} : <<id, k>> # m
  BY MessageAssumption
<1> QED BY <1>1 DEF Good

LEMMA GoodUpdate ==
    ASSUME NEW U, NEW n \in Nat, NEW A, NEW id \in Op, NEW k, Good(U, n, A), id <= n, id \notin A
    PROVE  Good(U \cup {<<id, k>>}, n, A)
BY DEF Good

LEMMA GoodCommit ==
    ASSUME NEW U, NEW n, NEW A, NEW id, Good(U, n, A \ {id}), {<<id, 1>>, <<id, 2>>} \subseteq U
    PROVE  Good(U, n, A)
BY DEF Good

LEMMA GoodRollback ==
    ASSUME NEW U, NEW n, NEW A, NEW id, Good(U, n, A \ {id})
    PROVE  Good(U \ {<<id, 1>>, <<id, 2>>}, n, A)
BY DEF Good

Running(c) == IF op[c].txn THEN {op[c].id} ELSE {}

Copy(c) == Good(memory[c], budget.ops, atomic \ Running(c))

WholeInv ==
    /\ \A id \in atomic : id <= budget.ops
    /\ Good(file.updates, budget.ops, atomic)
    /\ tmp # Absent => Good(tmp.updates, budget.ops, atomic)
    /\ \A c \in Client : Copy(c)

LEMMA WholeInvInit == Init => WholeInv
BY GoodEmpty DEF Init, WholeInv, Copy

\* Numbering an operation leaves every database as good as it was.
LEMMA GoodStays ==
    ASSUME TypeOK, TypeOK', Numbering, NEW U, NEW A,
           Good(U, budget.ops, atomic \ A)
    PROVE  Good(U, budget'.ops, atomic' \ A)
<1>1. CASE UNCHANGED <<budget.ops, atomic>>
  BY <1>1
<1>2. CASE budget'.ops = budget.ops + 1 /\ atomic' \in {atomic, atomic \cup {budget'.ops}}
  <2>1. budget.ops \in Nat /\ budget.ops + 1 \in Op
    BY <1>2, ContextAssumption DEF TypeOK, Op
  <2>2. Good(U, budget'.ops, (atomic \ A) \cup {budget'.ops})
    BY <1>2, <2>1, GoodNext
  <2>3. atomic' \ A \in SUBSET ((atomic \ A) \cup {budget'.ops})
    BY <1>2
  <2> QED BY <2>2, <2>3, GoodSubset
<1> QED BY <1>1, <1>2 DEF Numbering

\* A step is harmless if the files it makes are copies of good databases.
FileFrom ==
    \/ file' = file
    \/ tmp # Absent /\ file' = tmp
    \/ \E c \in Client : ~op[c].txn /\ file'.updates = memory[c]

TmpFrom ==
    \/ tmp' = tmp \/ tmp' = Absent \/ tmp' = Truncated
    \/ \E c \in Client : ~op[c].txn /\ tmp'.updates = memory[c]

LEMMA WholeStep ==
    ASSUME TypeOK, TypeOK', WholeInv, Numbering, FileFrom, TmpFrom,
           \A c \in Client : Copy(c)'
    PROVE  WholeInv'
<1>1. atomic \in SUBSET Op
  BY DEF TypeOK
<1>2. \A id \in atomic' : id <= budget'.ops
  <2>1. budget.ops \in Nat /\ budget'.ops \in Nat /\ \A id \in atomic : id \in Nat
    BY <1>1, ContextAssumption DEF TypeOK, Op
  <2> QED BY <2>1 DEF WholeInv, Numbering
<1>3. ASSUME NEW U, Good(U, budget.ops, atomic)
      PROVE  Good(U, budget'.ops, atomic')
  <2>1. Good(U, budget.ops, atomic \ {})
    BY <1>3
  <2>2. Good(U, budget'.ops, atomic' \ {})
    BY <2>1, GoodStays
  <2> QED BY <2>2
<1>4. ASSUME NEW c \in Client, ~op[c].txn
      PROVE  Good(memory[c], budget.ops, atomic)
  BY <1>4 DEF WholeInv, Copy, Running
<1>5. Good(file'.updates, budget'.ops, atomic')
  BY <1>3, <1>4 DEF FileFrom, WholeInv
<1>6. tmp' # Absent => Good(tmp'.updates, budget'.ops, atomic')
  <2>1. CASE tmp' = Truncated
    BY <2>1, GoodEmpty DEF Truncated
  <2>2. CASE tmp' = tmp \/ tmp' = Absent
    BY <1>3, <2>2 DEF WholeInv
  <2> QED BY <1>3, <1>4, <2>1, <2>2 DEF TmpFrom
<1> QED BY <1>2, <1>5, <1>6 DEF WholeInv

LEMMA CopyUnmoved ==
    ASSUME TypeOK, TypeOK', Numbering, NEW d \in Client, Copy(d), Unmoved(d)
    PROVE  Copy(d)'
<1>1. Running(d)' = Running(d) /\ memory'[d] = memory[d]
  BY DEF Running, Unmoved
<1>2. Good(memory[d], budget'.ops, atomic' \ Running(d))
  BY GoodStays DEF Copy
<1> QED BY <1>1, <1>2 DEF Copy

\* A client out of the database has an empty copy.
LEMMA CopyNone ==
    ASSUME NEW c \in Client, memory'[c] = {}
    PROVE  Copy(c)'
BY GoodEmpty DEF Copy

\* A step of a client that changes nothing of its copy.
LEMMA CopySame ==
    ASSUME TypeOK, TypeOK', WholeInv, Numbering, NEW c \in Client,
           memory'[c] = memory[c], Running(c)' = Running(c)
    PROVE  Copy(c)'
<1>1. Good(memory[c], budget'.ops, atomic' \ Running(c))
  BY GoodStays DEF Copy, WholeInv
<1> QED BY <1>1 DEF Copy

LEMMA CopyClient ==
    ASSUME TypeOK, TypeOK', OpInv, WholeInv, Numbering, NEW c \in Client,
           Proceed(c) \/ LoadFails(c)
    PROVE  FileFrom /\ TmpFrom /\ Copy(c)'
<1> USE DEF TypeOK
<1> OpOf(c) /\ Copy(c)
  BY DEF OpInv, WholeInv
<1>1. CASE getDatabase(c)
  <2>1. ~op'[c].txn /\ memory'[c] \in {{}, file.updates} /\ UNCHANGED <<diskVars, budget, atomic>>
    BY <1>1 DEF getDatabase, Ready, Loaded, OpOf, Outside, NoOp
  <2>2. Good(memory'[c], budget.ops, atomic)
    <3>1. CASE memory'[c] = {}
      BY <3>1, GoodEmpty
    <3>2. CASE memory'[c] = file.updates
      BY <3>2 DEF WholeInv
    <3> QED BY <2>1, <3>1, <3>2
  <2>3. Running(c)' = {} /\ FileFrom /\ TmpFrom
    BY <2>1 DEF Running, FileFrom, TmpFrom, diskVars
  <2>4. atomic' \ {} = atomic
    BY <2>1
  <2> QED BY <2>1, <2>2, <2>3, <2>4 DEF Copy
<1>2. CASE WriteTmp(c)
  <2>1. ~op[c].txn
    BY <1>2 DEF WriteTmp, OpOf, Saving
  <2>2. Copy(c)'
    BY <1>2, CopySame DEF WriteTmp, Running
  <2> QED BY <1>2, <2>1, <2>2 DEF WriteTmp, FileFrom, TmpFrom
<1>3. CASE Rename(c)
  <2>1. Copy(c)'
    BY <1>3, CopySame DEF Rename, Running
  <2> QED BY <1>3, <2>1 DEF Rename, FileFrom, TmpFrom
<1>4. CASE RenameFails(c)
  <2>1. CASE closing[c]
    BY <1>4, <2>1, CopyNone DEF RenameFails, Abandon, Leave, FileFrom, TmpFrom
  <2>2. CASE ~closing[c]
    BY <1>4, <2>2, CopySame DEF RenameFails, Running, FileFrom, TmpFrom
  <2> QED BY <2>1, <2>2
<1>5. CASE LoadFails(c)
  BY <1>5, CopyNone DEF LoadFails, Abandon, Leave, diskVars, FileFrom, TmpFrom
<1> QED BY <1>1, <1>2, <1>3, <1>4, <1>5 DEF Proceed

LEMMA CopyCommand ==
    ASSUME TypeOK, TypeOK', OpInv, WholeInv, Numbering, NEW c \in Command,
           \/ Call(c) \/ acquireLock(c) \/ Expire(c) \/ Refresh(c)
           \/ BeginOp(c) \/ SaveInFn(c) \/ FnThrows(c) \/ Crash({c})
    PROVE  FileFrom /\ TmpFrom /\ Copy(c)'
<1> c \in Client
  BY DEF Client
<1> OpOf(c) /\ Copy(c)
  BY DEF OpInv, WholeInv
<1> op[c] \in [id : 0 .. MaxOps, done : 0 .. 2, txn : BOOLEAN] /\ budget.ops \in Nat
  BY ContextAssumption DEF TypeOK
<1> USE DEF TypeOK
<1>1. CASE RunUpdate(c)
  <2>1. /\ memory'[c] = memory[c] \cup {<<op[c].id, op[c].done + 1>>}
        /\ op'[c].id = op[c].id /\ op'[c].txn = op[c].txn
        /\ UNCHANGED <<diskVars, budget, atomic>>
    BY <1>1 DEF RunUpdate, opVars
  <2>2. op[c].id \in Op /\ op[c].id <= budget.ops /\ op[c].id \notin atomic \ Running(c)
    BY <1>1, ContextAssumption DEF RunUpdate, OpOf, Running, Op
  <2>3. Good(memory'[c], budget.ops, atomic \ Running(c))
    <3>1. Good(memory[c], budget.ops, atomic \ Running(c))
      BY DEF Copy
    <3>2. Good(memory[c] \cup {<<op[c].id, op[c].done + 1>>}, budget.ops, atomic \ Running(c))
      BY <2>2, <3>1, GoodUpdate
    <3> QED BY <2>1, <3>2
  <2>4. Running(c)' = Running(c) /\ FileFrom /\ TmpFrom
    BY <2>1 DEF Running, FileFrom, TmpFrom, diskVars
  <2> QED BY <2>1, <2>3, <2>4 DEF Copy
<1>2. CASE Commit(c)
  <2>1. memory'[c] = memory[c] /\ ~op'[c].txn /\ UNCHANGED <<file, budget, atomic>> /\ tmp' = Truncated
    BY <1>2 DEF Commit, BeginSave, OpenTmp, opVars
  <2>2. {<<op[c].id, 1>>, <<op[c].id, 2>>} \subseteq memory[c]
    BY <1>2 DEF Commit, OpOf, NoOp
  <2>3. Good(memory[c], budget.ops, atomic \ {op[c].id})
    BY <1>2 DEF Commit, Copy, Running
  <2>4. Good(memory[c], budget.ops, atomic)
    BY <2>2, <2>3, GoodCommit
  <2> QED BY <2>1, <2>4 DEF Copy, Running, FileFrom, TmpFrom
<1>3. CASE Close(c) \/ SaveInFn(c)
  BY <1>3, CopySame DEF Close, SaveInFn, BeginSave, OpenTmp, Running, FileFrom, TmpFrom
<1>4. CASE releaseLock(c)
  BY <1>4, CopyNone DEF releaseLock, Leave, diskVars, FileFrom, TmpFrom
<1>5. CASE Compromised(c) \/ Crash({c})
  BY <1>5, CopyNone DEF Compromised, Crash, Die, FileFrom, TmpFrom
<1>6. CASE acquireLock(c) \/ Expire(c) \/ Refresh(c)
  BY <1>6, CopySame DEF acquireLock, Expire, Refresh, clientVars, diskVars, Running, FileFrom, TmpFrom
<1>7. CASE BeginOp(c)
  <2>1. PICK txn \in BOOLEAN :
            /\ op'[c] = [id |-> budget'.ops, done |-> 0, txn |-> txn]
            /\ atomic' = IF txn THEN atomic \cup {budget'.ops} ELSE atomic
    BY <1>7 DEF BeginOp
  <2>2. memory'[c] = memory[c] /\ Running(c) = {} /\ budget'.ops = budget.ops + 1 /\ UNCHANGED diskVars
    BY <1>7 DEF BeginOp, Running, NoOp
  <2>3. Good(memory[c], budget'.ops, atomic')
    <3>1. Good(memory[c], budget'.ops, atomic' \ {})
      BY <2>2, GoodStays DEF Copy
    <3> QED BY <3>1
  <2>4. Good(memory[c], budget'.ops, atomic' \ Running(c)')
    BY <2>3, GoodSubset
  <2> QED BY <2>2, <2>4 DEF Copy, FileFrom, TmpFrom, diskVars
<1>8. CASE FnThrows(c)
  <2>1. /\ memory'[c] = Rollback(c) /\ ~op'[c].txn
        /\ UNCHANGED <<diskVars, budget, atomic>>
    BY <1>8 DEF FnThrows, opVars
  <2>2. Good(Rollback(c), budget.ops, atomic)
    <3>1. CASE op[c].txn
      BY <3>1, GoodRollback DEF Rollback, Copy, Running
    <3>2. CASE ~op[c].txn
      BY <3>2 DEF Rollback, Copy, Running
    <3> QED BY <3>1, <3>2
  <2> QED BY <2>1, <2>2 DEF Copy, Running, FileFrom, TmpFrom, diskVars
<1> QED BY <1>1, <1>2, <1>3, <1>4, <1>5, <1>6, <1>7, <1>8 DEF Call

LEMMA CopyPoll ==
    ASSUME TypeOK, TypeOK', OpInv, WholeInv, Numbering, NEW p \in Poll,
           \/ queryByRunId(p) \/ ClosePoll(p) \/ FinishPoll(p)
           \/ \E m \in Message : Deliver(p, m)
    PROVE  FileFrom /\ TmpFrom /\ Copy(p)'
<1> p \in Client
  BY DEF Client
<1> USE DEF TypeOK
<1>1. CASE queryByRunId(p) \/ ClosePoll(p)
  BY <1>1, CopySame DEF queryByRunId, ClosePoll, BeginSave, OpenTmp, diskVars, Running, FileFrom, TmpFrom
<1>2. CASE FinishPoll(p)
  BY <1>2, CopyNone DEF FinishPoll, Leave, diskVars, FileFrom, TmpFrom
<1>3. ASSUME NEW m \in Message, Deliver(p, m)
      PROVE  FileFrom /\ TmpFrom /\ Copy(p)'
  <2>1. /\ memory'[p] = memory[p] \cup {m} /\ op'[p] = op[p]
        /\ UNCHANGED <<diskVars, atomic>>
    BY <1>3 DEF Deliver, opVars
  <2>2. budget'.ops = budget.ops
    BY <1>3 DEF Deliver
  <2>3. Good(memory'[p], budget.ops, atomic \ Running(p))
    <3>1. Good(memory[p], budget.ops, atomic \ Running(p)) /\ atomic \ Running(p) \in SUBSET Op
      BY DEF WholeInv, Copy
    <3> QED BY <2>1, <3>1, GoodMessage
  <2> QED BY <2>1, <2>2, <2>3 DEF Copy, Running, FileFrom, TmpFrom, diskVars
<1> QED BY <1>1, <1>2, <1>3

LEMMA WholeInvStep ==
    ASSUME TypeOK, OpInv, WholeInv, [Next]_vars
    PROVE  WholeInv'
<1>1. TypeOK' /\ Numbering
  BY TypeStep, Numbers
<1>2. ASSUME NEW c \in Client, StepOf(c)
      PROVE  WholeInv'
  <2>1. FileFrom /\ TmpFrom /\ Copy(c)'
    BY <1>1, <1>2, CopyClient, CopyCommand, CopyPoll DEF StepOf
  <2>2. ASSUME NEW d \in Client, d # c
        PROVE  Copy(d)'
    BY <1>1, <1>2, <2>2, Locality, CopyUnmoved DEF WholeInv
  <2> QED BY <1>1, <2>1, <2>2, WholeStep
<1>3. CASE Crash(Poll)
  <2>1. FileFrom /\ TmpFrom
    BY <1>3 DEF Crash, FileFrom, TmpFrom
  <2>2. ASSUME NEW d \in Client
        PROVE  Copy(d)'
    <3>1. CASE d \in Poll
      BY <1>3, <3>1, CopyNone DEF Crash, Die
    <3>2. CASE d \notin Poll
      <4>1. Unmoved(d)
        BY <1>3, <3>2 DEF Crash, Die, Unmoved, TypeOK
      <4> QED BY <1>1, <4>1, CopyUnmoved DEF WholeInv
    <3> QED BY <3>1, <3>2
  <2> QED BY <1>1, <2>1, <2>2, WholeStep
<1>4. CASE (\E m \in Message : SendMessage(m)) \/ UNCHANGED vars
  <2>1. FileFrom /\ TmpFrom
    BY <1>4 DEF SendMessage, vars, diskVars, FileFrom, TmpFrom
  <2>2. \A d \in Client : Unmoved(d)
    BY <1>4 DEF SendMessage, vars, clientVars, Unmoved
  <2>3. \A d \in Client : Copy(d)'
    BY <1>1, <2>2, CopyUnmoved DEF WholeInv
  <2> QED BY <1>1, <2>1, <2>3, WholeStep
<1> QED BY <1>2, <1>3, <1>4, Actors

DataInv == TypeOK /\ OpInv /\ WholeInv

LEMMA DataInvInit == Init => DataInv
BY TypeInit, OpInvInit, WholeInvInit DEF DataInv

LEMMA DataInvStep ==
    ASSUME DataInv, [Next]_vars
    PROVE  DataInv'
BY TypeStep, OpInvStep, WholeInvStep DEF DataInv, WholeInv

\* hive.db never holds half of a transaction, however many processes had it
\* open at once, whatever died between two steps of a save, and whichever
\* copy was renamed: withTransaction keeps its promise without the lock.
THEOREM Transactions == Spec => []NoHalfTransaction
<1>1. DataInv => NoHalfTransaction
  BY DEF DataInv, WholeInv, Good, NoHalfTransaction
<1> QED BY <1>1, DataInvInit, DataInvStep, PTL DEF Spec

-----------------------------------------------------------------------------
(* What survives while no two clients have the database open at once: the   *)
(* one that has it open has a copy of all of hive.db, and hive.db.tmp is    *)
(* its own.                                                                 *)

\* What holds of a client if it is the only one in the database.
AloneIn(c) ==
    /\ phase[c] = "opened" => inode[c] = "tmp" /\ tmp # Absent
    /\ phase[c] = "written" => inode[c] = "tmp" /\ tmp = [updates |-> memory[c], empty |-> FALSE]
    /\ InDatabase(c) => file.updates \subseteq memory[c]
    /\ InDatabase(c) /\ op[c].txn => \A k \in {1, 2} : <<op[c].id, k>> \notin file.updates
    /\ phase[c] = "release" /\ op[c].id # 0 /\ ~failed[c] => Saved(op[c].id)

\* A message that was marked is where it can be found again.
Kept(m) ==
    inbox[m] = "delivered" =>
        \/ m \in file.updates
        \/ \E p \in Poll : phase[p] = "dead" \/ (InDatabase(p) /\ m \in memory[p])

Alone ==
    /\ ~file.empty
    /\ \A c, d \in Client : InDatabase(c) /\ InDatabase(d) => c = d
    /\ \A c \in Client : AloneIn(c)
    /\ \A id \in acked : Saved(id)
    /\ \A m \in Message : Kept(m)

AloneInv == overlapped \/ Alone

LEMMA AloneInvInit == Init => AloneInv
BY DEF Init, AloneInv, Alone, AloneIn, Kept, InDatabase, NoOp

\* hive.db only ever grows, and is never empty: a rename puts there what the
\* only client in the database wrote, which has all that was in it.
FileGrew == ~file'.empty /\ file.updates \subseteq file'.updates

LEMMA FileGrows ==
    ASSUME TypeOK, Alone, [Next]_vars
    PROVE  FileGrew
<1>1. CASE UNCHANGED file
  BY <1>1 DEF Alone, FileGrew
<1>2. ASSUME NEW c \in Client, WriteTmp(c)
      PROVE  UNCHANGED file
  BY <1>2 DEF WriteTmp, Alone, AloneIn
<1>3. ASSUME NEW c \in Client, Rename(c)
      PROVE  FileGrew
  <2>1. file' = [updates |-> memory[c], empty |-> FALSE] /\ file.updates \subseteq memory[c]
    BY <1>3 DEF Rename, Alone, AloneIn, InDatabase
  <2> QED BY <2>1 DEF FileGrew
<1>4. ASSUME NEW c \in Client, getDatabase(c) \/ RenameFails(c) \/ LoadFails(c)
      PROVE  UNCHANGED file
  BY <1>4 DEF getDatabase, RenameFails, LoadFails, diskVars
<1>5. ASSUME NEW c \in Command,
             \/ Call(c) \/ acquireLock(c) \/ Expire(c) \/ Refresh(c)
             \/ BeginOp(c) \/ SaveInFn(c) \/ FnThrows(c) \/ Crash({c})
      PROVE  UNCHANGED file
  BY <1>5 DEF Call, RunUpdate, Commit, Close, releaseLock, Compromised, acquireLock, Expire,
              Refresh, BeginOp, SaveInFn, FnThrows, Crash, BeginSave, OpenTmp, diskVars
<1>6. ASSUME NEW p \in Poll,
             \/ queryByRunId(p) \/ ClosePoll(p) \/ FinishPoll(p)
             \/ \E m \in Message : Deliver(p, m)
      PROVE  UNCHANGED file
  BY <1>6 DEF queryByRunId, ClosePoll, FinishPoll, Deliver, BeginSave, OpenTmp, diskVars
<1>7. CASE Crash(Poll) \/ (\E m \in Message : SendMessage(m)) \/ UNCHANGED vars
  <2>1. UNCHANGED file
    BY <1>7 DEF Crash, SendMessage, vars, diskVars
  <2> QED BY <1>1, <2>1
<1> QED BY <1>1, <1>2, <1>3, <1>4, <1>5, <1>6, <1>7 DEF Next, Proceed

LEMMA CopyIsFile ==
    ASSUME NEW U \in SUBSET Update, NEW e \in BOOLEAN
    PROVE  [updates |-> U, empty |-> e] # Absent
<1>1. [updates |-> U, empty |-> e] \in File
  BY DEF File
<1> QED BY <1>1, AbsentAssumption

\* A client out of the database does nothing to the disk.
LEMMA DiskQuiet ==
    ASSUME TypeOK, NEW c \in Client, StepOf(c), ~InDatabase(c), NEW d \in Client, d # c
    PROVE  UNCHANGED <<file, tmp>> /\ inode'[d] = inode[d]
<1> USE DEF TypeOK, InDatabase
<1>1. CASE Proceed(c) \/ LoadFails(c)
  BY <1>1 DEF Proceed, getDatabase, WriteTmp, Rename, RenameFails, LoadFails, diskVars
<1>2. CASE RunUpdate(c) \/ Commit(c) \/ Close(c) \/ SaveInFn(c) \/ BeginOp(c) \/ FnThrows(c)
  BY <1>2 DEF RunUpdate, Commit, Close, SaveInFn, BeginSave, BeginOp, FnThrows
<1>3. CASE releaseLock(c) \/ Compromised(c) \/ Crash({c})
  BY <1>3 DEF releaseLock, Compromised, Crash, Die, diskVars
<1>4. CASE acquireLock(c) \/ Expire(c) \/ Refresh(c)
  BY <1>4 DEF acquireLock, Expire, Refresh, diskVars
<1>5. CASE queryByRunId(c) \/ ClosePoll(c) \/ FinishPoll(c)
  BY <1>5 DEF queryByRunId, ClosePoll, BeginSave, FinishPoll, diskVars
<1>6. ASSUME NEW m \in Message, Deliver(c, m)
      PROVE  UNCHANGED diskVars
  BY <1>6 DEF Deliver
<1> QED BY <1>1, <1>2, <1>3, <1>4, <1>5, <1>6 DEF StepOf, Call, diskVars

\* Nobody comes to the database but by loading it.
LEMMA Entering ==
    ASSUME TypeOK, NEW c \in Client, StepOf(c), InDatabase(c)'
    PROVE  InDatabase(c) \/ getDatabase(c)
<1> USE DEF TypeOK, InDatabase
<1>1. CASE Proceed(c) \/ LoadFails(c)
  BY <1>1 DEF Proceed, WriteTmp, Rename, RenameFails, LoadFails, Abandon, Leave
<1>2. CASE RunUpdate(c) \/ Commit(c) \/ Close(c) \/ SaveInFn(c) \/ BeginOp(c) \/ FnThrows(c)
  BY <1>2 DEF RunUpdate, Commit, Close, SaveInFn, BeginSave, BeginOp, FnThrows
<1>3. CASE releaseLock(c) \/ Compromised(c) \/ Crash({c})
  BY <1>3 DEF releaseLock, Leave, Compromised, Crash, Die
<1>4. CASE acquireLock(c) \/ Expire(c) \/ Refresh(c)
  BY <1>4 DEF acquireLock, Expire, Refresh, clientVars
<1>5. CASE queryByRunId(c) \/ ClosePoll(c) \/ FinishPoll(c)
  BY <1>5 DEF queryByRunId, ClosePoll, BeginSave, FinishPoll, Leave
<1>6. ASSUME NEW m \in Message, Deliver(c, m)
      PROVE  InDatabase(c)
  BY <1>6 DEF Deliver
<1> QED BY <1>1, <1>2, <1>3, <1>4, <1>5, <1>6 DEF StepOf, Call

LEMMA StillAlone ==
    ASSUME TypeOK, Alone, NEW c \in Client, StepOf(c), ~overlapped'
    PROVE  \A d, e \in Client : InDatabase(d)' /\ InDatabase(e)' => d = e
<1>1. ASSUME NEW d \in Client, d # c
      PROVE  InDatabase(d)' = InDatabase(d)
  BY <1>1, Locality DEF Unmoved, InDatabase
<1>2. ASSUME NEW d \in Client, d # c, InDatabase(d)
      PROVE  ~InDatabase(c)'
  <2>1. ~InDatabase(c)
    BY <1>2 DEF Alone
  <2>2. ~getDatabase(c)
    BY <1>2 DEF getDatabase
  <2> QED BY <2>1, <2>2, Entering
<1>3. ASSUME NEW d \in Client, NEW e \in Client, d # c, e # c, InDatabase(d), InDatabase(e)
      PROVE  d = e
  BY <1>3 DEF Alone
<1> QED BY <1>1, <1>2, <1>3

\* The others, of which at most one is in the database.
LEMMA AloneUnmoved ==
    ASSUME TypeOK, Alone, FileGrew, NEW c \in Client, StepOf(c),
           NEW d \in Client, d # c
    PROVE  AloneIn(d)'
<1>1. Unmoved(d) /\ AloneIn(d)
  BY Locality DEF Alone
<1>2. CASE InDatabase(d)
  <2>1. ~InDatabase(c)
    BY <1>2 DEF Alone
  <2>2. UNCHANGED <<file, tmp>> /\ inode'[d] = inode[d]
    BY <2>1, DiskQuiet
  <2> QED BY <1>1, <2>2 DEF AloneIn, Unmoved, InDatabase, Saved
<1>3. CASE ~InDatabase(d)
  BY <1>1, <1>3 DEF AloneIn, Unmoved, InDatabase, Saved, FileGrew
<1> QED BY <1>2, <1>3

LEMMA AloneClient ==
    ASSUME DataInv, Alone, NEW c \in Client, Proceed(c) \/ LoadFails(c)
    PROVE  AloneIn(c)' /\ UNCHANGED acked
<1> USE DEF DataInv, TypeOK
<1> OpOf(c) /\ AloneIn(c)
  BY DEF OpInv, Alone
<1>1. CASE getDatabase(c)
  <2>1. /\ phase'[c] = "open" /\ memory'[c] = file.updates /\ ~op'[c].txn
        /\ UNCHANGED <<diskVars, acked>>
    BY <1>1 DEF getDatabase, Ready, Loaded, Alone, OpOf, Outside, NoOp
  <2> QED BY <2>1 DEF AloneIn, InDatabase, diskVars
<1>2. CASE WriteTmp(c)
  BY <1>2 DEF WriteTmp, opVars, AloneIn, InDatabase
<1>3. CASE Rename(c)
  <2>1. /\ phase'[c] = AfterSave(c) /\ file'.updates = memory[c]
        /\ UNCHANGED <<memory, op, failed, acked>>
    BY <1>3 DEF Rename, opVars, AloneIn
  <2>2. ~op[c].txn
    BY <1>3 DEF Rename, OpOf, Saving
  <2>3. closing[c] /\ op[c].id # 0 /\ ~failed[c] => Saved(op[c].id)'
    BY <1>3, <2>1 DEF Rename, OpOf, Saving, Saved
  <2> QED BY <2>1, <2>2, <2>3 DEF AfterSave, AloneIn, InDatabase, Saved
<1>4. CASE RenameFails(c)
  BY <1>4, CopyIsFile DEF RenameFails, AloneIn
<1>5. CASE LoadFails(c)
  BY <1>5 DEF LoadFails, Abandon, Leave, opVars, AloneIn, InDatabase
<1> QED BY <1>1, <1>2, <1>3, <1>4, <1>5 DEF Proceed

LEMMA AloneCommand ==
    ASSUME DataInv, Alone, NEW c \in Command,
           \/ Call(c) \/ acquireLock(c) \/ Expire(c) \/ Refresh(c)
           \/ BeginOp(c) \/ SaveInFn(c) \/ FnThrows(c) \/ Crash({c})
    PROVE  AloneIn(c)' /\ \A id \in acked' : id \in acked \/ Saved(id)
<1> c \in Client
  BY DEF Client
<1> USE DEF DataInv, TypeOK
<1> OpOf(c) /\ AloneIn(c)
  BY DEF OpInv, Alone
<1> op[c] \in [id : 0 .. MaxOps, done : 0 .. 2, txn : BOOLEAN]
  BY DEF TypeOK
<1>1. CASE RunUpdate(c)
  <2>1. /\ phase'[c] = "open" /\ memory[c] \subseteq memory'[c]
        /\ op'[c].id = op[c].id /\ op'[c].txn = op[c].txn
        /\ phase[c] = "open" /\ UNCHANGED <<file, acked>>
    BY <1>1 DEF RunUpdate, opVars, diskVars
  <2> QED BY <2>1 DEF AloneIn, InDatabase
<1>2. CASE Commit(c) \/ Close(c) \/ SaveInFn(c)
  <2>1. /\ phase[c] = "open" /\ phase'[c] = "opened" /\ inode'[c] = "tmp" /\ tmp' = Truncated
        /\ UNCHANGED <<file, memory, acked>>
    BY <1>2 DEF Commit, Close, SaveInFn, BeginSave, OpenTmp, opVars
  <2>2. ~op'[c].txn
    <3>1. CASE Commit(c)
      BY <3>1 DEF Commit
    <3>2. CASE Close(c) \/ SaveInFn(c)
      <4>1. op'[c] = op[c] /\ (failed[c] \/ op[c] = NoOp \/ ~op[c].txn)
        BY <3>2 DEF Close, SaveInFn
      <4> QED BY <4>1 DEF OpOf, NoOp
    <3> QED BY <1>2, <3>1, <3>2
  <2>3. Truncated # Absent
    BY CopyIsFile DEF Truncated
  <2> QED BY <2>1, <2>2, <2>3 DEF AloneIn, InDatabase
<1>3. CASE releaseLock(c)
  <2>1. AloneIn(c)'
    BY <1>3 DEF releaseLock, Leave, AloneIn, InDatabase
  <2>2. acked' = acked \/ (op[c].id # 0 /\ ~failed[c] /\ acked' = acked \cup {op[c].id})
    BY <1>3 DEF releaseLock
  <2> QED BY <1>3, <2>1, <2>2 DEF releaseLock, AloneIn
<1>4. CASE Compromised(c) \/ Crash({c})
  BY <1>4 DEF Compromised, Crash, Die, opVars, AloneIn, InDatabase
<1>5. CASE acquireLock(c)
  BY <1>5 DEF acquireLock, opVars, AloneIn, InDatabase
<1>6. CASE Expire(c) \/ Refresh(c)
  <2>1. UNCHANGED <<clientVars, diskVars, opVars>>
    BY <1>6 DEF Expire, Refresh
  <2> QED BY <2>1 DEF clientVars, diskVars, opVars, AloneIn, InDatabase, Saved
<1>7. CASE BeginOp(c)
  <2>1. /\ phase[c] = "open" /\ phase'[c] = "open" /\ op'[c].id = budget.ops + 1
        /\ UNCHANGED <<file, memory, acked>>
    BY <1>7 DEF BeginOp, diskVars
  <2>2. budget.ops \in Nat /\ budget.ops + 1 \in Op
    BY <1>7, ContextAssumption DEF BeginOp, Op
  <2>3. \A k \in {1, 2} : <<budget.ops + 1, k>> \notin file.updates
    <3>1. ASSUME NEW k \in {1, 2}, <<budget.ops + 1, k>> \in file.updates
          PROVE  budget.ops + 1 <= budget.ops
      <4>1. Good(file.updates, budget.ops, atomic)
        BY DEF WholeInv
      <4> QED BY <2>2, <3>1, <4>1 DEF Good
    <3>2. ~(budget.ops + 1 <= budget.ops)
      BY <2>2
    <3> QED BY <3>1, <3>2
  <2> QED BY <2>1, <2>3 DEF AloneIn, InDatabase
<1>8. CASE FnThrows(c)
  <2>1. /\ phase[c] = "open" /\ phase'[c] = "open" /\ ~op'[c].txn
        /\ memory'[c] = Rollback(c) /\ UNCHANGED <<file, acked>>
    BY <1>8 DEF FnThrows, diskVars, opVars
  <2>2. file.updates \subseteq Rollback(c)
    BY <2>1 DEF Rollback, AloneIn, InDatabase
  <2> QED BY <2>1, <2>2 DEF AloneIn, InDatabase
<1> QED BY <1>1, <1>2, <1>3, <1>4, <1>5, <1>6, <1>7, <1>8 DEF Call

LEMMA AlonePoll ==
    ASSUME DataInv, Alone, NEW p \in Poll,
           \/ queryByRunId(p) \/ ClosePoll(p) \/ FinishPoll(p)
           \/ \E m \in Message : Deliver(p, m)
    PROVE  AloneIn(p)' /\ UNCHANGED acked
<1> p \in Client
  BY DEF Client
<1> USE DEF DataInv, TypeOK
<1> op[p] = NoOp /\ AloneIn(p)
  BY DEF OpInv, OpOf, Alone
<1>1. CASE queryByRunId(p) \/ FinishPoll(p)
  BY <1>1 DEF queryByRunId, FinishPoll, Leave, opVars, AloneIn, InDatabase
<1>2. CASE ClosePoll(p)
  <2>1. Truncated # Absent
    BY CopyIsFile DEF Truncated
  <2> QED BY <1>2, <2>1 DEF ClosePoll, BeginSave, OpenTmp, opVars, AloneIn, InDatabase, NoOp
<1>3. ASSUME NEW m \in Message, Deliver(p, m)
      PROVE  AloneIn(p)' /\ UNCHANGED acked
  <2>1. /\ phase[p] = "open" /\ phase'[p] = "open" /\ memory'[p] = memory[p] \cup {m}
        /\ op'[p] = NoOp /\ UNCHANGED <<file, acked>>
    BY <1>3 DEF Deliver, diskVars, opVars
  <2> QED BY <2>1 DEF AloneIn, InDatabase, NoOp
<1> QED BY <1>1, <1>2, <1>3

\* A message in the copy of a poll stays in a copy until it is in hive.db, or
\* the adapter dies.
LEMMA KeptInCopy ==
    ASSUME TypeOK, TypeOK', Alone, [Next]_vars, NEW p \in Poll, NEW m \in Message,
           phase[p] = "dead" \/ (InDatabase(p) /\ m \in memory[p])
    PROVE  \/ m \in file'.updates
           \/ phase'[p] = "dead" \/ (InDatabase(p)' /\ m \in memory'[p])
<1> DEFINE Goal == \/ m \in file'.updates
                   \/ phase'[p] = "dead" \/ (InDatabase(p)' /\ m \in memory'[p])
<1> p \in Client /\ p \notin Command
  BY ContextAssumption DEF Client
<1> USE DEF TypeOK, InDatabase
<1>1. ASSUME NEW c \in Client, StepOf(c), c # p
      PROVE  Goal
  <2>1. Unmoved(p)
    BY <1>1, Locality
  <2> QED BY <2>1 DEF Unmoved
<1>2. CASE Proceed(p) \/ LoadFails(p)
  <2>1. CASE Rename(p)
    <3>1. phase[p] = "written" /\ file' = tmp
      BY <2>1 DEF Rename
    <3>2. tmp = [updates |-> memory[p], empty |-> FALSE]
      BY <3>1 DEF Alone, AloneIn
    <3>3. m \in memory[p]
      BY <3>1
    <3> QED BY <3>1, <3>2, <3>3
  <2>2. CASE RenameFails(p)
    BY <2>2, CopyIsFile DEF RenameFails, Alone, AloneIn
  <2>3. CASE getDatabase(p) \/ WriteTmp(p) \/ LoadFails(p)
    BY <2>3 DEF getDatabase, Ready, WriteTmp, LoadFails
  <2> QED BY <1>2, <2>1, <2>2, <2>3 DEF Proceed
<1>3. CASE queryByRunId(p) \/ ClosePoll(p) \/ FinishPoll(p)
  BY <1>3 DEF queryByRunId, ClosePoll, BeginSave, FinishPoll
<1>4. ASSUME NEW k \in Message, Deliver(p, k)
      PROVE  Goal
  BY <1>4 DEF Deliver
<1>5. CASE Crash(Poll)
  BY <1>5 DEF Crash, Die
<1>6. CASE (\E k \in Message : SendMessage(k)) \/ UNCHANGED vars
  BY <1>6 DEF SendMessage, vars, clientVars
<1>7. CASE StepOf(p)
  BY <1>2, <1>3, <1>4, <1>7 DEF StepOf
<1> QED BY <1>1, <1>5, <1>6, <1>7, Actors

\* Only Deliver marks a message, and has put it into its copy.
LEMMA Marking ==
    ASSUME TypeOK, [Next]_vars, NEW m \in Message, inbox'[m] = "delivered"
    PROVE  inbox[m] = "delivered" \/ \E p \in Poll : InDatabase(p)' /\ m \in memory'[p]
<1> USE DEF TypeOK, InDatabase
<1>1. CASE UNCHANGED inbox
  BY <1>1
<1>2. CASE \E k \in Message : inbox' = [inbox EXCEPT ![k] = "pending"]
  BY <1>2
<1>3. ASSUME NEW p \in Poll, NEW k \in Message,
             Deliver(p, k), inbox' = [inbox EXCEPT ![k] = "delivered"]
      PROVE  inbox[m] = "delivered" \/ (InDatabase(p)' /\ m \in memory'[p])
  <2>1. p \in Client /\ phase'[p] = "open" /\ memory'[p] = memory[p] \cup {k}
    BY <1>3 DEF Deliver, Client
  <2>2. CASE m = k
    BY <2>1, <2>2
  <2>3. CASE m # k
    BY <1>3, <2>3
  <2> QED BY <2>2, <2>3
<1> QED BY <1>1, <1>2, <1>3, InboxSteps

LEMMA KeptStep ==
    ASSUME TypeOK, TypeOK', Alone, FileGrew, [Next]_vars, NEW m \in Message
    PROVE  Kept(m)'
<1> SUFFICES ASSUME inbox'[m] = "delivered"
             PROVE  \/ m \in file'.updates
                    \/ \E p \in Poll : phase'[p] = "dead" \/ (InDatabase(p)' /\ m \in memory'[p])
  BY DEF Kept, InDatabase
<1>1. CASE inbox[m] = "delivered"
  <2>1. \/ m \in file.updates
        \/ \E p \in Poll : phase[p] = "dead" \/ (InDatabase(p) /\ m \in memory[p])
    BY <1>1 DEF Alone, Kept
  <2> QED BY <2>1, KeptInCopy DEF FileGrew
<1>2. CASE inbox[m] # "delivered"
  BY <1>2, Marking
<1> QED BY <1>1, <1>2

\* A fault and an overlap are never taken back.
LEMMA NeverTakenBack ==
    ASSUME TypeOK, [Next]_vars
    PROVE  /\ budget.faults > 0 => budget'.faults > 0
           /\ overlapped => overlapped'
<1> USE DEF TypeOK
<1> DEFINE Goal == (budget.faults > 0 => budget'.faults > 0) /\ (overlapped => overlapped')
<1>1. ASSUME NEW c \in Client, Proceed(c) \/ LoadFails(c)
      PROVE  Goal
  <2>1. UNCHANGED budget \/ budget' = [budget EXCEPT !.faults = @ + 1]
    BY <1>1 DEF Proceed, getDatabase, WriteTmp, Rename, RenameFails, LoadFails
  <2>2. overlapped => overlapped'
    BY <1>1 DEF Proceed, getDatabase, WriteTmp, Rename, RenameFails, LoadFails, opVars
  <2> QED BY <2>1, <2>2
<1>2. ASSUME NEW c \in Command,
             Call(c) \/ acquireLock(c) \/ Refresh(c) \/ SaveInFn(c) \/ FnThrows(c)
      PROVE  UNCHANGED <<budget, overlapped>>
  BY <1>2 DEF Call, RunUpdate, Commit, Close, releaseLock, Compromised, acquireLock, Refresh,
              SaveInFn, FnThrows, opVars
<1>3. ASSUME NEW c \in Command, Expire(c) \/ Crash({c}) \/ BeginOp(c)
      PROVE  Goal
  <2>1. \/ UNCHANGED budget \/ budget' = [budget EXCEPT !.stalls = @ + 1]
        \/ budget' = [budget EXCEPT !.crashes = @ + 1]
        \/ budget' = [budget EXCEPT !.ops = budget.ops + 1]
    BY <1>3 DEF Expire, Crash, BeginOp
  <2>2. UNCHANGED overlapped
    BY <1>3 DEF Expire, Crash, BeginOp, opVars
  <2> QED BY <2>1, <2>2
<1>4. ASSUME NEW p \in Poll, queryByRunId(p) \/ ClosePoll(p) \/ FinishPoll(p)
      PROVE  UNCHANGED <<budget, overlapped>>
  BY <1>4 DEF queryByRunId, ClosePoll, FinishPoll, opVars
<1>5. ASSUME NEW p \in Poll, NEW m \in Message, Deliver(p, m)
      PROVE  Goal
  <2>1. UNCHANGED budget \/ budget' = [budget EXCEPT !.faults = @ + 1]
    BY <1>5 DEF Deliver
  <2>2. UNCHANGED overlapped
    BY <1>5 DEF Deliver, opVars
  <2> QED BY <2>1, <2>2
<1>6. CASE Crash(Poll)
  BY <1>6 DEF Crash, opVars
<1>7. CASE (\E m \in Message : SendMessage(m)) \/ UNCHANGED vars
  <2>1. UNCHANGED <<budget, overlapped>>
    BY <1>7 DEF SendMessage, vars, opVars
  <2> QED BY <2>1
<1> QED BY <1>1, <1>2, <1>3, <1>4, <1>5, <1>6, <1>7 DEF Next

LEMMA AloneInvStep ==
    ASSUME DataInv, AloneInv, [Next]_vars
    PROVE  AloneInv'
<1> SUFFICES ASSUME ~overlapped'
             PROVE  Alone'
  BY DEF AloneInv
<1>1. Alone
  BY NeverTakenBack DEF DataInv, AloneInv
<1>2. TypeOK /\ TypeOK' /\ FileGrew
  BY <1>1, TypeStep, FileGrows DEF DataInv
<1>3. \A m \in Message : Kept(m)'
  BY <1>1, <1>2, KeptStep
<1>4. ~file'.empty
  BY <1>2 DEF FileGrew
<1>5. ASSUME NEW c \in Client, StepOf(c)
      PROVE  Alone'
  <2>1. AloneIn(c)' /\ \A id \in acked' : id \in acked \/ Saved(id)
    BY <1>1, <1>5, AloneClient, AloneCommand, AlonePoll DEF StepOf
  <2>2. \A d \in Client : AloneIn(d)'
    BY <1>1, <1>2, <1>5, <2>1, AloneUnmoved
  <2>3. \A id \in acked' : Saved(id)'
    BY <1>1, <1>2, <2>1 DEF Alone, Saved, FileGrew
  <2>4. \A d, e \in Client : InDatabase(d)' /\ InDatabase(e)' => d = e
    BY <1>1, <1>2, <1>5, StillAlone
  <2> QED BY <1>3, <1>4, <2>2, <2>3, <2>4 DEF Alone
<1>6. CASE Crash(Poll)
  <2>1. \A d \in Client : (Unmoved(d) /\ inode'[d] = inode[d]) \/ phase'[d] = "dead"
    BY <1>2, <1>6 DEF Crash, Die, Unmoved, TypeOK
  <2>2. UNCHANGED <<file, tmp, acked>>
    BY <1>6 DEF Crash, opVars
  <2>3. \A d \in Client : AloneIn(d)'
    BY <1>1, <2>1, <2>2 DEF Alone, AloneIn, Unmoved, InDatabase, Saved
  <2>4. \A d \in Client : InDatabase(d)' => InDatabase(d)
    BY <2>1 DEF Unmoved, InDatabase
  <2> QED BY <1>1, <1>3, <1>4, <2>2, <2>3, <2>4 DEF Alone, Saved
<1>7. CASE (\E m \in Message : SendMessage(m)) \/ UNCHANGED vars
  <2>1. UNCHANGED <<diskVars, clientVars, acked>>
    BY <1>7 DEF SendMessage, vars, opVars
  <2> QED BY <1>1, <1>3, <2>1 DEF Alone, AloneIn, InDatabase, Saved, diskVars, clientVars
<1> QED BY <1>5, <1>6, <1>7, Actors

\* Unless two processes had the database open at once, an operation whose
\* call returned without an error is in hive.db, and stays there: whoever
\* crashes, throws, fails to load or takes a dead holder's lock over, for any
\* number of processes.
THEOREM Acknowledged == Spec => []AcknowledgedIsSaved
<1>1. AloneInv => AcknowledgedIsSaved
  BY DEF AloneInv, Alone, AcknowledgedIsSaved
<1> QED BY <1>1, DataInvInit, DataInvStep, AloneInvInit, AloneInvStep, PTL DEF Spec

\* Nor is a message lost that the adapter marked as delivered, unless the
\* adapter died before it saved, or two had the database open at once.
THEOREM Delivered == Spec => []DeliveredIsSaved
<1>1. AloneInv => DeliveredIsSaved
  BY DEF AloneInv, Alone, Kept, DeliveredIsSaved
<1> QED BY <1>1, DataInvInit, DataInvStep, AloneInvInit, AloneInvStep, PTL DEF Spec

\* No step takes an update out of hive.db, nor leaves the file truncated, as
\* long as no two have had the database open at once.
THEOREM UpdatesStay == Spec => []FileIsComplete /\ SavedUpdatesStay
<1>1. DataInv /\ AloneInv /\ [Next]_vars => [overlapped \/ file.updates \subseteq file'.updates]_vars
  BY FileGrows DEF DataInv, AloneInv, FileGrew
<1>2. AloneInv => FileIsComplete
  BY DEF AloneInv, Alone, FileIsComplete
<1> QED BY <1>1, <1>2, DataInvInit, DataInvStep, AloneInvInit, AloneInvStep, PTL DEF Spec, SavedUpdatesStay

-----------------------------------------------------------------------------
(* Between two calls a process that lives holds no lock.                   *)

\* What a step of another does to a lock: it takes it for itself, gives it
\* back, or leaves its owner.
LEMMA LockOfOthers ==
    ASSUME TypeOK, NEW c \in Client, StepOf(c), NEW d \in Command, d # c, lock'.owner = d
    PROVE  lock.owner = d
<1> d # Nobody
  BY ContextAssumption
<1> USE DEF TypeOK
<1>1. CASE Proceed(c) \/ LoadFails(c)
  BY <1>1 DEF Proceed, getDatabase, WriteTmp, Rename, RenameFails, LoadFails, Abandon, Released
<1>2. CASE RunUpdate(c) \/ Commit(c) \/ Close(c) \/ SaveInFn(c) \/ BeginOp(c) \/ FnThrows(c)
  BY <1>2 DEF RunUpdate, Commit, Close, SaveInFn, BeginOp, FnThrows
<1>3. CASE releaseLock(c) \/ Compromised(c) \/ Crash({c})
  BY <1>3 DEF releaseLock, Released, Compromised, Crash
<1>4. CASE acquireLock(c) \/ Expire(c) \/ Refresh(c)
  BY <1>4 DEF acquireLock, Expire, Refresh
<1>5. CASE queryByRunId(c) \/ ClosePoll(c) \/ FinishPoll(c)
  BY <1>5 DEF queryByRunId, ClosePoll, FinishPoll
<1>6. CASE \E m \in Message : Deliver(c, m)
  BY <1>6 DEF Deliver
<1> QED BY <1>1, <1>2, <1>3, <1>4, <1>5, <1>6 DEF StepOf, Call

\* What a step of its own leaves of a lock when it ends a call.
LEMMA LockOfOwn ==
    ASSUME DataInv, AloneInv, NEW c \in Command, StepOf(c), lock'.owner = c, phase'[c] = "idle"
    PROVE  \/ lock.owner = c /\ phase[c] = "idle"
           \/ c \in Daemon /\ (budget'.faults > 0 \/ overlapped)
<1> DEFINE Goal == \/ lock.owner = c /\ phase[c] = "idle"
                   \/ c \in Daemon /\ (budget'.faults > 0 \/ overlapped)
<1> c \in Client /\ c \notin Poll /\ c # Nobody
  BY ContextAssumption DEF Client
<1> USE DEF DataInv, TypeOK
<1>1. CASE getDatabase(c) \/ WriteTmp(c) \/ Rename(c)
  BY <1>1 DEF getDatabase, WriteTmp, Rename, AfterSave
<1>2. CASE RenameFails(c)
  <2>1. overlapped
    BY <1>2, CopyIsFile DEF RenameFails, AloneInv, Alone, AloneIn
  <2>2. Abandon(c)
    BY <1>2 DEF RenameFails
  <2> QED BY <2>1, <2>2 DEF Abandon, Released
<1>3. CASE LoadFails(c)
  <2>1. budget'.faults > 0
    BY <1>3 DEF LoadFails
  <2>2. Abandon(c)
    BY <1>3 DEF LoadFails
  <2> QED BY <2>1, <2>2 DEF Abandon, Released
<1>4. CASE RunUpdate(c) \/ Commit(c) \/ Close(c) \/ SaveInFn(c) \/ BeginOp(c) \/ FnThrows(c)
  BY <1>4 DEF RunUpdate, Commit, Close, SaveInFn, BeginSave, BeginOp, FnThrows
<1>5. CASE releaseLock(c) \/ Compromised(c) \/ Crash({c})
  BY <1>5 DEF releaseLock, Released, Compromised, Crash, Die
<1>6. CASE acquireLock(c) \/ Expire(c) \/ Refresh(c)
  BY <1>6 DEF acquireLock, Expire, Refresh, clientVars
<1> QED BY <1>1, <1>2, <1>3, <1>4, <1>5, <1>6 DEF StepOf, Call, Proceed

LEMMA HeldStep ==
    ASSUME DataInv, AloneInv, HeldOnlyDuringCall, [Next]_vars
    PROVE  HeldOnlyDuringCall'
<1> TypeOK
  BY DEF DataInv
<1> SUFFICES ASSUME NEW c \in Command, lock'.owner = c, phase'[c] = "idle"
             PROVE  c \in Daemon /\ (budget'.faults > 0 \/ overlapped')
  BY DEF HeldOnlyDuringCall
<1>1. SUFFICES \/ lock.owner = c /\ phase[c] = "idle"
               \/ c \in Daemon /\ (budget'.faults > 0 \/ overlapped)
  BY NeverTakenBack DEF HeldOnlyDuringCall
<1> c \in Client /\ c \notin Poll
  BY ContextAssumption DEF Client
<1>2. CASE StepOf(c)
  BY <1>2, LockOfOwn
<1>3. ASSUME NEW d \in Client, StepOf(d), d # c
      PROVE  lock.owner = c /\ phase[c] = "idle"
  BY <1>3, LockOfOthers, Locality DEF Unmoved
<1>4. CASE Crash(Poll) \/ (\E m \in Message : SendMessage(m)) \/ UNCHANGED vars
  BY <1>4 DEF Crash, Die, SendMessage, vars, clientVars
<1> QED BY <1>2, <1>3, <1>4, Actors

\* A process that lives holds the lock only in the course of a call, unless it
\* is the manager, whose load failed or whose temporary file another renamed.
THEOREM HeldInCalls == Spec => []HeldOnlyDuringCall
<1>1. Init => HeldOnlyDuringCall
  BY ContextAssumption DEF Init, HeldOnlyDuringCall
<1> QED BY <1>1, HeldStep, DataInvInit, DataInvStep, AloneInvInit, AloneInvStep, PTL DEF Spec
=============================================================================
