-------------------------------- MODULE Jira --------------------------------
(***************************************************************************)
(* The Jira integration: what the manager's check does to keep the board   *)
(* and the stories together (sync.ts, stories.ts, transitions.ts,          *)
(* sprints.ts), the queue of calls behind an assignment (scheduler.ts,     *)
(* operation-queue.ts), and the calls that commands make when they change  *)
(* a story (operations.ts).                                                *)
(*                                                                         *)
(* Each call to Jira is a step of its own, for people move cards in        *)
(* between, and calls that nobody waits for arrive late.  A call may be    *)
(* refused, or carried out although its answer is lost.  Most calls are    *)
(* made under the lock, so that other commands do not act meanwhile; the   *)
(* section saves when it ends, so that a crash forgets what it recorded.   *)
(*                                                                         *)
(* One requirement.  What moves a story along is Assignment and MergeQueue *)
(* and appears here as the changes of status they make.  The statuses are  *)
(* replicated (Replication); the references to Jira are not, each node has *)
(* its own.  An issue is the n-th one that was created for its story.      *)
(***************************************************************************)
EXTENDS JiraPromises, FiniteSets, SequencesExt

CONSTANTS
    Node,        \* nodes of the cluster that may lead it
    Column,      \* statuses of the Jira workflow, each of which leads to each other
    Means,       \* status_mapping: the status that a column stands for
    Entry,       \* the column of new issues
    Sprints,     \* what becomes of a move to the active sprint
    MaxMishaps,  \* bound: calls refused or without an answer, crashes, changes of leader
    MaxSetbacks, \* bound: rejections and dead agents
    MaxDrags     \* bound: cards moved by people

Absent == "absent"
None   == "none"
\* STORY_STATUS_ORDER, without the status that nothing sets; the positions are those of the source.
Place == [draft |-> 0, estimated |-> 1, planned |-> 2, in_progress |-> 3, review |-> 4,
          qa |-> 5, qa_failed |-> 6, pr_submitted |-> 7, merged |-> 8]
\* STATUS_ORDER, the other one.
Order == [draft |-> 0, estimated |-> 1, planned |-> 2, in_progress |-> 3, review |-> 4,
          pr_submitted |-> 5, qa |-> 6, qa_failed |-> 4, merged |-> 7]
Status == DOMAIN Place \cup {Absent}

ASSUME JiraAssumption ==
    /\ IsFiniteSet(Story) /\ IsFiniteSet(Node) /\ Node # {}
    /\ Means \in [Column -> DOMAIN Place] /\ Entry \in Column
    /\ Sprints \subseteq {"moved", "none", "swallowed"}
    /\ MaxMishaps \in Nat /\ MaxSetbacks \in Nat /\ MaxDrags \in Nat

VARIABLES
    owned,     \* stories with an assigned agent
    refs,      \* what a node's database says of the board
    saved,     \* status, owned and refs of the leader in the file, while a section has not saved
    lead,      \* the node whose manager runs checks
    todo,      \* stories that the step has not come to
    made,      \* stories for which the step has created issues
    seen,      \* the column that the step has read
    held,      \* the call that a command waits for
    job,       \* the assignment whose calls are queued
    late,      \* subtasks being created for a section that has ended
    flying,    \* transitions that nobody waits for
    connector, \* the tokens of the manager's cached client
    setbacks, drags  \* so far

local  == <<status, owned, refs, saved>>
jira   == <<cards, epics, subs>>
pass   == <<at, todo, made, seen>>
calls  == <<held, job, late, flying>>
counts == <<mishaps, cuts, setbacks, drags>>
vars   == <<local, lead, jira, pass, calls, connector, counts>>

Reference == [epic : Nat, key : [Story -> Nat], sub : SUBSET Story, sprint : SUBSET Story]
Nothing   == [epic |-> 0, key |-> [s \in Story |-> 0], sub |-> {}, sprint |-> {}]
Init ==
    /\ status = [s \in Story |-> Absent] /\ owned = {} /\ refs = [n \in Node |-> Nothing]
    /\ saved = {} /\ lead = CHOOSE n \in Node : TRUE
    /\ cards = [s \in Story |-> <<>>] /\ epics = 0 /\ subs = [s \in Story |-> 0]
    /\ at = "rest" /\ todo = {} /\ made = {} /\ seen = None
    /\ held = {} /\ job = {} /\ late = {} /\ flying = {} /\ connector = None
    /\ mishaps = 0 /\ cuts = 0 /\ setbacks = 0 /\ drags = 0

mine  == refs[lead]
Tables == [status |-> status, owned |-> owned, ref |-> mine]
Card(s) == cards[s][mine.key[s]]
\* Nobody holds the lock.
Free  == at = "rest" /\ held = {} /\ job = {}
Mishap  == mishaps < MaxMishaps /\ mishaps' = mishaps + 1
Setback == setbacks < MaxSetbacks /\ setbacks' = setbacks + 1

(***************************************************************************)
(* JiraClient.request(): a call is made or not, and the caller learns that *)
(* it was made or not.  Retries after 401 and 429 are part of the call.    *)
(***************************************************************************)
Answers == {"ok", "refused", "lost"}
Made(answer) == answer # "refused"
Answered(answer) == IF answer = "ok" THEN UNCHANGED mishaps ELSE Mishap

isStatusRegression(old, new)  == Place[new] < Place[old]
isForwardTransition(old, new) == Order[new] >= Order[old]
\* reverseStatusMapping()
Columns(st) == {c \in Column : Means[c] = st}
\* transitionJiraIssue(): the n-th issue of s moves to a column that stands for st, if there is one.
AnswersTo(st) == IF Columns(st) = {} THEN {"ok"} ELSE Answers
Transition(s, n, st, answer) ==
    IF Columns(st) = {} \/ ~Made(answer) THEN UNCHANGED cards
    ELSE \E c \in Columns(st) : cards' = [cards EXCEPT ![s][n].col = c]
NewIssue(epic) == [col |-> Entry, epic |-> epic, sprint |-> FALSE]

(***************************************************************************)
(* The check of the manager: syncFromJira().  A step reads its stories     *)
(* when it begins, and goes through them in the order of their ids.        *)
(***************************************************************************)
NextOf(S) == CHOOSE s \in S : TRUE
Unsynced == {s \in Story : mine.key[s] = 0 /\ status[s] \notin {Absent, "draft"}}
\* (mutant) only the stories that are being written.
MissingInProgress ==
    {s \in owned : mine.key[s] # 0 /\ s \notin mine.sub /\ status[s] = "in_progress"}
MissingSubtasks ==
    {s \in owned : mine.key[s] # 0 /\ s \notin mine.sub /\ status[s] # "merged"}
NotInSprint == {s \in Story : mine.key[s] # 0 /\ s \notin mine.sprint /\ status[s] # "merged"}
Linked  == {s \in Story : mine.key[s] # 0 /\ status[s] # "merged"}

\* A step begins with its stories; a retried move to the sprint is one call for all of them.
Enter(step, S) == at' = step /\ todo' = S /\ seen' = None
BeginSync ==
    /\ Free /\ saved' = {Tables}
    /\ Enter("issues", Unsynced) /\ made' = {}
    /\ UNCHANGED <<status, owned, refs, lead, jira, calls, connector, counts>>

\* syncRequirementToJira(): the epic is reused, or created once for all stories of the step.
CreateEpic ==
    /\ at = "issues" /\ todo # {} /\ mine.epic = 0 /\ seen = None
    /\ \E answer \in Answers :
          /\ Answered(answer)
          /\ epics' = IF Made(answer) THEN epics + 1 ELSE epics
          /\ refs' = IF answer = "ok" THEN [refs EXCEPT ![lead].epic = epics + 1] ELSE refs
    /\ seen' = "epic"
    /\ UNCHANGED <<status, owned, saved, lead, cards, subs, at, todo, made, calls, connector,
                   cuts, setbacks, drags>>
\* The guard against an issue that exists reads the story again.
CreateIssue ==
    /\ at = "issues" /\ todo # {} /\ (mine.epic # 0 \/ seen = "epic")
    /\ LET s == NextOf(todo)
       IN  /\ todo' = todo \ {s}
           /\ \E answer \in Answers :
                 /\ Answered(answer)
                 /\ cards' = IF Made(answer) THEN [cards EXCEPT ![s] = Append(@, NewIssue(mine.epic))]
                             ELSE cards
                 /\ refs' = IF answer = "ok" THEN [refs EXCEPT ![lead].key[s] = Len(cards[s]) + 1]
                            ELSE refs
                 /\ made' = IF answer = "ok" THEN made \cup {s} ELSE made
    /\ UNCHANGED <<status, owned, saved, lead, epics, subs, at, seen, calls, connector,
                   cuts, setbacks, drags>>

\* tryMoveToActiveSprint(): the fallback of moveIssuesToSprint() passes over issues that it cannot move.
InSprint(S, how) ==
    /\ refs' = IF how = "none" THEN refs ELSE [refs EXCEPT ![lead].sprint = @ \cup S]
    /\ cards' = IF how # "moved" THEN cards
                ELSE [s \in Story |-> IF s \notin S THEN cards[s]
                                      ELSE [cards[s] EXCEPT ![mine.key[s]].sprint = TRUE]]
MoveToSprint ==
    /\ at = "issues" /\ todo = {}
    /\ IF made = {} THEN UNCHANGED <<refs, cards>> ELSE \E how \in Sprints : InSprint(made, how)
    /\ Enter("repair", MissingSubtasks) /\ made' = {}
    /\ UNCHANGED <<status, owned, saved, lead, epics, subs, calls, connector, counts>>

\* repairMissedAssignmentHooks(): a subtask, and the transition that the assignment may have missed.
Repair ==
    /\ at = "repair" /\ todo # {}
    /\ LET s == NextOf(todo)
       IN  /\ todo' = todo \ {s}
           /\ \E answer \in Answers, then \in AnswersTo(status[s]) :
                 /\ IF answer = "ok" THEN Answered(then) ELSE then = "ok" /\ Mishap
                 /\ subs' = IF Made(answer) THEN [subs EXCEPT ![s] = @ + 1] ELSE subs
                 /\ refs' = IF answer = "ok" THEN [refs EXCEPT ![lead].sub = @ \cup {s}] ELSE refs
                 /\ IF status[s] = "planned" THEN then = "ok" /\ UNCHANGED cards
                                             ELSE Transition(s, mine.key[s], status[s], then)
    /\ UNCHANGED <<status, owned, saved, lead, epics, at, made, seen, calls, connector,
                   cuts, setbacks, drags>>
EndRepair ==
    /\ at = "repair" /\ todo = {}
    /\ IF NotInSprint = {} THEN UNCHANGED <<refs, cards>>
                           ELSE \E how \in Sprints : InSprint(NotInSprint, how)
    /\ Enter("pull", Linked)
    /\ UNCHANGED <<status, owned, saved, lead, epics, subs, made, calls, connector, counts>>

\* (mutant) the second order is taken to suffice.
PulledForward(old, new) == IF isForwardTransition(old, new) THEN new ELSE old
\* syncJiraStatusesToHive(): a status goes forward in both orders.
Pulled(old, new) ==
    IF ~isStatusRegression(old, new) /\ isForwardTransition(old, new) THEN new ELSE old
Pull ==
    /\ at = "pull" /\ todo # {}
    /\ LET s == NextOf(todo)
       IN  /\ todo' = todo \ {s}
           /\ \/ status' = [status EXCEPT ![s] = Pulled(status[s], Means[Card(s).col])] /\ UNCHANGED mishaps
              \/ Mishap /\ UNCHANGED status
    /\ UNCHANGED <<owned, refs, saved, lead, jira, at, made, seen, calls, connector,
                   cuts, setbacks, drags>>
EndPull ==
    /\ at = "pull" /\ todo = {} /\ Enter("push", Linked)
    /\ UNCHANGED <<local, lead, jira, made, calls, connector, counts>>

\* (mutant) the two are swapped.
BehindSwapped(s, col) == Means[col] # status[s] /\ isForwardTransition(status[s], Means[col])
\* syncHiveStatusesToJira(): what a column says is read in one call and overwritten in another.
Behind(s, col) == Means[col] # status[s] /\ isForwardTransition(Means[col], status[s])
Look ==
    /\ at = "push" /\ todo # {} /\ seen = None
    /\ LET s == NextOf(todo)
       IN  \/ Behind(s, Card(s).col) /\ seen' = Card(s).col /\ UNCHANGED <<todo, mishaps>>
           \/ ~Behind(s, Card(s).col) /\ todo' = todo \ {s} /\ UNCHANGED <<seen, mishaps>>
           \/ Mishap /\ todo' = todo \ {s} /\ UNCHANGED seen
    /\ UNCHANGED <<local, lead, jira, at, made, calls, connector, cuts, setbacks, drags>>
Push ==
    /\ at = "push" /\ seen # None
    /\ LET s == NextOf(todo)
       IN  /\ todo' = todo \ {s} /\ seen' = None
           /\ \E answer \in Answers :
                 Answered(answer) /\ Transition(s, mine.key[s], status[s], answer)
    /\ UNCHANGED <<local, lead, epics, subs, at, made, calls, connector, cuts, setbacks, drags>>
EndSync ==
    /\ at = "push" /\ todo = {} /\ Enter("rest", {}) /\ saved' = {}
    /\ UNCHANGED <<status, owned, refs, lead, jira, made, calls, connector, counts>>
Sync == \/ BeginSync \/ CreateEpic \/ CreateIssue \/ MoveToSprint \/ Repair \/ EndRepair
        \/ Pull \/ EndPull \/ Look \/ Push \/ EndSync

(***************************************************************************)
(* An assignment and the calls it queues: a subtask, then the transition.  *)
(* After some assignments the section waits for the queue (flushJiraQueue) *)
(* and after the others it ends, and the calls find the database closed.   *)
(***************************************************************************)
Assign ==
    /\ Free
    /\ \E s \in Story, waits \in BOOLEAN :
          /\ status[s] = "planned"
          /\ status' = [status EXCEPT ![s] = "in_progress"] /\ owned' = owned \cup {s}
          /\ job' = {[story |-> s, op |-> "subtask", waits |-> waits]}
    /\ UNCHANGED <<refs, saved, lead, jira, pass, held, late, flying, connector, counts>>

\* The registered connector keeps its client.
getConnector == IF connector = None THEN "good" ELSE connector

\* (mutant) a subtask that exists is not looked for.
SubtaskUnguarded ==
    /\ \E j \in job :
          /\ j.op = "subtask"
          /\ IF mine.key[j.story] = 0
             THEN job' = {[j EXCEPT !.op = "move"]} /\ UNCHANGED connector
             ELSE /\ job' = {[j EXCEPT !.op = "creating"]}
                  /\ connector' = getConnector
    /\ UNCHANGED <<local, lead, jira, pass, held, late, flying, counts>>
\* handleJiraAfterAssignment(): the story is read again, the cached client asked.
handleJiraAfterAssignment ==
    /\ \E j \in job :
          /\ j.op = "subtask"
          /\ IF mine.key[j.story] = 0 \/ j.story \in mine.sub
             THEN job' = {[j EXCEPT !.op = "move"]} /\ UNCHANGED connector
             ELSE /\ job' = {[j EXCEPT !.op = "creating"]}
                  /\ connector' = getConnector
    /\ UNCHANGED <<local, lead, jira, pass, held, late, flying, counts>>
SubtaskAnswer ==
    /\ \E j \in job, answer \in IF connector = "spent" THEN {"refused"} ELSE Answers :
          /\ j.op = "creating" /\ job' = {[j EXCEPT !.op = "move"]}
          /\ IF connector = "spent" THEN UNCHANGED mishaps ELSE Answered(answer)
          /\ subs' = IF Made(answer) THEN [subs EXCEPT ![j.story] = @ + 1] ELSE subs
          /\ refs' = IF answer = "ok" THEN [refs EXCEPT ![lead].sub = @ \cup {j.story}] ELSE refs
    /\ UNCHANGED <<status, owned, saved, lead, cards, epics, pass, held, late, flying, connector,
                   cuts, setbacks, drags>>
AssignmentShown ==
    /\ job' = {}
    /\ \E j \in job :
          /\ j.op = "move"
          /\ IF mine.key[j.story] = 0 THEN UNCHANGED <<cards, mishaps>>
             ELSE \E answer \in AnswersTo("in_progress") :
                     Answered(answer) /\ Transition(j.story, mine.key[j.story], "in_progress", answer)
    /\ UNCHANGED <<local, lead, epics, subs, pass, held, late, flying, connector, cuts, setbacks, drags>>
\* The section ends before its queue: withHiveContext() closes the database.
EndEarly ==
    /\ job' = {}
    /\ \E j \in job : /\ ~j.waits
                      /\ late' = IF j.op = "creating" THEN late \cup {j.story} ELSE late
    /\ UNCHANGED <<local, lead, jira, pass, held, flying, connector, counts>>
\* The subtask is there, but there is nowhere to write its key to.
LateSubtask ==
    /\ \E s \in late :
          /\ late' = late \ {s}
          /\ \E lands \in BOOLEAN :
                IF lands /\ connector # "spent" THEN subs' = [subs EXCEPT ![s] = @ + 1] /\ cuts' = cuts + 1
                ELSE UNCHANGED <<subs, cuts>>
    /\ UNCHANGED <<local, lead, cards, epics, pass, held, job, flying, connector, mishaps, setbacks, drags>>

(***************************************************************************)
(* Changes of a story elsewhere and the transitions they call for.  Most   *)
(* commands save, then wait for the call; a submission waits for it before *)
(* it saves; the health check and the merge wait for nothing.              *)
(***************************************************************************)
Waited == {<<"estimated", "planned">>, <<"planned", "in_progress">>, <<"in_progress", "review">>,
           <<"in_progress", "pr_submitted">>, <<"review", "pr_submitted">>, <<"qa_failed", "pr_submitted">>,
           <<"pr_submitted", "qa_failed">>, <<"pr_submitted", "merged">>}
Change ==
    /\ Free
    /\ \E s \in Story, to \in {m[2] : m \in Waited} :
          /\ <<status[s], to>> \in Waited
          /\ IF to = "qa_failed" THEN Setback ELSE UNCHANGED setbacks
          /\ status' = [status EXCEPT ![s] = to]
          /\ owned' = IF to = "in_progress" THEN owned \cup {s}
                      ELSE IF to = "merged" THEN owned \ {s} ELSE owned
          /\ saved' = IF to = "pr_submitted" /\ mine.key[s] # 0 THEN {Tables} ELSE {}
          /\ held' = IF mine.key[s] = 0 THEN {} ELSE {[story |-> s, status |-> to]}
    /\ UNCHANGED <<refs, lead, jira, pass, job, late, flying, connector, mishaps, cuts, drags>>
ChangeShown ==
    /\ held' = {} /\ saved' = {}
    /\ \E h \in held : \E answer \in AnswersTo(h.status) :
          Answered(answer) /\ Transition(h.story, mine.key[h.story], h.status, answer)
    /\ UNCHANGED <<status, owned, refs, lead, epics, subs, pass, job, late, flying, connector,
                   cuts, setbacks, drags>>
Unwaited(s, st) ==
    flying' = IF mine.key[s] = 0 THEN flying
              ELSE flying \cup {[story |-> s, issue |-> mine.key[s], status |-> st]}
\* healthCheck() and detectAndRecoverOrphanedStories(), for what they tell Jira.
Recover ==
    /\ Free
    /\ \E s \in Story :
          /\ \/ s \in owned /\ status[s] \notin {"planned", "merged"} /\ Setback
             \/ s \notin owned /\ status[s] = "in_progress" /\ UNCHANGED setbacks
          /\ status' = [status EXCEPT ![s] = "planned"] /\ owned' = owned \ {s}
          /\ Unwaited(s, "planned")
    /\ UNCHANGED <<refs, saved, lead, jira, pass, held, job, late, connector, mishaps, cuts, drags>>
\* What autoMergeApprovedPRs() and syncMergedPRs() tell Jira.
Merge ==
    /\ Free
    /\ \E s \in Story :
          /\ status[s] = "pr_submitted"
          /\ status' = [status EXCEPT ![s] = "merged"] /\ owned' = owned \ {s}
          /\ Unwaited(s, "merged")
    /\ UNCHANGED <<refs, saved, lead, jira, pass, held, job, late, connector, counts>>
\* The call arrives, now or later, or its section has ended before it read the story.
Land ==
    /\ \E f \in flying :
          /\ flying' = flying \ {f}
          /\ \E answer \in {"ok", "refused"} : Transition(f.story, f.issue, f.status, answer)
    /\ UNCHANGED <<local, lead, epics, subs, pass, held, job, late, connector, counts>>

\* hive stories create; the tech lead also writes stories straight into the database.
StoryCreated ==
    /\ Free
    /\ \E s \in Story, st \in {"draft", "estimated"}, answer \in Answers, how \in Sprints \cup {"none"} :
          /\ status[s] = Absent /\ status' = [status EXCEPT ![s] = st] /\ Answered(answer)
          /\ how # "none" => answer = "ok"
          /\ cards' = IF Made(answer)
                      THEN [cards EXCEPT ![s] = <<[NewIssue(mine.epic) EXCEPT !.sprint = how = "moved"]>>]
                      ELSE cards
          /\ refs' = IF answer # "ok" THEN refs
                     ELSE [refs EXCEPT ![lead].key[s] = 1,
                                       ![lead].sprint = IF how = "none" THEN @ ELSE @ \cup {s}]
    /\ UNCHANGED <<owned, saved, lead, epics, subs, pass, calls, connector, cuts, setbacks, drags>>
StoryInserted ==
    /\ Free
    /\ \E s \in Story : status[s] = Absent /\ status' = [status EXCEPT ![s] = "estimated"]
    /\ UNCHANGED <<owned, refs, saved, lead, jira, pass, calls, connector, counts>>

(***************************************************************************)
(* People move cards; tokens are refreshed by another client, which spends *)
(* the refresh token that the cached client holds (token-store.ts,         *)
(* jira-oauth.ts); processes die; another node is elected.                 *)
(***************************************************************************)
Drag ==
    /\ drags < MaxDrags /\ drags' = drags + 1
    /\ \E s \in Story, c \in Column :
          /\ mine.key[s] # 0 /\ Card(s).col # c
          /\ cards' = [cards EXCEPT ![s][mine.key[s]].col = c]
    /\ UNCHANGED <<local, lead, epics, subs, pass, calls, connector, mishaps, cuts, setbacks>>
Refresh ==
    /\ connector = "good" /\ connector' = "spent"
    /\ UNCHANGED <<local, lead, jira, pass, calls, counts>>
Crash ==
    /\ ~Free /\ Mishap
    /\ connector' = IF held # {} THEN connector ELSE None
    /\ IF saved = {} THEN UNCHANGED <<status, owned, refs>>
       ELSE \E t \in saved : /\ status' = t.status /\ owned' = t.owned
                             /\ refs' = [refs EXCEPT ![lead] = t.ref]
    /\ saved' = {} /\ Enter("rest", {}) /\ made' = {} /\ held' = {} /\ job' = {}
    /\ UNCHANGED <<lead, jira, late, flying, cuts, setbacks, drags>>
LeaderMoves ==
    /\ Free /\ Mishap /\ connector' = None
    /\ \E n \in Node \ {lead} : lead' = n
    /\ UNCHANGED <<local, jira, pass, calls, cuts, setbacks, drags>>

Assignment == Assign \/ handleJiraAfterAssignment \/ SubtaskAnswer \/ AssignmentShown \/ EndEarly
LateCalls == LateSubtask \/ ChangeShown \/ Land
Next == \/ Sync \/ Assignment \/ LateCalls \/ Change \/ Recover \/ Merge
        \/ StoryCreated \/ StoryInserted \/ Drag \/ Refresh \/ Crash \/ LeaderMoves
Spec == Init /\ [][Next]_vars

(***************************************************************************)
(* The manager checks again and again: the lock is free in the end, for a  *)
(* call ends with an answer or without.                                    *)
(***************************************************************************)
Fairness == []<><<Sync>>_vars
FairSpec == Spec /\ Fairness

TypeOK ==
    /\ status \in [Story -> Status] /\ owned \subseteq Story
    /\ refs \in [Node -> Reference] /\ lead \in Node
    /\ saved \subseteq [status : [Story -> Status], owned : SUBSET Story, ref : Reference]
    /\ \A s \in Story : /\ \A i \in DOMAIN cards[s] :
                              cards[s][i] \in [col : Column, epic : 0 .. epics, sprint : BOOLEAN]
                        /\ subs[s] \in Nat /\ \A n \in Node : refs[n].key[s] \in 0 .. Len(cards[s])
    /\ at \in {"rest", "issues", "repair", "pull", "push"} /\ todo \subseteq Story /\ made \subseteq Story
    /\ seen \in Column \cup {None, "epic"}
    /\ held \subseteq [story : Story, status : Status]
    /\ job \subseteq [story : Story, op : {"subtask", "creating", "move"}, waits : BOOLEAN]
    /\ late \subseteq Story /\ connector \in {None, "good", "spent"}
    /\ at # "rest" => held = {} /\ job = {}

\* A story that is no draft gets an issue whose key the leader knows.
StoriesReachTheBoard ==
    \A s \in Story : status[s] \notin {Absent, "draft"} ~> mine.key[s] # 0
\* A story that an agent works on gets its subtask.
SubtasksAppear ==
    \A s \in Story : s \in owned /\ mine.key[s] # 0
                     ~> s \notin owned \/ s \in mine.sub \/ status[s] = "merged"
\* In the end a card is in a column of its story's status, where there is one.
OnBoard(s) == mine.key[s] # 0 /\ status[s] \notin {Absent, "merged"}
BoardCatchesUp ==
    <>[](\A s \in Story : OnBoard(s) => Means[Card(s).col] = status[s] \/ Columns(status[s]) = {})

(***************************************************************************)
(* What does not hold.                                                     *)
(***************************************************************************)
\* A push does not move a card back (sync.ts: "never regress Jira backward").
PushGoesForward ==
    [][\A s \in Story : at = "push" /\ seen # None /\ mine.key[s] # 0 /\ cards'[s] # cards[s]
          => isForwardTransition(Means[Card(s).col], Means[cards'[s][mine.key[s]].col])]_vars
\* A story that is in the sprint by the database is there by Jira.
SprintIsTrue == \A s \in mine.sprint : Card(s).sprint
\* A merged story is shown as merged in the end.
LastCardMoves ==
    Columns("merged") # {} =>
        \A s \in Story : status[s] = "merged"
                         ~> (mine.key[s] # 0 => Means[Card(s).col] = "merged")
=============================================================================
