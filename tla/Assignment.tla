----------------------------- MODULE Assignment ------------------------------
(***************************************************************************)
(* Who works on which story: the scheduler's assignment, scaling and       *)
(* health check (scheduler.ts), the recovery of orphaned stories           *)
(* (orphan-recovery.ts), the commands with which agents claim stories, and *)
(* the manager's steps that let go of agents whose stories are merged      *)
(* (reconcile, spin-down).  Both tables point at each other: a story has   *)
(* an assigned agent, an agent has a current story.                        *)
(*                                                                         *)
(* A section of code under the lock is one action (see HiveContext).       *)
(* Spin-down releases the lock while it kills sessions, so that it is      *)
(* three actions, and agents and other commands act in between.  What the  *)
(* merge queue does to a story (see MergeQueue) appears here as what it    *)
(* leaves in the two tables.                                               *)
(*                                                                         *)
(* One team.  A helper is a junior or an intermediate: they differ in the  *)
(* complexity they take.  Rows of terminated agents that nothing refers to *)
(* are used again.                                                         *)
(***************************************************************************)
EXTENDS Naturals, FiniteSets, SequencesExt

CONSTANTS
    Story,       \* stories of the team, planned when the model starts
    Deps,        \* the stories that a story depends on
    Simple,      \* stories of a complexity that a helper takes
    PerSenior,   \* senior_capacity, in stories
    Failures,    \* how spawning may fail: "none" before the agent's row exists, "phantom" after
    MaxAgents,   \* bound: rows of agents
    MaxDeaths,   \* bound: sessions that die
    MaxMishaps,  \* bound: failed spawns, deaths of the manager
    MaxVerdicts, \* bound: rejections
    MaxClaims    \* bound: claims

ASSUME AssignmentAssumption ==
    /\ IsFiniteSet(Story) /\ "none" \notin Story  \* None
    /\ Deps \in [Story -> SUBSET Story] /\ Simple \subseteq Story
    /\ PerSenior \in Nat \ {0} /\ Failures \subseteq {"none", "phantom"}
    /\ MaxAgents \in Nat /\ MaxDeaths \in Nat /\ MaxMishaps \in Nat
    /\ MaxVerdicts \in Nat /\ MaxClaims \in Nat

VARIABLES
    stories,   \* status and assigned_agent_id of each story
    agents,    \* type, status, current_story_id and tmux session of each agent
    landed,    \* stories whose change is on the base branch (GitHub)
    at,        \* the step the manager's check is at
    todo,      \* agents that spin-down has decided on, with the merged story
    deaths, mishaps, verdicts, claims  \* so far

tables == <<stories, agents>>
mgr    == <<at, todo>>
counts == <<deaths, mishaps, verdicts, claims>>
vars   == <<tables, landed, mgr, counts>>

Agent  == 1 .. MaxAgents
Nobody == 0
None   == "none"
Statuses == {"planned", "in_progress", "pr_submitted", "qa_failed", "merged"}
StoryRow == [status : Statuses, by : Agent \cup {Nobody}]
AgentRow == [type : {"senior", "helper"}, status : {"idle", "working", "terminated"},
             current : Story \cup {None}, session : {None, "up", "dead"}]

\* The row of an agent whose worktree or session could not be made: createWorktree() threw.
Phantom(type) == [type |-> type, status |-> "idle", current |-> None, session |-> None]
\* (mutant) a status that the schema does not know.
SpawnedStarting(type, session) ==
    [type |-> type, status |-> "starting", current |-> None, session |-> session]
Spawned(type, session) == [type |-> type, status |-> "idle", current |-> None, session |-> session]
Terminated(row) == [row EXCEPT !.status = "terminated", !.current = None, !.session = None]
Planned(S, st)  == [s \in Story |-> IF s \in S THEN [status |-> "planned", by |-> Nobody] ELSE st[s]]
Alive(ag)       == {a \in Agent : ag[a].status # "terminated"}

Init ==
    /\ stories = [s \in Story |-> [status |-> "planned", by |-> Nobody]]
    /\ agents = [a \in Agent |-> Terminated(Spawned("senior", None))]
    /\ landed = {} /\ at = "rest" /\ todo = {}
    /\ deaths = 0 /\ mishaps = 0 /\ verdicts = 0 /\ claims = 0

(***************************************************************************)
(* spawnAgent() in the course of an assignment x, whose failure how is. A  *)
(* failure after createAgent() leaves an idle row without a session.       *)
(***************************************************************************)
Unused(st, ag) == {a \in Agent : /\ ag[a].status = "terminated"
                                 /\ \A s \in Story : st[s].by # a
                                 /\ \A t \in todo : t.agent # a}
Spawn(x, type, how) ==
    IF how = "none" THEN [x EXCEPT !.got = Nobody]
    ELSE IF Unused(x.stories, x.agents) = {} THEN [x EXCEPT !.got = Nobody, !.full = TRUE]
    ELSE LET a == Min(Unused(x.stories, x.agents))
         IN  IF how = "phantom"
             THEN [x EXCEPT !.got = Nobody, !.agents[a] = Phantom(type)]
             ELSE [x EXCEPT !.got = a, !.agents[a] = Spawned(type, "up"), !.idle = @ \cup {a}]

\* getOrSpawnSenior(); idle is the function's own list of agents.
OfType(x, type) == {a \in x.idle : x.agents[a].type = type}
getOrSpawnSenior(x, how) ==
    IF OfType(x, "senior") # {} THEN [x EXCEPT !.got = Min(OfType(x, "senior"))]
                                ELSE Spawn(x, "senior", how)
Workload(x, a) ==
    Cardinality({s \in Story : x.stories[s].by = a /\ x.stories[s].status \in {"in_progress", "qa_failed"}})
selectAgentWithLeastWorkload(x, A) ==
    CHOOSE a \in A : \A b \in A : Workload(x, a) < Workload(x, b) \/ (Workload(x, a) = Workload(x, b) /\ a <= b)
getOrSpawnHelper(x, how) ==
    IF OfType(x, "helper") # {}
    THEN [x EXCEPT !.got = selectAgentWithLeastWorkload(x, OfType(x, "helper"))]
    ELSE LET y == Spawn(x, "helper", how)
         IN  IF y.got # Nobody THEN y ELSE getOrSpawnSenior(y, "no")

Blockers == UNION {Deps[s] : s \in Story}
areDependenciesSatisfied(st, s) == \A d \in Deps[s] : st[d].status = "merged"

\* (mutant) the order of the stories is taken to suffice.
AssignInOrder(x, s) ==
    LET y == getOrSpawnSenior(x, IF x.bad = s THEN x.how ELSE "no")
    IN  IF x.stories[s].by # Nobody \/ y.got = Nobody THEN x
        ELSE [y EXCEPT !.stories[s] = [status |-> "in_progress", by |-> y.got],
                       !.agents[y.got].status = "working", !.agents[y.got].current = s,
                       !.idle = @ \ {y.got}]
\* One round of the loop of assignStories().
AssignOne(x, s) ==
    LET how == IF x.bad = s THEN x.how ELSE "no"
        y   == IF s \in Simple \ Blockers THEN getOrSpawnHelper(x, how) ELSE getOrSpawnSenior(x, how)
    IN  IF x.stories[s].by # Nobody \/ ~areDependenciesSatisfied(x.stories, s) THEN x
        ELSE IF y.got = Nobody THEN y
        ELSE [y EXCEPT !.stories[s] = [status |-> "in_progress", by |-> y.got],
                       !.agents[y.got].status = "working", !.agents[y.got].current = s,
                       !.idle = @ \ {y.got}]

\* topologicalSort(), null when there is no such order, and the loop's own order: what others
\* depend on comes first.
PlannedIn(st) == {s \in Story : st[s].status = "planned"}
TopologicalOrders(S) ==
    {o \in SetToSeqs(S) : \A i, j \in DOMAIN o : o[i] \in Deps[o[j]] => i < j}
BlockersFirst(o) == \A i, j \in DOMAIN o : o[i] \in Blockers /\ o[j] \notin Blockers => i < j
Orders(S) == {o \in TopologicalOrders(S) : BlockersFirst(o)}

Start(st, ag, bad, how) ==
    [stories |-> st, agents |-> ag, idle |-> {a \in Agent : ag[a].status = "idle"},
     got |-> Nobody, full |-> FALSE, bad |-> bad, how |-> how]
Assigned(x, order) ==
    LET y == getOrSpawnSenior(x, IF x.bad = None THEN x.how ELSE "no")
    IN  IF y.got = Nobody THEN y ELSE FoldLeft(AssignOne, y, order)

\* Tables after assignStories(); at most one spawn fails, that for bad or the first senior's.
assignStories(st, ag) ==
    IF PlannedIn(st) = {} \/ Orders(PlannedIn(st)) = {}
    THEN stories' = st /\ agents' = ag /\ UNCHANGED mishaps
    ELSE \E order \in Orders(PlannedIn(st)), bad \in PlannedIn(st) \cup {None},
            how \in Failures \cup {"no"} :
            LET x == Assigned(Start(st, ag, bad, how), order)
            IN  /\ ~x.full
                /\ stories' = x.stories /\ agents' = x.agents
                /\ IF how = "no" THEN bad = None /\ UNCHANGED mishaps
                                 ELSE mishaps < MaxMishaps /\ mishaps' = mishaps + 1

\* checkScaling().  Fewer are spawned when an index is taken or a spawn fails.
Missing(st, ag) ==
    LET work    == {s \in PlannedIn(st) : areDependenciesSatisfied(st, s)}
        seniors == {a \in Alive(ag) : ag[a].type = "senior"}
        needed  == (Cardinality(work) + PerSenior - 1) \div PerSenior
    IN  IF needed > Cardinality(seniors) THEN needed - Cardinality(seniors) ELSE 0
Scaled(ag, A) == [a \in Agent |-> IF a \in A THEN Spawned("senior", "up") ELSE ag[a]]
scaleAndAssign ==
    \E A \in SUBSET Unused(stories, agents) :
        /\ Cardinality(A) <= Missing(stories, agents)
        /\ \A a \in A, b \in Unused(stories, agents) \ A : a < b
        /\ assignStories(stories, Scaled(agents, A))

(***************************************************************************)
(* healthCheck() and detectAndRecoverOrphanedStories().  An agent without  *)
(* a recorded session is passed over.                                      *)
(***************************************************************************)
DeadAgents == {a \in Alive(agents) : agents[a].session = "dead"}
Buried(ag) == [a \in Agent |-> IF a \in DeadAgents THEN Terminated(ag[a]) ELSE ag[a]]
Revived    == {agents[a].current : a \in DeadAgents} \ {None}
\* (mutant) only stories in progress are looked at.
OrphansInProgress(st, ag) ==
    {s \in Story : /\ st[s].status = "in_progress"
                   /\ \/ st[s].by = Nobody
                      \/ ag[st[s].by].status # "working" \/ ag[st[s].by].current # s}
getStoriesWithOrphanedAssignments(st, ag) ==
    {s \in Story : st[s].by # Nobody /\ st[s].by \notin Alive(ag)}
getStaleInProgressStoriesWithoutAssignment(st) ==
    {s \in Story : st[s].status = "in_progress" /\ st[s].by = Nobody}
getInProgressStoriesWithInconsistentAssignments(st, ag) ==
    {s \in Story : /\ st[s].status = "in_progress" /\ st[s].by \in Alive(ag)
                   /\ ag[st[s].by].status # "working" \/ ag[st[s].by].current # s}
Orphans(st, ag) ==
    getStoriesWithOrphanedAssignments(st, ag) \cup getStaleInProgressStoriesWithoutAssignment(st)
        \cup getInProgressStoriesWithInconsistentAssignments(st, ag)

Step(from, to) == at = from /\ at' = to
HealthCheck ==
    LET ag == Buried(agents)
        st == Planned(Revived, stories)
        recovered == Planned(Orphans(st, ag), st)
    IN  /\ Step("rest", "sync")
        /\ IF Revived \cup Orphans(st, ag) # {} THEN assignStories(recovered, ag)
           ELSE stories' = stories /\ agents' = ag /\ UNCHANGED mishaps
        /\ UNCHANGED <<landed, todo, deaths, verdicts, claims>>

(***************************************************************************)
(* syncMergedPRs() and reconcileAgentsOnMergedStories(): agents whose      *)
(* current story is merged go on with another one assigned to them.        *)
(***************************************************************************)
Priority == [in_progress |-> 0, qa_failed |-> 1, pr_submitted |-> 2, planned |-> 3]
NextStories(st, a) ==
    LET own == {s \in Story : st[s].by = a /\ st[s].status # "merged"}
        best == {s \in own : \A t \in own : Priority[st[s].status] <= Priority[st[t].status]}
    IN  IF own = {} THEN {None} ELSE best
SyncMerged ==
    LET synced == {s \in landed : stories[s].status # "merged"}
        st == [s \in Story |-> IF s \in synced THEN [status |-> "merged", by |-> Nobody] ELSE stories[s]]
        stale == {a \in Alive(agents) : agents[a].current # None /\ st[agents[a].current].status = "merged"}
    IN  /\ Step("sync", "assign")
        /\ stories' = st
        /\ \E next \in [stale -> Story \cup {None}] :
              /\ \A a \in stale : next[a] \in NextStories(st, a)
              /\ agents' = [a \in Agent |->
                              IF a \notin stale THEN agents[a]
                              ELSE [agents[a] EXCEPT !.current = next[a],
                                                     !.status = IF next[a] = None THEN "idle" ELSE "working"]]
        /\ UNCHANGED <<landed, todo, counts>>

\* autoAssignPlannedStories()
AutoAssign ==
    /\ Step("assign", "qaFailed")
    /\ IF \E s \in Story : stories[s].by = Nobody /\ stories[s].status \in {"planned", "qa_failed"}
       THEN scaleAndAssign ELSE UNCHANGED <<tables, mishaps>>
    /\ UNCHANGED <<landed, todo, deaths, verdicts, claims>>

\* recoverUnassignedQAFailedStories()
\* (mutant) assigned ones are recovered as well.
AllQAFailed == {s \in Story : stories[s].status = "qa_failed"}
UnassignedQAFailed == {s \in Story : stories[s].by = Nobody /\ stories[s].status = "qa_failed"}
RecoverQAFailed ==
    /\ Step("qaFailed", "merged")
    /\ IF UnassignedQAFailed # {} THEN assignStories(Planned(UnassignedQAFailed, stories), agents)
                                  ELSE UNCHANGED <<tables, mishaps>>
    /\ UNCHANGED <<landed, todo, deaths, verdicts, claims>>

(***************************************************************************)
(* spinDownMergedAgents(): who has nothing but merged stories is sent home.*)
(* What was decided under the lock is not looked at again.                 *)
(***************************************************************************)
Unmerged(a) == {s \in Story : stories[s].by = a /\ stories[s].status # "merged"}
SpinDownRead ==
    LET merged == {s \in Story : stories[s].status = "merged" /\ stories[s].by \in Alive(agents)}
        busy   == {s \in merged : \/ agents[stories[s].by].current \notin {None, s}
                                  \/ Unmerged(stories[s].by) # {}}
        lost   == {a \in Agent : agents[a].status = "working" /\ agents[a].current = None /\ Unmerged(a) = {}}
    IN  /\ Step("merged", "kill")
        /\ stories' = [s \in Story |-> IF s \in busy THEN [stories[s] EXCEPT !.by = Nobody] ELSE stories[s]]
        /\ todo' = {[agent |-> stories[s].by, story |-> s] : s \in merged \ busy}
                       \cup {[agent |-> a, story |-> None] : a \in lost}
        /\ UNCHANGED <<agents, landed, counts>>
\* spinDownIdleAgents(): with nothing left in the pipeline, everybody who works is.
IdleRead ==
    /\ Step("idle", "killIdle")
    /\ todo' = IF \E s \in Story : stories[s].status # "merged" THEN {}
               ELSE {[agent |-> a, story |-> None] : a \in {b \in Agent : agents[b].status = "working"}}
    /\ UNCHANGED <<tables, landed, counts>>
Kill(from, to) ==
    /\ Step(from, to)
    /\ agents' = [a \in Agent |-> IF agents[a].session = "up" /\ \E t \in todo : t.agent = a
                                  THEN [agents[a] EXCEPT !.session = "dead"] ELSE agents[a]]
    /\ UNCHANGED <<stories, landed, todo, counts>>
SpinDownKill == Kill("kill", "write")
IdleKill     == Kill("killIdle", "writeIdle")
Write(from, to) ==
    /\ Step(from, to)
    /\ agents' = [a \in Agent |-> IF \E t \in todo : t.agent = a THEN Terminated(agents[a]) ELSE agents[a]]
    /\ stories' = [s \in Story |-> IF \E t \in todo : t.story = s
                                   THEN [stories[s] EXCEPT !.by = Nobody] ELSE stories[s]]
    /\ todo' = {} /\ UNCHANGED <<landed, counts>>
SpinDownWrite == Write("write", "idle")
IdleWrite     == Write("writeIdle", "rest")

\* The manager dies; the next one starts over.
ManagerDies ==
    /\ at # "rest" /\ at' = "rest" /\ todo' = {}
    /\ mishaps < MaxMishaps /\ mishaps' = mishaps + 1
    /\ UNCHANGED <<tables, landed, deaths, verdicts, claims>>

(***************************************************************************)
(* Commands, agents and what the merge queue leaves in the tables.         *)
(***************************************************************************)
Status(s, st) == stories' = [stories EXCEPT ![s].status = st]
Others == UNCHANGED <<mgr, counts>>

\* hive assign
Assign ==
    /\ PlannedIn(stories) # {} /\ scaleAndAssign
    /\ UNCHANGED <<landed, mgr, deaths, verdicts, claims>>
\* my-stories claim: the agent's row is left alone.
Claim(a, s) ==
    /\ claims < MaxClaims /\ claims' = claims + 1
    /\ agents[a].session = "up" /\ stories[s].status = "planned"
    /\ stories[s].by \in {Nobody, a} /\ areDependenciesSatisfied(stories, s)
    /\ stories' = [stories EXCEPT ![s] = [status |-> "in_progress", by |-> a]]
    /\ UNCHANGED <<agents, landed, mgr, deaths, mishaps, verdicts>>

Held(s) == stories[s].by # Nobody /\ agents[stories[s].by].session = "up"
Submit(s) ==
    /\ Held(s) /\ stories[s].status \in {"in_progress", "qa_failed"}
    /\ Status(s, "pr_submitted")
    /\ UNCHANGED <<agents, landed>> /\ Others
\* Of the story's pull requests any may be rejected, also after another one was merged.
Reject(s) ==
    /\ verdicts < MaxVerdicts /\ verdicts' = verdicts + 1
    /\ stories[s].status \in {"pr_submitted", "merged"}
    /\ Status(s, "qa_failed")
    /\ UNCHANGED <<agents, landed, mgr, deaths, mishaps, claims>>
\* pr approve: the assignment stays.
Approve(s) ==
    /\ stories[s].status = "pr_submitted"
    /\ Status(s, "merged") /\ landed' = landed \cup {s}
    /\ UNCHANGED agents /\ Others
\* autoMergeApprovedPRs(): the agent is free, and with a pull request that was merged
\* already the story is, too.
AutoMerge(s) ==
    /\ stories[s].status = "pr_submitted"
    /\ landed' = landed \cup {s}
    /\ \/ stories' = [stories EXCEPT ![s].status = "merged"]
       \/ stories' = [stories EXCEPT ![s] = [status |-> "merged", by |-> Nobody]]
    /\ agents' = [a \in Agent |-> IF a = stories[s].by /\ agents[a].current = s
                                  THEN [agents[a] EXCEPT !.status = "idle", !.current = None]
                                  ELSE agents[a]]
    /\ Others
\* Somebody merges on GitHub.
Lands(s) ==
    /\ stories[s].status = "pr_submitted" /\ landed' = landed \cup {s}
    /\ UNCHANGED tables /\ Others

Dies(a) ==
    /\ agents[a].session = "up" /\ deaths < MaxDeaths /\ deaths' = deaths + 1
    /\ agents' = [agents EXCEPT ![a].session = "dead"]
    /\ UNCHANGED <<stories, landed, mgr, mishaps, verdicts, claims>>

Check == \/ HealthCheck \/ SyncMerged \/ AutoAssign \/ RecoverQAFailed
         \/ SpinDownRead \/ SpinDownKill \/ SpinDownWrite \/ IdleRead \/ IdleKill \/ IdleWrite
Next ==
    \/ Check \/ ManagerDies \/ Assign
    \/ \E s \in Story : Submit(s) \/ Reject(s) \/ Approve(s) \/ AutoMerge(s) \/ Lands(s)
    \/ \E a \in Agent : Dies(a) \/ \E s \in Story : Claim(a, s)
Spec == Init /\ [][Next]_vars

\* The manager's loop goes on (some step of it is enabled in every state, as long as there is
\* room for agents), an agent whose session runs finishes what it is assigned, and what is
\* submitted is merged.
Fairness ==
    /\ []<><<Check>>_vars
    /\ \A s \in Story : WF_vars(Submit(s)) /\ WF_vars(Approve(s) \/ AutoMerge(s))
FairSpec == Spec /\ Fairness

-----------------------------------------------------------------------------
\* Every variable has its type; in particular agents of stories exist.
TypeOK ==
    /\ stories \in [Story -> StoryRow] /\ agents \in [Agent -> AgentRow]
    /\ landed \subseteq Story /\ todo \subseteq [agent : Agent, story : Story \cup {None}]
    /\ deaths \in 0 .. MaxDeaths /\ mishaps \in 0 .. MaxMishaps
    /\ verdicts \in 0 .. MaxVerdicts /\ claims \in 0 .. MaxClaims

\* The two tables agree on who has what: an agent's current story, unless it has landed, is
\* assigned to that agent, so that no two agents have one story as current, and who is idle
\* has none.  Kept by every handler that assigns, recovers, claims, merges or spins down.
CurrentIsAssigned ==
    \A a \in Alive(agents) :
        /\ agents[a].status = "idle" => agents[a].current = None
        /\ \/ agents[a].current = None \/ stories[agents[a].current].by = a
           \/ agents[a].current \in landed

\* Work begins only on top of what has landed: recovery may take a merged story back to
\* planned, but nobody has begun a story one of whose dependencies is not on the base branch
\* (assignStories(), my-stories claim).
BuiltOnLanded ==
    \A s \in Story : stories[s].status # "planned" => Deps[s] \subseteq landed

\* Whatever dies, fails or is taken from whom, every story gets merged and stays so: the
\* health check, orphan recovery, the sync with GitHub and spin-down do not undo one another.
EveryStoryMerges == \A s \in Story : <>[](stories[s].status = "merged")

\* (violated) Health checks sync agent status with tmux sessions, README.md:160.
StatusFollowsSession ==
    \A a \in Agent : (agents[a].status = "working" /\ agents[a].session # "up")
                        ~> (agents[a].status = "terminated" \/ agents[a].session = "up")
\* (violated) Merged is a terminal state, dependency-resolver.ts areDependenciesSatisfied().
MergedIsTerminal ==
    [][\A s \in Story : stories[s].status = "merged" => stories'[s].status = "merged"]_vars
=============================================================================
