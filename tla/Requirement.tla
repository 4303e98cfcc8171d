----------------------------- MODULE Requirement ------------------------------
(***************************************************************************)
(* A requirement from hive req to its sign-off: the tech lead writes       *)
(* stories, the manager recovers a planning handoff that stalls            *)
(* (handoff-recovery.ts), assignment creates the feature branch            *)
(* (feature-branch.ts), agents land the stories on it, and when all are    *)
(* merged an end-to-end test of the branch decides whether it is merged to *)
(* main (feature-sign-off.ts, feature-test-result.ts).  The tech lead's    *)
(* restart (tech-lead-lifecycle.ts) is a step of the same check.           *)
(*                                                                         *)
(* The manager acts on what it has read under a lock that it has released  *)
(* since: what it has decided is in todo, and everybody else acts between  *)
(* its steps.  e2e_tests is configured.  Waiting times have passed: a      *)
(* check that comes before a threshold or within a cooldown is left out.   *)
(* How a story gets from its assignment to merged is Assignment and        *)
(* MergeQueue; here an assigned story lands.                               *)
(*                                                                         *)
(* What goes wrong is remembered in trouble.                               *)
(***************************************************************************)
EXTENDS Naturals, FiniteSets, SequencesExt

CONSTANTS
    Req,        \* requirements
    Own,        \* those submitted with a target branch of their own
    Story,      \* stories that the tech lead may write
    Of,         \* the requirement of each story
    Team,       \* the team of each requirement
    Recorded,   \* the test agent's result gets into agent_logs (see Report)
    Trouble,    \* what may go wrong
    MaxTrouble  \* bound: how many of these in one behaviour, each once

\* Those that the code has a way back from, and the others.
Passing == {"leadDies", "spawn", "testerDies", "again", "manager"}
Lasting == {"leadLost", "hasty", "races", "restart", "git", "testerLost", "gh", "unrecorded"}
ASSUME RequirementAssumption ==
    /\ IsFiniteSet(Req) /\ IsFiniteSet(Story) /\ Own \subseteq Req /\ Of \in [Story -> Req]
    /\ DOMAIN Team = Req /\ Recorded \in BOOLEAN
    /\ Trouble \subseteq Passing \cup Lasting /\ MaxTrouble \in Nat

VARIABLES
    reqs,     \* status, feature_branch and target_branch of each requirement
    stories,  \* status of each story, and the branch that its assignee works towards
    home,     \* the branch a story's change is on, "feature" also for what it started from
    asked,    \* requirements in the tech lead's prompt that it has not acted on
    lead,     \* the tech lead's session: "down" or "up"
    testers,  \* rows of feature_test agents, with what agent_logs has about them
    sessions, \* what the session of a team's feature test is doing
    tested,   \* stories on the branch of a requirement when its tests last passed (git)
    signed,   \* stories that a requirement had when it was signed off
    shipped,  \* requirements whose branch is merged to main (GitHub)
    at,       \* the step the manager's check is at
    nudged,   \* planningHandoffState: the stories a requirement's nudge was about
    todo,     \* what the step has read and not acted on
    trouble   \* what has gone wrong

tables == <<reqs, stories, testers>>
world  == <<home, asked, lead, sessions, tested, shipped>>
mgr    == <<at, nudged, todo>>
vars   == <<tables, world, signed, mgr, trouble>>

None == "none"
ReqStatuses == {"none", "planning", "planned", "in_progress", "sign_off", "sign_off_passed", "sign_off_failed"}
StoryStatuses == {"none", "estimated", "planned", "in_progress", "merged"}
Results == {"PASSED", "FAILED"}
Teams == {Team[r] : r \in Req}
Tester == [req : Req, named : BOOLEAN, heard : Results \cup {None}, done : BOOLEAN]

Closed == [req |-> None, reported |-> FALSE]
Running(t) == sessions[t] # Closed

Happens(what) ==
    /\ what \subseteq Trouble \ trouble /\ trouble' = trouble \cup what
    /\ Cardinality(trouble') <= MaxTrouble

StoriesOf(r)    == {s \in Story : Of[s] = r /\ stories[s].status # "none"}
InStatus(r, st) == {s \in StoriesOf(r) : stories[s].status = st}
OnBranch(r)     == {s \in Story : Of[s] = r /\ home[s] = "feature"}
ReqStatus(r, st)   == [reqs EXCEPT ![r].status = st]
StoryStatus(S, st) == [s \in Story |-> IF s \in S THEN [stories[s] EXCEPT !.status = st] ELSE stories[s]]

Init ==
    /\ reqs = [r \in Req |-> [status |-> "none", branch |-> FALSE,
                              target |-> IF r \in Own THEN "own" ELSE "main"]]
    /\ stories = [s \in Story |-> [status |-> "none", for |-> None]]
    /\ home = [s \in Story |-> None]
    /\ asked = {} /\ lead = "down" /\ testers = <<>> /\ sessions = [t \in Teams |-> Closed]
    /\ tested = [r \in Req |-> {}] /\ signed = [r \in Req |-> {}] /\ shipped = {}
    /\ at = "handoff" /\ nudged = [r \in Req |-> {}] /\ todo = {} /\ trouble = {}

(***************************************************************************)
(* hive req, and the tech lead.                                            *)
(***************************************************************************)
\* The prompt goes to the session that runs, or to a new one.
Submit(r) ==
    /\ reqs[r].status = "none" /\ reqs' = ReqStatus(r, "planning")
    /\ \/ lead' = "up" /\ asked' = asked \cup {r} /\ UNCHANGED trouble
       \/ lead = "down" /\ Happens({"leadLost"}) /\ UNCHANGED <<lead, asked>>
    /\ UNCHANGED <<stories, testers, home, sessions, tested, shipped, signed, mgr>>
\* hive stories create, once for each story of the plan.
Write(r, S) ==
    /\ lead = "up" /\ r \in asked /\ asked' = asked \ {r}
    /\ S # {} /\ \A s \in S : Of[s] = r /\ stories[s].status = "none"
    /\ stories' = StoryStatus(S, "estimated")
    /\ UNCHANGED <<reqs, testers, home, lead, sessions, tested, shipped, signed, mgr, trouble>>
\* Between the manager's reading of the stories and its promotion of them?
Races(r) == IF \E h \in todo : h.kind = "handoff" /\ h.req = r THEN {"races"} ELSE {}
Hasty(r) == IF reqs[r].status = "planning" THEN {"hasty"} ELSE {}
\* "When done planning, update the requirement status to 'planned'"; "hasty" when the
\* stories are moved before that, as the manager's nudge asks for.
PlanRequirement(r) ==
    /\ lead = "up" /\ reqs[r].status = "planning" /\ StoriesOf(r) # {}
    /\ reqs' = ReqStatus(r, "planned") /\ Happens(Races(r))
    /\ UNCHANGED <<stories, testers, world, signed, mgr>>
PlanStories(r) ==
    /\ lead = "up" /\ InStatus(r, "estimated") # {}
    /\ stories' = StoryStatus(InStatus(r, "estimated"), "planned")
    /\ Happens(Hasty(r) \cup Races(r))
    /\ UNCHANGED <<reqs, testers, world, signed, mgr>>
LeadDies ==
    /\ lead = "up" /\ Happens({IF asked = {} THEN "leadDies" ELSE "leadLost"})
    /\ lead' = "down" /\ asked' = {}
    /\ UNCHANGED <<tables, home, sessions, tested, shipped, signed, mgr>>

(***************************************************************************)
(* assignStories(): first the feature branches of planned requirements     *)
(* with planned stories, each from main; what fails is in_progress without *)
(* one.  Then the stories, towards the target of their requirement.        *)
(***************************************************************************)
Planned(st) == {s \in Story : st[s].status = "planned"}
isEligibleForFeatureBranch(rq, st) ==
    {r \in Req : rq[r].status = "planned" /\ ~rq[r].branch /\ \E s \in Planned(st) : Of[s] = r}
createFeatureBranches(rq, made, failed) ==
    [r \in Req |-> IF r \in made THEN [status |-> "in_progress", branch |-> TRUE, target |-> "feature"]
                   ELSE IF r \in failed THEN [rq[r] EXCEPT !.status = "in_progress"] ELSE rq[r]]
assignStories(rq, st) ==
    \E failed \in SUBSET isEligibleForFeatureBranch(rq, st) :
        LET made == isEligibleForFeatureBranch(rq, st) \ failed
            next == createFeatureBranches(rq, made, failed)
        IN  /\ IF failed = {} THEN UNCHANGED trouble ELSE Happens({"git"})
            /\ reqs' = next
            /\ stories' = [s \in Story |->
                  IF st[s].status = "planned" /\ st[s].for = None
                  THEN [status |-> "in_progress", for |-> IF next[Of[s]].branch THEN "feature" ELSE next[Of[s]].target]
                  ELSE st[s]]
            /\ home' = [s \in Story |-> IF Of[s] \in made /\ home[s] = "main" THEN "feature" ELSE home[s]]
Unassigned == {s \in Planned(stories) : stories[s].for = None}
AssignUnchanged == UNCHANGED <<testers, asked, lead, sessions, tested, shipped, signed>>

Step(from, to) == at = from /\ at' = to
\* autoAssignPlannedStories() in the manager's check, and hive assign.
AutoAssign ==
    /\ Step("assign", "signOff")
    /\ IF Unassigned # {} THEN assignStories(reqs, stories) ELSE UNCHANGED <<reqs, stories, home, trouble>>
    /\ AssignUnchanged /\ UNCHANGED <<nudged, todo>>
Assign ==
    /\ Unassigned # {} /\ assignStories(reqs, stories)
    /\ AssignUnchanged /\ UNCHANGED mgr
\* An assigned story gets merged (see Assignment and MergeQueue).
Lands(s) ==
    /\ stories[s].status \in {"planned", "in_progress"} /\ stories[s].for # None
    /\ stories' = [stories EXCEPT ![s] = [status |-> "merged", for |-> None]]
    /\ home' = [home EXCEPT ![s] = IF @ = "feature" THEN @ ELSE stories[s].for]
    /\ UNCHANGED <<reqs, testers, asked, lead, sessions, tested, shipped, signed, mgr, trouble>>

(***************************************************************************)
(* handleStalledPlanningHandoff()                                          *)
(***************************************************************************)
Stalled(r) ==
    /\ InStatus(r, "estimated") # {}
    /\ InStatus(r, "planned") \cup InStatus(r, "in_progress") = {}
\* Skipped are requirements whose stories changed, or that were nudged, too short a time ago.
HandoffRead(skipped) ==
    /\ Step("handoff", "promote") /\ \A r \in skipped : Stalled(r)
    /\ todo' = {[kind |-> "handoff", req |-> r, S |-> InStatus(r, "estimated")] :
                    r \in {q \in Req \ skipped : Stalled(q)}}
    /\ nudged' = [r \in Req |-> IF Stalled(r) /\ (r \in skipped => nudged[r] = InStatus(r, "estimated"))
                                THEN nudged[r] ELSE {}]
    /\ UNCHANGED <<tables, world, signed, trouble>>
\* The first time the tech lead is nudged, if there is one.
Nudge(h) ==
    /\ at \in {"promote", "promoted"} /\ h \in todo /\ nudged[h.req] # h.S /\ lead = "up"
    /\ nudged' = [nudged EXCEPT ![h.req] = h.S] /\ todo' = todo \ {h}
    /\ UNCHANGED <<tables, world, signed, at, trouble>>
\* promoteEstimatedStoriesToPlanned(): of what was read nothing is read again.
Promote(h) ==
    /\ at \in {"promote", "promoted"} /\ h \in todo
    /\ nudged[h.req] = h.S \/ lead = "down"
    /\ stories' = StoryStatus(h.S, "planned") /\ reqs' = ReqStatus(h.req, "planned")
    /\ at' = "promoted" /\ nudged' = [nudged EXCEPT ![h.req] = {}] /\ todo' = todo \ {h}
    /\ UNCHANGED <<testers, world, signed, trouble>>
\* runAutoAssignmentAfterHandoff(), if anything was promoted.
HandoffEnds ==
    /\ todo = {}
    /\ \/ Step("promote", "lead") /\ UNCHANGED <<reqs, stories, home, trouble>>
       \/ Step("promoted", "lead") /\ assignStories(reqs, stories)
    /\ AssignUnchanged /\ UNCHANGED <<nudged, todo>>

(***************************************************************************)
(* restartStaleTechLead(): a session that waits for input is killed and    *)
(* started again with the newest requirement being planned, or one in      *)
(* progress.                                                               *)
(***************************************************************************)
KeepLead ==
    /\ Step("lead", "assign")
    /\ UNCHANGED <<tables, world, signed, nudged, todo, trouble>>
KillLead ==
    /\ Step("lead", "leadKilled") /\ lead = "up" /\ asked = {} /\ Happens({"restart"})
    /\ lead' = "down"
    /\ UNCHANGED <<tables, home, asked, sessions, tested, shipped, signed, nudged, todo>>
ReqsIn(st) == {r \in Req : reqs[r].status = st}
activeReq == IF ReqsIn("planning") # {} THEN ReqsIn("planning") ELSE ReqsIn("in_progress")
SpawnLead ==
    /\ Step("leadKilled", "assign") /\ lead' = "up"
    /\ IF activeReq = {} THEN asked' = {} ELSE \E r \in activeReq : asked' = {r}
    /\ UNCHANGED <<tables, home, sessions, tested, shipped, signed, nudged, todo, trouble>>

(***************************************************************************)
(* checkFeatureSignOff().  A requirement whose test agent cannot be        *)
(* spawned is in_progress again, with the agent's row left behind; one     *)
(* whose team still has a test session shares that without a prompt.       *)
(***************************************************************************)
\* (mutant) one merged story is enough.
SomeMerged(r) == /\ reqs[r].status = "in_progress" /\ (reqs[r].branch \/ reqs[r].target # "main")
                 /\ InStatus(r, "merged") # {}
AllMerged(r) == /\ reqs[r].status = "in_progress" /\ (reqs[r].branch \/ reqs[r].target # "main")
                /\ StoriesOf(r) # {} /\ InStatus(r, "merged") = StoriesOf(r)
\* (mutant) what failed to start stays in sign_off.
SpawnFailed(r) == ReqStatus(r, "sign_off")
Reverted(r)    == ReqStatus(r, "in_progress")
\* (mutant) a row without what is known of its logs.
NewTesterUnlogged(r, named) == Append(testers, [req |-> r, named |-> named, heard |-> None])
NewTester(r, named) == Append(testers, [req |-> r, named |-> named, heard |-> None, done |-> FALSE])
SignOff(r) ==
    /\ at = "signOff" /\ AllMerged(r) /\ [kind |-> "spawn", req |-> r] \notin todo
    /\ \/ /\ reqs' = ReqStatus(r, "sign_off") /\ testers' = NewTester(r, TRUE)
          /\ sessions' = IF Running(Team[r]) THEN sessions
                         ELSE [sessions EXCEPT ![Team[r]] = [req |-> r, reported |-> FALSE]]
          /\ signed' = [signed EXCEPT ![r] = StoriesOf(r)]
          /\ UNCHANGED <<todo, trouble>>
       \/ /\ Happens({"spawn"}) /\ reqs' = Reverted(r) /\ testers' = NewTester(r, FALSE)
          /\ todo' = todo \cup {[kind |-> "spawn", req |-> r]} /\ UNCHANGED <<sessions, signed>>
    /\ UNCHANGED <<stories, home, asked, lead, tested, shipped, at, nudged>>
SignOffEnds ==
    /\ Step("signOff", "results") /\ \A r \in Req : AllMerged(r) => [kind |-> "spawn", req |-> r] \in todo
    /\ todo' = {} /\ UNCHANGED <<tables, world, signed, nudged, trouble>>

(***************************************************************************)
(* The test agent reports with hive progress, which is recorded for the    *)
(* agent whose row last got the session's name.  With a provider           *)
(* configured, hive progress turns the requirement's id away as an unknown *)
(* story; without, the agent is told to tell the tech lead instead.        *)
(***************************************************************************)
RowsOf(t) == {i \in DOMAIN testers : testers[i].named /\ Team[testers[i].req] = t}
Report(t, result) ==
    /\ Running(t)
    /\ IF sessions[t].reported THEN Happens({"again"}) ELSE UNCHANGED trouble
    /\ sessions' = [sessions EXCEPT ![t].reported = TRUE]
    /\ tested' = IF result = "PASSED" THEN [tested EXCEPT ![sessions[t].req] = OnBranch(sessions[t].req)] ELSE tested
    /\ testers' = IF Recorded THEN [testers EXCEPT ![Max(RowsOf(t))].heard = result] ELSE testers
    /\ UNCHANGED <<reqs, stories, home, asked, lead, shipped, signed, mgr>>
TesterDies(t) ==
    /\ Running(t) /\ Happens({IF sessions[t].reported THEN "testerDies" ELSE "testerLost"})
    /\ sessions' = [sessions EXCEPT ![t] = Closed]
    /\ UNCHANGED <<tables, home, asked, lead, tested, shipped, signed, mgr>>

(***************************************************************************)
(* checkFeatureTestResult(), handleTestSuccess() and handleTestFailure()   *)
(***************************************************************************)
Candidate(i) ==
    LET row == testers[i]
    IN  row.named /\ row.heard # None /\ ~row.done /\ reqs[row.req].status = "sign_off" /\ reqs[row.req].branch
ResultsRead ==
    /\ Step("results", "act")
    /\ todo' = {[kind |-> testers[i].heard, row |-> i] : i \in {j \in DOMAIN testers : Candidate(j)}}
    /\ UNCHANGED <<tables, world, signed, nudged, trouble>>
InFlight == \E c \in todo : c.kind \in {"merged", "error"}
ToMerge(c) == c.kind = "PASSED"
\* gh pr create and gh pr merge, without the lock; there is nothing to create where the
\* branch is on main already, and either call may fail or seem to.
Merge(c) ==
    LET r == testers[c.row].req
        to(kind) == todo' = (todo \ {c}) \cup {[c EXCEPT !.kind = kind]}
    IN  /\ at = "act" /\ c \in todo /\ ToMerge(c) /\ ~InFlight
        /\ \/ r \notin shipped /\ shipped' = shipped \cup {r} /\ to("merged") /\ UNCHANGED trouble
           \/ r \in shipped /\ to("error") /\ UNCHANGED <<shipped, trouble>>
           \/ r \notin shipped /\ Happens({"gh"}) /\ shipped' \in {shipped, shipped \cup {r}} /\ to("error")
        /\ UNCHANGED <<tables, home, asked, lead, sessions, tested, signed, at, nudged>>
\* (mutant) an error is recorded as a success.
VerdictOrPassed(kind) == IF kind = "FAILED" THEN "sign_off_failed" ELSE "sign_off_passed"
Verdict(kind) == CASE kind = "merged" -> "sign_off_passed"
                   [] kind = "error"  -> "sign_off"
                   [] OTHER           -> "sign_off_failed"
Record(c) ==
    /\ at = "act" /\ c \in todo /\ ~ToMerge(c) /\ (c.kind = "FAILED" => ~InFlight)
    /\ reqs' = ReqStatus(testers[c.row].req, Verdict(c.kind))
    /\ testers' = [testers EXCEPT ![c.row].done = TRUE]
    /\ todo' = todo \ {c}
    /\ UNCHANGED <<stories, world, signed, at, nudged, trouble>>
CheckEnds ==
    /\ Step("act", "handoff") /\ todo = {}
    /\ UNCHANGED <<tables, world, signed, nudged, todo, trouble>>

\* The manager dies, and with it planningHandoffState; the next one starts over.
ManagerDies ==
    /\ at # "handoff" /\ at' = "handoff"
    /\ Happens({IF \E c \in todo : c.kind = "merged" THEN "unrecorded" ELSE "manager"})
    /\ todo' = {} /\ nudged' = [r \in Req |-> {}]
    /\ UNCHANGED <<tables, world, signed>>

Check ==
    \/ AutoAssign \/ HandoffEnds \/ KeepLead \/ KillLead \/ SpawnLead
    \/ SignOffEnds \/ ResultsRead \/ CheckEnds
    \/ \E skipped \in SUBSET Req : HandoffRead(skipped)
    \/ \E r \in Req : SignOff(r)
    \/ \E h \in todo : Nudge(h) \/ Promote(h) \/ Merge(h) \/ Record(h)
Lead == \/ LeadDies
        \/ \E r \in Req : Submit(r) \/ PlanRequirement(r) \/ PlanStories(r) \/ \E S \in SUBSET Story : Write(r, S)
Next ==
    \/ Check \/ ManagerDies \/ Assign \/ Lead
    \/ \E s \in Story : Lands(s)
    \/ \E t \in Teams : TesterDies(t) \/ \E result \in Results : Report(t, result)
Spec == Init /\ [][Next]_vars

\* The manager's loop goes on (some step of it is enabled in every state) and its waiting
\* times pass, the tech lead writes stories for what it is asked, agents land what they are
\* assigned, and a test session reports once.
ReportFirst(t) == Running(t) /\ ~sessions[t].reported /\ \E result \in Results : Report(t, result)
Fairness ==
    /\ []<><<Check>>_vars /\ SF_vars(HandoffRead({}))
    /\ \A r \in Req : WF_vars(\E S \in SUBSET Story : Write(r, S))
    /\ \A s \in Story : WF_vars(Lands(s))
    /\ \A t \in Teams : WF_vars(ReportFirst(t))
FairSpec == Spec /\ Fairness

-----------------------------------------------------------------------------
\* Every variable has its type; in particular rows and results name requirements that exist.
TypeOK ==
    /\ reqs \in [Req -> [status : ReqStatuses, branch : BOOLEAN, target : {"main", "own", "feature"}]]
    /\ stories \in [Story -> [status : StoryStatuses, for : {None, "main", "own", "feature"}]]
    /\ home \in [Story -> {None, "main", "own", "feature"}]
    /\ asked \subseteq Req /\ lead \in {"down", "up"} /\ testers \in Seq(Tester)
    /\ sessions \in [Teams -> [req : Req \cup {None}, reported : BOOLEAN]]
    /\ tested \in [Req -> SUBSET Story] /\ signed \in [Req -> SUBSET Story] /\ shipped \subseteq Req
    /\ nudged \in [Req -> SUBSET Story] /\ trouble \subseteq Trouble

\* A requirement that started without a branch, and got one when the tech lead, restarted,
\* wrote more stories for it: it is signed off a second time.
Repeated == {"git", "restart"} \subseteq trouble

\* A branch gets to main only after its end-to-end tests have passed on all the stories that
\* the requirement was signed off with: feature-sign-off.ts decides that they are all there,
\* an agent tests, and feature-test-result.ts merges, each without looking at the other again.
ShippedWasTested ==
    trouble \cap {"hasty", "races"} = {} /\ ~Repeated =>
        \A r \in shipped : tested[r] # {} /\ signed[r] \subseteq tested[r]

\* What the tables call passed is on main, and what they call failed is not, whatever the
\* calls to gh between the two locks of handleTestSuccess() did (a merge that was not recorded
\* can be called failed when the agent tests again and does not get the result it got).
VerdictIsTrue ==
    \A r \in Req : /\ reqs[r].status = "sign_off_passed" => r \in shipped
                   /\ reqs[r].status = "sign_off_failed" =>
                          r \notin shipped \/ "again" \in trouble \/ Repeated

\* A requirement that is submitted gets a verdict, also when the tech lead does nothing but
\* write stories, when it dies after that, when a test agent cannot be started or reports
\* again, as long as nothing goes wrong that the code has no way back from.
Judged(r) == reqs[r].status \in {"sign_off_passed", "sign_off_failed"}
GetsVerdict ==
    \A r \in Req : reqs[r].status # "none" ~> (Judged(r) \/ trouble \cap Lasting # {})
\* (violated, with Recorded FALSE) Requirement transitions to sign_off_passed or
\* sign_off_failed, README.md:152.
LeavesSignOff == \A r \in Req : reqs[r].status = "sign_off" ~> Judged(r)
=============================================================================
