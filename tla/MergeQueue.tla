----------------------------- MODULE MergeQueue ------------------------------
(***************************************************************************)
(* Pull requests from the developer's submission to the merge: the         *)
(* commands of pr.ts, the queue of pull-requests.ts, the QA agents that    *)
(* the scheduler keeps for it, and the manager's steps that merge what is  *)
(* approved (auto-merge.ts), bring the queue in line with GitHub           *)
(* (pr-sync-orchestrator.ts), hand out reviews and act on the verdicts     *)
(* (qa-review-handler.ts) and submit finished work (autoProgressDoneStory).*)
(*                                                                         *)
(* A locked section of a command or of the manager is one action: the lock *)
(* is the subject of HiveContext.  The manager releases it around calls to *)
(* GitHub, so that a step of its check is up to three actions, and what an *)
(* earlier one read (todo, seen) may be stale in a later one.  Developers, *)
(* reviewers and GitHub act in between.  The steps run in the order of     *)
(* managerCheck(); those of other components are left out here.            *)
(*                                                                         *)
(* One team with a repository; one branch and pull request per attempt at  *)
(* a story.  Ages (max_age_hours, five minutes in review) are abstracted:  *)
(* a pull request is never too old to import, a review always old enough   *)
(* to be looked at.  All dependencies are under way, so that the queue is  *)
(* in the order of submission.                                             *)
(***************************************************************************)
EXTENDS Naturals, FiniteSets, SequencesExt

CONSTANTS
    Story,        \* stories, in progress when the model starts
    Branch,       \* branches a developer may push a story to
    Sessions,     \* max_agents: QA sessions are numbered from 1
    PerReviewer,  \* pending_per_agent
    Forms,        \* how submit names the GitHub pull request: "number", "url", "none"
    Feedback,     \* whether reviewers comment on GitHub without a verdict
    MaxRows,      \* bound: rows of pull_requests that submit and autoProgress add
    MaxPulls,     \* bound: pull requests on GitHub
    MaxVerdicts,  \* bound: rejections
    MaxMishaps,   \* bound: failures of GitHub, crashes, people closing pull requests
    MaxDeaths     \* bound: reviewers' sessions that die

ASSUME ModelAssumption ==
    /\ IsFiniteSet(Story)
    /\ Sessions \in Nat \ {0} /\ PerReviewer \in Nat \ {0}
    /\ Forms \subseteq {"number", "url", "none"} /\ Feedback \in BOOLEAN
    /\ MaxRows \in Nat /\ MaxPulls \in Nat /\ MaxVerdicts \in Nat /\ MaxMishaps \in Nat /\ MaxDeaths \in Nat

VARIABLES
    story,     \* stories.status
    rows,      \* pull_requests, in the order of created_at
    qaAgents,  \* rows of agents per QA session that are not terminated
    qaUp,      \* the tmux session of a reviewer runs
    duty,      \* pull requests a reviewer was told to look at
    pulls,     \* GitHub's pull requests, by number
    at,        \* the step the manager's check is at
    todo,      \* what its current step has read and not dealt with
    seen,      \* what its current step brought back from GitHub
    idleQA,    \* agentsBySessionName: idle reviewers when sessions were listed
    verdicts,  \* rejections so far
    mishaps,   \* failures so far
    deaths,    \* dead reviewers so far
    approved   \* numbers of pull requests a reviewer approved (history)

queueVars == <<story, rows>>
qaVars    == <<qaAgents, qaUp, duty>>
mgrVars   == <<at, todo, seen, idleQA>>
counts    == <<verdicts, mishaps, deaths>>
vars      == <<queueVars, qaVars, pulls, mgrVars, counts, approved>>

Statuses    == {"in_progress", "review", "pr_submitted", "qa_failed", "merged"}
RowStatuses == {"queued", "reviewing", "approved", "merged", "rejected", "closed"}
Open        == {"queued", "reviewing"}
QA          == 1 .. Sessions
Nobody      == 0
NoNumber    == 0
Row  == [story : Story, branch : Branch, number : 0 .. MaxPulls, status : RowStatuses,
         by : 0 .. Sessions, manual : BOOLEAN]
Pull == [story : Story, branch : Branch, state : {"open", "merged", "closed"},
         auto : BOOLEAN, remarks : BOOLEAN]

\* Those that wait, first submitted first: Turn of them come before one of them.
getPrioritizedMergeQueue(rw) == {i \in DOMAIN rw : rw[i].status = "queued"}
Turn(x, S)        == Cardinality({y \in S : y < x})
With(rw, S)       == {i \in DOMAIN rw : rw[i].status \in S}
Marked(rw, I, st) == [i \in DOMAIN rw |-> IF i \in I THEN [rw[i] EXCEPT !.status = st] ELSE rw[i]]
Moved(S, st)      == [s \in Story |-> IF s \in S THEN st ELSE story[s]]
Numbers(rw, I)    == {rw[i].number : i \in I} \ {NoNumber}
PullIs(n, S)      == n \in DOMAIN pulls /\ pulls[n].state \in S
Closed(N)         == [n \in DOMAIN pulls |-> IF n \in N /\ PullIs(n, {"open"})
                                             THEN [pulls[n] EXCEPT !.state = "closed"] ELSE pulls[n]]
Mishap            == mishaps < MaxMishaps /\ mishaps' = mishaps + 1
Fault(yes)        == IF yes THEN Mishap ELSE UNCHANGED mishaps

Queued(s, b, n) == [story |-> s, branch |-> b, number |-> n, status |-> "queued",
                    by |-> Nobody, manual |-> FALSE]

Init ==
    /\ story = [s \in Story |-> "in_progress"]
    /\ rows = <<>> /\ pulls = <<>>
    /\ qaAgents = [q \in QA |-> 0] /\ qaUp = [q \in QA |-> FALSE] /\ duty = [q \in QA |-> {}]
    /\ at = "rest" /\ todo = {} /\ seen = {} /\ idleQA = {}
    /\ verdicts = 0 /\ mishaps = 0 /\ deaths = 0 /\ approved = {}

(***************************************************************************)
(* scaleQAAgents(): one reviewer per PerReviewer pending stories.  A new   *)
(* one takes the session after the number of those that are active, even   *)
(* if that session runs.  Those to go are any: ids end in a random suffix, *)
(* and isAgentReviewingPR() looks for an agent's id among session names.   *)
(***************************************************************************)
Pending(st, rw) ==
    {s \in Story : \/ st[s] \in {"pr_submitted", "qa_failed"}
                   \/ st[s] # "merged" /\ \E i \in With(rw, Open) : rw[i].story = s}
Needed(st, rw) ==
    Min({(Cardinality(Pending(st, rw)) + PerReviewer - 1) \div PerReviewer, Sessions})
Active == SumFunction(qaAgents)

\* (mutant) every session up to the number needed is started, running or not.
checkMergeQueueFromOne(st, rw) ==
    /\ qaAgents' = [q \in QA |-> qaAgents[q] + (IF q <= Needed(st, rw) THEN 1 ELSE 0)]
    /\ qaUp' = [q \in QA |-> qaUp[q] \/ q <= Needed(st, rw)]
    /\ UNCHANGED duty

checkMergeQueue(st, rw) ==
    LET more == Active + 1 .. Needed(st, rw)
        less == {gone \in [QA -> 0 .. Sessions] :
                    /\ \A q \in QA : gone[q] <= qaAgents[q]
                    /\ SumFunction(gone) + Needed(st, rw) = Active}
    IN  \/ /\ Active <= Needed(st, rw)
           /\ qaAgents' = [q \in QA |-> qaAgents[q] + (IF q \in more THEN 1 ELSE 0)]
           /\ qaUp' = [q \in QA |-> qaUp[q] \/ q \in more]
           /\ UNCHANGED duty
        \/ \E gone \in less :
              /\ Active > Needed(st, rw)
              /\ qaAgents' = [q \in QA |-> qaAgents[q] - gone[q]]
              /\ qaUp' = [q \in QA |-> qaUp[q] /\ gone[q] = 0]
              /\ duty' = [q \in QA |-> IF gone[q] = 0 THEN duty[q] ELSE {}]

(***************************************************************************)
(* GitHub and the developers.  CI lets a pull request with auto-merge in,  *)
(* and somebody merges those that are approved for a manual merge.         *)
(***************************************************************************)
OpenPull(s, b) ==
    /\ Len(pulls) < MaxPulls /\ story[s] # "merged"
    /\ ~\E n \in DOMAIN pulls : pulls[n].state = "open" /\ pulls[n].story = s /\ pulls[n].branch = b
    /\ pulls' = Append(pulls, [story |-> s, branch |-> b, state |-> "open",
                               auto |-> FALSE, remarks |-> FALSE])
    /\ UNCHANGED <<queueVars, qaVars, mgrVars, counts, approved>>

Lands(n) ==
    /\ PullIs(n, {"open"})
    /\ pulls[n].auto \/ \E i \in With(rows, {"approved"}) : rows[i].number = n /\ rows[i].manual
    /\ pulls' = [pulls EXCEPT ![n].state = "merged"]
    /\ UNCHANGED <<queueVars, qaVars, mgrVars, counts, approved>>

HumanCloses(n) ==
    /\ PullIs(n, {"open"})
    /\ pulls' = Closed({n}) /\ Mishap
    /\ UNCHANGED <<queueVars, qaVars, mgrVars, verdicts, deaths, approved>>

(***************************************************************************)
(* pr submit.  The story's rows in the queue are duplicates, and closed on *)
(* GitHub too, unless --pr-number names the one they have; --pr-url names  *)
(* it to createPullRequest() only.                                         *)
(***************************************************************************)
Duplicates(s, incoming) ==
    {i \in With(rows, Open) : rows[i].story = s /\ (incoming = NoNumber \/ rows[i].number # incoming)}

Submit(n, form) ==
    LET s  == pulls[n].story
        duplicates == Duplicates(s, IF form = "number" THEN n ELSE NoNumber)
        rw == Append(Marked(rows, duplicates, "closed"),
                     Queued(s, pulls[n].branch, IF form = "none" THEN NoNumber ELSE n))
    IN  /\ PullIs(n, {"open"}) /\ Len(rows) < MaxRows
        /\ rows' = rw
        /\ story' = Moved({s}, "pr_submitted")
        /\ \E failed \in SUBSET Numbers(rows, duplicates) :
              pulls' = Closed(Numbers(rows, duplicates) \ failed) /\ Fault(failed # {})
        /\ checkMergeQueue(story', rw)
        /\ UNCHANGED <<mgrVars, verdicts, deaths, approved>>

\* my-stories complete, told to a developer along with submit.
Complete(s) ==
    /\ \E i \in DOMAIN rows : rows[i].story = s
    /\ story' = Moved({s}, "review")
    /\ UNCHANGED <<rows, qaVars, pulls, mgrVars, counts, approved>>

(***************************************************************************)
(* autoMergeApprovedPRs().  Claiming puts a row back to queued; what comes *)
(* of the call to GitHub decides where it goes from there, and "kept"      *)
(* (state unknown, conflicts, waiting for CI) leaves it where it is.  The  *)
(* merge command with --auto may only schedule the merge; when the state   *)
(* cannot be read afterwards the code assumes that it merged.              *)
(***************************************************************************)
\* (mutant) what waits for review is taken along.
ClaimableQueued(rw) ==
    {i \in With(rw, {"approved", "queued"}) : rw[i].number # NoNumber /\ ~rw[i].manual}
Claimable(rw) == {i \in With(rw, {"approved"}) : rw[i].number # NoNumber /\ ~rw[i].manual}

Outcome(row, pull, fault) == [row |-> row, pull |-> pull, fault |-> fault]
Outcomes(p) ==
    IF p.state # "open" THEN {Outcome(p.state, p, FALSE), Outcome("kept", p, TRUE)}
    ELSE {Outcome("merged",   [p EXCEPT !.state = "merged"], FALSE),
          Outcome("kept",     [p EXCEPT !.auto = TRUE], FALSE),
          Outcome("merged",   [p EXCEPT !.auto = TRUE], TRUE),
          Outcome("approved", p, TRUE),
          Outcome("kept",     p, TRUE)}

\* results is a set of [id, to]: update of the rows and their stories.
Settled(rw, results) ==
    [i \in DOMAIN rw |-> IF \E r \in results : r.id = i /\ r.to # "kept"
                         THEN [rw[i] EXCEPT !.status = (CHOOSE r \in results : r.id = i).to]
                         ELSE rw[i]]
StoriesOf(rw, results) == {rw[r.id].story : r \in {x \in results : x.to = "merged"}}

\* In one go, inside the lock of pr approve; rows of one number come out alike.
AutoMergeInLock(rw) ==
    \E how \in [Claimable(rw) -> UNION {Outcomes(pulls[n]) : n \in DOMAIN pulls}] :
        LET to == {[id |-> i, to |-> how[i].row] : i \in Claimable(rw)}
        IN  /\ \A i \in Claimable(rw) : how[i] \in Outcomes(pulls[rw[i].number])
            /\ \A i, j \in Claimable(rw) : rw[i].number = rw[j].number => how[i] = how[j]
            /\ rows' = Settled(Marked(rw, Claimable(rw), "queued"), to)
            /\ story' = Moved(StoriesOf(rw, to), "merged")
            /\ pulls' = [n \in DOMAIN pulls |->
                            IF \E i \in Claimable(rw) : rw[i].number = n
                            THEN (CHOOSE o \in {how[i] : i \in {j \in Claimable(rw) : rw[j].number = n}} : TRUE).pull
                            ELSE pulls[n]]
            /\ Fault(\E i \in Claimable(rw) : how[i].fault)

(***************************************************************************)
(* The reviewer: pr review, approve, reject.  No command looks at the      *)
(* row's status, but approve at whether it is merged.                      *)
(***************************************************************************)
Review(q) ==
    \E i \in getPrioritizedMergeQueue(rows) :
        /\ qaUp[q] /\ Turn(i, getPrioritizedMergeQueue(rows)) = 0
        /\ rows' = [rows EXCEPT ![i].status = "reviewing", ![i].by = q]
        /\ duty' = [duty EXCEPT ![q] = @ \cup {i}]
        /\ UNCHANGED <<story, qaAgents, qaUp, pulls, mgrVars, counts, approved>>

Verdict(q, i) ==
    /\ qaUp[q] /\ i \in duty[q]
    /\ duty' = [duty EXCEPT ![q] = @ \ {i}]
    /\ UNCHANGED <<qaAgents, qaUp, mgrVars>>

ApproveMerged(q, i) ==
    LET n == rows[i].number
    IN  /\ Verdict(q, i)
        /\ rows[i].status # "merged" /\ PullIs(n, {"open", "merged"})
        /\ pulls' = [pulls EXCEPT ![n].state = "merged"]
        /\ rows' = [rows EXCEPT ![i].status = "merged", ![i].by = q, ![i].manual = FALSE]
        /\ story' = Moved({rows[i].story}, "merged")
        /\ approved' = approved \cup {n}
        /\ UNCHANGED counts

\* gh refuses, or there is no number.
ApproveOnly(q, i) ==
    LET n == rows[i].number
        rw == [rows EXCEPT ![i].status = "approved", ![i].by = q, ![i].manual = FALSE]
    IN  /\ Verdict(q, i) /\ rows[i].status # "merged"
        /\ approved' = approved \cup ({n} \ {NoNumber})
        /\ n = NoNumber \/ PullIs(n, {"open", "closed"})
        /\ AutoMergeInLock(rw)
        /\ UNCHANGED <<verdicts, deaths>>

ApproveManual(q, i) ==
    /\ Verdict(q, i) /\ rows[i].status # "merged"
    /\ rows' = [rows EXCEPT ![i].status = "approved", ![i].by = q, ![i].manual = TRUE]
    /\ approved' = approved \cup ({rows[i].number} \ {NoNumber})
    /\ UNCHANGED <<story, pulls, counts>>

ApproveAgain(q, i) ==
    /\ Verdict(q, i) /\ rows[i].status = "merged"
    /\ UNCHANGED <<queueVars, pulls, counts, approved>>

\* The process dies after gh merged and before the save.
ApproveDies(q, i) ==
    /\ Verdict(q, i)
    /\ rows[i].status # "merged" /\ PullIs(rows[i].number, {"open"})
    /\ pulls' = [pulls EXCEPT ![rows[i].number].state = "merged"]
    /\ approved' = approved \cup {rows[i].number}
    /\ Mishap
    /\ UNCHANGED <<queueVars, verdicts, deaths>>

Reject(q, i) ==
    /\ Verdict(q, i)
    /\ verdicts < MaxVerdicts /\ verdicts' = verdicts + 1
    /\ rows' = [rows EXCEPT ![i].status = "rejected", ![i].by = q]
    /\ story' = Moved({rows[i].story}, "qa_failed")
    /\ UNCHANGED <<pulls, mishaps, deaths, approved>>

\* The reviewer comments on GitHub and thinks that it is done.
Remark(q, i) ==
    /\ Feedback /\ Verdict(q, i)
    /\ PullIs(rows[i].number, {"open"})
    /\ pulls' = [pulls EXCEPT ![rows[i].number].remarks = TRUE]
    /\ UNCHANGED <<queueVars, counts, approved>>

QADies(q) ==
    /\ qaUp[q] /\ deaths < MaxDeaths /\ deaths' = deaths + 1
    /\ qaUp' = [qaUp EXCEPT ![q] = FALSE]
    /\ duty' = [duty EXCEPT ![q] = {}]
    /\ UNCHANGED <<queueVars, qaAgents, pulls, mgrVars, verdicts, mishaps, approved>>

(***************************************************************************)
(* pr sync and the manager's import of open pull requests.  The manager's  *)
(* skips a branch that any row ever had.                                   *)
(***************************************************************************)
ExistingPR(n, passOver) ==
    \E i \in DOMAIN rows :
        \/ rows[i].number = n
        \/ /\ rows[i].status \notin passOver
           /\ rows[i].branch = pulls[n].branch /\ rows[i].story = pulls[n].story
Importable(listed, passOver) ==
    {n \in listed : story[pulls[n].story] # "merged" /\ ~ExistingPR(n, passOver)}
\* gh lists the newest first; no two open ones have a branch in common.
Imported(N) ==
    \E newest \in [1 .. Cardinality(N) -> N] :
        /\ \A j, k \in DOMAIN newest : j < k => newest[j] > newest[k]
        /\ rows' = rows \o [k \in DOMAIN newest |->
                              Queued(pulls[newest[k]].story, pulls[newest[k]].branch, newest[k])]

PrSync ==
    LET listed == {n \in DOMAIN pulls : pulls[n].state = "open"}
        N == Importable(listed, {"merged", "closed"})
    IN  /\ N # {}
        /\ Imported(N)
        /\ checkMergeQueue(story, rows')
        /\ UNCHANGED <<story, pulls, mgrVars, counts, approved>>

(***************************************************************************)
(* The manager's check.  A step that finds nothing to do ends at once.     *)
(***************************************************************************)
Step(from, to)   == at = from /\ at' = to
Reads(from, to, T) == Step(from, to) /\ todo' = T /\ seen' = {} /\ UNCHANGED idleQA
Ends(from, to)   == Reads(from, to, {})
Brings(from, to, S) == Step(from, to) /\ seen' = S /\ UNCHANGED <<todo, idleQA>>

\* healthCheck() for reviewers, then checkMergeQueue().
HealthCheck ==
    /\ Ends("rest", "queue")
    /\ qaAgents' = [q \in QA |-> IF qaUp[q] THEN qaAgents[q] ELSE 0]
    /\ UNCHANGED <<queueVars, qaUp, duty, pulls, counts, approved>>

CheckMergeQueue ==
    /\ Ends("queue", "claim")
    /\ checkMergeQueue(story, rows)
    /\ UNCHANGED <<queueVars, pulls, counts, approved>>

AutoMergeClaim ==
    /\ Reads("claim", "merge", Claimable(rows))
    /\ rows' = Marked(rows, Claimable(rows), "queued")
    /\ UNCHANGED <<story, qaVars, pulls, counts, approved>>

AutoMergeCall(i) ==
    /\ at = "merge" /\ i \in todo
    /\ \E o \in Outcomes(pulls[rows[i].number]) :
          /\ seen' = seen \cup {[id |-> i, to |-> o.row]}
          /\ pulls' = [pulls EXCEPT ![rows[i].number] = o.pull]
          /\ Fault(o.fault)
    /\ todo' = todo \ {i}
    /\ UNCHANGED <<queueVars, qaVars, at, idleQA, verdicts, deaths, approved>>

AutoMergeUpdate ==
    /\ todo = {} /\ Ends("merge", "listMerged")
    /\ rows' = Settled(rows, seen)
    /\ story' = Moved(StoriesOf(rows, seen), "merged")
    /\ UNCHANGED <<qaVars, pulls, counts, approved>>

Listed(S) == {n \in DOMAIN pulls : pulls[n].state \in S}
List(from, to, S) ==
    /\ \/ Brings(from, to, Listed(S)) /\ UNCHANGED mishaps
       \/ Brings(from, to, {}) /\ Mishap
    /\ UNCHANGED <<queueVars, qaVars, pulls, verdicts, deaths, approved>>

ListMerged == List("listMerged", "syncMerged", {"merged"})
\* (mutant) only stories still waiting for the merge are updated.
SyncMergedSubmitted ==
    /\ Ends("syncMerged", "listOpen")
    /\ story' = Moved({s \in {pulls[n].story : n \in seen} : story[s] = "pr_submitted"}, "merged")
    /\ UNCHANGED <<rows, qaVars, pulls, counts, approved>>
SyncMerged ==
    /\ Ends("syncMerged", "listOpen")
    /\ story' = Moved({pulls[n].story : n \in seen}, "merged")
    /\ UNCHANGED <<rows, qaVars, pulls, counts, approved>>

ListOpen == List("listOpen", "import", {"open"})
SyncOpen ==
    LET N == Importable(seen, {})
    IN  /\ Ends("import", "stale")
        /\ IF N = {} THEN UNCHANGED <<rows, qaVars>>
                     ELSE Imported(N) /\ checkMergeQueue(story, rows')
        /\ UNCHANGED <<story, pulls, counts, approved>>

\* closeStalePRs(): what is open on GitHub and no row of its story names.
StaleRead ==
    /\ Reads("stale", "closeStale", DOMAIN rows \ With(rows, {"closed"}))
    /\ UNCHANGED <<queueVars, qaVars, pulls, counts, approved>>
Superseded(known) ==
    {n \in Listed({"open"}) :
        LET mine == {i \in known : rows[i].story = pulls[n].story}
        IN  mine # {} /\ \A i \in mine : rows[i].number \notin {NoNumber, n}}
CloseStale ==
    /\ Ends("closeStale", "reviewing")
    /\ \E failed \in SUBSET Superseded(todo) :
          pulls' = Closed(Superseded(todo) \ failed) /\ Fault(failed # {})
    /\ UNCHANGED <<queueVars, qaVars, verdicts, deaths, approved>>

\* recoverStaleReviewingPRs(): what became of pull requests in review.
ReviewingRead ==
    /\ Reads("reviewing", "view", {i \in With(rows, {"reviewing"}) : rows[i].number # NoNumber})
    /\ UNCHANGED <<queueVars, qaVars, pulls, counts, approved>>
\* That of an open one is not reminded: agentsBySessionName is filled later in the check.
ReviewingView(i) ==
    /\ at = "view" /\ i \in todo
    /\ todo' = todo \ {i}
    /\ \/ seen' = seen \cup {[id |-> i, to |-> pulls[rows[i].number].state]} /\ UNCHANGED mishaps
       \/ Mishap /\ UNCHANGED seen
    /\ UNCHANGED <<queueVars, qaVars, pulls, at, idleQA, verdicts, deaths, approved>>
RecoverReviewing ==
    LET still(st) == {r.id : r \in {x \in seen : x.to = st}} \cap With(rows, {"reviewing"})
    IN  /\ todo = {} /\ Ends("view", "sessions")
        /\ rows' = Marked(Marked(rows, still("merged"), "merged"), still("closed"), "rejected")
        /\ story' = Moved({rows[i].story : i \in still("merged")}, "merged")
        /\ UNCHANGED <<qaVars, pulls, counts, approved>>

\* getHiveSessions() and prepareSessionData(): the reviewers, all of them idle.
ListSessions ==
    /\ Step("sessions", "notify")
    /\ idleQA' = {q \in QA : qaUp[q] /\ qaAgents[q] > 0}
    /\ UNCHANGED <<queueVars, qaVars, pulls, todo, seen, counts, approved>>

Busy == {rows[i].by : i \in With(rows, {"reviewing"})}

\* The k-th idle reviewer gets the k-th pull request of the queue; then they are told.
NotifyQA ==
    LET free  == idleQA \ Busy
        queue == getPrioritizedMergeQueue(rows)
        of(i) == {q \in free : Turn(q, free) = Turn(i, queue)}
    IN  /\ Ends("notify", "feedback")
        /\ rows' = [i \in DOMAIN rows |->
                       IF i \in queue /\ of(i) # {}
                       THEN [rows[i] EXCEPT !.status = "reviewing", !.by = CHOOSE q \in of(i) : TRUE]
                       ELSE rows[i]]
        /\ duty' = [q \in QA |-> IF qaUp[q] THEN duty[q] \cup {i \in queue : q \in of(i)} ELSE {}]
        /\ UNCHANGED <<story, qaAgents, qaUp, pulls, counts, approved>>

\* autoRejectCommentOnlyReviews(): the status is not looked at again.
FeedbackRead ==
    /\ Reads("feedback", "comments",
             {i \in With(rows, {"reviewing"}) : rows[i].number # NoNumber /\ rows[i].by \in idleQA})
    /\ UNCHANGED <<queueVars, qaVars, pulls, counts, approved>>
\* Remarks count unless the pull request is approved on GitHub, which may have failed.
FeedbackView ==
    LET remarked == {i \in todo : pulls[rows[i].number].remarks}
    IN  /\ at = "comments"
        /\ \E S \in SUBSET remarked :
              /\ {i \in remarked : rows[i].number \notin approved} \subseteq S
              /\ Brings("comments", "reject", S)
        /\ UNCHANGED <<queueVars, qaVars, pulls, counts, approved>>
AutoReject ==
    /\ Ends("reject", "rejected")
    /\ rows' = Marked(rows, seen, "rejected")
    /\ story' = Moved({rows[i].story : i \in seen}, "qa_failed")
    /\ UNCHANGED <<qaVars, pulls, counts, approved>>

HandleRejected ==
    /\ Ends("rejected", "stuck")
    /\ story' = Moved({rows[i].story : i \in With(rows, {"rejected"})}, "qa_failed")
    /\ rows' = Marked(rows, With(rows, {"rejected"}), "closed")
    /\ UNCHANGED <<qaVars, pulls, counts, approved>>

\* nudgeStuckStories(): the classifier may find a story in progress to be done.
StuckRead ==
    /\ Reads("stuck", "progress", {s \in Story : story[s] = "in_progress"})
    /\ UNCHANGED <<queueVars, qaVars, pulls, counts, approved>>
AutoProgress(s) ==
    /\ at = "progress" /\ s \in todo /\ todo' = todo \ {s}
    /\ story' = Moved({s}, "pr_submitted")
    /\ \/ /\ \E i \in With(rows, Open) : rows[i].story = s
          /\ UNCHANGED <<rows, qaVars>>
       \/ /\ ~\E i \in With(rows, Open) : rows[i].story = s
          /\ Len(rows) < MaxRows
          /\ \E b \in Branch : rows' = Append(rows, Queued(s, b, NoNumber))
          /\ checkMergeQueue(story', rows')
    /\ UNCHANGED <<pulls, at, seen, idleQA, counts, approved>>
\* The others are not found done.
CheckEnds ==
    /\ Step("progress", "rest")
    /\ todo' = {} /\ seen' = {} /\ idleQA' = {}
    /\ UNCHANGED <<queueVars, qaVars, pulls, counts, approved>>

\* The manager dies; the next one starts over.
ManagerDies ==
    /\ at # "rest" /\ at' = "rest" /\ Mishap
    /\ todo' = {} /\ seen' = {} /\ idleQA' = {}
    /\ UNCHANGED <<queueVars, qaVars, pulls, verdicts, deaths, approved>>

Check == \/ HealthCheck \/ CheckMergeQueue \/ AutoMergeClaim \/ AutoMergeUpdate
         \/ ListMerged \/ SyncMerged \/ ListOpen \/ SyncOpen \/ StaleRead \/ CloseStale
         \/ ReviewingRead \/ RecoverReviewing \/ ListSessions \/ NotifyQA
         \/ FeedbackRead \/ FeedbackView \/ AutoReject \/ HandleRejected \/ StuckRead \/ CheckEnds
         \/ \E i \in DOMAIN rows : AutoMergeCall(i) \/ ReviewingView(i)
DecideOn(q, i) == \/ ApproveMerged(q, i) \/ ApproveOnly(q, i) \/ ApproveManual(q, i)
                  \/ ApproveAgain(q, i) \/ Reject(q, i)
Next ==
    \/ \E s \in Story, b \in Branch : OpenPull(s, b)
    \/ \E n \in DOMAIN pulls, form \in Forms : Submit(n, form)
    \/ \E n \in DOMAIN pulls : Lands(n) \/ HumanCloses(n)
    \/ \E s \in Story : Complete(s) \/ AutoProgress(s)
    \/ \E q \in QA : Review(q) \/ QADies(q)
    \/ \E q \in QA : \E i \in duty[q] : DecideOn(q, i) \/ ApproveDies(q, i) \/ Remark(q, i)
    \/ PrSync \/ Check \/ ManagerDies

Spec == Init /\ [][Next]_vars

\* The manager's check comes again and again and gets to its end (some step of it is enabled
\* in every state), a reviewer keeps nothing for ever that it was told to look at (it can
\* always decide), and what GitHub or a person is to merge gets merged.  Developers owe
\* nothing here.
Fairness ==
    /\ []<>(at = "rest") /\ []<>(at # "rest")
    /\ \A q \in QA, i \in 1 .. MaxRows + MaxPulls : []<>~(qaUp[q] /\ i \in duty[q])
    /\ \A n \in 1 .. MaxPulls : WF_vars(n \in DOMAIN pulls /\ Lands(n))
FairSpec == Spec /\ Fairness

-----------------------------------------------------------------------------
\* Every variable has its type: at most Sessions reviewers have a row in a session, a row
\* names a pull request that exists, and reviewers know rows that exist.
QueueTypeOK ==
    /\ story \in [Story -> Statuses]
    /\ rows \in Seq(Row) /\ pulls \in Seq(Pull) /\ qaUp \in [QA -> BOOLEAN]
    /\ duty \in [QA -> SUBSET DOMAIN rows]
    /\ idleQA \subseteq QA /\ approved \subseteq DOMAIN pulls
    /\ \A i \in DOMAIN rows : rows[i].number \in {NoNumber} \cup DOMAIN pulls
    /\ verdicts \in 0 .. MaxVerdicts /\ mishaps \in 0 .. MaxMishaps /\ deaths \in 0 .. MaxDeaths
TypeOK == QueueTypeOK /\ qaAgents \in [QA -> 0 .. Sessions]

\* Stories of the pull requests in N.
Of(N) == {pulls[n].story : n \in N}
Promise == INSTANCE Delivery WITH
    approved <- Of(approved),
    accepted <- Of({n \in DOMAIN pulls : pulls[n].state = "merged" \/ pulls[n].auto}),
    landed   <- Of(Listed({"merged"})),
    recorded <- {s \in Story : story[s] = "merged"}
\* The queue implements Delivery: whatever rows go through, and whoever dies or fails, what
\* lands was approved, a verdict of a reviewer or of GitHub is not taken back, no story is
\* recorded that GitHub did not accept, and every landed story is recorded in the end.
Delivers == Promise!Spec
\* Its safety part: landed changes were accepted by GitHub, accepted ones approved by a
\* reviewer, and recorded stories accepted (pr approve, auto-merge, the three syncs).
Inside == Promise!Inside

\* A pull request with a number does not wait in the queue for ever, unless its story is
\* merged another way: then the queue needs no reviewer, and the row may stay.
Waiting(i) == /\ i \in With(rows, Open) /\ rows[i].number # NoNumber
              /\ story[rows[i].story] # "merged"
QueueDrains == \A i \in 1 .. MaxRows + MaxPulls : Waiting(i) ~> (~Waiting(i) \/ deaths > 0)

\* (violated) A submitted pull request is not closed by its own submission, pr.ts:69.
SubmitKeepsItsPull ==
    [][\A n \in DOMAIN pulls, form \in Forms : Submit(n, form) => pulls'[n].state = "open"]_vars
\* (violated) Scaling down leaves alone who has a review, scheduler.ts scaleQAAgents().
ReviewersAreKept ==
    [][\A q \in QA : (qaUp[q] /\ ~qaUp'[q] /\ deaths' = deaths)
                        => ~\E i \in With(rows, {"reviewing"}) : rows[i].by = q]_vars
\* (violated) A story is recorded as merged when its change is on the base branch.
MergedHasLanded == \A s \in Story : story[s] = "merged" => s \in Of(Listed({"merged"}))
=============================================================================
