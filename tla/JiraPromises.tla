---------------------------- MODULE JiraPromises ----------------------------
(***************************************************************************)
(* What is promised of the Jira integration: to the people who look at the *)
(* board, that nothing is on it twice without a cause, and to the agents,  *)
(* that the board does not undo what happened to a story.  How it comes    *)
(* about is Jira.                                                          *)
(***************************************************************************)
EXTENDS Naturals, Sequences

CONSTANT Story \* stories of the requirement

VARIABLES
    status,       \* of each story
    cards,        \* Jira: the issues of each story
    epics,        \* Jira: epics of the requirement
    subs,         \* Jira: the subtasks under a story's issues
    at,           \* the step of syncFromJira()
    mishaps, cuts \* so far: calls without an answer, crashes, changes of leader; sections that did not wait

\* An issue, an epic or a subtask that is created twice is accounted for by a
\* call without an answer, a crash or a change of leader, or by a section that
\* did not wait for its queue; each of them costs at most one.
DuplicatesAreAccountedFor ==
    /\ epics <= 1 + mishaps
    /\ \A s \in Story : Len(cards[s]) <= 1 + mishaps /\ subs[s] <= 1 + mishaps + cuts

\* A rejected story does not come back through the board, unless somebody
\* drags its card to the end: both orders of the statuses are needed.
RejectionStands ==
    [][\A s \in Story : at = "pull" /\ status[s] = "qa_failed" => status'[s] \in {"qa_failed", "merged"}]_status
=============================================================================
