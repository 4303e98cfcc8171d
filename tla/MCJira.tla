------------------------------- MODULE MCJira -------------------------------
EXTENDS Jira
\* Columns of the README's example, and one more that autoDetectStatusMapping() knows.
ReadmeMeans == [ToDo |-> "draft", InProgress |-> "in_progress", InReview |-> "review", Done |-> "merged"]
PrMeans == [ToDo |-> "draft", InProgress |-> "in_progress", AwaitingReview |-> "pr_submitted", Done |-> "merged"]
=============================================================================
