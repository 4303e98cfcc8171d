-------------------------- MODULE MergeQueueProofs ---------------------------
(***************************************************************************)
(* Theorems about MergeQueue, for any stories, reviewers and bounds: what  *)
(* GitHub takes was approved, what is recorded as merged was taken by      *)
(* GitHub, each step is a step of Delivery, and no more reviewers are      *)
(* active than there may be.                                               *)
(*                                                                         *)
(* The invariant speaks of pull requests, where Inside speaks of stories:  *)
(* what GitHub has taken was approved by number, and so is what an         *)
(* approved row names.  The manager's steps act on what they read before   *)
(* they released the lock, so that it says of each of them what is still   *)
(* true of its todo and seen, whatever happened since.                     *)
(*                                                                         *)
(* Each action is shown to be Fine, which says of rows, pull requests,     *)
(* stories and approvals what no step does to them; the rest follows.  How *)
(* many reviewers there are depends on none of that, and comes last.       *)
(***************************************************************************)
EXTENDS MergeQueue, SequenceTheorems, FiniteSetTheorems, WellFoundedInduction, TLAPS

-----------------------------------------------------------------------------
(* Sequences that change: rewritten in place, appended to, concatenated.   *)

LEMMA Rewritten ==
    ASSUME NEW T, NEW rw \in Seq(T), NEW f \in [DOMAIN rw -> T]
    PROVE  f \in Seq(T) /\ Len(f) = Len(rw) /\ DOMAIN f = DOMAIN rw
  OBVIOUS

LEMMA Overwritten ==
    ASSUME NEW T, NEW rw \in Seq(T), NEW i \in DOMAIN rw, NEW r \in T
    PROVE  [rw EXCEPT ![i] = r] \in Seq(T) /\ DOMAIN [rw EXCEPT ![i] = r] = DOMAIN rw
  OBVIOUS

\* Marking rows changes the status of those marked, and nothing else.
LEMMA MarkedType ==
    ASSUME NEW rw \in Seq(Row), NEW I, NEW st \in RowStatuses
    PROVE  /\ Marked(rw, I, st) \in Seq(Row)
           /\ DOMAIN Marked(rw, I, st) = DOMAIN rw
           /\ \A i \in DOMAIN rw : /\ Marked(rw, I, st)[i].number = rw[i].number
                                   /\ Marked(rw, I, st)[i].story = rw[i].story
                                   /\ Marked(rw, I, st)[i].status = IF i \in I THEN st ELSE rw[i].status
<1> DEFINE m == Marked(rw, I, st)
<1>0. \A i \in DOMAIN rw : rw[i] \in Row
  OBVIOUS
<1>1. m \in [DOMAIN rw -> Row]
  BY <1>0 DEF Marked, Row
<1>2. m \in Seq(Row) /\ DOMAIN m = DOMAIN rw
  BY <1>1, Rewritten
<1>3. \A i \in DOMAIN rw : m[i].number = rw[i].number /\ m[i].story = rw[i].story
                           /\ m[i].status = IF i \in I THEN st ELSE rw[i].status
  BY <1>0 DEF Marked, Row
<1> QED BY <1>2, <1>3

LEMMA AppendedType ==
    ASSUME NEW T, NEW rw \in Seq(T), NEW r \in T
    PROVE  /\ Append(rw, r) \in Seq(T) /\ Len(Append(rw, r)) = Len(rw) + 1
           /\ \A i \in DOMAIN rw : i \in DOMAIN Append(rw, r) /\ Append(rw, r)[i] = rw[i]
           /\ \A i \in DOMAIN Append(rw, r) : i \in DOMAIN rw \/ Append(rw, r)[i] = r
  OBVIOUS

-----------------------------------------------------------------------------
(* The invariant.                                                          *)

Taken  == {n \in DOMAIN pulls : pulls[n].state = "merged" \/ pulls[n].auto}
Landed == {n \in DOMAIN pulls : pulls[n].state = "merged"}

\* A row with a number belongs to the story of that pull request; an approved row names
\* one that was approved.
RowsInv ==
    /\ \A i \in DOMAIN rows : rows[i].number # NoNumber => rows[i].story = pulls[rows[i].number].story
    /\ \A i \in With(rows, {"approved"}) : rows[i].number \in {NoNumber} \cup approved
\* A story is recorded as merged only after GitHub took one of its pull requests.
StoryInv ==
    \A s \in Story : story[s] = "merged" => \E n \in Taken : pulls[n].story = s
CoreInv == /\ QueueTypeOK /\ Len(pulls) <= MaxPulls
           /\ Taken \subseteq approved /\ RowsInv /\ StoryInv

\* What a call of auto-merge may report of an approved row, and is still true of it.
Told == {"merged", "approved", "closed", "kept"}
ToldOf(r) ==
    /\ r.id \in DOMAIN rows /\ rows[r.id].number # NoNumber
    /\ r.to \in Told
    /\ r.to = "approved" => rows[r.id].number \in approved
    /\ r.to = "merged" => rows[r.id].number \in Taken
\* Between claiming rows and settling them: each is dealt with once.
MergeInv ==
    at = "merge" =>
        /\ \A i \in todo : i \in DOMAIN rows /\ rows[i].number \in approved
        /\ \A r \in seen : ToldOf(r) /\ r.id \notin todo
        /\ \A r, t \in seen : r.id = t.id => r = t
\* What the syncs have listed is there, and merged if it was.
SyncInv ==
    /\ at = "syncMerged" => seen \subseteq Landed
    /\ at = "import" => seen \subseteq DOMAIN pulls
\* A review that was seen as merged is of a pull request that is.
ViewInv ==
    at = "view" =>
        /\ \A i \in todo : i \in DOMAIN rows /\ rows[i].number # NoNumber
        /\ \A r \in seen : r.to = "merged" => r.id \in DOMAIN rows /\ rows[r.id].number \in Landed
StepInv == MergeInv /\ SyncInv /\ ViewInv
IInv == CoreInv /\ StepInv

-----------------------------------------------------------------------------
(* What no step does.                                                      *)

\* No row goes away or changes its story or number; a new one waits, for a pull request of
\* its story; none becomes approved without an approval.
RowsFine ==
    /\ rows' \in Seq(Row)
    /\ \A i \in DOMAIN rows : /\ i \in DOMAIN rows'
                              /\ rows'[i].number = rows[i].number /\ rows'[i].story = rows[i].story
    /\ \A i \in DOMAIN rows' \ DOMAIN rows :
          /\ rows'[i].status = "queued"
          /\ rows'[i].number # NoNumber => /\ rows'[i].number \in DOMAIN pulls
                                           /\ rows'[i].story = pulls[rows'[i].number].story
    /\ \A i \in DOMAIN rows : rows'[i].status = "approved" =>
          rows[i].status = "approved" \/ rows[i].number \in {NoNumber} \cup approved'
\* GitHub forgets nothing, and takes only what is approved.
PullsFine ==
    /\ pulls' \in Seq(Pull) /\ Len(pulls') <= MaxPulls
    /\ \A n \in DOMAIN pulls : /\ n \in DOMAIN pulls' /\ pulls'[n].story = pulls[n].story
                               /\ n \in Taken => n \in Taken'
                               /\ n \in Landed => n \in Landed'
    /\ Taken' \subseteq Taken \cup approved'
\* A story becomes merged only with a pull request that is taken.
StoryFine ==
    /\ story' \in [Story -> Statuses]
    /\ \A s \in Story : story'[s] = "merged" =>
          story[s] = "merged" \/ \E n \in Taken' : pulls'[n].story = s
ApprovedFine == approved \subseteq approved' /\ approved' \subseteq DOMAIN pulls'

\* That is enough for the first part of the invariant.
LEMMA CoreStep ==
    ASSUME CoreInv, RowsFine, PullsFine, StoryFine, ApprovedFine
    PROVE  Len(pulls') <= MaxPulls /\ (Taken \subseteq approved)' /\ RowsInv' /\ StoryInv'
<1> USE DEF CoreInv, QueueTypeOK
<1>1. (Taken \subseteq approved)' /\ Len(pulls') <= MaxPulls
  BY DEF PullsFine, ApprovedFine
<1>2. ASSUME NEW i \in DOMAIN rows', rows'[i].number # NoNumber
      PROVE  rows'[i].story = pulls'[rows'[i].number].story
  <2>1. CASE i \in DOMAIN rows
    <3>1. rows[i].number \in DOMAIN pulls /\ rows[i].story = pulls[rows[i].number].story
      BY <1>2, <2>1 DEF RowsFine, RowsInv
    <3> QED BY <2>1, <3>1 DEF RowsFine, PullsFine
  <2>2. CASE i \notin DOMAIN rows
    <3>1. rows'[i].number \in DOMAIN pulls /\ rows'[i].story = pulls[rows'[i].number].story
      BY <1>2, <2>2 DEF RowsFine
    <3> QED BY <3>1 DEF PullsFine
  <2> QED BY <2>1, <2>2
<1>3. ASSUME NEW i \in DOMAIN rows', rows'[i].status = "approved"
      PROVE  rows'[i].number \in {NoNumber} \cup approved'
  BY <1>3 DEF RowsFine, RowsInv, ApprovedFine, With
<1>4. ASSUME NEW s \in Story, story'[s] = "merged"
      PROVE  \E n \in Taken' : pulls'[n].story = s
  <2>1. CASE story[s] = "merged"
    <3>1. PICK n \in Taken : pulls[n].story = s
      BY <2>1 DEF StoryInv
    <3> n \in DOMAIN pulls
      BY DEF Taken
    <3> QED BY <3>1 DEF PullsFine
  <2> QED BY <1>4, <2>1 DEF StoryFine
<1> QED BY <1>1, <1>2, <1>3, <1>4 DEF RowsInv, StoryInv, With

\* How a step changes one of them.
LEMMA RowsSame ==
    ASSUME CoreInv, UNCHANGED rows
    PROVE  RowsFine
BY DEF CoreInv, QueueTypeOK, RowsFine
LEMMA PullsSame ==
    ASSUME CoreInv, UNCHANGED pulls
    PROVE  PullsFine
BY DEF CoreInv, QueueTypeOK, PullsFine, Taken, Landed
LEMMA StorySame ==
    ASSUME CoreInv, UNCHANGED story
    PROVE  StoryFine
BY DEF CoreInv, QueueTypeOK, StoryFine
LEMMA ApprovedSame ==
    ASSUME CoreInv, PullsFine, UNCHANGED approved
    PROVE  ApprovedFine
BY DEF CoreInv, QueueTypeOK, ApprovedFine, PullsFine

LEMMA RowsMarked ==
    ASSUME CoreInv, NEW I, NEW st \in RowStatuses \ {"approved"}, rows' = Marked(rows, I, st)
    PROVE  RowsFine
<1> rows \in Seq(Row)
  BY DEF CoreInv, QueueTypeOK
<1> QED BY MarkedType DEF RowsFine

LEMMA StoryMoved ==
    ASSUME CoreInv, NEW S, NEW st \in Statuses \ {"merged"}, story' = Moved(S, st)
    PROVE  StoryFine
BY DEF CoreInv, QueueTypeOK, StoryFine, Moved

LEMMA StoryMerged ==
    ASSUME CoreInv, PullsFine, NEW S, story' = Moved(S, "merged"),
           \A s \in S : \E n \in Taken' : pulls'[n].story = s
    PROVE  StoryFine
BY DEF CoreInv, QueueTypeOK, StoryFine, Moved, Statuses

LEMMA PullsClosed ==
    ASSUME CoreInv, NEW N, pulls' = Closed(N)
    PROVE  PullsFine
<1> pulls \in Seq(Pull) /\ \A n \in DOMAIN pulls : pulls[n] \in Pull
  BY DEF CoreInv, QueueTypeOK
<1>1. pulls' \in [DOMAIN pulls -> Pull]
  BY DEF Closed, Pull
<1>2. pulls' \in Seq(Pull) /\ DOMAIN pulls' = DOMAIN pulls /\ Len(pulls') = Len(pulls)
  BY <1>1, Rewritten
<1>3. \A n \in DOMAIN pulls : /\ pulls'[n].story = pulls[n].story /\ pulls'[n].auto = pulls[n].auto
                              /\ pulls'[n].state = "merged" <=> pulls[n].state = "merged"
  BY DEF Closed, Pull, PullIs
<1> QED BY <1>2, <1>3 DEF PullsFine, Taken, Landed, CoreInv

\* Reviewers know rows that exist.
CrewFine ==
    /\ qaUp' \in [QA -> BOOLEAN] /\ duty' \in [QA -> SUBSET DOMAIN rows] /\ idleQA' \subseteq QA
    /\ verdicts' \in 0 .. MaxVerdicts /\ mishaps' \in 0 .. MaxMishaps /\ deaths' \in 0 .. MaxDeaths
Fine == RowsFine /\ PullsFine /\ StoryFine /\ ApprovedFine /\ CrewFine

LEMMA FineStep ==
    ASSUME CoreInv, Fine
    PROVE  CoreInv'
<1> USE DEF Fine
<1>1. Len(pulls') <= MaxPulls /\ (Taken \subseteq approved)' /\ RowsInv' /\ StoryInv'
  BY CoreStep
<1>2. duty' \in [QA -> SUBSET DOMAIN rows']
  BY DEF CrewFine, RowsFine
<1>3. \A i \in DOMAIN rows' : rows'[i].number \in {NoNumber} \cup DOMAIN pulls'
  BY DEF CoreInv, QueueTypeOK, RowsFine, PullsFine
<1>4. QueueTypeOK'
  BY <1>2, <1>3 DEF QueueTypeOK, CrewFine, RowsFine, PullsFine, StoryFine, ApprovedFine
<1> QED BY <1>1, <1>4 DEF CoreInv

LEMMA Quiet ==
    ASSUME CoreInv, UNCHANGED <<story, rows, pulls, approved>>, CrewFine
    PROVE  Fine
BY RowsSame, PullsSame, StorySame, ApprovedSame DEF Fine

LEMMA MishapType == ASSUME CoreInv, NEW yes, Fault(yes) \/ Mishap
                    PROVE  mishaps' \in 0 .. MaxMishaps
BY ModelAssumption DEF CoreInv, QueueTypeOK, Fault, Mishap

-----------------------------------------------------------------------------
(* The actions, each of them Fine: first those that only take note.        *)

Noted == \/ HealthCheck \/ CheckMergeQueue \/ ListMerged \/ ListOpen \/ StaleRead
         \/ ReviewingRead \/ ListSessions \/ FeedbackRead \/ FeedbackView \/ StuckRead
         \/ CheckEnds \/ ManagerDies \/ (\E i \in DOMAIN rows : ReviewingView(i))
         \/ (\E q \in QA : QADies(q))

LEMMA NotedFine ==
    ASSUME CoreInv, Noted
    PROVE  Fine
<1> USE DEF CoreInv, QueueTypeOK, qaVars, queueVars, counts
<1>1. CASE HealthCheck
  BY <1>1, Quiet DEF HealthCheck, Ends, Reads, CrewFine
<1>2. CASE CheckMergeQueue
  <2>1. qaUp' \in [QA -> BOOLEAN] /\ duty' \in [QA -> SUBSET DOMAIN rows]
    BY <1>2 DEF CheckMergeQueue, checkMergeQueue
  <2> QED BY <1>2, <2>1, Quiet DEF CheckMergeQueue, Ends, Reads, CrewFine
<1>3. CASE ListMerged \/ ListOpen
  BY <1>3, Quiet, MishapType DEF ListMerged, ListOpen, List, Brings, CrewFine
<1>4. CASE StaleRead \/ ReviewingRead \/ FeedbackRead \/ StuckRead
  BY <1>4, Quiet DEF StaleRead, ReviewingRead, FeedbackRead, StuckRead, Reads, CrewFine
<1>5. CASE ListSessions \/ FeedbackView
  BY <1>5, Quiet DEF ListSessions, FeedbackView, Brings, CrewFine
<1>6. CASE CheckEnds \/ ManagerDies
  BY <1>6, Quiet, MishapType DEF CheckEnds, ManagerDies, CrewFine
<1>7. CASE \E i \in DOMAIN rows : ReviewingView(i)
  BY <1>7, Quiet, MishapType DEF ReviewingView, CrewFine
<1>8. CASE \E q \in QA : QADies(q)
  BY <1>8, Quiet, ModelAssumption DEF QADies, CrewFine, mgrVars
<1> QED BY <1>1, <1>2, <1>3, <1>4, <1>5, <1>6, <1>7, <1>8 DEF Noted

\* One pull request, or one row, becomes another.
LEMMA PullChanged ==
    ASSUME CoreInv, NEW n \in DOMAIN pulls, NEW pl \in Pull, pulls' = [pulls EXCEPT ![n] = pl],
           pl.story = pulls[n].story, pulls[n].state = "merged" => pl.state = "merged",
           pulls[n].auto => pl.auto,
           pl.state = "merged" \/ pl.auto => n \in Taken \cup approved'
    PROVE  PullsFine
<1> pulls \in Seq(Pull) /\ \A k \in DOMAIN pulls : pulls[k] \in Pull
  BY DEF CoreInv, QueueTypeOK
<1>1. pulls' \in Seq(Pull) /\ DOMAIN pulls' = DOMAIN pulls /\ Len(pulls') = Len(pulls)
  BY Rewritten
<1>2. pulls'[n] = pl /\ \A k \in DOMAIN pulls : k = n \/ pulls'[k] = pulls[k]
  OBVIOUS
<1>3. Taken' \subseteq Taken \cup approved'
  BY <1>1, <1>2 DEF Taken
<1>4. \A k \in DOMAIN pulls : /\ k \in DOMAIN pulls' /\ pulls'[k].story = pulls[k].story
                              /\ k \in Taken => k \in Taken'
                              /\ k \in Landed => k \in Landed'
  BY <1>1, <1>2 DEF Taken, Landed
<1> QED BY <1>1, <1>3, <1>4 DEF PullsFine, CoreInv

LEMMA RowChanged ==
    ASSUME CoreInv, NEW i \in DOMAIN rows, NEW r \in Row, rows' = [rows EXCEPT ![i] = r],
           r.number = rows[i].number, r.story = rows[i].story,
           r.status = "approved" => r.number \in {NoNumber} \cup approved'
    PROVE  RowsFine
<1> rows \in Seq(Row) /\ \A k \in DOMAIN rows : rows[k] \in Row
  BY DEF CoreInv, QueueTypeOK
<1>1. rows' \in Seq(Row) /\ DOMAIN rows' = DOMAIN rows
  BY Rewritten
<1>2. rows'[i] = r /\ \A k \in DOMAIN rows : k = i \/ rows'[k] = rows[k]
  OBVIOUS
<1> QED BY <1>1, <1>2 DEF RowsFine

LEMMA RowAppended ==
    ASSUME CoreInv, NEW r \in Row, rows' = Append(rows, r), r.status = "queued",
           r.number # NoNumber => r.number \in DOMAIN pulls /\ r.story = pulls[r.number].story
    PROVE  RowsFine
<1> rows \in Seq(Row)
  BY DEF CoreInv, QueueTypeOK
<1> QED BY AppendedType DEF RowsFine

\* Developers, GitHub, people, and the manager that closes what is superseded.
Outside == \/ \E s \in Story, b \in Branch : OpenPull(s, b)
           \/ \E n \in DOMAIN pulls : Lands(n) \/ HumanCloses(n)
           \/ CloseStale

LEMMA OutsideFine ==
    ASSUME CoreInv, Outside
    PROVE  Fine
<1> USE DEF CoreInv, QueueTypeOK, queueVars, qaVars, mgrVars, counts
<1>1. ASSUME NEW s \in Story, NEW b \in Branch, OpenPull(s, b)
      PROVE  Fine
  <2> DEFINE pl == [story |-> s, branch |-> b, state |-> "open", auto |-> FALSE, remarks |-> FALSE]
  <2>1. pl \in Pull /\ pulls' = Append(pulls, pl) /\ Len(pulls) < MaxPulls
    BY <1>1 DEF OpenPull, Pull
  <2> HIDE DEF pl
  <2>2. pl.state = "open" /\ ~pl.auto
    BY DEF pl
  <2>3. PullsFine
    BY <2>1, <2>2, AppendedType, ModelAssumption DEF PullsFine, Taken, Landed
  <2> QED BY <1>1, <2>3, RowsSame, StorySame, ApprovedSame DEF OpenPull, Fine, CrewFine
<1>2. ASSUME NEW n \in DOMAIN pulls, Lands(n)
      PROVE  Fine
  <2> DEFINE pl == [pulls[n] EXCEPT !.state = "merged"]
  <2>1. pulls' = [pulls EXCEPT ![n] = pl]
    BY <1>2 DEF Lands
  <2>2. pl \in Pull /\ pl.story = pulls[n].story /\ pl.state = "merged" /\ pl.auto = pulls[n].auto
    <3> pulls[n] \in Pull
      OBVIOUS
    <3> QED BY DEF Pull
  <2>3. n \in Taken \cup approved'
    <3>1. CASE pulls[n].auto
      BY <3>1 DEF Taken
    <3>2. CASE \E i \in With(rows, {"approved"}) : rows[i].number = n /\ rows[i].manual
      <4>1. n # NoNumber
        BY DEF NoNumber
      <4> QED BY <1>2, <3>2, <4>1 DEF Lands, RowsInv
    <3> QED BY <1>2, <3>1, <3>2 DEF Lands
  <2> HIDE DEF pl
  <2>4. PullsFine
    BY <2>1, <2>2, <2>3, PullChanged
  <2> QED BY <1>2, <2>4, RowsSame, StorySame, ApprovedSame DEF Lands, Fine, CrewFine
<1>3. ASSUME NEW n \in DOMAIN pulls, HumanCloses(n)
      PROVE  Fine
  <2>1. PullsFine
    BY <1>3, PullsClosed DEF HumanCloses
  <2> QED BY <1>3, <2>1, RowsSame, StorySame, ApprovedSame, MishapType DEF HumanCloses, Fine, CrewFine
<1>4. CASE CloseStale
  <2>1. PullsFine
    BY <1>4, PullsClosed DEF CloseStale
  <2> QED BY <1>4, <2>1, RowsSame, StorySame, ApprovedSame, MishapType DEF CloseStale, Ends, Reads, Fine, CrewFine
<1> QED BY <1>1, <1>2, <1>3, <1>4 DEF Outside

LEMMA RowsMarkedAppended ==
    ASSUME CoreInv, NEW I, NEW st \in RowStatuses \ {"approved"}, NEW r \in Row,
           rows' = Append(Marked(rows, I, st), r), r.status = "queued",
           r.number # NoNumber => r.number \in DOMAIN pulls /\ r.story = pulls[r.number].story
    PROVE  RowsFine
<1> rows \in Seq(Row)
  BY DEF CoreInv, QueueTypeOK
<1> DEFINE m == Marked(rows, I, st)
<1>1. m \in Seq(Row) /\ DOMAIN m = DOMAIN rows
      /\ \A i \in DOMAIN rows : /\ m[i].number = rows[i].number /\ m[i].story = rows[i].story
                                /\ m[i].status = IF i \in I THEN st ELSE rows[i].status
  BY MarkedType
<1>2. rows' = Append(m, r)
  OBVIOUS
<1> HIDE DEF m
<1>3. /\ rows' \in Seq(Row)
      /\ \A i \in DOMAIN m : i \in DOMAIN rows' /\ rows'[i] = m[i]
      /\ \A i \in DOMAIN rows' : i \in DOMAIN m \/ rows'[i] = r
  BY <1>1, <1>2, AppendedType
<1> QED BY <1>1, <1>3 DEF RowsFine

LEMMA NumberType ==
    ASSUME CoreInv, NEW n \in DOMAIN pulls
    PROVE  /\ n \in 0 .. MaxPulls /\ n # NoNumber
           /\ pulls[n] \in Pull /\ pulls[n].story \in Story /\ pulls[n].branch \in Branch
<1>1. pulls[n] \in Pull
  BY DEF CoreInv, QueueTypeOK
<1> QED BY <1>1, ModelAssumption DEF CoreInv, QueueTypeOK, NoNumber, Pull

\* Duplicates are closed and the new row waits.
LEMMA SubmitFine ==
    ASSUME CoreInv, NEW n \in DOMAIN pulls, NEW form \in Forms, Submit(n, form)
    PROVE  Fine
<1> USE DEF CoreInv, QueueTypeOK, queueVars, qaVars, mgrVars, counts
<1> DEFINE s == pulls[n].story
           number == IF form = "none" THEN NoNumber ELSE n
           r == Queued(s, pulls[n].branch, number)
           dup == Duplicates(s, IF form = "number" THEN n ELSE NoNumber)
<1>1. rows' = Append(Marked(rows, dup, "closed"), r)
  BY DEF Submit
<1>2. r \in Row /\ r.status = "queued" /\ r.number = number /\ r.story = s
  BY NumberType, ModelAssumption DEF Queued, Row, Nobody, NoNumber, RowStatuses
<1>3. number # NoNumber => number = n
  OBVIOUS
<1> HIDE DEF r, dup
<1>4. RowsFine
  BY <1>1, <1>2, <1>3, RowsMarkedAppended DEF RowStatuses
<1>5. PullsFine
  BY PullsClosed DEF Submit
<1>6. StoryFine
  BY StoryMoved DEF Submit, Statuses
<1>7. qaUp' \in [QA -> BOOLEAN] /\ duty' \in [QA -> SUBSET DOMAIN rows]
  BY DEF Submit, checkMergeQueue
<1>8. CrewFine
  BY <1>7, MishapType DEF Submit, CrewFine
<1> QED BY <1>4, <1>5, <1>6, <1>8, ApprovedSame DEF Submit, Fine

LEMMA CompleteFine ==
    ASSUME CoreInv, NEW s \in Story, Complete(s)
    PROVE  Fine
<1> USE DEF CoreInv, QueueTypeOK, qaVars, mgrVars, counts
<1>1. StoryFine
  BY StoryMoved DEF Complete, Statuses
<1> QED BY <1>1, RowsSame, PullsSame, ApprovedSame DEF Complete, Fine, CrewFine

\* Imported rows wait for pull requests that exist.
LEMMA ImportedFine ==
    ASSUME CoreInv, NEW N \in SUBSET DOMAIN pulls, Imported(N)
    PROVE  RowsFine
<1> rows \in Seq(Row) /\ pulls \in Seq(Pull)
  BY DEF CoreInv, QueueTypeOK
<1> DEFINE m == Cardinality(N)
<1>1. m \in Nat
  <2>1. IsFiniteSet(DOMAIN pulls)
    <3>1. DOMAIN pulls = 1 .. Len(pulls) /\ Len(pulls) \in Int
      OBVIOUS
    <3> QED BY <3>1, FS_Interval
  <2> QED BY <2>1, FS_Subset, FS_CardinalityType
<1>2. PICK newest \in [1 .. m -> N] :
        rows' = rows \o [k \in DOMAIN newest |->
                            Queued(pulls[newest[k]].story, pulls[newest[k]].branch, newest[k])]
  BY DEF Imported
<1> DEFINE f == [k \in 1 .. m |-> Queued(pulls[newest[k]].story, pulls[newest[k]].branch, newest[k])]
<1>3. rows' = rows \o f
  BY <1>2
<1>4. ASSUME NEW k \in 1 .. m
      PROVE  /\ f[k] \in Row /\ f[k].status = "queued"
             /\ f[k].number \in DOMAIN pulls /\ f[k].story = pulls[f[k].number].story
  <2> DEFINE n == newest[k]
  <2>1. n \in DOMAIN pulls
    OBVIOUS
  <2>2. n \in 0 .. MaxPulls /\ pulls[n].story \in Story /\ pulls[n].branch \in Branch /\ 0 \in 0 .. Sessions
    BY <2>1, NumberType, ModelAssumption
  <2>3. f[k] = Queued(pulls[n].story, pulls[n].branch, n)
    OBVIOUS
  <2> HIDE DEF n, f
  <2> QED BY <2>1, <2>2, <2>3 DEF Queued, Row, Nobody, RowStatuses
<1>5. f \in [1 .. m -> Row]
  BY <1>4
<1> HIDE DEF m, f
<1>6. /\ rows' \in Seq(Row)
      /\ \A i \in DOMAIN rows : i \in DOMAIN rows' /\ rows'[i] = rows[i]
      /\ \A i \in DOMAIN rows' : i \in DOMAIN rows \/ \E k \in 1 .. m : rows'[i] = f[k]
  <2> DEFINE w == rows \o f
  <2>1. /\ w \in Seq(Row)
        /\ \A i \in DOMAIN rows : i \in DOMAIN w /\ w[i] = rows[i]
        /\ \A i \in DOMAIN w : i \in DOMAIN rows \/ \E k \in 1 .. m : w[i] = f[k]
    <3>1. f \in Seq(Row) /\ Len(f) = m
      BY <1>1, <1>5
    <3>2. w \in Seq(Row) /\ Len(w) = Len(rows) + m
      BY <3>1
    <3>3. \A i \in 1 .. Len(w) : w[i] = IF i <= Len(rows) THEN rows[i] ELSE f[i - Len(rows)]
      BY <1>1, <3>1, <3>2
    <3> HIDE DEF w
    <3>4. Len(rows) \in Nat /\ DOMAIN rows = 1 .. Len(rows) /\ DOMAIN w = 1 .. Len(w)
      BY <3>2
    <3>5. ASSUME NEW i \in DOMAIN w, i \notin DOMAIN rows
          PROVE  \E k \in 1 .. m : w[i] = f[k]
      <4>1. i - Len(rows) \in 1 .. m
        BY <1>1, <3>2, <3>4, <3>5
      <4>2. w[i] = f[i - Len(rows)]
        BY <3>3, <3>4, <3>5
      <4> QED BY <4>1, <4>2
    <3>6. \A i \in DOMAIN rows : i \in DOMAIN w /\ w[i] = rows[i]
      BY <1>1, <3>2, <3>3, <3>4
    <3> QED BY <3>2, <3>5, <3>6
  <2> HIDE DEF w
  <2> QED BY <1>3, <2>1 DEF w
<1>7. \A k \in 1 .. m : f[k].status # "approved"
  BY <1>4
<1> QED BY <1>4, <1>6, <1>7 DEF RowsFine

LEMMA RowType ==
    ASSUME CoreInv, NEW i \in DOMAIN rows
    PROVE  /\ rows[i] \in Row /\ rows[i].story \in Story
           /\ rows[i].number # NoNumber => rows[i].number \in DOMAIN pulls /\ pulls[rows[i].number].story = rows[i].story
<1>1. rows[i] \in Row
  BY DEF CoreInv, QueueTypeOK
<1> QED BY <1>1 DEF CoreInv, QueueTypeOK, RowsInv, Row

LEMMA ImportFine ==
    ASSUME CoreInv, SyncInv, PrSync \/ SyncOpen
    PROVE  Fine
<1> USE DEF qaVars, mgrVars, counts
<1>0. CoreInv => QueueTypeOK
  BY DEF CoreInv
<1>1. CASE PrSync
  <2>1. RowsFine
    BY <1>1, ImportedFine DEF PrSync, Importable
  <2>2. qaUp' \in [QA -> BOOLEAN] /\ duty' \in [QA -> SUBSET DOMAIN rows]
    BY <1>0, <1>1 DEF PrSync, checkMergeQueue, QueueTypeOK
  <2>3. CrewFine
    BY <1>0, <1>1, <2>2 DEF PrSync, CrewFine, QueueTypeOK
  <2> QED BY <1>1, <2>1, <2>3, PullsSame, StorySame, ApprovedSame DEF PrSync, Fine
<1>2. CASE SyncOpen
  <2> DEFINE N == Importable(seen, {})
  <2>1. N \in SUBSET DOMAIN pulls
    BY <1>2 DEF SyncOpen, Ends, Reads, Step, SyncInv, Importable
  <2>2. RowsFine
    BY <1>2, <2>1, RowsSame, ImportedFine DEF SyncOpen
  <2>3. qaUp' \in [QA -> BOOLEAN] /\ duty' \in [QA -> SUBSET DOMAIN rows]
    BY <1>0, <1>2 DEF SyncOpen, checkMergeQueue, QueueTypeOK
  <2>4. CrewFine
    BY <1>0, <1>2, <2>3 DEF SyncOpen, Ends, Reads, CrewFine, QueueTypeOK
  <2> QED BY <1>2, <2>2, <2>4, PullsSame, StorySame, ApprovedSame DEF SyncOpen, Fine
<1> QED BY <1>1, <1>2

LEMMA ProgressFine ==
    ASSUME CoreInv, NEW s \in Story, AutoProgress(s)
    PROVE  Fine
<1> USE DEF qaVars, counts
<1>0. QueueTypeOK
  BY DEF CoreInv
<1>1. RowsFine
  <2>1. CASE UNCHANGED rows
    BY <2>1, RowsSame
  <2>2. CASE \E b \in Branch : rows' = Append(rows, Queued(s, b, NoNumber))
    <3>1. PICK b \in Branch : rows' = Append(rows, Queued(s, b, NoNumber))
      BY <2>2
    <3> DEFINE r == Queued(s, b, NoNumber)
    <3>2. r \in Row /\ r.status = "queued" /\ r.number = NoNumber
      BY ModelAssumption DEF Queued, Row, Nobody, NoNumber, RowStatuses
    <3> HIDE DEF r
    <3> QED BY <3>1, <3>2, RowAppended DEF r
  <2> QED BY <2>1, <2>2 DEF AutoProgress
<1>2. StoryFine
  BY StoryMoved DEF AutoProgress, Statuses
<1>3. qaUp' \in [QA -> BOOLEAN] /\ duty' \in [QA -> SUBSET DOMAIN rows]
  BY <1>0 DEF AutoProgress, checkMergeQueue, QueueTypeOK
<1>4. CrewFine
  BY <1>0, <1>3 DEF AutoProgress, CrewFine, QueueTypeOK
<1> QED BY <1>1, <1>2, <1>4, PullsSame, ApprovedSame DEF AutoProgress, Fine

LEMMA RowAndReviewer ==
    ASSUME CoreInv, NEW i \in DOMAIN rows, NEW q \in QA
    PROVE  rows[i] \in Row /\ q \in 0 .. Sessions
BY RowType, ModelAssumption DEF QA

LEMMA ReviewFine ==
    ASSUME CoreInv, NEW q \in QA, Review(q)
    PROVE  Fine
<1> USE DEF mgrVars, counts
<1>0. QueueTypeOK
  BY DEF CoreInv
<1>1. PICK i \in DOMAIN rows :
        /\ rows' = [rows EXCEPT ![i].status = "reviewing", ![i].by = q]
        /\ duty' = [duty EXCEPT ![q] = @ \cup {i}]
  BY DEF Review, getPrioritizedMergeQueue
<1> DEFINE r == [rows[i] EXCEPT !.status = "reviewing", !.by = q]
<1>2. rows' = [rows EXCEPT ![i] = r]
  BY <1>1
<1>3. r \in Row /\ r.number = rows[i].number /\ r.story = rows[i].story /\ r.status = "reviewing"
  <2> QED BY RowAndReviewer DEF Row, RowStatuses
<1> HIDE DEF r
<1>4. RowsFine
  BY <1>2, <1>3, RowChanged
<1>5. duty' \in [QA -> SUBSET DOMAIN rows]
  BY <1>0, <1>1 DEF QueueTypeOK
<1>6. CrewFine
  BY <1>0, <1>5 DEF Review, CrewFine, QueueTypeOK
<1> QED BY <1>4, <1>6, PullsSame, StorySame, ApprovedSame DEF Review, Fine

\* The verdicts of reviewers, but for the one that merges in the lock.
Judged(q, i) == \/ Reject(q, i) \/ ApproveManual(q, i) \/ ApproveAgain(q, i)
                \/ ApproveMerged(q, i) \/ ApproveDies(q, i) \/ Remark(q, i)

LEMMA VerdictCrew ==
    ASSUME CoreInv, NEW q \in QA, NEW i \in duty[q], Verdict(q, i)
    PROVE  /\ i \in DOMAIN rows /\ duty' \in [QA -> SUBSET DOMAIN rows]
           /\ UNCHANGED <<qaUp, idleQA>> /\ qaUp \in [QA -> BOOLEAN] /\ idleQA \subseteq QA
BY DEF CoreInv, QueueTypeOK, Verdict, mgrVars

LEMMA PullMerged ==
    ASSUME CoreInv, NEW n \in DOMAIN pulls, pulls' = [pulls EXCEPT ![n].state = "merged"], n \in approved'
    PROVE  PullsFine /\ n \in Taken' /\ pulls'[n].story = pulls[n].story
<1> DEFINE pl == [pulls[n] EXCEPT !.state = "merged"]
<1>1. pulls' = [pulls EXCEPT ![n] = pl] /\ pulls[n] \in Pull /\ pulls \in Seq(Pull)
  BY NumberType DEF CoreInv, QueueTypeOK
<1>2. pl \in Pull /\ pl.story = pulls[n].story /\ pl.state = "merged" /\ pl.auto = pulls[n].auto
  BY <1>1 DEF Pull
<1>3. pulls'[n] = pl /\ n \in DOMAIN pulls'
  BY <1>1
<1> HIDE DEF pl
<1> QED BY <1>1, <1>2, <1>3, PullChanged DEF Taken

LEMMA JudgedFine ==
    ASSUME CoreInv, NEW q \in QA, NEW i \in duty[q], Judged(q, i)
    PROVE  Fine
<1> USE DEF counts
<1>0. QueueTypeOK
  BY DEF CoreInv
<1>1. Verdict(q, i)
  BY DEF Judged, Reject, ApproveManual, ApproveAgain, ApproveMerged, ApproveDies, Remark
<1>2. /\ i \in DOMAIN rows /\ duty' \in [QA -> SUBSET DOMAIN rows]
      /\ UNCHANGED <<qaUp, idleQA>> /\ qaUp \in [QA -> BOOLEAN] /\ idleQA \subseteq QA
  BY <1>1, VerdictCrew
<1>3. CASE Reject(q, i)
  <2> DEFINE r == [rows[i] EXCEPT !.status = "rejected", !.by = q]
  <2>1. rows' = [rows EXCEPT ![i] = r] /\ rows[i] \in Row /\ q \in 0 .. Sessions
    BY <1>2, <1>3, RowAndReviewer DEF Reject
  <2>2. r \in Row /\ r.number = rows[i].number /\ r.story = rows[i].story /\ r.status = "rejected"
    BY <2>1 DEF Row, RowStatuses
  <2> HIDE DEF r
  <2>3. RowsFine
    BY <1>2, <2>1, <2>2, RowChanged
  <2>4. StoryFine
    BY <1>3, StoryMoved DEF Reject, Statuses
  <2>5. CrewFine
    BY <1>0, <1>2, <1>3, ModelAssumption DEF Reject, CrewFine, QueueTypeOK
  <2> QED BY <1>3, <2>3, <2>4, <2>5, PullsSame, ApprovedSame DEF Reject, Fine
<1>4. CASE ApproveManual(q, i)
  <2> DEFINE r == [rows[i] EXCEPT !.status = "approved", !.by = q, !.manual = TRUE]
  <2>1. rows' = [rows EXCEPT ![i] = r] /\ rows[i] \in Row /\ q \in 0 .. Sessions
    BY <1>2, <1>4, RowAndReviewer DEF ApproveManual
  <2>2. r \in Row /\ r.number = rows[i].number /\ r.story = rows[i].story
    BY <2>1 DEF Row, RowStatuses
  <2> HIDE DEF r
  <2>3. approved' = approved \cup ({rows[i].number} \ {NoNumber})
    BY <1>4 DEF ApproveManual
  <2>4. RowsFine
    BY <1>2, <2>1, <2>2, <2>3, RowChanged
  <2>5. PullsFine
    BY <1>4, PullsSame DEF ApproveManual
  <2>6. ApprovedFine
    BY <1>0, <1>2, <1>4, <2>3, RowType DEF ApproveManual, ApprovedFine, QueueTypeOK
  <2>7. CrewFine
    BY <1>0, <1>2, <1>4 DEF ApproveManual, CrewFine, QueueTypeOK
  <2> QED BY <1>4, <2>4, <2>5, <2>6, <2>7, StorySame DEF ApproveManual, Fine
<1>5. CASE ApproveAgain(q, i)
  BY <1>0, <1>2, <1>5, Quiet DEF ApproveAgain, queueVars, CrewFine, QueueTypeOK
<1>6. CASE ApproveMerged(q, i)
  <2> DEFINE r == [rows[i] EXCEPT !.status = "merged", !.by = q, !.manual = FALSE]
             n == rows[i].number
  <2>1. rows' = [rows EXCEPT ![i] = r] /\ rows[i] \in Row /\ q \in 0 .. Sessions
    BY <1>2, <1>6, RowAndReviewer DEF ApproveMerged
  <2>2. r \in Row /\ r.number = n /\ r.story = rows[i].story /\ r.status = "merged"
    BY <2>1 DEF Row, RowStatuses
  <2>3. /\ n \in DOMAIN pulls /\ pulls' = [pulls EXCEPT ![n].state = "merged"]
        /\ approved' = approved \cup {n} /\ story' = Moved({rows[i].story}, "merged")
    BY <1>6 DEF ApproveMerged, PullIs
  <2>4. n # NoNumber /\ pulls[n].story = rows[i].story
    BY <1>2, <2>3, NumberType, RowType
  <2> HIDE DEF r, n
  <2>5. RowsFine
    BY <1>2, <2>1, <2>2, RowChanged DEF n
  <2>6. PullsFine /\ n \in Taken' /\ pulls'[n].story = rows[i].story
    BY <2>3, <2>4, PullMerged
  <2>7. StoryFine
    <3>1. \A s \in {rows[i].story} : \E k \in Taken' : pulls'[k].story = s
      BY <2>6
    <3> QED BY <2>3, <2>6, <3>1, StoryMerged
  <2>8. ApprovedFine
    BY <1>0, <2>3, <2>6 DEF ApprovedFine, PullsFine, QueueTypeOK
  <2>9. CrewFine
    BY <1>0, <1>2, <1>6 DEF ApproveMerged, CrewFine, QueueTypeOK
  <2> QED BY <2>5, <2>6, <2>7, <2>8, <2>9 DEF Fine
<1>7. CASE ApproveDies(q, i)
  <2> DEFINE n == rows[i].number
  <2>1. /\ n \in DOMAIN pulls /\ pulls' = [pulls EXCEPT ![n].state = "merged"]
        /\ approved' = approved \cup {n}
    BY <1>7 DEF ApproveDies, PullIs
  <2> HIDE DEF n
  <2>2. PullsFine
    BY <2>1, PullMerged
  <2>3. ApprovedFine
    BY <1>0, <2>1, <2>2 DEF ApprovedFine, PullsFine, QueueTypeOK
  <2>4. CrewFine
    BY <1>0, <1>2, <1>7, MishapType DEF ApproveDies, CrewFine, QueueTypeOK
  <2> QED BY <1>7, <2>2, <2>3, <2>4, RowsSame, StorySame DEF ApproveDies, queueVars, Fine
<1>8. CASE Remark(q, i)
  <2> DEFINE n == rows[i].number
             pl == [pulls[n] EXCEPT !.remarks = TRUE]
  <2>1. n \in DOMAIN pulls /\ pulls' = [pulls EXCEPT ![n] = pl]
    BY <1>8 DEF Remark, PullIs
  <2>2. pulls[n] \in Pull
    BY <2>1, NumberType
  <2>3. pl \in Pull /\ pl.story = pulls[n].story /\ pl.state = pulls[n].state /\ pl.auto = pulls[n].auto
    BY <2>2 DEF Pull
  <2> HIDE DEF n, pl
  <2>4. PullsFine
    BY <2>1, <2>3, PullChanged DEF Taken
  <2>5. CrewFine
    BY <1>0, <1>2, <1>8 DEF Remark, CrewFine, QueueTypeOK
  <2> QED BY <1>8, <2>4, <2>5, RowsSame, StorySame, ApprovedSame DEF Remark, queueVars, Fine
<1> QED BY <1>3, <1>4, <1>5, <1>6, <1>7, <1>8 DEF Judged

\* Settling writes one result to each row that has one.
LEMMA SettledType ==
    ASSUME NEW rw \in Seq(Row), NEW results, \A r \in results : r.to \in Told,
           \A r, t \in results : r.id = t.id => r = t
    PROVE  /\ Settled(rw, results) \in Seq(Row) /\ DOMAIN Settled(rw, results) = DOMAIN rw
           /\ \A i \in DOMAIN rw :
                 /\ Settled(rw, results)[i].number = rw[i].number
                 /\ Settled(rw, results)[i].story = rw[i].story
                 /\ \/ Settled(rw, results)[i].status = rw[i].status
                    \/ \E r \in results : r.id = i /\ Settled(rw, results)[i].status = r.to
<1> DEFINE w == Settled(rw, results)
<1>1. DOMAIN w = DOMAIN rw
  BY DEF Settled
<1>2. ASSUME NEW i \in DOMAIN rw
      PROVE  /\ w[i] \in Row /\ w[i].number = rw[i].number /\ w[i].story = rw[i].story
             /\ w[i].status = rw[i].status \/ \E r \in results : r.id = i /\ w[i].status = r.to
  <2>1. rw[i] \in Row
    OBVIOUS
  <2>2. CASE \E r \in results : r.id = i /\ r.to # "kept"
    <3>1. PICK r \in results : r.id = i /\ r.to # "kept"
      BY <2>2
    <3>2. (CHOOSE t \in results : t.id = i) = r
      BY <3>1
    <3>3. w[i] = [rw[i] EXCEPT !.status = r.to]
      BY <2>2, <3>2 DEF Settled
    <3>4. r.to \in RowStatuses
      BY <3>1 DEF Told, RowStatuses
    <3> HIDE DEF w
    <3> QED BY <2>1, <3>1, <3>3, <3>4 DEF Row
  <2>3. CASE ~\E r \in results : r.id = i /\ r.to # "kept"
    BY <2>1, <2>3 DEF Settled
  <2> QED BY <2>2, <2>3
<1>3. w \in [DOMAIN rw -> Row]
  BY <1>2 DEF Settled
<1>4. w \in Seq(Row)
  BY <1>3, Rewritten
<1> QED BY <1>1, <1>2, <1>4

\* What a call reports as merged, GitHub has taken.
LEMMA OutcomeType ==
    ASSUME NEW p \in Pull, NEW o \in Outcomes(p)
    PROVE  /\ o.pull \in Pull /\ o.pull.story = p.story /\ o.row \in Told
           /\ p.state = "merged" => o.pull.state = "merged"
           /\ p.auto => o.pull.auto
           /\ o.row = "merged" => o.pull.state = "merged" \/ o.pull.auto
<1> DEFINE m == [p EXCEPT !.state = "merged"]
           a == [p EXCEPT !.auto = TRUE]
<1>1. m \in Pull /\ m.story = p.story /\ m.state = "merged" /\ m.auto = p.auto
  BY DEF Pull
<1>2. a \in Pull /\ a.story = p.story /\ a.state = p.state /\ a.auto
  BY DEF Pull
<1>3. p.state \in {"open", "merged", "closed"}
  BY DEF Pull
<1>4. CASE p.state # "open"
  BY <1>3, <1>4 DEF Outcomes, Outcome, Told
<1>5. CASE p.state = "open"
  <2>1. \/ o.pull = m /\ o.row = "merged"
        \/ o.pull = a /\ o.row \in {"kept", "merged"}
        \/ o.pull = p /\ o.row \in {"approved", "kept"}
    <3>1. o \in {Outcome("merged", m, FALSE), Outcome("kept", a, FALSE), Outcome("merged", a, TRUE),
                 Outcome("approved", p, TRUE), Outcome("kept", p, TRUE)}
      BY <1>5 DEF Outcomes
    <3> HIDE DEF m, a
    <3> QED BY <3>1 DEF Outcome
  <2> HIDE DEF m, a
  <2> QED BY <1>1, <1>2, <1>5, <2>1 DEF Told
<1> QED BY <1>4, <1>5

\* Auto-merge inside the lock of approve, after a row became approved.
LEMMA InLock ==
    ASSUME CoreInv, approved \subseteq approved',
           NEW rw \in Seq(Row), DOMAIN rw = DOMAIN rows,
           \A i \in DOMAIN rw : rw[i].number = rows[i].number /\ rw[i].story = rows[i].story,
           \A i \in DOMAIN rw : rw[i].status = "approved" => rw[i].number \in {NoNumber} \cup approved',
           AutoMergeInLock(rw)
    PROVE  RowsFine /\ PullsFine /\ StoryFine /\ mishaps' \in 0 .. MaxMishaps
<1> DEFINE C == Claimable(rw)
<1>0. QueueTypeOK
  BY DEF CoreInv
<1>1. PICK how \in [C -> UNION {Outcomes(pulls[n]) : n \in DOMAIN pulls}] :
        /\ \A i \in C : how[i] \in Outcomes(pulls[rw[i].number])
        /\ \A i, j \in C : rw[i].number = rw[j].number => how[i] = how[j]
        /\ rows' = Settled(Marked(rw, C, "queued"), {[id |-> i, to |-> how[i].row] : i \in C})
        /\ story' = Moved(StoriesOf(rw, {[id |-> i, to |-> how[i].row] : i \in C}), "merged")
        /\ pulls' = [n \in DOMAIN pulls |->
                       IF \E i \in C : rw[i].number = n
                       THEN (CHOOSE o \in {how[i] : i \in {j \in C : rw[j].number = n}} : TRUE).pull
                       ELSE pulls[n]]
        /\ Fault(\E i \in C : how[i].fault)
  BY Zenon DEF AutoMergeInLock
<1> DEFINE to == {[id |-> i, to |-> how[i].row] : i \in C}
<1>2. ASSUME NEW i \in C
      PROVE  /\ i \in DOMAIN rows /\ rw[i].number \in DOMAIN pulls /\ rw[i].number \in approved'
             /\ pulls[rw[i].number] \in Pull /\ pulls[rw[i].number].story = rw[i].story
             /\ pulls'[rw[i].number] = how[i].pull
  <2>1. i \in DOMAIN rows /\ rw[i].status = "approved" /\ rw[i].number # NoNumber
    BY DEF Claimable, With
  <2>2. rw[i].number \in DOMAIN pulls /\ pulls[rw[i].number].story = rw[i].story
    BY <2>1, RowType
  <2>3. pulls[rw[i].number] \in Pull
    BY <2>2, NumberType
  <2> DEFINE H == {how[k] : k \in {j \in C : rw[j].number = rw[i].number}}
  <2>4. how[i] \in H /\ \A o \in H : o = how[i]
    BY <1>1
  <2>5. (CHOOSE o \in H : TRUE) = how[i]
    BY <2>4
  <2>6. pulls'[rw[i].number] = (CHOOSE o \in H : TRUE).pull
    BY <1>1, <2>2
  <2> QED BY <2>1, <2>2, <2>3, <2>5, <2>6
<1>3. ASSUME NEW n \in DOMAIN pulls
      PROVE  /\ pulls'[n] \in Pull /\ pulls'[n].story = pulls[n].story
             /\ pulls[n].state = "merged" => pulls'[n].state = "merged"
             /\ pulls[n].auto => pulls'[n].auto
             /\ pulls'[n] = pulls[n] \/ n \in approved'
  <2>1. CASE \E i \in C : rw[i].number = n
    <3>1. PICK i \in C : rw[i].number = n
      BY <2>1
    <3>2. how[i] \in Outcomes(pulls[n])
      BY <1>1, <3>1
    <3>3. pulls'[n] = how[i].pull /\ pulls[n] \in Pull /\ n \in approved'
      BY <1>2, <3>1
    <3> QED BY <3>2, <3>3, OutcomeType
  <2>2. CASE ~\E i \in C : rw[i].number = n
    BY <1>1, <2>2, NumberType
  <2> QED BY <2>1, <2>2
<1>4. PullsFine
  <2>1. pulls \in Seq(Pull) /\ DOMAIN pulls' = DOMAIN pulls
    BY <1>0, <1>1 DEF QueueTypeOK
  <2>2. pulls' \in [DOMAIN pulls -> Pull]
    BY <1>1, <1>3, <2>1
  <2>3. pulls' \in Seq(Pull) /\ Len(pulls') = Len(pulls)
    BY <2>1, <2>2, Rewritten
  <2>4. Taken' \subseteq Taken \cup approved'
    BY <1>3, <2>1 DEF Taken
  <2> QED BY <1>3, <2>1, <2>3, <2>4 DEF PullsFine, CoreInv, Taken, Landed
<1>5. \A r \in to : /\ r.id \in C /\ r.to \in Told
                    /\ r.to = "merged" => rw[r.id].number \in Taken'
  <2>1. SUFFICES ASSUME NEW i \in C
                 PROVE  how[i].row \in Told /\ (how[i].row = "merged" => rw[i].number \in Taken')
    OBVIOUS
  <2>2. /\ how[i].row \in Told
        /\ how[i].row = "merged" => how[i].pull.state = "merged" \/ how[i].pull.auto
    <3>1. pulls[rw[i].number] \in Pull /\ how[i] \in Outcomes(pulls[rw[i].number])
      BY <1>1, <1>2
    <3> QED BY <3>1, OutcomeType
  <2>3. DOMAIN pulls' = DOMAIN pulls
    BY <1>1
  <2> QED BY <1>2, <2>2, <2>3 DEF Taken
<1>6. RowsFine
  <2> DEFINE m == Marked(rw, C, "queued")
  <2>1. /\ m \in Seq(Row) /\ DOMAIN m = DOMAIN rows
        /\ \A i \in DOMAIN rows : /\ m[i].number = rows[i].number /\ m[i].story = rows[i].story
                                  /\ m[i].status = IF i \in C THEN "queued" ELSE rw[i].status
    BY MarkedType DEF RowStatuses
  <2>2. \A r, t \in to : r.id = t.id => r = t
    OBVIOUS
  <2>3. rows' = Settled(m, to)
    BY <1>1
  <2> HIDE DEF m, to
  <2>4. /\ rows' \in Seq(Row) /\ DOMAIN rows' = DOMAIN m
        /\ \A i \in DOMAIN m : /\ rows'[i].number = m[i].number /\ rows'[i].story = m[i].story
                               /\ rows'[i].status = m[i].status \/ \E r \in to : r.id = i
    <3>1. \A r \in to : r.to \in Told
      BY <1>5
    <3> QED BY <2>1, <2>2, <2>3, <3>1, SettledType
  <2>5. ASSUME NEW i \in DOMAIN rows, rows'[i].status = "approved"
        PROVE  rows[i].number \in {NoNumber} \cup approved'
    <3>1. CASE i \in C
      BY <1>2, <3>1
    <3>2. CASE i \notin C
      <4>1. rows'[i].status = m[i].status
        BY <1>5, <2>1, <2>4, <3>2
      <4>2. rw[i].status = "approved"
        BY <2>1, <2>5, <3>2, <4>1
      <4> QED BY <4>2
    <3> QED BY <3>1, <3>2
  <2> QED BY <2>1, <2>4, <2>5 DEF RowsFine
<1>7. StoryFine
  <2>1. \A s \in StoriesOf(rw, to) : \E n \in Taken' : pulls'[n].story = s
    <3>1. ASSUME NEW r \in to, r.to = "merged"
          PROVE  rw[r.id].number \in Taken' /\ pulls'[rw[r.id].number].story = rw[r.id].story
      BY <1>2, <1>3, <1>5, <3>1
    <3> HIDE DEF to
    <3> QED BY <3>1 DEF StoriesOf
  <2> QED BY <1>1, <1>4, <2>1, StoryMerged
<1>8. mishaps' \in 0 .. MaxMishaps
  BY <1>1, MishapType
<1> QED BY <1>4, <1>6, <1>7, <1>8

LEMMA ApproveOnlyFine ==
    ASSUME CoreInv, NEW q \in QA, NEW i \in duty[q], ApproveOnly(q, i)
    PROVE  Fine
<1> DEFINE n == rows[i].number
           r == [rows[i] EXCEPT !.status = "approved", !.by = q, !.manual = FALSE]
           rw == [rows EXCEPT ![i] = r]
<1>0. QueueTypeOK
  BY DEF CoreInv
<1>1. /\ i \in DOMAIN rows /\ duty' \in [QA -> SUBSET DOMAIN rows]
      /\ UNCHANGED <<qaUp, idleQA>> /\ qaUp \in [QA -> BOOLEAN] /\ idleQA \subseteq QA
  BY VerdictCrew DEF ApproveOnly
<1>2. /\ approved' = approved \cup ({n} \ {NoNumber})
      /\ AutoMergeInLock(rw) /\ UNCHANGED <<verdicts, deaths>>
  BY DEF ApproveOnly
<1>3. rows[i] \in Row /\ q \in 0 .. Sessions /\ rows \in Seq(Row)
  BY <1>0, <1>1, RowAndReviewer DEF QueueTypeOK
<1>4. r \in Row /\ r.number = n /\ r.story = rows[i].story
  BY <1>3 DEF Row, RowStatuses
<1> HIDE DEF r
<1>5. rw \in Seq(Row) /\ DOMAIN rw = DOMAIN rows
  BY <1>1, <1>3, <1>4, Overwritten
<1>6. \A k \in DOMAIN rw : rw[k] = IF k = i THEN r ELSE rows[k]
  BY <1>3
<1>7. \A k \in DOMAIN rw : rw[k].number = rows[k].number /\ rw[k].story = rows[k].story
  BY <1>4, <1>6
<1>8. ASSUME NEW k \in DOMAIN rw, rw[k].status = "approved"
      PROVE  rw[k].number \in {NoNumber} \cup approved'
  <2>1. CASE k = i
    BY <1>2, <1>7, <2>1
  <2>2. CASE k # i
    BY <1>2, <1>5, <1>6, <1>8, <2>2 DEF CoreInv, RowsInv, With
  <2> QED BY <2>1, <2>2
<1> HIDE DEF rw
<1>9. RowsFine /\ PullsFine /\ StoryFine /\ mishaps' \in 0 .. MaxMishaps
  BY <1>2, <1>5, <1>7, <1>8, InLock
<1>10. ApprovedFine
  BY <1>0, <1>1, <1>2, <1>9, RowType DEF ApprovedFine, PullsFine, QueueTypeOK
<1>11. CrewFine
  BY <1>0, <1>1, <1>2, <1>9 DEF CrewFine, QueueTypeOK
<1> QED BY <1>9, <1>10, <1>11 DEF Fine

LEMMA CheckCrew ==
    ASSUME CoreInv, UNCHANGED <<qaVars, counts>>, idleQA' \in {idleQA, {}}
    PROVE  CrewFine
BY DEF CoreInv, QueueTypeOK, qaVars, counts, CrewFine

\* The manager's auto-merge, in three steps.
LEMMA AutoMergeFine ==
    ASSUME IInv, AutoMergeClaim \/ AutoMergeUpdate
    PROVE  Fine
<1> CoreInv
  BY DEF IInv
<1>1. CASE AutoMergeClaim
  <2>1. RowsFine
    BY <1>1, RowsMarked DEF AutoMergeClaim, RowStatuses
  <2> QED BY <1>1, <2>1, PullsSame, StorySame, ApprovedSame, CheckCrew DEF AutoMergeClaim, Reads, Fine
<1>2. CASE AutoMergeUpdate
  <2>1. /\ \A r \in seen : ToldOf(r)
        /\ \A r, t \in seen : r.id = t.id => r = t
    BY <1>2 DEF IInv, StepInv, MergeInv, AutoMergeUpdate, Ends, Reads, Step
  <2>2. /\ rows' \in Seq(Row) /\ DOMAIN rows' = DOMAIN rows
        /\ \A i \in DOMAIN rows :
              /\ rows'[i].number = rows[i].number /\ rows'[i].story = rows[i].story
              /\ rows'[i].status = rows[i].status \/ \E r \in seen : r.id = i /\ rows'[i].status = r.to
    <3>1. rows \in Seq(Row) /\ rows' = Settled(rows, seen)
      BY <1>2 DEF AutoMergeUpdate, CoreInv, QueueTypeOK
    <3>2. \A r \in seen : r.to \in Told
      BY <2>1 DEF ToldOf
    <3> QED BY <2>1, <3>1, <3>2, SettledType
  <2>3. UNCHANGED approved
    BY <1>2 DEF AutoMergeUpdate
  <2>4. RowsFine
    BY <2>1, <2>2, <2>3 DEF RowsFine, ToldOf
  <2>5. PullsFine
    BY <1>2, PullsSame DEF AutoMergeUpdate
  <2>6. ASSUME NEW r \in seen, r.to = "merged"
        PROVE  rows[r.id].number \in Taken' /\ pulls'[rows[r.id].number].story = rows[r.id].story
    <3>1. r.id \in DOMAIN rows /\ rows[r.id].number # NoNumber /\ rows[r.id].number \in Taken
      BY <2>1, <2>6 DEF ToldOf
    <3>2. rows[r.id].number \in DOMAIN pulls /\ pulls[rows[r.id].number].story = rows[r.id].story
      BY <3>1, RowType
    <3> QED BY <2>5, <3>1, <3>2 DEF PullsFine
  <2>7. StoryFine
    <3>1. \A s \in StoriesOf(rows, seen) : \E n \in Taken' : pulls'[n].story = s
      BY <2>6 DEF StoriesOf
    <3> QED BY <1>2, <2>5, <3>1, StoryMerged DEF AutoMergeUpdate
  <2>8. CrewFine
    BY <1>2, CheckCrew DEF AutoMergeUpdate, Ends, Reads
  <2> QED BY <2>3, <2>4, <2>5, <2>7, <2>8, ApprovedSame DEF Fine
<1> QED BY <1>1, <1>2

LEMMA CallFine ==
    ASSUME IInv, NEW i \in DOMAIN rows, AutoMergeCall(i)
    PROVE  /\ Fine
           /\ \E o \in Outcomes(pulls[rows[i].number]) :
                 /\ seen' = seen \cup {[id |-> i, to |-> o.row]}
                 /\ rows[i].number # NoNumber /\ rows[i].number \in approved
                 /\ o.row \in Told /\ (o.row = "merged" => rows[i].number \in Taken')
<1> CoreInv
  BY DEF IInv
<1> DEFINE n == rows[i].number
<1>0. QueueTypeOK
  BY DEF CoreInv
<1>1. n \in approved /\ n \in DOMAIN pulls
  BY <1>0 DEF IInv, StepInv, MergeInv, AutoMergeCall, QueueTypeOK
<1>2. n # NoNumber /\ pulls[n] \in Pull
  BY <1>1, NumberType
<1>3. PICK o \in Outcomes(pulls[n]) :
        /\ seen' = seen \cup {[id |-> i, to |-> o.row]}
        /\ pulls' = [pulls EXCEPT ![n] = o.pull]
        /\ Fault(o.fault)
  BY DEF AutoMergeCall
<1> HIDE DEF n
<1>4. /\ o.pull \in Pull /\ o.pull.story = pulls[n].story /\ o.row \in Told
      /\ pulls[n].state = "merged" => o.pull.state = "merged"
      /\ pulls[n].auto => o.pull.auto
      /\ o.row = "merged" => o.pull.state = "merged" \/ o.pull.auto
  BY <1>2, OutcomeType
<1>5. approved' = approved
  BY DEF AutoMergeCall
<1>6. PullsFine
  BY <1>1, <1>3, <1>4, <1>5, PullChanged
<1>7. CrewFine
  BY <1>0, <1>3, MishapType DEF AutoMergeCall, qaVars, CrewFine, QueueTypeOK
<1>8. Fine
  BY <1>6, <1>7, RowsSame, StorySame, ApprovedSame DEF AutoMergeCall, queueVars, Fine
<1>9. o.row = "merged" => n \in Taken'
  BY <1>0, <1>1, <1>3, <1>4 DEF Taken, QueueTypeOK
<1> QED BY <1>1, <1>2, <1>3, <1>4, <1>8, <1>9 DEF n

\* Steps that mark rows and stories after GitHub was asked.
Marking == SyncMerged \/ RecoverReviewing \/ AutoReject \/ HandleRejected

LEMMA RowsMarkedTwice ==
    ASSUME CoreInv, NEW I, NEW J, NEW st \in RowStatuses \ {"approved"}, NEW su \in RowStatuses \ {"approved"},
           rows' = Marked(Marked(rows, I, st), J, su)
    PROVE  RowsFine
<1> DEFINE m == Marked(rows, I, st)
<1> rows \in Seq(Row)
  BY DEF CoreInv, QueueTypeOK
<1>1. m \in Seq(Row) /\ DOMAIN m = DOMAIN rows
      /\ \A i \in DOMAIN rows : /\ m[i].number = rows[i].number /\ m[i].story = rows[i].story
                                /\ m[i].status = IF i \in I THEN st ELSE rows[i].status
  BY MarkedType
<1>2. rows' = Marked(m, J, su)
  OBVIOUS
<1> HIDE DEF m
<1>3. rows' \in Seq(Row) /\ DOMAIN rows' = DOMAIN m
      /\ \A i \in DOMAIN m : /\ rows'[i].number = m[i].number /\ rows'[i].story = m[i].story
                             /\ rows'[i].status = IF i \in J THEN su ELSE m[i].status
  BY <1>1, <1>2, MarkedType
<1> QED BY <1>1, <1>3 DEF RowsFine

LEMMA MarkingFine ==
    ASSUME IInv, Marking
    PROVE  Fine
<1> CoreInv
  BY DEF IInv
<1>0. PullsFine /\ ApprovedFine
  BY PullsSame, ApprovedSame DEF Marking, SyncMerged, RecoverReviewing, AutoReject, HandleRejected
<1>1. CrewFine
  BY CheckCrew DEF Marking, SyncMerged, RecoverReviewing, AutoReject, HandleRejected, Ends, Reads
<1>2. CASE SyncMerged
  <2>1. \A n \in seen : n \in Landed
    BY <1>2 DEF SyncMerged, Ends, Reads, Step, IInv, StepInv, SyncInv
  <2>2. \A n \in seen : n \in Taken' /\ pulls'[n].story = pulls[n].story
    BY <1>0, <2>1 DEF PullsFine, Landed, Taken
  <2>3. \A s \in {pulls[n].story : n \in seen} : \E n \in Taken' : pulls'[n].story = s
    BY <2>2
  <2>4. StoryFine
    BY <1>0, <1>2, <2>3, StoryMerged DEF SyncMerged
  <2> QED BY <1>0, <1>1, <1>2, <2>4, RowsSame DEF SyncMerged, Fine
<1>3. CASE RecoverReviewing
  <2> DEFINE still(st) == {r.id : r \in {x \in seen : x.to = st}} \cap With(rows, {"reviewing"})
  <2>1. /\ rows' = Marked(Marked(rows, still("merged"), "merged"), still("closed"), "rejected")
        /\ story' = Moved({rows[i].story : i \in still("merged")}, "merged")
    BY <1>3 DEF RecoverReviewing
  <2>2. RowsFine
    BY <2>1, RowsMarkedTwice DEF RowStatuses
  <2>3. ASSUME NEW i \in still("merged")
        PROVE  rows[i].number \in Taken' /\ pulls'[rows[i].number].story = rows[i].story
    <3>1. i \in DOMAIN rows /\ rows[i].number \in Landed
      BY <1>3, <2>3 DEF RecoverReviewing, Ends, Reads, Step, IInv, StepInv, ViewInv
    <3>2. rows[i].number \in DOMAIN pulls /\ pulls[rows[i].number].story = rows[i].story
      BY <3>1, NumberType, RowType DEF Landed
    <3> QED BY <1>0, <3>1, <3>2 DEF PullsFine, Landed, Taken
  <2> HIDE DEF still
  <2>4. \A s \in {rows[i].story : i \in still("merged")} : \E n \in Taken' : pulls'[n].story = s
    BY <2>3
  <2>5. StoryFine
    BY <1>0, <2>1, <2>4, StoryMerged
  <2> QED BY <1>0, <1>1, <2>2, <2>5 DEF Fine
<1>4. CASE AutoReject \/ HandleRejected
  <2>1. RowsFine
    BY <1>4, RowsMarked DEF AutoReject, HandleRejected, RowStatuses
  <2>2. StoryFine
    BY <1>4, StoryMoved DEF AutoReject, HandleRejected, Statuses
  <2> QED BY <1>0, <1>1, <2>1, <2>2 DEF Fine
<1> QED BY <1>2, <1>3, <1>4 DEF Marking

LEMMA NotifyFine ==
    ASSUME CoreInv, NotifyQA
    PROVE  Fine
<1> DEFINE queue == getPrioritizedMergeQueue(rows)
           of(i) == {q \in idleQA \ Busy : Turn(q, idleQA \ Busy) = Turn(i, queue)}
<1>0. QueueTypeOK
  BY DEF CoreInv
<1>1. /\ rows' = [i \in DOMAIN rows |->
                    IF i \in queue /\ of(i) # {}
                    THEN [rows[i] EXCEPT !.status = "reviewing", !.by = CHOOSE q \in of(i) : TRUE]
                    ELSE rows[i]]
      /\ duty' = [q \in QA |-> IF qaUp[q] THEN duty[q] \cup {i \in queue : q \in of(i)} ELSE {}]
      /\ idleQA' = idleQA /\ UNCHANGED <<story, qaAgents, qaUp, pulls, counts, approved>>
  BY Zenon DEF NotifyQA, Ends, Reads
<1>2. queue \subseteq DOMAIN rows
  BY DEF getPrioritizedMergeQueue
<1>3. ASSUME NEW i \in DOMAIN rows, of(i) # {}
      PROVE  (CHOOSE q \in of(i) : TRUE) \in QA
  <2>1. of(i) \subseteq QA
    BY <1>0 DEF QueueTypeOK
  <2> QED BY <1>3, <2>1
<1> HIDE DEF queue, of
<1>4. ASSUME NEW i \in DOMAIN rows
      PROVE  /\ rows'[i] \in Row /\ rows'[i].number = rows[i].number /\ rows'[i].story = rows[i].story
             /\ rows'[i].status = "approved" => rows[i].status = "approved"
  <2>1. rows[i] \in Row
    BY RowType
  <2>2. CASE i \in queue /\ of(i) # {}
    <3>1. PICK q \in QA : rows'[i] = [rows[i] EXCEPT !.status = "reviewing", !.by = q]
      BY <1>1, <1>3, <2>2
    <3>2. q \in 0 .. Sessions
      BY RowAndReviewer
    <3> QED BY <2>1, <3>1, <3>2 DEF Row, RowStatuses
  <2>3. CASE ~(i \in queue /\ of(i) # {})
    BY <1>1, <2>1, <2>3
  <2> QED BY <2>2, <2>3
<1>5. RowsFine
  <2>1. rows \in Seq(Row) /\ DOMAIN rows' = DOMAIN rows
    BY <1>0, <1>1 DEF QueueTypeOK
  <2>2. rows' \in [DOMAIN rows -> Row]
    BY <1>1, <1>4
  <2>3. rows' \in Seq(Row)
    BY <2>1, <2>2, Rewritten
  <2> QED BY <1>4, <2>1, <2>3 DEF RowsFine
<1>6. duty' \in [QA -> SUBSET DOMAIN rows]
  BY <1>0, <1>1, <1>2 DEF QueueTypeOK
<1>7. CrewFine
  BY <1>0, <1>1, <1>6 DEF CrewFine, QueueTypeOK, counts
<1> QED BY <1>1, <1>5, <1>7, PullsSame, StorySame, ApprovedSame DEF Fine

\* Every step is Fine.
LEMMA StepFine ==
    ASSUME IInv, Next
    PROVE  Fine
<1> CoreInv /\ SyncInv
  BY DEF IInv, StepInv
<1>1. CASE Check
  BY <1>1, NotedFine, AutoMergeFine, MarkingFine, ImportFine, OutsideFine, NotifyFine, CallFine
  DEF Check, Noted, Marking, Outside
<1>2. CASE \E q \in QA : \E i \in duty[q] : DecideOn(q, i) \/ ApproveDies(q, i) \/ Remark(q, i)
  BY <1>2, JudgedFine, ApproveOnlyFine DEF DecideOn, Judged
<1>3. CASE \/ \E s \in Story, b \in Branch : OpenPull(s, b)
           \/ \E n \in DOMAIN pulls : Lands(n) \/ HumanCloses(n)
  BY <1>3, OutsideFine DEF Outside
<1>4. CASE \E n \in DOMAIN pulls, form \in Forms : Submit(n, form)
  BY <1>4, SubmitFine
<1>5. CASE \E s \in Story : Complete(s) \/ AutoProgress(s)
  BY <1>5, CompleteFine, ProgressFine
<1>6. CASE \E q \in QA : Review(q) \/ QADies(q)
  BY <1>6, ReviewFine, NotedFine DEF Noted
<1>7. CASE PrSync \/ ManagerDies
  BY <1>7, ImportFine, NotedFine DEF Noted
<1> QED BY <1>1, <1>2, <1>3, <1>4, <1>5, <1>6, <1>7 DEF Next

-----------------------------------------------------------------------------
(* What the manager holds between its steps stays true while others act.   *)

LEMMA Kept ==
    ASSUME CoreInv, Fine
    PROVE  /\ \A i \in DOMAIN rows : i \in DOMAIN rows' /\ rows'[i].number = rows[i].number
           /\ Taken \subseteq Taken' /\ Landed \subseteq Landed' /\ approved \subseteq approved'
           /\ DOMAIN pulls \subseteq DOMAIN pulls'
BY DEF Fine, RowsFine, PullsFine, ApprovedFine, Taken, Landed

LEMMA Stays ==
    ASSUME IInv, Fine, UNCHANGED <<at, todo, seen>>
    PROVE  StepInv'
<1>0. /\ \A i \in DOMAIN rows : i \in DOMAIN rows' /\ rows'[i].number = rows[i].number
      /\ Taken \subseteq Taken' /\ Landed \subseteq Landed' /\ approved \subseteq approved'
      /\ DOMAIN pulls \subseteq DOMAIN pulls'
  BY Kept DEF IInv
<1>1. MergeInv'
  <2> SUFFICES ASSUME at = "merge"
               PROVE  MergeInv'
    BY DEF MergeInv
  <2>1. \A i \in todo : i \in DOMAIN rows' /\ rows'[i].number \in approved'
    BY <1>0 DEF IInv, StepInv, MergeInv
  <2>2. \A r \in seen : ToldOf(r)'
    BY <1>0 DEF IInv, StepInv, MergeInv, ToldOf
  <2> QED BY <2>1, <2>2 DEF IInv, StepInv, MergeInv
<1>2. SyncInv'
  BY <1>0 DEF IInv, StepInv, SyncInv
<1>3. ViewInv'
  BY <1>0 DEF IInv, StepInv, ViewInv
<1> QED BY <1>1, <1>2, <1>3 DEF StepInv

LEMMA ClaimStep ==
    ASSUME IInv, Fine, AutoMergeClaim
    PROVE  StepInv'
<1>1. at' = "merge" /\ seen' = {} /\ todo' = Claimable(rows)
  BY DEF AutoMergeClaim, Reads, Step
<1>2. \A i \in Claimable(rows) : i \in DOMAIN rows /\ rows[i].number \in approved
  BY DEF Claimable, With, IInv, CoreInv, RowsInv
<1>3. \A i \in todo' : i \in DOMAIN rows' /\ rows'[i].number \in approved'
  BY <1>1, <1>2, Kept DEF IInv
<1> QED BY <1>1, <1>3 DEF StepInv, MergeInv, SyncInv, ViewInv

LEMMA CallStep ==
    ASSUME IInv, NEW i \in DOMAIN rows, AutoMergeCall(i)
    PROVE  StepInv'
<1>1. PICK o \in Outcomes(pulls[rows[i].number]) :
        /\ seen' = seen \cup {[id |-> i, to |-> o.row]}
        /\ rows[i].number # NoNumber /\ rows[i].number \in approved
        /\ o.row \in Told /\ (o.row = "merged" => rows[i].number \in Taken')
  BY CallFine
<1>2. at = "merge" /\ at' = "merge" /\ i \in todo /\ todo' = todo \ {i} /\ UNCHANGED <<rows, approved>>
  BY DEF AutoMergeCall, queueVars
<1>3. Fine
  BY CallFine
<1>4. Taken \subseteq Taken'
  BY <1>3, Kept DEF IInv
<1> DEFINE t == [id |-> i, to |-> o.row]
<1>5. t.id = i /\ t.to = o.row
  OBVIOUS
<1> HIDE DEF t
<1>6. \A r \in seen : ToldOf(r) /\ r.id # i /\ r.id \notin todo
  BY <1>2 DEF IInv, StepInv, MergeInv
<1>7. \A r \in seen' : ToldOf(r)' /\ r.id \notin todo'
  <2>1. ToldOf(t)'
    BY <1>1, <1>2, <1>5 DEF ToldOf
  <2>2. \A r \in seen : ToldOf(r)'
    BY <1>2, <1>4, <1>6 DEF ToldOf
  <2> QED BY <1>1, <1>2, <1>5, <1>6, <2>1, <2>2 DEF t
<1>8. \A r, u \in seen' : r.id = u.id => r = u
  BY <1>1, <1>2, <1>5, <1>6 DEF IInv, StepInv, MergeInv, t
<1>9. \A k \in todo' : k \in DOMAIN rows' /\ rows'[k].number \in approved'
  BY <1>2 DEF IInv, StepInv, MergeInv
<1> QED BY <1>2, <1>7, <1>8, <1>9 DEF StepInv, MergeInv, SyncInv, ViewInv

LEMMA ListStep ==
    ASSUME IInv, Fine, ListMerged \/ ListOpen
    PROVE  StepInv'
<1>1. pulls' = pulls
  BY DEF ListMerged, ListOpen, List
<1>2. CASE ListMerged
  <2>1. at' = "syncMerged" /\ seen' \subseteq Listed({"merged"})
    BY <1>2 DEF ListMerged, List, Brings, Step
  <2> QED BY <1>1, <2>1 DEF StepInv, MergeInv, SyncInv, ViewInv, Listed, Landed
<1>3. CASE ListOpen
  <2>1. at' = "import" /\ seen' \subseteq Listed({"open"})
    BY <1>3 DEF ListOpen, List, Brings, Step
  <2> QED BY <1>1, <2>1 DEF StepInv, MergeInv, SyncInv, ViewInv, Listed
<1> QED BY <1>2, <1>3

LEMMA ViewStep ==
    ASSUME IInv, Fine, ReviewingRead \/ \E i \in DOMAIN rows : ReviewingView(i)
    PROVE  StepInv'
<1>1. rows' = rows /\ pulls' = pulls
  BY DEF ReviewingRead, ReviewingView, queueVars
<1>2. CASE ReviewingRead
  <2>1. at' = "view" /\ seen' = {} /\ \A i \in todo' : i \in DOMAIN rows /\ rows[i].number # NoNumber
    BY <1>2 DEF ReviewingRead, Reads, Step, With
  <2> QED BY <1>1, <2>1 DEF StepInv, MergeInv, SyncInv, ViewInv
<1>3. ASSUME NEW i \in DOMAIN rows, ReviewingView(i)
      PROVE  StepInv'
  <2> DEFINE t == [id |-> i, to |-> pulls[rows[i].number].state]
  <2>1. /\ at = "view" /\ at' = "view" /\ i \in todo /\ todo' = todo \ {i}
        /\ seen' \subseteq seen \cup {t}
    BY <1>3 DEF ReviewingView
  <2>2. rows[i].number \in DOMAIN pulls
    BY <2>1, RowType DEF IInv, StepInv, ViewInv
  <2>3. t.to = "merged" => t.id \in DOMAIN rows /\ rows[t.id].number \in Landed
    BY <2>2 DEF Landed
  <2> HIDE DEF t
  <2>4. \A r \in seen' : r.to = "merged" => r.id \in DOMAIN rows /\ rows[r.id].number \in Landed
    BY <2>1, <2>3 DEF IInv, StepInv, ViewInv
  <2>5. Landed' = Landed
    BY <1>1 DEF Landed
  <2> QED BY <1>1, <2>1, <2>4, <2>5 DEF IInv, StepInv, MergeInv, SyncInv, ViewInv
<1> QED BY <1>2, <1>3

\* The other steps of the check bring nothing into these three.
LEMMA Elsewhere ==
    ASSUME at' \notin {"merge", "syncMerged", "import", "view"}
    PROVE  StepInv'
BY DEF StepInv, MergeInv, SyncInv, ViewInv

LEMMA CheckStep ==
    ASSUME IInv, Fine, Check
    PROVE  StepInv'
<1>1. CASE \E i \in DOMAIN rows : AutoMergeCall(i)
  BY <1>1, CallStep
<1>2. CASE ReviewingRead \/ \E i \in DOMAIN rows : ReviewingView(i)
  BY <1>2, ViewStep
<1>3. CASE AutoMergeClaim \/ ListMerged \/ ListOpen
  BY <1>3, ClaimStep, ListStep
<1>4. CASE \/ HealthCheck \/ CheckMergeQueue \/ AutoMergeUpdate \/ SyncMerged \/ SyncOpen
           \/ StaleRead \/ CloseStale \/ RecoverReviewing
  BY <1>4, Elsewhere
  DEF HealthCheck, CheckMergeQueue, AutoMergeUpdate, SyncMerged, SyncOpen, StaleRead, CloseStale,
      RecoverReviewing, Ends, Reads, Step
<1>5. CASE \/ ListSessions \/ NotifyQA \/ FeedbackRead \/ FeedbackView \/ AutoReject
           \/ HandleRejected \/ StuckRead \/ CheckEnds
  BY <1>5, Elsewhere
  DEF ListSessions, NotifyQA, FeedbackRead, FeedbackView, AutoReject, HandleRejected, StuckRead,
      CheckEnds, Ends, Reads, Brings, Step
<1> QED BY <1>1, <1>2, <1>3, <1>4, <1>5 DEF Check

LEMMA IInvStep ==
    ASSUME IInv, [Next]_vars
    PROVE  IInv'
<1>1. CASE Next
  <2>1. Fine /\ CoreInv'
    BY <1>1, StepFine, FineStep DEF IInv
  <2>2. StepInv'
    <3>1. CASE Check
      BY <2>1, <3>1, CheckStep
    <3>2. CASE (\E s \in Story : AutoProgress(s)) \/ ManagerDies
      BY <3>2, Elsewhere DEF AutoProgress, ManagerDies
    <3>3. CASE \/ \E s \in Story, b \in Branch : OpenPull(s, b)
               \/ \E n \in DOMAIN pulls, form \in Forms : Submit(n, form)
               \/ \E n \in DOMAIN pulls : Lands(n) \/ HumanCloses(n)
               \/ \E s \in Story : Complete(s)
               \/ \E q \in QA : Review(q) \/ QADies(q)
               \/ PrSync
      BY <2>1, <3>3, Stays DEF OpenPull, Submit, Lands, HumanCloses, Complete, Review, QADies, PrSync, mgrVars
    <3>4. CASE \E q \in QA : \E i \in duty[q] : DecideOn(q, i) \/ ApproveDies(q, i) \/ Remark(q, i)
      BY <2>1, <3>4, Stays
      DEF DecideOn, ApproveMerged, ApproveOnly, ApproveManual, ApproveAgain, Reject, ApproveDies,
          Remark, Verdict, mgrVars
    <3> QED BY <1>1, <3>1, <3>2, <3>3, <3>4 DEF Next
  <2> QED BY <2>1, <2>2 DEF IInv, StepInv
<1>2. CASE UNCHANGED vars
  <2>1. UNCHANGED <<story, rows, pulls, approved, qaVars, counts, idleQA, at, todo, seen>>
    BY <1>2 DEF vars, queueVars, mgrVars
  <2>2. Fine
    BY <2>1, Quiet, CheckCrew DEF IInv
  <2> QED BY <2>1, <2>2, FineStep, Stays DEF IInv, StepInv
<1> QED BY <1>1, <1>2

LEMMA IInvInit == Init => IInv
<1> SUFFICES ASSUME Init
             PROVE  IInv
  OBVIOUS
<1>1. QueueTypeOK
  <2>1. rows = <<>> /\ pulls = <<>>
    BY DEF Init
  <2>2. rows \in Seq(Row) /\ pulls \in Seq(Pull) /\ DOMAIN rows = {} /\ DOMAIN pulls = {}
    BY <2>1
  <2> QED BY <2>2, ModelAssumption DEF Init, QueueTypeOK, Statuses, QA
<1>2. DOMAIN rows = {} /\ Taken = {} /\ Len(pulls) = 0 /\ at = "rest"
  BY DEF Init, Taken
<1> QED BY <1>1, <1>2, ModelAssumption
  DEF Init, IInv, StepInv, CoreInv, RowsInv, StoryInv, MergeInv, SyncInv, ViewInv, With

-----------------------------------------------------------------------------
\* The tables, GitHub's pull requests and the reviewers' duties keep their types: a row
\* names a pull request that exists, reviewers know rows that exist (the tables of
\* pull_requests and stories, for any bounds).
LEMMA QueueType == Spec => []QueueTypeOK
BY IInvInit, IInvStep, PTL DEF Spec, IInv, CoreInv

LEMMA IInvInside == IInv => Inside
<1> SUFFICES ASSUME IInv
             PROVE  Inside
  OBVIOUS
<1>1. Taken \subseteq approved /\ Landed \subseteq Taken /\ StoryInv
  BY DEF IInv, CoreInv, Taken, Landed
<1>2. Landed = Listed({"merged"})
  BY DEF Landed, Listed
<1> QED BY <1>1, <1>2 DEF Inside, Promise!Inside, Of, StoryInv, Taken

\* Whatever order submissions, verdicts, merges, syncs, crashes and failures come in:
\* GitHub has taken only what a reviewer approved, and a story is recorded as merged only
\* if GitHub has taken a change of it.
THEOREM OnlyApproved == Spec => []Inside
BY IInvInside, IInvInit, IInvStep, PTL DEF Spec

Recorded == {s \in Story : story[s] = "merged"}

LEMMA DeliverStep ==
    ASSUME IInv, [Next]_vars
    PROVE  Promise!Deliver
<1>1. IInv' /\ Inside'
  <2>1. IInv'
    BY IInvStep
  <2>2. (IInv => Inside)'
    BY IInvInside, PTL
  <2> QED BY <2>1, <2>2
<1>2. Fine
  <2>1. CASE UNCHANGED vars
    BY <2>1, Quiet, CheckCrew DEF IInv, vars, queueVars, mgrVars
  <2> QED BY <2>1, StepFine
<1>3. \A n \in DOMAIN pulls : n \in DOMAIN pulls' /\ pulls'[n].story = pulls[n].story
  BY <1>2 DEF Fine, PullsFine
<1>4. /\ Taken \subseteq Taken' /\ Landed \subseteq Landed' /\ approved \subseteq approved'
      /\ Taken \subseteq DOMAIN pulls /\ Landed \subseteq DOMAIN pulls /\ approved \subseteq DOMAIN pulls
  BY <1>2, Kept DEF IInv, CoreInv, QueueTypeOK, Taken, Landed
<1>5. /\ Of(approved) \subseteq Of(approved)' /\ Of(Taken) \subseteq Of(Taken)'
      /\ Of(Landed) \subseteq Of(Landed)'
  BY <1>3, <1>4 DEF Of
<1>6. Of(approved)' \subseteq Story /\ Of(Taken)' \subseteq Story /\ Of(Landed)' \subseteq Story
  <2>1. \A n \in DOMAIN pulls' : pulls'[n].story \in Story
    <3>1. \A n \in DOMAIN pulls' : pulls'[n] \in Pull
      BY <1>1 DEF IInv, CoreInv, QueueTypeOK
    <3> QED BY <3>1 DEF Pull
  <2>2. approved' \subseteq DOMAIN pulls' /\ Taken' \subseteq DOMAIN pulls' /\ Landed' \subseteq DOMAIN pulls'
    BY <1>1 DEF IInv, CoreInv, QueueTypeOK, Taken, Landed
  <2> QED BY <2>1, <2>2 DEF Of
<1>7. /\ Listed({"merged"}) = Landed /\ Listed({"merged"})' = Landed'
  BY DEF Listed, Landed
<1>8. Recorded' \in SUBSET Story
  BY DEF Recorded
<1>9. /\ Of(approved)' = Of(approved) \cup Of(approved)'
      /\ Of(Taken)' = Of(Taken) \cup Of(Taken)'
      /\ Of(Landed)' = Of(Landed) \cup Of(Landed)'
  BY <1>5
<1> QED BY <1>1, <1>6, <1>7, <1>8, <1>9 DEF Promise!Deliver, Inside, Taken, Recorded

\* The queue implements the safety part of Delivery: it starts as Delivery does, and each
\* of its steps approves, merges and records as a step of Delivery may, so that no approval,
\* and nothing that landed, is taken back.
THEOREM Refinement == Spec => Promise!Init /\ [][Promise!Deliver]_(Promise!dvars)
<1>1. Init => Promise!Init
  BY DEF Init, Promise!Init, Of, Listed
<1>2. IInv /\ [Next]_vars => [Promise!Deliver]_(Promise!dvars)
  BY DeliverStep
<1> QED BY <1>1, <1>2, IInvInit, IInvStep, PTL DEF Spec
-----------------------------------------------------------------------------
(* Sums.  Active adds up qaAgents with SumFunction, which takes the places *)
(* one by one in an order of its own.  What it comes to is shown of the    *)
(* sums over all sets of places, where a smallest set is looked at that    *)
(* would have it otherwise.                                                *)

Pick(s) == CHOOSE x \in s : TRUE
SumsOver(f, K, h) == h = [s \in K |-> IF s = {} THEN 0 ELSE f[Pick(s)] + h[s \ {Pick(s)}]]
SumsIn(f, D) == CHOOSE h : SumsOver(f, SUBSET D, h)

LEMMA SumIs ==
    ASSUME NEW f, NEW D, DOMAIN f = D
    PROVE  SumFunction(f) = SumsIn(f, D)[D]
BY DEF SumFunction, SumFunctionOnSet, FoldFunctionOnSet, MapThenFoldSet, SumsIn, SumsOver, Pick

LEMMA Least ==
    ASSUME NEW S, S \subseteq Nat, S # {}
    PROVE  \E m \in S : \A k \in S : m <= k
<1>1. PICK m \in S : \A k \in S : ~(<<k, m>> \in OpToRel(<, Nat))
  BY NatLessThanWellFounded, WFMin
<1>2. \A k \in S : ~(k < m)
  BY <1>1 DEF OpToRel
<1>3. \A k \in S : m <= k
  BY <1>2
<1> QED BY <1>3

\* Of some sets of places, one has none of the others with one place less.
LEMMA Smallest ==
    ASSUME NEW D, IsFiniteSet(D), NEW B, B \subseteq SUBSET D, B # {}
    PROVE  \E S \in B : \A x \in S : S \ {x} \notin B
<1> DEFINE sizes == {Cardinality(S) : S \in B}
<1>1. \A S \in B : IsFiniteSet(S) /\ Cardinality(S) \in Nat
  BY FS_Subset, FS_CardinalityType
<1>a. sizes \subseteq Nat /\ sizes # {}
  BY <1>1
<1>2. PICK m \in sizes : \A k \in sizes : m <= k
  <2> HIDE DEF sizes
  <2> QED BY <1>a, Least
<1>3. PICK S \in B : Cardinality(S) = m
  BY <1>2
<1>4. ASSUME NEW x \in S, S \ {x} \in B
      PROVE  FALSE
  <2>1. Cardinality(S \ {x}) = Cardinality(S) - 1
    BY <1>1, <1>4, FS_RemoveElement
  <2>2. Cardinality(S) <= Cardinality(S \ {x})
    BY <1>2, <1>3, <1>4
  <2> QED BY <1>1, <2>1, <2>2
<1> QED BY <1>4

LEMMA Picked == ASSUME NEW S, S # {}
                PROVE  Pick(S) \in S
BY DEF Pick

LEMMA SumsExist ==
    ASSUME NEW f, NEW D, IsFiniteSet(D)
    PROVE  \E h : SumsOver(f, SUBSET D, h)
<1> DEFINE Sub(k) == {s \in SUBSET D : Cardinality(s) <= k}
           Upto(k) == \E h : SumsOver(f, Sub(k), h)
           Bad == {k \in Nat : ~Upto(k)}
<1>0. \A s \in SUBSET D : IsFiniteSet(s) /\ Cardinality(s) \in Nat
  BY FS_Subset, FS_CardinalityType
<1>a. \A s \in SUBSET D : s # {} => /\ s \ {Pick(s)} \in SUBSET D
                                    /\ Cardinality(s \ {Pick(s)}) = Cardinality(s) - 1
  BY <1>0, Picked, FS_RemoveElement
<1> HIDE DEF Upto
<1>1. Bad = {}
  <2> SUFFICES ASSUME Bad # {}
               PROVE  FALSE
    OBVIOUS
  <2>1. PICK m \in Bad : \A k \in Bad : m <= k
    BY Least
  <2>2. m \in Nat /\ ~Upto(m)
    BY <2>1
  <2>3. CASE m = 0
    <3> DEFINE g == [s \in Sub(0) |-> 0]
    <3>1. \A s \in Sub(0) : s = {}
      BY <1>0, FS_EmptySet
    <3>2. g = [s \in Sub(0) |-> IF s = {} THEN 0 ELSE f[Pick(s)] + g[s \ {Pick(s)}]]
      BY <3>1
    <3> QED BY <2>2, <2>3, <3>2 DEF Upto, SumsOver
  <2>4. CASE m # 0
    <3>1. m - 1 \in Nat /\ m - 1 \notin Bad
      BY <2>1, <2>2, <2>4
    <3>2. PICK h : SumsOver(f, Sub(m - 1), h)
      BY <3>1 DEF Upto
    <3>3. \A s \in Sub(m - 1) : h[s] = IF s = {} THEN 0 ELSE f[Pick(s)] + h[s \ {Pick(s)}]
      BY <3>2 DEF SumsOver
    <3> DEFINE g == [s \in Sub(m) |-> IF s = {} THEN 0 ELSE f[Pick(s)] + h[s \ {Pick(s)}]]
    <3>4. \A s \in Sub(m - 1) : s \in Sub(m) /\ g[s] = h[s]
      BY <1>0, <2>2, <3>3
    <3>5. \A s \in Sub(m) : s # {} => s \ {Pick(s)} \in Sub(m - 1)
      BY <1>0, <1>a, <2>2
    <3>6. ASSUME NEW s \in Sub(m)
          PROVE  g[s] = IF s = {} THEN 0 ELSE f[Pick(s)] + g[s \ {Pick(s)}]
      <4>1. CASE s = {}
        BY <4>1
      <4>2. CASE s # {}
        <5>1. g[s \ {Pick(s)}] = h[s \ {Pick(s)}]
          BY <3>4, <3>5, <4>2
        <5>2. g[s] = f[Pick(s)] + h[s \ {Pick(s)}]
          BY <4>2
        <5> QED BY <4>2, <5>1, <5>2
      <4> QED BY <4>1, <4>2
    <3>7. g = [s \in Sub(m) |-> g[s]]
      OBVIOUS
    <3> HIDE DEF g, Sub
    <3>8. g = [s \in Sub(m) |-> IF s = {} THEN 0 ELSE f[Pick(s)] + g[s \ {Pick(s)}]]
      BY <3>6, <3>7
    <3> QED BY <2>2, <3>8 DEF Upto, SumsOver
  <2> QED BY <2>3, <2>4
<1>2. Cardinality(D) \in Nat /\ Sub(Cardinality(D)) = SUBSET D
  BY <1>0, FS_Subset
<1> HIDE DEF Sub, Bad
<1>3. Upto(Cardinality(D))
  BY <1>1, <1>2 DEF Bad
<1> QED BY <1>2, <1>3 DEF Upto

Adds(f, D, h) ==
    /\ h[{}] = 0
    /\ \A s \in SUBSET D : s # {} => h[s] = f[Pick(s)] + h[s \ {Pick(s)}]
    /\ \A s \in SUBSET D : h[s] \in Nat

\* The sum over all places, and how those over a set of them are made up.
LEMMA SumOver ==
    ASSUME NEW D, IsFiniteSet(D), NEW f \in [D -> Nat]
    PROVE  \E h : SumFunction(f) = h[D] /\ Adds(f, D, h)
<1> DEFINE h == SumsIn(f, D)
<1>1. SumsOver(f, SUBSET D, h)
  BY SumsExist DEF SumsIn
<1> HIDE DEF h
<1>2. h[{}] = 0 /\ \A s \in SUBSET D : s # {} => h[s] = f[Pick(s)] + h[s \ {Pick(s)}]
  BY <1>1 DEF SumsOver
<1>3. \A s \in SUBSET D : h[s] \in Nat
  <2> DEFINE B == {s \in SUBSET D : h[s] \notin Nat}
  <2> SUFFICES ASSUME B # {}
               PROVE  FALSE
    OBVIOUS
  <2>1. PICK S \in B : \A x \in S : S \ {x} \notin B
    BY Smallest
  <2>2. S \in SUBSET D /\ h[S] \notin Nat
    OBVIOUS
  <2>3. S # {}
    <3>1. S = {} => h[S] = 0
      BY <1>2, Zenon
    <3> QED BY <2>2, <3>1
  <2>4. Pick(S) \in S
    BY <2>3, Picked
  <2>5. h[S \ {Pick(S)}] \in Nat /\ f[Pick(S)] \in Nat
    BY <2>1, <2>2, <2>4
  <2>6. h[S] = f[Pick(S)] + h[S \ {Pick(S)}]
    BY <1>2, <2>2, <2>3
  <2> QED BY <2>2, <2>5, <2>6
<1>4. SumFunction(f) = h[D]
  BY SumIs DEF h
<1> QED BY <1>2, <1>3, <1>4 DEF Adds

LEMMA SumAtLeast ==
    ASSUME NEW D, IsFiniteSet(D), NEW f \in [D -> Nat]
    PROVE  SumFunction(f) \in Nat /\ \A d \in D : f[d] <= SumFunction(f)
<1>1. PICK h : SumFunction(f) = h[D] /\ Adds(f, D, h)
  BY SumOver
<1> USE DEF Adds
<1>2. ASSUME NEW d \in D
      PROVE  f[d] <= h[D]
  <2> DEFINE B == {s \in SUBSET D : d \in s /\ ~(f[d] <= h[s])}
  <2> SUFFICES ASSUME B # {}
               PROVE  FALSE
    OBVIOUS
  <2>1. PICK S \in B : \A x \in S : S \ {x} \notin B
    BY Smallest
  <2>2. S # {} /\ Pick(S) \in S /\ S \subseteq D /\ d \in S /\ ~(f[d] <= h[S])
    BY <2>1, Picked
  <2>3. h[S] = f[Pick(S)] + h[S \ {Pick(S)}] /\ h[S \ {Pick(S)}] \in Nat /\ f[Pick(S)] \in Nat /\ f[d] \in Nat
    BY <1>1, <2>2
  <2>4. Pick(S) # d
    BY <2>2, <2>3
  <2>5. f[d] <= h[S \ {Pick(S)}]
    BY <2>1, <2>2, <2>4
  <2> QED BY <2>2, <2>3, <2>5
<1> QED BY <1>1, <1>2

LEMMA SumPlus ==
    ASSUME NEW D, IsFiniteSet(D), NEW f \in [D -> Nat], NEW g \in [D -> Nat], NEW k \in [D -> Nat],
           \A d \in D : k[d] = f[d] + g[d]
    PROVE  SumFunction(k) = SumFunction(f) + SumFunction(g)
<1>1. PICK hf : SumFunction(f) = hf[D] /\ Adds(f, D, hf)
  BY SumOver
<1>2. PICK hg : SumFunction(g) = hg[D] /\ Adds(g, D, hg)
  BY SumOver
<1>3. PICK hk : SumFunction(k) = hk[D] /\ Adds(k, D, hk)
  BY SumOver
<1> USE DEF Adds
<1> DEFINE B == {s \in SUBSET D : hk[s] # hf[s] + hg[s]}
<1> SUFFICES ASSUME B # {}
             PROVE  FALSE
  BY <1>1, <1>2, <1>3
<1>4. PICK S \in B : \A x \in S : S \ {x} \notin B
  BY Smallest
<1>5. S # {} /\ Pick(S) \in S /\ S \subseteq D /\ hk[S] # hf[S] + hg[S]
  <2>1. S \in SUBSET D /\ hk[S] # hf[S] + hg[S]
    OBVIOUS
  <2>2. S # {}
    <3>1. S = {} => hk[S] = 0 /\ hf[S] = 0 /\ hg[S] = 0
      BY <1>1, <1>2, <1>3, Zenon
    <3> QED BY <2>1, <3>1
  <2> QED BY <2>1, <2>2, Picked
<1> DEFINE d == Pick(S)
           R == S \ {d}
<1>6. /\ hk[R] = hf[R] + hg[R] /\ hf[R] \in Nat /\ hg[R] \in Nat
      /\ k[d] = f[d] + g[d] /\ f[d] \in Nat /\ g[d] \in Nat
  BY <1>1, <1>2, <1>4, <1>5
<1>7. hk[S] = k[d] + hk[R] /\ hf[S] = f[d] + hf[R] /\ hg[S] = g[d] + hg[R]
  BY <1>1, <1>2, <1>3, <1>5
<1> HIDE DEF d, R
<1> QED BY <1>5, <1>6, <1>7

\* The sum of a one at each place of A.
LEMMA SumOfOnes ==
    ASSUME NEW D, IsFiniteSet(D), NEW A \in SUBSET D
    PROVE  SumFunction([d \in D |-> IF d \in A THEN 1 ELSE 0]) = Cardinality(A)
<1> DEFINE f == [d \in D |-> IF d \in A THEN 1 ELSE 0]
<1>0. f \in [D -> Nat] /\ \A d \in D : f[d] = IF d \in A THEN 1 ELSE 0
  OBVIOUS
<1> HIDE DEF f
<1>1. PICK h : SumFunction(f) = h[D] /\ Adds(f, D, h)
  BY <1>0, SumOver
<1> USE DEF Adds
<1> DEFINE B == {s \in SUBSET D : h[s] # Cardinality(s \cap A)}
<1>2. B = {}
  <2> SUFFICES ASSUME B # {}
               PROVE  FALSE
    OBVIOUS
  <2>1. PICK S \in B : \A x \in S : S \ {x} \notin B
    BY Smallest
  <2>2. S # {}
    <3>1. {} \cap A = {}
      OBVIOUS
    <3> QED BY <1>1, <2>1, <3>1, FS_EmptySet
  <2> DEFINE d == Pick(S)
             R == S \ {d}
  <2>3. d \in S /\ S \subseteq D
    BY <2>1, <2>2, Picked
  <2>4. h[R] = Cardinality(R \cap A)
    BY <2>1, <2>3
  <2>5. h[S] = f[d] + h[R]
    BY <1>1, <2>2, <2>3
  <2>6. R \cap A = (S \cap A) \ {d}
    OBVIOUS
  <2>7. IsFiniteSet(S \cap A) /\ Cardinality(S \cap A) \in Nat
    BY <2>3, FS_Subset, FS_CardinalityType
  <2>8. Cardinality(R \cap A) = IF d \in A THEN Cardinality(S \cap A) - 1 ELSE Cardinality(S \cap A)
    <3>1. Cardinality((S \cap A) \ {d}) = IF d \in S \cap A THEN Cardinality(S \cap A) - 1
                                                             ELSE Cardinality(S \cap A)
      <4> DEFINE T == S \cap A
      <4>1. IsFiniteSet(T)
        BY <2>7
      <4> HIDE DEF d, T
      <4>2. Cardinality(T \ {d}) = IF d \in T THEN Cardinality(T) - 1 ELSE Cardinality(T)
        BY <4>1, FS_RemoveElement
      <4> QED BY <4>2 DEF T
    <3> QED BY <2>3, <2>6, <3>1
  <2>9. f[d] = IF d \in A THEN 1 ELSE 0
    BY <1>0, <2>3
  <2>10. h[S] # Cardinality(S \cap A)
    BY <2>1
  <2> HIDE DEF d, R
  <2> QED BY <2>4, <2>5, <2>7, <2>8, <2>9, <2>10
<1>3. h[D] = Cardinality(D \cap A) /\ D \cap A = A
  BY <1>2
<1> QED BY <1>1, <1>3 DEF f

-----------------------------------------------------------------------------
(* The reviewers: scaleQAAgents() adds to those that are active, or takes  *)
(* some of them away, until they are as many as are needed.                *)

CountOK == qaAgents \in [QA -> Nat] /\ Active <= Sessions

LEMMA QAIsFinite == IsFiniteSet(QA) /\ Sessions \in Nat
BY ModelAssumption, FS_Interval DEF QA

LEMMA NeededIs ==
    ASSUME NEW st, NEW rw
    PROVE  Needed(st, rw) \in Int /\ Needed(st, rw) <= Sessions
<1> DEFINE n == (Cardinality(Pending(st, rw)) + PerReviewer - 1) \div PerReviewer
<1>1. IsFiniteSet(Pending(st, rw))
  BY ModelAssumption, FS_Subset DEF Pending
<1>2. Cardinality(Pending(st, rw)) \in Nat
  BY <1>1, FS_CardinalityType
<1>3. n \in Int
  <2> DEFINE c == Cardinality(Pending(st, rw))
  <2>1. c \in Nat
    BY <1>2
  <2> HIDE DEF c
  <2>2. (c + PerReviewer - 1) \div PerReviewer \in Int
    BY <2>1, ModelAssumption
  <2> QED BY <2>2 DEF c
<1> HIDE DEF n
<1>4. Sessions \in Nat
  BY ModelAssumption
<1>5. Needed(st, rw) = Min({n, Sessions})
  BY DEF Needed, n
<1>6. \E m \in {n, Sessions} : \A k \in {n, Sessions} : m <= k
  BY <1>3, <1>4
<1>7. Min({n, Sessions}) \in {n, Sessions} /\ Min({n, Sessions}) <= Sessions
  BY <1>6 DEF Min
<1> QED BY <1>3, <1>4, <1>5, <1>7

LEMMA CountLowered ==
    ASSUME CountOK, NEW gone, gone \in [QA -> Nat], \A q \in QA : gone[q] <= qaAgents[q],
           qaAgents' = [q \in QA |-> qaAgents[q] - gone[q]]
    PROVE  CountOK'
<1>1. qaAgents \in [QA -> Nat] /\ IsFiniteSet(QA) /\ Active <= Sessions /\ Sessions \in Nat
  BY QAIsFinite DEF CountOK
<1>2. qaAgents' \in [QA -> Nat] /\ \A q \in QA : qaAgents[q] = qaAgents'[q] + gone[q]
  <2>1. \A q \in QA : gone[q] \in Nat /\ qaAgents[q] \in Nat /\ gone[q] <= qaAgents[q]
    BY <1>1
  <2>2. \A q \in QA : qaAgents[q] - gone[q] \in Nat /\ qaAgents[q] = (qaAgents[q] - gone[q]) + gone[q]
    BY <2>1
  <2> QED BY <2>2
<1>3. SumFunction(qaAgents) = SumFunction(qaAgents') + SumFunction(gone)
  BY <1>1, <1>2, SumPlus
<1>4. SumFunction(qaAgents) \in Nat /\ SumFunction(qaAgents') \in Nat /\ SumFunction(gone) \in Nat
  BY <1>1, <1>2, SumAtLeast
<1>5. Active' <= Active /\ Active' \in Nat /\ Active \in Nat
  BY <1>3, <1>4 DEF Active
<1> QED BY <1>1, <1>2, <1>5 DEF CountOK

LEMMA ScaledCount ==
    ASSUME CountOK, NEW st, NEW rw, checkMergeQueue(st, rw)
    PROVE  CountOK'
<1> DEFINE N == Needed(st, rw)
           more == Active + 1 .. N
<1>1. N \in Int /\ N <= Sessions /\ IsFiniteSet(QA) /\ Sessions \in Nat
  BY NeededIs, QAIsFinite
<1>2. qaAgents \in [QA -> Nat] /\ Active \in Nat
  BY <1>1, SumAtLeast DEF CountOK, Active
<1>3. CASE Active <= N /\ qaAgents' = [q \in QA |-> qaAgents[q] + (IF q \in more THEN 1 ELSE 0)]
  <2> DEFINE ones == [q \in QA |-> IF q \in more THEN 1 ELSE 0]
  <2> HIDE DEF N
  <2>1. more \in SUBSET QA
    BY <1>1, <1>2 DEF QA
  <2>2. Cardinality(more) = N - Active
    <3>1. Cardinality(more) = IF Active + 1 > N THEN 0 ELSE N - (Active + 1) + 1
      BY <1>1, <1>2, FS_Interval
    <3> QED BY <1>1, <1>2, <1>3, <3>1
  <2> HIDE DEF more
  <2>3. SumFunction(ones) = Cardinality(more)
    BY <1>1, <2>1, SumOfOnes
  <2>4. ones \in [QA -> Nat] /\ qaAgents' \in [QA -> Nat]
        /\ \A q \in QA : qaAgents'[q] = qaAgents[q] + ones[q]
    BY <1>2, <1>3
  <2> HIDE DEF ones
  <2>5. SumFunction(qaAgents') = SumFunction(qaAgents) + SumFunction(ones)
    BY <1>1, <1>2, <2>4, SumPlus
  <2>6. Active' = N
    BY <1>1, <1>2, <2>2, <2>3, <2>5 DEF Active
  <2> QED BY <1>1, <2>4, <2>6 DEF CountOK
<1>4. ASSUME NEW gone \in [QA -> 0 .. Sessions], \A q \in QA : gone[q] <= qaAgents[q],
             qaAgents' = [q \in QA |-> qaAgents[q] - gone[q]]
      PROVE  CountOK'
  BY <1>4, <1>2, CountLowered
<1> QED BY <1>3, <1>4 DEF checkMergeQueue

LEMMA HealthCount ==
    ASSUME CountOK, HealthCheck
    PROVE  CountOK'
<1> DEFINE gone == [q \in QA |-> IF qaUp[q] THEN 0 ELSE qaAgents[q]]
<1>1. qaAgents' = [q \in QA |-> IF qaUp[q] THEN qaAgents[q] ELSE 0] /\ qaAgents \in [QA -> Nat]
  BY DEF HealthCheck, CountOK
<1>2. gone \in [QA -> Nat] /\ \A q \in QA : gone[q] <= qaAgents[q]
  BY <1>1
<1>3. qaAgents' = [q \in QA |-> qaAgents[q] - gone[q]]
  BY <1>1
<1> HIDE DEF gone
<1> QED BY <1>2, <1>3, CountLowered

LEMMA CountStep ==
    ASSUME CountOK, [Next]_vars
    PROVE  CountOK'
<1> USE DEF qaVars
<1>1. ASSUME UNCHANGED qaAgents
      PROVE  CountOK'
  BY <1>1 DEF CountOK, Active
<1>2. CASE Check
  <2>1. CASE HealthCheck
    BY <2>1, HealthCount
  <2>2. CASE CheckMergeQueue \/ SyncOpen
    BY <1>1, <2>2, ScaledCount DEF CheckMergeQueue, SyncOpen
  <2>3. CASE \/ AutoMergeClaim \/ AutoMergeUpdate \/ ListMerged \/ SyncMerged \/ ListOpen \/ StaleRead
             \/ CloseStale \/ ReviewingRead \/ RecoverReviewing
             \/ \E i \in DOMAIN rows : AutoMergeCall(i) \/ ReviewingView(i)
    BY <1>1, <2>3
    DEF AutoMergeClaim, AutoMergeUpdate, ListMerged, SyncMerged, ListOpen, List, StaleRead, CloseStale,
        ReviewingRead, RecoverReviewing, AutoMergeCall, ReviewingView
  <2>4. CASE \/ ListSessions \/ NotifyQA \/ FeedbackRead \/ FeedbackView \/ AutoReject
             \/ HandleRejected \/ StuckRead \/ CheckEnds
    <3>1. CASE NotifyQA
      <4>1. qaAgents' = qaAgents
        BY <3>1, Zenon DEF NotifyQA
      <4> QED BY <1>1, <4>1
    <3>2. CASE ~NotifyQA
      BY <1>1, <2>4, <3>2
      DEF ListSessions, FeedbackRead, FeedbackView, AutoReject, HandleRejected, StuckRead, CheckEnds
    <3> QED BY <3>1, <3>2
  <2> QED BY <1>2, <2>1, <2>2, <2>3, <2>4 DEF Check
<1>3. CASE \E q \in QA : \E i \in duty[q] : DecideOn(q, i) \/ ApproveDies(q, i) \/ Remark(q, i)
  BY <1>1, <1>3 DEF DecideOn, ApproveMerged, ApproveOnly, ApproveManual, ApproveAgain, Reject,
                    ApproveDies, Remark, Verdict
<1>4. CASE (\E n \in DOMAIN pulls, form \in Forms : Submit(n, form)) \/ PrSync
  BY <1>4, ScaledCount DEF Submit, PrSync
<1>5. CASE \E s \in Story : AutoProgress(s)
  BY <1>1, <1>5, ScaledCount DEF AutoProgress
<1>6. CASE \/ \E s \in Story, b \in Branch : OpenPull(s, b)
           \/ \E n \in DOMAIN pulls : Lands(n) \/ HumanCloses(n)
           \/ \E s \in Story : Complete(s)
           \/ \E q \in QA : Review(q) \/ QADies(q)
           \/ ManagerDies
  BY <1>1, <1>6 DEF OpenPull, Lands, HumanCloses, Complete, Review, QADies, ManagerDies
<1>7. CASE UNCHANGED vars
  BY <1>1, <1>7 DEF vars
<1> QED BY <1>2, <1>3, <1>4, <1>5, <1>6, <1>7 DEF Next

LEMMA CountInit == Init => CountOK
<1> SUFFICES ASSUME Init
             PROVE  CountOK
  OBVIOUS
<1>1. qaAgents = [q \in QA |-> IF q \in {} THEN 1 ELSE 0] /\ qaAgents \in [QA -> Nat]
  BY DEF Init
<1>2. Active = Cardinality({})
  BY <1>1, QAIsFinite, SumOfOnes DEF Active
<1> QED BY <1>1, <1>2, QAIsFinite, FS_EmptySet DEF CountOK

LEMMA CountBounds == CountOK => qaAgents \in [QA -> 0 .. Sessions]
<1> SUFFICES ASSUME CountOK
             PROVE  qaAgents \in [QA -> 0 .. Sessions]
  OBVIOUS
<1>1. /\ qaAgents \in [QA -> Nat] /\ Active \in Nat /\ Active <= Sessions /\ Sessions \in Nat
      /\ \A q \in QA : qaAgents[q] <= Active
  BY QAIsFinite, SumAtLeast DEF CountOK, Active
<1>2. \A q \in QA : qaAgents[q] \in 0 .. Sessions
  BY <1>1
<1> QED BY <1>1, <1>2

\* However submissions, syncs, progress and the manager's checks scale them, and whichever
\* of them die: no more reviewers are active than max_agents, over all sessions together
\* (scaleQAAgents() of the scheduler, called by four handlers).
THEOREM ReviewersBounded == Spec => [](Active <= Sessions)
BY CountInit, CountStep, PTL DEF Spec, CountOK

\* Every variable has its type, the number of reviewers in each session included.
THEOREM TypeCorrect == Spec => []TypeOK
<1>1. QueueTypeOK /\ CountOK => TypeOK
  BY CountBounds DEF TypeOK
<1> QED BY <1>1, QueueType, CountInit, CountStep, PTL DEF Spec
=============================================================================
