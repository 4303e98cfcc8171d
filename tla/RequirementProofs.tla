-------------------------- MODULE RequirementProofs ---------------------------
(***************************************************************************)
(* Theorems about Requirement, for any requirements and stories and for    *)
(* any number of troubles: what the tables say of a requirement is true    *)
(* and, where no two requirements share a team, what is merged to main was *)
(* tested.                                                                 *)
(*                                                                         *)
(* The code never asks whether a requirement was signed off before.  That  *)
(* it is signed off once is what the verdicts rest on, and it holds for    *)
(* two reasons that stand in for each other.  A requirement that is        *)
(* planned again goes back to in_progress only when it has no branch, and  *)
(* without a failure of git it has one (GitInv); and it is planned again   *)
(* only when it gets more stories, which without a restart of the tech     *)
(* lead it does not (AskedOnce).                                           *)
(***************************************************************************)
EXTENDS Requirement, WellFoundedInduction, TLAPS

-----------------------------------------------------------------------------
(* The invariant.                                                          *)

Calm == trouble \cap {"hasty", "races"} = {} /\ ~Repeated

Steps == {"handoff", "promote", "promoted", "lead", "leadKilled", "assign", "signOff", "results", "act"}
Handoff == [kind : {"handoff"}, req : Req, S : SUBSET Story]
Spawned == [kind : {"spawn"}, req : Req]
Result  == [kind : {"PASSED", "FAILED", "merged", "error"}, row : DOMAIN testers]

\* What a step of the check has read is what that step reads.
Todo ==
    /\ at \in Steps
    /\ at \in {"promote", "promoted"} => todo \subseteq Handoff
    /\ at = "signOff" => todo \subseteq Spawned
    /\ at = "act" => todo \subseteq Result
    /\ at \notin {"promote", "promoted", "signOff", "act"} => todo = {}
    /\ at = "leadKilled" => "restart" \in trouble

Handoffs == IF at \in {"promote", "promoted"} THEN todo ELSE {}
Handed == \A h \in Handoffs : h.S # {} /\ \A s \in h.S : Of[s] = h.req /\ stories[s].status # "none"

\* Nothing is written for a requirement before it is submitted.
Fresh == \A r \in Req : reqs[r].status = "none" =>
             r \notin asked /\ \A s \in Story : Of[s] = r => stories[s].status = "none"

\* The requirement was signed off: a test agent got its name.
SignedOff(r) == \E i \in DOMAIN testers : testers[i].named /\ testers[i].req = r
Early == {"none", "planning", "planned"}
Over  == {"sign_off", "sign_off_passed", "sign_off_failed"}

\* Without a restart of the tech lead the stories of a requirement are written at once, and
\* are planned at once.
AskedOf(r) ==
    /\ r \in asked =>
          reqs[r].status = "planning" /\ \A s \in Story : Of[s] = r => stories[s].status = "none"
    /\ \A s, u \in Story : Of[s] = r /\ Of[u] = r /\ stories[s].status = "estimated" =>
          reqs[r].status \in {"planning", "planned"} /\ stories[u].status \in {"none", "estimated"}
    /\ \A h \in Handoffs : h.req = r =>
          ~SignedOff(r) /\ \A s \in Story : Of[s] = r /\ stories[s].status # "none" => s \in h.S
    /\ SignedOff(r) =>
          reqs[r].status \in Over /\ \A s \in Story : Of[s] = r => stories[s].status \in {"none", "merged"}
AskedOnce == "restart" \notin trouble => \A r \in Req : AskedOf(r)

\* Without a failure of git a requirement with work in progress has a branch.
GitOf(r) ==
    /\ ~reqs[r].branch => reqs[r].status \in Early
    /\ SignedOff(r) => reqs[r].branch /\ reqs[r].status \in Over \cup {"planned"}
GitInv == "git" \notin trouble => \A r \in Req : GitOf(r)

\* So that it is signed off once.
Once ==
    ~Repeated => \A i, j \in DOMAIN testers :
        testers[i].named /\ testers[j].named /\ testers[i].req = testers[j].req => i = j

\* When nobody moves stories ahead of their requirement, or between the manager's reading
\* and its promotion of them, a requirement has its branch before a story is assigned.
CalmOf(r) ==
    /\ reqs[r].status = "planning" =>
          \A s \in Story : Of[s] = r => stories[s].status \in {"none", "estimated"}
    /\ ~reqs[r].branch /\ reqs[r].status \in Early =>
          \A s \in Story : Of[s] = r =>
             stories[s].status \in {"none", "estimated", "planned"} /\ stories[s].for = None
    /\ reqs[r].branch =>
          \A s \in Story : Of[s] = r => /\ stories[s].for \in {None, "feature"}
                                        /\ stories[s].status = "merged" => home[s] = "feature"
    /\ SignedOff(r) => /\ signed[r] # {}
                       /\ reqs[r].branch => \A s \in signed[r] : Of[s] = r /\ home[s] = "feature"
CalmInv ==
    Calm => /\ \A h \in Handoffs : \A s \in h.S : stories[s].status = "estimated"
            /\ \A h, k \in Handoffs : h.req = k.req => h = k
            /\ \A r \in Req : CalmOf(r)

\* A session has a row, which has heard nothing of it before it reports.
SessionOf(t) ==
    /\ sessions[t].req \in Req /\ Team[sessions[t].req] = t /\ RowsOf(t) # {}
    /\ ~sessions[t].reported => testers[Max(RowsOf(t))].heard = None
SessionInv == \A t \in Teams : Running(t) => SessionOf(t)

\* Results come from agents that were named, and what is merged was signed off.
Heard == \A i \in DOMAIN testers : testers[i].heard # None => testers[i].named
Listened(r, x) == \E i \in DOMAIN testers : testers[i].named /\ testers[i].req = r /\ testers[i].heard = x

\* What the manager is doing about a result is still what the result asks for.
ActOf(c) ==
    /\ testers[c.row].named /\ testers[c.row].heard # None
    /\ "again" \notin trouble => (c.kind = "FAILED" <=> testers[c.row].heard = "FAILED")
    /\ c.kind = "merged" => testers[c.row].req \in shipped
ActInv == at = "act" => \A c \in todo : ActOf(c)

VerdictOf(r) ==
    /\ r \in shipped => SignedOff(r)
    /\ reqs[r].status = "sign_off_passed" => r \in shipped
    /\ "again" \notin trouble => /\ r \in shipped => Listened(r, "PASSED")
                                 /\ reqs[r].status = "sign_off_failed" => Listened(r, "FAILED")
VerdictInv == \A r \in Req : VerdictOf(r)

IInv ==
    /\ TypeOK /\ Todo /\ Handed /\ Fresh /\ AskedOnce /\ GitInv /\ Once /\ CalmInv
    /\ SessionInv /\ Heard /\ ActInv /\ VerdictInv

\* The tests that a result is about were of all that was signed off.
Good(r) == tested[r] # {} /\ signed[r] \subseteq tested[r]
TestedInv ==
    Calm => /\ \A i \in DOMAIN testers :
                  testers[i].heard = "PASSED" /\ reqs[testers[i].req].branch => Good(testers[i].req)
            /\ at = "act" => \A c \in todo :
                  c.kind # "FAILED" => reqs[testers[c.row].req].branch /\ Good(testers[c.row].req)
            /\ \A r \in shipped : reqs[r].branch /\ Good(r)

-----------------------------------------------------------------------------
(* Types.                                                                  *)

ReqRow   == [status : ReqStatuses, branch : BOOLEAN, target : {"main", "own", "feature"}]
StoryRow == [status : StoryStatuses, for : {None, "main", "own", "feature"}]
Branches == {None, "main", "own", "feature"}

\* Setting the status of a requirement sets nothing else.
LEMMA ReqStatusIs ==
    ASSUME TypeOK, NEW r \in Req, NEW st \in ReqStatuses
    PROVE  /\ ReqStatus(r, st) \in [Req -> ReqRow]
           /\ ReqStatus(r, st)[r].status = st
           /\ ReqStatus(r, st)[r].branch = reqs[r].branch
           /\ ReqStatus(r, st)[r].target = reqs[r].target
           /\ \A q \in Req : q # r => ReqStatus(r, st)[q] = reqs[q]
<1>1. reqs \in [Req -> ReqRow]
  BY DEF TypeOK, ReqRow
<1>2. [reqs[r] EXCEPT !.status = st] \in ReqRow
  BY <1>1 DEF ReqRow
<1> QED BY <1>1, <1>2 DEF ReqStatus, ReqRow

\* Setting the status of stories sets nothing else.
LEMMA StoryStatusIs ==
    ASSUME TypeOK, NEW S, NEW st \in StoryStatuses
    PROVE  /\ StoryStatus(S, st) \in [Story -> StoryRow]
           /\ \A s \in Story : s \in S => /\ StoryStatus(S, st)[s].status = st
                                          /\ StoryStatus(S, st)[s].for = stories[s].for
           /\ \A s \in Story : s \notin S => StoryStatus(S, st)[s] = stories[s]
<1>1. stories \in [Story -> StoryRow]
  BY DEF TypeOK, StoryRow
<1>2. \A s \in Story : [stories[s] EXCEPT !.status = st] \in StoryRow
  BY <1>1 DEF StoryRow
<1>3. \A s \in Story : /\ [stories[s] EXCEPT !.status = st].status = st
                       /\ [stories[s] EXCEPT !.status = st].for = stories[s].for
  BY <1>1 DEF StoryRow
<1> QED BY <1>1, <1>2, <1>3 DEF StoryStatus

LEMMA HappensIs ==
    ASSUME TypeOK, NEW what, Happens(what)
    PROVE  trouble' = trouble \cup what /\ trouble' \subseteq Trouble
  BY DEF TypeOK, Happens

\* What the assignment of stories does to requirements and to stories.
Eligible(r) == reqs[r].status = "planned" /\ ~reqs[r].branch /\ \E s \in Story : stories[s].status = "planned" /\ Of[s] = r
Made(r)     == reqs'[r].status = "in_progress" /\ reqs'[r].branch /\ reqs'[r].target = "feature"
Failed(r)   == /\ reqs'[r].status = "in_progress" /\ reqs'[r].branch = reqs[r].branch
               /\ reqs'[r].target = reqs[r].target /\ "git" \in trouble'
Given(s)    == /\ stories[s].status = "planned" /\ stories[s].for = None /\ stories'[s].status = "in_progress"
               /\ stories'[s].for = IF reqs'[Of[s]].branch THEN "feature" ELSE reqs'[Of[s]].target
Assigned ==
    /\ reqs' \in [Req -> ReqRow] /\ stories' \in [Story -> StoryRow] /\ home' \in [Story -> Branches]
    /\ trouble' = trouble \/ trouble' = trouble \cup {"git"}
    /\ trouble' \subseteq Trouble
    /\ \A r \in Req : \/ Eligible(r) /\ Made(r)
                      \/ Eligible(r) /\ Failed(r)
                      \/ ~Eligible(r) /\ reqs'[r] = reqs[r]
    /\ \A s \in Story : stories'[s] = stories[s] \/ Given(s)
    /\ \A s \in Story : stories[s].status = "planned" /\ stories[s].for = None => Given(s)
    /\ \A s \in Story : home'[s] = home[s] \/ home'[s] = "feature"

LEMMA AssignIs ==
    ASSUME TypeOK, assignStories(reqs, stories)
    PROVE  Assigned
<1> USE RequirementAssumption
<1>1. PICK failed \in SUBSET isEligibleForFeatureBranch(reqs, stories) :
        LET made == isEligibleForFeatureBranch(reqs, stories) \ failed
            next == createFeatureBranches(reqs, made, failed)
        IN  /\ IF failed = {} THEN UNCHANGED trouble ELSE Happens({"git"})
            /\ reqs' = next
            /\ stories' = [s \in Story |->
                  IF stories[s].status = "planned" /\ stories[s].for = None
                  THEN [status |-> "in_progress", for |-> IF next[Of[s]].branch THEN "feature" ELSE next[Of[s]].target]
                  ELSE stories[s]]
            /\ home' = [s \in Story |-> IF Of[s] \in made /\ home[s] = "main" THEN "feature" ELSE home[s]]
  BY Zenon DEF assignStories
<1> DEFINE made == isEligibleForFeatureBranch(reqs, stories) \ failed
           next == createFeatureBranches(reqs, made, failed)
<1>2. reqs \in [Req -> ReqRow] /\ stories \in [Story -> StoryRow] /\ home \in [Story -> Branches] /\ trouble \subseteq Trouble
  BY DEF TypeOK, ReqRow, StoryRow, Branches
<1>3. reqs' = next
  BY <1>1
<1>4. \A r \in Req : r \in isEligibleForFeatureBranch(reqs, stories) <=> Eligible(r)
  BY DEF isEligibleForFeatureBranch, Planned, Eligible
<1>5. trouble' = trouble \/ trouble' = trouble \cup {"git"}
  BY <1>1, HappensIs
<1>6. trouble' \subseteq Trouble
  BY <1>1, <1>2, HappensIs
<1>7. failed # {} => "git" \in trouble'
  BY <1>1, HappensIs
<1>8. \A r \in Req : /\ r \in made => reqs'[r] = [status |-> "in_progress", branch |-> TRUE, target |-> "feature"]
                     /\ r \in failed => reqs'[r] = [reqs[r] EXCEPT !.status = "in_progress"]
                     /\ r \notin made \cup failed => reqs'[r] = reqs[r]
  BY <1>3 DEF createFeatureBranches
<1>9. \A r \in Req : reqs'[r] \in ReqRow
  <2> TAKE r \in Req
  <2>1. reqs[r] \in ReqRow
    BY <1>2
  <2>2. CASE r \in made
    <3>1. [status |-> "in_progress", branch |-> TRUE, target |-> "feature"] \in ReqRow
      BY Zenon DEF ReqRow, ReqStatuses
    <3> QED BY <3>1, <1>8, <2>2
  <2>3. CASE r \in failed
    BY <1>8, <2>1, <2>3 DEF ReqRow, ReqStatuses
  <2>4. CASE r \notin made \cup failed
    BY <1>8, <2>1, <2>4
  <2> QED BY <2>2, <2>3, <2>4
<1>10. reqs' \in [Req -> ReqRow]
  <2>1. next = [r \in Req |-> next[r]]
    BY DEF createFeatureBranches
  <2> HIDE DEF next
  <2> QED BY <1>3, <1>9, <2>1
<1>11. \A r \in Req : \/ Eligible(r) /\ Made(r)
                      \/ Eligible(r) /\ Failed(r)
                      \/ ~Eligible(r) /\ reqs'[r] = reqs[r]
  <2> TAKE r \in Req
  <2>1. reqs[r] \in ReqRow
    BY <1>2
  <2>2. CASE r \in made
    <3>1. reqs'[r] = [status |-> "in_progress", branch |-> TRUE, target |-> "feature"]
      BY <1>8, <2>2
    <3>2. reqs'[r].status = "in_progress" /\ reqs'[r].target = "feature"
      BY <3>1
    <3>3. reqs'[r].branch = TRUE
      BY <3>1
    <3>4. Made(r)
      BY <3>2, <3>3 DEF Made
    <3> QED BY <3>4, <1>4, <2>2
  <2>3. CASE r \in failed
    <3>1. "git" \in trouble'
      BY <1>7, <2>3
    <3>2. reqs'[r] = [reqs[r] EXCEPT !.status = "in_progress"]
      BY <1>8, <2>3
    <3>3. Failed(r)
      BY <3>1, <3>2, <2>1 DEF Failed, ReqRow
    <3> QED BY <3>3, <1>4, <2>3
  <2>4. CASE r \notin made \cup failed
    BY <1>4, <1>8, <2>4
  <2> QED BY <2>2, <2>3, <2>4
<1> DEFINE to(s) == IF reqs'[Of[s]].branch THEN "feature" ELSE reqs'[Of[s]].target
<1>12. \A s \in Story : IF stories[s].status = "planned" /\ stories[s].for = None
           THEN stories'[s] = [status |-> "in_progress", for |-> to(s)]
           ELSE stories'[s] = stories[s]
  BY <1>1, <1>3
<1>to. \A s \in Story : to(s) \in {"main", "own", "feature"}
  <2> TAKE s \in Story
  <2>1. reqs'[Of[s]] \in ReqRow
    BY <1>9
  <2> QED BY <2>1 DEF ReqRow
<1>g. \A s \in Story : Given(s) <=> /\ stories[s].status = "planned" /\ stories[s].for = None
                                   /\ stories'[s].status = "in_progress" /\ stories'[s].for = to(s)
  BY Zenon DEF Given
<1> HIDE DEF to
<1>14. \A s \in Story : stories[s].status = "planned" /\ stories[s].for = None => Given(s)
  <2> TAKE s \in Story
  <2> HAVE stories[s].status = "planned" /\ stories[s].for = None
  <2>1. stories'[s] = [status |-> "in_progress", for |-> to(s)]
    BY <1>12
  <2>2. stories'[s].status = "in_progress" /\ stories'[s].for = to(s)
    BY <2>1
  <2> QED BY <2>2, <1>g
<1>13. \A s \in Story : stories'[s] = stories[s] \/ Given(s)
  BY <1>12, <1>14
<1>15. \A s \in Story : stories'[s] \in StoryRow
  <2> TAKE s \in Story
  <2>2. stories[s] \in StoryRow
    BY <1>2
  <2>3. [status |-> "in_progress", for |-> to(s)] \in StoryRow
    BY <1>to DEF StoryRow, StoryStatuses
  <2> QED BY <1>12, <2>2, <2>3
<1>16. stories' \in [Story -> StoryRow]
  BY <1>1, <1>15
<1>17. \A s \in Story : home'[s] = home[s] \/ home'[s] = "feature"
  BY <1>1
<1>18. home' \in [Story -> Branches]
  BY <1>1, <1>2, <1>17 DEF Branches
<1> HIDE DEF made, next
<1> QED BY <1>5, <1>6, <1>10, <1>11, <1>13, <1>14, <1>16, <1>17, <1>18 DEF Assigned

LEMMA InitType == Init => TypeOK
<1> SUFFICES ASSUME Init
             PROVE  TypeOK
  OBVIOUS
<1> USE RequirementAssumption
<1>1. reqs \in [Req -> ReqRow]
  <2>1. \A r \in Req : [status |-> "none", branch |-> FALSE, target |-> IF r \in Own THEN "own" ELSE "main"] \in ReqRow
    BY Zenon DEF ReqRow, ReqStatuses
  <2> QED BY <2>1 DEF Init
<1>2. stories \in [Story -> StoryRow]
  BY DEF Init, StoryRow, StoryStatuses
<1>3. testers \in Seq(Tester)
  BY DEF Init
<1>4. sessions \in [Teams -> [req : Req \cup {None}, reported : BOOLEAN]]
  BY DEF Init, Closed
<1>5. home \in [Story -> Branches]
  BY DEF Init, Branches
<1>6. asked \subseteq Req /\ lead \in {"down", "up"} /\ shipped \subseteq Req /\ trouble \subseteq Trouble
  BY DEF Init
<1>7. tested \in [Req -> SUBSET Story] /\ signed \in [Req -> SUBSET Story] /\ nudged \in [Req -> SUBSET Story]
  BY DEF Init
<1> QED BY <1>1, <1>2, <1>3, <1>4, <1>5, <1>6, <1>7, Zenon DEF TypeOK, ReqRow, StoryRow, Branches

\* A row is added, or rewritten.
LEMMA Added ==
    ASSUME NEW T, NEW rows \in Seq(T), NEW row \in T
    PROVE  /\ Append(rows, row) \in Seq(T)
           /\ DOMAIN rows = 1..Len(rows) /\ Len(rows) \in Nat
           /\ DOMAIN Append(rows, row) = 1..(Len(rows) + 1)
           /\ \A i \in DOMAIN rows : Append(rows, row)[i] = rows[i]
           /\ Append(rows, row)[Len(rows) + 1] = row
  OBVIOUS

LEMMA HeardIs ==
    ASSUME TypeOK, NEW k \in DOMAIN testers, NEW x \in Results
    PROVE  /\ [testers EXCEPT ![k].heard = x] \in Seq(Tester)
           /\ DOMAIN [testers EXCEPT ![k].heard = x] = DOMAIN testers
           /\ \A i \in DOMAIN testers :
                 /\ [testers EXCEPT ![k].heard = x][i].req = testers[i].req
                 /\ [testers EXCEPT ![k].heard = x][i].named = testers[i].named
                 /\ [testers EXCEPT ![k].heard = x][i].heard = IF i = k THEN x ELSE testers[i].heard
<1>1. testers \in Seq(Tester)
  BY DEF TypeOK
<1>2. \A i \in DOMAIN testers : testers[i] \in Tester
  BY <1>1
<1>3. [testers[k] EXCEPT !.heard = x] \in Tester
  BY <1>2 DEF Tester
<1>4. [testers EXCEPT ![k].heard = x] \in Seq(Tester) /\ DOMAIN [testers EXCEPT ![k].heard = x] = DOMAIN testers
  BY <1>1, <1>3
<1>5. /\ [testers[k] EXCEPT !.heard = x].req = testers[k].req
      /\ [testers[k] EXCEPT !.heard = x].named = testers[k].named
      /\ [testers[k] EXCEPT !.heard = x].heard = x
  BY <1>2 DEF Tester
<1> QED BY <1>4, <1>5

LEMMA DoneIs ==
    ASSUME TypeOK, NEW k \in DOMAIN testers
    PROVE  /\ [testers EXCEPT ![k].done = TRUE] \in Seq(Tester)
           /\ DOMAIN [testers EXCEPT ![k].done = TRUE] = DOMAIN testers
           /\ \A i \in DOMAIN testers :
                 /\ [testers EXCEPT ![k].done = TRUE][i].req = testers[i].req
                 /\ [testers EXCEPT ![k].done = TRUE][i].named = testers[i].named
                 /\ [testers EXCEPT ![k].done = TRUE][i].heard = testers[i].heard
<1>1. testers \in Seq(Tester)
  BY DEF TypeOK
<1>2. \A i \in DOMAIN testers : testers[i] \in Tester
  BY <1>1
<1>3. [testers[k] EXCEPT !.done = TRUE] \in Tester
  BY <1>2 DEF Tester
<1>4. [testers EXCEPT ![k].done = TRUE] \in Seq(Tester) /\ DOMAIN [testers EXCEPT ![k].done = TRUE] = DOMAIN testers
  BY <1>1, <1>3
<1>5. /\ [testers[k] EXCEPT !.done = TRUE].req = testers[k].req
      /\ [testers[k] EXCEPT !.done = TRUE].named = testers[k].named
      /\ [testers[k] EXCEPT !.done = TRUE].heard = testers[k].heard
  BY <1>2 DEF Tester
<1> QED BY <1>4, <1>5

\* The row that reports is one of the team.
LEMMA GreatestRow ==
    ASSUME TypeOK, NEW t, RowsOf(t) # {}
    PROVE  /\ Max(RowsOf(t)) \in RowsOf(t)
           /\ \A i \in RowsOf(t) : Max(RowsOf(t)) >= i
<1> DEFINE n == Len(testers)
           T == {n - i : i \in RowsOf(t)}
<1>1. n \in Nat /\ RowsOf(t) \subseteq 1..n
  BY DEF TypeOK, RowsOf
<1>2. T \subseteq Nat /\ T # {}
  BY <1>1
<1>3. PICK m \in T : \A y \in T : ~(<<y, m>> \in OpToRel(<, Nat))
  BY <1>2, NatLessThanWellFounded, WFMin
<1>4. \A y \in T : ~(y < m)
  BY <1>2, <1>3 DEF OpToRel
<1>5. PICK k \in RowsOf(t) : m = n - k
  BY <1>3
<1>6. \A i \in RowsOf(t) : k >= i
  <2> TAKE i \in RowsOf(t)
  <2>1. n - i \in T /\ ~(n - i < n - k)
    BY <1>4, <1>5
  <2>2. i \in Nat /\ k \in Nat
    BY <1>1
  <2> HIDE DEF T
  <2> QED BY <2>1, <2>2, <1>1
<1> QED BY <1>6 DEF Max

-----------------------------------------------------------------------------
(* Each action by what it does to the tables.                              *)

\* The steps that assign stories.
Assigns == AutoAssign \/ Assign \/ HandoffEnds

LEMMA AssignsIs ==
    ASSUME TypeOK, Assigns
    PROVE  /\ Assigned \/ UNCHANGED <<reqs, stories, home, trouble>>
           /\ UNCHANGED <<testers, asked, lead, sessions, tested, shipped, signed, nudged, todo>>
<1>1. CASE AutoAssign
  BY <1>1, AssignIs DEF AutoAssign, AssignUnchanged
<1>2. CASE Assign
  BY <1>2, AssignIs DEF Assign, AssignUnchanged, mgr
<1>3. CASE HandoffEnds
  BY <1>3, AssignIs DEF HandoffEnds, AssignUnchanged
<1> QED BY <1>1, <1>2, <1>3 DEF Assigns

\* A requirement is signed off, or its test agent cannot be started.
SignedNow(r) ==
    /\ reqs' = ReqStatus(r, "sign_off") /\ testers' = NewTester(r, TRUE)
    /\ sessions' = IF Running(Team[r]) THEN sessions
                   ELSE [sessions EXCEPT ![Team[r]] = [req |-> r, reported |-> FALSE]]
    /\ signed' = [signed EXCEPT ![r] = StoriesOf(r)]
    /\ UNCHANGED <<todo, trouble>>
NotSpawned(r) ==
    /\ Happens({"spawn"}) /\ reqs' = Reverted(r) /\ testers' = NewTester(r, FALSE)
    /\ todo' = todo \cup {[kind |-> "spawn", req |-> r]} /\ UNCHANGED <<sessions, signed>>

LEMMA SignOffIs ==
    ASSUME NEW r \in Req, SignOff(r)
    PROVE  /\ at = "signOff" /\ AllMerged(r)
           /\ SignedNow(r) \/ NotSpawned(r)
           /\ UNCHANGED <<stories, home, asked, lead, tested, shipped, at, nudged>>
  BY Zenon DEF SignOff, SignedNow, NotSpawned

LEMMA NewTesterIs ==
    ASSUME TypeOK, NEW r \in Req, NEW named \in BOOLEAN
    PROVE  /\ NewTester(r, named) \in Seq(Tester)
           /\ Len(testers) \in Nat /\ DOMAIN testers = 1..Len(testers)
           /\ DOMAIN NewTester(r, named) = 1..(Len(testers) + 1)
           /\ \A i \in DOMAIN testers : NewTester(r, named)[i] = testers[i]
           /\ NewTester(r, named)[Len(testers) + 1] = [req |-> r, named |-> named, heard |-> None, done |-> FALSE]
<1>1. [req |-> r, named |-> named, heard |-> None, done |-> FALSE] \in Tester
  BY DEF Tester
<1> QED BY <1>1, Added DEF TypeOK, NewTester

\* What a call to gh does, and what the manager makes of it.
LEMMA MergeIs ==
    ASSUME NEW c, Merge(c)
    PROVE  /\ at = "act" /\ c \in todo /\ c.kind = "PASSED"
           /\ shipped' = shipped \/ shipped' = shipped \cup {testers[c.row].req}
           /\ trouble' = trouble \/ Happens({"gh"})
           /\ \E kind \in {"merged", "error"} :
                 /\ todo' = (todo \ {c}) \cup {[c EXCEPT !.kind = kind]}
                 /\ kind = "merged" => testers[c.row].req \in shipped'
           /\ UNCHANGED <<reqs, stories, testers, home, asked, lead, sessions, tested, signed, at, nudged>>
<1> DEFINE r == testers[c.row].req
           to(kind) == todo' = (todo \ {c}) \cup {[c EXCEPT !.kind = kind]}
<1>1. /\ at = "act" /\ c \in todo /\ ToMerge(c) /\ ~InFlight
      /\ \/ r \notin shipped /\ shipped' = shipped \cup {r} /\ to("merged") /\ UNCHANGED trouble
         \/ r \in shipped /\ to("error") /\ UNCHANGED <<shipped, trouble>>
         \/ r \notin shipped /\ Happens({"gh"}) /\ shipped' \in {shipped, shipped \cup {r}} /\ to("error")
      /\ UNCHANGED <<tables, home, asked, lead, sessions, tested, signed, at, nudged>>
  BY Zenon DEF Merge
<1>2. UNCHANGED <<reqs, stories, testers, home, asked, lead, sessions, tested, signed, at, nudged>>
  BY <1>1 DEF tables
<1>3. /\ shipped' = shipped \/ shipped' = shipped \cup {r}
      /\ trouble' = trouble \/ Happens({"gh"})
  BY <1>1
<1>4. (to("merged") /\ r \in shipped') \/ to("error")
  BY <1>1
<1> QED BY <1>1, <1>2, <1>3, <1>4 DEF ToMerge

\* A result is about a row.
LEMMA ResultIs ==
    ASSUME TypeOK, NEW c \in Result
    PROVE  c.row \in DOMAIN testers /\ testers[c.row] \in Tester /\ testers[c.row].req \in Req
<1>1. c.row \in DOMAIN testers
  BY DEF Result
<1>2. \A i \in DOMAIN testers : testers[i] \in Tester
  BY DEF TypeOK
<1>3. testers[c.row] \in Tester
  BY <1>1, <1>2
<1> QED BY <1>1, <1>3 DEF Tester

\* Type correctness of one step.
LEMMA NextType ==
    ASSUME TypeOK, Todo, [Next]_vars
    PROVE  TypeOK'
<1> USE RequirementAssumption
<1>0. /\ reqs \in [Req -> ReqRow] /\ stories \in [Story -> StoryRow] /\ testers \in Seq(Tester)
      /\ sessions \in [Teams -> [req : Req \cup {None}, reported : BOOLEAN]]
      /\ home \in [Story -> Branches]
      /\ asked \subseteq Req /\ lead \in {"down", "up"} /\ shipped \subseteq Req /\ trouble \subseteq Trouble
      /\ tested \in [Req -> SUBSET Story] /\ signed \in [Req -> SUBSET Story] /\ nudged \in [Req -> SUBSET Story]
  BY Zenon DEF TypeOK, ReqRow, StoryRow, Branches
<1> DEFINE Types ==
      /\ reqs' \in [Req -> ReqRow] /\ stories' \in [Story -> StoryRow] /\ testers' \in Seq(Tester)
      /\ sessions' \in [Teams -> [req : Req \cup {None}, reported : BOOLEAN]]
      /\ home' \in [Story -> Branches]
      /\ asked' \subseteq Req /\ lead' \in {"down", "up"} /\ shipped' \subseteq Req /\ trouble' \subseteq Trouble
      /\ tested' \in [Req -> SUBSET Story] /\ signed' \in [Req -> SUBSET Story] /\ nudged' \in [Req -> SUBSET Story]
<1>goal. ASSUME Types
         PROVE  TypeOK'
  BY <1>goal, Zenon DEF TypeOK, ReqRow, StoryRow, Branches
<1>1. ASSUME NEW r \in Req, Submit(r)
      PROVE  Types
  <2>1. reqs' \in [Req -> ReqRow]
    BY <1>1, ReqStatusIs DEF Submit, ReqStatuses
  <2>2. trouble' \subseteq Trouble
    BY <1>1, HappensIs, <1>0 DEF Submit
  <2> QED BY <1>0, <1>1, <2>1, <2>2 DEF Submit, mgr
<1>2. ASSUME NEW r \in Req, NEW S \in SUBSET Story, Write(r, S)
      PROVE  Types
  <2>1. stories' \in [Story -> StoryRow]
    BY <1>2, StoryStatusIs DEF Write, StoryStatuses
  <2> QED BY <1>0, <1>2, <2>1 DEF Write, mgr
<1>3. ASSUME NEW r \in Req, PlanRequirement(r)
      PROVE  Types
  <2>1. reqs' \in [Req -> ReqRow]
    BY <1>3, ReqStatusIs DEF PlanRequirement, ReqStatuses
  <2>2. trouble' \subseteq Trouble
    BY <1>3, HappensIs DEF PlanRequirement
  <2> QED BY <1>0, <1>3, <2>1, <2>2 DEF PlanRequirement, mgr, world
<1>4. ASSUME NEW r \in Req, PlanStories(r)
      PROVE  Types
  <2>1. stories' \in [Story -> StoryRow]
    BY <1>4, StoryStatusIs DEF PlanStories, StoryStatuses
  <2>2. trouble' \subseteq Trouble
    BY <1>4, HappensIs DEF PlanStories
  <2> QED BY <1>0, <1>4, <2>1, <2>2 DEF PlanStories, mgr, world
<1>5. ASSUME LeadDies
      PROVE  Types
  <2>1. trouble' \subseteq Trouble
    BY <1>5, HappensIs DEF LeadDies
  <2> QED BY <1>0, <1>5, <2>1 DEF LeadDies, mgr, tables
<1>6. ASSUME Assigns
      PROVE  Types
  BY <1>0, <1>6, AssignsIs DEF Assigned
<1>7. ASSUME NEW s \in Story, Lands(s)
      PROVE  Types
  <2>1. [status |-> "merged", for |-> None] \in StoryRow
    BY DEF StoryRow, StoryStatuses
  <2>2. stories' \in [Story -> StoryRow]
    BY <1>0, <1>7, <2>1 DEF Lands
  <2>3. stories[s].for \in Branches
    BY <1>0 DEF StoryRow, Branches
  <2>4. home' \in [Story -> Branches]
    BY <1>0, <1>7, <2>3 DEF Lands
  <2> QED BY <1>0, <1>7, <2>2, <2>4 DEF Lands, mgr
<1>8. ASSUME NEW skipped \in SUBSET Req, HandoffRead(skipped)
      PROVE  Types
  <2>1. nudged' \in [Req -> SUBSET Story]
    BY <1>0, <1>8 DEF HandoffRead
  <2> QED BY <1>0, <1>8, <2>1 DEF HandoffRead, tables, world
<1>9. ASSUME NEW h \in todo, Nudge(h)
      PROVE  Types
  <2>1. h \in Handoff
    BY <1>9 DEF Todo, Nudge
  <2>2. nudged' \in [Req -> SUBSET Story]
    BY <1>0, <1>9, <2>1 DEF Nudge, Handoff
  <2> QED BY <1>0, <1>9, <2>2 DEF Nudge, tables, world
<1>10. ASSUME NEW h \in todo, Promote(h)
      PROVE  Types
  <2>1. h \in Handoff
    BY <1>10 DEF Todo, Promote
  <2>2. nudged' \in [Req -> SUBSET Story]
    BY <1>0, <1>10 DEF Promote
  <2>3. h.req \in Req
    BY <2>1 DEF Handoff
  <2>4. reqs' \in [Req -> ReqRow]
    BY <1>10, <2>3, ReqStatusIs DEF Promote, ReqStatuses
  <2>5. stories' \in [Story -> StoryRow]
    BY <1>10, StoryStatusIs DEF Promote, StoryStatuses
  <2> QED BY <1>0, <1>10, <2>2, <2>4, <2>5 DEF Promote, tables, world
<1>11. ASSUME KeepLead \/ SignOffEnds \/ ResultsRead \/ CheckEnds
      PROVE  Types
  BY <1>0, <1>11 DEF KeepLead, SignOffEnds, ResultsRead, CheckEnds, tables, world
<1>12. ASSUME KillLead
      PROVE  Types
  <2>1. trouble' \subseteq Trouble
    BY <1>12, HappensIs DEF KillLead
  <2> QED BY <1>0, <1>12, <2>1 DEF KillLead, tables
<1>13. ASSUME SpawnLead
      PROVE  Types
  <2>1. activeReq \subseteq Req
    BY DEF activeReq, ReqsIn
  <2>2. asked' \subseteq Req
    BY <1>13, <2>1 DEF SpawnLead
  <2> QED BY <1>0, <1>13, <2>2 DEF SpawnLead, tables
<1>14. ASSUME NEW r \in Req, SignOff(r)
      PROVE  Types
  <2>1. UNCHANGED <<stories, home, asked, lead, tested, shipped, at, nudged>>
    BY <1>14, SignOffIs
  <2>2. ASSUME SignedNow(r)
        PROVE  Types
    <3>1. reqs' \in [Req -> ReqRow]
      BY <2>2, ReqStatusIs DEF SignedNow, ReqStatuses
    <3>2. testers' \in Seq(Tester)
      BY <2>2, NewTesterIs DEF SignedNow
    <3>3. sessions' \in [Teams -> [req : Req \cup {None}, reported : BOOLEAN]]
      BY <1>0, <2>2 DEF SignedNow
    <3>4. StoriesOf(r) \subseteq Story
      BY DEF StoriesOf
    <3>5. signed' \in [Req -> SUBSET Story]
      BY <1>0, <2>2, <3>4 DEF SignedNow
    <3> QED BY <1>0, <2>1, <2>2, <3>1, <3>2, <3>3, <3>5 DEF SignedNow
  <2>3. ASSUME NotSpawned(r)
        PROVE  Types
    <3>1. reqs' \in [Req -> ReqRow]
      BY <2>3, ReqStatusIs DEF NotSpawned, Reverted, ReqStatuses
    <3>2. testers' \in Seq(Tester)
      BY <2>3, NewTesterIs DEF NotSpawned
    <3>3. trouble' \subseteq Trouble
      BY <2>3, HappensIs DEF NotSpawned
    <3> QED BY <1>0, <2>1, <2>3, <3>1, <3>2, <3>3 DEF NotSpawned
  <2> HIDE DEF Types
  <2> QED BY <1>14, SignOffIs, <2>2, <2>3
<1>15. ASSUME NEW t \in Teams, NEW x \in Results, Report(t, x)
      PROVE  Types
  <2>1. trouble' \subseteq Trouble
    BY <1>0, <1>15, HappensIs DEF Report
  <2>2. sessions' \in [Teams -> [req : Req \cup {None}, reported : BOOLEAN]]
    <3> HIDE DEF Types
    <3>2. sessions[t] \in [req : Req \cup {None}, reported : BOOLEAN]
      BY <1>0
    <3>1. [sessions[t] EXCEPT !.reported = TRUE] \in [req : Req \cup {None}, reported : BOOLEAN]
      BY <3>2
    <3> QED BY <1>0, <1>15, <3>1 DEF Report
  <2>3. \A r : OnBranch(r) \subseteq Story
    BY DEF OnBranch
  <2>4. tested' \in [Req -> SUBSET Story]
    BY <1>0, <1>15, <2>3 DEF Report
  <2>5. testers' \in Seq(Tester)
    <3> DEFINE k == Max(RowsOf(t))
    <3>1. testers' = testers \/ testers' = [testers EXCEPT ![k].heard = x]
      BY <1>15 DEF Report
    <3> HIDE DEF k
    <3>2. CASE k \in DOMAIN testers
      <4>1. [testers EXCEPT ![k].heard = x] \in Seq(Tester)
        BY <3>2, HeardIs
      <4> QED BY <1>0, <3>1, <4>1
    <3>3. CASE k \notin DOMAIN testers
      <4>1. [testers EXCEPT ![k].heard = x] = testers
        BY <1>0, <3>3
      <4> QED BY <1>0, <3>1, <4>1
    <3> QED BY <3>2, <3>3
  <2> QED BY <1>0, <1>15, <2>1, <2>2, <2>4, <2>5 DEF Report, mgr
<1>16. ASSUME NEW t \in Teams, TesterDies(t)
      PROVE  Types
  <2>1. trouble' \subseteq Trouble
    BY <1>16, HappensIs DEF TesterDies
  <2>2. sessions' \in [Teams -> [req : Req \cup {None}, reported : BOOLEAN]]
    BY <1>0, <1>16 DEF TesterDies, Closed
  <2> QED BY <1>0, <1>16, <2>1, <2>2 DEF TesterDies, mgr, tables
<1>17. ASSUME NEW c \in todo, Merge(c)
      PROVE  Types
  <2>1. c \in Result
    BY <1>17, MergeIs DEF Todo
  <2>2. testers[c.row].req \in Req
    BY <2>1, ResultIs
  <2>3. trouble' \subseteq Trouble
    BY <1>0, <1>17, MergeIs, HappensIs
  <2>4. shipped' \subseteq Req
    BY <1>0, <1>17, MergeIs, <2>2
  <2> QED BY <1>0, <1>17, MergeIs, <2>3, <2>4
<1>18. ASSUME NEW c \in todo, Record(c)
      PROVE  Types
  <2>1. c \in Result
    BY <1>18 DEF Todo, Record
  <2>2. testers[c.row].req \in Req /\ c.row \in DOMAIN testers
    BY <2>1, ResultIs
  <2>3. Verdict(c.kind) \in ReqStatuses
    BY DEF Verdict, ReqStatuses
  <2>4. reqs' \in [Req -> ReqRow]
    BY <1>18, <2>2, <2>3, ReqStatusIs DEF Record
  <2>5. testers' \in Seq(Tester)
    BY <1>18, <2>2, DoneIs DEF Record
  <2> QED BY <1>0, <1>18, <2>4, <2>5 DEF Record, world
<1>19. ASSUME ManagerDies
      PROVE  Types
  <2>1. trouble' \subseteq Trouble
    BY <1>19, HappensIs DEF ManagerDies
  <2>2. nudged' \in [Req -> SUBSET Story]
    BY <1>19 DEF ManagerDies
  <2> QED BY <1>0, <1>19, <2>1, <2>2 DEF ManagerDies, tables, world
<1>20. ASSUME UNCHANGED vars
      PROVE  Types
  BY <1>0, <1>20 DEF vars, tables, world, mgr
<1> HIDE DEF Types
<1>21. Types
  BY <1>1, <1>2, <1>3, <1>4, <1>5, <1>6, <1>7, <1>8, <1>9, <1>10, <1>11, <1>12, <1>13, <1>14, <1>15,
     <1>16, <1>17, <1>18, <1>19, <1>20, Zenon DEF Next, Check, Lead, Assigns
<1> QED BY <1>21, <1>goal

LEMMA InitTodo == Init => Todo
  BY DEF Init, Todo, Steps

LEMMA NextTodo ==
    ASSUME TypeOK, Todo, [Next]_vars
    PROVE  Todo'
<1>same. ASSUME UNCHANGED <<at, todo>>, DOMAIN testers' = DOMAIN testers, trouble \subseteq trouble'
         PROVE  Todo'
  <2>1. Result' = Result
    BY <1>same DEF Result
  <2> QED BY <1>same, <2>1 DEF Todo, Spawned, Handoff
<1>empty. ASSUME todo' = {}, at' \in Steps \ {"leadKilled"}
          PROVE  Todo'
  BY <1>empty DEF Todo
<1>fewer. ASSUME NEW h \in todo, todo' = todo \ {h}, at \in {"promote", "promoted"}, at' \in {"promote", "promoted"}
          PROVE  Todo'
  BY <1>fewer DEF Todo, Steps
<1>1. ASSUME NEW r \in Req, Submit(r)
      PROVE  Todo'
  BY <1>1, <1>same, HappensIs DEF Submit, mgr
<1>2. ASSUME NEW r \in Req, NEW S \in SUBSET Story, Write(r, S)
      PROVE  Todo'
  BY <1>2, <1>same DEF Write, mgr
<1>3. ASSUME NEW r \in Req, PlanRequirement(r)
      PROVE  Todo'
  BY <1>3, <1>same, HappensIs DEF PlanRequirement, mgr
<1>4. ASSUME NEW r \in Req, PlanStories(r)
      PROVE  Todo'
  BY <1>4, <1>same, HappensIs DEF PlanStories, mgr
<1>5. ASSUME LeadDies
      PROVE  Todo'
  BY <1>5, <1>same, HappensIs DEF LeadDies, mgr, tables
<1>6. ASSUME AutoAssign
      PROVE  Todo'
  <2>1. todo' = {}
    BY <1>6 DEF AutoAssign, Step, Todo
  <2> QED BY <1>6, <2>1, <1>empty DEF AutoAssign, Step, Steps
<1>7. ASSUME Assign
      PROVE  Todo'
  <2>1. trouble \subseteq trouble'
    BY <1>7, AssignsIs DEF Assigns, Assigned
  <2> QED BY <1>7, <2>1, <1>same DEF Assign, mgr, AssignUnchanged
<1>8. ASSUME HandoffEnds
      PROVE  Todo'
  BY <1>8, <1>empty DEF HandoffEnds, Step, Steps
<1>9. ASSUME NEW s \in Story, Lands(s)
      PROVE  Todo'
  BY <1>9, <1>same DEF Lands, mgr
<1>10. ASSUME NEW skipped \in SUBSET Req, HandoffRead(skipped)
       PROVE  Todo'
  <2>1. at' = "promote"
    BY <1>10 DEF HandoffRead, Step
  <2>2. \A r : InStatus(r, "estimated") \subseteq Story
    BY DEF InStatus, StoriesOf
  <2>3. todo' \subseteq Handoff
    BY <1>10, <2>2 DEF HandoffRead, Handoff
  <2> QED BY <2>1, <2>3 DEF Todo, Steps, Handoff
<1>11. ASSUME NEW h \in todo, Nudge(h)
       PROVE  Todo'
  BY <1>11, <1>fewer DEF Nudge
<1>12. ASSUME NEW h \in todo, Promote(h)
       PROVE  Todo'
  BY <1>12, <1>fewer DEF Promote
<1>13. ASSUME KeepLead
       PROVE  Todo'
  BY <1>13, <1>empty DEF KeepLead, Step, Steps, Todo
<1>14. ASSUME KillLead
       PROVE  Todo'
  <2>1. at' = "leadKilled" /\ todo' = {}
    BY <1>14 DEF KillLead, Step, Todo
  <2>2. "restart" \in trouble'
    BY <1>14, HappensIs DEF KillLead
  <2> QED BY <2>1, <2>2 DEF Todo, Steps
<1>15. ASSUME SpawnLead
       PROVE  Todo'
  BY <1>15, <1>empty DEF SpawnLead, Step, Steps, Todo
<1>16. ASSUME NEW r \in Req, SignOff(r)
       PROVE  Todo'
  <2>1. at = "signOff" /\ at' = "signOff"
    BY <1>16, SignOffIs
  <2>2. todo' = todo \/ todo' = todo \cup {[kind |-> "spawn", req |-> r]}
    BY <1>16, SignOffIs DEF SignedNow, NotSpawned
  <2>3. todo' \subseteq Spawned
    BY <2>1, <2>2 DEF Todo, Spawned
  <2> QED BY <2>1, <2>3 DEF Todo, Steps, Spawned
<1>17. ASSUME SignOffEnds
       PROVE  Todo'
  BY <1>17, <1>empty DEF SignOffEnds, Step, Steps
<1>18. ASSUME NEW t \in Teams, NEW x \in Results, Report(t, x)
       PROVE  Todo'
  <2>1. DOMAIN testers' = DOMAIN testers
    BY <1>18 DEF Report
  <2>2. trouble \subseteq trouble'
    BY <1>18, HappensIs DEF Report
  <2> QED BY <1>18, <2>1, <2>2, <1>same DEF Report, mgr
<1>19. ASSUME NEW t \in Teams, TesterDies(t)
       PROVE  Todo'
  BY <1>19, <1>same, HappensIs DEF TesterDies, mgr, tables
<1>20. ASSUME ResultsRead
       PROVE  Todo'
  <2>1. at' = "act" /\ testers' = testers
    BY <1>20 DEF ResultsRead, Step, tables
  <2>2. \A i \in DOMAIN testers : Candidate(i) => testers[i].heard \in Results
    <3> TAKE i \in DOMAIN testers
    <3>1. testers[i] \in Tester
      BY DEF TypeOK
    <3> QED BY <3>1 DEF Candidate, Tester
  <2>3. todo' \subseteq Result
    BY <1>20, <2>2 DEF ResultsRead, Result, Results
  <2>4. Result' = Result
    BY <2>1 DEF Result
  <2> QED BY <2>1, <2>3, <2>4 DEF Todo, Steps
<1>21. ASSUME NEW c \in todo, Merge(c)
       PROVE  Todo'
  <2>1. at' = "act" /\ testers' = testers /\ c \in Result /\ todo \subseteq Result
    BY <1>21, MergeIs DEF Todo
  <2>2. PICK kind \in {"merged", "error"} : todo' = (todo \ {c}) \cup {[c EXCEPT !.kind = kind]}
    BY <1>21, MergeIs
  <2>3. [c EXCEPT !.kind = kind] \in Result
    BY <2>1 DEF Result
  <2>4. todo' \subseteq Result
    BY <2>1, <2>2, <2>3
  <2>5. Result' = Result
    BY <2>1 DEF Result
  <2> QED BY <2>1, <2>4, <2>5 DEF Todo, Steps
<1>22. ASSUME NEW c \in todo, Record(c)
       PROVE  Todo'
  <2>1. at' = "act" /\ DOMAIN testers' = DOMAIN testers /\ todo' \subseteq Result
    BY <1>22 DEF Record, Todo
  <2>2. Result' = Result
    BY <2>1 DEF Result
  <2> QED BY <2>1, <2>2 DEF Todo, Steps
<1>23. ASSUME CheckEnds
       PROVE  Todo'
  BY <1>23, <1>empty DEF CheckEnds, Step, Steps
<1>24. ASSUME ManagerDies
       PROVE  Todo'
  BY <1>24, <1>empty DEF ManagerDies, Steps
<1>25. ASSUME UNCHANGED vars
       PROVE  Todo'
  BY <1>25, <1>same DEF vars, tables, mgr
<1> QED
  BY <1>1, <1>2, <1>3, <1>4, <1>5, <1>6, <1>7, <1>8, <1>9, <1>10, <1>11, <1>12, <1>13, <1>14, <1>15,
     <1>16, <1>17, <1>18, <1>19, <1>20, <1>21, <1>22, <1>23, <1>24, <1>25, Zenon DEF Next, Check, Lead

-----------------------------------------------------------------------------
(* Handoffs: what was read about stalled requirements.                     *)

LEMMA HandoffReadIs ==
    ASSUME NEW skipped \in SUBSET Req, HandoffRead(skipped)
    PROVE  /\ \A h \in Handoffs' : h.req \in Req /\ Stalled(h.req) /\ h.S = InStatus(h.req, "estimated")
           /\ \A h, k \in Handoffs' : h.req = k.req => h = k
           /\ UNCHANGED <<reqs, stories, testers, home, asked, lead, sessions, tested, shipped, signed, trouble>>
<1>1. \A h \in Handoffs' : \E r \in Req : Stalled(r) /\ h = [kind |-> "handoff", req |-> r, S |-> InStatus(r, "estimated")]
  BY DEF HandoffRead, Handoffs, Step
<1>2. \A h \in Handoffs' : h.req \in Req /\ Stalled(h.req) /\ h.S = InStatus(h.req, "estimated")
  BY <1>1
<1>3. \A h, k \in Handoffs' : h.req = k.req => h = k
  BY <1>1
<1>4. UNCHANGED <<reqs, stories, testers, home, asked, lead, sessions, tested, shipped, signed, trouble>>
  BY DEF HandoffRead, tables, world
<1> QED BY <1>2, <1>3, <1>4

\* Only the manager's reading adds to what it has read.
LEMMA HandoffsFewer ==
    ASSUME TypeOK, Todo, [Next]_vars
    PROVE  Handoffs' \subseteq Handoffs \/ \E skipped \in SUBSET Req : HandoffRead(skipped)
<1>same. ASSUME UNCHANGED <<at, todo>>
         PROVE  Handoffs' \subseteq Handoffs
  BY <1>same DEF Handoffs
<1>empty. ASSUME at' \notin {"promote", "promoted"}
          PROVE  Handoffs' \subseteq Handoffs
  BY <1>empty DEF Handoffs
<1>1. ASSUME NEW r \in Req, Submit(r) \/ PlanRequirement(r) \/ PlanStories(r)
      PROVE  Handoffs' \subseteq Handoffs
  BY <1>1, <1>same DEF Submit, PlanRequirement, PlanStories, mgr
<1>2. ASSUME NEW r \in Req, NEW S \in SUBSET Story, Write(r, S)
      PROVE  Handoffs' \subseteq Handoffs
  BY <1>2, <1>same DEF Write, mgr
<1>3. ASSUME LeadDies \/ Assign
      PROVE  Handoffs' \subseteq Handoffs
  BY <1>3, <1>same DEF LeadDies, Assign, mgr
<1>4. ASSUME NEW s \in Story, Lands(s)
      PROVE  Handoffs' \subseteq Handoffs
  BY <1>4, <1>same DEF Lands, mgr
<1>5. ASSUME NEW t \in Teams, TesterDies(t)
      PROVE  Handoffs' \subseteq Handoffs
  BY <1>5, <1>same DEF TesterDies, mgr
<1>6. ASSUME NEW t \in Teams, NEW x \in Results, Report(t, x)
      PROVE  Handoffs' \subseteq Handoffs
  BY <1>6, <1>same DEF Report, mgr
<1>7. ASSUME AutoAssign \/ HandoffEnds \/ KeepLead \/ KillLead \/ SpawnLead
      PROVE  Handoffs' \subseteq Handoffs
  BY <1>7, <1>empty DEF AutoAssign, HandoffEnds, KeepLead, KillLead, SpawnLead, Step
<1>8. ASSUME SignOffEnds \/ ResultsRead \/ CheckEnds \/ ManagerDies
      PROVE  Handoffs' \subseteq Handoffs
  BY <1>8, <1>empty DEF SignOffEnds, ResultsRead, CheckEnds, ManagerDies, Step
<1>9. ASSUME NEW h \in todo, Nudge(h) \/ Promote(h)
      PROVE  Handoffs' \subseteq Handoffs
  BY <1>9 DEF Nudge, Promote, Handoffs
<1>10. ASSUME NEW c \in todo, Merge(c) \/ Record(c)
       PROVE  Handoffs' \subseteq Handoffs
  BY <1>10, <1>empty, MergeIs DEF Record
<1>11. ASSUME NEW r \in Req, SignOff(r)
       PROVE  Handoffs' \subseteq Handoffs
  BY <1>11, <1>empty, SignOffIs
<1>12. ASSUME UNCHANGED vars
       PROVE  Handoffs' \subseteq Handoffs
  BY <1>12, <1>same DEF vars, mgr
<1> QED
  BY <1>1, <1>2, <1>3, <1>4, <1>5, <1>6, <1>7, <1>8, <1>9, <1>10, <1>11, <1>12, Zenon DEF Next, Check, Lead

\* What a step does to a story: it is written, planned, promoted, assigned or it lands.
IsWritten(s) ==
    /\ stories[s].status = "none" /\ Of[s] \in asked /\ Of[s] \notin asked' /\ reqs' = reqs
    /\ stories'[s].status = "estimated" /\ stories'[s].for = stories[s].for
IsPlanned(s) ==
    /\ stories[s].status = "estimated" /\ stories'[s].status = "planned" /\ stories'[s].for = stories[s].for
    /\ \A u \in Story : Of[u] = Of[s] /\ stories[u].status = "estimated" => stories'[u].status = "planned"
    /\ reqs[Of[s]].status = "planning" => "hasty" \in trouble'
    /\ \A h \in Handoffs : h.req = Of[s] => "races" \in trouble'
IsPromoted(s) ==
    /\ stories'[s].status = "planned" /\ stories'[s].for = stories[s].for
    /\ \E h \in Handoffs : /\ s \in h.S /\ h \notin Handoffs' /\ reqs'[h.req].status = "planned"
                          /\ \A u \in h.S : stories'[u].status = "planned"
HasLanded(s) ==
    /\ stories[s].status \in {"planned", "in_progress"} /\ stories[s].for # None
    /\ stories'[s].status = "merged" /\ stories'[s].for = None
    /\ home'[s] = IF home[s] = "feature" THEN "feature" ELSE stories[s].for

LEMMA StoryMoves ==
    ASSUME TypeOK, Todo, [Next]_vars, NEW s \in Story
    PROVE  \/ stories'[s] = stories[s] \/ IsWritten(s) \/ IsPlanned(s) \/ IsPromoted(s) \/ HasLanded(s)
           \/ Given(s) /\ Assigned
<1> USE RequirementAssumption
<1>1. ASSUME NEW r \in Req, NEW S \in SUBSET Story, Write(r, S)
      PROVE  stories'[s] = stories[s] \/ IsWritten(s)
  <2>1. stories' = StoryStatus(S, "estimated")
    BY <1>1 DEF Write
  <2>2. CASE s \in S
    <3>1. stories'[s].status = "estimated" /\ stories'[s].for = stories[s].for
      BY <2>1, <2>2, StoryStatusIs DEF StoryStatuses
    <3> QED BY <1>1, <2>2, <3>1 DEF Write, IsWritten
  <2>3. CASE s \notin S
    BY <2>1, <2>3, StoryStatusIs DEF StoryStatuses
  <2> QED BY <2>2, <2>3
<1>2. ASSUME NEW r \in Req, PlanStories(r)
      PROVE  stories'[s] = stories[s] \/ IsPlanned(s)
  <2>1. stories' = StoryStatus(InStatus(r, "estimated"), "planned")
    BY <1>2 DEF PlanStories
  <2>2. CASE s \in InStatus(r, "estimated")
    <3>1. stories[s].status = "estimated" /\ Of[s] = r
      BY <2>2 DEF InStatus, StoriesOf
    <3>2. \A u \in InStatus(r, "estimated") : u \in Story => stories'[u].status = "planned" /\ stories'[u].for = stories[u].for
      BY <2>1, StoryStatusIs DEF StoryStatuses
    <3>3. \A u \in Story : Of[u] = Of[s] /\ stories[u].status = "estimated" => u \in InStatus(r, "estimated")
      BY <3>1 DEF InStatus, StoriesOf
    <3>4. trouble' = trouble \cup (Hasty(r) \cup Races(r))
      BY <1>2, HappensIs DEF PlanStories
    <3>5. reqs[Of[s]].status = "planning" => "hasty" \in trouble'
      BY <3>1, <3>4 DEF Hasty
    <3>6. ASSUME NEW h \in Handoffs, h.req = Of[s]
          PROVE  "races" \in trouble'
      <4>1. h \in todo /\ h.kind = "handoff"
        BY DEF Handoffs, Todo, Handoff
      <4>2. "races" \in Races(r)
        BY <3>1, <3>6, <4>1 DEF Races
      <4> QED BY <3>4, <4>2
    <3> QED BY <2>2, <3>1, <3>2, <3>3, <3>5, <3>6 DEF IsPlanned
  <2>3. CASE s \notin InStatus(r, "estimated")
    BY <2>1, <2>3, StoryStatusIs DEF StoryStatuses
  <2> QED BY <2>2, <2>3
<1>3. ASSUME NEW h \in todo, Promote(h)
      PROVE  stories'[s] = stories[s] \/ IsPromoted(s)
  <2>1. stories' = StoryStatus(h.S, "planned") /\ h \in Handoffs /\ h \notin Handoffs'
    BY <1>3 DEF Promote, Handoffs
  <2>2. h.req \in Req /\ h.S \subseteq Story
    BY <2>1 DEF Handoffs, Todo, Handoff
  <2>3. reqs'[h.req].status = "planned"
    BY <1>3, <2>2, ReqStatusIs DEF Promote, ReqStatuses
  <2>4. \A u \in h.S : stories'[u].status = "planned" /\ stories'[u].for = stories[u].for
    BY <2>1, <2>2, StoryStatusIs DEF StoryStatuses
  <2>5. CASE s \in h.S
    BY <2>1, <2>3, <2>4, <2>5 DEF IsPromoted
  <2>6. CASE s \notin h.S
    BY <2>1, <2>6, StoryStatusIs DEF StoryStatuses
  <2> QED BY <2>5, <2>6
<1>4. ASSUME NEW u \in Story, Lands(u)
      PROVE  stories'[s] = stories[s] \/ HasLanded(s)
  <2>1. stories \in [Story -> StoryRow] /\ home \in [Story -> Branches]
    BY DEF TypeOK, StoryRow, Branches
  <2>2. CASE s = u
    <3>1. stories'[s] = [status |-> "merged", for |-> None]
      BY <1>4, <2>1, <2>2 DEF Lands
    <3>2. home'[s] = IF home[s] = "feature" THEN "feature" ELSE stories[s].for
      BY <1>4, <2>1, <2>2 DEF Lands
    <3> QED BY <1>4, <2>2, <3>1, <3>2 DEF Lands, HasLanded
  <2>3. CASE s # u
    BY <1>4, <2>1, <2>3 DEF Lands
  <2> QED BY <2>2, <2>3
<1>5. ASSUME Assigns
      PROVE  stories'[s] = stories[s] \/ (Given(s) /\ Assigned)
  BY <1>5, AssignsIs DEF Assigned
<1>6. ASSUME NEW r \in Req, Submit(r) \/ PlanRequirement(r)
      PROVE  stories'[s] = stories[s]
  BY <1>6 DEF Submit, PlanRequirement
<1>7. ASSUME LeadDies \/ KeepLead \/ KillLead \/ SpawnLead \/ SignOffEnds \/ ResultsRead \/ CheckEnds \/ ManagerDies
      PROVE  stories'[s] = stories[s]
  BY <1>7 DEF LeadDies, KeepLead, KillLead, SpawnLead, SignOffEnds, ResultsRead, CheckEnds, ManagerDies, tables
<1>8. ASSUME NEW h \in todo, Nudge(h) \/ Record(h)
      PROVE  stories'[s] = stories[s]
  BY <1>8 DEF Nudge, Record, tables
<1>9. ASSUME NEW c \in todo, Merge(c)
      PROVE  stories'[s] = stories[s]
  BY <1>9, MergeIs
<1>10. ASSUME NEW r \in Req, SignOff(r)
      PROVE  stories'[s] = stories[s]
  BY <1>10, SignOffIs
<1>11. ASSUME NEW t \in Teams, TesterDies(t)
      PROVE  stories'[s] = stories[s]
  BY <1>11 DEF TesterDies, tables
<1>12. ASSUME NEW t \in Teams, NEW x \in Results, Report(t, x)
       PROVE  stories'[s] = stories[s]
  BY <1>12 DEF Report
<1>13. ASSUME NEW skipped \in SUBSET Req, HandoffRead(skipped)
       PROVE  stories'[s] = stories[s]
  BY <1>13 DEF HandoffRead, tables
<1>14. ASSUME UNCHANGED vars
       PROVE  stories'[s] = stories[s]
  BY <1>14 DEF vars, tables
<1> QED
  BY <1>1, <1>2, <1>3, <1>4, <1>5, <1>6, <1>7, <1>8, <1>9, <1>10, <1>11, <1>12, <1>13, <1>14, Zenon
  DEF Next, Check, Lead, Assigns

LEMMA NextHanded ==
    ASSUME TypeOK, Todo, Handed, [Next]_vars
    PROVE  Handed'
<1>1. \A s \in Story : stories[s].status # "none" => stories'[s].status # "none"
  BY StoryMoves DEF IsWritten, IsPlanned, IsPromoted, HasLanded, Given
<1>2. ASSUME Handoffs' \subseteq Handoffs
      PROVE  Handed'
  <2>1. \A h \in Handoffs : h.S \subseteq Story
    BY DEF Handoffs, Todo, Handoff
  <2> QED BY <1>1, <1>2, <2>1 DEF Handed
<1>3. ASSUME NEW skipped \in SUBSET Req, HandoffRead(skipped)
      PROVE  Handed'
  <2>1. \A r : Stalled(r) => InStatus(r, "estimated") # {}
    BY DEF Stalled
  <2>2. \A r : \A s \in InStatus(r, "estimated") : s \in Story /\ Of[s] = r /\ stories[s].status = "estimated"
    BY DEF InStatus, StoriesOf
  <2>3. stories' = stories
    BY <1>3, HandoffReadIs
  <2>4. \A h \in Handoffs' : h.S # {} /\ \A s \in h.S : Of[s] = h.req /\ stories[s].status = "estimated"
    BY <1>3, HandoffReadIs, <2>1, <2>2
  <2> QED BY <2>3, <2>4 DEF Handed
<1> QED BY <1>2, <1>3, HandoffsFewer

\* What a step does to a requirement.
IsSubmitted(r) == reqs[r].status = "none" /\ reqs'[r].status = "planning" /\ reqs'[r].branch = reqs[r].branch
ReqPlanned(r)  == /\ reqs[r].status = "planning" /\ reqs'[r].status = "planned" /\ reqs'[r].branch = reqs[r].branch
                  /\ \E s \in Story : Of[s] = r /\ stories[s].status # "none"
ReqPromoted(r) == /\ \E h \in Handoffs : h.req = r
                  /\ reqs'[r].status = "planned" /\ reqs'[r].branch = reqs[r].branch
IsSigned(r)    == /\ at = "signOff" /\ AllMerged(r)
                  /\ reqs'[r].status \in {"sign_off", "in_progress"} /\ reqs'[r].branch = reqs[r].branch
IsRecorded(r)  == /\ at = "act" /\ \E c \in todo : testers[c.row].req = r
                  /\ reqs'[r].status \in Over /\ reqs'[r].branch = reqs[r].branch

LEMMA OneReq ==
    ASSUME TypeOK, NEW q \in Req, NEW r \in Req, NEW st \in ReqStatuses, reqs' = ReqStatus(q, st)
    PROVE  \/ r # q /\ reqs'[r] = reqs[r]
           \/ r = q /\ reqs'[r].status = st /\ reqs'[r].branch = reqs[r].branch
  BY ReqStatusIs

LEMMA ReqMoves ==
    ASSUME TypeOK, Todo, [Next]_vars, NEW r \in Req
    PROVE  \/ reqs'[r] = reqs[r] \/ IsSubmitted(r) \/ ReqPlanned(r) \/ ReqPromoted(r)
           \/ Eligible(r) /\ Made(r)
           \/ Eligible(r) /\ Failed(r)
           \/ IsSigned(r) \/ IsRecorded(r)
<1>1. ASSUME NEW q \in Req, Submit(q)
      PROVE  reqs'[r] = reqs[r] \/ IsSubmitted(r)
  <2>1. reqs[q].status = "none" /\ reqs' = ReqStatus(q, "planning") /\ "planning" \in ReqStatuses
    BY <1>1 DEF Submit, ReqStatuses
  <2> QED BY <2>1, OneReq DEF IsSubmitted
<1>2. ASSUME NEW q \in Req, PlanRequirement(q)
      PROVE  reqs'[r] = reqs[r] \/ ReqPlanned(r)
  <2>1. \E s \in Story : Of[s] = q /\ stories[s].status # "none"
    BY <1>2 DEF PlanRequirement, StoriesOf
  <2>2. reqs[q].status = "planning" /\ reqs' = ReqStatus(q, "planned") /\ "planned" \in ReqStatuses
    BY <1>2 DEF PlanRequirement, ReqStatuses
  <2> QED BY <2>1, <2>2, OneReq DEF ReqPlanned
<1>3. ASSUME NEW h \in todo, Promote(h)
      PROVE  reqs'[r] = reqs[r] \/ ReqPromoted(r)
  <2>1. h \in Handoffs
    BY <1>3 DEF Promote, Handoffs
  <2>2. h.req \in Req
    BY <2>1 DEF Handoffs, Todo, Handoff
  <2>3. reqs' = ReqStatus(h.req, "planned") /\ "planned" \in ReqStatuses
    BY <1>3 DEF Promote, ReqStatuses
  <2> QED BY <2>1, <2>2, <2>3, OneReq DEF ReqPromoted
<1>4. ASSUME Assigns
      PROVE  \/ reqs'[r] = reqs[r]
             \/ Eligible(r) /\ Made(r)
             \/ Eligible(r) /\ Failed(r)
  BY <1>4, AssignsIs DEF Assigned
<1>5. ASSUME NEW q \in Req, SignOff(q)
      PROVE  reqs'[r] = reqs[r] \/ IsSigned(r)
  <2>1. \E st \in {"sign_off", "in_progress"} : reqs' = ReqStatus(q, st) /\ st \in ReqStatuses
    BY <1>5, SignOffIs DEF SignedNow, NotSpawned, Reverted, ReqStatuses
  <2>2. at = "signOff" /\ AllMerged(q)
    BY <1>5, SignOffIs
  <2> QED BY <2>1, <2>2, OneReq DEF IsSigned
<1>6. ASSUME NEW c \in todo, Record(c)
      PROVE  reqs'[r] = reqs[r] \/ IsRecorded(r)
  <2>1. c \in Result /\ at = "act" /\ reqs' = ReqStatus(testers[c.row].req, Verdict(c.kind))
    BY <1>6 DEF Todo, Record
  <2>2. testers[c.row].req \in Req
    BY <2>1, ResultIs
  <2>3. Verdict(c.kind) \in Over /\ Verdict(c.kind) \in ReqStatuses
    BY DEF Verdict, Over, ReqStatuses
  <2> QED BY <2>1, <2>2, <2>3, OneReq DEF IsRecorded
<1>7. ASSUME NEW q \in Req, PlanStories(q) \/ \E S \in SUBSET Story : Write(q, S)
      PROVE  reqs'[r] = reqs[r]
  BY <1>7 DEF PlanStories, Write
<1>8. ASSUME LeadDies \/ KeepLead \/ KillLead \/ SpawnLead \/ SignOffEnds \/ ResultsRead \/ CheckEnds \/ ManagerDies
      PROVE  reqs'[r] = reqs[r]
  BY <1>8 DEF LeadDies, KeepLead, KillLead, SpawnLead, SignOffEnds, ResultsRead, CheckEnds, ManagerDies, tables
<1>9. ASSUME NEW h \in todo, Nudge(h) \/ Merge(h)
      PROVE  reqs'[r] = reqs[r]
  BY <1>9, MergeIs DEF Nudge, tables
<1>10. ASSUME NEW s \in Story, Lands(s)
       PROVE  reqs'[r] = reqs[r]
  BY <1>10 DEF Lands
<1>11. ASSUME NEW t \in Teams, TesterDies(t)
       PROVE  reqs'[r] = reqs[r]
  BY <1>11 DEF TesterDies, tables
<1>12. ASSUME NEW t \in Teams, NEW x \in Results, Report(t, x)
       PROVE  reqs'[r] = reqs[r]
  BY <1>12 DEF Report
<1>13. ASSUME NEW skipped \in SUBSET Req, HandoffRead(skipped)
       PROVE  reqs'[r] = reqs[r]
  BY <1>13 DEF HandoffRead, tables
<1>14. ASSUME UNCHANGED vars
       PROVE  reqs'[r] = reqs[r]
  BY <1>14 DEF vars, tables
<1> QED
  BY <1>1, <1>2, <1>3, <1>4, <1>5, <1>6, <1>7, <1>8, <1>9, <1>10, <1>11, <1>12, <1>13, <1>14, Zenon
  DEF Next, Check, Lead, Assigns

\* What a step makes of what has gone wrong, of the tech lead's prompt, and of a story's home.
LEMMA TroubleGrows ==
    ASSUME TypeOK, Todo, [Next]_vars
    PROVE  trouble \subseteq trouble'
<1>1. ASSUME NEW r \in Req, Submit(r) \/ PlanRequirement(r) \/ PlanStories(r)
      PROVE  trouble \subseteq trouble'
  BY <1>1, HappensIs DEF Submit, PlanRequirement, PlanStories
<1>2. ASSUME NEW r \in Req, \E S \in SUBSET Story : Write(r, S)
      PROVE  trouble \subseteq trouble'
  BY <1>2 DEF Write
<1>3. ASSUME Assigns
      PROVE  trouble \subseteq trouble'
  BY <1>3, AssignsIs DEF Assigned
<1>4. ASSUME NEW r \in Req, SignOff(r)
      PROVE  trouble \subseteq trouble'
  BY <1>4, SignOffIs, HappensIs DEF SignedNow, NotSpawned
<1>5. ASSUME LeadDies \/ KillLead \/ ManagerDies
      PROVE  trouble \subseteq trouble'
  BY <1>5, HappensIs DEF LeadDies, KillLead, ManagerDies
<1>6. ASSUME KeepLead \/ SpawnLead \/ SignOffEnds \/ ResultsRead \/ CheckEnds
      PROVE  trouble \subseteq trouble'
  BY <1>6 DEF KeepLead, SpawnLead, SignOffEnds, ResultsRead, CheckEnds
<1>7. ASSUME NEW h \in todo, Nudge(h) \/ Promote(h) \/ Record(h)
      PROVE  trouble \subseteq trouble'
  BY <1>7 DEF Nudge, Promote, Record
<1>8. ASSUME NEW c \in todo, Merge(c)
      PROVE  trouble \subseteq trouble'
  BY <1>8, MergeIs, HappensIs
<1>9. ASSUME NEW s \in Story, Lands(s)
      PROVE  trouble \subseteq trouble'
  BY <1>9 DEF Lands
<1>10. ASSUME NEW t \in Teams, TesterDies(t)
       PROVE  trouble \subseteq trouble'
  BY <1>10, HappensIs DEF TesterDies
<1>11. ASSUME NEW t \in Teams, NEW x \in Results, Report(t, x)
       PROVE  trouble \subseteq trouble'
  BY <1>11, HappensIs DEF Report
<1>12. ASSUME NEW skipped \in SUBSET Req, HandoffRead(skipped)
       PROVE  trouble \subseteq trouble'
  BY <1>12 DEF HandoffRead
<1>13. ASSUME UNCHANGED vars
       PROVE  trouble \subseteq trouble'
  BY <1>13 DEF vars
<1> QED
  BY <1>1, <1>2, <1>3, <1>4, <1>5, <1>6, <1>7, <1>8, <1>9, <1>10, <1>11, <1>12, <1>13, Zenon
  DEF Next, Check, Lead, Assigns

LEMMA AskedMoves ==
    ASSUME TypeOK, Todo, [Next]_vars, NEW r \in Req, r \in asked'
    PROVE  \/ r \in asked
           \/ IsSubmitted(r) /\ stories' = stories
           \/ "restart" \in trouble /\ reqs[r].status # "none" /\ reqs' = reqs
<1> DEFINE Asks == \/ r \in asked
                   \/ IsSubmitted(r) /\ stories' = stories
                   \/ "restart" \in trouble /\ reqs[r].status # "none" /\ reqs' = reqs
<1>1. ASSUME NEW q \in Req, Submit(q)
      PROVE  Asks
  <2>1. reqs[q].status = "none" /\ reqs' = ReqStatus(q, "planning") /\ "planning" \in ReqStatuses
    BY <1>1 DEF Submit, ReqStatuses
  <2>2. stories' = stories /\ (r \in asked \/ r = q)
    BY <1>1 DEF Submit
  <2> QED BY <2>1, <2>2, OneReq DEF IsSubmitted
<1>2. ASSUME SpawnLead
      PROVE  Asks
  <2>1. "restart" \in trouble
    BY <1>2 DEF SpawnLead, Step, Todo
  <2>2. r \in activeReq
    BY <1>2 DEF SpawnLead
  <2>3. reqs[r].status # "none"
    BY <2>2 DEF activeReq, ReqsIn
  <2> QED BY <1>2, <2>1, <2>3 DEF SpawnLead, tables
<1>3. ASSUME NEW q \in Req, PlanRequirement(q) \/ PlanStories(q)
      PROVE  Asks
  BY <1>3 DEF PlanRequirement, PlanStories, world
<1>4. ASSUME NEW q \in Req, NEW S \in SUBSET Story, Write(q, S)
      PROVE  Asks
  BY <1>4 DEF Write
<1>5. ASSUME Assigns
      PROVE  Asks
  BY <1>5, AssignsIs
<1>6. ASSUME NEW q \in Req, SignOff(q)
      PROVE  Asks
  BY <1>6, SignOffIs
<1>7. ASSUME LeadDies \/ KillLead \/ ManagerDies \/ KeepLead \/ SignOffEnds \/ ResultsRead \/ CheckEnds
      PROVE  Asks
  BY <1>7 DEF LeadDies, KillLead, ManagerDies, KeepLead, SignOffEnds, ResultsRead, CheckEnds, world
<1>8. ASSUME NEW h \in todo, Nudge(h) \/ Promote(h) \/ Record(h) \/ Merge(h)
      PROVE  Asks
  BY <1>8, MergeIs DEF Nudge, Promote, Record, world
<1>9. ASSUME NEW s \in Story, Lands(s)
      PROVE  Asks
  BY <1>9 DEF Lands
<1>10. ASSUME NEW t \in Teams, TesterDies(t)
       PROVE  Asks
  BY <1>10 DEF TesterDies
<1>11. ASSUME NEW t \in Teams, NEW x \in Results, Report(t, x)
       PROVE  Asks
  BY <1>11 DEF Report
<1>12. ASSUME NEW skipped \in SUBSET Req, HandoffRead(skipped)
       PROVE  Asks
  BY <1>12 DEF HandoffRead, world
<1>13. ASSUME UNCHANGED vars
       PROVE  Asks
  BY <1>13 DEF vars, world
<1> HIDE DEF Asks
<1>14. Asks
  BY <1>1, <1>2, <1>3, <1>4, <1>5, <1>6, <1>7, <1>8, <1>9, <1>10, <1>11, <1>12, <1>13, Zenon
  DEF Next, Check, Lead, Assigns
<1> QED BY <1>14 DEF Asks

LEMMA HomeMoves ==
    ASSUME TypeOK, Todo, [Next]_vars, NEW s \in Story
    PROVE  home'[s] = home[s] \/ home'[s] = "feature" \/ HasLanded(s)
<1>1. ASSUME Assigns
      PROVE  home'[s] = home[s] \/ home'[s] = "feature"
  BY <1>1, AssignsIs DEF Assigned
<1>2. ASSUME NEW u \in Story, Lands(u)
      PROVE  home'[s] = home[s] \/ HasLanded(s)
  <2>1. stories \in [Story -> StoryRow] /\ home \in [Story -> Branches]
    BY DEF TypeOK, StoryRow, Branches
  <2>2. CASE s = u
    <3>1. stories'[s] = [status |-> "merged", for |-> None]
      BY <1>2, <2>1, <2>2 DEF Lands
    <3>2. home'[s] = IF home[s] = "feature" THEN "feature" ELSE stories[s].for
      BY <1>2, <2>1, <2>2 DEF Lands
    <3> QED BY <1>2, <2>2, <3>1, <3>2 DEF Lands, HasLanded
  <2>3. CASE s # u
    BY <1>2, <2>1, <2>3 DEF Lands
  <2> QED BY <2>2, <2>3
<1>3. ASSUME NEW q \in Req, Submit(q) \/ PlanRequirement(q) \/ PlanStories(q) \/ \E S \in SUBSET Story : Write(q, S)
      PROVE  home' = home
  BY <1>3 DEF Submit, PlanRequirement, PlanStories, Write, world
<1>4. ASSUME NEW q \in Req, SignOff(q)
      PROVE  home' = home
  BY <1>4, SignOffIs
<1>5. ASSUME LeadDies \/ KillLead \/ SpawnLead \/ ManagerDies \/ KeepLead \/ SignOffEnds \/ ResultsRead \/ CheckEnds
      PROVE  home' = home
  BY <1>5 DEF LeadDies, KillLead, SpawnLead, ManagerDies, KeepLead, SignOffEnds, ResultsRead, CheckEnds, world
<1>6. ASSUME NEW h \in todo, Nudge(h) \/ Promote(h) \/ Record(h) \/ Merge(h)
      PROVE  home' = home
  BY <1>6, MergeIs DEF Nudge, Promote, Record, world
<1>7. ASSUME NEW t \in Teams, TesterDies(t)
      PROVE  home' = home
  BY <1>7 DEF TesterDies
<1>8. ASSUME NEW t \in Teams, NEW x \in Results, Report(t, x)
      PROVE  home' = home
  BY <1>8 DEF Report
<1>9. ASSUME NEW skipped \in SUBSET Req, HandoffRead(skipped)
      PROVE  home' = home
  BY <1>9 DEF HandoffRead, world
<1>10. ASSUME UNCHANGED vars
       PROVE  home' = home
  BY <1>10 DEF vars, world
<1>11. home' = home => home'[s] = home[s]
  OBVIOUS
<1> QED
  BY <1>1, <1>2, <1>3, <1>4, <1>5, <1>6, <1>7, <1>8, <1>9, <1>10, <1>11, Zenon
  DEF Next, Check, Lead, Assigns

-----------------------------------------------------------------------------
(* What the tables say of a requirement.                                   *)

\* A new row comes after the others, which stay.
LEMMA NewRows ==
    ASSUME TypeOK, NEW q \in Req, NEW named \in BOOLEAN, testers' = NewTester(q, named)
    PROVE  /\ \A i \in DOMAIN testers : i \in DOMAIN testers' /\ testers'[i] = testers[i]
           /\ \A i \in DOMAIN testers' : \/ i \in DOMAIN testers /\ testers'[i] = testers[i]
                                        \/ /\ i = Len(testers) + 1 /\ \A k \in DOMAIN testers : i > k
                                           /\ testers'[i] = [req |-> q, named |-> named, heard |-> None, done |-> FALSE]
           /\ Len(testers) + 1 \in DOMAIN testers'
<1> DEFINE n == Len(testers)
           row == [req |-> q, named |-> named, heard |-> None, done |-> FALSE]
<1>1. /\ n \in Nat /\ DOMAIN testers = 1..n /\ DOMAIN testers' = 1..(n + 1)
      /\ \A i \in 1..n : testers'[i] = testers[i]
      /\ testers'[n + 1] = row
  BY NewTesterIs
<1> HIDE DEF n, row
<1>2. \A i \in 1..n : i \in 1..(n + 1)
  BY <1>1
<1>3. \A i \in 1..(n + 1) : i \in 1..n \/ (i = n + 1 /\ \A k \in 1..n : i > k)
  BY <1>1
<1>4. n + 1 \in 1..(n + 1)
  BY <1>1
<1> QED BY <1>1, <1>2, <1>3, <1>4 DEF n, row

\* A requirement is signed off when a row gets its name, with all its stories merged.
NowSigned(r) ==
    /\ at = "signOff" /\ AllMerged(r) /\ reqs'[r].status = "sign_off" /\ reqs'[r].branch = reqs[r].branch
    /\ signed'[r] = StoriesOf(r)
    /\ UNCHANGED <<stories, home, trouble, todo, at, shipped, tested>>

\* Rows keep their names.
RowsKept == /\ DOMAIN testers' = DOMAIN testers
            /\ \A i \in DOMAIN testers : testers'[i].named = testers[i].named /\ testers'[i].req = testers[i].req

LEMMA SignedKept == RowsKept => \A r : SignedOff(r)' <=> SignedOff(r)
  BY DEF RowsKept, SignedOff

LEMMA RowMoves ==
    ASSUME TypeOK, Todo, [Next]_vars
    PROVE  RowsKept \/ \E r \in Req : SignOff(r)
<1>1. ASSUME testers' = testers
      PROVE  RowsKept
  BY <1>1 DEF RowsKept
<1>2. ASSUME Assigns \/ \E c \in todo : Merge(c)
      PROVE  RowsKept
  BY <1>1, <1>2, AssignsIs, MergeIs
<1>3. ASSUME NEW q \in Req, Submit(q) \/ PlanRequirement(q) \/ PlanStories(q) \/ \E S \in SUBSET Story : Write(q, S)
      PROVE  RowsKept
  BY <1>1, <1>3 DEF Submit, PlanRequirement, PlanStories, Write
<1>4. ASSUME LeadDies \/ KillLead \/ SpawnLead \/ ManagerDies \/ KeepLead \/ SignOffEnds \/ ResultsRead \/ CheckEnds
      PROVE  RowsKept
  BY <1>1, <1>4 DEF LeadDies, KillLead, SpawnLead, ManagerDies, KeepLead, SignOffEnds, ResultsRead, CheckEnds, tables
<1>5. ASSUME NEW h \in todo, Nudge(h) \/ Promote(h)
      PROVE  RowsKept
  BY <1>1, <1>5 DEF Nudge, Promote, tables
<1>6. ASSUME NEW s \in Story, Lands(s)
      PROVE  RowsKept
  BY <1>1, <1>6 DEF Lands
<1>7. ASSUME NEW t \in Teams, TesterDies(t)
      PROVE  RowsKept
  BY <1>1, <1>7 DEF TesterDies, tables
<1>8. ASSUME NEW skipped \in SUBSET Req, HandoffRead(skipped)
      PROVE  RowsKept
  BY <1>1, <1>8 DEF HandoffRead, tables
<1>9. ASSUME NEW t \in Teams, NEW x \in Results, Report(t, x)
      PROVE  RowsKept
  <2> DEFINE k == Max(RowsOf(t))
  <2>1. testers' = testers \/ testers' = [testers EXCEPT ![k].heard = x]
    BY <1>9 DEF Report
  <2> HIDE DEF k
  <2>2. CASE k \in DOMAIN testers
    <3>1. ASSUME testers' = [testers EXCEPT ![k].heard = x]
          PROVE  RowsKept
      BY <2>2, <3>1, HeardIs DEF RowsKept
    <3> QED BY <1>1, <2>1, <3>1
  <2>3. CASE k \notin DOMAIN testers
    <3>1. [testers EXCEPT ![k].heard = x] = testers
      BY <2>3 DEF TypeOK
    <3> QED BY <1>1, <2>1, <3>1
  <2> QED BY <2>2, <2>3
<1>10. ASSUME NEW c \in todo, Record(c)
       PROVE  RowsKept
  <2>1. c \in Result /\ testers' = [testers EXCEPT ![c.row].done = TRUE]
    BY <1>10 DEF Todo, Record
  <2> QED BY <2>1, ResultIs, DoneIs DEF RowsKept
<1>11. ASSUME UNCHANGED vars
       PROVE  RowsKept
  BY <1>1, <1>11 DEF vars, tables
<1> QED
  BY <1>2, <1>3, <1>4, <1>5, <1>6, <1>7, <1>8, <1>9, <1>10, <1>11, Zenon
  DEF Next, Check, Lead, Assigns

LEMMA SignedMoves ==
    ASSUME TypeOK, Todo, [Next]_vars, NEW r \in Req
    PROVE  /\ SignedOff(r) => SignedOff(r)'
           /\ SignedOff(r)' => SignedOff(r) \/ NowSigned(r)
           /\ signed'[r] = signed[r] \/ NowSigned(r)
<1>1. ASSUME NEW q \in Req, SignOff(q), SignedNow(q)
      PROVE  /\ SignedOff(r) => SignedOff(r)'
             /\ SignedOff(r)' => SignedOff(r) \/ NowSigned(r)
             /\ signed'[r] = signed[r] \/ NowSigned(r)
  <2>1. /\ at = "signOff" /\ AllMerged(q) /\ reqs' = ReqStatus(q, "sign_off") /\ testers' = NewTester(q, TRUE)
        /\ signed' = [signed EXCEPT ![q] = StoriesOf(q)]
        /\ UNCHANGED <<stories, home, trouble, todo, at, shipped, tested>>
    BY <1>1, SignOffIs DEF SignedNow
  <2>2. signed \in [Req -> SUBSET Story] /\ "sign_off" \in ReqStatuses
    BY DEF TypeOK, ReqStatuses
  <2>3. NowSigned(q)
    <3>1. reqs'[q].status = "sign_off" /\ reqs'[q].branch = reqs[q].branch
      BY <2>1, <2>2, OneReq
    <3>2. signed'[q] = StoriesOf(q)
      BY <2>1, <2>2
    <3> QED BY <2>1, <3>1, <3>2 DEF NowSigned
  <2>new. \A i \in DOMAIN testers' : \/ i \in DOMAIN testers /\ testers'[i] = testers[i]
                                     \/ testers'[i] = [req |-> q, named |-> TRUE, heard |-> None, done |-> FALSE]
    BY <2>1, NewRows
  <2>4. \A i \in DOMAIN testers' : \/ i \in DOMAIN testers /\ testers'[i] = testers[i]
                                   \/ testers'[i].req = q
    BY <2>new
  <2>5. \A i \in DOMAIN testers : i \in DOMAIN testers' /\ testers'[i] = testers[i]
    BY <2>1, NewRows
  <2>6. r # q => signed'[r] = signed[r]
    BY <2>1, <2>2
  <2>7. SignedOff(r) => SignedOff(r)'
    BY <2>5 DEF SignedOff
  <2>8. r # q => (SignedOff(r)' => SignedOff(r))
    BY <2>4 DEF SignedOff
  <2> QED BY <2>3, <2>6, <2>7, <2>8
<1>2. ASSUME NEW q \in Req, SignOff(q), NotSpawned(q)
      PROVE  (SignedOff(r)' <=> SignedOff(r)) /\ signed'[r] = signed[r]
  <2>1. testers' = NewTester(q, FALSE) /\ signed' = signed
    BY <1>2, SignOffIs DEF NotSpawned
  <2>new. \A i \in DOMAIN testers' : \/ i \in DOMAIN testers /\ testers'[i] = testers[i]
                                     \/ testers'[i] = [req |-> q, named |-> FALSE, heard |-> None, done |-> FALSE]
    BY <2>1, NewRows
  <2>2. \A i \in DOMAIN testers' : \/ i \in DOMAIN testers /\ testers'[i] = testers[i]
                                   \/ testers'[i].named = FALSE
    BY <2>new
  <2>3. \A i \in DOMAIN testers : i \in DOMAIN testers' /\ testers'[i] = testers[i]
    BY <2>1, NewRows
  <2> QED BY <2>1, <2>2, <2>3 DEF SignedOff
<1>3. ASSUME \A q \in Req : ~SignOff(q)
      PROVE  (SignedOff(r)' <=> SignedOff(r)) /\ signed'[r] = signed[r]
  <2>1. SignedOff(r)' <=> SignedOff(r)
    BY <1>3, RowMoves, SignedKept
  <2>2. ASSUME Assigns \/ \E c \in todo : Merge(c)
        PROVE  signed' = signed
    BY <2>2, AssignsIs, MergeIs
  <2>3. ASSUME NEW q \in Req, Submit(q) \/ PlanRequirement(q) \/ PlanStories(q) \/ \E S \in SUBSET Story : Write(q, S)
        PROVE  signed' = signed
    BY <2>3 DEF Submit, PlanRequirement, PlanStories, Write
  <2>4. ASSUME LeadDies \/ KillLead \/ SpawnLead \/ ManagerDies \/ KeepLead \/ SignOffEnds \/ ResultsRead \/ CheckEnds
        PROVE  signed' = signed
    BY <2>4 DEF LeadDies, KillLead, SpawnLead, ManagerDies, KeepLead, SignOffEnds, ResultsRead, CheckEnds
  <2>5. ASSUME NEW h \in todo, Nudge(h) \/ Promote(h) \/ Record(h)
        PROVE  signed' = signed
    BY <2>5 DEF Nudge, Promote, Record
  <2>6. ASSUME NEW s \in Story, Lands(s)
        PROVE  signed' = signed
    BY <2>6 DEF Lands
  <2>7. ASSUME NEW t \in Teams, TesterDies(t) \/ \E x \in Results : Report(t, x)
        PROVE  signed' = signed
    BY <2>7 DEF TesterDies, Report
  <2>8. ASSUME NEW skipped \in SUBSET Req, HandoffRead(skipped)
        PROVE  signed' = signed
    BY <2>8 DEF HandoffRead
  <2>9. ASSUME UNCHANGED vars
        PROVE  signed' = signed
    BY <2>9 DEF vars
  <2>10. signed' = signed
    BY <1>3, <2>2, <2>3, <2>4, <2>5, <2>6, <2>7, <2>8, <2>9, Zenon DEF Next, Check, Lead, Assigns
  <2> QED BY <2>1, <2>10
<1> QED BY <1>1, <1>2, <1>3, SignOffIs

Moves(s) == stories'[s] = stories[s] \/ IsWritten(s) \/ IsPlanned(s) \/ IsPromoted(s) \/ HasLanded(s) \/ (Given(s) /\ Assigned)
Steered(r) == \/ reqs'[r] = reqs[r] \/ IsSubmitted(r) \/ ReqPlanned(r) \/ ReqPromoted(r)
              \/ Eligible(r) /\ Made(r)
              \/ Eligible(r) /\ Failed(r)
              \/ IsSigned(r) \/ IsRecorded(r)

\* What has been read of a requirement is about stories that it has.
LEMMA HandedOf ==
    ASSUME Todo, Handed, NEW h \in Handoffs
    PROVE  /\ h.req \in Req /\ h.S \subseteq Story /\ at \in {"promote", "promoted"}
           /\ \E s \in h.S : s \in Story /\ Of[s] = h.req /\ stories[s].status # "none"
           /\ \A s \in h.S : Of[s] = h.req /\ stories[s].status # "none"
<1>1. h \in Handoff /\ at \in {"promote", "promoted"}
  BY DEF Handoffs, Todo
<1>2. h.req \in Req /\ h.S \subseteq Story
  BY <1>1 DEF Handoff
<1>3. h.S # {} /\ \A s \in h.S : Of[s] = h.req /\ stories[s].status # "none"
  BY DEF Handed
<1> QED BY <1>1, <1>2, <1>3

LEMMA NextFresh ==
    ASSUME TypeOK, Todo, Handed, Fresh, [Next]_vars
    PROVE  Fresh'
<1> USE RequirementAssumption
<1> SUFFICES ASSUME NEW r \in Req, reqs'[r].status = "none"
             PROVE  r \notin asked' /\ \A s \in Story : Of[s] = r => stories'[s].status = "none"
  BY DEF Fresh
<1>1. reqs[r].status = "none"
  <2>1. Steered(r)
    BY ReqMoves DEF Steered
  <2> QED BY <2>1 DEF Steered, IsSubmitted, ReqPlanned, ReqPromoted, Made, Failed, IsSigned, IsRecorded, Over
<1>2. r \notin asked /\ \A s \in Story : Of[s] = r => stories[s].status = "none"
  BY <1>1 DEF Fresh
<1>3. r \notin asked'
  BY <1>1, <1>2, AskedMoves DEF IsSubmitted
<1>4. ASSUME NEW s \in Story, Of[s] = r
      PROVE  stories'[s].status = "none"
  <2>1. Moves(s)
    BY StoryMoves DEF Moves
  <2>2. ~IsPromoted(s)
    BY <1>2, <1>4, HandedOf DEF IsPromoted
  <2> QED BY <1>2, <1>4, <2>1, <2>2 DEF Moves, IsWritten, IsPlanned, HasLanded, Given
<1> QED BY <1>3, <1>4

LEMMA RecordedWasSigned ==
    ASSUME TypeOK, Todo, ActInv, NEW r, IsRecorded(r)
    PROVE  SignedOff(r)
<1>1. PICK c \in todo : testers[c.row].req = r
  BY DEF IsRecorded
<1>2. c \in Result /\ ActOf(c)
  BY DEF IsRecorded, Todo, ActInv
<1>3. c.row \in DOMAIN testers /\ testers[c.row].named
  BY <1>2, ResultIs DEF ActOf
<1> QED BY <1>1, <1>3 DEF SignedOff

LEMMA NextAskedOf ==
    ASSUME TypeOK, Todo, Handed, Fresh, AskedOnce, ActInv, [Next]_vars, "restart" \notin trouble', NEW r \in Req
    PROVE  AskedOf(r)'
<1> USE RequirementAssumption
<1>a. "restart" \notin trouble /\ AskedOf(r)
  BY TroubleGrows DEF AskedOnce
<1>1. /\ r \in asked =>
          reqs[r].status = "planning" /\ \A s \in Story : Of[s] = r => stories[s].status = "none"
      /\ \A s, u \in Story : Of[s] = r /\ Of[u] = r /\ stories[s].status = "estimated" =>
          reqs[r].status \in {"planning", "planned"} /\ stories[u].status \in {"none", "estimated"}
      /\ \A h \in Handoffs : h.req = r =>
          ~SignedOff(r) /\ \A s \in Story : Of[s] = r /\ stories[s].status # "none" => s \in h.S
      /\ SignedOff(r) =>
          reqs[r].status \in Over /\ \A s \in Story : Of[s] = r => stories[s].status \in {"none", "merged"}
  BY <1>a DEF AskedOf
<1>s. \A s \in Story : Moves(s)
  BY StoryMoves DEF Moves
<1>r. Steered(r)
  BY ReqMoves DEF Steered
<1>f. reqs[r].status = "none" => r \notin asked /\ \A s \in Story : Of[s] = r => stories[s].status = "none"
  BY DEF Fresh
<1>h. \A h \in Handoffs : /\ h.S \subseteq Story
                          /\ \E s \in h.S : s \in Story /\ Of[s] = h.req /\ stories[s].status # "none"
                          /\ \A s \in h.S : Of[s] = h.req
  BY HandedOf
<1>c. IsRecorded(r) => SignedOff(r)
  BY RecordedWasSigned
<1>2. ASSUME r \in asked'
      PROVE  reqs'[r].status = "planning" /\ \A s \in Story : Of[s] = r => stories'[s].status = "none"
  <2>1. CASE r \in asked
    <3>1. reqs[r].status = "planning" /\ \A s \in Story : Of[s] = r => stories[s].status = "none"
      BY <1>1, <2>1
    <3>2. ~ReqPlanned(r) /\ ~ReqPromoted(r) /\ ~SignedOff(r)
      BY <1>1, <1>h, <3>1 DEF ReqPlanned, ReqPromoted, Over
    <3>3. reqs'[r].status = "planning"
      BY <1>r, <1>c, <3>1, <3>2 DEF Steered, IsSubmitted, Eligible, IsSigned, AllMerged
    <3>4. ASSUME NEW s \in Story, Of[s] = r
          PROVE  stories'[s].status = "none"
      <4>1. stories[s].status = "none" /\ Moves(s)
        BY <1>s, <3>1, <3>4
      <4>2. ~IsWritten(s)
        BY <1>2, <3>4 DEF IsWritten
      <4>3. ~IsPromoted(s)
        BY <1>h, <3>1, <3>4 DEF IsPromoted
      <4> QED BY <4>1, <4>2, <4>3 DEF Moves, IsPlanned, HasLanded, Given
    <3> QED BY <3>3, <3>4
  <2>2. CASE r \notin asked
    <3>1. IsSubmitted(r) /\ stories' = stories
      BY <1>2, <1>a, <2>2, AskedMoves
    <3> QED BY <3>1, <1>f DEF IsSubmitted
  <2> QED BY <2>1, <2>2
<1>3. ASSUME NEW s \in Story, NEW u \in Story, Of[s] = r, Of[u] = r, stories'[s].status = "estimated"
      PROVE  reqs'[r].status \in {"planning", "planned"} /\ stories'[u].status \in {"none", "estimated"}
  <2>1. stories'[s] = stories[s] \/ IsWritten(s)
    BY <1>s, <1>3 DEF Moves, IsPlanned, IsPromoted, HasLanded, Given
  <2>2. CASE stories'[s] = stories[s]
    <3>1. reqs[r].status \in {"planning", "planned"} /\ stories[u].status \in {"none", "estimated"} /\ stories[s].status = "estimated"
      BY <1>1, <1>3, <2>2
    <3>2. ~Eligible(r) /\ ~SignedOff(r)
      BY <1>1, <1>3, <3>1 DEF Eligible
    <3>3. reqs'[r].status \in {"planning", "planned"}
      BY <1>r, <1>c, <3>1, <3>2 DEF Steered, IsSubmitted, ReqPlanned, ReqPromoted, IsSigned, AllMerged
    <3>4. Moves(u)
      BY <1>s
    <3>5. ~IsPlanned(u)
      BY <1>3, <3>1 DEF IsPlanned
    <3>6. ~IsPromoted(u)
      <4> SUFFICES ASSUME NEW h \in Handoffs, u \in h.S, \A v \in h.S : stories'[v].status = "planned"
                   PROVE  FALSE
        BY DEF IsPromoted
      <4>1. h.req = r
        BY <1>h, <1>3
      <4>2. s \in h.S
        BY <1>1, <1>3, <3>1, <4>1
      <4> QED BY <1>3, <4>2
    <3>7. stories'[u].status \in {"none", "estimated"}
      BY <3>1, <3>4, <3>5, <3>6 DEF Moves, IsWritten, HasLanded, Given
    <3> QED BY <3>3, <3>7
  <2>3. CASE IsWritten(s)
    <3>1. r \in asked /\ reqs' = reqs
      BY <1>3, <2>3 DEF IsWritten
    <3>2. reqs[r].status = "planning" /\ stories[u].status = "none"
      BY <1>1, <1>3, <3>1
    <3>3. ~IsPromoted(u)
      BY <1>h, <1>1, <1>3, <3>1 DEF IsPromoted
    <3>4. stories'[u].status \in {"none", "estimated"}
      BY <1>s, <3>2, <3>3 DEF Moves, IsWritten, IsPlanned, HasLanded, Given
    <3> QED BY <3>1, <3>2, <3>4
  <2> QED BY <2>1, <2>2, <2>3
<1>4. ASSUME NEW h \in Handoffs', h.req = r
      PROVE  ~SignedOff(r)' /\ \A s \in Story : Of[s] = r /\ stories'[s].status # "none" => s \in h.S
  <2>1. CASE h \in Handoffs
    <3>1. ~SignedOff(r) /\ \A s \in Story : Of[s] = r /\ stories[s].status # "none" => s \in h.S
      BY <1>1, <1>4, <2>1
    <3>2. at # "signOff"
      BY <2>1 DEF Handoffs
    <3>3. ~SignedOff(r)'
      BY <3>1, <3>2, SignedMoves DEF NowSigned
    <3>4. r \notin asked
      BY <1>1, <1>4, <1>h, <2>1
    <3>5. ASSUME NEW s \in Story, Of[s] = r, stories'[s].status # "none"
          PROVE  s \in h.S
      <4>1. ~IsWritten(s)
        BY <3>4, <3>5 DEF IsWritten
      <4>2. stories[s].status = "none" => ~IsPromoted(s)
        BY <1>1, HandedOf DEF IsPromoted
      <4>3. stories[s].status # "none"
        BY <1>s, <3>5, <4>1, <4>2 DEF Moves, IsPlanned, HasLanded, Given
      <4> QED BY <3>1, <3>5, <4>3
    <3> QED BY <3>3, <3>5
  <2>2. CASE h \notin Handoffs
    <3>1. PICK skipped \in SUBSET Req : HandoffRead(skipped)
      BY <2>2, HandoffsFewer
    <3>2. Stalled(r) /\ h.S = InStatus(r, "estimated") /\ stories' = stories /\ testers' = testers
      BY <1>4, <3>1, HandoffReadIs
    <3>3. PICK v \in Story : Of[v] = r /\ stories[v].status = "estimated"
      BY <3>2 DEF Stalled, InStatus, StoriesOf
    <3>4. ~SignedOff(r)
      BY <1>1, <3>3
    <3>5. ~SignedOff(r)'
      BY <3>2, <3>4 DEF SignedOff
    <3>6. \A s \in Story : Of[s] = r /\ stories[s].status # "none" => s \in InStatus(r, "estimated")
      BY <1>1, <3>3 DEF InStatus, StoriesOf
    <3> QED BY <3>2, <3>5, <3>6
  <2> QED BY <2>1, <2>2
<1>5. ASSUME SignedOff(r)'
      PROVE  reqs'[r].status \in Over /\ \A s \in Story : Of[s] = r => stories'[s].status \in {"none", "merged"}
  <2>1. CASE SignedOff(r)
    <3>1. reqs[r].status \in Over /\ \A s \in Story : Of[s] = r => stories[s].status \in {"none", "merged"}
      BY <1>1, <2>1
    <3>2. \A h \in Handoffs : h.req # r
      BY <1>1, <2>1
    <3>3. reqs'[r].status \in Over
      BY <1>r, <3>1, <3>2 DEF Steered, IsSubmitted, ReqPlanned, ReqPromoted, Eligible, IsSigned, AllMerged, IsRecorded, Over
    <3>4. r \notin asked
      BY <1>1, <3>1 DEF Over
    <3>5. ASSUME NEW s \in Story, Of[s] = r
          PROVE  stories'[s].status \in {"none", "merged"}
      <4>1. ~IsWritten(s) /\ ~IsPromoted(s)
        BY <1>h, <3>2, <3>4, <3>5 DEF IsWritten, IsPromoted
      <4> QED BY <1>s, <3>1, <3>5, <4>1 DEF Moves, IsPlanned, HasLanded, Given
    <3> QED BY <3>3, <3>5
  <2>2. CASE ~SignedOff(r)
    <3>1. NowSigned(r)
      BY <1>5, <2>2, SignedMoves
    <3>2. \A s \in Story : Of[s] = r => stories[s].status \in {"none", "merged"}
      BY <3>1 DEF NowSigned, AllMerged, InStatus, StoriesOf
    <3> QED BY <3>1, <3>2 DEF NowSigned, Over
  <2> QED BY <2>1, <2>2
<1> QED BY <1>2, <1>3, <1>4, <1>5 DEF AskedOf

LEMMA NextAskedOnce ==
    ASSUME TypeOK, Todo, Handed, Fresh, AskedOnce, ActInv, [Next]_vars
    PROVE  AskedOnce'
<1> SUFFICES ASSUME "restart" \notin trouble', NEW r \in Req
             PROVE  AskedOf(r)'
  BY DEF AskedOnce
<1> QED BY NextAskedOf

LEMMA NextGitInv ==
    ASSUME TypeOK, Todo, GitInv, ActInv, [Next]_vars
    PROVE  GitInv'
<1> SUFFICES ASSUME "git" \notin trouble', NEW r \in Req
             PROVE  GitOf(r)'
  BY DEF GitInv
<1>1. GitOf(r) /\ "git" \notin trouble
  BY TroubleGrows DEF GitInv
<1>2. Steered(r)
  BY ReqMoves DEF Steered
<1>3. ~Failed(r)
  BY DEF Failed
<1>4. IsRecorded(r) => SignedOff(r)
  BY RecordedWasSigned
<1>5. ~reqs'[r].branch => reqs'[r].status \in Early
  <2>1. ~reqs[r].branch => reqs[r].status \in Early
    BY <1>1 DEF GitOf
  <2>2. SignedOff(r) => reqs[r].branch
    BY <1>1 DEF GitOf
  <2>3. IsSigned(r) => reqs[r].status = "in_progress"
    BY DEF IsSigned, AllMerged
  <2> QED BY <1>2, <1>3, <1>4, <2>1, <2>2, <2>3
          DEF Steered, IsSubmitted, ReqPlanned, ReqPromoted, Made, IsSigned, IsRecorded, Early
<1>6. ASSUME SignedOff(r)'
      PROVE  reqs'[r].branch /\ reqs'[r].status \in Over \cup {"planned"}
  <2>1. CASE SignedOff(r)
    <3>1. reqs[r].branch /\ reqs[r].status \in Over \cup {"planned"}
      BY <1>1, <2>1 DEF GitOf
    <3> QED BY <1>2, <3>1
            DEF Steered, IsSubmitted, ReqPlanned, ReqPromoted, Eligible, IsSigned, AllMerged, IsRecorded, Over
  <2>2. CASE ~SignedOff(r)
    <3>1. NowSigned(r)
      BY <1>6, <2>2, SignedMoves
    <3>2. reqs[r].branch
      BY <1>1, <3>1 DEF NowSigned, AllMerged, GitOf, Early
    <3> QED BY <3>1, <3>2 DEF NowSigned, Over
  <2> QED BY <2>1, <2>2
<1> QED BY <1>5, <1>6 DEF GitOf

\* What is in progress was not signed off, so that it is signed off once.
LEMMA NotSigned ==
    ASSUME AskedOnce, GitInv, ~Repeated, NEW r \in Req, reqs[r].status = "in_progress"
    PROVE  ~SignedOff(r)
<1>1. "restart" \notin trouble \/ "git" \notin trouble
  BY DEF Repeated
<1>2. CASE "restart" \notin trouble
  BY <1>2 DEF AskedOnce, AskedOf, Over
<1>3. CASE "git" \notin trouble
  BY <1>3 DEF GitInv, GitOf, Over
<1> QED BY <1>1, <1>2, <1>3

LEMMA NextOnce ==
    ASSUME TypeOK, Todo, AskedOnce, GitInv, Once, [Next]_vars
    PROVE  Once'
<1> SUFFICES ASSUME ~Repeated', NEW i \in DOMAIN testers', NEW j \in DOMAIN testers',
                    testers'[i].named, testers'[j].named, testers'[i].req = testers'[j].req
             PROVE  i = j
  BY DEF Once
<1>1. ~Repeated
  BY TroubleGrows DEF Repeated
<1>2. \A k, l \in DOMAIN testers :
         testers[k].named /\ testers[l].named /\ testers[k].req = testers[l].req => k = l
  BY <1>1 DEF Once
<1>3. CASE RowsKept
  BY <1>2, <1>3 DEF RowsKept
<1>4. ASSUME NEW q \in Req, SignOff(q)
      PROVE  i = j
  <2>1. \E named \in BOOLEAN : testers' = NewTester(q, named)
    BY <1>4, SignOffIs DEF SignedNow, NotSpawned
  <2>2. PICK named \in BOOLEAN : testers' = NewTester(q, named)
    BY <2>1
  <2>3. ~SignedOff(q)
    BY <1>1, <1>4, SignOffIs, NotSigned DEF AllMerged
  <2>4. \A k \in DOMAIN testers' : \/ k \in DOMAIN testers /\ testers'[k] = testers[k]
                                   \/ k = Len(testers) + 1 /\ testers'[k].req = q
    <3>1. \A k \in DOMAIN testers' : \/ k \in DOMAIN testers /\ testers'[k] = testers[k]
                                     \/ /\ k = Len(testers) + 1
                                        /\ testers'[k] = [req |-> q, named |-> named, heard |-> None, done |-> FALSE]
      BY <2>2, NewRows
    <3> QED BY <3>1
  <2>5. \A k \in DOMAIN testers : testers[k].named => testers[k].req # q
    BY <2>3 DEF SignedOff
  <2> QED BY <1>2, <2>4, <2>5
<1> QED BY <1>3, <1>4, RowMoves

\* A requirement keeps its branch, and gets none once it is signed off.
LEMMA BranchStays ==
    ASSUME TypeOK, Todo, [Next]_vars, NEW r \in Req, reqs[r].branch
    PROVE  reqs'[r].branch
<1>1. Steered(r)
  BY ReqMoves DEF Steered
<1> QED BY <1>1 DEF Steered, IsSubmitted, ReqPlanned, ReqPromoted, Made, Failed, IsSigned, IsRecorded

LEMMA SignedBranch ==
    ASSUME TypeOK, Todo, AskedOnce, GitInv, ~Repeated, [Next]_vars, NEW r \in Req, SignedOff(r), reqs'[r].branch
    PROVE  reqs[r].branch
<1>1. Steered(r)
  BY ReqMoves DEF Steered
<1>2. "restart" \notin trouble \/ "git" \notin trouble
  BY DEF Repeated
<1>3. CASE "restart" \notin trouble
  <2>1. ~Eligible(r)
    BY <1>3 DEF AskedOnce, AskedOf, Eligible, Over
  <2> QED BY <1>1, <2>1 DEF Steered, IsSubmitted, ReqPlanned, ReqPromoted, IsSigned, IsRecorded
<1>4. CASE "git" \notin trouble
  BY <1>4 DEF GitInv, GitOf
<1> QED BY <1>2, <1>3, <1>4

LEMMA NextCalmOf ==
    ASSUME TypeOK, Todo, Handed, Fresh, AskedOnce, GitInv, CalmInv, ActInv, [Next]_vars, Calm', NEW r \in Req
    PROVE  CalmOf(r)'
<1> USE RequirementAssumption
<1>0. Calm /\ ~Repeated
  BY TroubleGrows DEF Calm, Repeated
<1>1. /\ reqs[r].status = "planning" =>
          \A s \in Story : Of[s] = r => stories[s].status \in {"none", "estimated"}
      /\ ~reqs[r].branch /\ reqs[r].status \in Early =>
          \A s \in Story : Of[s] = r =>
             stories[s].status \in {"none", "estimated", "planned"} /\ stories[s].for = None
      /\ reqs[r].branch =>
          \A s \in Story : Of[s] = r => /\ stories[s].for \in {None, "feature"}
                                        /\ stories[s].status = "merged" => home[s] = "feature"
      /\ SignedOff(r) => /\ signed[r] # {}
                         /\ reqs[r].branch => \A s \in signed[r] : Of[s] = r /\ home[s] = "feature"
  <2>1. CalmOf(r)
    BY <1>0 DEF CalmInv
  <2> QED BY <2>1 DEF CalmOf
<1>s. \A s \in Story : Moves(s)
  BY StoryMoves DEF Moves
<1>r. Steered(r)
  BY ReqMoves DEF Steered
<1>f. reqs[r].status = "none" => \A s \in Story : Of[s] = r => stories[s].status = "none"
  BY DEF Fresh
<1>p. \A s \in Story : IsPromoted(s) => reqs'[Of[s]].status = "planned"
  BY HandedOf DEF IsPromoted
<1>2. ASSUME reqs'[r].status = "planning", NEW s \in Story, Of[s] = r
      PROVE  stories'[s].status \in {"none", "estimated"}
  <2>1. reqs[r].status \in {"planning", "none"}
    BY <1>r, <1>2 DEF Steered, IsSubmitted, ReqPlanned, ReqPromoted, Made, Failed, IsSigned, IsRecorded, Over
  <2>2. stories[s].status \in {"none", "estimated"}
    BY <1>1, <1>2, <1>f, <2>1
  <2>3. ~IsPromoted(s)
    BY <1>2, <1>p
  <2>4. ~IsPlanned(s)
    <3>1. reqs[r].status = "planning" => ~IsPlanned(s)
      BY <1>2 DEF IsPlanned, Calm
    <3>2. reqs[r].status = "none" => ~IsPlanned(s)
      BY <1>2, <1>f DEF IsPlanned
    <3> QED BY <2>1, <3>1, <3>2
  <2> QED BY <1>s, <2>2, <2>3, <2>4 DEF Moves, IsWritten, HasLanded, Given
<1>b. reqs[r].branch => reqs'[r].branch
  BY BranchStays
<1>3. ASSUME ~reqs'[r].branch, reqs'[r].status \in Early, NEW s \in Story, Of[s] = r
      PROVE  stories'[s].status \in {"none", "estimated", "planned"} /\ stories'[s].for = None
  <2>1. ~reqs[r].branch
    BY <1>b, <1>3
  <2>2. CASE reqs[r].status \in Early
    <3>1. stories[s].status \in {"none", "estimated", "planned"} /\ stories[s].for = None
      BY <1>1, <1>3, <2>1, <2>2
    <3>2. ASSUME Given(s), Assigned
          PROVE  FALSE
      <4>1. stories[s].status = "planned"
        BY <3>2 DEF Given
      <4>2. reqs[r].status = "planned"
        BY <1>1, <1>3, <1>f, <2>2, <4>1 DEF Early
      <4>3. Eligible(r)
        BY <1>3, <2>1, <4>1, <4>2 DEF Eligible
      <4>4. Made(r) \/ Failed(r)
        BY <3>2, <4>3 DEF Assigned
      <4> QED BY <1>3, <4>4 DEF Made, Failed, Early
    <3> QED BY <1>s, <3>1, <3>2 DEF Moves, IsWritten, IsPlanned, IsPromoted, HasLanded
  <2>3. CASE reqs[r].status \notin Early
    <3>1. ReqPromoted(r)
      BY <1>r, <1>3, <2>3
      DEF Steered, IsSubmitted, ReqPlanned, Made, Failed, IsSigned, IsRecorded, Eligible, AllMerged, Over, Early
    <3>2. PICK h \in Handoffs : h.req = r
      BY <3>1 DEF ReqPromoted
    <3>3. PICK v \in Story : Of[v] = r /\ stories[v].status = "estimated"
      BY <1>0, <3>2, HandedOf DEF CalmInv
    <3>4. "git" \in trouble
      BY <2>1, <2>3 DEF GitInv, GitOf
    <3>5. "restart" \notin trouble
      BY <1>0, <3>4 DEF Repeated
    <3>6. reqs[r].status \in {"planning", "planned"}
      BY <3>3, <3>5 DEF AskedOnce, AskedOf
    <3> QED BY <2>3, <3>6 DEF Early
  <2> QED BY <2>2, <2>3
<1>4. ASSUME reqs'[r].branch, NEW s \in Story, Of[s] = r
      PROVE  /\ stories'[s].for \in {None, "feature"}
             /\ stories'[s].status = "merged" => home'[s] = "feature"
  <2>1. /\ stories[s].for \in {None, "feature"}
        /\ stories[s].status = "merged" => home[s] = "feature"
    <3>1. CASE reqs[r].branch
      BY <1>1, <1>4, <3>1
    <3>2. CASE ~reqs[r].branch
      <4>1. Eligible(r)
        BY <1>r, <1>4, <3>2 DEF Steered, IsSubmitted, ReqPlanned, ReqPromoted, IsSigned, IsRecorded
      <4>2. stories[s].status \in {"none", "estimated", "planned"} /\ stories[s].for = None
        BY <1>1, <1>4, <4>1 DEF Eligible, Early
      <4> QED BY <4>2
    <3> QED BY <3>1, <3>2
  <2>2. Given(s) => stories'[s].for = "feature" /\ stories'[s].status = "in_progress"
    BY <1>4 DEF Given
  <2>3. HasLanded(s) => stories'[s].for = None /\ home'[s] = "feature"
    BY <2>1 DEF HasLanded
  <2>4. stories'[s] = stories[s] => home'[s] = home[s] \/ home'[s] = "feature"
    <3>1. home'[s] = home[s] \/ home'[s] = "feature" \/ HasLanded(s)
      BY HomeMoves
    <3> QED BY <2>3, <3>1
  <2> QED BY <1>s, <2>1, <2>2, <2>3, <2>4 DEF Moves, IsWritten, IsPlanned, IsPromoted
<1>5. ASSUME SignedOff(r)'
      PROVE  /\ signed'[r] # {}
             /\ reqs'[r].branch => \A s \in signed'[r] : Of[s] = r /\ home'[s] = "feature"
  <2>1. CASE NowSigned(r)
    <3>1. /\ reqs'[r].branch = reqs[r].branch /\ signed'[r] = StoriesOf(r) /\ home' = home
          /\ StoriesOf(r) # {} /\ \A s \in StoriesOf(r) : s \in Story /\ Of[s] = r /\ stories[s].status = "merged"
      BY <2>1 DEF NowSigned, AllMerged, InStatus, StoriesOf
    <3> QED BY <3>1, <1>1
  <2>2. CASE ~NowSigned(r)
    <3>1. SignedOff(r) /\ signed'[r] = signed[r]
      BY <1>5, <2>2, SignedMoves
    <3>2. signed[r] # {} /\ signed[r] \subseteq Story
      BY <1>1, <3>1 DEF TypeOK
    <3>4. reqs'[r].branch => reqs[r].branch
      BY <1>0, <3>1, SignedBranch
    <3>5. \A s \in Story : home[s] = "feature" => home'[s] = "feature"
      <4>1. \A s \in Story : HasLanded(s) /\ home[s] = "feature" => home'[s] = "feature"
        BY DEF HasLanded
      <4> QED BY <4>1, HomeMoves
    <3> QED BY <1>1, <3>1, <3>2, <3>4, <3>5
  <2> QED BY <2>1, <2>2
<1> QED BY <1>2, <1>3, <1>4, <1>5 DEF CalmOf

LEMMA NextCalmInv ==
    ASSUME TypeOK, Todo, Handed, Fresh, AskedOnce, GitInv, CalmInv, ActInv, [Next]_vars
    PROVE  CalmInv'
<1> SUFFICES ASSUME Calm'
             PROVE  /\ \A h \in Handoffs' : \A s \in h.S : stories'[s].status = "estimated"
                    /\ \A h, k \in Handoffs' : h.req = k.req => h = k
                    /\ \A r \in Req : CalmOf(r)'
  BY DEF CalmInv
<1>1. Calm
  BY TroubleGrows DEF Calm, Repeated
<1>2. /\ \A h \in Handoffs : \A s \in h.S : stories[s].status = "estimated"
      /\ \A h, k \in Handoffs : h.req = k.req => h = k
  BY <1>1 DEF CalmInv
<1>3. \A r \in Req : CalmOf(r)'
  BY NextCalmOf
<1>4. CASE Handoffs' \subseteq Handoffs
  <2>1. ASSUME NEW h \in Handoffs', NEW s \in h.S
        PROVE  stories'[s].status = "estimated"
    <3>1. h \in Handoffs /\ s \in Story /\ Of[s] = h.req /\ stories[s].status = "estimated"
      BY <1>2, <1>4, <2>1, HandedOf
    <3>2. Moves(s)
      BY <3>1, StoryMoves DEF Moves
    <3>3. ~IsPlanned(s)
      BY <3>1 DEF IsPlanned, Calm
    <3>4. ~IsPromoted(s)
      <4> SUFFICES ASSUME NEW k \in Handoffs, s \in k.S, k \notin Handoffs'
                   PROVE  FALSE
        BY DEF IsPromoted
      <4>1. k.req = h.req
        BY <3>1, HandedOf
      <4> QED BY <1>2, <2>1, <3>1, <4>1
    <3> QED BY <3>1, <3>2, <3>3, <3>4 DEF Moves, IsWritten, HasLanded, Given
  <2> QED BY <1>2, <1>3, <1>4, <2>1
<1>5. ASSUME NEW skipped \in SUBSET Req, HandoffRead(skipped)
      PROVE  /\ \A h \in Handoffs' : \A s \in h.S : stories'[s].status = "estimated"
             /\ \A h, k \in Handoffs' : h.req = k.req => h = k
  BY <1>5, HandoffReadIs DEF InStatus
<1> QED BY <1>3, <1>4, <1>5, HandoffsFewer

-----------------------------------------------------------------------------
(* The test agents, and what the manager makes of their results.           *)

\* A step that has nothing to do with test agents and their results.
Quiet ==
    /\ UNCHANGED <<testers, sessions, tested, shipped>>
    /\ at' = "act" => at = "act" /\ todo' = todo
    /\ \A r \in Req : reqs'[r] = reqs[r] \/ reqs'[r].status \in {"planning", "planned", "in_progress"}
Reports == \E t \in Teams, x \in Results : Report(t, x)

LEMMA TestMoves ==
    ASSUME TypeOK, Todo, [Next]_vars
    PROVE  \/ Quiet \/ ResultsRead \/ Reports
           \/ \E r \in Req : SignOff(r)
           \/ \E t \in Teams : TesterDies(t)
           \/ \E c \in todo : Merge(c)
           \/ \E c \in todo : Record(c)
<1>1. ASSUME NEW q \in Req, Submit(q)
      PROVE  Quiet
  <2>1. reqs' = ReqStatus(q, "planning") /\ "planning" \in ReqStatuses
    BY <1>1 DEF Submit, ReqStatuses
  <2>2. \A r \in Req : reqs'[r] = reqs[r] \/ reqs'[r].status = "planning"
    BY <2>1, OneReq
  <2> QED BY <1>1, <2>2 DEF Submit, mgr, Quiet
<1>2. ASSUME NEW q \in Req, PlanRequirement(q)
      PROVE  Quiet
  <2>1. reqs' = ReqStatus(q, "planned") /\ "planned" \in ReqStatuses
    BY <1>2 DEF PlanRequirement, ReqStatuses
  <2>2. \A r \in Req : reqs'[r] = reqs[r] \/ reqs'[r].status = "planned"
    BY <2>1, OneReq
  <2> QED BY <1>2, <2>2 DEF PlanRequirement, mgr, world, Quiet
<1>3. ASSUME NEW q \in Req, PlanStories(q) \/ \E S \in SUBSET Story : Write(q, S)
      PROVE  Quiet
  BY <1>3 DEF PlanStories, Write, mgr, world, Quiet
<1>4. ASSUME LeadDies
      PROVE  Quiet
  BY <1>4 DEF LeadDies, mgr, tables, Quiet
<1>5. ASSUME Assigns
      PROVE  Quiet
  <2>1. UNCHANGED <<testers, sessions, tested, shipped, todo>>
    BY <1>5, AssignsIs
  <2>2. at' = "act" => at = "act"
    BY <1>5 DEF Assigns, AutoAssign, Assign, HandoffEnds, Step, mgr
  <2>3. \A r \in Req : reqs'[r] = reqs[r] \/ reqs'[r].status = "in_progress"
    BY <1>5, AssignsIs DEF Assigned, Made, Failed
  <2> QED BY <2>1, <2>2, <2>3 DEF Quiet
<1>6. ASSUME NEW s \in Story, Lands(s)
      PROVE  Quiet
  BY <1>6 DEF Lands, mgr, Quiet
<1>7. ASSUME NEW skipped \in SUBSET Req, HandoffRead(skipped)
      PROVE  Quiet
  BY <1>7 DEF HandoffRead, Step, tables, world, Quiet
<1>8. ASSUME NEW h \in todo, Nudge(h)
      PROVE  Quiet
  BY <1>8 DEF Nudge, tables, world, Quiet
<1>9. ASSUME NEW h \in todo, Promote(h)
      PROVE  Quiet
  <2>1. h.req \in Req
    BY <1>9 DEF Promote, Todo, Handoff
  <2>2. reqs' = ReqStatus(h.req, "planned") /\ "planned" \in ReqStatuses
    BY <1>9 DEF Promote, ReqStatuses
  <2>3. \A r \in Req : reqs'[r] = reqs[r] \/ reqs'[r].status = "planned"
    BY <2>1, <2>2, OneReq
  <2> QED BY <1>9, <2>3 DEF Promote, world, Quiet
<1>10. ASSUME KeepLead \/ KillLead \/ SpawnLead \/ SignOffEnds \/ CheckEnds \/ ManagerDies
       PROVE  Quiet
  BY <1>10 DEF KeepLead, KillLead, SpawnLead, SignOffEnds, CheckEnds, ManagerDies, Step, tables, world, Quiet
<1>11. ASSUME UNCHANGED vars
       PROVE  Quiet
  BY <1>11 DEF vars, tables, world, mgr, Quiet
<1> QED
  BY <1>1, <1>2, <1>3, <1>4, <1>5, <1>6, <1>7, <1>8, <1>9, <1>10, <1>11, Zenon
  DEF Next, Check, Lead, Assigns, Reports

\* What a report changes: the session, and at most what the team's latest row has heard.
LEMMA ReportIs ==
    ASSUME TypeOK, SessionInv, NEW t \in Teams, NEW x \in Results, Report(t, x)
    PROVE  /\ SessionOf(t) /\ Max(RowsOf(t)) \in RowsOf(t)
           /\ sessions[t].reported => "again" \in trouble'
           /\ sessions'[t].req = sessions[t].req /\ sessions'[t].reported = TRUE
           /\ \A u \in Teams : u # t => sessions'[u] = sessions[u]
           /\ \/ testers' = testers
              \/ /\ RowsKept /\ testers'[Max(RowsOf(t))].heard = x
                 /\ \A i \in DOMAIN testers : i # Max(RowsOf(t)) => testers'[i].heard = testers[i].heard
           /\ x = "PASSED" => tested'[sessions[t].req] = OnBranch(sessions[t].req)
           /\ \A r \in Req : r # sessions[t].req \/ x # "PASSED" => tested'[r] = tested[r]
           /\ UNCHANGED <<reqs, stories, home, shipped, signed, at, todo>>
<1>1. SessionOf(t)
  BY DEF Report, SessionInv
<1> DEFINE k == Max(RowsOf(t))
<1>2. k \in RowsOf(t)
  BY <1>1, GreatestRow DEF SessionOf
<1>3. k \in DOMAIN testers
  BY <1>2 DEF RowsOf
<1>4. testers' = testers \/ testers' = [testers EXCEPT ![k].heard = x]
  BY DEF Report
<1> HIDE DEF k
<1>5. ASSUME testers' = [testers EXCEPT ![k].heard = x]
      PROVE  /\ RowsKept /\ testers'[k].heard = x
             /\ \A i \in DOMAIN testers : i # k => testers'[i].heard = testers[i].heard
  <2> DEFINE f == [testers EXCEPT ![k].heard = x]
  <2>1. /\ DOMAIN f = DOMAIN testers
        /\ \A i \in DOMAIN testers :
              /\ f[i].req = testers[i].req /\ f[i].named = testers[i].named
              /\ f[i].heard = IF i = k THEN x ELSE testers[i].heard
    BY <1>3, HeardIs
  <2>2. testers' = f
    BY <1>5
  <2> HIDE DEF f
  <2> QED BY <1>3, <2>1, <2>2 DEF RowsKept
<1>6. sessions[t].reported => "again" \in trouble'
  BY HappensIs DEF Report
<1>7. sessions \in [Teams -> [req : Req \cup {None}, reported : BOOLEAN]]
  BY DEF TypeOK
<1>8. /\ sessions'[t].req = sessions[t].req /\ sessions'[t].reported = TRUE
      /\ \A u \in Teams : u # t => sessions'[u] = sessions[u]
  <2>1. sessions[t] \in [req : Req \cup {None}, reported : BOOLEAN]
    BY <1>7
  <2>2. sessions'[t] = [sessions[t] EXCEPT !.reported = TRUE]
    BY <1>7 DEF Report
  <2>3. sessions'[t].req = sessions[t].req /\ sessions'[t].reported = TRUE
    BY <2>1, <2>2
  <2>4. \A u \in Teams : u # t => sessions'[u] = sessions[u]
    BY <1>7 DEF Report
  <2> QED BY <2>3, <2>4
<1>9. /\ x = "PASSED" => tested'[sessions[t].req] = OnBranch(sessions[t].req)
      /\ \A r \in Req : r # sessions[t].req \/ x # "PASSED" => tested'[r] = tested[r]
  <2>1. tested \in [Req -> SUBSET Story] /\ sessions[t].req \in Req
    BY <1>1 DEF TypeOK, SessionOf
  <2> QED BY <2>1 DEF Report
<1>10. UNCHANGED <<reqs, stories, home, shipped, signed, at, todo>>
  BY DEF Report, mgr
<1> QED BY <1>1, <1>2, <1>4, <1>5, <1>6, <1>8, <1>9, <1>10 DEF k

LEMMA RowsOfKept == RowsKept => \A t : RowsOf(t)' = RowsOf(t)
<1> SUFFICES ASSUME RowsKept, NEW t
             PROVE  RowsOf(t)' = RowsOf(t)
  OBVIOUS
<1>1. \A i \in DOMAIN testers : testers'[i].named = testers[i].named /\ testers'[i].req = testers[i].req
  BY DEF RowsKept
<1>2. DOMAIN testers' = DOMAIN testers
  BY DEF RowsKept
<1> QED BY <1>1, <1>2 DEF RowsOf

LEMMA NextHeard ==
    ASSUME TypeOK, Todo, SessionInv, Heard, [Next]_vars
    PROVE  Heard'
<1>1. ASSUME testers' = testers
      PROVE  Heard'
  BY <1>1 DEF Heard
<1>2. ASSUME NEW t \in Teams, NEW x \in Results, Report(t, x)
      PROVE  Heard'
  <2>1. Max(RowsOf(t)) \in DOMAIN testers /\ testers[Max(RowsOf(t))].named
    BY <1>2, ReportIs DEF RowsOf
  <2>2. \/ testers' = testers
        \/ /\ RowsKept
           /\ \A i \in DOMAIN testers : i # Max(RowsOf(t)) => testers'[i].heard = testers[i].heard
    BY <1>2, ReportIs
  <2> QED BY <1>1, <2>1, <2>2 DEF Heard, RowsKept
<1>3. ASSUME NEW q \in Req, SignOff(q)
      PROVE  Heard'
  <2>1. PICK named \in BOOLEAN : testers' = NewTester(q, named)
    BY <1>3, SignOffIs DEF SignedNow, NotSpawned
  <2>2. \A i \in DOMAIN testers' : \/ i \in DOMAIN testers /\ testers'[i] = testers[i]
                                   \/ testers'[i] = [req |-> q, named |-> named, heard |-> None, done |-> FALSE]
    BY <2>1, NewRows
  <2>3. \A i \in DOMAIN testers' : \/ i \in DOMAIN testers /\ testers'[i] = testers[i]
                                   \/ testers'[i].heard = None
    BY <2>2
  <2> QED BY <2>3 DEF Heard
<1>4. ASSUME NEW c \in todo, Record(c)
      PROVE  Heard'
  <2>1. c \in Result /\ testers' = [testers EXCEPT ![c.row].done = TRUE]
    BY <1>4 DEF Todo, Record
  <2>2. DOMAIN testers' = DOMAIN testers /\ \A i \in DOMAIN testers : testers'[i].named = testers[i].named /\ testers'[i].heard = testers[i].heard
    BY <2>1, ResultIs, DoneIs
  <2> QED BY <2>2 DEF Heard
<1>5. ASSUME NEW t \in Teams, TesterDies(t)
      PROVE  Heard'
  BY <1>1, <1>5 DEF TesterDies, tables
<1>6. ASSUME NEW c \in todo, Merge(c)
      PROVE  Heard'
  BY <1>1, <1>6, MergeIs
<1>7. ASSUME Quiet \/ ResultsRead
      PROVE  Heard'
  BY <1>1, <1>7 DEF Quiet, ResultsRead, tables
<1> QED BY <1>2, <1>3, <1>4, <1>5, <1>6, <1>7, TestMoves DEF Reports

\* Recording a result changes what rows say of themselves in nothing that matters here.
LEMMA RecordIs ==
    ASSUME TypeOK, Todo, NEW c \in todo, Record(c)
    PROVE  /\ at = "act" /\ c \in Result /\ c.kind # "PASSED" /\ c.row \in DOMAIN testers /\ testers[c.row].req \in Req
           /\ RowsKept /\ \A i \in DOMAIN testers : testers'[i].heard = testers[i].heard
           /\ \A r \in Req : \/ r # testers[c.row].req /\ reqs'[r] = reqs[r]
                             \/ /\ r = testers[c.row].req /\ reqs'[r].status = Verdict(c.kind)
                                /\ reqs'[r].branch = reqs[r].branch
           /\ todo' = todo \ {c} /\ at' = at
           /\ UNCHANGED <<stories, home, sessions, tested, shipped, signed, trouble>>
<1>1. c \in Result /\ at = "act" /\ c.kind # "PASSED" /\ testers' = [testers EXCEPT ![c.row].done = TRUE]
  BY DEF Todo, Record, ToMerge
<1>2. c.row \in DOMAIN testers /\ testers[c.row].req \in Req
  BY <1>1, ResultIs
<1>3. RowsKept /\ \A i \in DOMAIN testers : testers'[i].heard = testers[i].heard
  BY <1>1, <1>2, DoneIs DEF RowsKept
<1>4. reqs' = ReqStatus(testers[c.row].req, Verdict(c.kind)) /\ Verdict(c.kind) \in ReqStatuses
  BY DEF Record, Verdict, ReqStatuses
<1>5. \A r \in Req : \/ r # testers[c.row].req /\ reqs'[r] = reqs[r]
                     \/ /\ r = testers[c.row].req /\ reqs'[r].status = Verdict(c.kind)
                        /\ reqs'[r].branch = reqs[r].branch
  BY <1>2, <1>4, OneReq
<1>6. /\ todo' = todo \ {c} /\ at' = at
      /\ UNCHANGED <<stories, home, sessions, tested, shipped, signed, trouble>>
  BY DEF Record, world
<1> QED BY <1>1, <1>2, <1>3, <1>5, <1>6

LEMMA NextSession ==
    ASSUME TypeOK, Todo, SessionInv, [Next]_vars
    PROVE  SessionInv'
<1> SUFFICES ASSUME NEW u \in Teams, Running(u)'
             PROVE  SessionOf(u)'
  BY DEF SessionInv, Teams
<1>same. ASSUME sessions'[u] = sessions[u], testers' = testers
         PROVE  SessionOf(u)'
  <2>1. RowsOf(u)' = RowsOf(u)
    BY <1>same DEF RowsOf
  <2>2. SessionOf(u)
    BY <1>same DEF SessionInv, Running
  <2> QED BY <1>same, <2>1, <2>2 DEF SessionOf
<1>kept. ASSUME sessions'[u] = sessions[u], RowsKept, \A i \in RowsOf(u) : testers'[i].heard = testers[i].heard
         PROVE  SessionOf(u)'
  <2>1. RowsOf(u)' = RowsOf(u)
    BY <1>kept, RowsOfKept
  <2>2. SessionOf(u)
    BY <1>kept DEF SessionInv, Running
  <2>3. Max(RowsOf(u)) \in RowsOf(u)
    BY <2>2, GreatestRow DEF SessionOf
  <2> QED BY <1>kept, <2>1, <2>2, <2>3 DEF SessionOf
<1>1. ASSUME NEW t \in Teams, NEW x \in Results, Report(t, x)
      PROVE  SessionOf(u)'
  <2>1. RowsKept /\ \A i \in DOMAIN testers : i # Max(RowsOf(t)) => testers'[i].heard = testers[i].heard
    BY <1>1, ReportIs DEF RowsKept
  <2>2. CASE u = t
    <3>1. SessionOf(t) /\ sessions'[t].req = sessions[t].req /\ sessions'[t].reported = TRUE
      BY <1>1, ReportIs
    <3>2. RowsOf(t)' = RowsOf(t)
      BY <2>1, RowsOfKept
    <3> QED BY <2>2, <3>1, <3>2 DEF SessionOf
  <2>3. CASE u # t
    <3>1. Max(RowsOf(t)) \notin RowsOf(u)
      BY <1>1, <2>3, ReportIs DEF RowsOf
    <3>2. \A i \in RowsOf(u) : testers'[i].heard = testers[i].heard
      BY <2>1, <3>1 DEF RowsOf
    <3> QED BY <1>1, <1>kept, <2>1, <2>3, <3>2, ReportIs
  <2> QED BY <2>2, <2>3
<1>2. ASSUME NEW t \in Teams, TesterDies(t)
      PROVE  SessionOf(u)'
  <2>1. testers' = testers /\ sessions' = [sessions EXCEPT ![t] = Closed]
    BY <1>2 DEF TesterDies, tables
  <2>2. sessions \in [Teams -> [req : Req \cup {None}, reported : BOOLEAN]]
    BY DEF TypeOK
  <2>3. u # t
    BY <2>1, <2>2 DEF Running
  <2>4. sessions'[u] = sessions[u]
    BY <2>1, <2>2, <2>3
  <2> QED BY <1>same, <2>1, <2>4
<1>3. ASSUME NEW c \in todo, Record(c)
      PROVE  SessionOf(u)'
  BY <1>3, <1>kept, RecordIs DEF RowsOf
<1>4. ASSUME NEW q \in Req, SignOff(q), SignedNow(q)
      PROVE  SessionOf(u)'
  <2>1. /\ testers' = NewTester(q, TRUE)
        /\ sessions' = IF Running(Team[q]) THEN sessions
                       ELSE [sessions EXCEPT ![Team[q]] = [req |-> q, reported |-> FALSE]]
    BY <1>4 DEF SignedNow
  <2> DEFINE n == Len(testers) + 1
  <2>2. /\ \A i \in DOMAIN testers : i \in DOMAIN testers' /\ testers'[i] = testers[i]
        /\ \A i \in DOMAIN testers' : \/ i \in DOMAIN testers /\ testers'[i] = testers[i]
                                      \/ /\ i = n /\ \A k \in DOMAIN testers : i > k
                                         /\ testers'[i] = [req |-> q, named |-> TRUE, heard |-> None, done |-> FALSE]
        /\ n \in DOMAIN testers'
    BY <2>1, NewRows
  <2>3. n \notin DOMAIN testers /\ \A k \in DOMAIN testers : n > k /\ k \in Nat
    <3>1. Len(testers) \in Nat /\ DOMAIN testers = 1..Len(testers)
      BY DEF TypeOK
    <3> QED BY <3>1
  <2> HIDE DEF n
  <2>4. testers'[n] = [req |-> q, named |-> TRUE, heard |-> None, done |-> FALSE]
    BY <2>2, <2>3
  <2>5. testers'[n].req = q /\ testers'[n].named = TRUE /\ testers'[n].heard = None
    BY <2>4
  <2>6. sessions \in [Teams -> [req : Req \cup {None}, reported : BOOLEAN]] /\ Team[q] \in Teams
    BY DEF TypeOK, Teams
  <2>7. CASE u # Team[q]
    <3>1. sessions'[u] = sessions[u]
      BY <2>1, <2>6, <2>7
    <3>2. RowsOf(u)' = RowsOf(u)
      <4>1. \A i : i \in RowsOf(u)' => i \in DOMAIN testers
        BY <2>2, <2>5, <2>7 DEF RowsOf
      <4> QED BY <2>2, <4>1 DEF RowsOf
    <3>3. SessionOf(u)
      BY <3>1 DEF SessionInv, Running
    <3>4. Max(RowsOf(u)) \in DOMAIN testers
      BY <3>3, GreatestRow DEF SessionOf, RowsOf
    <3> QED BY <2>2, <3>1, <3>2, <3>3, <3>4 DEF SessionOf
  <2>8. CASE u = Team[q]
    <3>1. n \in RowsOf(u)'
      BY <2>2, <2>5, <2>8 DEF RowsOf
    <3>2. \A i \in RowsOf(u)' : i = n \/ (i \in DOMAIN testers /\ n > i)
      BY <2>2, <2>3 DEF RowsOf
    <3>3. Max(RowsOf(u)') \in RowsOf(u)' /\ Max(RowsOf(u)') >= n
      <4>1. \A i \in RowsOf(u)' : n >= i
        <5>1. n \in Nat
          BY DEF n, TypeOK
        <5> QED BY <2>3, <3>2, <5>1
      <4> QED BY <3>1, <4>1 DEF Max
    <3>4. Max(RowsOf(u)') = n
      <4>1. \A i \in DOMAIN testers : ~(i >= n)
        <5>1. n \in Nat
          BY DEF n, TypeOK
        <5> QED BY <2>3, <5>1
      <4> QED BY <3>2, <3>3, <4>1
    <3>5. sessions'[u].req \in Req /\ Team[sessions'[u].req] = u
      <4>1. CASE Running(u)
        BY <2>1, <2>8, <4>1 DEF SessionInv, SessionOf
      <4>2. CASE ~Running(u)
        <5>1. sessions'[u] = [req |-> q, reported |-> FALSE]
          BY <2>1, <2>6, <2>8, <4>2
        <5>2. sessions'[u].req = q
          BY <5>1
        <5> QED BY <2>8, <5>2
      <4> QED BY <4>1, <4>2
    <3> QED BY <2>5, <3>1, <3>4, <3>5 DEF SessionOf
  <2> QED BY <2>7, <2>8
<1>5. ASSUME NEW q \in Req, SignOff(q), NotSpawned(q)
      PROVE  SessionOf(u)'
  <2>1. testers' = NewTester(q, FALSE) /\ sessions' = sessions
    BY <1>5 DEF NotSpawned
  <2>2. /\ \A i \in DOMAIN testers : i \in DOMAIN testers' /\ testers'[i] = testers[i]
        /\ \A i \in DOMAIN testers' : \/ i \in DOMAIN testers /\ testers'[i] = testers[i]
                                      \/ testers'[i] = [req |-> q, named |-> FALSE, heard |-> None, done |-> FALSE]
    BY <2>1, NewRows
  <2>3. \A i \in DOMAIN testers' : \/ i \in DOMAIN testers /\ testers'[i] = testers[i]
                                   \/ testers'[i].named = FALSE
    BY <2>2
  <2>4. RowsOf(u)' = RowsOf(u)
    <3>1. \A i : i \in RowsOf(u)' => i \in DOMAIN testers
      BY <2>3 DEF RowsOf
    <3> QED BY <2>2, <3>1 DEF RowsOf
  <2>5. SessionOf(u)
    BY <2>1 DEF SessionInv, Running
  <2>6. Max(RowsOf(u)) \in DOMAIN testers
    BY <2>5, GreatestRow DEF SessionOf, RowsOf
  <2> QED BY <2>1, <2>2, <2>4, <2>5, <2>6 DEF SessionOf
<1>6. ASSUME NEW c \in todo, Merge(c)
      PROVE  SessionOf(u)'
  BY <1>6, <1>same, MergeIs
<1>7. ASSUME Quiet \/ ResultsRead
      PROVE  SessionOf(u)'
  BY <1>7, <1>same DEF Quiet, ResultsRead, tables, world
<1> QED BY <1>1, <1>2, <1>3, <1>4, <1>5, <1>6, <1>7, TestMoves, SignOffIs DEF Reports

\* Who has reported once has been heard once, unless it reports again.
LEMMA HeardStays ==
    ASSUME TypeOK, Todo, SessionInv, [Next]_vars, "again" \notin trouble',
           NEW i \in DOMAIN testers, testers[i].heard # None
    PROVE  i \in DOMAIN testers' /\ testers'[i].heard = testers[i].heard
<1>1. ASSUME NEW t \in Teams, NEW x \in Results, Report(t, x)
      PROVE  i \in DOMAIN testers' /\ testers'[i].heard = testers[i].heard
  <2>1. ~sessions[t].reported
    BY <1>1, ReportIs
  <2>2. SessionOf(t)
    BY <1>1, ReportIs
  <2>3. i # Max(RowsOf(t))
    BY <2>1, <2>2 DEF SessionOf
  <2> QED BY <1>1, <2>3, ReportIs DEF RowsKept
<1>2. ASSUME NEW q \in Req, SignOff(q)
      PROVE  i \in DOMAIN testers' /\ testers'[i].heard = testers[i].heard
  <2>1. PICK named \in BOOLEAN : testers' = NewTester(q, named)
    BY <1>2, SignOffIs DEF SignedNow, NotSpawned
  <2> QED BY <2>1, NewRows
<1>3. ASSUME NEW c \in todo, Record(c)
      PROVE  i \in DOMAIN testers' /\ testers'[i].heard = testers[i].heard
  BY <1>3, RecordIs DEF RowsKept
<1>4. ASSUME Quiet \/ ResultsRead \/ \E t \in Teams : TesterDies(t)
      PROVE  testers' = testers
  BY <1>4 DEF Quiet, ResultsRead, TesterDies, tables
<1>5. ASSUME NEW c \in todo, Merge(c)
      PROVE  testers' = testers
  BY <1>5, MergeIs
<1> QED BY <1>1, <1>2, <1>3, <1>4, <1>5, TestMoves DEF Reports

\* Rows keep their names in every step.
LEMMA NamesStay ==
    ASSUME TypeOK, Todo, [Next]_vars, NEW i \in DOMAIN testers
    PROVE  i \in DOMAIN testers' /\ testers'[i].named = testers[i].named /\ testers'[i].req = testers[i].req
<1>1. ASSUME NEW q \in Req, SignOff(q)
      PROVE  i \in DOMAIN testers' /\ testers'[i].named = testers[i].named /\ testers'[i].req = testers[i].req
  <2>1. PICK named \in BOOLEAN : testers' = NewTester(q, named)
    BY <1>1, SignOffIs DEF SignedNow, NotSpawned
  <2> QED BY <2>1, NewRows
<1> QED BY <1>1, RowMoves DEF RowsKept

LEMMA NextActInv ==
    ASSUME TypeOK, Todo, SessionInv, ActInv, [Next]_vars
    PROVE  ActInv'
<1> SUFFICES ASSUME at' = "act", NEW c \in todo'
             PROVE  ActOf(c)'
  BY DEF ActInv
\* What was true of it before is true of it now.
<1>old. ASSUME at = "act", NEW d \in todo, shipped \subseteq shipped'
        PROVE  ActOf(d)'
  <2>1. ActOf(d) /\ d \in Result
    BY <1>old DEF ActInv, Todo
  <2>2. d.row \in DOMAIN testers /\ testers[d.row] \in Tester
    BY <2>1, ResultIs
  <2>3. d.row \in DOMAIN testers' /\ testers'[d.row].named = testers[d.row].named /\ testers'[d.row].req = testers[d.row].req
    BY <2>2, NamesStay
  <2>4. testers'[d.row].heard # None
    <3>1. ASSUME testers'[d.row].heard = testers[d.row].heard
          PROVE  testers'[d.row].heard # None
      BY <2>1, <3>1 DEF ActOf
    <3>2. ASSUME NEW t \in Teams, NEW x \in Results, Report(t, x)
          PROVE  testers'[d.row].heard # None
      <4>1. x # None
        BY DEF Results, None
      <4> DEFINE k == Max(RowsOf(t))
      <4>2. \/ testers' = testers
            \/ /\ testers'[k].heard = x
               /\ \A i \in DOMAIN testers : i # k => testers'[i].heard = testers[i].heard
        BY <3>2, ReportIs
      <4> HIDE DEF k
      <4>3. testers'[d.row].heard = x \/ testers'[d.row].heard = testers[d.row].heard
        BY <2>2, <4>2
      <4> QED BY <3>1, <4>1, <4>3
    <3>3. ASSUME NEW e \in todo, Record(e) \/ Merge(e)
          PROVE  testers'[d.row].heard = testers[d.row].heard
      BY <2>2, <3>3, RecordIs, MergeIs
    <3>4. ASSUME Quiet \/ \E t \in Teams : TesterDies(t)
          PROVE  testers' = testers
      BY <3>4 DEF Quiet, TesterDies, tables
    <3>5. ~ResultsRead
      BY <1>old DEF ResultsRead, Step
    <3>6. \A q \in Req : ~SignOff(q)
      BY <1>old, SignOffIs
    <3> QED BY <3>1, <3>2, <3>3, <3>4, <3>5, <3>6, TestMoves DEF Reports
  <2>5. "again" \notin trouble' => (d.kind = "FAILED" <=> testers'[d.row].heard = "FAILED")
    <3> SUFFICES ASSUME "again" \notin trouble'
                 PROVE  d.kind = "FAILED" <=> testers'[d.row].heard = "FAILED"
      OBVIOUS
    <3>1. "again" \notin trouble
      BY TroubleGrows
    <3>2. testers'[d.row].heard = testers[d.row].heard
      BY <2>1, <2>2, HeardStays DEF ActOf
    <3> QED BY <2>1, <3>1, <3>2 DEF ActOf
  <2>6. d.kind = "merged" => testers'[d.row].req \in shipped'
    BY <1>old, <2>1, <2>3 DEF ActOf
  <2> QED BY <2>1, <2>3, <2>4, <2>5, <2>6 DEF ActOf
<1>1. CASE ResultsRead
  <2>1. testers' = testers /\ trouble' = trouble
    BY <1>1 DEF ResultsRead, tables
  <2>2. PICK i \in DOMAIN testers : Candidate(i) /\ c = [kind |-> testers[i].heard, row |-> i]
    BY <1>1 DEF ResultsRead
  <2>3. c.row = i /\ c.kind = testers[i].heard
    BY <2>2
  <2>4. testers[i].named /\ testers[i].heard # None
    BY <2>2 DEF Candidate
  <2>5. testers[i].heard # "merged"
    <3>1. testers[i] \in Tester
      BY DEF TypeOK
    <3> QED BY <3>1 DEF Tester, Results, None
  <2> QED BY <2>1, <2>3, <2>4, <2>5 DEF ActOf
<1>2. CASE \E t \in Teams : TesterDies(t)
  BY <1>2, <1>old DEF TesterDies, mgr
<1>3. CASE Quiet
  BY <1>3, <1>old DEF Quiet
<1>4. CASE \E q \in Req : SignOff(q)
  BY <1>4, SignOffIs
<1>5. CASE Reports
  <2>1. UNCHANGED <<shipped, at, todo>>
    BY <1>5 DEF Reports, Report, mgr
  <2> QED BY <2>1, <1>old
<1>6. ASSUME NEW e \in todo, Record(e)
      PROVE  ActOf(c)'
  BY <1>6, <1>old, RecordIs
<1>7. ASSUME NEW e \in todo, Merge(e)
      PROVE  ActOf(c)'
  <2>1. at = "act" /\ e.kind = "PASSED" /\ shipped \subseteq shipped' /\ testers' = testers
    BY <1>7, MergeIs
  <2>2. PICK kind \in {"merged", "error"} :
          /\ todo' = (todo \ {e}) \cup {[e EXCEPT !.kind = kind]}
          /\ kind = "merged" => testers[e.row].req \in shipped'
    BY <1>7, MergeIs
  <2>3. CASE c \in todo
    BY <1>old, <2>1, <2>3
  <2>4. CASE c \notin todo
    <3>1. e \in Result
      BY <2>1 DEF Todo
    <3>2. c = [e EXCEPT !.kind = kind]
      BY <2>2, <2>4
    <3>3. c.row = e.row /\ c.kind = kind
      BY <3>1, <3>2 DEF Result
    <3>4. ActOf(e)'
      BY <1>old, <2>1
    <3> QED BY <2>1, <2>2, <3>3, <3>4 DEF ActOf
  <2> QED BY <2>3, <2>4
<1> QED BY <1>1, <1>2, <1>3, <1>4, <1>5, <1>6, <1>7, TestMoves

LEMMA ListenedStays ==
    ASSUME TypeOK, Todo, SessionInv, [Next]_vars, "again" \notin trouble', NEW r, NEW x, x # None, Listened(r, x)
    PROVE  Listened(r, x)'
<1>1. PICK i \in DOMAIN testers : testers[i].named /\ testers[i].req = r /\ testers[i].heard = x
  BY DEF Listened
<1>2. i \in DOMAIN testers' /\ testers'[i].heard = testers[i].heard
  BY <1>1, HeardStays
<1>3. testers'[i].named = testers[i].named /\ testers'[i].req = testers[i].req
  BY NamesStay
<1> QED BY <1>1, <1>2, <1>3 DEF Listened

LEMMA NextVerdict ==
    ASSUME TypeOK, Todo, SessionInv, ActInv, VerdictInv, [Next]_vars
    PROVE  VerdictInv'
<1> SUFFICES ASSUME NEW r \in Req
             PROVE  VerdictOf(r)'
  BY DEF VerdictInv
<1>1. VerdictOf(r) /\ trouble \subseteq trouble'
  BY TroubleGrows DEF VerdictInv
<1>2. SignedOff(r) => SignedOff(r)'
  BY SignedMoves
<1>3. \A x : "again" \notin trouble' /\ x # None /\ Listened(r, x) => Listened(r, x)'
  BY ListenedStays
<1>4. "PASSED" # None /\ "FAILED" # None
  BY DEF None
<1>same. ASSUME shipped' = shipped,
                reqs'[r] = reqs[r] \/ reqs'[r].status \notin {"sign_off_passed", "sign_off_failed"}
         PROVE  VerdictOf(r)'
  BY <1>same, <1>1, <1>2, <1>3, <1>4 DEF VerdictOf
<1>5. CASE Quiet
  BY <1>5, <1>same DEF Quiet
<1>6. CASE ResultsRead \/ \E t \in Teams : TesterDies(t)
  BY <1>6, <1>same DEF ResultsRead, TesterDies, tables, world
<1>7. CASE Reports
  BY <1>7, <1>same DEF Reports, Report
<1>8. ASSUME NEW q \in Req, SignOff(q)
      PROVE  VerdictOf(r)'
  <2>1. shipped' = shipped /\ at = "signOff"
    BY <1>8, SignOffIs
  <2>2. reqs'[r] = reqs[r] \/ reqs'[r].status \in {"sign_off", "in_progress"}
    <3>1. Steered(r)
      BY ReqMoves DEF Steered
    <3>2. \E st \in {"sign_off", "in_progress"} : reqs' = ReqStatus(q, st) /\ st \in ReqStatuses
      BY <1>8, SignOffIs DEF SignedNow, NotSpawned, Reverted, ReqStatuses
    <3> QED BY <3>2, OneReq
  <2> QED BY <1>same, <2>1, <2>2
<1>9. ASSUME NEW c \in todo, Merge(c)
      PROVE  VerdictOf(r)'
  <2>1. /\ at = "act" /\ c.kind = "PASSED" /\ reqs' = reqs /\ testers' = testers
        /\ shipped' = shipped \/ shipped' = shipped \cup {testers[c.row].req}
    BY <1>9, MergeIs
  <2>2. ActOf(c) /\ c \in Result
    BY <2>1 DEF ActInv, Todo
  <2>3. c.row \in DOMAIN testers /\ testers[c.row] \in Tester /\ testers[c.row].named /\ testers[c.row].heard # None
    BY <2>2, ResultIs DEF ActOf
  <2>4. CASE shipped' = shipped
    BY <2>1, <2>4, <1>same
  <2>5. CASE shipped' = shipped \cup {testers[c.row].req}
    <3>1. r \in shipped' => r \in shipped \/ r = testers[c.row].req
      BY <2>5
    <3>2. r = testers[c.row].req => SignedOff(r)
      BY <2>3 DEF SignedOff
    <3>3. "again" \notin trouble => testers[c.row].heard = "PASSED"
      BY <2>1, <2>2, <2>3 DEF ActOf, Tester, Results
    <3>4. r = testers[c.row].req /\ "again" \notin trouble => Listened(r, "PASSED")
      BY <2>3, <3>3 DEF Listened
    <3>5. shipped \subseteq shipped'
      BY <2>5
    <3> QED BY <1>1, <1>2, <1>3, <1>4, <2>1, <3>1, <3>2, <3>4, <3>5 DEF VerdictOf
  <2> QED BY <2>1, <2>4, <2>5
<1>10. ASSUME NEW c \in todo, Record(c)
       PROVE  VerdictOf(r)'
  <2>1. /\ at = "act" /\ c \in Result /\ c.kind # "PASSED" /\ c.row \in DOMAIN testers
        /\ shipped' = shipped
        /\ \/ reqs'[r] = reqs[r]
           \/ r = testers[c.row].req /\ reqs'[r].status = Verdict(c.kind)
    BY <1>10, RecordIs
  <2>2. ActOf(c)
    BY <2>1 DEF ActInv
  <2>3. Verdict(c.kind) = "sign_off_passed" => c.kind = "merged"
    BY DEF Verdict
  <2>4. Verdict(c.kind) = "sign_off_failed" => c.kind = "FAILED"
    BY <2>1 DEF Verdict, Result
  <2>5. CASE reqs'[r] = reqs[r]
    BY <2>1, <2>5, <1>same
  <2>6. CASE r = testers[c.row].req /\ reqs'[r].status = Verdict(c.kind)
    <3>1. reqs'[r].status = "sign_off_passed" => r \in shipped
      BY <2>2, <2>3, <2>6 DEF ActOf
    <3>2. reqs'[r].status = "sign_off_failed" /\ "again" \notin trouble => Listened(r, "FAILED")
      BY <2>1, <2>2, <2>4, <2>6 DEF ActOf, Listened
    <3> QED BY <1>1, <1>2, <1>3, <1>4, <2>1, <3>1, <3>2 DEF VerdictOf
  <2> QED BY <2>1, <2>5, <2>6
<1> QED BY <1>5, <1>6, <1>7, <1>8, <1>9, <1>10, TestMoves

-----------------------------------------------------------------------------
(* Tests, where no two requirements have the same team.                    *)

TeamsDiffer == \A p, q \in Req : Team[p] = Team[q] => p = q

\* Good(r) after the step.
GoodNow(r) == tested'[r] # {} /\ signed'[r] \subseteq tested'[r]

\* What has passed the tests stays good as long as it is not signed off again: a later test
\* of the branch is of all that was signed off too.
LEMMA GoodStays ==
    ASSUME TeamsDiffer, IInv, [Next]_vars, Calm', NEW r \in Req, SignedOff(r), reqs'[r].branch
    PROVE  /\ Good(r) => GoodNow(r)
           /\ \A t \in Teams : Report(t, "PASSED") /\ sessions[t].req = r => GoodNow(r)
<1>0. Calm /\ ~Repeated
  BY TroubleGrows DEF Calm, Repeated, IInv
<1>1. reqs[r].branch
  BY <1>0, SignedBranch DEF IInv
<1>2. signed[r] # {} /\ \A s \in signed[r] : Of[s] = r /\ home[s] = "feature"
  BY <1>0, <1>1 DEF IInv, CalmInv, CalmOf
<1>3. signed[r] \subseteq OnBranch(r) /\ OnBranch(r) # {}
  <2>1. signed[r] \subseteq Story
    BY DEF IInv, TypeOK
  <2> QED BY <1>2, <2>1 DEF OnBranch
<1>4. signed'[r] = signed[r]
  <2>1. ~NowSigned(r)
    BY <1>0, NotSigned DEF NowSigned, AllMerged, IInv
  <2> QED BY <2>1, SignedMoves DEF IInv
<1>5. ASSUME NEW t \in Teams, Report(t, "PASSED"), sessions[t].req = r
      PROVE  GoodNow(r)
  <2>1. "PASSED" \in Results
    BY DEF Results
  <2>2. tested'[r] = OnBranch(r)
    BY <1>5, <2>1, ReportIs DEF IInv
  <2> QED BY <1>3, <1>4, <2>2 DEF GoodNow
<1>6. ASSUME Good(r)
      PROVE  GoodNow(r)
  <2>same. ASSUME tested'[r] = tested[r]
           PROVE  GoodNow(r)
    BY <1>4, <1>6, <2>same DEF Good, GoodNow
  <2>1. ASSUME NEW t \in Teams, NEW x \in Results, Report(t, x)
        PROVE  GoodNow(r)
    <3>1. CASE sessions[t].req = r /\ x = "PASSED"
      BY <1>5, <2>1, <3>1
    <3>2. CASE ~(sessions[t].req = r /\ x = "PASSED")
      <4>1. TypeOK /\ SessionInv
        BY DEF IInv
      <4>2. \A q \in Req : q # sessions[t].req \/ x # "PASSED" => tested'[q] = tested[q]
        BY <2>1, <4>1, ReportIs
      <4> QED BY <2>same, <3>2, <4>2
    <3> QED BY <3>1, <3>2
  <2>2. ASSUME Quiet \/ ResultsRead \/ \E t \in Teams : TesterDies(t)
        PROVE  tested' = tested
    BY <2>2 DEF Quiet, ResultsRead, TesterDies, world
  <2>3. ASSUME NEW c \in todo, Merge(c) \/ Record(c)
        PROVE  tested' = tested
    BY <2>3, MergeIs, RecordIs DEF IInv
  <2>4. ASSUME NEW q \in Req, SignOff(q)
        PROVE  tested' = tested
    BY <2>4, SignOffIs
  <2>5. TypeOK /\ Todo
    BY DEF IInv
  <2> QED BY <2>same, <2>1, <2>2, <2>3, <2>4, <2>5, TestMoves DEF Reports
<1> QED BY <1>5, <1>6

LEMMA NextTested ==
    ASSUME TeamsDiffer, IInv, TestedInv, [Next]_vars
    PROVE  TestedInv'
<1> SUFFICES ASSUME Calm'
             PROVE  /\ \A i \in DOMAIN testers' :
                          testers'[i].heard = "PASSED" /\ reqs'[testers'[i].req].branch => GoodNow(testers'[i].req)
                    /\ at' = "act" => \A c \in todo' :
                          c.kind # "FAILED" => reqs'[testers'[c.row].req].branch /\ GoodNow(testers'[c.row].req)
                    /\ \A r \in shipped' : reqs'[r].branch /\ GoodNow(r)
  BY DEF TestedInv, Good, GoodNow
<1>i. TypeOK /\ Todo /\ Heard /\ SessionInv /\ ActInv /\ VerdictInv
  BY DEF IInv
<1>0. Calm /\ ~Repeated /\ AskedOnce /\ GitInv
  BY <1>i, TroubleGrows DEF Calm, Repeated, IInv
<1>1. /\ \A i \in DOMAIN testers :
            testers[i].heard = "PASSED" /\ reqs[testers[i].req].branch => Good(testers[i].req)
      /\ at = "act" => \A c \in todo :
            c.kind # "FAILED" => reqs[testers[c.row].req].branch /\ Good(testers[c.row].req)
      /\ \A r \in shipped : reqs[r].branch /\ Good(r)
  BY <1>0 DEF TestedInv
<1>2. \A i \in DOMAIN testers : testers[i] \in Tester /\ testers[i].req \in Req
  <2>1. \A i \in DOMAIN testers : testers[i] \in Tester
    BY <1>i DEF TypeOK
  <2> QED BY <2>1 DEF Tester
<1>3. \A i \in DOMAIN testers : testers[i].named => SignedOff(testers[i].req)
  BY DEF SignedOff
\* What was good, stays it.
<1>4. ASSUME NEW r \in Req, SignedOff(r), reqs[r].branch, Good(r)
      PROVE  reqs'[r].branch /\ GoodNow(r)
  <2>1. reqs'[r].branch
    BY <1>4, <1>i, BranchStays
  <2> QED BY <1>4, <2>1, GoodStays
<1>5. ASSUME NEW i \in DOMAIN testers, testers[i].heard = "PASSED", reqs'[testers[i].req].branch
      PROVE  GoodNow(testers[i].req)
  <2>1. testers[i].named
    BY <1>5, <1>i DEF Heard, None
  <2>2. SignedOff(testers[i].req) /\ testers[i].req \in Req
    BY <1>2, <1>3, <2>1
  <2>3. reqs[testers[i].req].branch
    BY <1>0, <1>5, <1>i, <2>2, SignedBranch
  <2> QED BY <1>1, <1>4, <1>5, <2>2, <2>3
<1>6. ASSUME at = "act", NEW c \in todo, c.kind # "FAILED"
      PROVE  c.row \in DOMAIN testers /\ reqs'[testers[c.row].req].branch /\ GoodNow(testers[c.row].req)
  <2>1. c \in Result /\ ActOf(c)
    BY <1>6, <1>i DEF Todo, ActInv
  <2>2. c.row \in DOMAIN testers /\ testers[c.row].named
    BY <1>i, <2>1, ResultIs DEF ActOf
  <2> QED BY <1>1, <1>2, <1>3, <1>4, <1>6, <2>2
<1>7. ASSUME NEW r \in shipped
      PROVE  reqs'[r].branch /\ GoodNow(r)
  <2>1. r \in Req /\ SignedOff(r)
    BY <1>i DEF TypeOK, VerdictInv, VerdictOf
  <2> QED BY <1>1, <1>4, <2>1
\* Where rows and shipped are as they were, and todo has nothing new.
<1>same. ASSUME RowsKept, \A i \in DOMAIN testers : testers'[i].heard = testers[i].heard,
                shipped' = shipped, at' = "act" => at = "act" /\ todo' \subseteq todo
         PROVE  /\ \A i \in DOMAIN testers' :
                      testers'[i].heard = "PASSED" /\ reqs'[testers'[i].req].branch => GoodNow(testers'[i].req)
                /\ at' = "act" => \A c \in todo' :
                      c.kind # "FAILED" => reqs'[testers'[c.row].req].branch /\ GoodNow(testers'[c.row].req)
                /\ \A r \in shipped' : reqs'[r].branch /\ GoodNow(r)
  <2>1. \A i \in DOMAIN testers : testers'[i].req = testers[i].req /\ testers'[i].heard = testers[i].heard
    BY <1>same DEF RowsKept
  <2>2. DOMAIN testers' = DOMAIN testers
    BY <1>same DEF RowsKept
  <2>3. ASSUME NEW i \in DOMAIN testers', testers'[i].heard = "PASSED", reqs'[testers'[i].req].branch
        PROVE  GoodNow(testers'[i].req)
    <3>1. i \in DOMAIN testers /\ testers'[i].req = testers[i].req /\ testers[i].heard = "PASSED"
      BY <2>1, <2>2, <2>3
    <3>2. GoodNow(testers[i].req)
      BY <1>5, <2>3, <3>1
    <3> QED BY <3>1, <3>2
  <2>4. ASSUME at' = "act", NEW c \in todo', c.kind # "FAILED"
        PROVE  reqs'[testers'[c.row].req].branch /\ GoodNow(testers'[c.row].req)
    <3>1. c.row \in DOMAIN testers /\ reqs'[testers[c.row].req].branch /\ GoodNow(testers[c.row].req)
      BY <1>6, <1>same, <2>4
    <3>2. testers'[c.row].req = testers[c.row].req
      BY <2>1, <3>1
    <3> QED BY <3>1, <3>2
  <2> QED BY <1>7, <1>same, <2>3, <2>4
<1>8. CASE Quiet
  BY <1>8, <1>same DEF Quiet, RowsKept
<1>9. CASE \E t \in Teams : TesterDies(t)
  BY <1>9, <1>same DEF TesterDies, tables, mgr, RowsKept
<1>10. ASSUME NEW c \in todo, Record(c)
       PROVE  /\ \A i \in DOMAIN testers' :
                    testers'[i].heard = "PASSED" /\ reqs'[testers'[i].req].branch => GoodNow(testers'[i].req)
              /\ at' = "act" => \A d \in todo' :
                    d.kind # "FAILED" => reqs'[testers'[d.row].req].branch /\ GoodNow(testers'[d.row].req)
              /\ \A r \in shipped' : reqs'[r].branch /\ GoodNow(r)
  BY <1>10, <1>i, <1>same, RecordIs
<1>11. CASE ResultsRead
  <2>1. testers' = testers /\ shipped' = shipped /\ at' = "act" /\ reqs' = reqs
    BY <1>11 DEF ResultsRead, Step, tables, world
  <2>2. ASSUME NEW c \in todo', c.kind # "FAILED"
        PROVE  reqs'[testers'[c.row].req].branch /\ GoodNow(testers'[c.row].req)
    <3>1. PICK i \in DOMAIN testers : Candidate(i) /\ c = [kind |-> testers[i].heard, row |-> i]
      BY <1>11 DEF ResultsRead
    <3>2. c.row = i /\ c.kind = testers[i].heard
      BY <3>1
    <3>3. testers[i].heard = "PASSED" /\ reqs[testers[i].req].branch
      BY <1>2, <2>2, <3>1, <3>2 DEF Candidate, Tester, Results
    <3>4. GoodNow(testers[i].req)
      BY <1>5, <2>1, <3>3
    <3> QED BY <2>1, <3>2, <3>3, <3>4
  <2>3. ASSUME NEW i \in DOMAIN testers', testers'[i].heard = "PASSED", reqs'[testers'[i].req].branch
        PROVE  GoodNow(testers'[i].req)
    <3>1. GoodNow(testers[i].req)
      BY <1>5, <2>1, <2>3
    <3> QED BY <2>1, <3>1
  <2> QED BY <1>7, <2>1, <2>2, <2>3
<1>12. ASSUME NEW e \in todo, Merge(e)
       PROVE  /\ \A i \in DOMAIN testers' :
                    testers'[i].heard = "PASSED" /\ reqs'[testers'[i].req].branch => GoodNow(testers'[i].req)
              /\ at' = "act" => \A d \in todo' :
                    d.kind # "FAILED" => reqs'[testers'[d.row].req].branch /\ GoodNow(testers'[d.row].req)
              /\ \A r \in shipped' : reqs'[r].branch /\ GoodNow(r)
  <2>1. /\ at = "act" /\ e.kind = "PASSED" /\ testers' = testers
        /\ shipped' = shipped \/ shipped' = shipped \cup {testers[e.row].req}
    BY <1>12, MergeIs
  <2>2. PICK kind \in {"merged", "error"} : todo' = (todo \ {e}) \cup {[e EXCEPT !.kind = kind]}
    BY <1>12, MergeIs
  <2>3. e \in Result
    BY <1>i, <2>1 DEF Todo
  <2>4. e.row \in DOMAIN testers /\ reqs'[testers[e.row].req].branch /\ GoodNow(testers[e.row].req)
    BY <1>6, <2>1
  <2>5. ASSUME NEW d \in todo', d.kind # "FAILED"
        PROVE  reqs'[testers'[d.row].req].branch /\ GoodNow(testers'[d.row].req)
    <3>1. CASE d \in todo
      <4>1. reqs'[testers[d.row].req].branch /\ GoodNow(testers[d.row].req)
        BY <1>6, <2>1, <2>5, <3>1
      <4> QED BY <2>1, <4>1
    <3>2. CASE d \notin todo
      <4>1. d = [e EXCEPT !.kind = kind]
        BY <2>2, <3>2
      <4>2. d.row = e.row
        BY <2>3, <4>1 DEF Result
      <4> QED BY <2>1, <2>4, <4>2
    <3> QED BY <3>1, <3>2
  <2>6. \A r \in shipped' : reqs'[r].branch /\ GoodNow(r)
    BY <1>7, <2>1, <2>4
  <2>7. ASSUME NEW i \in DOMAIN testers', testers'[i].heard = "PASSED", reqs'[testers'[i].req].branch
        PROVE  GoodNow(testers'[i].req)
    <3>1. GoodNow(testers[i].req)
      BY <1>5, <2>1, <2>7
    <3> QED BY <2>1, <3>1
  <2> QED BY <2>5, <2>6, <2>7
<1>13. ASSUME NEW q \in Req, SignOff(q)
       PROVE  /\ \A i \in DOMAIN testers' :
                    testers'[i].heard = "PASSED" /\ reqs'[testers'[i].req].branch => GoodNow(testers'[i].req)
              /\ at' = "act" => \A d \in todo' :
                    d.kind # "FAILED" => reqs'[testers'[d.row].req].branch /\ GoodNow(testers'[d.row].req)
              /\ \A r \in shipped' : reqs'[r].branch /\ GoodNow(r)
  <2>1. at' # "act" /\ shipped' = shipped
    BY <1>13, SignOffIs
  <2>2. PICK named \in BOOLEAN : testers' = NewTester(q, named)
    BY <1>13, SignOffIs DEF SignedNow, NotSpawned
  <2>3. \A i \in DOMAIN testers' : \/ i \in DOMAIN testers /\ testers'[i] = testers[i]
                                   \/ testers'[i] = [req |-> q, named |-> named, heard |-> None, done |-> FALSE]
    BY <1>i, <2>2, NewRows
  <2>4. ASSUME NEW i \in DOMAIN testers', testers'[i].heard = "PASSED", reqs'[testers'[i].req].branch
        PROVE  GoodNow(testers'[i].req)
    <3>1. i \in DOMAIN testers /\ testers'[i] = testers[i]
      BY <2>3, <2>4 DEF None
    <3>2. GoodNow(testers[i].req)
      BY <1>5, <2>4, <3>1
    <3> QED BY <3>1, <3>2
  <2> QED BY <1>7, <2>1, <2>4
<1>14. ASSUME NEW t \in Teams, NEW x \in Results, Report(t, x)
       PROVE  /\ \A i \in DOMAIN testers' :
                    testers'[i].heard = "PASSED" /\ reqs'[testers'[i].req].branch => GoodNow(testers'[i].req)
              /\ at' = "act" => \A d \in todo' :
                    d.kind # "FAILED" => reqs'[testers'[d.row].req].branch /\ GoodNow(testers'[d.row].req)
              /\ \A r \in shipped' : reqs'[r].branch /\ GoodNow(r)
  <2> DEFINE k == Max(RowsOf(t))
  <2>1. /\ SessionOf(t) /\ k \in RowsOf(t)
        /\ \/ testers' = testers
           \/ /\ RowsKept /\ testers'[k].heard = x
              /\ \A i \in DOMAIN testers : i # k => testers'[i].heard = testers[i].heard
        /\ UNCHANGED <<reqs, stories, home, shipped, signed, at, todo>>
    BY <1>14, <1>i, ReportIs
  <2>2. testers[k].req = sessions[t].req /\ k \in DOMAIN testers /\ testers[k].named
    BY <1>2, <2>1 DEF RowsOf, SessionOf, TeamsDiffer
  <2> HIDE DEF k
  <2>3. RowsKept
    BY <2>1 DEF RowsKept
  <2>4. DOMAIN testers' = DOMAIN testers /\ \A i \in DOMAIN testers : testers'[i].req = testers[i].req
    BY <2>3 DEF RowsKept
  <2>5. ASSUME NEW i \in DOMAIN testers', testers'[i].heard = "PASSED", reqs'[testers'[i].req].branch
        PROVE  GoodNow(testers'[i].req)
    <3>1. i \in DOMAIN testers /\ testers'[i].req = testers[i].req /\ reqs'[testers[i].req].branch
      BY <2>4, <2>5
    <3>2. CASE testers[i].heard = "PASSED"
      <4>1. GoodNow(testers[i].req)
        BY <1>5, <3>1, <3>2
      <4> QED BY <3>1, <4>1
    <3>3. CASE testers[i].heard # "PASSED"
      <4>1. i = k /\ x = "PASSED"
        BY <2>1, <2>5, <3>1, <3>3
      <4>2. SignedOff(testers[i].req) /\ testers[i].req \in Req /\ sessions[t].req = testers[i].req
        BY <1>2, <1>3, <2>2, <4>1
      <4>3. GoodNow(testers[i].req)
        BY <1>14, <3>1, <4>1, <4>2, GoodStays
      <4> QED BY <3>1, <4>3
    <3> QED BY <3>2, <3>3
  <2>6. ASSUME at' = "act", NEW c \in todo', c.kind # "FAILED"
        PROVE  reqs'[testers'[c.row].req].branch /\ GoodNow(testers'[c.row].req)
    <3>1. c.row \in DOMAIN testers /\ reqs'[testers[c.row].req].branch /\ GoodNow(testers[c.row].req)
      BY <1>6, <2>1, <2>6
    <3>2. testers'[c.row].req = testers[c.row].req
      BY <2>4, <3>1
    <3> QED BY <3>1, <3>2
  <2> QED BY <1>7, <2>1, <2>5, <2>6
<1> QED BY <1>8, <1>9, <1>10, <1>11, <1>12, <1>13, <1>14, <1>i, TestMoves DEF Reports

-----------------------------------------------------------------------------
(* The theorems.                                                           *)

LEMMA InitIInv == Init => IInv /\ TestedInv
<1> SUFFICES ASSUME Init
             PROVE  IInv /\ TestedInv
  OBVIOUS
<1>1. TypeOK /\ Todo
  BY InitType, InitTodo
<1>2. /\ \A r \in Req : reqs[r].status = "none" /\ ~reqs[r].branch
      /\ \A s \in Story : stories[s].status = "none" /\ stories[s].for = None
      /\ DOMAIN testers = {} /\ \A t \in Teams : sessions[t].req = None
      /\ Handoffs = {} /\ at = "handoff" /\ asked = {} /\ shipped = {}
  BY DEF Init, Handoffs, Closed
<1>3. \A r \in Req : ~SignedOff(r)
  BY <1>2 DEF SignedOff
<1>4. Handed /\ Fresh /\ AskedOnce
  BY <1>2, <1>3 DEF Handed, Fresh, AskedOnce, AskedOf
<1>5. GitInv /\ Once
  BY <1>2, <1>3 DEF GitInv, GitOf, Once, Early
<1>6. CalmInv
  BY <1>2, <1>3 DEF CalmInv, CalmOf
<1>7. SessionInv
  BY DEF Init, SessionInv, Running
<1>8. Heard /\ ActInv /\ VerdictInv
  BY <1>2 DEF Heard, ActInv, VerdictInv, VerdictOf
<1>9. TestedInv
  BY <1>2 DEF TestedInv
<1> QED BY <1>1, <1>4, <1>5, <1>6, <1>7, <1>8, <1>9 DEF IInv

LEMMA NextIInv ==
    ASSUME IInv, [Next]_vars
    PROVE  IInv'
<1>1. TypeOK' /\ Todo'
  BY NextType, NextTodo DEF IInv
<1>2. Handed' /\ Fresh' /\ AskedOnce' /\ GitInv'
  BY NextHanded, NextFresh, NextAskedOnce, NextGitInv DEF IInv
<1>3. Once' /\ CalmInv'
  BY NextOnce, NextCalmInv DEF IInv
<1>4. SessionInv' /\ Heard' /\ ActInv' /\ VerdictInv'
  BY NextSession, NextHeard, NextActInv, NextVerdict DEF IInv
<1> QED BY <1>1, <1>2, <1>3, <1>4 DEF IInv

\* The invariant, however the steps of the manager, of the tech lead and of the test agents
\* interleave, and whatever goes wrong among what the model lets go wrong.
THEOREM Invariance == Spec => []IInv
<1>1. Init => IInv
  BY InitIInv
<1>2. IInv /\ [Next]_vars => IInv'
  BY NextIInv
<1> QED BY <1>1, <1>2, PTL DEF Spec

\* The tables hold what the code writes into them, and no more.
THEOREM TypeCorrect == Spec => []TypeOK
<1>1. IInv => TypeOK
  BY DEF IInv
<1> QED BY <1>1, Invariance, PTL

\* feature-sign-off.ts gives a requirement one test agent, although it never asks whether it
\* has had one, unless both git fails and the tech lead is restarted.
THEOREM SignedOffOnce == Spec => []Once
<1>1. IInv => Once
  BY DEF IInv
<1> QED BY <1>1, Invariance, PTL

\* What the tables call passed is on main, and what they call failed is not.
THEOREM Verdicts == Spec => []VerdictIsTrue
<1>1. IInv => VerdictIsTrue
  <2> SUFFICES ASSUME IInv, NEW r \in Req
               PROVE  /\ reqs[r].status = "sign_off_passed" => r \in shipped
                      /\ reqs[r].status = "sign_off_failed" =>
                             r \notin shipped \/ "again" \in trouble \/ Repeated
    BY DEF VerdictIsTrue
  <2>1. VerdictOf(r) /\ Once
    BY DEF IInv, VerdictInv
  <2>2. ASSUME reqs[r].status = "sign_off_failed", r \in shipped, "again" \notin trouble, ~Repeated
        PROVE  FALSE
    <3>1. Listened(r, "PASSED") /\ Listened(r, "FAILED")
      BY <2>1, <2>2 DEF VerdictOf
    <3>2. PICK i \in DOMAIN testers : testers[i].named /\ testers[i].req = r /\ testers[i].heard = "PASSED"
      BY <3>1 DEF Listened
    <3>3. PICK j \in DOMAIN testers : testers[j].named /\ testers[j].req = r /\ testers[j].heard = "FAILED"
      BY <3>1 DEF Listened
    <3>4. i = j
      BY <2>1, <2>2, <3>2, <3>3 DEF Once
    <3> QED BY <3>2, <3>3, <3>4
  <2> QED BY <2>1, <2>2 DEF VerdictOf
<1> QED BY <1>1, Invariance, PTL

\* A branch gets to main only after its tests have passed on all that was signed off, when
\* every requirement has a team of its own (a test agent is found by the name of its team).
THEOREM Shipped ==
    ASSUME TeamsDiffer
    PROVE  Spec => []ShippedWasTested
<1>1. Init => IInv /\ TestedInv
  BY InitIInv
<1>2. IInv /\ TestedInv /\ [Next]_vars => (IInv /\ TestedInv)'
  BY NextIInv, NextTested
<1>3. TestedInv => ShippedWasTested
  BY DEF TestedInv, ShippedWasTested, Calm, Good
<1> QED BY <1>1, <1>2, <1>3, PTL DEF Spec
===============================================================================
