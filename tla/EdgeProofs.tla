----------------------------- MODULE EdgeProofs ------------------------------
(***************************************************************************)
(* Theorems about the components at the edge of the hive, each of which    *)
(* writes to something that it does not control and may be cut off from:   *)
(*                                                                         *)
(*   Watch   Monitoring: the manager types into terminals                  *)
(*   Board   Jira: commands, the manager and people move cards             *)
(*   Run     CloudRun: an adapter mirrors hive.db, a lambda cancels it     *)
(*                                                                         *)
(* They are three specifications side by side, and every theorem is about  *)
(* one of them: that it keeps what its module of promises says.  Where two *)
(* of them call a variable by the same name (at, todo, seen, subs) it is   *)
(* declared once.                                                          *)
(***************************************************************************)
EXTENDS MonitoringPromises, JiraPromises, CloudRunPromises, Sequences, FiniteSets,
        FiniteSetTheorems, FunctionTheorems, SequenceTheorems, TLAPS

CONSTANTS Shown, Branchless, HardReset, MaxAgents, MaxEvents,
          Node, Column, Means, Entry, Sprints, MaxMishaps, MaxSetbacks, MaxDrags,
          Poll, Conn, MaxFaults
VARIABLES progress, lately, window, mem, todo, saw, events,
          owned, refs, saved, lead, made, held, job, late, flying, connector, setbacks, drags,
          hive, unread, adapter, poll, create, cancel, age, bus, sock, asked, left, faults

Watch == INSTANCE Monitoring
Board == INSTANCE Jira
Run   == INSTANCE CloudRun


-----------------------------------------------------------------------------
(* The check: types, and where it is.                                      *)
\* What is kept for each session.
MemOf == [nudges : 0 .. MaxNudges, cooling : BOOLEAN, attempts : 0 .. HardReset,
          held : SUBSET [kind : Watch!Interventions, story : Story]]
TermOf   == [shows : Shown \cup {Watch!Gone, "active", "idle"}, by : 1 .. MaxAgents, story : Story \cup {Watch!None}]
WindowOf == [same : BOOLEAN, old : BOOLEAN]
ListedAs(s) == [by : {s} \X (1 .. MaxAgents), story : Story \cup {Watch!None}, blocked : BOOLEAN]

\* The types of what the world, the tables and the manager's memory hold.
DataOK ==
    /\ term \in [Session -> TermOf]
    /\ progress \in [Story -> {"planned", "in_progress", "pr_submitted", "merged"}]
    /\ esc \subseteq Watch!Escalation /\ lately \subseteq Session \X (1 .. MaxAgents)
    /\ window \in [Session -> WindowOf] /\ mem \in [Session -> MemOf]
    /\ reminded \in [Session -> 0 .. MaxNudges + 1] /\ events \in 0 .. MaxEvents

\* Where the check is: a classifier is asked only about a session with a
\* story, and of the stuck ones only about one that nobody attends to.
ControlOK ==
    /\ at \in {"rest", "scan", "act", "ask", "stuck", "askStuck"} /\ todo \subseteq DOMAIN listed
    /\ at \in {"act", "ask", "askStuck"} <=> saw # Watch!Nothing
    /\ saw = Watch!Nothing \/ (saw.session \in todo /\ saw.screen \in Watch!Screens)
    /\ DOMAIN listed \subseteq Session
    /\ \A s \in DOMAIN listed : listed[s] \in ListedAs(s)
    /\ at \in {"ask", "askStuck"} => listed[saw.session].story # Watch!None
    /\ at = "askStuck" => ~listed[saw.session].blocked
    /\ at \in {"stuck", "askStuck"} => \A s \in todo : listed[s].story # Watch!None

LEMMA ControlQuiet == ASSUME ControlOK, UNCHANGED Watch!mgr PROVE ControlOK'
BY DEF ControlOK, Watch!mgr, ListedAs

LEMMA Typings == DataOK /\ ControlOK => Watch!TypeOK
BY DEF DataOK, ControlOK, Watch!TypeOK, MemOf, TermOf, WindowOf, ListedAs

LEMMA ControlAbort == ASSUME ControlOK, Watch!Abort PROVE ControlOK'
BY DEF ControlOK, Watch!Abort, Watch!Goto, Watch!Nothing, Watch!None, ListedAs

LEMMA ControlDone ==
    ASSUME ControlOK, at \in {"act", "ask", "stuck", "askStuck"},
           NEW s \in todo, NEW b \in BOOLEAN, Watch!Done(s, b)
    PROVE  ControlOK'
<1>1. s \in DOMAIN listed /\ DOMAIN listed' = DOMAIN listed
  BY DEF ControlOK, Watch!Done
<1>2. \A t \in DOMAIN listed : /\ listed'[t] \in ListedAs(t)
                               /\ listed'[t].story = listed[t].story
  BY <1>1 DEF ControlOK, Watch!Done, ListedAs
<1>3. todo' = todo \ {s} /\ saw' = Watch!Nothing /\ at' \in {"scan", "stuck"}
  BY DEF Watch!Done, Watch!Goto
<1>4. at' = "stuck" => at \in {"stuck", "askStuck"}
  BY DEF Watch!Done, Watch!Goto
<1> QED BY <1>1, <1>2, <1>3, <1>4 DEF ControlOK, Watch!Nothing, Watch!None, Watch!Done

LEMMA ControlTyped ==
    ASSUME ControlOK, at \in {"act", "ask", "stuck", "askStuck"},
           NEW s \in todo, NEW b \in BOOLEAN, Watch!Typed(s, b)
    PROVE  ControlOK'
BY ControlDone, ControlAbort DEF Watch!Typed

\* The session that is dealt with.
LEMMA Dealing ==
    ASSUME ControlOK, NEW s \in Session, saw.session = s, at \in {"act", "ask", "askStuck"}
    PROVE  /\ s \in todo /\ s \in DOMAIN listed /\ listed[s] \in ListedAs(s)
           /\ saw.screen \in Watch!Screens
BY DEF ControlOK

\* What there is at first, but for what the terminals show.
LEMMA Starting ==
    ASSUME Watch!Init
    PROVE  /\ esc = {} /\ lately = {} /\ at = "rest" /\ todo = {} /\ saw = Watch!Nothing /\ events = 0
           /\ listed = <<>> /\ DOMAIN listed = {}
           /\ window = [s \in Session |-> Watch!Unseen] /\ mem = [s \in Session |-> Watch!Fresh]
           /\ reminded = [s \in Session |-> 0]
           /\ progress \in [Story -> {"planned", "in_progress"}]
<1>1. /\ esc = {} /\ lately = {} /\ at = "rest" /\ todo = {} /\ saw = Watch!Nothing /\ events = 0
      /\ listed = <<>> /\ window = [s \in Session |-> Watch!Unseen] /\ mem = [s \in Session |-> Watch!Fresh]
      /\ reminded = [s \in Session |-> 0]
  BY Zenon DEF Watch!Init
<1>2. progress = [x \in Story |-> IF \E s \in Session : term[s].story = x THEN "in_progress" ELSE "planned"]
  BY Zenon DEF Watch!Init
<1>3. progress \in [Story -> {"planned", "in_progress"}]
  BY <1>2
<1>4. DOMAIN listed = {}
  BY <1>1
<1> QED BY <1>1, <1>3, <1>4

LEMMA DataInit == ASSUME Watch!MonitoringAssumption, Watch!Init PROVE DataOK
<1> DEFINE Injective(f) == \A s, t \in Session : f[s] = f[t] => s = t
           First == CHOOSE f \in [Session -> Story] : Injective(f)
<1>1. \E f \in [Session -> Story] : Injective(f)
  <2>1. IsFiniteSet(Session) /\ IsFiniteSet(Story) /\ Cardinality(Session) <= Cardinality(Story)
    BY DEF Watch!MonitoringAssumption, Watch!IsFiniteSet, IsFiniteSet, Watch!Cardinality, Cardinality
  <2> DEFINE m == Cardinality(Session)
             n == Cardinality(Story)
  <2>2. m \in Nat /\ ExistsBijection(1 .. m, Session) /\ n \in Nat /\ ExistsBijection(1 .. n, Story)
    BY <2>1, FS_CardinalityType
  <2>3. ExistsBijection(Session, 1 .. m)
    BY <2>2, Fun_ExistsBijSymmetric
  <2>4. PICK f \in [Session -> 1 .. m] : \A s, t \in Session : f[s] = f[t] => s = t
    BY <2>3 DEF ExistsBijection, Bijection, Injection, IsInjective
  <2>5. PICK g \in [1 .. n -> Story] : \A i, j \in 1 .. n : g[i] = g[j] => i = j
    BY <2>2 DEF ExistsBijection, Bijection, Injection, IsInjective
  <2>6. \A s \in Session : f[s] \in 1 .. n
    BY <2>1, <2>2
  <2> DEFINE h == [s \in Session |-> g[f[s]]]
  <2>7. h \in [Session -> Story]
    BY <2>6
  <2>8. \A s, t \in Session : h[s] = h[t] => s = t
    BY <2>4, <2>5, <2>6
  <2> HIDE DEF h
  <2> QED BY <2>7, <2>8
<1>2. First \in [Session -> Story]
  BY <1>1
<1> HIDE DEF First
<1>3. PICK shows \in [Session -> {"active", "idle"}] :
          term = [s \in Session |-> [shows |-> shows[s], by |-> 1, story |-> First[s]]]
  BY DEF Watch!Init, First, Injective
<1>4. term \in [Session -> [shows : Shown \cup {Watch!Gone, "active", "idle"}, by : 1 .. MaxAgents, story : Story \cup {Watch!None}]]
  BY <1>2, <1>3 DEF Watch!MonitoringAssumption
<1>5. Watch!Fresh \in MemOf /\ Watch!Unseen \in [same : BOOLEAN, old : BOOLEAN]
  BY DEF Watch!Fresh, Watch!Unseen, MemOf, Watch!MonitoringAssumption
<1>6. 0 \in 0 .. MaxNudges + 1 /\ 0 \in 0 .. MaxEvents
  BY DEF Watch!MonitoringAssumption
<1> QED BY <1>4, <1>5, <1>6, Starting DEF DataOK, TermOf, WindowOf

LEMMA ControlInit == Watch!Init => ControlOK
BY Starting DEF ControlOK, Watch!Nothing, Watch!None

-----------------------------------------------------------------------------
(* What others do leaves the check where it is.                            *)

Outside ==
    \/ Watch!Forget
    \/ \E s \in Session : \/ Watch!Submit(s) \/ Watch!Dies(s) \/ Watch!Respawn(s) \/ Watch!Quiet(s) \/ Watch!Cooled(s)
                          \/ \E x \in Shown : Watch!Change(s, x)
                          \/ \E x \in Story \cup {Watch!None} : Watch!Proceed(s, x)
    \/ \E e \in esc : Watch!Answer(e) \/ Watch!Acknowledge(e)

LEMMA DataOutside ==
    ASSUME Watch!MonitoringAssumption, DataOK, Outside
    PROVE  DataOK' /\ UNCHANGED Watch!mgr
<1> USE DEF Watch!world, Watch!rows, DataOK
<1>1. CASE Watch!Forget
  BY <1>1 DEF Watch!Forget
<1>2. ASSUME NEW s \in Session, Watch!Submit(s)
      PROVE  DataOK' /\ UNCHANGED Watch!mgr
  BY <1>2 DEF Watch!Submit
<1>3. Watch!Happens => events' \in 0 .. MaxEvents
  BY DEF Watch!Happens, Watch!MonitoringAssumption
<1>4. \A s \in Session : [reminded EXCEPT ![s] = 0] \in [Session -> 0 .. MaxNudges + 1]
  BY DEF Watch!MonitoringAssumption
<1>5. ASSUME NEW s \in Session, Watch!Dies(s)
      PROVE  DataOK' /\ UNCHANGED Watch!mgr
  <2>1. term' \in [Session -> TermOf]
    <3>1. term[s] \in TermOf
      OBVIOUS
    <3>2. [term[s] EXCEPT !.shows = Watch!Gone] \in TermOf
      BY <3>1 DEF TermOf
    <3> QED BY <1>5, <3>2 DEF Watch!Dies
  <2> QED BY <1>3, <1>4, <1>5, <2>1 DEF Watch!Dies
<1>6. ASSUME NEW s \in Session, Watch!Respawn(s)
      PROVE  DataOK' /\ UNCHANGED Watch!mgr
  <2>1. term[s].by \in 1 .. MaxAgents /\ term[s].by < MaxAgents
    BY <1>6 DEF Watch!Respawn, TermOf
  <2>2. term[s].by + 1 \in 1 .. MaxAgents
    BY <2>1 DEF Watch!MonitoringAssumption
  <2>3. term' \in [Session -> TermOf]
    BY <1>6, <2>2 DEF Watch!Respawn, TermOf
  <2>4. window' \in [Session -> WindowOf]
    BY <1>6 DEF Watch!Respawn, WindowOf
  <2> QED BY <1>4, <1>6, <2>3, <2>4 DEF Watch!Respawn
<1>7. ASSUME NEW s \in Session, Watch!Quiet(s)
      PROVE  DataOK' /\ UNCHANGED Watch!mgr
  <2>1. window' \in [Session -> WindowOf]
    BY <1>7 DEF Watch!Quiet, WindowOf
  <2> QED BY <1>7, <2>1 DEF Watch!Quiet
<1>8. ASSUME NEW s \in Session, Watch!Cooled(s)
      PROVE  DataOK' /\ UNCHANGED Watch!mgr
  <2>1. mem' \in [Session -> MemOf]
    <3>1. mem[s] \in MemOf
      OBVIOUS
    <3>2. [mem[s] EXCEPT !.cooling = FALSE] \in MemOf
      BY <3>1 DEF MemOf
    <3> QED BY <1>8, <3>2 DEF Watch!Cooled
  <2> QED BY <1>8, <2>1 DEF Watch!Cooled
<1>9. ASSUME NEW s \in Session, NEW x \in Shown, Watch!Change(s, x)
      PROVE  DataOK' /\ UNCHANGED Watch!mgr
  <2>1. term' \in [Session -> TermOf]
    <3>1. term[s] \in TermOf
      OBVIOUS
    <3>2. [term[s] EXCEPT !.shows = x] \in TermOf
      BY <3>1 DEF TermOf
    <3> QED BY <1>9, <3>2 DEF Watch!Change
  <2>2. window' \in [Session -> WindowOf]
    BY <1>9 DEF Watch!Change, WindowOf
  <2> QED BY <1>3, <1>4, <1>9, <2>1, <2>2 DEF Watch!Change
<1>10. ASSUME NEW s \in Session, NEW x \in Story \cup {Watch!None}, Watch!Proceed(s, x)
       PROVE  DataOK' /\ UNCHANGED Watch!mgr
  <2>1. term' \in [Session -> TermOf]
    <3>1. term[s] \in TermOf
      OBVIOUS
    <3>2. [term[s] EXCEPT !.story = x] \in TermOf
      BY <3>1 DEF TermOf
    <3> QED BY <1>10, <3>2 DEF Watch!Proceed
  <2>2. progress' \in [Story -> {"planned", "in_progress", "pr_submitted", "merged"}]
    BY <1>10 DEF Watch!Proceed
  <2> QED BY <1>10, <2>1, <2>2 DEF Watch!Proceed
<1>11. ASSUME NEW e \in esc, Watch!Answer(e) \/ Watch!Acknowledge(e)
       PROVE  DataOK' /\ UNCHANGED Watch!mgr
  BY <1>11 DEF Watch!Answer, Watch!Acknowledge, Watch!Escalation
<1> QED BY <1>1, <1>2, <1>5, <1>6, <1>7, <1>8, <1>9, <1>10, <1>11 DEF Outside

-----------------------------------------------------------------------------
(* The steps of the check.                                                 *)

LEMMA RowType ==
    ASSUME DataOK, ControlOK, NEW s \in DOMAIN listed, NEW kind \in Watch!Kinds, Watch!Insert(s, kind)
    PROVE  esc' \subseteq Watch!Escalation /\ lately' \subseteq Session \X (1 .. MaxAgents)
<1>1. s \in Session /\ listed[s].by \in {s} \X (1 .. MaxAgents) /\ listed[s].story \in Story \cup {Watch!None}
  BY DEF ControlOK, ListedAs
<1>2. listed[s].by \in Session \X (1 .. MaxAgents)
  BY <1>1
<1>3. Watch!Row(s, kind) \in Watch!Escalation
  BY <1>1, <1>2 DEF Watch!Row, Watch!Escalation
<1> QED BY <1>2, <1>3 DEF Watch!Insert, DataOK

LEMMA MarkStep ==
    ASSUME DataOK, ControlOK, NEW s \in Session, NEW kind \in Watch!Interventions,
           NEW before \in SUBSET [kind : Watch!Interventions, story : Story],
           saw.session = s, at \in {"ask", "askStuck"}, Watch!Mark(s, kind, before)
    PROVE  DataOK' /\ ControlOK'
<1>1. s \in todo /\ s \in DOMAIN listed /\ kind \in Watch!Kinds /\ listed[s].story \in Story
  BY Dealing DEF ControlOK, ListedAs, Watch!Interventions
<1>2. ControlOK'
  BY <1>1, ControlDone DEF Watch!Mark
<1>3. esc' \subseteq Watch!Escalation /\ lately' \subseteq Session \X (1 .. MaxAgents)
  BY <1>1, RowType DEF Watch!Mark, Watch!rows, DataOK
<1>4. {h \in before : h.kind # kind} \cup {Watch!Held(s, kind)} \in SUBSET [kind : Watch!Interventions, story : Story]
  BY <1>1 DEF Watch!Held
<1>5. mem' \in [Session -> MemOf]
  BY <1>4 DEF Watch!Mark, DataOK, MemOf
<1> QED BY <1>2, <1>3, <1>5 DEF Watch!Mark, DataOK, Watch!world

LEMMA Unheld ==
    ASSUME DataOK, NEW s \in Session
    PROVE  [mem EXCEPT ![s].held = {}] \in [Session -> MemOf]
<1>1. mem \in [Session -> MemOf] /\ mem[s] \in MemOf
  BY DEF DataOK
<1>2. [mem[s] EXCEPT !.held = {}] \in MemOf
  BY <1>1 DEF MemOf
<1> QED BY <1>1, <1>2

LEMMA RemindStep ==
    ASSUME Watch!MonitoringAssumption, DataOK, ControlOK, NEW s \in Session, mem[s].nudges < MaxNudges,
           saw.session = s, at \in {"ask", "askStuck"}, Watch!Remind(s)
    PROVE  DataOK' /\ ControlOK'
<1>1. s \in todo /\ listed[s].blocked \in BOOLEAN
  BY Dealing DEF ListedAs
<1>2. ControlOK'
  BY <1>1, ControlTyped DEF Watch!Remind
<1>3. mem[s] \in MemOf /\ mem[s].nudges + 1 \in 0 .. MaxNudges /\ Watch!Alive(s) \in BOOLEAN
  BY DEF DataOK, MemOf, Watch!Alive, Watch!MonitoringAssumption
<1>4. mem' \in [Session -> MemOf]
  <2> DEFINE n == IF Watch!Alive(s) THEN mem[s].nudges + 1 ELSE mem[s].nudges
             c == Watch!Alive(s) \/ mem[s].cooling
  <2>1. n \in 0 .. MaxNudges /\ c \in BOOLEAN
    BY <1>3 DEF MemOf
  <2>2. mem' = [mem EXCEPT ![s] = [@ EXCEPT !.held = {}, !.cooling = c, !.nudges = n]]
    BY DEF Watch!Remind
  <2> HIDE DEF n, c
  <2>3. [mem[s] EXCEPT !.held = {}, !.cooling = c, !.nudges = n] \in MemOf
    BY <1>3, <2>1 DEF MemOf
  <2> QED BY <2>2, <2>3 DEF DataOK
<1>5. reminded' \in [Session -> 0 .. MaxNudges + 1]
  BY DEF Watch!Remind, Watch!nudgeAgent, DataOK, Watch!MonitoringAssumption
<1> QED BY <1>2, <1>4, <1>5 DEF Watch!Remind, DataOK, Watch!world, Watch!rows

LEMMA AssessStep ==
    ASSUME Watch!MonitoringAssumption, DataOK, ControlOK, NEW s \in Session,
           NEW verdict \in Watch!Verdicts, Watch!Assess(s, verdict)
    PROVE  DataOK' /\ ControlOK'
<1>1. /\ saw.session = s /\ at \in {"ask", "askStuck"} /\ s \in todo /\ listed[s].blocked \in BOOLEAN
      /\ listed[s].story \in Story
  <2>1. saw.session = s /\ at \in {"ask", "askStuck"}
    BY DEF Watch!Assess
  <2> QED BY <2>1, Dealing DEF ControlOK, ListedAs
<1>2. CASE Watch!TimesOut(s)
  BY <1>1, <1>2, MarkStep DEF Watch!TimesOut, Watch!Interventions, Watch!Kinds, DataOK, MemOf
<1>3. CASE Watch!SaysUndone(s)
  BY <1>1, <1>3, MarkStep, RemindStep DEF Watch!SaysUndone, Watch!Interventions, Watch!Kinds
<1>4. CASE Watch!SaysDone(s)
  <2>1. ControlOK'
    BY <1>1, <1>4, ControlTyped DEF Watch!SaysDone, Watch!autoProgressDoneStory
  <2>2. mem' \in [Session -> MemOf]
    BY <1>4, Unheld DEF Watch!SaysDone
  <2> QED BY <1>1, <1>4, <2>1, <2>2 DEF Watch!SaysDone, Watch!autoProgressDoneStory, DataOK, Watch!rows
<1>5. CASE Watch!SaysDoneInVain(s)
  <2>1. CASE Watch!Remind(s) /\ mem[s].nudges < MaxNudges
    BY <1>1, <2>1, RemindStep
  <2>2. CASE ~(Watch!Remind(s) /\ mem[s].nudges < MaxNudges)
    <3>1. ControlOK'
      BY <1>1, <1>5, <2>2, ControlDone DEF Watch!SaysDoneInVain
    <3>2. mem' \in [Session -> MemOf]
      BY <1>5, <2>2, Unheld DEF Watch!SaysDoneInVain
    <3> QED BY <1>5, <2>2, <3>1, <3>2 DEF Watch!SaysDoneInVain, DataOK, Watch!rows, Watch!world
  <2> QED BY <2>1, <2>2
<1> QED BY <1>2, <1>3, <1>4, <1>5 DEF Watch!Assess

LEMMA TrackedType ==
    ASSUME Watch!MonitoringAssumption, DataOK, NEW s \in Session
    PROVE  Watch!Tracked(s) \in MemOf
<1>1. mem[s] \in MemOf /\ Watch!StillHeld(s) \in SUBSET [kind : Watch!Interventions, story : Story]
  BY DEF DataOK, MemOf, Watch!StillHeld
<1>2. [mem[s] EXCEPT !.held = Watch!StillHeld(s)] \in MemOf
  BY <1>1 DEF MemOf
<1>3. [mem[s] EXCEPT !.nudges = 0, !.held = {}, !.attempts = 0] \in MemOf
  <2>1. 0 \in 0 .. MaxNudges /\ 0 \in 0 .. HardReset
    BY DEF Watch!MonitoringAssumption
  <2> QED BY <1>1, <2>1 DEF MemOf
<1> QED BY <1>2, <1>3 DEF Watch!Tracked

LEMMA PressType ==
    ASSUME DataOK, NEW s \in Session, NEW from, NEW to \in {"active", "idle"}, Watch!Press(s, from, to)
    PROVE  term' \in [Session -> TermOf] /\ window' \in [Session -> WindowOf]
<1>1. CASE term[s].shows = from
  <2>1. term' \in [Session -> TermOf]
    <3>1. term \in [Session -> TermOf] /\ term[s] \in TermOf /\ term' = [term EXCEPT ![s].shows = to]
      BY <1>1 DEF Watch!Press, DataOK
    <3>2. [term[s] EXCEPT !.shows = to] \in TermOf
      BY <3>1 DEF TermOf
    <3> QED BY <3>1, <3>2
  <2>2. window' = [window EXCEPT ![s].same = FALSE] /\ window \in [Session -> WindowOf]
    BY <1>1 DEF Watch!Press, DataOK
  <2>3. window' \in [Session -> WindowOf]
    BY <2>2 DEF WindowOf
  <2> QED BY <2>1, <2>3
<1>2. CASE term[s].shows # from
  BY <1>2 DEF Watch!Press, DataOK
<1> QED BY <1>1, <1>2

LEMMA BeginStep ==
    ASSUME DataOK, ControlOK, Watch!Begin
    PROVE  DataOK' /\ ControlOK'
<1> DEFINE Live == {s \in Session : Watch!Alive(s)}
<1>1. listed' = [s \in Live |-> [by |-> Watch!Agent(s), story |-> term[s].story, blocked |-> FALSE]]
  BY DEF Watch!Begin, Watch!prepareSessionData
<1>2. \A s \in Live : Watch!Agent(s) \in {s} \X (1 .. MaxAgents) /\ term[s].story \in Story \cup {Watch!None}
  BY DEF Watch!Agent, DataOK, TermOf
<1>3. \A s \in Live : listed'[s] \in ListedAs(s)
  BY <1>1, <1>2 DEF ListedAs
<1>4. at' = "scan" /\ todo' = Live /\ saw' = Watch!Nothing
  BY DEF Watch!Begin, Watch!Goto
<1>5. ControlOK'
  BY <1>1, <1>3, <1>4 DEF ControlOK, Watch!Nothing
<1> QED BY <1>5 DEF Watch!Begin, DataOK, Watch!world

LEMMA Captured ==
    ASSUME Watch!MonitoringAssumption, DataOK, NEW s \in Session
    PROVE  Watch!Capture(s) \in Watch!Screens
<1>1. CASE Watch!Alive(s)
  <2>1. term[s].shows \in Shown \cup {"active", "idle"}
    BY <1>1 DEF Watch!Alive, DataOK, TermOf
  <2> QED BY <1>1, <2>1 DEF Watch!Capture, Watch!MonitoringAssumption, Watch!Screens, Watch!Detected
<1>2. CASE ~Watch!Alive(s)
  BY <1>2 DEF Watch!Capture, Watch!Screens, Watch!Detected
<1> QED BY <1>1, <1>2

LEMMA ScanStep ==
    ASSUME Watch!MonitoringAssumption, DataOK, ControlOK, NEW s \in Session, Watch!Scan(s)
    PROVE  DataOK' /\ ControlOK'
<1>1. saw' = [session |-> s, screen |-> Watch!Capture(s)] /\ at' = "act" /\ s \in todo
        /\ UNCHANGED <<todo, listed>>
  BY DEF Watch!Scan
<1>2. saw' # Watch!Nothing
  <2>1. "none" \notin Watch!Screens
    BY DEF Watch!Screens, Watch!Detected, Watch!Recoverable
  <2> QED BY <1>1, <2>1, Captured DEF Watch!Nothing, Watch!None
<1>3. ControlOK'
  BY <1>1, <1>2, Captured DEF ControlOK
<1>4. window' \in [Session -> WindowOf]
  <2>1. Watch!updateScreenStaticTracking(window[s]) \in WindowOf
    BY DEF Watch!updateScreenStaticTracking, DataOK, WindowOf
  <2> QED BY <2>1 DEF Watch!Scan, DataOK
<1> QED BY <1>3, <1>4 DEF Watch!Scan, DataOK, Watch!world, Watch!rows

\* The steps that deal with a session that was scanned.
Acts(s) == Watch!AutoApprove(s) \/ Watch!BackOff(s) \/ Watch!Continue(s) \/ Watch!Restart(s)
             \/ Watch!Escalate(s) \/ Watch!Recovered(s) \/ Watch!Idle(s)

LEMMA ActStep ==
    ASSUME Watch!MonitoringAssumption, DataOK, ControlOK, NEW s \in Session, Acts(s)
    PROVE  DataOK' /\ ControlOK'
<1>1. saw.session = s /\ at = "act" /\ s \in todo /\ s \in DOMAIN listed
  <2>1. saw.session = s /\ at = "act"
    BY DEF Acts, Watch!AutoApprove, Watch!BackOff, Watch!Continue, Watch!Restart, Watch!Escalate,
       Watch!Recovered, Watch!Idle, Watch!Acting
  <2> QED BY <2>1, Dealing
<1>2. \A m \in MemOf : Watch!Keeps(s, m) => mem' \in [Session -> MemOf]
  BY DEF Watch!Keeps, DataOK
<1>3. Watch!Keeps(s, Watch!Tracked(s)) => mem' \in [Session -> MemOf]
  BY <1>2, TrackedType
<1>4. \A b \in BOOLEAN : Watch!Done(s, b) \/ Watch!Typed(s, b) => ControlOK'
  BY <1>1, ControlDone, ControlTyped
<1>5. CASE Watch!AutoApprove(s)
  <2>1. term' \in [Session -> TermOf] /\ window' \in [Session -> WindowOf]
    BY <1>5, PressType DEF Watch!AutoApprove, Watch!autoApprovePermission
  <2> QED BY <1>3, <1>4, <1>5, <2>1 DEF Watch!AutoApprove, DataOK, Watch!rows
<1>6. CASE Watch!BackOff(s)
  BY <1>3, <1>4, <1>6 DEF Watch!BackOff, DataOK, Watch!rows, Watch!world
<1>7. CASE Watch!Continue(s)
  <2> DEFINE n == IF Watch!Alive(s) THEN Watch!Tracked(s).attempts + 1 ELSE Watch!Tracked(s).attempts
             m == [Watch!Tracked(s) EXCEPT !.attempts = n]
  <2>1. Watch!Tracked(s).attempts <= mem[s].attempts /\ mem[s].attempts \in 0 .. HardReset
    BY DEF Watch!Tracked, DataOK, MemOf, Watch!Interventions
  <2>2. n \in 0 .. HardReset
    <3>1. mem[s].attempts < HardReset /\ HardReset \in Nat
      BY <1>7 DEF Watch!Continue, Watch!MonitoringAssumption
    <3>2. Watch!Tracked(s).attempts \in 0 .. HardReset
      BY TrackedType DEF MemOf
    <3> QED BY <2>1, <3>1, <3>2
  <2>3. m \in MemOf
    <3> HIDE DEF n
    <3> QED BY <2>2, TrackedType DEF MemOf
  <2>4. Watch!Keeps(s, m)
    BY <1>7 DEF Watch!Continue
  <2> HIDE DEF m
  <2> QED BY <1>2, <1>4, <1>7, <2>3, <2>4 DEF Watch!Continue, DataOK, Watch!rows, Watch!world
<1>8. CASE Watch!Restart(s)
  <2> DEFINE m == [Watch!Tracked(s) EXCEPT !.attempts = 0]
  <2>1. m \in MemOf
    BY TrackedType DEF MemOf, Watch!MonitoringAssumption
  <2>2. term' \in [Session -> TermOf]
    BY <1>8 DEF Watch!Restart, DataOK, TermOf
  <2>3. Watch!Keeps(s, m)
    BY <1>8 DEF Watch!Restart
  <2>4. reminded' \in [Session -> 0 .. MaxNudges + 1]
    BY <1>8 DEF Watch!Restart, DataOK, Watch!MonitoringAssumption
  <2> HIDE DEF m
  <2> QED BY <1>2, <1>4, <1>8, <2>1, <2>2, <2>3, <2>4 DEF Watch!Restart, DataOK, Watch!rows
<1>9. CASE Watch!Escalate(s)
  <2>1. PICK restored \in {FALSE, Watch!State(s) = "plan" /\ Watch!Alive(s)} :
            /\ IF restored THEN Watch!forceBypassMode(s) ELSE UNCHANGED <<term, window>>
            /\ IF listed[s].by \in lately
               THEN UNCHANGED Watch!rows /\ Watch!Done(s, ~restored)
               ELSE Watch!Insert(s, "approval") /\ Watch!Typed(s, ~restored)
    BY <1>9 DEF Watch!Escalate
  <2>2. restored \in BOOLEAN /\ (~restored) \in BOOLEAN
    OBVIOUS
  <2>3. term' \in [Session -> TermOf] /\ window' \in [Session -> WindowOf]
    BY <2>1, PressType DEF Watch!forceBypassMode, DataOK
  <2>4. ControlOK'
    BY <1>4, <2>1, <2>2
  <2>5. esc' \subseteq Watch!Escalation /\ lately' \subseteq Session \X (1 .. MaxAgents)
    BY <1>1, <2>1, RowType DEF Watch!rows, DataOK, Watch!Kinds
  <2> QED BY <1>3, <1>9, <2>3, <2>4, <2>5 DEF Watch!Escalate, DataOK
<1>10. CASE Watch!Recovered(s)
  BY <1>3, <1>4, <1>10 DEF Watch!Recovered, DataOK, Watch!world
<1>11. CASE Watch!Idle(s)
  <2>1. CASE window[s].old /\ listed[s].story # Watch!None /\ progress[listed[s].story] # "merged"
    <3>1. at' = "ask" /\ UNCHANGED <<todo, saw>>
            /\ listed' = [listed EXCEPT ![s].blocked = Watch!State(s) = "throttled"]
      BY <1>11, <2>1 DEF Watch!Idle
    <3>2. \A t \in DOMAIN listed : listed'[t] \in ListedAs(t) /\ listed'[t].story = listed[t].story
      <4> DEFINE b == Watch!State(s) = "throttled"
      <4>1. b \in BOOLEAN /\ listed' = [listed EXCEPT ![s].blocked = b]
        BY <3>1
      <4> HIDE DEF b
      <4> QED BY <4>1 DEF ControlOK, ListedAs
    <3>3. ControlOK'
      BY <1>1, <2>1, <3>1, <3>2 DEF ControlOK
    <3> QED BY <1>3, <1>11, <3>3 DEF Watch!Idle, DataOK, Watch!world, Watch!rows
  <2>2. CASE ~(window[s].old /\ listed[s].story # Watch!None /\ progress[listed[s].story] # "merged")
    <3>1. Watch!Done(s, Watch!State(s) = "throttled") /\ (Watch!State(s) = "throttled") \in BOOLEAN
      BY <1>11, <2>2 DEF Watch!Idle
    <3> QED BY <1>3, <1>4, <1>11, <3>1 DEF Watch!Idle, DataOK, Watch!world, Watch!rows
  <2> QED BY <2>1, <2>2
<1> QED BY <1>5, <1>6, <1>7, <1>8, <1>9, <1>10, <1>11 DEF Acts

LEMMA LookStep ==
    ASSUME Watch!MonitoringAssumption, DataOK, ControlOK, NEW s \in Session, Watch!Look(s)
    PROVE  DataOK' /\ ControlOK'
<1>1. at = "stuck" /\ s \in todo
  BY DEF Watch!Look
<1>2. Watch!Done(s, FALSE) => ControlOK'
  BY <1>1, ControlDone
<1>3. CASE Watch!Skip(s)
  BY <1>2, <1>3 DEF Watch!Skip, DataOK, Watch!world, Watch!rows
<1>4. CASE mem' = [mem EXCEPT ![s].nudges = 0, ![s].held = {}] /\ Watch!Done(s, FALSE)
           /\ UNCHANGED <<Watch!world, Watch!rows, window, reminded, events>>
  <2>1. 0 \in 0 .. MaxNudges
    BY DEF Watch!MonitoringAssumption
  <2>2. mem' = [mem EXCEPT ![s] = [@ EXCEPT !.nudges = 0, !.held = {}]] /\ mem[s] \in MemOf
    BY <1>4 DEF DataOK
  <2>3. [mem[s] EXCEPT !.nudges = 0, !.held = {}] \in MemOf
    BY <2>1, <2>2 DEF MemOf
  <2> QED BY <1>2, <1>4, <2>2, <2>3 DEF DataOK, Watch!world, Watch!rows
<1>5. CASE /\ ~listed[s].blocked /\ at' = "askStuck" /\ saw' = [session |-> s, screen |-> Watch!Capture(s)]
           /\ UNCHANGED <<Watch!world, Watch!rows, window, mem, todo, listed, reminded, events>>
  <2>1. saw' # Watch!Nothing
    <3>1. "none" \notin Watch!Screens
      BY DEF Watch!Screens, Watch!Detected, Watch!Recoverable
    <3> QED BY <1>5, <3>1, Captured DEF Watch!Nothing, Watch!None
  <2>2. ControlOK'
    BY <1>1, <1>5, <2>1, Captured DEF ControlOK
  <2> QED BY <1>5, <2>2 DEF DataOK, Watch!world, Watch!rows
<1> QED BY <1>3, <1>4, <1>5 DEF Watch!Look

LEMMA OtherSteps ==
    ASSUME Watch!MonitoringAssumption, DataOK, ControlOK,
           Watch!ScanEnds \/ Watch!StuckEnds \/ Watch!ManagerDies \/ UNCHANGED Watch!vars
    PROVE  DataOK' /\ ControlOK'
<1> USE DEF Watch!world, Watch!rows
<1>1. CASE Watch!ScanEnds
  <2>1. DataOK'
    BY <1>1 DEF Watch!ScanEnds, DataOK
  <2>2. CASE Watch!Abort
    BY <2>1, <2>2, ControlAbort
  <2>3. CASE ~Watch!Abort
    BY <1>1, <2>1, <2>3 DEF Watch!ScanEnds, Watch!Goto, Watch!Nothing, ControlOK
  <2> QED BY <2>2, <2>3
<1>2. CASE Watch!StuckEnds
  BY <1>2, ControlAbort DEF Watch!StuckEnds, DataOK
<1>3. CASE Watch!ManagerDies
  <2>1. mem' \in [Session -> MemOf] /\ window' \in [Session -> WindowOf]
    BY <1>3 DEF Watch!ManagerDies, Watch!Fresh, Watch!Unseen, MemOf, WindowOf, Watch!MonitoringAssumption
  <2>2. reminded' \in [Session -> 0 .. MaxNudges + 1] /\ events' \in 0 .. MaxEvents
    BY <1>3 DEF Watch!ManagerDies, Watch!Happens, DataOK, Watch!MonitoringAssumption
  <2> QED BY <1>3, <2>1, <2>2, ControlAbort DEF Watch!ManagerDies, DataOK
<1>4. CASE UNCHANGED Watch!vars
  BY <1>4, ControlQuiet DEF Watch!vars, DataOK
<1> QED BY <1>1, <1>2, <1>3, <1>4

LEMMA WatchStep ==
    ASSUME Watch!MonitoringAssumption, DataOK, ControlOK, [Watch!Next]_(Watch!vars)
    PROVE  DataOK' /\ ControlOK'
BY DataOutside, ControlQuiet, BeginStep, ScanStep, ActStep, AssessStep, LookStep, OtherSteps
   DEF Watch!Next, Watch!Check, Outside, Acts

\* Every variable of Monitoring keeps its type: among them the count of
\* reminders (nudges) and of attempts, which never exceed their limits.
THEOREM WatchTypes ==
    ASSUME Watch!MonitoringAssumption
    PROVE  Watch!Spec => []Watch!TypeOK
BY DataInit, ControlInit, WatchStep, Typings, PTL DEF Watch!Spec

-----------------------------------------------------------------------------
(* Reminders.                                                              *)

\* What was seen of a session that has been reminded is still what it shows:
\* whatever changes it starts the count anew.  The manager's own count stays
\* up with the reminders while the session waits, and a session that goes on
\* was reminded no more often than is allowed before the manager noticed.
NudgeOf(s) ==
    /\ saw # Watch!Nothing /\ saw.session = s /\ reminded[s] > 0 => saw.screen = term[s].shows
    /\ term[s].shows = Watch!Gone => reminded[s] = 0
    /\ term[s].shows \in Watch!Waiting => reminded[s] <= mem[s].nudges
    /\ term[s].shows = "active" => reminded[s] <= MaxNudges
NudgeInv ==
    /\ \A s \in Session : NudgeOf(s)
    /\ at \in {"ask", "askStuck"} => saw.screen \in {"complete", "idle", "throttled", "unknown"}

\* What a step says of one session.
Same(s) ==
    /\ reminded'[s] = reminded[s] /\ term'[s].shows = term[s].shows /\ mem'[s].nudges = mem[s].nudges
    /\ saw' = saw \/ saw' = Watch!Nothing \/ saw'.session # s

LEMMA NudgeSame == ASSUME NEW s \in Session, NudgeOf(s), Same(s) PROVE NudgeOf(s)'
BY DEF NudgeOf, Same, Watch!Nothing

LEMMA NudgeReset ==
    ASSUME Watch!MonitoringAssumption, DataOK', NEW s \in Session, reminded'[s] = 0
    PROVE  NudgeOf(s)'
<1>1. mem'[s].nudges >= 0 /\ MaxNudges \in Nat
  BY DEF DataOK, MemOf, Watch!MonitoringAssumption
<1> QED BY <1>1 DEF NudgeOf

LEMMA NudgeInit == ASSUME Watch!MonitoringAssumption, Watch!Init PROVE NudgeInv
<1>1. \A s \in Session : mem[s].nudges = 0 /\ reminded[s] = 0
  <2>1. Watch!Fresh.nudges = 0
    BY DEF Watch!Fresh
  <2>2. \A s \in Session : mem[s] = Watch!Fresh /\ reminded[s] = 0
    BY Starting
  <2> QED BY <2>1, <2>2
<1> QED BY <1>1, Starting DEF NudgeInv, NudgeOf, Watch!Nothing, Watch!MonitoringAssumption

LEMMA NudgeOutside ==
    ASSUME Watch!MonitoringAssumption, DataOK, ControlOK, NudgeInv, Outside
    PROVE  NudgeInv'
<1>1. DataOK' /\ UNCHANGED Watch!mgr
  BY DataOutside
<1>2. ASSUME NEW s \in Session
      PROVE  Same(s) \/ reminded'[s] = 0
  <2> USE <1>1 DEF Watch!world, Watch!mgr, DataOK
  <2>1. CASE Watch!Forget \/ \E e \in esc : Watch!Answer(e) \/ Watch!Acknowledge(e)
    BY <2>1 DEF Watch!Forget, Watch!Answer, Watch!Acknowledge, Same
  <2>2. ASSUME NEW t \in Session, Watch!Submit(t) \/ Watch!Quiet(t)
        PROVE  Same(s)
    BY <2>2 DEF Watch!Submit, Watch!Quiet, Same
  <2>3. ASSUME NEW t \in Session, Watch!Cooled(t)
        PROVE  Same(s)
    BY <2>3 DEF Watch!Cooled, Same, MemOf
  <2>4. ASSUME NEW t \in Session, NEW x \in Story \cup {Watch!None}, Watch!Proceed(t, x)
        PROVE  Same(s)
    BY <2>4 DEF Watch!Proceed, Same, TermOf
  <2>5. ASSUME NEW t \in Session, Watch!Dies(t) \/ Watch!Respawn(t) \/ \E x \in Shown : Watch!Change(t, x)
        PROVE  Same(s) \/ reminded'[s] = 0
    BY <2>5 DEF Watch!Dies, Watch!Respawn, Watch!Change, Same, TermOf
  <2> QED BY <2>1, <2>2, <2>3, <2>4, <2>5 DEF Outside
<1> QED BY <1>1, <1>2, NudgeSame, NudgeReset DEF NudgeInv, Watch!mgr

\* What a step does that deals with a session it has scanned.
LEMMA ActFacts ==
    ASSUME DataOK, ControlOK, NEW s \in Session, Acts(s)
    PROVE  /\ saw.session = s /\ at = "act" /\ saw # Watch!Nothing
           /\ \A t \in Session \ {s} : Same(t)
           /\ reminded' = reminded \/ (reminded'[s] = 0
                /\ \A t \in Session \ {s} : reminded'[t] = reminded[t])
           /\ mem'[s].nudges = mem[s].nudges \/ (mem'[s].nudges = 0 /\ Watch!State(s) \notin Watch!Waiting)
           /\ saw' = Watch!Nothing \/ (saw' = saw /\ Watch!State(s) \in Watch!Waiting \ Watch!Human)
           /\ at' \in {"rest", "scan", "ask", "stuck"} /\ (at' = "ask" => saw' = saw
                /\ Watch!State(s) \in Watch!Waiting \ Watch!Human)
           /\ \/ term'[s].shows = term[s].shows
              \/ reminded'[s] = 0
              \/ term[s].shows = "permission" /\ term'[s].shows = "active" /\ Watch!State(s) \in Watch!Waiting
              \/ term[s].shows = "plan" /\ term'[s].shows = "idle" /\ Watch!State(s) \in Watch!Waiting
<1>1. saw.session = s /\ at = "act" /\ saw # Watch!Nothing
  BY DEF Acts, Watch!AutoApprove, Watch!BackOff, Watch!Continue, Watch!Restart, Watch!Escalate,
     Watch!Recovered, Watch!Idle, Watch!Acting, ControlOK
<1>2. \A b \in BOOLEAN : Watch!Done(s, b) \/ Watch!Typed(s, b) => saw' = Watch!Nothing
        /\ at' \in {"rest", "scan", "stuck"}
  BY DEF Watch!Done, Watch!Typed, Watch!Abort, Watch!Goto
<1>3. \A m : Watch!Keeps(s, m) => mem'[s] = m /\ \A t \in Session \ {s} : mem'[t] = mem[t]
  BY DEF Watch!Keeps, DataOK
<1>4. \/ Watch!Tracked(s).nudges = mem[s].nudges
      \/ Watch!Tracked(s).nudges = 0 /\ Watch!State(s) \notin Watch!Waiting
  BY DEF Watch!Tracked, DataOK, MemOf
<1>5. \A n : [Watch!Tracked(s) EXCEPT !.attempts = n].nudges = Watch!Tracked(s).nudges
  BY DEF Watch!Tracked, DataOK, MemOf
<1>6. \A from, to : Watch!Press(s, from, to) =>
          /\ \A t \in Session \ {s} : term'[t] = term[t]
          /\ term'[s].shows = term[s].shows \/ (term[s].shows = from /\ term'[s].shows = to)
  BY DEF Watch!Press, DataOK, TermOf
<1> USE <1>1, <1>2, <1>3, <1>4 DEF Watch!world, Same
<1>7. CASE Watch!AutoApprove(s)
  <2>1. Watch!State(s) \in Watch!Waiting /\ Watch!Keeps(s, Watch!Tracked(s)) /\ reminded' = reminded
          /\ Watch!Done(s, TRUE)
    BY <1>7 DEF Watch!AutoApprove, Watch!Waiting, Watch!Human
  <2>2. /\ \A t \in Session \ {s} : term'[t] = term[t]
        /\ term'[s].shows = term[s].shows \/ (term[s].shows = "permission" /\ term'[s].shows = "active")
    BY <1>6, <1>7 DEF Watch!AutoApprove, Watch!autoApprovePermission
  <2> QED BY <2>1, <2>2
<1>8. CASE Watch!BackOff(s)
  BY <1>8 DEF Watch!BackOff
<1>9. CASE Watch!Continue(s)
  <2> DEFINE n == IF Watch!Alive(s) THEN Watch!Tracked(s).attempts + 1 ELSE Watch!Tracked(s).attempts
             m == [Watch!Tracked(s) EXCEPT !.attempts = n]
  <2>1. Watch!Keeps(s, m) /\ m.nudges = Watch!Tracked(s).nudges
    BY <1>5, <1>9 DEF Watch!Continue
  <2> HIDE DEF m
  <2>2. mem'[s].nudges = Watch!Tracked(s).nudges /\ \A t \in Session \ {s} : mem'[t] = mem[t]
    BY <1>3, <2>1
  <2> QED BY <1>9, <2>2 DEF Watch!Continue
<1>10. CASE Watch!Restart(s)
  <2> DEFINE m == [Watch!Tracked(s) EXCEPT !.attempts = 0]
  <2>1. Watch!Keeps(s, m) /\ Watch!Done(s, TRUE) /\ m.nudges = Watch!Tracked(s).nudges
    BY <1>5, <1>10 DEF Watch!Restart
  <2> HIDE DEF m
  <2>2. mem'[s].nudges = Watch!Tracked(s).nudges /\ \A t \in Session \ {s} : mem'[t] = mem[t]
    BY <1>3, <2>1
  <2>3. \A t \in Session \ {s} : term'[t] = term[t] /\ reminded'[t] = reminded[t]
    BY <1>10 DEF Watch!Restart, DataOK
  <2>4. reminded'[s] = 0
    BY <1>10 DEF Watch!Restart, DataOK
  <2> QED BY <2>1, <2>2, <2>3, <2>4
<1>11. CASE Watch!Escalate(s)
  <2>1. Watch!State(s) \in Watch!Waiting /\ Watch!Keeps(s, Watch!Tracked(s)) /\ reminded' = reminded
    BY <1>11 DEF Watch!Escalate, Watch!Waiting
  <2>2. PICK restored \in {FALSE, Watch!State(s) = "plan" /\ Watch!Alive(s)} :
            /\ IF restored THEN Watch!forceBypassMode(s) ELSE UNCHANGED <<term, window>>
            /\ Watch!Done(s, ~restored) \/ Watch!Typed(s, ~restored)
    BY <1>11 DEF Watch!Escalate
  <2>3. (~restored) \in BOOLEAN
    OBVIOUS
  <2>4. /\ \A t \in Session \ {s} : term'[t] = term[t]
        /\ term'[s].shows = term[s].shows \/ (term[s].shows = "plan" /\ term'[s].shows = "idle")
    BY <1>6, <2>2 DEF Watch!forceBypassMode
  <2> QED BY <2>1, <2>2, <2>3, <2>4
<1>12. CASE Watch!Recovered(s)
  BY <1>12 DEF Watch!Recovered
<1>13. CASE Watch!Idle(s)
  <2>1. Watch!State(s) \in Watch!Waiting \ Watch!Human /\ Watch!Keeps(s, Watch!Tracked(s))
          /\ reminded' = reminded /\ term' = term
    BY <1>13 DEF Watch!Idle
  <2>2. (saw' = saw /\ at' = "ask") \/ Watch!Done(s, Watch!State(s) = "throttled")
    BY <1>13 DEF Watch!Idle
  <2>3. (Watch!State(s) = "throttled") \in BOOLEAN
    OBVIOUS
  <2> QED BY <2>1, <2>2, <2>3
<1> QED BY <1>7, <1>8, <1>9, <1>10, <1>11, <1>12, <1>13 DEF Acts

LEMMA NudgeAct ==
    ASSUME Watch!MonitoringAssumption, DataOK, ControlOK, NudgeInv, NEW s \in Session, Acts(s)
    PROVE  NudgeInv'
<1> USE ActFacts
<1>1. DataOK'
  BY ActStep
<1>2. ASSUME NEW t \in Session \ {s}
      PROVE  NudgeOf(t)'
  BY <1>2, NudgeSame DEF NudgeInv
<1>3. Watch!State(s) = saw.screen \/ Watch!State(s) = "asking"
  BY DEF Watch!State
<1>4. NudgeOf(s)'
  <2>1. CASE reminded'[s] = 0
    BY <1>1, <2>1, NudgeReset
  <2>2. CASE reminded'[s] # 0
    <3>1. reminded' = reminded /\ reminded[s] > 0 /\ reminded[s] \in Nat
      BY <2>2 DEF DataOK
    <3>2. NudgeOf(s) /\ saw.screen = term[s].shows
      BY <3>1 DEF NudgeInv, NudgeOf
    <3>3. mem[s].nudges \in 0 .. MaxNudges /\ MaxNudges \in Nat
      BY DEF DataOK, MemOf, Watch!MonitoringAssumption
    <3>4. CASE mem'[s].nudges = mem[s].nudges
      <4>1. CASE term'[s].shows = term[s].shows
        BY <3>1, <3>2, <3>4, <4>1 DEF NudgeOf, Watch!Nothing
      <4>2. CASE term'[s].shows \in {"active", "idle"} /\ term[s].shows \in {"permission", "plan"}
        <5>1. Watch!State(s) \notin Watch!Waiting \ Watch!Human
          BY <1>3, <3>2, <4>2 DEF Watch!Waiting, Watch!Human
        <5>2. reminded[s] <= mem[s].nudges /\ saw' = Watch!Nothing
          BY <3>2, <4>2, <5>1 DEF NudgeOf, Watch!Waiting, Watch!Human
        <5> QED BY <3>1, <3>3, <3>4, <4>2, <5>2 DEF NudgeOf, Watch!Gone
      <4> QED BY <2>2, <4>1, <4>2 DEF Watch!Waiting, Watch!Human
    <3>5. CASE mem'[s].nudges = 0 /\ Watch!State(s) \notin Watch!Waiting
      <4>1. term[s].shows \notin Watch!Waiting
        BY <1>3, <3>2, <3>5 DEF Watch!Waiting, Watch!Human
      <4>2. term'[s].shows = term[s].shows
        BY <2>2, <3>5
      <4> QED BY <3>1, <3>2, <3>5, <4>1, <4>2 DEF NudgeOf, Watch!Nothing
    <3> QED BY <3>4, <3>5
  <2> QED BY <2>1, <2>2
<1>5. at' \in {"ask", "askStuck"} => saw'.screen \in {"complete", "idle", "throttled", "unknown"}
  BY <1>3 DEF Watch!Waiting, Watch!Human
<1> QED BY <1>2, <1>4, <1>5 DEF NudgeInv

\* A reminder is typed into what was seen, or it is the first since.
LEMMA NudgeRemind ==
    ASSUME Watch!MonitoringAssumption, DataOK, ControlOK, NudgeInv, NEW s \in Session, saw.session = s,
           at \in {"ask", "askStuck"}, mem[s].nudges < MaxNudges, Watch!Remind(s)
    PROVE  NudgeInv'
<1>1. saw' = Watch!Nothing /\ at' \in {"rest", "scan", "stuck"}
  BY DEF Watch!Remind, Watch!Done, Watch!Typed, Watch!Abort, Watch!Goto
<1>2. term' = term /\ \A t \in Session \ {s} : mem'[t] = mem[t] /\ reminded'[t] = reminded[t]
  BY DEF Watch!Remind, Watch!nudgeAgent, Watch!world, DataOK
<1>3. \A t \in Session \ {s} : NudgeOf(t)'
  BY <1>1, <1>2, NudgeSame DEF NudgeInv, Same
<1>4. mem[s].nudges \in 0 .. MaxNudges /\ MaxNudges \in Nat /\ reminded[s] \in 0 .. MaxNudges + 1
  BY DEF DataOK, MemOf, Watch!MonitoringAssumption
<1>5. NudgeOf(s)'
  <2>1. CASE ~Watch!Alive(s)
    <3>1. reminded'[s] = reminded[s] /\ mem'[s].nudges = mem[s].nudges
      BY <2>1 DEF Watch!Remind, Watch!nudgeAgent, DataOK, MemOf
    <3> QED BY <1>1, <1>2, <3>1, NudgeSame DEF NudgeInv, Same
  <2>2. CASE Watch!Alive(s)
    <3>1. mem'[s].nudges = mem[s].nudges + 1
      BY <2>2 DEF Watch!Remind, DataOK, MemOf
    <3>2. reminded'[s] \in {reminded[s], reminded[s] + 1}
      BY DEF Watch!Remind, Watch!nudgeAgent, DataOK
    <3>3. NudgeOf(s) /\ saw.screen \in {"complete", "idle", "throttled", "unknown"}
      BY DEF NudgeInv
    <3>4. saw # Watch!Nothing
      BY DEF ControlOK
    <3>5. term[s].shows = "active" => reminded[s] = 0
      BY <1>4, <3>3, <3>4 DEF NudgeOf
    <3> QED BY <1>1, <1>2, <1>4, <2>2, <3>1, <3>2, <3>3, <3>5 DEF NudgeOf, Watch!Alive
  <2> QED BY <2>1, <2>2
<1> QED BY <1>1, <1>3, <1>5 DEF NudgeInv

LEMMA NudgeAssess ==
    ASSUME Watch!MonitoringAssumption, DataOK, ControlOK, NudgeInv, NEW s \in Session,
           NEW verdict \in Watch!Verdicts, Watch!Assess(s, verdict)
    PROVE  NudgeInv'
<1>1. saw.session = s /\ at \in {"ask", "askStuck"}
  BY DEF Watch!Assess
<1>2. CASE Watch!Remind(s) /\ mem[s].nudges < MaxNudges
  BY <1>1, <1>2, NudgeRemind
<1>3. CASE ~(Watch!Remind(s) /\ mem[s].nudges < MaxNudges)
  <2>1. /\ UNCHANGED <<term, reminded>> /\ saw' = Watch!Nothing /\ at' \in {"rest", "scan", "stuck"}
        /\ \E h : mem' = [mem EXCEPT ![s].held = h]
    BY <1>3 DEF Watch!Assess, Watch!TimesOut, Watch!SaysUndone, Watch!SaysDone, Watch!SaysDoneInVain,
       Watch!autoProgressDoneStory, Watch!Mark, Watch!Typed, Watch!Done, Watch!Abort,
                Watch!Goto, Watch!world
  <2>2. \A t \in Session : mem'[t].nudges = mem[t].nudges
    BY <2>1 DEF DataOK, MemOf
  <2> QED BY <2>1, <2>2, NudgeSame DEF NudgeInv, Same
<1> QED BY <1>2, <1>3

LEMMA NudgeCheck ==
    ASSUME Watch!MonitoringAssumption, DataOK, ControlOK, NudgeInv,
           \/ Watch!Begin \/ Watch!ScanEnds \/ Watch!StuckEnds \/ Watch!ManagerDies \/ UNCHANGED Watch!vars
           \/ \E s \in Session : Watch!Scan(s) \/ Watch!Look(s)
    PROVE  NudgeInv'
<1>1. DataOK'
  BY BeginStep, ScanStep, LookStep, OtherSteps
<1>2. CASE Watch!Begin \/ Watch!ScanEnds \/ Watch!StuckEnds
  <2>1. UNCHANGED <<term, reminded, mem>> /\ saw' = Watch!Nothing /\ at' \in {"rest", "scan", "stuck"}
    BY <1>2 DEF Watch!Begin, Watch!ScanEnds, Watch!StuckEnds, Watch!Abort, Watch!Goto, Watch!world
  <2> QED BY <2>1, NudgeSame DEF NudgeInv, Same
<1>3. CASE Watch!ManagerDies
  <2>1. (\A s \in Session : reminded'[s] = 0) /\ at' = "rest"
    BY <1>3 DEF Watch!ManagerDies, Watch!Abort, Watch!Goto
  <2> QED BY <1>1, <2>1, NudgeReset DEF NudgeInv
<1>4. ASSUME NEW s \in Session, saw' = [session |-> s, screen |-> Watch!Capture(s)], UNCHANGED <<term,
             reminded, mem>>
      PROVE  \A t \in Session : NudgeOf(t)'
  <2>1. \A t \in Session \ {s} : NudgeOf(t)'
    BY <1>4, NudgeSame DEF NudgeInv, Same
  <2>2. NudgeOf(s) /\ reminded[s] \in Nat
    BY DEF NudgeInv, DataOK
  <2>3. reminded[s] > 0 => Watch!Capture(s) = term[s].shows
    BY <2>2 DEF NudgeOf, Watch!Capture, Watch!Alive
  <2> QED BY <1>4, <2>1, <2>2, <2>3 DEF NudgeOf
<1>5. ASSUME NEW s \in Session, Watch!Scan(s)
      PROVE  NudgeInv'
  BY <1>4, <1>5 DEF Watch!Scan, Watch!world, NudgeInv
<1>6. ASSUME NEW s \in Session, Watch!Look(s)
      PROVE  NudgeInv'
  <2>1. CASE Watch!Skip(s)
    <3>1. UNCHANGED <<term, reminded, mem>> /\ saw' = Watch!Nothing /\ at' \in {"scan", "stuck"}
      BY <2>1 DEF Watch!Skip, Watch!Done, Watch!Goto, Watch!world
    <3> QED BY <3>1, NudgeSame DEF NudgeInv, Same
  <2>2. CASE /\ Watch!Capture(s) \in {"active", "unknown"}
             /\ mem' = [mem EXCEPT ![s].nudges = 0, ![s].held = {}]
             /\ Watch!Done(s, FALSE) /\ UNCHANGED <<Watch!world, Watch!rows, window, reminded, events>>
    <3>1. UNCHANGED <<term, reminded>> /\ saw' = Watch!Nothing /\ at' \in {"scan", "stuck"}
      BY <2>2 DEF Watch!Done, Watch!Goto, Watch!world
    <3>2. \A t \in Session \ {s} : NudgeOf(t)'
      BY <2>2, <3>1, NudgeSame DEF NudgeInv, Same, DataOK
    <3>3. NudgeOf(s) /\ reminded[s] \in Nat
      BY DEF NudgeInv, DataOK
    <3>4. term[s].shows \in {"active", "unknown", Watch!Gone}
      BY <2>2 DEF Watch!Capture, Watch!Alive
    <3>5. NudgeOf(s)'
      BY <3>1, <3>3, <3>4 DEF NudgeOf, Watch!Waiting, Watch!Human, Watch!Gone
    <3> QED BY <3>1, <3>2, <3>5 DEF NudgeInv
  <2>3. CASE /\ Watch!Capture(s) \in {"complete", "idle", "throttled", "unknown"}
             /\ at' = "askStuck" /\ saw' = [session |-> s, screen |-> Watch!Capture(s)]
             /\ UNCHANGED <<Watch!world, Watch!rows, window, mem, todo, listed, reminded, events>>
    BY <1>4, <2>3 DEF Watch!world, NudgeInv
  <2> QED BY <1>6, <2>1, <2>2, <2>3 DEF Watch!Look
<1>7. CASE UNCHANGED Watch!vars
  BY <1>7, NudgeSame DEF Watch!vars, Watch!world, Watch!mgr, NudgeInv, Same
<1> QED BY <1>2, <1>3, <1>5, <1>6, <1>7

LEMMA NudgeStep ==
    ASSUME Watch!MonitoringAssumption, DataOK, ControlOK, NudgeInv, [Watch!Next]_(Watch!vars)
    PROVE  NudgeInv'
BY NudgeOutside, NudgeAct, NudgeAssess, NudgeCheck DEF Watch!Next, Watch!Check, Outside, Acts

\* While a terminal stays as it is, a manager reminds its agent no more often
\* than max_stuck_nudges_per_story allows, in both steps of its checks together
\* and whatever happened between what they saw and what they typed.
THEOREM Reminders ==
    ASSUME Watch!MonitoringAssumption
    PROVE  Watch!Spec => []NudgesBounded
<1>1. ASSUME DataOK, NudgeInv
      PROVE  NudgesBounded
  <2> SUFFICES ASSUME NEW s \in Session, term[s].shows # "unknown"
               PROVE  reminded[s] <= MaxNudges
    BY DEF NudgesBounded
  <2>1. term[s].shows \in Watch!Waiting \cup {"active", Watch!Gone}
    <3>1. term[s].shows \in Watch!Screens \cup {Watch!Gone}
      BY <1>1 DEF DataOK, TermOf, Watch!MonitoringAssumption, Watch!Screens, Watch!Detected
    <3> QED BY <3>1 DEF Watch!Screens, Watch!Detected, Watch!Recoverable, Watch!Waiting, Watch!Human
  <2>2. reminded[s] \in Nat /\ mem[s].nudges \in 0 .. MaxNudges /\ MaxNudges \in Nat
    BY <1>1 DEF DataOK, MemOf, Watch!MonitoringAssumption
  <2> QED BY <1>1, <2>1, <2>2 DEF NudgeInv, NudgeOf
<1> QED BY <1>1, DataInit, ControlInit, NudgeInit, WatchStep, NudgeStep, PTL DEF Watch!Spec

-----------------------------------------------------------------------------
(* Escalations.                                                            *)

\* Has a human been asked, because of the classifier, about the story that
\* the check has listed for the session?
Asked(s) == \E e \in esc : e.kind \in Watch!Interventions /\ e.by = listed[s].by /\ e.story = listed[s].story
\* The sessions that are to be gone through by the second step of the check:
\* those that the first is done with, those that the second has not come to.
Pending(s) == at \in {"scan", "act", "ask"} <=> s \notin todo
\* The classifier is asked, and the second step reminds, only where no human was.
AskedInv ==
    /\ \A e \in esc : e.kind \in Watch!Interventions => e.story # Watch!None
    /\ at = "ask" => ~Asked(saw.session)
    /\ \A s \in DOMAIN listed : Pending(s) /\ ~listed[s].blocked => ~Asked(s)

\* A step asks about nothing that was not asked before, but for the story of one session.
Known(e)    == \E f \in esc : f.kind \in Watch!Interventions /\ f.by = e.by /\ f.story = e.story
AsksOnly(s) ==
    \A e \in esc' : e.kind \in Watch!Interventions =>
        Known(e) \/ (e.by = listed[s].by /\ e.story = listed[s].story /\ listed[s].story # Watch!None)
AsksNothing == \A e \in esc' : e.kind \in Watch!Interventions => Known(e)

LEMMA AsksLess == ASSUME esc' \subseteq esc PROVE AsksNothing
BY DEF AsksNothing, Known

\* A row that counts is one for which the state of the session is overridden.
LEMMA AskedHolds == ASSUME AskedInv, NEW s \in Session, Asked(s) PROVE Watch!State(s) = "asking"
BY DEF AskedInv, Asked, Watch!State, Watch!HeldForHuman

\* When nothing is asked, and the list and the step stay, so does the invariant.
LEMMA AskedSame ==
    ASSUME AskedInv, AsksNothing, UNCHANGED listed,
           at' \in {"ask", "askStuck"} => at' = at /\ saw' = saw,
           \A s \in DOMAIN listed : Pending(s)' => Pending(s)
    PROVE  AskedInv'
<1>1. \A s : Asked(s)' => Asked(s)
  BY DEF Asked, AsksNothing, Known
<1>2. \A e \in esc' : e.kind \in Watch!Interventions => e.story # Watch!None
  BY DEF AskedInv, AsksNothing, Known
<1>3. at' = "ask" => ~Asked(saw.session)' /\ saw' = saw
  BY <1>1 DEF AskedInv
<1> QED BY <1>1, <1>2, <1>3 DEF AskedInv, Asked

LEMMA AskedAbort ==
    ASSUME AskedInv, AsksNothing, Watch!Abort
    PROVE  AskedInv'
<1>1. \A e \in esc' : e.kind \in Watch!Interventions => e.story # Watch!None
  BY DEF AskedInv, AsksNothing, Known
<1>2. DOMAIN listed' = {} /\ at' = "rest"
  BY DEF Watch!Abort, Watch!Goto
<1> QED BY <1>1, <1>2 DEF AskedInv

\* The check is done with one session.
LEMMA AskedDone ==
    ASSUME ControlOK, AskedInv, at \in {"act", "ask", "stuck", "askStuck"},
           NEW s \in todo, NEW b \in BOOLEAN, Watch!Done(s, b), AsksOnly(s),
           at \in {"act", "ask"} => b \/ (AsksNothing /\ ~Asked(s))
    PROVE  AskedInv'
<1>1. \A e \in esc' : e.kind \in Watch!Interventions => e.story # Watch!None
  BY DEF AskedInv, AsksOnly, Known
<1>2. at' = (IF at \in {"act", "ask"} THEN "scan" ELSE "stuck") /\ todo' = todo \ {s}
  BY DEF Watch!Done, Watch!Goto
<1>3. /\ DOMAIN listed' = DOMAIN listed /\ s \in DOMAIN listed
      /\ \A t \in DOMAIN listed : listed'[t].by = listed[t].by /\ listed'[t].story = listed[t].story
      /\ \A t \in DOMAIN listed \ {s} : listed'[t] = listed[t]
      /\ listed'[s].blocked = b
  BY DEF Watch!Done, ControlOK, ListedAs
<1>4. ASSUME NEW t \in DOMAIN listed \ {s}, Pending(t)', ~listed'[t].blocked
      PROVE  ~Asked(t)'
  <2>1. listed[t].by # listed[s].by
    BY <1>3 DEF ControlOK, ListedAs
  <2>2. Asked(t)' => Asked(t)
    BY <1>3, <2>1 DEF Asked, AsksOnly, Known
  <2>3. Pending(t)
    BY <1>2, <1>4 DEF Pending
  <2> QED BY <1>3, <1>4, <2>2, <2>3 DEF AskedInv
<1>5. ASSUME Pending(s)', ~listed'[s].blocked
      PROVE  ~Asked(s)'
  <2>1. at \in {"act", "ask"}
    BY <1>2, <1>5 DEF Pending
  <2>2. AsksNothing /\ ~Asked(s)
    BY <1>3, <1>5, <2>1
  <2> QED BY <1>3, <2>2 DEF Asked, AsksNothing, Known
<1> QED BY <1>1, <1>2, <1>3, <1>4, <1>5 DEF AskedInv

LEMMA AskedTyped ==
    ASSUME ControlOK, AskedInv, at \in {"act", "ask", "stuck", "askStuck"},
           NEW s \in todo, NEW b \in BOOLEAN, Watch!Typed(s, b), AsksNothing,
           at \in {"act", "ask"} => b \/ ~Asked(s)
    PROVE  AskedInv'
BY AskedDone, AskedAbort DEF Watch!Typed, AsksNothing, AsksOnly

LEMMA AskedOutside == ASSUME DataOK, ControlOK, AskedInv, Outside, UNCHANGED Watch!mgr PROVE AskedInv'
<1>1. AsksNothing
  <2>1. CASE UNCHANGED esc
    BY <2>1 DEF AsksNothing, Known
  <2>2. ASSUME NEW e \in esc, Watch!Answer(e) \/ Watch!Acknowledge(e)
        PROVE  AsksNothing
    BY <2>2 DEF Watch!Answer, Watch!Acknowledge, AsksNothing, Known, DataOK, Watch!Escalation
  <2> QED BY <2>1, <2>2 DEF Outside, Watch!Forget, Watch!Submit, Watch!Dies, Watch!Respawn, Watch!Quiet,
             Watch!Cooled, Watch!Change, Watch!Proceed, Watch!rows
<1> QED BY <1>1, AskedSame DEF Watch!mgr, Pending

LEMMA AskedAct ==
    ASSUME Watch!MonitoringAssumption, DataOK, ControlOK, AskedInv, NEW s \in Session, Acts(s)
    PROVE  AskedInv'
<1>1. at = "act" /\ saw.session = s /\ s \in todo
  <2>1. saw.session = s /\ at = "act"
    BY DEF Acts, Watch!AutoApprove, Watch!BackOff, Watch!Continue, Watch!Restart, Watch!Escalate,
       Watch!Recovered, Watch!Idle, Watch!Acting
  <2> QED BY <2>1, Dealing
<1>2. Watch!State(s) # "asking" => ~Asked(s)
  BY AskedHolds
<1>3. UNCHANGED esc => AsksNothing
  BY AsksLess
<1>4. AsksNothing => AsksOnly(s)
  BY DEF AsksNothing, AsksOnly
<1>5. Watch!AutoApprove(s) \/ Watch!BackOff(s) \/ Watch!Continue(s) \/ Watch!Restart(s) => AskedInv'
  BY <1>1, <1>3, <1>4, AskedDone, AskedTyped DEF Watch!AutoApprove, Watch!BackOff, Watch!Continue,
     Watch!Restart, Watch!rows
<1>6. CASE Watch!Escalate(s)
  <2>1. PICK restored \in {FALSE, Watch!State(s) = "plan" /\ Watch!Alive(s)} :
            IF listed[s].by \in lately
            THEN UNCHANGED Watch!rows /\ Watch!Done(s, ~restored)
            ELSE Watch!Insert(s, "approval") /\ Watch!Typed(s, ~restored)
    BY <1>6 DEF Watch!Escalate
  <2>2. (~restored) \in BOOLEAN /\ (~restored \/ ~Asked(s))
    BY <1>2
  <2>3. AsksNothing
    BY <2>1 DEF Watch!Insert, Watch!Row, Watch!rows, Watch!Interventions, AsksNothing, Known
  <2> QED BY <1>1, <1>4, <2>1, <2>2, <2>3, AskedDone, AskedTyped
<1>7. CASE Watch!Recovered(s)
  <2>1. AsksNothing
    BY <1>7, AsksLess DEF Watch!Recovered, Watch!OfAgent
  <2> QED BY <1>1, <1>2, <1>4, <1>7, <2>1, AskedDone DEF Watch!Recovered, Watch!Waiting, Watch!Human
<1>8. CASE Watch!Idle(s)
  <2>1. ~Asked(s) /\ AsksNothing
    BY <1>2, <1>3, <1>8 DEF Watch!Idle, Watch!Human, Watch!rows
  <2>2. CASE Watch!Done(s, Watch!State(s) = "throttled")
    <3>1. (Watch!State(s) = "throttled") \in BOOLEAN
      OBVIOUS
    <3> QED BY <1>1, <1>4, <2>1, <2>2, <3>1, AskedDone
  <2>3. CASE at' = "ask" /\ UNCHANGED <<todo, saw>>
               /\ listed' = [listed EXCEPT ![s].blocked = Watch!State(s) = "throttled"]
    <3>1. /\ DOMAIN listed' = DOMAIN listed
          /\ \A t \in DOMAIN listed : listed'[t].by = listed[t].by /\ listed'[t].story = listed[t].story
          /\ \A t \in DOMAIN listed \ {s} : listed'[t] = listed[t]
      BY <2>3 DEF ControlOK, ListedAs
    <3>2. \A t \in DOMAIN listed : Asked(t)' => Asked(t)
      BY <2>1, <3>1 DEF Asked, AsksNothing, Known
    <3>3. \A e \in esc' : e.kind \in Watch!Interventions => e.story # Watch!None
      BY <2>1 DEF AskedInv, AsksNothing, Known
    <3>4. s \in DOMAIN listed /\ ~Pending(s)' /\ \A t : Pending(t)' => Pending(t)
      BY <1>1, <2>3 DEF Pending, ControlOK
    <3>5. saw'.session = s /\ ~Asked(s)'
      BY <1>1, <2>1, <2>3, <3>2, <3>4
    <3> QED BY <2>3, <3>1, <3>2, <3>3, <3>4, <3>5 DEF AskedInv, Asked
  <2> QED BY <1>8, <2>2, <2>3 DEF Watch!Idle
<1> QED BY <1>5, <1>6, <1>7, <1>8 DEF Acts

LEMMA AskedAssess ==
    ASSUME DataOK, ControlOK, AskedInv, NEW s \in Session, NEW verdict \in Watch!Verdicts, Watch!Assess(s,
           verdict)
    PROVE  AskedInv'
<1>1. /\ saw.session = s /\ at \in {"ask", "askStuck"} /\ s \in todo /\ listed[s].blocked \in BOOLEAN
      /\ listed[s].story # Watch!None /\ (at = "ask" => ~Asked(s))
  <2>1. saw.session = s /\ at \in {"ask", "askStuck"}
    BY DEF Watch!Assess
  <2> QED BY <2>1, Dealing DEF ControlOK, ListedAs, AskedInv
<1>2. ASSUME NEW kind, NEW before, Watch!Mark(s, kind, before)
      PROVE  AskedInv'
  <2>1. UNCHANGED esc \/ esc' = esc \cup {Watch!Row(s, kind)}
    BY <1>2 DEF Watch!Mark, Watch!Insert, Watch!rows
  <2>2. Watch!Row(s, kind).by = listed[s].by /\ (kind # "approval"
          => Watch!Row(s, kind).story = listed[s].story) /\ Watch!Row(s, kind).kind = kind
    BY DEF Watch!Row
  <2>3. AsksOnly(s)
    BY <1>1, <2>1, <2>2 DEF AsksOnly, Known, Watch!Interventions
  <2> QED BY <1>1, <1>2, <2>3, AskedDone DEF Watch!Mark
<1>3. ASSUME UNCHANGED esc, Watch!Done(s, listed[s].blocked) \/ Watch!Typed(s, listed[s].blocked)
      PROVE  AskedInv'
  <2>1. AsksNothing /\ AsksOnly(s)
    BY <1>3 DEF AsksNothing, AsksOnly, Known
  <2> QED BY <1>1, <1>3, <2>1, AskedDone, AskedTyped
<1> QED BY <1>2, <1>3 DEF Watch!Assess, Watch!TimesOut, Watch!SaysUndone, Watch!SaysDone,
           Watch!SaysDoneInVain, Watch!autoProgressDoneStory, Watch!Remind, Watch!rows

LEMMA AskedCheck ==
    ASSUME DataOK, ControlOK, AskedInv,
           \/ Watch!Begin \/ Watch!ScanEnds \/ Watch!StuckEnds \/ Watch!ManagerDies \/ UNCHANGED Watch!vars
           \/ \E s \in Session : Watch!Scan(s) \/ Watch!Look(s)
    PROVE  AskedInv'
<1>1. CASE Watch!Begin
  <2>1. AsksNothing
    BY <1>1, AsksLess DEF Watch!Begin
  <2>2. at' = "scan" /\ DOMAIN listed' = todo'
    BY <1>1 DEF Watch!Begin, Watch!Goto, Watch!prepareSessionData
  <2>3. \A e \in esc' : e.kind \in Watch!Interventions => e.story # Watch!None
    BY <2>1 DEF AskedInv, AsksNothing, Known
  <2> QED BY <2>2, <2>3 DEF AskedInv, Pending
<1>2. CASE ~Watch!Begin
  <2>1. AsksNothing
    BY <1>2, AsksLess DEF Watch!ScanEnds, Watch!StuckEnds, Watch!ManagerDies, Watch!vars, Watch!rows,
       Watch!Scan, Watch!Look, Watch!Skip
  <2>2. ASSUME Watch!Abort
        PROVE  AskedInv'
    BY <2>1, <2>2, AskedAbort
  <2>3. CASE Watch!ScanEnds
    BY <2>1, <2>2, <2>3, AskedSame DEF Watch!ScanEnds, Watch!Goto, Pending
  <2>4. CASE UNCHANGED Watch!vars
    BY <2>1, <2>4, AskedSame DEF Watch!vars, Watch!mgr, Pending
  <2>5. ASSUME NEW s \in Session, Watch!Scan(s)
        PROVE  AskedInv'
    BY <2>1, <2>5, AskedSame DEF Watch!Scan, Pending
  <2>6. ASSUME NEW s \in Session, Watch!Look(s)
        PROVE  AskedInv'
    <3>1. at = "stuck" /\ s \in todo
      BY <2>6 DEF Watch!Look
    <3>2. CASE Watch!Done(s, FALSE)
      <4>1. AsksOnly(s)
        BY <2>1 DEF AsksNothing, AsksOnly
      <4> QED BY <3>1, <3>2, <4>1, AskedDone
    <3>3. CASE at' = "askStuck" /\ UNCHANGED <<todo, listed>>
      <4>1. \A t : Asked(t)' => Asked(t)
        BY <2>1, <3>3 DEF Asked, AsksNothing, Known
      <4>2. \A t : Pending(t)' => Pending(t)
        BY <3>1, <3>3 DEF Pending
      <4>3. \A e \in esc' : e.kind \in Watch!Interventions => e.story # Watch!None
        BY <2>1 DEF AskedInv, AsksNothing, Known
      <4> QED BY <3>3, <4>1, <4>2, <4>3 DEF AskedInv
    <3> QED BY <2>6, <3>2, <3>3 DEF Watch!Look, Watch!Skip
  <2> QED BY <1>2, <2>2, <2>3, <2>4, <2>5, <2>6 DEF Watch!StuckEnds, Watch!ManagerDies
<1> QED BY <1>1, <1>2

LEMMA AskedStep ==
    ASSUME Watch!MonitoringAssumption, DataOK, ControlOK, AskedInv, [Watch!Next]_(Watch!vars)
    PROVE  AskedInv'
BY AskedOutside, DataOutside, AskedAct, AskedAssess, AskedCheck DEF Watch!Next, Watch!Check, Outside, Acts

\* Only the assessment of a session by the classifier leads to a reminder.
LEMMA OnlyAssessReminds ==
    ASSUME Watch!MonitoringAssumption, DataOK, ControlOK, [Watch!Next]_(Watch!vars), NEW s \in Session,
           reminded'[s] > reminded[s]
    PROVE  saw.session = s /\ at \in {"ask", "askStuck"}
<1>1. reminded[s] \in Nat
  BY DEF DataOK
<1>2. ~Outside
  <2>1. reminded' = reminded \/ (\E t \in Session : reminded' = [reminded EXCEPT ![t] = 0]) \/ ~Outside
    BY DEF Outside, Watch!Forget, Watch!Submit, Watch!Dies, Watch!Respawn, Watch!Quiet, Watch!Cooled,
       Watch!Change, Watch!Proceed, Watch!Answer, Watch!Acknowledge
  <2> QED BY <1>1, <2>1 DEF DataOK
<1>3. ~\E t \in Session : Acts(t)
  BY <1>1, ActFacts
<1>4. ~(Watch!Begin \/ Watch!ScanEnds \/ Watch!StuckEnds \/ Watch!ManagerDies \/ UNCHANGED Watch!vars
        \/ \E t \in Session : Watch!Scan(t) \/ Watch!Look(t))
  <2>1. ASSUME NEW t \in Session, Watch!Scan(t) \/ Watch!Look(t)
        PROVE  reminded' = reminded
    <3>1. CASE Watch!Scan(t)
      BY <3>1 DEF Watch!Scan
    <3>2. CASE Watch!Look(t)
      BY <3>2 DEF Watch!Look, Watch!Skip
    <3> QED BY <2>1, <3>1, <3>2
  <2>2. ~(Watch!Begin \/ Watch!ScanEnds \/ Watch!StuckEnds \/ UNCHANGED Watch!vars)
    BY <1>1 DEF Watch!Begin, Watch!ScanEnds, Watch!StuckEnds, Watch!vars
  <2>3. ~Watch!ManagerDies
    BY <1>1 DEF Watch!ManagerDies
  <2> QED BY <1>1, <2>1, <2>2, <2>3
<1>5. PICK t \in Session : \E verdict \in Watch!Verdicts : Watch!Assess(t, verdict)
  BY <1>2, <1>3, <1>4 DEF Watch!Next, Watch!Check, Outside, Acts
<1>6. saw.session = t /\ at \in {"ask", "askStuck"} /\ \A u \in Session \ {t} : reminded'[u] = reminded[u]
  BY <1>5 DEF Watch!Assess, Watch!TimesOut, Watch!SaysUndone, Watch!SaysDone, Watch!SaysDoneInVain,
     Watch!Mark, Watch!Remind, Watch!nudgeAgent, DataOK
<1> QED BY <1>1, <1>6

\* Once a human has been asked about a story because of the classifier, the
\* agent is not reminded of it until that is settled, whatever happens and
\* however often the manager starts anew (applyHumanInterventionStateOverride()).
THEOREM HumanComesFirst ==
    ASSUME Watch!MonitoringAssumption
    PROVE  Watch!Spec => HumanFirst
<1>1. Watch!Init => AskedInv
  BY Starting DEF AskedInv
<1>2. ASSUME DataOK, ControlOK, AskedInv, [Watch!Next]_(Watch!vars)
      PROVE  [\A s \in Session : reminded'[s] > reminded[s] =>
                 ~\E e \in esc : e.kind \in Interventions /\ e.by = listed[s].by
                   /\ e.story = listed[s].story]_reminded
  <2> SUFFICES ASSUME NEW s \in Session, reminded'[s] > reminded[s]
               PROVE  ~Asked(s)
    BY DEF Asked, Watch!Interventions, Watch!Kinds, Interventions, Kinds
  <2>1. saw.session = s /\ at \in {"ask", "askStuck"}
    BY <1>2, OnlyAssessReminds
  <2>2. s \in todo /\ s \in DOMAIN listed
    BY <1>2, <2>1, Dealing
  <2> QED BY <1>2, <2>1, <2>2 DEF AskedInv, ControlOK, Pending
<1> QED BY <1>1, <1>2, DataInit, ControlInit, WatchStep, AskedStep, PTL DEF Watch!Spec, HumanFirst

\* An agent has at most one open escalation of each kind that the classifier
\* gives rise to: the row is looked for before it is written.
THEOREM OneEscalation ==
    ASSUME Watch!MonitoringAssumption
    PROVE  Watch!Spec => []Watch!OneOfAKind
<1>1. Watch!Init => Watch!OneOfAKind
  BY Starting DEF Watch!OneOfAKind
<1>2. ASSUME DataOK, ControlOK, Watch!OneOfAKind, [Watch!Next]_(Watch!vars)
      PROVE  Watch!OneOfAKind'
  <2>1. CASE esc' \subseteq esc
    BY <1>2, <2>1 DEF Watch!OneOfAKind
  <2>2. ASSUME NEW e \in esc, Watch!Acknowledge(e)
        PROVE  Watch!OneOfAKind'
    BY <1>2, <2>2 DEF Watch!OneOfAKind, Watch!Acknowledge, DataOK, Watch!Escalation
  <2>3. ASSUME NEW s \in Session, NEW kind, Watch!Insert(s, kind),
               kind \in Watch!Interventions => \A e \in Watch!OfAgent(s) : e.kind # kind
        PROVE  Watch!OneOfAKind'
    BY <1>2, <2>3 DEF Watch!OneOfAKind, Watch!Insert, Watch!Row, Watch!OfAgent
  <2>4. ASSUME NEW s \in Session, Acts(s)
        PROVE  Watch!OneOfAKind'
    <3>1. Watch!Insert(s, "approval") \/ esc' \subseteq esc
      BY <2>4 DEF Acts, Watch!AutoApprove, Watch!BackOff, Watch!Continue, Watch!Restart, Watch!Escalate,
         Watch!Recovered, Watch!Idle, Watch!OfAgent, Watch!rows
    <3> QED BY <2>1, <2>3, <3>1 DEF Watch!Interventions
  <2>5. ASSUME NEW s \in Session, NEW verdict \in Watch!Verdicts, Watch!Assess(s, verdict)
        PROVE  Watch!OneOfAKind'
    <3>1. \/ esc' \subseteq esc
          \/ \E kind \in Watch!Interventions : Watch!Insert(s, kind)
               /\ ~\E e \in Watch!OfAgent(s) : e.kind = kind
      BY <2>5 DEF Watch!Assess, Watch!TimesOut, Watch!SaysUndone, Watch!SaysDone, Watch!SaysDoneInVain,
         Watch!autoProgressDoneStory, Watch!Mark, Watch!Remind, Watch!rows,
                  Watch!Interventions, Watch!Kinds
    <3> QED BY <2>1, <2>3, <3>1
  <2>6. CASE Watch!Begin \/ Watch!ScanEnds \/ Watch!StuckEnds \/ Watch!ManagerDies
               \/ UNCHANGED Watch!vars \/ \E s \in Session : Watch!Scan(s) \/ Watch!Look(s)
    <3>1. esc' \subseteq esc
      BY <2>6 DEF Watch!Begin, Watch!ScanEnds, Watch!StuckEnds, Watch!ManagerDies, Watch!vars, Watch!rows,
         Watch!Scan, Watch!Look, Watch!Skip
    <3> QED BY <2>1, <3>1
  <2>7. CASE \/ Watch!Forget
             \/ \E s \in Session : \/ Watch!Submit(s) \/ Watch!Dies(s) \/ Watch!Respawn(s) \/ Watch!Quiet(s) \/ Watch!Cooled(s)
                                   \/ \E x \in Shown : Watch!Change(s, x)
                                   \/ \E x \in Story \cup {Watch!None} : Watch!Proceed(s, x)
             \/ \E e \in esc : Watch!Answer(e)
    <3>1. esc' \subseteq esc
      BY <2>7 DEF Watch!Forget, Watch!Submit, Watch!Dies, Watch!Respawn, Watch!Quiet, Watch!Cooled,
         Watch!Change, Watch!Proceed, Watch!Answer, Watch!rows
    <3> QED BY <2>1, <3>1
  <2> QED BY <1>2, <2>2, <2>4, <2>5, <2>6, <2>7 DEF Watch!Next, Watch!Check, Acts
<1> QED BY <1>1, <1>2, DataInit, ControlInit, WatchStep, PTL DEF Watch!Spec

-----------------------------------------------------------------------------
(* The board: types, and references to issues that exist.                  *)

CardOf  == [col : Column, epic : Nat, sprint : BOOLEAN]
SavedAs == [status : [Story -> Board!Status], owned : SUBSET Story, ref : Board!Reference]

BoardOK ==
    /\ status \in [Story -> Board!Status] /\ owned \subseteq Story
    /\ refs \in [Node -> Board!Reference] /\ lead \in Node /\ saved \subseteq SavedAs
    /\ cards \in [Story -> Seq(CardOf)] /\ epics \in Nat /\ subs \in [Story -> Nat]
    /\ mishaps \in Nat /\ cuts \in Nat
CallsOK ==
    /\ held \subseteq [story : Story, status : Board!Status]
    /\ job \subseteq [story : Story, op : {"subtask", "creating", "move"}, waits : BOOLEAN]
    /\ flying \subseteq [story : Story, issue : Nat, status : Board!Status]
    /\ late \subseteq Story /\ connector \in {Board!None, "good", "spent"}

\* A pass of syncFromJira() has the lock, so that no command waits for a call
\* and no assignment has any queued; what the file holds differs only during
\* a section.  What a step has read of a story stays true while it is at it.
PassOK ==
    /\ at \in {"rest", "issues", "repair", "pull", "push"} /\ todo \subseteq Story /\ made \subseteq Story
    /\ seen \in Column \cup {Board!None, "epic"}
    /\ at # "rest" => held = {} /\ job = {}
    /\ at = "rest" /\ held = {} => saved = {}
    /\ at = "issues" => \A s \in todo : Board!mine.key[s] = 0 /\ status[s] # Board!Absent
    /\ at \in {"repair", "pull", "push"} => \A s \in todo : Board!mine.key[s] # 0
    /\ at = "repair" => \A s \in todo : s \notin Board!mine.sub
    /\ at \in {"repair", "pull"} => seen = Board!None
    /\ at = "push" /\ seen # Board!None => todo # {}
    /\ \A j \in job : j.op = "creating" => j.story \notin Board!mine.sub

\* What refers to an epic or to an issue refers to one that there is: on every
\* node, in what a crash would bring back, and in the calls under way.
Exists(r) == r.epic <= epics /\ \A s \in Story : r.key[s] <= Len(cards[s])
NamesOK ==
    /\ \A n \in Node : Exists(refs[n])
    /\ \A t \in saved : Exists(t.ref)
         /\ \A s \in Story : t.status[s] = Board!Absent <=> status[s] = Board!Absent
    /\ \A s \in Story : \A i \in 1 .. Len(cards[s]) : cards[s][i].epic <= epics
    /\ \A s \in Story : status[s] = Board!Absent => cards[s] = <<>>
    /\ \A f \in flying : f.issue <= Len(cards[f.story])

\* What is said of the board, and how the parts of the invariant depend on the state.
Board0 == BoardOK /\ CallsOK /\ PassOK /\ NamesOK

\* Cards move, and nothing is created.
Moved ==
    /\ cards' \in [Story -> Seq(CardOf)]
    /\ \A s \in Story : /\ Len(cards'[s]) = Len(cards[s])
                        /\ \A i \in 1 .. Len(cards[s]) : cards'[s][i].epic = cards[s][i].epic

LEMMA NoneMoved == ASSUME BoardOK, UNCHANGED cards PROVE Moved
BY DEF Moved, BoardOK

LEMMA OneMoved ==
    ASSUME NEW q \in Seq(CardOf), NEW n, NEW r,
           r = [q EXCEPT ![n].sprint = TRUE] \/ \E c \in Column : r = [q EXCEPT ![n].col = c]
    PROVE  r \in Seq(CardOf) /\ Len(r) = Len(q) /\ \A i \in 1 .. Len(q) : r[i].epic = q[i].epic
<1>1. DOMAIN q = 1 .. Len(q) /\ q = [i \in 1 .. Len(q) |-> q[i]]
  BY LenProperties
<1>2. CASE n \notin 1 .. Len(q)
  <2>1. r = [i \in 1 .. Len(q) |-> q[i]]
    <3>1. CASE r = [q EXCEPT ![n].sprint = TRUE]
      BY <1>1, <1>2, <3>1
    <3>2. ASSUME NEW c \in Column, r = [q EXCEPT ![n].col = c]
          PROVE  r = [i \in 1 .. Len(q) |-> q[i]]
      BY <1>1, <1>2, <3>2
    <3> QED BY <3>1, <3>2
  <2> QED BY <1>1, <2>1
<1>3. CASE n \in 1 .. Len(q)
  <2>1. q[n] \in CardOf
    BY <1>3, ElementOfSeq
  <2>2. PICK d \in CardOf : r = [q EXCEPT ![n] = d] /\ d.epic = q[n].epic
    <3>1. CASE r = [q EXCEPT ![n].sprint = TRUE]
      <4>1. [q[n] EXCEPT !.sprint = TRUE] \in CardOf /\ [q[n] EXCEPT !.sprint = TRUE].epic = q[n].epic
        BY <2>1 DEF CardOf
      <4>2. r = [q EXCEPT ![n] = [q[n] EXCEPT !.sprint = TRUE]]
        BY <3>1
      <4> QED BY <4>1, <4>2
    <3>2. ASSUME NEW c \in Column, r = [q EXCEPT ![n].col = c]
          PROVE  \E d \in CardOf : r = [q EXCEPT ![n] = d] /\ d.epic = q[n].epic
      <4>1. [q[n] EXCEPT !.col = c] \in CardOf /\ [q[n] EXCEPT !.col = c].epic = q[n].epic
        BY <2>1 DEF CardOf
      <4>2. r = [q EXCEPT ![n] = [q[n] EXCEPT !.col = c]]
        BY <3>2
      <4> QED BY <4>1, <4>2
    <3> QED BY <3>1, <3>2
  <2>3. r \in Seq(CardOf) /\ Len(r) = Len(q) /\ \A j \in 1 .. Len(q) : r[j] = IF j = n THEN d ELSE q[j]
    BY <1>3, <2>2, ExceptSeq
  <2> QED BY <2>2, <2>3
<1> QED BY <1>2, <1>3

LEMMA TransitionMoves ==
    ASSUME BoardOK, NEW s, NEW n, NEW st, NEW answer, Board!Transition(s, n, st, answer)
    PROVE  Moved
<1>1. CASE UNCHANGED cards
  BY <1>1, NoneMoved
<1>2. ASSUME NEW c \in Board!Columns(st), cards' = [cards EXCEPT ![s][n].col = c]
      PROVE  Moved
  <2>1. c \in Column
    BY DEF Board!Columns
  <2>2. cards' \in [Story -> Seq(CardOf)] /\ \A t \in Story : Len(cards'[t]) = Len(cards[t])
                                          /\ \A i \in 1 .. Len(cards[t]) : cards'[t][i].epic = cards[t][i].epic
    <3>1. ASSUME NEW t \in Story
          PROVE  /\ cards'[t] \in Seq(CardOf) /\ Len(cards'[t]) = Len(cards[t])
                 /\ \A i \in 1 .. Len(cards[t]) : cards'[t][i].epic = cards[t][i].epic
      <4>1. cards[t] \in Seq(CardOf) /\ (cards'[t] = cards[t] \/ cards'[t] = [cards[t] EXCEPT ![n].col = c])
        BY <1>2 DEF BoardOK
      <4> QED BY <2>1, <4>1, OneMoved
    <3>2. DOMAIN cards' = Story /\ cards' = [t \in Story |-> cards'[t]]
      BY <1>2 DEF BoardOK
    <3> QED BY <3>1, <3>2
  <2> QED BY <2>2 DEF Moved
<1> QED BY <1>1, <1>2 DEF Board!Transition

LEMMA SprintMoves ==
    ASSUME BoardOK, NEW S \in SUBSET Story, NEW how, Board!InSprint(S, how)
    PROVE  /\ Moved /\ refs' \in [Node -> Board!Reference]
           /\ \A n \in Node : /\ refs'[n].epic = refs[n].epic
                              /\ refs'[n].key = refs[n].key /\ refs'[n].sub = refs[n].sub
<1>1. Moved
  <2>1. CASE how # "moved"
    BY <2>1, NoneMoved DEF Board!InSprint
  <2>2. CASE how = "moved"
    <3>1. cards' = [s \in Story |-> IF s \notin S THEN cards[s]
            ELSE [cards[s] EXCEPT ![Board!mine.key[s]].sprint = TRUE]]
      BY <2>2 DEF Board!InSprint
    <3>2. ASSUME NEW s \in Story
          PROVE  /\ cards'[s] \in Seq(CardOf) /\ Len(cards'[s]) = Len(cards[s])
                 /\ \A i \in 1 .. Len(cards[s]) : cards'[s][i].epic = cards[s][i].epic
      <4> DEFINE n == Board!mine.key[s]
      <4>1. cards[s] \in Seq(CardOf)
        BY DEF BoardOK
      <4>2. cards'[s] = cards[s] \/ cards'[s] = [cards[s] EXCEPT ![n].sprint = TRUE]
        BY <3>1
      <4> HIDE DEF n
      <4> QED BY <4>1, <4>2, OneMoved
    <3> QED BY <3>1, <3>2 DEF Moved
  <2> QED BY <2>1, <2>2
<1>2. CASE how = "none"
  BY <1>1, <1>2 DEF Board!InSprint, BoardOK
<1>3. CASE how # "none"
  <2>1. refs' = [refs EXCEPT ![lead].sprint = @ \cup S] /\ lead \in Node /\ refs \in [Node -> Board!Reference]
    BY <1>3 DEF Board!InSprint, BoardOK
  <2> QED BY <1>1, <2>1 DEF Board!Reference
<1> QED BY <1>2, <1>3

LEMMA NextIn == ASSUME NEW S, S # {} PROVE Board!NextOf(S) \in S
BY DEF Board!NextOf

LEMMA MishapCounts ==
    ASSUME BoardOK, NEW answer, Board!Answered(answer) \/ Board!Mishap
    PROVE  /\ mishaps' \in Nat /\ mishaps <= mishaps'
           /\ Board!Mishap \/ answer # "ok" => mishaps' = mishaps + 1
BY DEF BoardOK, Board!Answered, Board!Mishap

\* The names stay good while nothing is created.
LEMMA NamesKept ==
    ASSUME BoardOK, CallsOK, NamesOK, Moved, UNCHANGED epics, saved' \subseteq saved \cup {Board!Tables},
           \A n \in Node : refs'[n].epic = refs[n].epic /\ refs'[n].key = refs[n].key,
           \A s \in Story : status'[s] = Board!Absent => status[s] = Board!Absent,
           saved' = {} \/ \A s \in Story : status[s] = Board!Absent => status'[s] = Board!Absent,
           \A f \in flying' : f \in flying \/ (f.story \in Story /\ f.issue = Board!mine.key[f.story])
    PROVE  NamesOK'
<1>1. Exists(Board!mine) /\ lead \in Node
  BY DEF NamesOK, BoardOK, Board!mine
<1>2. \A n \in Node : refs'[n].epic <= epics' /\ \A s \in Story : refs'[n].key[s] <= Len(cards'[s])
  BY DEF NamesOK, Exists, Moved
<1>3. \A t \in saved' : t.ref.epic <= epics' /\ \A s \in Story : t.ref.key[s] <= Len(cards'[s])
  BY <1>1 DEF NamesOK, Exists, Moved, Board!Tables
<1>4. \A t \in saved' : \A s \in Story : t.status[s] = Board!Absent <=> status'[s] = Board!Absent
  <2> SUFFICES ASSUME NEW t \in saved', NEW s \in Story
               PROVE  t.status[s] = Board!Absent <=> status'[s] = Board!Absent
    OBVIOUS
  <2>1. t.status[s] = Board!Absent <=> status[s] = Board!Absent
    BY DEF NamesOK, Board!Tables
  <2> QED BY <2>1
<1>5. \A s \in Story : \A i \in 1 .. Len(cards'[s]) : cards'[s][i].epic <= epics'
  BY DEF NamesOK, Moved
<1>6. \A s \in Story : status'[s] = Board!Absent => cards'[s] = <<>>
  <2> SUFFICES ASSUME NEW s \in Story, status'[s] = Board!Absent
               PROVE  cards'[s] = <<>>
    OBVIOUS
  <2>1. cards[s] = <<>> /\ Len(cards'[s]) = 0 /\ cards'[s] \in Seq(CardOf)
    BY EmptySeq DEF NamesOK, Moved
  <2> QED BY <2>1, EmptySeq
<1>7. \A f \in flying' : f.issue <= Len(cards'[f.story])
  <2> SUFFICES ASSUME NEW f \in flying'
               PROVE  f.issue <= Len(cards'[f.story])
    OBVIOUS
  <2>1. CASE f.story \in Story /\ f.issue = Board!mine.key[f.story]
    BY <1>1, <2>1 DEF Exists, Moved
  <2>2. CASE f \in flying /\ f.story \in Story
    BY <2>2 DEF NamesOK, Moved
  <2> QED BY <2>1, <2>2 DEF CallsOK
<1> QED BY <1>2, <1>3, <1>4, <1>5, <1>6, <1>7 DEF NamesOK, Exists

\* A pass keeps to itself while it lasts: the others leave it and what it goes by alone.
LEMMA PassKept ==
    ASSUME PassOK, UNCHANGED <<at, todo, made, seen, held, job, saved, status, refs, lead>>
    PROVE  PassOK'
BY DEF PassOK, Board!mine

LEMMA PassRests ==
    ASSUME PassOK, at' = "rest", todo' \subseteq Story, made' \subseteq Story,
           seen' \in Column \cup {Board!None, "epic"},
           held' = {} => saved' = {}, \A j \in job' : j.op = "creating" => j.story \notin Board!mine'.sub
    PROVE  PassOK'
BY DEF PassOK

\* A step of the pass: nobody waits for a call meanwhile.
LEMMA PassGoes ==
    ASSUME PassOK, at # "rest", UNCHANGED <<held, job>>
    PROVE  held' = {} /\ job' = {}
BY DEF PassOK

LEMMA CreateEpicStep ==
    ASSUME Board!JiraAssumption, Board0, Board!CreateEpic
    PROVE  Board0'
<1> USE DEF Board0
<1>1. PICK answer \in Board!Answers :
          /\ Board!Answered(answer)
          /\ epics' = IF Board!Made(answer) THEN epics + 1 ELSE epics
          /\ refs' = IF answer = "ok" THEN [refs EXCEPT ![lead].epic = epics + 1] ELSE refs
  BY DEF Board!CreateEpic
<1>2. epics' \in Nat /\ epics <= epics' /\ mishaps' \in Nat /\ (answer = "ok" => epics' = epics + 1)
  BY <1>1, MishapCounts DEF BoardOK, Board!Made
<1>3. /\ refs' \in [Node -> Board!Reference]
      /\ \A n \in Node : /\ refs'[n].key = refs[n].key /\ refs'[n].sub = refs[n].sub
                         /\ refs'[n].epic = refs[n].epic \/ refs'[n].epic = epics'
  <2>1. CASE answer = "ok"
    <3>1. refs' = [refs EXCEPT ![lead].epic = epics'] /\ refs[lead] \in Board!Reference /\ lead \in Node
      BY <1>1, <1>2, <2>1 DEF BoardOK
    <3>2. [refs[lead] EXCEPT !.epic = epics'] \in Board!Reference
      BY <1>2, <3>1 DEF Board!Reference
    <3>3. refs' \in [Node -> Board!Reference]
      BY <3>1, <3>2 DEF BoardOK
    <3> QED BY <3>1, <3>3 DEF BoardOK, Board!Reference
  <2>2. CASE answer # "ok"
    BY <1>1, <2>2 DEF BoardOK
  <2> QED BY <2>1, <2>2
<1>4. UNCHANGED <<status, owned, saved, lead, cards, subs, at, todo, made, Board!calls, cuts, connector>> /\ seen' = "epic" /\ at = "issues"
  BY DEF Board!CreateEpic
<1>5. BoardOK' /\ CallsOK'
  BY <1>2, <1>3, <1>4 DEF BoardOK, CallsOK, Board!calls
<1>6. Board!mine'.key = Board!mine.key /\ Board!mine'.sub = Board!mine.sub
  BY <1>3, <1>4 DEF Board!mine, BoardOK
<1>7. PassOK'
  BY <1>4, <1>6 DEF PassOK, Board!calls
<1>8. NamesOK'
  <2>1. \A n \in Node : refs'[n].epic <= epics' /\ \A s \in Story : refs'[n].key[s] <= Len(cards'[s])
    <3> SUFFICES ASSUME NEW n \in Node
                 PROVE  refs'[n].epic <= epics' /\ \A s \in Story : refs'[n].key[s] <= Len(cards'[s])
      OBVIOUS
    <3>1. refs[n].epic \in Nat /\ epics \in Nat /\ refs[n].epic <= epics
            /\ \A s \in Story : refs[n].key[s] <= Len(cards[s])
      BY DEF BoardOK, Board!Reference, NamesOK, Exists
    <3>2. refs'[n].epic <= epics'
      BY <1>2, <1>3, <3>1
    <3> QED BY <1>3, <1>4, <3>1, <3>2
  <2>2. \A t \in saved' : t.ref.epic <= epics' /\ \A s \in Story : t.ref.key[s] <= Len(cards'[s])
    BY <1>2, <1>4 DEF NamesOK, Exists, BoardOK, SavedAs, Board!Reference
  <2>3. \A s \in Story : \A i \in 1 .. Len(cards'[s]) : cards'[s][i].epic <= epics'
    <3> SUFFICES ASSUME NEW s \in Story, NEW i \in 1 .. Len(cards'[s])
                 PROVE  cards'[s][i].epic <= epics'
      OBVIOUS
    <3>1. cards[s][i] \in CardOf /\ cards[s][i].epic <= epics
      BY <1>4, ElementOfSeq DEF BoardOK, NamesOK
    <3> QED BY <1>2, <1>4, <3>1 DEF CardOf, BoardOK
  <2> QED BY <1>4, <2>1, <2>2, <2>3 DEF NamesOK, Exists, Board!calls
<1> QED BY <1>5, <1>7, <1>8

LEMMA CreateIssueStep ==
    ASSUME Board!JiraAssumption, Board0, Board!CreateIssue
    PROVE  Board0'
<1> USE DEF Board0
<1> DEFINE s == Board!NextOf(todo)
<1>1. PICK answer \in Board!Answers :
          /\ Board!Answered(answer)
          /\ cards' = IF Board!Made(answer)
               THEN [cards EXCEPT ![s] = Append(@, Board!NewIssue(Board!mine.epic))] ELSE cards
          /\ refs' = IF answer = "ok" THEN [refs EXCEPT ![lead].key[s] = Len(cards[s]) + 1] ELSE refs
          /\ made' = IF answer = "ok" THEN made \cup {s} ELSE made
  BY DEF Board!CreateIssue
<1>2. /\ UNCHANGED <<status, owned, saved, lead, epics, subs, at, seen, Board!calls, connector, cuts>>
      /\ todo' = todo \ {s} /\ todo # {} /\ at = "issues"
  BY DEF Board!CreateIssue
<1>3. s \in todo /\ s \in Story /\ status[s] # Board!Absent
  BY <1>2, NextIn DEF PassOK
<1> HIDE DEF s
<1>4. Board!mine.epic \in Nat /\ Board!mine.epic <= epics /\ lead \in Node
  BY DEF NamesOK, Exists, BoardOK, Board!Reference, Board!mine
<1>5. Board!NewIssue(Board!mine.epic) \in CardOf /\ Board!NewIssue(Board!mine.epic).epic = Board!mine.epic
  BY <1>4 DEF Board!NewIssue, CardOf, Board!JiraAssumption
<1>6. /\ cards' \in [Story -> Seq(CardOf)]
      /\ \A t \in Story \ {s} : cards'[t] = cards[t]
      /\ cards'[s] = cards[s] \/ cards'[s] = Append(cards[s], Board!NewIssue(Board!mine.epic))
      /\ answer = "ok" => cards'[s] = Append(cards[s], Board!NewIssue(Board!mine.epic))
  BY <1>1, <1>3, <1>5, AppendProperties DEF BoardOK, Board!Made
<1>7. /\ \A t \in Story : Len(cards[t]) \in Nat /\ Len(cards[t]) <= Len(cards'[t])
      /\ answer = "ok" => Len(cards'[s]) = Len(cards[s]) + 1
      /\ \A t \in Story : \A i \in 1 .. Len(cards'[t]) : cards'[t][i].epic <= epics
  <2>1. \A t \in Story : Len(cards[t]) \in Nat
    BY LenProperties DEF BoardOK
  <2>2. cards[s] \in Seq(CardOf)
    BY <1>3 DEF BoardOK
  <2>3. CASE cards'[s] = cards[s]
    <3>1. Len(Append(cards[s], Board!NewIssue(Board!mine.epic))) = Len(cards[s]) + 1 /\ Len(cards[s]) \in Nat
      BY <1>3, <1>5, <2>1, <2>2, AppendProperties
    <3>2. answer # "ok"
      BY <1>6, <2>3, <3>1
    <3>3. \A t \in Story : cards'[t] = cards[t]
      BY <1>6, <2>3
    <3> QED BY <2>1, <3>2, <3>3 DEF NamesOK
  <2>4. CASE cards'[s] = Append(cards[s], Board!NewIssue(Board!mine.epic))
    <3>1. Len(cards'[s]) = Len(cards[s]) + 1
      BY <1>5, <2>2, <2>4, AppendProperties
    <3>2. \A i \in 1 .. Len(cards'[s]) : cards'[s][i].epic <= epics
      <4>1. \A i \in 1 .. Len(cards[s]) : cards'[s][i] = cards[s][i]
        BY <1>5, <2>2, <2>4, AppendProperties
      <4>2. cards'[s][Len(cards[s]) + 1] = Board!NewIssue(Board!mine.epic)
        BY <1>5, <2>2, <2>4, AppendProperties
      <4>3. \A i \in 1 .. Len(cards[s]) : cards[s][i].epic <= epics
        BY <1>3 DEF NamesOK
      <4>4. \A i \in 1 .. Len(cards'[s]) : i \in 1 .. Len(cards[s]) \/ i = Len(cards[s]) + 1
        <5> DEFINE n == Len(cards[s])
                   m == Len(cards'[s])
        <5>1. n \in Nat /\ m = n + 1
          BY <1>3, <2>1, <3>1
        <5> HIDE DEF n, m
        <5>2. \A i \in 1 .. m : i \in 1 .. n \/ i = n + 1
          BY <5>1
        <5> QED BY <5>2 DEF n, m
      <4> SUFFICES ASSUME NEW i \in 1 .. Len(cards'[s])
                   PROVE  cards'[s][i].epic <= epics
        OBVIOUS
      <4>5. CASE i \in 1 .. Len(cards[s])
        BY <4>1, <4>3, <4>5
      <4>6. CASE i = Len(cards[s]) + 1
        BY <1>4, <1>5, <4>2, <4>6
      <4> QED BY <4>4, <4>5, <4>6
    <3> QED BY <1>6, <2>1, <3>1, <3>2 DEF NamesOK
  <2> QED BY <1>6, <2>3, <2>4
<1>8. /\ refs' \in [Node -> Board!Reference]
      /\ \A n \in Node : /\ refs'[n].epic = refs[n].epic /\ refs'[n].sub = refs[n].sub
                         /\ \A t \in Story : \/ refs'[n].key[t] = refs[n].key[t]
                                             \/ answer = "ok" /\ t = s /\ n = lead
                                                  /\ refs'[n].key[t] = Len(cards[s]) + 1
  <2>1. CASE answer # "ok"
    BY <1>1, <2>1 DEF BoardOK
  <2>2. CASE answer = "ok"
    <3> DEFINE k == Len(cards[s]) + 1
               new == [refs[lead] EXCEPT !.key[s] = k]
    <3>1. k \in Nat /\ refs[lead] \in Board!Reference
      BY <1>3, <1>4, <1>7 DEF BoardOK
    <3>2. refs' = [refs EXCEPT ![lead] = new]
      BY <1>1, <2>2
    <3> HIDE DEF k
    <3>3. /\ new \in Board!Reference /\ new.epic = refs[lead].epic /\ new.sub = refs[lead].sub
          /\ \A t \in Story : new.key[t] = IF t = s THEN k ELSE refs[lead].key[t]
      BY <3>1, <1>3 DEF Board!Reference
    <3> HIDE DEF new
    <3>4. /\ refs' \in [Node -> Board!Reference] /\ refs'[lead] = new
          /\ \A n \in Node \ {lead} : refs'[n] = refs[n]
      BY <1>4, <3>2, <3>3 DEF BoardOK
    <3> QED BY <2>2, <3>3, <3>4 DEF k
  <2> QED BY <2>1, <2>2
<1>9. BoardOK' /\ CallsOK'
  BY <1>1, <1>2, <1>6, <1>8, MishapCounts DEF BoardOK, CallsOK, Board!calls
<1>10. PassOK'
  <2>1. \A t \in todo' : Board!mine'.key[t] = Board!mine.key[t]
    BY <1>2, <1>4, <1>8 DEF Board!mine, PassOK
  <2>2. made' \subseteq Story
    BY <1>1, <1>3 DEF PassOK
  <2> QED BY <1>2, <2>1, <2>2 DEF PassOK, Board!calls
<1>11. NamesOK'
  <2>1. \A n \in Node : refs'[n].epic <= epics' /\ \A t \in Story : refs'[n].key[t] <= Len(cards'[t])
    <3>1. \A n \in Node : \A t \in Story : refs[n].key[t] \in Nat /\ refs[n].key[t] <= Len(cards[t])
            /\ Len(cards'[t]) \in Nat
      BY <1>6, LenProperties DEF NamesOK, Exists, BoardOK, Board!Reference
    <3> QED BY <1>2, <1>7, <1>8, <3>1 DEF NamesOK, Exists
  <2>2. \A t \in saved' : t.ref.epic <= epics' /\ \A u \in Story : t.ref.key[u] <= Len(cards'[u])
    <3>1. \A t \in saved : \A u \in Story : t.ref.key[u] \in Nat /\ t.ref.key[u] <= Len(cards[u])
            /\ Len(cards'[u]) \in Nat
      BY <1>6, LenProperties DEF NamesOK, Exists, BoardOK, Board!Reference, SavedAs
    <3> QED BY <1>2, <1>7, <3>1 DEF NamesOK, Exists
  <2>3. \A u \in Story : status'[u] = Board!Absent => cards'[u] = <<>>
    BY <1>2, <1>3, <1>6 DEF NamesOK
  <2>4. \A f \in flying' : f.issue <= Len(cards'[f.story])
    <3>1. \A f \in flying : f.issue \in Nat /\ f.story \in Story /\ f.issue <= Len(cards[f.story])
            /\ Len(cards'[f.story]) \in Nat
      BY <1>6, LenProperties DEF NamesOK, CallsOK
    <3> QED BY <1>2, <1>7, <3>1 DEF Board!calls
  <2> QED BY <1>2, <1>7, <2>1, <2>2, <2>3, <2>4 DEF NamesOK, Exists
<1> QED BY <1>9, <1>10, <1>11

LEMMA BeginSyncStep ==
    ASSUME Board0, Board!BeginSync \/ Board!EndSync
    PROVE  Board0'
<1> USE DEF Board0
<1>1. UNCHANGED <<status, owned, refs, lead, Board!jira, Board!calls, connector, Board!counts>>
        /\ saved' \subseteq {Board!Tables}
  BY DEF Board!BeginSync, Board!EndSync
<1>2. Board!Tables \in SavedAs
  BY DEF Board!Tables, SavedAs, BoardOK, Board!mine
<1>3. BoardOK' /\ CallsOK'
  BY <1>1, <1>2 DEF BoardOK, CallsOK, Board!jira, Board!calls, Board!counts
<1>4. NamesOK'
  BY <1>1, NamesKept, NoneMoved DEF Board!jira, Board!calls
<1>5. CASE Board!BeginSync
  <2>1. at' = "issues" /\ todo' = Board!Unsynced /\ made' = {} /\ seen' = Board!None /\ held = {} /\ job = {}
    BY <1>5 DEF Board!BeginSync, Board!Enter, Board!Free
  <2> QED BY <1>1, <1>3, <1>4, <2>1 DEF PassOK, Board!Unsynced, Board!calls, Board!mine
<1>6. CASE Board!EndSync
  <2>1. at' = "rest" /\ todo' = {} /\ seen' = Board!None /\ saved' = {} /\ made' = made /\ at # "rest"
    BY <1>6 DEF Board!EndSync, Board!Enter
  <2> QED BY <1>1, <1>3, <1>4, <2>1 DEF PassOK, Board!calls, Board!mine
<1> QED BY <1>5, <1>6

LEMMA SprintStep ==
    ASSUME Board0, Board!MoveToSprint \/ Board!EndRepair
    PROVE  Board0'
<1> USE DEF Board0
<1>1. /\ UNCHANGED <<status, owned, saved, lead, epics, subs, Board!calls, connector, Board!counts>>
           /\ seen' = Board!None /\ at # "rest"
      /\ \/ at' = "repair" /\ todo' = Board!MissingSubtasks /\ made' = {}
         \/ at' = "pull" /\ todo' = Board!Linked /\ made' = made
  BY DEF Board!MoveToSprint, Board!EndRepair, Board!Enter
<1>2. /\ Moved /\ refs' \in [Node -> Board!Reference]
      /\ \A n \in Node : /\ refs'[n].epic = refs[n].epic
                         /\ refs'[n].key = refs[n].key /\ refs'[n].sub = refs[n].sub
  <2>1. Board!NotInSprint \in SUBSET Story /\ made \in SUBSET Story
    BY DEF Board!NotInSprint, PassOK
  <2>2. (\E S \in SUBSET Story : \E how : Board!InSprint(S, how)) \/ UNCHANGED <<refs, cards>>
    BY <2>1 DEF Board!MoveToSprint, Board!EndRepair
  <2>3. CASE UNCHANGED <<refs, cards>>
    BY <2>3, NoneMoved DEF BoardOK
  <2> QED BY <2>2, <2>3, SprintMoves
<1>3. BoardOK' /\ CallsOK'
  BY <1>1, <1>2 DEF BoardOK, CallsOK, Moved, Board!calls, Board!counts
<1>4. NamesOK'
  BY <1>1, <1>2, NamesKept DEF Board!calls
<1>5. Board!mine'.key = Board!mine.key /\ Board!mine'.sub = Board!mine.sub
  BY <1>1, <1>2 DEF Board!mine, BoardOK
<1>6. \A s \in todo' : s \in Story /\ Board!mine.key[s] # 0 /\ (at' = "repair" => s \notin Board!mine.sub)
  BY <1>1 DEF Board!MissingSubtasks, Board!Linked, BoardOK
<1>7. PassOK'
  BY <1>1, <1>5, <1>6 DEF PassOK, Board!calls
<1> QED BY <1>3, <1>4, <1>7

\* A subtask of the leader's is recorded.
LEMMA SubtaskRecorded ==
    ASSUME BoardOK, NEW s \in Story, refs' = refs \/ refs' = [refs EXCEPT ![lead].sub = @ \cup {s}]
    PROVE  /\ refs' \in [Node -> Board!Reference]
           /\ \A n \in Node : /\ refs'[n].epic = refs[n].epic /\ refs'[n].key = refs[n].key
                              /\ refs'[n].sub \in {refs[n].sub, refs[n].sub \cup {s}}
<1>1. CASE refs' = refs
  BY <1>1 DEF BoardOK
<1>2. CASE refs' = [refs EXCEPT ![lead].sub = @ \cup {s}]
  <2> DEFINE new == [refs[lead] EXCEPT !.sub = @ \cup {s}]
  <2>1. refs' = [refs EXCEPT ![lead] = new] /\ lead \in Node /\ refs[lead] \in Board!Reference
    BY <1>2 DEF BoardOK
  <2>2. new \in Board!Reference /\ new.epic = refs[lead].epic /\ new.key = refs[lead].key
          /\ new.sub = refs[lead].sub \cup {s}
    BY <2>1 DEF Board!Reference
  <2> HIDE DEF new
  <2> QED BY <2>1, <2>2 DEF BoardOK
<1> QED BY <1>1, <1>2

LEMMA RepairStep ==
    ASSUME Board0, Board!Repair
    PROVE  Board0'
<1> USE DEF Board0
<1> DEFINE s == Board!NextOf(todo)
<1>1. PICK answer \in Board!Answers, then \in Board!AnswersTo(status[s]) :
          /\ IF answer = "ok" THEN Board!Answered(then) ELSE then = "ok" /\ Board!Mishap
          /\ subs' = IF Board!Made(answer) THEN [subs EXCEPT ![s] = @ + 1] ELSE subs
          /\ refs' = IF answer = "ok" THEN [refs EXCEPT ![lead].sub = @ \cup {s}] ELSE refs
          /\ IF status[s] = "planned" THEN then = "ok" /\ UNCHANGED cards
                                      ELSE Board!Transition(s, Board!mine.key[s], status[s], then)
  BY DEF Board!Repair
<1>2. /\ UNCHANGED <<status, owned, saved, lead, epics, at, made, seen, Board!calls, connector, cuts>>
      /\ todo' = todo \ {s} /\ todo # {} /\ at = "repair"
  BY DEF Board!Repair
<1>3. s \in todo /\ s \in Story
  BY <1>2, NextIn DEF PassOK
<1> HIDE DEF s
<1>4. Moved /\ mishaps' \in Nat
  BY <1>1, MishapCounts, NoneMoved, TransitionMoves
<1>5. subs' \in [Story -> Nat]
  BY <1>1, <1>3 DEF BoardOK
<1>6. /\ refs' \in [Node -> Board!Reference]
      /\ \A n \in Node : /\ refs'[n].epic = refs[n].epic /\ refs'[n].key = refs[n].key
                         /\ refs'[n].sub \in {refs[n].sub, refs[n].sub \cup {s}}
  BY <1>1, <1>3, SubtaskRecorded
<1>7. BoardOK' /\ CallsOK'
  BY <1>2, <1>4, <1>5, <1>6 DEF BoardOK, CallsOK, Moved, Board!calls
<1>8. NamesOK'
  BY <1>2, <1>4, <1>6, NamesKept DEF Board!calls
<1>9. Board!mine'.key = Board!mine.key /\ Board!mine'.sub \in {Board!mine.sub, Board!mine.sub \cup {s}}
  BY <1>2, <1>6 DEF Board!mine, BoardOK
<1>10. PassOK'
  BY <1>2, <1>9 DEF PassOK, Board!calls
<1> QED BY <1>7, <1>8, <1>10

\* An issue that a story refers to has a column.
LEMMA CardIsThere ==
    ASSUME BoardOK, NamesOK, NEW s \in Story, Board!mine.key[s] # 0
    PROVE  Board!Card(s) \in CardOf
<1>1. Board!mine.key[s] \in Nat /\ Board!mine.key[s] <= Len(cards[s]) /\ cards[s] \in Seq(CardOf)
        /\ Len(cards[s]) \in Nat
  BY LenProperties DEF BoardOK, NamesOK, Exists, Board!mine, Board!Reference
<1>2. Board!mine.key[s] \in 1 .. Len(cards[s])
  BY <1>1
<1> QED BY <1>1, <1>2, ElementOfSeq DEF Board!Card

LEMMA PullStep ==
    ASSUME Board!JiraAssumption, Board0, Board!Pull
    PROVE  Board0'
<1> USE DEF Board0
<1> DEFINE s == Board!NextOf(todo)
<1>1. /\ UNCHANGED <<owned, refs, saved, lead, Board!jira, at, made, seen, Board!calls, connector, cuts>>
      /\ todo' = todo \ {s} /\ todo # {} /\ at = "pull"
      /\ \/ status' = [status EXCEPT ![s] = Board!Pulled(status[s], Means[Board!Card(s).col])]
              /\ UNCHANGED mishaps
         \/ Board!Mishap /\ UNCHANGED status
  BY DEF Board!Pull
<1>2. s \in todo /\ s \in Story
  BY <1>1, NextIn DEF PassOK
<1> HIDE DEF s
<1>3. status[s] # Board!Absent /\ Means[Board!Card(s).col] \in DOMAIN Board!Place
  <2>1. Board!mine.key[s] # 0 /\ Board!mine.key[s] \in Nat
    BY <1>1, <1>2 DEF PassOK, BoardOK, Board!Reference, Board!mine
  <2>2. Board!mine.key[s] <= Len(cards[s])
    BY <1>2 DEF NamesOK, Exists, BoardOK, Board!mine
  <2>3. cards[s] # <<>>
    BY <2>1, <2>2, EmptySeq
  <2> QED BY <1>2, <2>1, <2>3, CardIsThere DEF NamesOK, CardOf, Board!JiraAssumption
<1>4. "absent" \notin DOMAIN Board!Place
  BY DEF Board!Place
<1>5. /\ status' \in [Story -> Board!Status] /\ mishaps' \in Nat
      /\ \A t \in Story : status'[t] = Board!Absent <=> status[t] = Board!Absent
  <2>1. Board!Pulled(status[s], Means[Board!Card(s).col]) \in {status[s], Means[Board!Card(s).col]}
    BY DEF Board!Pulled
  <2>2. Board!Pulled(status[s], Means[Board!Card(s).col]) \in Board!Status \ {Board!Absent}
    BY <1>2, <1>3, <1>4, <2>1 DEF Board!Status, Board!Absent, BoardOK
  <2> QED BY <1>1, <1>2, <1>3, <2>2, MishapCounts DEF BoardOK
<1>6. BoardOK' /\ CallsOK'
  BY <1>1, <1>5 DEF BoardOK, CallsOK, Board!jira, Board!calls
<1>7. NamesOK'
  BY <1>1, <1>5, NamesKept, NoneMoved DEF Board!jira, Board!calls
<1>8. PassOK'
  BY <1>1 DEF PassOK, Board!calls, Board!mine
<1> QED BY <1>6, <1>7, <1>8

LEMMA PushStep ==
    ASSUME Board0, Board!EndPull \/ Board!Look \/ Board!Push
    PROVE  Board0'
<1> USE DEF Board0
<1>1. UNCHANGED <<Board!local, lead, epics, subs, made, Board!calls, connector, cuts>> /\ at' = "push"
        /\ at \in {"pull", "push"}
  BY DEF Board!EndPull, Board!Look, Board!Push, Board!Enter, Board!jira, Board!counts
<1>2. CASE Board!EndPull
  <2>1. todo' = Board!Linked /\ seen' = Board!None /\ UNCHANGED <<cards, mishaps>>
    BY <1>2 DEF Board!EndPull, Board!Enter, Board!jira, Board!counts
  <2>2. PassOK'
    BY <1>1, <2>1 DEF PassOK, Board!Linked, Board!mine, Board!local, Board!calls
  <2> QED BY <1>1, <2>1, <2>2, NamesKept, NoneMoved DEF BoardOK, CallsOK, Board!local, Board!calls
<1>3. CASE Board!Look \/ Board!Push
  <2> DEFINE s == Board!NextOf(todo)
  <2>1. at = "push" /\ todo # {}
    BY <1>3 DEF Board!Look, Board!Push, PassOK
  <2>2. s \in todo /\ s \in Story
    BY <2>1, NextIn DEF PassOK
  <2>3. Moved /\ mishaps' \in Nat
    <3>1. CASE Board!Look
      BY <3>1, NoneMoved, MishapCounts DEF Board!Look, Board!jira, BoardOK
    <3>2. CASE Board!Push
      BY <3>2, TransitionMoves, MishapCounts DEF Board!Push
    <3> QED BY <1>3, <3>1, <3>2
  <2>4. /\ todo' \in {todo, todo \ {s}} /\ seen' \in Column \cup {Board!None, "epic"}
        /\ seen' # Board!None => todo' # {}
    <3>1. Board!Card(s).col \in Column
      BY <2>1, <2>2, CardIsThere DEF PassOK, CardOf
    <3> QED BY <1>3, <2>1, <2>2, <3>1 DEF Board!Look, Board!Push, PassOK
  <2> HIDE DEF s
  <2>5. BoardOK' /\ CallsOK' /\ NamesOK'
    BY <1>1, <2>3, NamesKept DEF BoardOK, CallsOK, Moved, Board!local, Board!calls
  <2>6. PassOK'
    BY <1>1, <2>1, <2>4 DEF PassOK, Board!mine, Board!local, Board!calls
  <2> QED BY <2>5, <2>6
<1> QED BY <1>2, <1>3

LEMMA SyncStep == ASSUME Board!JiraAssumption, Board0, Board!Sync PROVE Board0'
BY BeginSyncStep, CreateEpicStep, CreateIssueStep, SprintStep, RepairStep, PullStep, PushStep DEF Board!Sync

\* With the lock free the file holds what the tables say.
LEMMA LockFree == ASSUME PassOK, Board!Free PROVE at = "rest" /\ held = {} /\ job = {} /\ saved = {}
BY DEF PassOK, Board!Free

LEMMA AssignmentStep ==
    ASSUME Board0, Board!Assignment
    PROVE  Board0'
<1> USE DEF Board0
<1>1. CASE Board!Assign
  <2>1. PICK s \in Story, waits \in BOOLEAN :
            /\ status[s] = "planned"
            /\ status' = [status EXCEPT ![s] = "in_progress"] /\ owned' = owned \cup {s}
            /\ job' = {[story |-> s, op |-> "subtask", waits |-> waits]}
    BY <1>1 DEF Board!Assign
  <2>2. UNCHANGED <<refs, saved, lead, Board!jira, Board!pass, held, late, flying, connector, Board!counts>> /\ Board!Free
    BY <1>1 DEF Board!Assign
  <2>3. status' \in [Story -> Board!Status]
          /\ \A t \in Story : status'[t] = Board!Absent <=> status[t] = Board!Absent
    <3>1. "in_progress" \in Board!Status /\ "planned" # "absent" /\ "in_progress" # "absent"
      BY DEF Board!Status, Board!Place
    <3> QED BY <2>1, <3>1 DEF BoardOK, Board!Absent
  <2>4. BoardOK' /\ CallsOK'
    BY <2>1, <2>2, <2>3 DEF BoardOK, CallsOK, Board!jira, Board!counts
  <2>5. NamesOK'
    BY <2>2, <2>3, NamesKept, NoneMoved DEF Board!jira
  <2>6. PassOK'
    BY <2>1, <2>2, LockFree, PassRests DEF Board!pass, PassOK
  <2> QED BY <2>4, <2>5, <2>6
<1>2. CASE Board!handleJiraAfterAssignment
  <2>1. PICK j \in job : /\ job' \subseteq {[j EXCEPT !.op = "move"], [j EXCEPT !.op = "creating"]}
                         /\ j.story \in Board!mine.sub => job' = {[j EXCEPT !.op = "move"]}
                         /\ connector' \in {connector, Board!getConnector}
    BY <1>2 DEF Board!handleJiraAfterAssignment
  <2>2. UNCHANGED <<Board!local, lead, Board!jira, Board!pass, held, late, flying, Board!counts>>
    BY <1>2 DEF Board!handleJiraAfterAssignment
  <2>3. at = "rest" /\ j \in [story : Story, op : {"subtask", "creating", "move"}, waits : BOOLEAN]
    BY <2>1 DEF PassOK, CallsOK
  <2>4. BoardOK' /\ CallsOK'
    <3>1. connector' \in {Board!None, "good", "spent"}
      BY <2>1 DEF CallsOK, Board!getConnector
    <3>2. \A k \in job' : k \in [story : Story, op : {"subtask", "creating", "move"}, waits : BOOLEAN]
      BY <2>1, <2>3
    <3> QED BY <2>2, <3>1, <3>2 DEF BoardOK, CallsOK, Board!local, Board!jira, Board!counts
  <2>5. NamesOK'
    BY <2>2, NamesKept, NoneMoved DEF Board!jira, Board!local
  <2>6. \A k \in job' : k.op = "creating" => k.story \notin Board!mine'.sub
    BY <2>1, <2>2, <2>3 DEF Board!mine, Board!local
  <2>7. PassOK'
    BY <2>2, <2>3, <2>6, PassRests DEF Board!pass, Board!local, PassOK
  <2> QED BY <2>4, <2>5, <2>7
<1>3. CASE Board!SubtaskAnswer
  <2>1. PICK j \in job, answer \in Board!Answers :
            /\ j.op = "creating" /\ job' = {[j EXCEPT !.op = "move"]}
            /\ UNCHANGED mishaps \/ Board!Answered(answer)
            /\ subs' = IF Board!Made(answer) THEN [subs EXCEPT ![j.story] = @ + 1] ELSE subs
            /\ refs' = IF answer = "ok" THEN [refs EXCEPT ![lead].sub = @ \cup {j.story}] ELSE refs
    BY <1>3 DEF Board!SubtaskAnswer, Board!Answers
  <2>2. UNCHANGED <<status, owned, saved, lead, cards, epics, Board!pass, held, late, flying, connector, cuts>>
    BY <1>3 DEF Board!SubtaskAnswer
  <2>3. at = "rest" /\ j \in [story : Story, op : {"subtask", "creating", "move"}, waits : BOOLEAN]
          /\ j.story \in Story
    BY <2>1 DEF PassOK, CallsOK
  <2>4. /\ refs' \in [Node -> Board!Reference]
        /\ \A n \in Node : refs'[n].epic = refs[n].epic /\ refs'[n].key = refs[n].key
    BY <2>1, <2>3, SubtaskRecorded
  <2>5. mishaps' \in Nat /\ subs' \in [Story -> Nat]
    BY <2>1, <2>3, MishapCounts DEF BoardOK
  <2>6. BoardOK' /\ CallsOK'
    BY <2>1, <2>2, <2>3, <2>4, <2>5 DEF BoardOK, CallsOK
  <2>7. NamesOK'
    BY <2>2, <2>4, NamesKept, NoneMoved
  <2>8. PassOK'
    BY <2>1, <2>2, <2>3, PassRests DEF Board!pass, PassOK
  <2> QED BY <2>6, <2>7, <2>8
<1>4. CASE Board!AssignmentShown \/ Board!EndEarly
  <2>1. UNCHANGED <<Board!local, lead, epics, subs, Board!pass, held, flying, connector, cuts>>
          /\ job' = {} /\ late' \subseteq Story
    BY <1>4 DEF Board!AssignmentShown, Board!EndEarly, Board!jira, Board!counts, CallsOK
  <2>2. Moved /\ mishaps' \in Nat
    <3>1. CASE Board!AssignmentShown
      BY <3>1, TransitionMoves, NoneMoved, MishapCounts DEF Board!AssignmentShown, BoardOK
    <3>2. CASE Board!EndEarly
      BY <3>2, NoneMoved DEF Board!EndEarly, Board!jira, Board!counts, BoardOK
    <3> QED BY <1>4, <3>1, <3>2
  <2>3. BoardOK' /\ CallsOK' /\ NamesOK'
    BY <2>1, <2>2, NamesKept DEF BoardOK, CallsOK, Moved, Board!local
  <2>4. at = "rest"
    BY <1>4 DEF Board!AssignmentShown, Board!EndEarly, PassOK
  <2>5. PassOK'
    BY <2>1, <2>4, PassRests DEF Board!pass, Board!local, PassOK
  <2> QED BY <2>3, <2>5
<1> QED BY <1>1, <1>2, <1>3, <1>4 DEF Board!Assignment

LEMMA LateStep ==
    ASSUME Board0, Board!LateCalls
    PROVE  Board0'
<1> USE DEF Board0
<1>1. CASE Board!LateSubtask
  <2>1. /\ UNCHANGED <<Board!local, lead, cards, epics, Board!pass, held, job, flying, connector, mishaps>> /\ late' \subseteq late
        /\ subs' \in [Story -> Nat] /\ cuts' \in Nat
    <3>1. PICK s \in late : \/ subs' = [subs EXCEPT ![s] = @ + 1] /\ cuts' = cuts + 1
                            \/ UNCHANGED <<subs, cuts>>
      BY <1>1 DEF Board!LateSubtask
    <3>2. subs' \in [Story -> Nat] /\ cuts' \in Nat
      BY <3>1 DEF BoardOK
    <3> QED BY <1>1, <3>2 DEF Board!LateSubtask
  <2>2. BoardOK' /\ CallsOK' /\ NamesOK'
    BY <2>1, NamesKept, NoneMoved DEF BoardOK, CallsOK, Board!local
  <2> QED BY <2>1, <2>2, PassKept DEF Board!local, Board!pass
<1>2. CASE Board!ChangeShown
  <2>1. /\ UNCHANGED <<status, owned, refs, lead, epics, subs, Board!pass, job, late, flying, connector, cuts>>
        /\ held' = {} /\ saved' = {}
    BY <1>2 DEF Board!ChangeShown
  <2>2. Moved /\ mishaps' \in Nat
    BY <1>2, TransitionMoves, MishapCounts DEF Board!ChangeShown
  <2>3. BoardOK' /\ CallsOK' /\ NamesOK'
    BY <2>1, <2>2, NamesKept DEF BoardOK, CallsOK, Moved
  <2>4. at = "rest"
    BY <1>2 DEF Board!ChangeShown, PassOK
  <2> QED BY <2>1, <2>3, <2>4, PassRests DEF Board!pass, PassOK, Board!mine
<1>3. CASE Board!Land
  <2>1. /\ UNCHANGED <<Board!local, lead, epics, subs, Board!pass, held, job, late, connector, Board!counts>> /\ flying' \subseteq flying
    BY <1>3 DEF Board!Land
  <2>2. Moved
    BY <1>3, TransitionMoves DEF Board!Land
  <2>3. BoardOK' /\ CallsOK' /\ NamesOK'
    BY <2>1, <2>2, NamesKept DEF BoardOK, CallsOK, Moved, Board!local, Board!counts
  <2> QED BY <2>1, <2>3, PassKept DEF Board!local, Board!pass
<1> QED BY <1>1, <1>2, <1>3 DEF Board!LateCalls

\* A command, or a step of the check, changes the status of a story that exists.
LEMMA CommandStep ==
    ASSUME Board0, Board!Change \/ Board!Recover \/ Board!Merge \/ Board!StoryInserted
    PROVE  Board0'
<1> USE DEF Board0
<1>1. Board!Free /\ UNCHANGED <<refs, lead, Board!jira, Board!pass, job, late, connector, mishaps, cuts>>
  BY DEF Board!Change, Board!Recover, Board!Merge, Board!StoryInserted, Board!calls, Board!counts
<1>2. at = "rest" /\ held = {} /\ job = {} /\ saved = {}
  BY <1>1, LockFree
<1>3. /\ {"estimated", "planned", "in_progress", "review", "qa_failed", "pr_submitted", "merged"} \subseteq DOMAIN Board!Place
      /\ "absent" \notin DOMAIN Board!Place
  BY DEF Board!Place
<1>4. PICK s \in Story, to \in DOMAIN Board!Place : status' = [status EXCEPT ![s] = to]
                                              /\ (Board!Change => status[s] # Board!Absent)
  <2>1. CASE Board!Change
    <3>1. PICK s \in Story, to \in {m[2] : m \in Board!Waited} : <<status[s], to>> \in Board!Waited
            /\ status' = [status EXCEPT ![s] = to]
      BY <2>1 DEF Board!Change
    <3>2. to \in DOMAIN Board!Place /\ status[s] \in DOMAIN Board!Place
      BY <1>3, <3>1 DEF Board!Waited
    <3> QED BY <1>3, <3>1, <3>2 DEF Board!Absent
  <2>2. CASE ~Board!Change
    BY <1>3, <2>2 DEF Board!Recover, Board!Merge, Board!StoryInserted
  <2> QED BY <2>1, <2>2
<1>5. status' \in [Story -> Board!Status] /\ \A t \in Story : status'[t] = Board!Absent
        => status[t] = Board!Absent
  BY <1>3, <1>4 DEF BoardOK, Board!Status, Board!Absent
<1>6. owned' \subseteq Story
  <2>1. CASE Board!Change
    BY <2>1 DEF Board!Change, BoardOK
  <2>2. CASE ~Board!Change
    BY <2>2 DEF Board!Recover, Board!Merge, Board!StoryInserted, BoardOK
  <2> QED BY <2>1, <2>2
<1>7. saved' \subseteq {Board!Tables} /\ (saved' # {} => Board!Change) /\ (held' = {} => saved' = {})
  <2>1. CASE Board!Change
    BY <2>1 DEF Board!Change
  <2>2. CASE ~Board!Change
    BY <1>2, <2>2 DEF Board!Recover, Board!Merge, Board!StoryInserted
  <2> QED BY <2>1, <2>2
<1>8. Board!Tables \in SavedAs /\ Board!mine \in Board!Reference
  BY DEF Board!Tables, SavedAs, BoardOK, Board!mine
<1>9. held' \subseteq [story : Story, status : Board!Status]
  <2>1. CASE Board!Change
    <3>1. {m[2] : m \in Board!Waited} \subseteq Board!Status
      BY <1>3 DEF Board!Waited, Board!Status
    <3>2. \E s1 \in Story, to1 \in {m[2] : m \in Board!Waited} : held' \subseteq {[story |-> s1, status |-> to1]}
      BY <2>1 DEF Board!Change
    <3> QED BY <3>1, <3>2
  <2>2. CASE ~Board!Change
    BY <2>2 DEF Board!Recover, Board!Merge, Board!StoryInserted, Board!calls, CallsOK
  <2> QED BY <2>1, <2>2
<1>10. \A f \in flying' : \/ f \in flying
                          \/ f \in [story : Story, issue : Nat, status : Board!Status]
                               /\ f.issue = Board!mine.key[f.story]
  <2>1. ASSUME NEW s1 \in Story, NEW st \in {"planned", "merged"}, Board!Unwaited(s1, st)
        PROVE  \A f \in flying' : \/ f \in flying
                                  \/ f \in [story : Story, issue : Nat, status : Board!Status]
                                       /\ f.issue = Board!mine.key[f.story]
    <3>1. Board!mine.key[s1] \in Nat /\ st \in Board!Status
      BY <1>3, <1>8 DEF Board!Reference, Board!Status
    <3> QED BY <2>1, <3>1 DEF Board!Unwaited
  <2>2. CASE Board!Change \/ Board!StoryInserted
    BY <2>2 DEF Board!Change, Board!StoryInserted, Board!calls
  <2> QED BY <2>1, <2>2 DEF Board!Recover, Board!Merge
<1>11. BoardOK' /\ CallsOK'
  BY <1>1, <1>5, <1>6, <1>7, <1>8, <1>9, <1>10 DEF BoardOK, CallsOK, Board!jira
<1>12. saved' = {} \/ \A t \in Story : status[t] = Board!Absent => status'[t] = Board!Absent
  BY <1>4, <1>7 DEF BoardOK
<1>13. NamesOK'
  BY <1>1, <1>5, <1>7, <1>10, <1>12, NamesKept, NoneMoved DEF Board!jira
<1>14. PassOK'
  BY <1>1, <1>2, <1>7, PassRests DEF Board!pass, PassOK
<1> QED BY <1>11, <1>13, <1>14

\* The first issue of a story: there was none.
LEMMA StoryCreatedStep ==
    ASSUME Board!JiraAssumption, Board0, Board!StoryCreated
    PROVE  Board0'
<1> USE DEF Board0
<1>1. PICK s \in Story, st \in {"draft", "estimated"}, answer \in Board!Answers, how \in Sprints \cup {"none"} :
          /\ status[s] = Board!Absent /\ status' = [status EXCEPT ![s] = st] /\ Board!Answered(answer)
          /\ how # "none" => answer = "ok"
          /\ cards' = IF Board!Made(answer)
                      THEN [cards EXCEPT ![s] = <<[Board!NewIssue(Board!mine.epic) EXCEPT !.sprint = how = "moved"]>>]
                      ELSE cards
          /\ refs' = IF answer # "ok" THEN refs
                     ELSE [refs EXCEPT ![lead].key[s] = 1,
                                       ![lead].sprint = IF how = "none" THEN @ ELSE @ \cup {s}]
  BY DEF Board!StoryCreated
<1>2. Board!Free /\ UNCHANGED <<owned, saved, lead, epics, subs, Board!pass, Board!calls, connector, cuts>>
  BY DEF Board!StoryCreated
<1>3. at = "rest" /\ held = {} /\ job = {} /\ saved = {} /\ saved' = {}
  BY <1>2, LockFree
<1>4. Board!mine.epic \in Nat /\ Board!mine.epic <= epics /\ lead \in Node /\ refs[lead] \in Board!Reference
  BY DEF NamesOK, Exists, BoardOK, Board!Reference, Board!mine
<1>5. [Board!NewIssue(Board!mine.epic) EXCEPT !.sprint = how = "moved"] \in CardOf
      /\ [Board!NewIssue(Board!mine.epic) EXCEPT !.sprint = how = "moved"].epic = Board!mine.epic
  <2> DEFINE b == how = "moved"
  <2>1. b \in BOOLEAN
    OBVIOUS
  <2> HIDE DEF b
  <2> QED BY <1>4, <2>1 DEF Board!NewIssue, CardOf, Board!JiraAssumption
<1> DEFINE new == [Board!NewIssue(Board!mine.epic) EXCEPT !.sprint = how = "moved"]
<1> HIDE DEF new
<1>6. <<new>> \in Seq(CardOf) /\ Len(<<new>>) = 1 /\ <<new>>[1] = new /\ cards[s] = <<>> /\ Len(cards[s]) = 0
  BY <1>1, <1>5, EmptySeq DEF new, NamesOK
<1>7. /\ cards' \in [Story -> Seq(CardOf)]
      /\ \A t \in Story \ {s} : cards'[t] = cards[t]
      /\ cards'[s] \in {cards[s], <<new>>}
      /\ answer = "ok" => cards'[s] = <<new>>
  BY <1>1, <1>6 DEF new, BoardOK, Board!Made
<1>8. /\ refs' \in [Node -> Board!Reference]
      /\ \A n \in Node : /\ refs'[n].epic = refs[n].epic /\ refs'[n].sub = refs[n].sub
                         /\ \A t \in Story : \/ refs'[n].key[t] = refs[n].key[t]
                                             \/ answer = "ok" /\ t = s /\ refs'[n].key[t] = 1
  <2>1. CASE answer # "ok"
    BY <1>1, <2>1 DEF BoardOK
  <2>2. CASE answer = "ok"
    <3> DEFINE sp == IF how = "none" THEN refs[lead].sprint ELSE refs[lead].sprint \cup {s}
               r == [refs[lead] EXCEPT !.key[s] = 1, !.sprint = sp]
    <3>1. sp \in SUBSET Story
      BY <1>4 DEF Board!Reference
    <3>2. refs' = [refs EXCEPT ![lead] = r]
      BY <1>1, <2>2
    <3> HIDE DEF sp
    <3>3. /\ r \in Board!Reference /\ r.epic = refs[lead].epic /\ r.sub = refs[lead].sub
          /\ \A t \in Story : r.key[t] = IF t = s THEN 1 ELSE refs[lead].key[t]
      BY <1>4, <3>1 DEF Board!Reference
    <3> HIDE DEF r
    <3> QED BY <1>4, <2>2, <3>2, <3>3 DEF BoardOK
  <2> QED BY <2>1, <2>2
<1>9. status' \in [Story -> Board!Status] /\ \A t \in Story : status'[t] = Board!Absent
        => status[t] = Board!Absent /\ t # s
  <2>1. st \in DOMAIN Board!Place /\ st # "absent"
    BY DEF Board!Place
  <2> QED BY <1>1, <2>1 DEF BoardOK, Board!Status, Board!Absent
<1>10. BoardOK' /\ CallsOK'
  BY <1>1, <1>2, <1>7, <1>8, <1>9, MishapCounts DEF BoardOK, CallsOK, Board!calls
<1>11. PassOK'
  BY <1>2, <1>3, PassRests DEF Board!pass, Board!calls, PassOK
<1>12. NamesOK'
  <2>1. /\ \A t \in Story : Len(cards[t]) \in Nat /\ Len(cards[t]) <= Len(cards'[t])
        /\ \A t \in Story : \A i \in 1 .. Len(cards'[t]) : cards'[t][i].epic <= epics
    <3>1. \A t \in Story : Len(cards[t]) \in Nat
      BY LenProperties DEF BoardOK
    <3>2. Len(cards[s]) <= Len(cards'[s]) /\ \A i \in 1 .. Len(cards'[s]) : cards'[s][i].epic <= epics
      <4>1. CASE cards'[s] = cards[s]
        BY <1>6, <4>1
      <4>2. CASE cards'[s] = <<new>>
        <5>1. Len(cards'[s]) = 1 /\ cards'[s][1] = new /\ new.epic <= epics
          BY <1>4, <1>5, <1>6, <4>2 DEF new
        <5> QED BY <1>6, <5>1
      <4> QED BY <1>7, <4>1, <4>2
    <3>3. ASSUME NEW t \in Story
          PROVE  Len(cards[t]) <= Len(cards'[t]) /\ \A i \in 1 .. Len(cards'[t]) : cards'[t][i].epic <= epics
      <4>1. CASE t = s
        BY <3>2, <4>1
      <4>2. CASE t # s
        <5>1. cards'[t] = cards[t]
          BY <1>7, <4>2
        <5> QED BY <3>1, <5>1 DEF NamesOK
      <4> QED BY <4>1, <4>2
    <3> QED BY <3>1, <3>3
  <2>2. \A n \in Node : refs'[n].epic <= epics' /\ \A t \in Story : refs'[n].key[t] <= Len(cards'[t])
    <3> SUFFICES ASSUME NEW n \in Node
                 PROVE  refs'[n].epic <= epics' /\ \A t \in Story : refs'[n].key[t] <= Len(cards'[t])
      OBVIOUS
    <3>1. refs[n].epic <= epics /\ \A t \in Story : refs[n].key[t] \in Nat /\ refs[n].key[t] <= Len(cards[t])
      BY DEF NamesOK, Exists, BoardOK, Board!Reference
    <3>2. \A t \in Story : Len(cards'[t]) \in Nat
      BY <1>7, LenProperties
    <3>3. answer = "ok" => Len(cards'[s]) = 1
      BY <1>6, <1>7
    <3>4. ASSUME NEW t \in Story
          PROVE  refs'[n].key[t] <= Len(cards'[t])
      <4>1. CASE refs'[n].key[t] = refs[n].key[t]
        <5>1. Len(cards[t]) \in Nat /\ Len(cards[t]) <= Len(cards'[t]) /\ Len(cards'[t]) \in Nat
          BY <2>1, <3>2
        <5> QED BY <3>1, <4>1, <5>1
      <4>2. CASE answer = "ok" /\ t = s /\ refs'[n].key[t] = 1
        <5>1. Len(cards'[t]) = 1 /\ 1 <= 1
          BY <3>3, <4>2
        <5> QED BY <4>2, <5>1
      <4> QED BY <1>8, <4>1, <4>2
    <3> QED BY <1>2, <1>8, <3>1, <3>4
  <2>3. \A t \in Story : status'[t] = Board!Absent => cards'[t] = <<>>
    BY <1>7, <1>9 DEF NamesOK
  <2>4. \A f \in flying' : f.issue <= Len(cards'[f.story])
    <3>1. \A f \in flying : f.issue \in Nat /\ f.story \in Story /\ f.issue <= Len(cards[f.story])
            /\ Len(cards'[f.story]) \in Nat
      BY <1>7, LenProperties DEF NamesOK, CallsOK
    <3> QED BY <1>2, <2>1, <3>1 DEF Board!calls
  <2> QED BY <1>2, <1>3, <2>1, <2>2, <2>3, <2>4 DEF NamesOK, Exists
<1> QED BY <1>10, <1>11, <1>12

LEMMA DragMoves == ASSUME BoardOK, Board!Drag PROVE Moved
<1>1. PICK s \in Story, c \in Column : cards' = [cards EXCEPT ![s][Board!mine.key[s]].col = c]
  BY DEF Board!Drag
<1> DEFINE n == Board!mine.key[s]
<1>2. \A t \in Story : cards[t] \in Seq(CardOf) /\ (cards'[t] = cards[t]
        \/ cards'[t] = [cards[t] EXCEPT ![n].col = c])
  BY <1>1 DEF BoardOK
<1>3. DOMAIN cards' = Story /\ cards' = [t \in Story |-> cards'[t]]
  BY <1>1 DEF BoardOK
<1> HIDE DEF n
<1>4. ASSUME NEW t \in Story
      PROVE  /\ cards'[t] \in Seq(CardOf) /\ Len(cards'[t]) = Len(cards[t])
             /\ \A i \in 1 .. Len(cards[t]) : cards'[t][i].epic = cards[t][i].epic
  <2>1. cards[t] \in Seq(CardOf) /\ (cards'[t] = cards[t] \/ cards'[t] = [cards[t] EXCEPT ![n].col = c])
    BY <1>2
  <2> QED BY <2>1, OneMoved
<1> QED BY <1>3, <1>4 DEF Moved

LEMMA OthersStep ==
    ASSUME Board0, Board!Drag \/ Board!Refresh \/ Board!Crash \/ Board!LeaderMoves \/ UNCHANGED Board!vars
    PROVE  Board0'
<1> USE DEF Board0
<1>1. CASE Board!Drag
  <2>1. UNCHANGED <<Board!local, lead, epics, subs, Board!pass, Board!calls, connector, mishaps, cuts>>
    BY <1>1 DEF Board!Drag
  <2>2. Moved
    BY <1>1, DragMoves
  <2>3. BoardOK' /\ CallsOK' /\ NamesOK'
    BY <2>1, <2>2, NamesKept DEF BoardOK, CallsOK, Moved, Board!local, Board!calls
  <2> QED BY <2>1, <2>3, PassKept DEF Board!local, Board!pass, Board!calls
<1>2. CASE Board!Refresh
  <2>1. UNCHANGED <<Board!local, lead, Board!jira, Board!pass, Board!calls, Board!counts>>
          /\ connector' = "spent"
    BY <1>2 DEF Board!Refresh
  <2>2. BoardOK' /\ CallsOK' /\ NamesOK'
    BY <2>1, NamesKept, NoneMoved DEF BoardOK, CallsOK, Board!local, Board!jira, Board!calls, Board!counts
  <2> QED BY <2>1, <2>2, PassKept DEF Board!local, Board!pass, Board!calls
<1>3. CASE Board!Crash
  <2>1. /\ UNCHANGED <<lead, Board!jira, late, flying, cuts>> /\ saved' = {} /\ held' = {} /\ job' = {}
        /\ at' = "rest" /\ todo' = {} /\ seen' = Board!None /\ made' = {}
             /\ connector' \in {connector, Board!None}
        /\ mishaps' \in Nat
    BY <1>3, MishapCounts DEF Board!Crash, Board!Enter
  <2>2. CASE saved = {}
    <3>1. UNCHANGED <<status, owned, refs>>
      BY <1>3, <2>2 DEF Board!Crash
    <3>2. BoardOK' /\ CallsOK' /\ NamesOK'
      BY <2>1, <3>1, NamesKept, NoneMoved DEF BoardOK, CallsOK, Board!jira
    <3> QED BY <2>1, <3>2, PassRests
  <2>3. CASE saved # {}
    <3>1. PICK t \in saved : status' = t.status /\ owned' = t.owned /\ refs' = [refs EXCEPT ![lead] = t.ref]
      BY <1>3, <2>3 DEF Board!Crash
    <3>2. t \in SavedAs /\ t.ref \in Board!Reference /\ lead \in Node /\ Exists(t.ref)
      BY <3>1 DEF BoardOK, SavedAs, NamesOK
    <3>3. /\ refs' \in [Node -> Board!Reference]
          /\ \A n \in Node : refs'[n] = IF n = lead THEN t.ref ELSE refs[n]
      BY <3>1, <3>2 DEF BoardOK
    <3>4. BoardOK' /\ CallsOK'
      BY <2>1, <3>1, <3>2, <3>3 DEF BoardOK, CallsOK, SavedAs, Board!jira
    <3>5. \A s \in Story : status'[s] = Board!Absent <=> status[s] = Board!Absent
      BY <3>1 DEF NamesOK
    <3>6. NamesOK'
      BY <2>1, <3>2, <3>3, <3>5 DEF NamesOK, Exists, Board!jira
    <3> QED BY <2>1, <3>4, <3>6, PassRests
  <2> QED BY <2>2, <2>3
<1>4. CASE Board!LeaderMoves
  <2>1. UNCHANGED <<Board!local, Board!jira, Board!pass, Board!calls, cuts>> /\ lead' \in Node
          /\ connector' = Board!None /\ Board!Free /\ mishaps' \in Nat
    BY <1>4, MishapCounts DEF Board!LeaderMoves
  <2>2. BoardOK' /\ CallsOK' /\ NamesOK'
    BY <2>1, NamesKept, NoneMoved DEF BoardOK, CallsOK, Board!local, Board!jira, Board!calls
  <2> QED BY <2>1, <2>2, LockFree, PassRests DEF Board!local, Board!pass, Board!calls, PassOK
<1>5. CASE UNCHANGED Board!vars
  <2>1. BoardOK' /\ CallsOK' /\ NamesOK'
    BY <1>5, NamesKept, NoneMoved DEF BoardOK, CallsOK, Board!vars, Board!local, Board!jira, Board!calls,
       Board!counts
  <2> QED BY <1>5, <2>1, PassKept DEF Board!vars, Board!local, Board!pass, Board!calls
<1> QED BY <1>1, <1>2, <1>3, <1>4, <1>5

LEMMA BoardStep == ASSUME Board!JiraAssumption, Board0, [Board!Next]_(Board!vars) PROVE Board0'
BY SyncStep, AssignmentStep, LateStep, CommandStep, StoryCreatedStep, OthersStep DEF Board!Next

LEMMA BoardInit == ASSUME Board!JiraAssumption, Board!Init PROVE Board0
<1>1. lead \in Node
  BY DEF Board!Init, Board!JiraAssumption
<1>2. Board!Nothing \in Board!Reference /\ Board!Nothing.epic = 0 /\ \A s \in Story : Board!Nothing.key[s] = 0
  BY DEF Board!Nothing, Board!Reference
<1>3. \A s \in Story : cards[s] = <<>> /\ Len(cards[s]) = 0
  BY DEF Board!Init
<1>4. BoardOK /\ CallsOK /\ PassOK
  BY <1>1, <1>2 DEF Board!Init, BoardOK, CallsOK, PassOK, Board!Status
<1>5. NamesOK
  BY <1>2, <1>3 DEF Board!Init, NamesOK, Exists
<1> QED BY <1>4, <1>5 DEF Board0

\* Every variable of Jira keeps its type, and what any node's database says of
\* the board is an issue, and an epic, that there is.
THEOREM BoardTypes ==
    ASSUME Board!JiraAssumption
    PROVE  Board!Spec => [](Board!TypeOK /\ NamesOK)
<1>1. ASSUME Board0
      PROVE  Board!TypeOK /\ NamesOK
  <2> USE <1>1 DEF Board0
  <2>1. ASSUME NEW s \in Story
        PROVE  /\ \A i \in DOMAIN cards[s] : cards[s][i] \in [col : Column, epic : 0 .. epics, sprint : BOOLEAN]
               /\ subs[s] \in Nat /\ \A n \in Node : refs[n].key[s] \in 0 .. Len(cards[s])
    <3>1. cards[s] \in Seq(CardOf) /\ DOMAIN cards[s] = 1 .. Len(cards[s]) /\ Len(cards[s]) \in Nat
      BY LenProperties DEF BoardOK
    <3>2. \A i \in 1 .. Len(cards[s]) : cards[s][i] \in CardOf /\ cards[s][i].epic <= epics
      BY <3>1, ElementOfSeq DEF NamesOK
    <3>3. \A n \in Node : refs[n].key[s] \in Nat /\ refs[n].key[s] <= Len(cards[s])
      BY DEF NamesOK, Exists, BoardOK, Board!Reference
    <3> QED BY <3>1, <3>2, <3>3 DEF CardOf, BoardOK
  <2> QED BY <2>1 DEF Board!TypeOK, BoardOK, CallsOK, PassOK, SavedAs
<1> QED BY <1>1, BoardInit, BoardStep, PTL DEF Board!Spec

-----------------------------------------------------------------------------
(* Duplicates, and what a check does with a rejected story.                *)

B(x) == IF x THEN 1 ELSE 0
\* What there is more than once has been paid for: of the epics, the issues
\* and the subtasks all but the one that the leader knows of have cost a
\* mishap each, or a section that ended while the call was under way.
EpicPaid    == epics <= mishaps + B(Board!mine.epic # 0)
IssuePaid(s) == Len(cards[s]) <= mishaps + B(Board!mine.key[s] # 0)
TaskPaid(s)  == subs[s] <= mishaps + cuts + B(s \in Board!mine.sub)
Budget == EpicPaid /\ \A s \in Story : IssuePaid(s) /\ TaskPaid(s)

\* The leader knows of what it knew of, or a mishap has made it forget.
Remembers ==
    \/ mishaps' = mishaps + 1
    \/ Board!mine'.epic = Board!mine.epic /\ Board!mine'.key = Board!mine.key
         /\ Board!mine'.sub = Board!mine.sub
Steady == Moved /\ UNCHANGED <<epics, subs>> /\ Remembers

\* Most steps create nothing.
Creates == Board!CreateEpic \/ Board!CreateIssue \/ Board!Repair \/ Board!SubtaskAnswer
             \/ Board!LateSubtask \/ Board!StoryCreated

LEMMA MineOK ==
    ASSUME BoardOK
    PROVE  Board!mine \in Board!Reference /\ Board!mine.epic \in Nat
             /\ Board!mine.key \in [Story -> Nat] /\ lead \in Node
BY DEF BoardOK, Board!mine, Board!Reference

LEMMA CountsGrow == ASSUME BoardOK, [Board!Next]_(Board!vars) PROVE mishaps <= mishaps' /\ cuts <= cuts'
<1>1. mishaps' = mishaps \/ mishaps' = mishaps + 1
  BY DEF Board!Next, Board!Sync, Board!BeginSync, Board!CreateEpic, Board!CreateIssue, Board!MoveToSprint,
     Board!Repair, Board!EndRepair, Board!Pull, Board!EndPull, Board!Look, Board!Push, Board!EndSync,
         Board!Assignment, Board!Assign, Board!handleJiraAfterAssignment, Board!SubtaskAnswer,
         Board!AssignmentShown, Board!EndEarly, Board!LateCalls, Board!LateSubtask,
         Board!ChangeShown, Board!Land, Board!Change, Board!Recover, Board!Merge, Board!StoryCreated,
         Board!StoryInserted, Board!Drag, Board!Refresh, Board!Crash, Board!LeaderMoves,
         Board!counts, Board!vars, Board!Answered, Board!Mishap
<1>2. cuts' = cuts \/ cuts' = cuts + 1
  BY DEF Board!Next, Board!Sync, Board!BeginSync, Board!CreateEpic, Board!CreateIssue, Board!MoveToSprint,
     Board!Repair, Board!EndRepair, Board!Pull, Board!EndPull, Board!Look, Board!Push, Board!EndSync,
         Board!Assignment, Board!Assign, Board!handleJiraAfterAssignment, Board!SubtaskAnswer,
         Board!AssignmentShown, Board!EndEarly, Board!LateCalls, Board!LateSubtask,
         Board!ChangeShown, Board!Land, Board!Change, Board!Recover, Board!Merge, Board!StoryCreated,
         Board!StoryInserted, Board!Drag, Board!Refresh, Board!Crash, Board!LeaderMoves,
         Board!counts, Board!vars
<1> QED BY <1>1, <1>2 DEF BoardOK

LEMMA OtherStepsAreSteady ==
    ASSUME Board0, [Board!Next]_(Board!vars), ~Creates
    PROVE  Steady
<1> USE DEF Board0
<1>1. CASE UNCHANGED <<refs, lead, Board!jira>>
  BY <1>1, NoneMoved DEF Steady, Remembers, Board!mine, Board!jira
<1>2. CASE Board!Push \/ Board!AssignmentShown \/ Board!ChangeShown \/ Board!Land
  <2>1. UNCHANGED <<refs, lead, epics, subs>>
    BY <1>2 DEF Board!Push, Board!AssignmentShown, Board!ChangeShown, Board!Land, Board!local
  <2>2. Moved
    BY <1>2, TransitionMoves, NoneMoved DEF Board!Push, Board!AssignmentShown, Board!ChangeShown, Board!Land
  <2> QED BY <2>1, <2>2 DEF Steady, Remembers, Board!mine
<1>3. CASE Board!Drag
  <2>1. UNCHANGED <<refs, lead, epics, subs>>
    BY <1>3 DEF Board!Drag, Board!local
  <2> QED BY <1>3, <2>1, DragMoves DEF Steady, Remembers, Board!mine
<1>4. CASE Board!MoveToSprint \/ Board!EndRepair
  <2>1. UNCHANGED <<lead, epics, subs>>
    BY <1>4 DEF Board!MoveToSprint, Board!EndRepair
  <2>2. (\E S \in SUBSET Story : \E how : Board!InSprint(S, how)) \/ UNCHANGED <<refs, cards>>
    <3>1. Board!NotInSprint \in SUBSET Story /\ made \in SUBSET Story
      BY DEF Board!NotInSprint, PassOK
    <3> QED BY <1>4, <3>1 DEF Board!MoveToSprint, Board!EndRepair
  <2>3. CASE UNCHANGED <<refs, cards>>
    BY <2>1, <2>3, NoneMoved DEF Steady, Remembers, Board!mine
  <2>4. ASSUME NEW S \in SUBSET Story, NEW how, Board!InSprint(S, how)
        PROVE  Steady
    BY <2>1, <2>4, SprintMoves, MineOK DEF Steady, Remembers, Board!mine
  <2> QED BY <2>2, <2>3, <2>4
<1>5. CASE Board!Crash \/ Board!LeaderMoves
  <2>1. UNCHANGED Board!jira /\ mishaps' = mishaps + 1
    BY <1>5 DEF Board!Crash, Board!LeaderMoves, Board!Mishap
  <2> QED BY <2>1, NoneMoved DEF Steady, Remembers, Board!jira
<1>6. CASE ~(Board!Push \/ Board!AssignmentShown \/ Board!ChangeShown \/ Board!Land \/ Board!Drag
             \/ Board!MoveToSprint \/ Board!EndRepair \/ Board!Crash \/ Board!LeaderMoves)
  <2>1. UNCHANGED <<refs, lead, Board!jira>>
    BY <1>6 DEF Creates, Board!Next, Board!Sync, Board!BeginSync, Board!Pull, Board!EndPull, Board!Look,
       Board!EndSync, Board!Assignment, Board!Assign, Board!handleJiraAfterAssignment,
                Board!EndEarly, Board!LateCalls, Board!Change, Board!Recover, Board!Merge,
                Board!StoryInserted, Board!Refresh, Board!vars, Board!local
  <2> QED BY <1>1, <2>1
<1> QED BY <1>2, <1>3, <1>4, <1>5, <1>6

LEMMA SteadyBudget ==
    ASSUME BoardOK, BoardOK', Budget, Steady, mishaps <= mishaps', cuts <= cuts'
    PROVE  Budget'
<1> USE DEF B
<1>1. mishaps \in Nat /\ mishaps' \in Nat /\ cuts \in Nat /\ cuts' \in Nat /\ epics \in Nat
  BY DEF BoardOK
<1>2. EpicPaid'
  <2>1. epics <= mishaps + B(Board!mine.epic # 0) /\ epics' = epics
    BY DEF Budget, EpicPaid, Steady
  <2>2. CASE mishaps' = mishaps + 1
    BY <1>1, <2>1, <2>2 DEF EpicPaid
  <2>3. CASE Board!mine'.epic = Board!mine.epic
    <3> DEFINE b == B(Board!mine.epic # 0)
    <3>1. b \in 0 .. 1 /\ epics <= mishaps + b /\ epics' = epics
      BY <2>1
    <3>2. B(Board!mine'.epic # 0) = b
      BY <2>3
    <3> HIDE DEF b, B
    <3>3. epics' <= mishaps' + b
      <4>1. \A a, m, n, c \in Nat : m <= n /\ a <= m + c => a <= n + c
        OBVIOUS
      <4>2. b \in Nat
        BY <3>1
      <4> QED BY <1>1, <3>1, <4>1, <4>2
    <3> QED BY <3>2, <3>3 DEF EpicPaid
  <2> QED BY <2>2, <2>3 DEF Steady, Remembers
<1>3. ASSUME NEW s \in Story
      PROVE  IssuePaid(s)' /\ TaskPaid(s)'
  <2>1. Len(cards[s]) \in Nat /\ Len(cards'[s]) = Len(cards[s]) /\ subs[s] \in Nat /\ subs'[s] = subs[s]
    BY LenProperties DEF BoardOK, Steady, Moved
  <2>2. IssuePaid(s) /\ TaskPaid(s)
    BY DEF Budget
  <2> QED BY <1>1, <2>1, <2>2 DEF IssuePaid, TaskPaid, Steady, Remembers
<1> QED BY <1>2, <1>3 DEF Budget

LEMMA CreateEpicBudget ==
    ASSUME Board0, Board0', Budget, Board!CreateEpic
    PROVE  Budget'
<1> USE DEF Board0, B
<1>1. PICK answer \in Board!Answers :
          /\ Board!Answered(answer)
          /\ epics' = IF Board!Made(answer) THEN epics + 1 ELSE epics
          /\ refs' = IF answer = "ok" THEN [refs EXCEPT ![lead].epic = epics + 1] ELSE refs
  BY DEF Board!CreateEpic
<1>2. Board!mine.epic = 0 /\ UNCHANGED <<lead, cards, subs, cuts>>
  BY DEF Board!CreateEpic
<1>3. /\ mishaps \in Nat /\ mishaps' \in Nat /\ mishaps <= mishaps' /\ (answer # "ok"
           => mishaps' = mishaps + 1)
      /\ cuts \in Nat /\ epics \in Nat
  BY <1>1, MishapCounts DEF BoardOK
<1>4. Board!mine'.key = Board!mine.key /\ Board!mine'.sub = Board!mine.sub /\ (answer = "ok"
        => Board!mine'.epic = epics + 1)
  BY <1>1, <1>2 DEF Board!mine, BoardOK, Board!Reference
<1>5. EpicPaid'
  <2>1. epics <= mishaps
    BY <1>2, <1>3 DEF Budget, EpicPaid
  <2> QED BY <1>1, <1>3, <1>4, <2>1 DEF EpicPaid
<1>6. ASSUME NEW s \in Story
      PROVE  IssuePaid(s)' /\ TaskPaid(s)'
  <2>1. Len(cards[s]) \in Nat /\ Len(cards'[s]) = Len(cards[s]) /\ subs[s] \in Nat /\ subs'[s] = subs[s]
    BY <1>2, LenProperties DEF BoardOK
  <2>2. IssuePaid(s) /\ TaskPaid(s)
    BY DEF Budget
  <2> QED BY <1>2, <1>3, <1>4, <2>1, <2>2 DEF IssuePaid, TaskPaid
<1> QED BY <1>5, <1>6 DEF Budget

\* An issue is created for a story without one, the leader's key is that of the new one.
LEMMA IssueBudget ==
    ASSUME BoardOK, BoardOK', Budget, NEW s \in Story, NEW answer \in Board!Answers, Board!Answered(answer),
           Len(cards[s]) = 0 \/ Board!mine.key[s] = 0, answer = "ok" => Board!mine'.key[s] # 0,
           Len(cards'[s]) <= Len(cards[s]) + 1,
           \A t \in Story \ {s} : cards'[t] = cards[t] /\ Board!mine'.key[t] = Board!mine.key[t],
           Board!mine'.epic = Board!mine.epic, Board!mine'.sub = Board!mine.sub, UNCHANGED <<epics, subs, cuts>>
    PROVE  Budget'
<1> USE DEF B
<1>1. /\ mishaps \in Nat /\ mishaps' \in Nat /\ mishaps <= mishaps'
      /\ answer # "ok" => mishaps' = mishaps + 1
      /\ cuts \in Nat /\ epics \in Nat
  BY MishapCounts DEF BoardOK
<1>2. EpicPaid'
  <2>1. epics <= mishaps + B(Board!mine.epic # 0) /\ epics' = epics
    BY DEF Budget, EpicPaid
  <2>2. B(Board!mine.epic # 0)' = B(Board!mine.epic # 0) /\ B(Board!mine.epic # 0) \in {0, 1}
    OBVIOUS
  <2> HIDE DEF B
  <2>3. epics <= mishaps' + B(Board!mine.epic # 0)
    BY <1>1, <2>1, <2>2
  <2> QED BY <2>1, <2>2, <2>3 DEF EpicPaid
<1>3. ASSUME NEW t \in Story
      PROVE  TaskPaid(t)'
  <2>1. subs[t] \in Nat /\ subs[t] <= mishaps + cuts + B(t \in Board!mine.sub)
    BY DEF Budget, TaskPaid, BoardOK
  <2>2. B(t \in Board!mine.sub)' = B(t \in Board!mine.sub) /\ B(t \in Board!mine.sub) \in {0, 1}
    OBVIOUS
  <2> HIDE DEF B
  <2>3. subs[t] <= mishaps' + cuts + B(t \in Board!mine.sub)
    BY <1>1, <2>1, <2>2
  <2> QED BY <2>1, <2>2, <2>3 DEF TaskPaid
<1>4. ASSUME NEW t \in Story \ {s}
      PROVE  IssuePaid(t)'
  <2>1. Len(cards[t]) \in Nat /\ Len(cards[t]) <= mishaps + B(Board!mine.key[t] # 0)
    BY LenProperties DEF Budget, IssuePaid, BoardOK
  <2> QED BY <1>1, <2>1 DEF IssuePaid
<1>5. IssuePaid(s)'
  <2>1. /\ Len(cards[s]) \in Nat /\ Len(cards[s]) <= mishaps + B(Board!mine.key[s] # 0)
        /\ Len(cards'[s]) \in Nat /\ cards'[s] \in Seq(CardOf)
    BY LenProperties DEF Budget, IssuePaid, BoardOK
  <2>2. Len(cards[s]) <= mishaps
    BY <1>1, <2>1
  <2> QED BY <1>1, <2>1, <2>2 DEF IssuePaid
<1> QED BY <1>2, <1>3, <1>4, <1>5 DEF Budget

LEMMA CreateIssueBudget ==
    ASSUME Board!JiraAssumption, Board0, Board0', Budget, Board!CreateIssue
    PROVE  Budget'
<1> USE DEF Board0
<1> DEFINE s == Board!NextOf(todo)
<1>1. PICK answer \in Board!Answers :
          /\ Board!Answered(answer)
          /\ cards' = IF Board!Made(answer)
               THEN [cards EXCEPT ![s] = Append(@, Board!NewIssue(Board!mine.epic))] ELSE cards
          /\ refs' = IF answer = "ok" THEN [refs EXCEPT ![lead].key[s] = Len(cards[s]) + 1] ELSE refs
  BY DEF Board!CreateIssue
<1>2. UNCHANGED <<lead, epics, subs, cuts>> /\ todo # {} /\ at = "issues"
  BY DEF Board!CreateIssue
<1>3. s \in todo /\ s \in Story /\ Board!mine.key[s] = 0
  BY <1>2, NextIn DEF PassOK
<1> HIDE DEF s
<1>4. Board!NewIssue(Board!mine.epic) \in CardOf /\ cards[s] \in Seq(CardOf) /\ Len(cards[s]) \in Nat
  BY <1>3, MineOK, LenProperties DEF Board!NewIssue, CardOf, Board!JiraAssumption, BoardOK
<1>5. /\ \A t \in Story \ {s} : cards'[t] = cards[t]
      /\ cards'[s] \in {cards[s], Append(cards[s], Board!NewIssue(Board!mine.epic))}
  BY <1>1, <1>3 DEF BoardOK
<1>6. Len(cards'[s]) <= Len(cards[s]) + 1
  <2>1. Len(Append(cards[s], Board!NewIssue(Board!mine.epic))) = Len(cards[s]) + 1
    BY <1>4, AppendProperties
  <2> QED BY <1>4, <1>5, <2>1
<1>7. /\ Board!mine'.epic = Board!mine.epic /\ Board!mine'.sub = Board!mine.sub
      /\ \A t \in Story \ {s} : Board!mine'.key[t] = Board!mine.key[t]
      /\ answer = "ok" => Board!mine'.key[s] = Len(cards[s]) + 1
  <2> DEFINE k == Len(cards[s]) + 1
  <2>1. CASE answer # "ok"
    BY <1>1, <1>2, <2>1 DEF Board!mine
  <2>2. CASE answer = "ok"
    <3>1. refs' = [refs EXCEPT ![lead].key[s] = k] /\ refs \in [Node -> Board!Reference] /\ lead \in Node
      BY <1>1, <2>2 DEF BoardOK
    <3> HIDE DEF k
    <3>2. Board!mine' = [Board!mine EXCEPT !.key[s] = k] /\ Board!mine \in Board!Reference
      BY <1>2, <3>1 DEF Board!mine
    <3> QED BY <1>3, <3>2 DEF Board!Reference, k
  <2> QED BY <2>1, <2>2
<1> QED BY <1>1, <1>2, <1>3, <1>4, <1>5, <1>6, <1>7, IssueBudget

LEMMA StoryCreatedBudget ==
    ASSUME Board0, Board0', Budget, Board!StoryCreated
    PROVE  Budget'
<1> USE DEF Board0
<1>1. PICK s \in Story, st \in {"draft", "estimated"}, answer \in Board!Answers, how \in Sprints \cup {"none"} :
          /\ status[s] = Board!Absent /\ status' = [status EXCEPT ![s] = st] /\ Board!Answered(answer)
          /\ how # "none" => answer = "ok"
          /\ cards' = IF Board!Made(answer)
                      THEN [cards EXCEPT ![s] = <<[Board!NewIssue(Board!mine.epic) EXCEPT !.sprint = how = "moved"]>>]
                      ELSE cards
          /\ refs' = IF answer # "ok" THEN refs
                     ELSE [refs EXCEPT ![lead].key[s] = 1,
                                       ![lead].sprint = IF how = "none" THEN @ ELSE @ \cup {s}]
  BY DEF Board!StoryCreated
<1>2. UNCHANGED <<lead, epics, subs, cuts>>
  BY DEF Board!StoryCreated
<1>3. cards[s] = <<>> /\ Len(cards[s]) = 0
  BY <1>1, EmptySeq DEF NamesOK
<1>4. /\ \A t \in Story \ {s} : cards'[t] = cards[t]
      /\ Len(cards'[s]) <= Len(cards[s]) + 1
  <2> DEFINE new == [Board!NewIssue(Board!mine.epic) EXCEPT !.sprint = how = "moved"]
  <2>1. cards' = [cards EXCEPT ![s] = <<new>>] \/ cards' = cards
    BY <1>1
  <2> HIDE DEF new
  <2>2. Len(<<new>>) = 1
    OBVIOUS
  <2>3. cards'[s] = <<new>> \/ cards'[s] = cards[s]
    BY <2>1 DEF BoardOK
  <2>4. Len(cards'[s]) \in {0, 1}
    BY <1>3, <2>2, <2>3
  <2>5. Len(cards'[s]) <= Len(cards[s]) + 1
    <3> DEFINE m == Len(cards[s])
               n == Len(cards'[s])
    <3>1. m = 0 /\ n \in {0, 1}
      BY <1>3, <2>4
    <3> HIDE DEF m, n
    <3>2. n <= m + 1
      BY <3>1
    <3> QED BY <3>2 DEF m, n
  <2>6. \A t \in Story \ {s} : cards'[t] = cards[t]
    BY <2>1 DEF BoardOK
  <2> QED BY <2>5, <2>6
<1>5. /\ Board!mine'.epic = Board!mine.epic /\ Board!mine'.sub = Board!mine.sub
      /\ \A t \in Story \ {s} : Board!mine'.key[t] = Board!mine.key[t]
      /\ answer = "ok" => Board!mine'.key[s] = 1
  <2> DEFINE sp == IF how = "none" THEN refs[lead].sprint ELSE refs[lead].sprint \cup {s}
  <2>1. CASE answer # "ok"
    BY <1>1, <1>2, <2>1 DEF Board!mine
  <2>2. CASE answer = "ok"
    <3>1. refs' = [refs EXCEPT ![lead] = [refs[lead] EXCEPT !.key[s] = 1, !.sprint = sp]]
      BY <1>1, <2>2
    <3> HIDE DEF sp
    <3>2. Board!mine' = [Board!mine EXCEPT !.key[s] = 1, !.sprint = sp] /\ Board!mine \in Board!Reference
      BY <1>2, <3>1 DEF Board!mine, BoardOK
    <3> QED BY <3>2 DEF Board!Reference
  <2> QED BY <2>1, <2>2
<1> QED BY <1>1, <1>2, <1>3, <1>4, <1>5, IssueBudget

\* A subtask is created where the leader knows of none.
LEMMA TaskBudget ==
    ASSUME BoardOK, BoardOK', Budget, Moved, NEW s \in Story, UNCHANGED epics,
           Board!mine'.epic = Board!mine.epic, Board!mine'.key = Board!mine.key, mishaps <= mishaps', cuts <= cuts',
           \A t \in Story \ {s} : subs'[t] = subs[t] /\ (t \in Board!mine.sub => t \in Board!mine'.sub),
           \/ subs'[s] = subs[s] /\ (s \in Board!mine.sub => s \in Board!mine'.sub)
           \/ subs'[s] = subs[s] + 1 /\ mishaps' + cuts' = mishaps + cuts + 1 /\ (s \in Board!mine.sub
                => s \in Board!mine'.sub)
           \/ subs'[s] = subs[s] + 1 /\ s \notin Board!mine.sub /\ s \in Board!mine'.sub
    PROVE  Budget'
<1> USE DEF B
<1>1. mishaps \in Nat /\ mishaps' \in Nat /\ cuts \in Nat /\ cuts' \in Nat /\ epics \in Nat
  BY DEF BoardOK
<1>2. EpicPaid'
  <2>1. epics <= mishaps + B(Board!mine.epic # 0) /\ epics' = epics
    BY DEF Budget, EpicPaid
  <2> QED BY <1>1, <2>1 DEF EpicPaid
<1>3. ASSUME NEW t \in Story
      PROVE  IssuePaid(t)'
  <2>1. Len(cards[t]) \in Nat /\ Len(cards'[t]) = Len(cards[t])
          /\ Len(cards[t]) <= mishaps + B(Board!mine.key[t] # 0)
    BY LenProperties DEF Budget, IssuePaid, BoardOK, Moved
  <2> QED BY <1>1, <2>1 DEF IssuePaid
<1>4. ASSUME NEW t \in Story
      PROVE  TaskPaid(t)'
  <2>1. subs[t] \in Nat /\ subs[t] <= mishaps + cuts + B(t \in Board!mine.sub)
    BY DEF Budget, TaskPaid, BoardOK
  <2>2. CASE t # s
    BY <1>1, <2>1, <2>2 DEF TaskPaid
  <2>3. CASE t = s
    <3>1. CASE subs'[s] = subs[s] /\ (s \in Board!mine.sub => s \in Board!mine'.sub)
      BY <1>1, <2>1, <2>3, <3>1 DEF TaskPaid
    <3>2. CASE subs'[s] = subs[s] + 1 /\ mishaps' + cuts' = mishaps + cuts + 1 /\ (s \in Board!mine.sub
                 => s \in Board!mine'.sub)
      <4> DEFINE b == B(s \in Board!mine.sub)
                 c == B((s \in Board!mine.sub)')
      <4>1. b \in 0 .. 1 /\ c \in 0 .. 1 /\ b <= c /\ subs[s] <= mishaps + cuts + b
        BY <2>1, <2>3, <3>2
      <4> HIDE DEF b, c
      <4>2. subs'[s] <= mishaps' + cuts' + c
        BY <1>1, <2>1, <2>3, <3>2, <4>1
      <4> QED BY <2>3, <4>2 DEF TaskPaid, c
    <3>3. CASE subs'[s] = subs[s] + 1 /\ s \notin Board!mine.sub /\ s \in Board!mine'.sub
      BY <1>1, <2>1, <2>3, <3>3 DEF TaskPaid
    <3> QED BY <3>1, <3>2, <3>3
  <2> QED BY <2>2, <2>3
<1> QED BY <1>2, <1>3, <1>4 DEF Budget

\* The subtask of s is created by a call whose key the leader records if it gets it.
LEMMA CallBudget ==
    ASSUME Board0, Board0', Budget, Moved, NEW s \in Story, NEW answer \in Board!Answers,
           s \notin Board!mine.sub,
           UNCHANGED <<epics, lead, cuts>>, mishaps <= mishaps', answer # "ok" => mishaps' = mishaps + 1,
           subs' = IF Board!Made(answer) THEN [subs EXCEPT ![s] = @ + 1] ELSE subs,
           refs' = IF answer = "ok" THEN [refs EXCEPT ![lead].sub = @ \cup {s}] ELSE refs
    PROVE  Budget'
<1> USE DEF Board0
<1>1. \A t \in Story : subs'[t] = IF t = s /\ Board!Made(answer) THEN subs[t] + 1 ELSE subs[t]
  BY DEF BoardOK
<1>2. /\ Board!mine'.epic = Board!mine.epic /\ Board!mine'.key = Board!mine.key
      /\ Board!mine'.sub = IF answer = "ok" THEN Board!mine.sub \cup {s} ELSE Board!mine.sub
  <2>1. CASE answer # "ok"
    BY <2>1 DEF Board!mine
  <2>2. CASE answer = "ok"
    <3> DEFINE sb == refs[lead].sub \cup {s}
    <3>1. refs' = [refs EXCEPT ![lead] = [refs[lead] EXCEPT !.sub = sb]]
      BY <2>2
    <3>2. Board!mine' = [Board!mine EXCEPT !.sub = sb] /\ Board!mine \in Board!Reference
      BY <3>1 DEF Board!mine, BoardOK
    <3> QED BY <2>2, <3>2 DEF Board!Reference, Board!mine
  <2> QED BY <2>1, <2>2
<1>3. mishaps \in Nat /\ mishaps' \in Nat /\ cuts \in Nat
  BY DEF BoardOK
<1>4. answer # "ok" => mishaps' + cuts' = mishaps + cuts + 1
  BY <1>3
<1>5. cuts <= cuts'
  BY <1>3
<1>6. \A t \in Story \ {s} : subs'[t] = subs[t] /\ (t \in Board!mine.sub => t \in Board!mine'.sub)
  BY <1>1, <1>2
<1>7. \/ subs'[s] = subs[s] /\ (s \in Board!mine.sub => s \in Board!mine'.sub)
      \/ subs'[s] = subs[s] + 1 /\ mishaps' + cuts' = mishaps + cuts + 1 /\ (s \in Board!mine.sub
           => s \in Board!mine'.sub)
      \/ subs'[s] = subs[s] + 1 /\ s \notin Board!mine.sub /\ s \in Board!mine'.sub
  BY <1>1, <1>2, <1>4
<1> QED BY <1>2, <1>5, <1>6, <1>7, TaskBudget

LEMMA SubtaskBudget ==
    ASSUME Board0, Board0', Budget, Board!Repair \/ Board!SubtaskAnswer \/ Board!LateSubtask
    PROVE  Budget'
<1> USE DEF Board0
<1>1. CASE Board!Repair
  <2> DEFINE s == Board!NextOf(todo)
  <2>1. PICK answer \in Board!Answers, then \in Board!AnswersTo(status[s]) :
            /\ IF answer = "ok" THEN Board!Answered(then) ELSE then = "ok" /\ Board!Mishap
            /\ subs' = IF Board!Made(answer) THEN [subs EXCEPT ![s] = @ + 1] ELSE subs
            /\ refs' = IF answer = "ok" THEN [refs EXCEPT ![lead].sub = @ \cup {s}] ELSE refs
            /\ IF status[s] = "planned" THEN then = "ok" /\ UNCHANGED cards
                                        ELSE Board!Transition(s, Board!mine.key[s], status[s], then)
    BY <1>1 DEF Board!Repair
  <2>2. UNCHANGED <<epics, lead, cuts>> /\ todo # {} /\ at = "repair"
    BY <1>1 DEF Board!Repair
  <2>3. s \in Story /\ s \notin Board!mine.sub
    BY <2>2, NextIn DEF PassOK
  <2> HIDE DEF s
  <2>4. Moved /\ mishaps <= mishaps' /\ (answer # "ok" => mishaps' = mishaps + 1)
    BY <2>1, MishapCounts, NoneMoved, TransitionMoves
  <2> QED BY <2>1, <2>2, <2>3, <2>4, CallBudget
<1>2. CASE Board!SubtaskAnswer
  <2>1. PICK j \in job, answer \in IF connector = "spent" THEN {"refused"} ELSE Board!Answers :
            /\ j.op = "creating"
            /\ IF connector = "spent" THEN UNCHANGED mishaps ELSE Board!Answered(answer)
            /\ subs' = IF Board!Made(answer) THEN [subs EXCEPT ![j.story] = @ + 1] ELSE subs
            /\ refs' = IF answer = "ok" THEN [refs EXCEPT ![lead].sub = @ \cup {j.story}] ELSE refs
    BY <1>2 DEF Board!SubtaskAnswer
  <2>2. UNCHANGED <<epics, lead, cards, cuts>>
    BY <1>2 DEF Board!SubtaskAnswer
  <2>3. j.story \in Story /\ j.story \notin Board!mine.sub /\ Moved
    BY <2>1, <2>2, NoneMoved DEF PassOK, CallsOK
  <2>4. CASE connector = "spent"
    <3>1. UNCHANGED <<mishaps, subs, refs>>
      BY <2>1, <2>4 DEF Board!Made
    <3> QED BY <2>2, <2>3, <3>1, SteadyBudget DEF Steady, Remembers, Board!mine, BoardOK
  <2>5. CASE connector # "spent"
    <3>1. answer \in Board!Answers /\ mishaps <= mishaps' /\ (answer # "ok" => mishaps' = mishaps + 1)
      BY <2>1, <2>5, MishapCounts
    <3> QED BY <2>1, <2>2, <2>3, <3>1, CallBudget
  <2> QED BY <2>4, <2>5
<1>3. CASE Board!LateSubtask
  <2>1. PICK s \in late : (subs' = [subs EXCEPT ![s] = @ + 1] /\ cuts' = cuts + 1) \/ UNCHANGED <<subs, cuts>>
    BY <1>3 DEF Board!LateSubtask
  <2>2. UNCHANGED <<refs, lead, cards, epics, mishaps>>
    BY <1>3 DEF Board!LateSubtask, Board!local
  <2>3. s \in Story /\ Moved
    BY <2>2, NoneMoved DEF CallsOK
  <2>4. mishaps \in Nat /\ cuts \in Nat
    BY DEF BoardOK
  <2>5. CASE UNCHANGED <<subs, cuts>>
    BY <2>2, <2>3, <2>4, <2>5, SteadyBudget DEF Steady, Remembers, Board!mine
  <2>6. CASE subs' = [subs EXCEPT ![s] = @ + 1] /\ cuts' = cuts + 1
    <3>1. (\A t \in Story \ {s} : subs'[t] = subs[t]) /\ subs'[s] = subs[s] + 1
      BY <2>3, <2>6 DEF BoardOK
    <3>2. mishaps' + cuts' = mishaps + cuts + 1 /\ mishaps <= mishaps' /\ cuts <= cuts'
      BY <2>2, <2>4, <2>6
    <3>3. Board!mine' = Board!mine
      BY <2>2 DEF Board!mine
    <3> QED BY <2>2, <2>3, <3>1, <3>2, <3>3, TaskBudget
  <2> QED BY <2>1, <2>5, <2>6
<1> QED BY <1>1, <1>2, <1>3

LEMMA BudgetStep ==
    ASSUME Board!JiraAssumption, Board0, Budget, [Board!Next]_(Board!vars)
    PROVE  Budget'
<1>1. Board0'
  BY BoardStep
<1>2. CASE Creates
  BY <1>1, <1>2, CreateEpicBudget, CreateIssueBudget, StoryCreatedBudget, SubtaskBudget DEF Creates
<1>3. CASE ~Creates
  BY <1>1, <1>3, OtherStepsAreSteady, SteadyBudget, CountsGrow DEF Board0
<1> QED BY <1>2, <1>3

\* An epic, an issue or a subtask that is created once more has cost a call
\* without an answer, a crash, a change of leader or a section that did not wait
\* for its queue; each of them is to blame for one at most.
THEOREM DuplicatesArePaidFor ==
    ASSUME Board!JiraAssumption
    PROVE  Board!Spec => []DuplicatesAreAccountedFor
<1>1. ASSUME Board!Init
      PROVE  Budget
  <2>1. Board0
    BY <1>1, BoardInit
  <2>2. epics = 0 /\ mishaps = 0 /\ cuts = 0 /\ \A s \in Story : Len(cards[s]) = 0 /\ subs[s] = 0
    BY <1>1, EmptySeq DEF Board!Init
  <2> QED BY <2>2 DEF Budget, EpicPaid, IssuePaid, TaskPaid, B
<1>2. ASSUME Board0, Budget
      PROVE  DuplicatesAreAccountedFor
  <2>1. mishaps \in Nat /\ cuts \in Nat /\ epics \in Nat /\ \A s \in Story : Len(cards[s]) \in Nat
          /\ subs[s] \in Nat
    BY <1>2, LenProperties DEF Board0, BoardOK
  <2>2. \A b : B(b) \in 0 .. 1
    BY DEF B
  <2>3. epics <= mishaps + 1
    BY <1>2, <2>1, <2>2 DEF Budget, EpicPaid
  <2>4. ASSUME NEW s \in Story
        PROVE  Len(cards[s]) <= mishaps + 1 /\ subs[s] <= mishaps + cuts + 1
    BY <1>2, <2>1, <2>2 DEF Budget, IssuePaid, TaskPaid
  <2> QED BY <2>1, <2>3, <2>4 DEF DuplicatesAreAccountedFor
<1> QED BY <1>1, <1>2, BoardInit, BoardStep, BudgetStep, PTL DEF Board!Spec

\* While a check is at work a story is rejected only if it was before.
Rejected == at # "rest" => \A t \in saved, s \in Story : status[s] = "qa_failed" => t.status[s] = "qa_failed"

\* What may become of a rejected story by the column of its card.
LEMMA PulledUp ==
    ASSUME NEW new \in DOMAIN Board!Place, new \notin {"pr_submitted", "qa_failed"}
    PROVE  /\ Board!Pulled("qa_failed", new) \in {"qa_failed", "merged"}
           /\ \A old : Board!Pulled(old, new) \in {old, new}
<1>1. DOMAIN Board!Place = {"draft", "estimated", "planned", "in_progress", "review", "qa", "qa_failed", "pr_submitted", "merged"}
  BY DEF Board!Place
<1>2. Board!Place["qa_failed"] = 6
        /\ \A p \in {"draft", "estimated", "planned", "in_progress", "review", "qa"} : Board!Place[p] < 6
  BY DEF Board!Place
<1> QED BY <1>1, <1>2 DEF Board!Pulled, Board!isStatusRegression

LEMMA RejectedStep ==
    ASSUME Board!JiraAssumption, \A c \in Column : Means[c] \notin {"pr_submitted", "qa_failed"},
           Board0, Rejected, [Board!Next]_(Board!vars)
    PROVE  /\ Rejected'
           /\ \A s \in Story : at = "pull" /\ status[s] = "qa_failed"
                => status'[s] \in {"qa_failed", "merged"}
<1> USE DEF Board0
<1>1. CASE UNCHANGED status /\ at # "rest"
  <2>1. saved' \subseteq saved \/ at' = "rest"
    BY <1>1 DEF Board!Next, Board!Sync, Board!BeginSync, Board!CreateEpic, Board!CreateIssue,
       Board!MoveToSprint, Board!Repair, Board!EndRepair, Board!Pull, Board!EndPull, Board!Look, Board!Push,
                Board!EndSync, Board!Enter, Board!Assignment, Board!Assign,
                Board!handleJiraAfterAssignment, Board!SubtaskAnswer, Board!AssignmentShown,
                Board!EndEarly, Board!LateCalls,
                Board!LateSubtask, Board!ChangeShown, Board!Land, Board!Change, Board!Recover, Board!Merge,
                Board!StoryCreated, Board!StoryInserted, Board!Drag, Board!Refresh, Board!Crash,
                Board!LeaderMoves, Board!vars, Board!local, Board!pass, Board!calls, Board!Free
  <2>2. at' # "rest" => at # "rest"
    BY <1>1
  <2> QED BY <1>1, <2>1, <2>2 DEF Rejected
<1>2. CASE at = "rest"
  <2>1. CASE Board!BeginSync
    BY <2>1 DEF Board!BeginSync, Rejected, Board!Tables, Board!Free, PassOK
  <2>2. CASE ~Board!BeginSync
    <3>1. at' = "rest"
      BY <1>2, <2>2 DEF Board!Next, Board!Sync, Board!CreateEpic, Board!CreateIssue, Board!MoveToSprint,
         Board!Repair, Board!EndRepair, Board!Pull, Board!EndPull, Board!Look, Board!Push,
                Board!EndSync, Board!Enter, Board!Assignment, Board!Assign,
                Board!handleJiraAfterAssignment, Board!SubtaskAnswer, Board!AssignmentShown,
                Board!EndEarly, Board!LateCalls,
                Board!LateSubtask, Board!ChangeShown, Board!Land, Board!Change, Board!Recover, Board!Merge,
                Board!StoryCreated, Board!StoryInserted, Board!Drag, Board!Refresh, Board!Crash,
                Board!LeaderMoves, Board!vars, Board!pass
    <3> QED BY <1>2, <3>1 DEF Rejected
  <2> QED BY <1>2, <2>1, <2>2
<1>3. CASE Board!Pull
  <2> DEFINE s == Board!NextOf(todo)
             new == Means[Board!Card(s).col]
  <2>1. /\ UNCHANGED <<saved, at>> /\ at = "pull" /\ todo # {}
        /\ status' = [status EXCEPT ![s] = Board!Pulled(status[s], new)] \/ UNCHANGED status
    BY <1>3 DEF Board!Pull
  <2>2. s \in Story /\ Board!mine.key[s] # 0
    BY <2>1, NextIn DEF PassOK
  <2>3. Board!Card(s).col \in Column
    BY <2>2, CardIsThere DEF CardOf
  <2>4. new \in DOMAIN Board!Place /\ new \notin {"pr_submitted", "qa_failed"}
    BY <2>3 DEF Board!JiraAssumption
  <2> HIDE DEF s, new
  <2>5. \A t \in Story : \/ status'[t] = status[t]
                         \/ status'[t] = Board!Pulled(status[t], new)
    BY <2>1 DEF BoardOK
  <2>6. \A t \in Story : /\ status'[t] = "qa_failed" => status[t] = "qa_failed"
                         /\ status[t] = "qa_failed" => status'[t] \in {"qa_failed", "merged"}
    BY <2>4, <2>5, PulledUp
  <2> QED BY <2>1, <2>6 DEF Rejected
<1>4. CASE Board!Crash
  <2>1. at' = "rest" /\ (UNCHANGED status \/ \E t \in saved : status' = t.status)
    BY <1>4 DEF Board!Crash, Board!Enter
  <2> QED BY <2>1 DEF Rejected
<1>5. CASE at # "rest" /\ ~Board!Pull /\ ~Board!Crash
  <2>1. UNCHANGED status
    BY <1>5 DEF Board!Next, Board!Sync, Board!BeginSync, Board!CreateEpic, Board!CreateIssue,
       Board!MoveToSprint, Board!Repair, Board!EndRepair, Board!EndPull, Board!Look, Board!Push,
                Board!EndSync, Board!Assignment, Board!Assign, Board!handleJiraAfterAssignment,
                Board!SubtaskAnswer, Board!AssignmentShown, Board!EndEarly, Board!LateCalls,
                Board!LateSubtask, Board!ChangeShown, Board!Land, Board!Change, Board!Recover, Board!Merge,
                Board!StoryCreated, Board!StoryInserted, Board!Drag, Board!Refresh,
                Board!LeaderMoves, Board!vars, Board!local, Board!Free
  <2> QED BY <1>1, <1>5, <2>1
<1> QED BY <1>2, <1>3, <1>4, <1>5

\* A rejected story does not come back through the board, unless somebody drags
\* its card to the end (syncJiraStatusesToHive(): both orders of the statuses
\* are needed).  Not so for a mapping in which a column stands for pr_submitted,
\* which comes after qa_failed in both.  With a column for qa_failed the check
\* itself may reject a story, and a crash takes that back.
THEOREM RejectionIsFinal ==
    ASSUME Board!JiraAssumption, \A c \in Column : Means[c] \notin {"pr_submitted", "qa_failed"}
    PROVE  Board!Spec => RejectionStands
<1>1. Board!Init => Rejected
  BY DEF Board!Init, Rejected
<1>2. ASSUME Board0, Rejected, [Board!Next]_(Board!vars)
      PROVE  /\ Rejected'
             /\ [\A s \in Story : at = "pull" /\ status[s] = "qa_failed"
                  => status'[s] \in {"qa_failed", "merged"}]_status
  BY <1>2, RejectedStep
<1> QED BY <1>1, <1>2, BoardInit, BoardStep, PTL DEF Board!Spec, RejectionStands

-----------------------------------------------------------------------------
(* A cloud run: types, and a cancelled run has stopped the task it names.   *)
(* cancelRun() works on a copy of META, so the invariant is about that copy *)
(* too, and says that a task is named only when createRun() is through.     *)

LEMMA TypeInit == ASSUME Run!CloudRunAssumption, Run!Init PROVE Run!TypeOK
<1>1. poll \in [Poll -> [pc : {"idle", "stat", "load", "write", "complete", "announce"},
                        items : SUBSET Run!Item, complete : BOOLEAN]]
  BY DEF Run!Init, Run!Idle
<1>2. cancel \in [pc : {"idle", "stop", "put"}, copy : SUBSET Run!MetaItem]
  BY DEF Run!Init
<1>3. faults \in 0 .. MaxFaults
  BY DEF Run!CloudRunAssumption, Run!Init
<1> QED BY <1>1, <1>2, <1>3 DEF Run!Init, Run!TypeOK, Run!RowStatus

LEMMA MetaType ==
    ASSUME NEW word \in {"pending"} \cup Run!Final, NEW named \in BOOLEAN
    PROVE  Run!Meta(word, named) \in SUBSET Run!MetaItem
BY DEF Run!MetaItem

LEMMA CreateType ==
    ASSUME Run!CloudRunAssumption, Run!TypeOK, Run!Create
    PROVE  Run!TypeOK'
<1>1. CASE Run!PutPending
  BY <1>1, MetaType DEF Run!PutPending, Run!TypeOK, Run!adapterVars, Run!sockVars
<1>2. CASE Run!Enqueue
  BY <1>2 DEF Run!Enqueue, Run!TypeOK, Run!adapterVars, Run!sockVars
<1>3. CASE Run!RunTask
  BY <1>3 DEF Run!CloudRunAssumption, Run!RunTask, Run!Fault, Run!TypeOK, Run!adapterVars, Run!sockVars
<1>4. CASE Run!RecordTask
  BY <1>4, MetaType DEF Run!RecordTask, Run!TypeOK, Run!adapterVars, Run!sockVars
<1>5. CASE Run!CreateFails
  BY <1>5 DEF Run!CloudRunAssumption, Run!CreateFails, Run!Fault, Run!TypeOK, Run!adapterVars, Run!sockVars
<1> QED BY <1>1, <1>2, <1>3, <1>4, <1>5 DEF Run!Create

LEMMA CancelType ==
    ASSUME Run!CloudRunAssumption, Run!TypeOK, Run!Cancel
    PROVE  Run!TypeOK'
<1>1. CASE Run!ReadMeta
  <2>1. cancel' \in [pc : {"idle", "stop", "put"}, copy : SUBSET Run!MetaItem]
    BY <1>1 DEF Run!ReadMeta, Run!TypeOK
  <2> QED BY <1>1, <2>1 DEF Run!ReadMeta, Run!TypeOK, Run!adapterVars, Run!sockVars
<1>2. CASE Run!StopTask
  BY <1>2 DEF Run!StopTask, Run!Stopping, Run!TypeOK, Run!adapterVars, Run!sockVars
<1>3. CASE Run!StopFails
  BY <1>3 DEF Run!CloudRunAssumption, Run!StopFails, Run!Fault, Run!TypeOK, Run!adapterVars, Run!sockVars
<1>4. CASE Run!PutCancelled
  <2>1. \A m \in cancel.copy : m.arn \in BOOLEAN
    BY DEF Run!TypeOK, Run!MetaItem, Run!Meta
  <2>2. meta' \in SUBSET Run!MetaItem
    BY <1>4, <2>1, MetaType DEF Run!PutCancelled, Run!Final
  <2> QED BY <1>4, <2>2 DEF Run!PutCancelled, Run!TypeOK, Run!adapterVars, Run!sockVars
<1> QED BY <1>1, <1>2, <1>3, <1>4 DEF Run!Cancel

LEMMA TaskType ==
    ASSUME Run!CloudRunAssumption, Run!TypeOK, Run!Task \/ Run!Hive
    PROVE  Run!TypeOK'
<1>1. CASE Run!TaskAges \/ Run!TimeoutScan \/ Run!StartAdapter
  BY <1>1 DEF Run!TaskAges, Run!TimeoutScan, Run!Stopping, Run!StartAdapter, Run!TypeOK, Run!runVars,
     Run!adapterVars, Run!sockVars
<1>2. CASE Run!Interrupt
  BY <1>2 DEF Run!CloudRunAssumption, Run!Interrupt, Run!Fault, Run!TypeOK, Run!adapterVars, Run!sockVars
<1>3. CASE Run!TaskEnds
  BY <1>3 DEF Run!TaskEnds, Run!Idle, Run!TypeOK, Run!sockVars
<1>4. CASE Run!Save
  BY <1>4 DEF Run!Save, Run!TypeOK, Run!runVars, Run!sockVars
<1>5. ASSUME NEW s \in Story, Run!StoryChanges(s)
      PROVE  Run!TypeOK'
  BY <1>5 DEF Run!StoryChanges, Run!TypeOK, Run!RowStatus, Run!runVars, Run!sockVars
<1> QED BY <1>1, <1>2, <1>3, <1>4, <1>5 DEF Run!Task, Run!Hive

LEMMA PollType ==
    ASSUME Run!CloudRunAssumption, Run!TypeOK, NEW p \in Poll, Run!PollStep(p)
    PROVE  Run!TypeOK'
<1> DEFINE PollOf == [pc : {"idle", "stat", "load", "write", "complete", "announce"},
                      items : SUBSET Run!Item, complete : BOOLEAN]
<1>1. poll \in [Poll -> PollOf] /\ Run!Idle \in PollOf /\ faults \in 0 .. MaxFaults
  BY DEF Run!TypeOK, Run!Idle
<1>2. Run!Fault => faults' \in 0 .. MaxFaults
  BY DEF Run!CloudRunAssumption, Run!Fault, Run!TypeOK
<1>3. CASE Run!Tick(p)
  <2>1. poll' \in [Poll -> PollOf]
    BY <1>1, <1>3 DEF Run!Tick
  <2> QED BY <1>3, <2>1 DEF Run!Tick, Run!TypeOK, Run!runVars, Run!sockVars
<1>4. CASE Run!StatFile(p)
  <2>1. poll' \in [Poll -> PollOf]
    BY <1>1, <1>4 DEF Run!StatFile
  <2> QED BY <1>4, <2>1 DEF Run!StatFile, Run!TypeOK, Run!runVars, Run!sockVars
<1>5. CASE Run!LoadFails(p)
  <2>1. poll' \in [Poll -> PollOf]
    BY <1>1, <1>5 DEF Run!LoadFails
  <2> QED BY <1>2, <1>5, <2>1 DEF Run!LoadFails, Run!TypeOK, Run!runVars, Run!sockVars
<1>6. CASE Run!Diff(p)
  <2>1. {[story |-> s, status |-> hive[s]] : s \in Run!Changed} \in SUBSET Run!Item
    BY DEF Run!Changed, Run!Item, Run!TypeOK
  <2>2. Run!isRunComplete \in BOOLEAN
    BY DEF Run!isRunComplete
  <2>3. poll' \in [Poll -> PollOf]
    BY <1>1, <1>6, <2>1, <2>2 DEF Run!Diff
  <2> QED BY <1>6, <2>3 DEF Run!Diff, Run!TypeOK, Run!runVars, Run!sockVars
<1>7. CASE Run!WriteChunk(p)
  <2>1. PICK i \in poll[p].items :
            /\ rows' = [rows EXCEPT ![i.story] = i.status] /\ lost' = lost \ {i.story}
            /\ poll' = [poll EXCEPT ![p].items = @ \ {i}]
    BY <1>7 DEF Run!WriteChunk
  <2>2. i.story \in Story /\ i.status \in Run!RowStatus
    BY <1>1 DEF Run!Item
  <2>3. poll' \in [Poll -> PollOf]
    BY <1>1, <2>1
  <2> QED BY <1>7, <2>1, <2>2, <2>3 DEF Run!WriteChunk, Run!TypeOK, Run!runVars, Run!sockVars
<1>8. CASE Run!WriteFails(p)
  <2>1. {i.story : i \in poll[p].items} \subseteq Story
    BY <1>1 DEF Run!Item
  <2>2. poll' \in [Poll -> PollOf]
    BY <1>1, <1>8 DEF Run!WriteFails
  <2> QED BY <1>2, <1>8, <2>1, <2>2 DEF Run!WriteFails, Run!TypeOK, Run!runVars, Run!sockVars
<1>9. CASE Run!Emit(p)
  <2>1. poll' \in [Poll -> PollOf]
    BY <1>1, <1>9 DEF Run!Emit
  <2> QED BY <1>9, <2>1 DEF Run!Emit, Run!TypeOK, Run!runVars, Run!sockVars
<1>10. CASE Run!EmitFails(p) \/ Run!CompletionFails(p)
  <2>1. poll' \in [Poll -> PollOf]
    BY <1>1, <1>10 DEF Run!EmitFails, Run!CompletionFails
  <2> QED BY <1>2, <1>10, <2>1 DEF Run!EmitFails, Run!CompletionFails, Run!TypeOK, Run!runVars, Run!sockVars
<1>11. CASE Run!WriteCompleted(p)
  <2>1. poll' \in [Poll -> PollOf]
    BY <1>1, <1>11 DEF Run!WriteCompleted
  <2>2. meta' \in SUBSET Run!MetaItem
    <3>1. meta' = Run!Meta("completed", FALSE)
      BY <1>11 DEF Run!WriteCompleted
    <3>2. "completed" \in {"pending"} \cup Run!Final
      BY DEF Run!Final
    <3> QED BY <3>1, <3>2, MetaType
  <2>3. UNCHANGED <<hive, unread, adapter, seen, rows, bus, lost, create, cancel, task, age,
                    sock, asked, left, subs, faults>>
    BY <1>11 DEF Run!WriteCompleted, Run!runVars, Run!sockVars
  <2> QED BY <2>1, <2>2, <2>3 DEF Run!TypeOK
<1>12. CASE Run!Announce(p)
  <2>1. poll' \in [Poll -> PollOf]
    BY <1>1, <1>12 DEF Run!Announce
  <2> QED BY <1>12, <2>1 DEF Run!Announce, Run!TypeOK, Run!runVars, Run!sockVars
<1> QED BY <1>3, <1>4, <1>5, <1>6, <1>7, <1>8, <1>9, <1>10, <1>11, <1>12 DEF Run!PollStep

LEMMA PageType ==
    ASSUME Run!CloudRunAssumption, Run!TypeOK, Run!Page
    PROVE  Run!TypeOK'
<1>1. Run!Fault => faults' \in 0 .. MaxFaults
  BY DEF Run!CloudRunAssumption, Run!Fault, Run!TypeOK
<1>2. ASSUME NEW c \in Conn, Run!OpenSocket(c) \/ Run!Subscribe(c) \/ Run!Disconnect(c)
      PROVE  Run!TypeOK'
  BY <1>2 DEF Run!OpenSocket, Run!Subscribe, Run!Disconnect, Run!TypeOK, Run!adapterVars, Run!runVars
<1>3. ASSUME NEW c \in Conn, Run!SocketCloses(c)
      PROVE  Run!TypeOK'
  <2>1. sock' \in [Conn -> {"new", "open", "closed"}] /\ left' \subseteq Conn
    BY <1>3 DEF Run!SocketCloses, Run!TypeOK
  <2> QED BY <1>1, <1>3, <2>1 DEF Run!SocketCloses, Run!TypeOK, Run!adapterVars, Run!runVars
<1>4. ASSUME NEW c \in Conn, Run!BroadcastFails(c)
      PROVE  Run!TypeOK'
  BY <1>1, <1>4 DEF Run!BroadcastFails, Run!TypeOK, Run!runVars
<1>5. CASE Run!Broadcast
  BY <1>5 DEF Run!Broadcast, Run!TypeOK, Run!runVars
<1> QED BY <1>2, <1>3, <1>4, <1>5 DEF Run!Page

LEMMA TypeStep ==
    ASSUME Run!CloudRunAssumption, Run!TypeOK, [Run!Next]_(Run!vars)
    PROVE  Run!TypeOK'
<1>1. CASE UNCHANGED Run!vars
  BY <1>1 DEF Run!vars, Run!adapterVars, Run!runVars, Run!sockVars, Run!TypeOK
<1> QED BY <1>1, CreateType, CancelType, TaskType, PollType, PageType DEF Run!Next

\* Every variable keeps its type, for any number of stories, polls, sockets
\* and faults.
THEOREM RunTypes == ASSUME Run!CloudRunAssumption PROVE Run!Spec => []Run!TypeOK
BY TypeInit, TypeStep, PTL DEF Run!Spec

-----------------------------------------------------------------------------
(* Cancelling.                                                             *)

Stopped == task \in {"stopping", "gone"}

\* A task is named only when createRun() is through, so that no other is
\* started; and what cancelRun() is about to write is as true as META.
CancelInv ==
    /\ \A m \in meta \cup cancel.copy : m.arn => create = "done"
    /\ cancel.pc = "put" => \A m \in cancel.copy : m.arn => Stopped
    /\ CancelledIsStopped

LEMMA CancelInvInit == Run!Init => CancelInv
BY DEF Run!Init, CancelInv, CancelledIsStopped

\* A step that starts no task and writes nothing about one.
LEMMA CancelQuiet ==
    ASSUME CancelInv, UNCHANGED <<meta, cancel>>,
           create = "done" => create' = "done", Stopped => Stopped'
    PROVE  CancelInv'
BY DEF CancelInv, CancelledIsStopped, Stopped

LEMMA CancelInvStep ==
    ASSUME Run!TypeOK, CancelInv, [Run!Next]_(Run!vars)
    PROVE  CancelInv'
<1>1. CASE Run!PutPending \/ Run!Enqueue \/ Run!RecordTask \/ Run!CreateFails
  BY <1>1 DEF Run!PutPending, Run!Enqueue, Run!RecordTask, Run!CreateFails, Run!Meta, CancelInv,
     CancelledIsStopped, Stopped
<1>2. CASE Run!RunTask
  <2>1. create = "launch" /\ UNCHANGED <<meta, cancel>>
    BY <1>2 DEF Run!RunTask
  <2>2. \A m \in meta \cup cancel.copy : ~m.arn
    BY <2>1 DEF CancelInv
  <2> QED BY <2>1, <2>2 DEF CancelInv, CancelledIsStopped
<1>3. CASE Run!ReadMeta
  BY <1>3 DEF Run!ReadMeta, CancelInv, CancelledIsStopped, Stopped
<1>4. CASE Run!StopTask
  <2>1. Stopped' /\ UNCHANGED <<meta, create>> /\ cancel'.copy = cancel.copy
    BY <1>4 DEF Run!StopTask, Run!Stopping, Stopped, Run!TypeOK
  <2> QED BY <2>1 DEF CancelInv, CancelledIsStopped, Stopped
<1>5. CASE Run!StopFails
  BY <1>5 DEF Run!StopFails, CancelInv, CancelledIsStopped, Stopped
<1>6. CASE Run!PutCancelled
  <2>1. cancel.pc = "put" /\ cancel'.pc = "idle" /\ cancel'.copy = {} /\ UNCHANGED <<task, create>>
    BY <1>6 DEF Run!PutCancelled
  <2>2. \A n \in meta' : \E m \in cancel.copy : n.arn = m.arn
    BY <1>6 DEF Run!PutCancelled, Run!Meta
  <2>3. \A n \in meta' : n.arn => create = "done" /\ Stopped
    BY <2>1, <2>2 DEF CancelInv
  <2> QED BY <2>1, <2>3 DEF CancelInv, CancelledIsStopped, Stopped
<1>7. CASE Run!Task \/ Run!Hive
  <2>1. UNCHANGED <<meta, cancel, create>> /\ (Stopped => Stopped')
    BY <1>7 DEF Run!Task, Run!TaskAges, Run!TimeoutScan, Run!Stopping, Run!StartAdapter, Run!Interrupt,
       Run!TaskEnds, Run!Hive, Run!Save,
                Run!StoryChanges, Run!runVars, Stopped
  <2> QED BY <2>1, CancelQuiet
<1>8. ASSUME NEW p \in Poll, Run!PollStep(p)
      PROVE  CancelInv'
  <2>1. CASE Run!WriteCompleted(p)
    <3>1. meta' = Run!Meta("completed", FALSE) /\ UNCHANGED Run!runVars
      BY <2>1 DEF Run!WriteCompleted
    <3>2. \A m \in meta' : ~m.arn
      BY <3>1 DEF Run!Meta
    <3> QED BY <3>1, <3>2 DEF Run!runVars, CancelInv, CancelledIsStopped, Stopped
  <2>2. CASE ~Run!WriteCompleted(p)
    <3>1. UNCHANGED <<Run!runVars, meta>>
      BY <1>8, <2>2 DEF Run!PollStep, Run!Tick, Run!StatFile, Run!LoadFails, Run!Diff, Run!WriteChunk,
         Run!WriteFails, Run!Emit, Run!EmitFails,
                        Run!Announce, Run!CompletionFails
    <3> QED BY <3>1, CancelQuiet DEF Run!runVars, Stopped
  <2> QED BY <2>1, <2>2
<1>9. CASE Run!Page
  <2>1. UNCHANGED <<Run!runVars, meta>>
    BY <1>9 DEF Run!Page, Run!OpenSocket, Run!SocketCloses, Run!Subscribe, Run!Disconnect, Run!Broadcast,
       Run!BroadcastFails
  <2> QED BY <2>1, CancelQuiet DEF Run!runVars, Stopped
<1>10. CASE UNCHANGED Run!vars
  BY <1>10, CancelQuiet DEF Run!vars, Run!runVars, Stopped
<1> QED BY <1>1, <1>2, <1>3, <1>4, <1>5, <1>6, <1>7, <1>8, <1>9, <1>10 DEF Run!Next, Run!Create, Run!Cancel

\* A run that says "cancelled" and names its task had that task stopped, in
\* whatever order cancelRun(), createRun() and the adapter wrote META.
THEOREM CancelledRunsStop == ASSUME Run!CloudRunAssumption PROVE Run!Spec => []CancelledIsStopped
<1>1. CancelInv => CancelledIsStopped
  BY DEF CancelInv
<1> QED BY <1>1, TypeInit, TypeStep, CancelInvInit, CancelInvStep, PTL DEF Run!Spec

-----------------------------------------------------------------------------
(* Completion.                                                             *)

\* What the adapter takes for mirrored is, or waits in the batch of a poll, or
\* its write failed.
Mirrored(s) == seen[s] # "none" => rows[s] = seen[s] \/ s \in lost

MirrorOf(p) ==
    /\ \A i \in poll[p].items : i.status = seen[i.story] /\ poll[p].pc = "write"
    /\ \A s \in Story : Mirrored(s) \/ \E i \in poll[p].items : i.story = s
    /\ poll[p].complete => \A s \in Story : seen[s] \in {"none", "merged"}
    /\ poll[p].pc \in {"complete", "announce"} => poll[p].complete

\* With the task the adapter ends, in the middle of a batch or not.
MirrorInv == \A p \in Poll : (adapter = "stopped" /\ poll[p] = Run!Idle) \/ MirrorOf(p)

LEMMA MirrorInvInit == Run!Init => MirrorInv
BY DEF Run!Init, MirrorInv, MirrorOf, Mirrored, Run!Idle

LEMMA MirrorQuiet ==
    ASSUME MirrorInv, UNCHANGED <<adapter, seen, poll, rows, lost>>
    PROVE  MirrorInv'
BY DEF MirrorInv, MirrorOf, Mirrored, Run!Idle

LEMMA MirrorPoll ==
    ASSUME Run!TypeOK, MirrorInv, \A p, q \in Poll : p = q, NEW p \in Poll, Run!PollStep(p)
    PROVE  MirrorInv'
<1>1. SUFFICES (adapter' = "stopped" /\ poll'[p] = Run!Idle) \/ MirrorOf(p)'
  BY DEF MirrorInv
<1> USE DEF Run!TypeOK
<1>2. CASE adapter = "stopped" /\ poll[p] = Run!Idle
  BY <1>2 DEF Run!PollStep, Run!Tick, Run!StatFile, Run!LoadFails, Run!Diff, Run!WriteChunk,
     Run!WriteFails, Run!Emit, Run!EmitFails,
              Run!WriteCompleted, Run!Announce, Run!CompletionFails, Run!Idle
<1>3. CASE MirrorOf(p)
  <2> USE <1>3
  <2>1. CASE Run!Tick(p) \/ Run!StatFile(p)
    BY <2>1 DEF Run!Tick, Run!StatFile, MirrorOf, Mirrored
  <2>2. CASE Run!LoadFails(p) \/ Run!EmitFails(p) \/ Run!CompletionFails(p)
    BY <2>2 DEF Run!LoadFails, Run!EmitFails, Run!CompletionFails, MirrorOf, Mirrored, Run!Idle
  <2>3. CASE Run!Diff(p)
    <3> DEFINE Batch == {[story |-> s, status |-> hive[s]] : s \in Run!Changed}
    <3>1. seen' = hive /\ UNCHANGED <<rows, lost>>
      BY <2>3 DEF Run!Diff
    <3>2. poll[p].items = {}
      BY <2>3 DEF Run!Diff, MirrorOf
    <3>3. \A s \in Story \ Run!Changed : Mirrored(s)'
      BY <3>1, <3>2 DEF MirrorOf, Mirrored, Run!Changed
    <3>4. ASSUME NEW s \in Run!Changed
          PROVE  \E i \in Batch : i.story = s
      <4>1. [story |-> s, status |-> hive[s]] \in Batch
        OBVIOUS
      <4> HIDE DEF Batch
      <4> QED BY <4>1
    <3>5. \A i \in Batch : i.status = seen'[i.story]
      BY <3>1
    <3>6. Run!isRunComplete => \A s \in Story : seen'[s] \in {"none", "merged"}
      BY <3>1 DEF Run!isRunComplete
    <3>7. CASE Run!Changed = {} /\ ~Run!isRunComplete
      BY <2>3, <3>3, <3>7 DEF Run!Diff, MirrorOf, Run!Idle
    <3>8. CASE ~(Run!Changed = {} /\ ~Run!isRunComplete)
      <4>1. poll'[p] = [pc |-> IF Run!Changed = {} THEN "complete" ELSE "write",
                        complete |-> Run!isRunComplete, items |-> Batch]
        BY <2>3, <3>8 DEF Run!Diff
      <4>2. \A i \in Batch : Run!Changed # {}
        OBVIOUS
      <4> HIDE DEF Batch
      <4> QED BY <3>3, <3>4, <3>5, <3>6, <3>8, <4>1, <4>2 DEF MirrorOf
    <3> QED BY <3>7, <3>8
  <2>4. CASE Run!WriteChunk(p)
    <3>1. PICK i \in poll[p].items :
              /\ rows' = [rows EXCEPT ![i.story] = i.status] /\ lost' = lost \ {i.story}
              /\ poll' = [poll EXCEPT ![p].items = @ \ {i}]
      BY <2>4 DEF Run!WriteChunk
    <3>2. i.story \in Story /\ i.status = seen[i.story] /\ UNCHANGED seen
      BY <2>4 DEF Run!WriteChunk, MirrorOf, Run!Item
    <3>3. /\ poll'[p].items = poll[p].items \ {i} /\ poll'[p].pc = poll[p].pc
          /\ poll'[p].complete = poll[p].complete
      BY <3>1
    <3>4. Mirrored(i.story)'
      BY <3>1, <3>2 DEF Mirrored
    <3>5. \A s \in Story \ {i.story} : Mirrored(s) => Mirrored(s)'
      BY <3>1, <3>2 DEF Mirrored
    <3> QED BY <3>2, <3>3, <3>4, <3>5 DEF MirrorOf
  <2>5. CASE Run!WriteFails(p)
    <3>1. /\ lost' = lost \cup {i.story : i \in poll[p].items} /\ poll'[p] = Run!Idle
          /\ UNCHANGED <<rows, seen>>
      BY <2>5 DEF Run!WriteFails
    <3>2. \A s \in Story : Mirrored(s)'
      BY <3>1 DEF MirrorOf, Mirrored
    <3> QED BY <3>1, <3>2 DEF MirrorOf, Run!Idle
  <2>6. CASE Run!Emit(p)
    <3>1. UNCHANGED <<seen, rows, lost>> /\ poll[p].items = {}
      BY <2>6 DEF Run!Emit
    <3>2. poll'[p] = Run!Idle \/ (poll[p].complete /\ poll'[p] = [poll[p] EXCEPT !.pc = "complete"])
      BY <2>6 DEF Run!Emit
    <3>3. CASE poll'[p] = Run!Idle
      BY <3>1, <3>3 DEF MirrorOf, Mirrored, Run!Idle
    <3>4. CASE poll[p].complete /\ poll'[p] = [poll[p] EXCEPT !.pc = "complete"]
      BY <3>1, <3>4 DEF MirrorOf, Mirrored
    <3> QED BY <3>2, <3>3, <3>4
  <2>7. CASE Run!WriteCompleted(p) \/ Run!Announce(p)
    <3>1. UNCHANGED <<seen, rows, lost>> /\ poll[p].items = {} /\ poll[p].complete
      BY <2>7 DEF Run!WriteCompleted, Run!Announce, MirrorOf
    <3>2. poll'[p] = Run!Idle \/ poll'[p] = [poll[p] EXCEPT !.pc = "announce"]
      BY <2>7 DEF Run!WriteCompleted, Run!Announce
    <3> QED BY <3>1, <3>2 DEF MirrorOf, Mirrored, Run!Idle
  <2> QED BY <2>1, <2>2, <2>3, <2>4, <2>5, <2>6, <2>7, <1>1 DEF Run!PollStep
<1> QED BY <1>2, <1>3, <1>1 DEF MirrorInv

LEMMA MirrorInvStep ==
    ASSUME Run!TypeOK, MirrorInv, \A p, q \in Poll : p = q, [Run!Next]_(Run!vars)
    PROVE  MirrorInv'
<1>1. CASE Run!Create \/ Run!Cancel
  BY <1>1, MirrorQuiet DEF Run!Create, Run!PutPending, Run!Enqueue, Run!RunTask, Run!RecordTask,
     Run!CreateFails,
                           Run!Cancel, Run!ReadMeta, Run!StopTask, Run!StopFails, Run!PutCancelled,
                           Run!adapterVars
<1>2. CASE Run!TaskAges \/ Run!TimeoutScan \/ Run!Interrupt \/ Run!Hive
  BY <1>2, MirrorQuiet DEF Run!TaskAges, Run!TimeoutScan, Run!Interrupt, Run!Hive, Run!Save,
     Run!StoryChanges, Run!adapterVars
<1>3. CASE Run!StartAdapter
  BY <1>3 DEF Run!StartAdapter, MirrorInv, MirrorOf, Mirrored, Run!Idle
<1>4. CASE Run!TaskEnds
  BY <1>4 DEF Run!TaskEnds, MirrorInv
<1>5. CASE Run!Page
  BY <1>5, MirrorQuiet DEF Run!Page, Run!OpenSocket, Run!SocketCloses, Run!Subscribe, Run!Disconnect,
     Run!Broadcast, Run!BroadcastFails,
                           Run!adapterVars
<1>6. CASE UNCHANGED Run!vars
  BY <1>6, MirrorQuiet DEF Run!vars, Run!adapterVars
<1> QED BY <1>1, <1>2, <1>3, <1>4, <1>5, <1>6, MirrorPoll DEF Run!Next, Run!Task

\* META says "completed" in the adapter's words only.
LEMMA Completing ==
    ASSUME [Run!Next]_(Run!vars), NEW n \in meta', n.status = "completed", meta' # meta
    PROVE  \E p \in Poll : Run!WriteCompleted(p)
<1>1. CASE Run!Create
  BY <1>1 DEF Run!Create, Run!PutPending, Run!Enqueue, Run!RunTask, Run!RecordTask, Run!CreateFails, Run!Meta
<1>2. CASE Run!Cancel
  BY <1>2 DEF Run!Cancel, Run!ReadMeta, Run!StopTask, Run!StopFails, Run!PutCancelled, Run!Meta
<1>3. CASE Run!Task \/ Run!Hive
  BY <1>3 DEF Run!Task, Run!TaskAges, Run!TimeoutScan, Run!StartAdapter, Run!Interrupt, Run!TaskEnds,
     Run!Hive, Run!Save, Run!StoryChanges
<1>4. ASSUME NEW p \in Poll, Run!PollStep(p)
      PROVE  Run!WriteCompleted(p)
  BY <1>4 DEF Run!PollStep, Run!Tick, Run!StatFile, Run!LoadFails, Run!Diff, Run!WriteChunk,
     Run!WriteFails, Run!Emit, Run!EmitFails,
              Run!Announce, Run!CompletionFails
<1>5. CASE Run!Page \/ UNCHANGED Run!vars
  BY <1>5 DEF Run!Page, Run!OpenSocket, Run!SocketCloses, Run!Subscribe, Run!Disconnect, Run!Broadcast,
     Run!BroadcastFails, Run!vars
<1> QED BY <1>1, <1>2, <1>3, <1>4, <1>5 DEF Run!Next

\* As long as no poll outlasts the interval, so that one is under way at a
\* time: when the adapter declares the run complete, every story it has seen
\* is in DynamoDB as merged, or was in a batch whose write failed.
THEOREM CompletedRunsAreMirrored ==
    ASSUME Run!CloudRunAssumption, \A p, q \in Poll : p = q
    PROVE  Run!Spec => CompletedWasMerged
<1>1. ASSUME Run!TypeOK, MirrorInv, [Run!Next]_(Run!vars)
      PROVE  [(\E m \in meta' : m.status = "completed")
                 => \A s \in DOMAIN seen : seen[s] # "none" => rows[s] = "merged" \/ s \in lost]_meta
  <2> SUFFICES ASSUME NEW m \in meta', m.status = "completed", meta' # meta,
                      NEW s \in Story, seen[s] # "none"
               PROVE  rows[s] = "merged" \/ s \in lost
    BY <1>1 DEF Run!TypeOK
  <2>1. PICK p \in Poll : Run!WriteCompleted(p)
    BY <1>1, Completing
  <2>2. MirrorOf(p) /\ poll[p].items = {} /\ poll[p].complete
    BY <1>1, <2>1 DEF MirrorInv, MirrorOf, Run!WriteCompleted, Run!Idle
  <2>3. Mirrored(s) /\ seen[s] = "merged"
    BY <2>2 DEF MirrorOf
  <2> QED BY <2>3 DEF Mirrored
<1> QED BY <1>1, TypeInit, TypeStep, MirrorInvInit, MirrorInvStep, PTL DEF Run!Spec, CompletedWasMerged
=============================================================================
