----------------------------- MODULE Monitoring ------------------------------
(***************************************************************************)
(* How the manager watches its agents: what a check does with the session  *)
(* of each (scanAgentSessions() in manager/index.ts, escalation-handler.ts,*)
(* agent-monitoring.ts), with stories that are stuck                       *)
(* (stuck-story-processor.ts, stuck-story-helpers.ts, done-intelligence.ts)*)
(* and with the escalations that come of it, for which a human answers.    *)
(*                                                                         *)
(* A check captures a terminal, decides, types into it, asks a classifier  *)
(* that may take minutes, and takes the lock for each access to the        *)
(* database; agents and humans act in between.  A terminal is abstracted   *)
(* to what the detectors make of it.  Of the waiting times there are the   *)
(* static-screen window, the cooldown after a reminder and the lookback    *)
(* for escalations; the others have passed.                                *)
(*                                                                         *)
(* How an inferred completion gets through the merge queue is MergeQueue,  *)
(* who gets which story Assignment.  Here a session that ends comes back   *)
(* with a new agent for the same story.                                    *)
(***************************************************************************)
EXTENDS MonitoringPromises, FiniteSets, SequencesExt

CONSTANTS
    Story,      \* stories, in the order in which they are worked on
    Shown,      \* what terminals show change to in the instance
    Branchless, \* stories whose branch cannot be told
    HardReset,  \* INTERRUPTION_HARD_RESET_ATTEMPTS
    MaxAgents,  \* bound: agents that a session has one after the other
    MaxEvents   \* bound: changes of a terminal, deaths of a session and of the manager

\* What the detector of a CLI makes of a terminal, and what is looked for ahead of it.
Detected    == {"active", "asking", "permission", "plan", "complete", "idle", "unknown"}
Recoverable == {"interrupted", "throttled"}
Screens     == Detected \cup Recoverable
Human   == {"asking", "permission", "plan", "interrupted"}
Waiting == Human \cup {"idle", "complete", "throttled"}
Verdicts == {"done", "undone", "timeout"}

ASSUME MonitoringAssumption ==
    /\ IsFiniteSet(Session) /\ IsFiniteSet(Story) /\ Shown \subseteq Screens
    /\ Branchless \subseteq Story /\ Cardinality(Session) <= Cardinality(Story)
    /\ MaxNudges \in Nat /\ HardReset \in Nat /\ MaxAgents \in Nat \ {0} /\ MaxEvents \in Nat

VARIABLES
    progress, \* status of each story
    lately,   \* agents of which one was made within the lookback, resolved or not
    window,   \* screenStaticBySession: is the screen the one last seen, and for how long
    mem,      \* what the manager remembers of a session: reminders, attempts, interventions
    at,       \* the step that the check is at
    todo,     \* sessions that the step has not come to
    saw,      \* the session that is dealt with, and what its terminal showed
    events    \* so far

world == <<term, progress>>
mgr   == <<at, todo, listed, saw>>
rows  == <<esc, lately>>
vars  == <<world, rows, window, mem, mgr, reminded, events>>

None == "none"
Gone == "gone"
Escalation == [by : Session \X (1 .. MaxAgents), story : Story \cup {None}, kind : Kinds,
               status : {"pending", "acknowledged"}]
Fresh    == [nudges |-> 0, cooling |-> FALSE, attempts |-> 0, held |-> {}]
Unseen   == [same |-> FALSE, old |-> FALSE]
Nothing  == [session |-> None, screen |-> None]
Alive(s) == term[s].shows # Gone
\* captureTmuxPane() returns nothing for a session that is gone.
Capture(s) == IF Alive(s) THEN term[s].shows ELSE "unknown"

Agent(s)  == <<s, term[s].by>>
Told(s)   == \E e \in esc : e.by = Agent(s)

Init ==
    /\ LET First == CHOOSE f \in [Session -> Story] : \A s, t \in Session : f[s] = f[t] => s = t IN
       \E shows \in [Session -> {"active", "idle"}] :
          term = [s \in Session |-> [shows |-> shows[s], by |-> 1, story |-> First[s]]]
    /\ progress = [x \in Story |-> IF \E s \in Session : term[s].story = x THEN "in_progress" ELSE "planned"]
    /\ esc = {} /\ lately = {} /\ window = [s \in Session |-> Unseen] /\ mem = [s \in Session |-> Fresh]
    /\ at = "rest" /\ todo = {} /\ listed = <<>> /\ saw = Nothing
    /\ reminded = [s \in Session |-> 0] /\ events = 0

(***************************************************************************)
(* Agents, humans, time.                                                   *)
(***************************************************************************)
\* What others do is between the checks, between what a check sees and what it makes of it,
\* or while the classifier thinks; it commutes with the other steps of the check.  The
\* waiting times end between the checks.
Pauses  == {"rest", "act", "ask", "askStuck"}
Happens == at \in Pauses /\ events < MaxEvents /\ events' = events + 1
\* The agent goes on, or the human at its terminal makes it.
Change(s, x) ==
    /\ Alive(s) /\ Happens /\ term' = [term EXCEPT ![s].shows = x]
    /\ window' = [window EXCEPT ![s].same = FALSE] /\ reminded' = [reminded EXCEPT ![s] = 0]
    /\ UNCHANGED <<progress, rows, mem, mgr>>
\* hive pr submit
Submit(s) ==
    /\ Alive(s) /\ at \in Pauses /\ term[s].story # None /\ progress[term[s].story] = "in_progress"
    /\ progress' = [progress EXCEPT ![term[s].story] = "pr_submitted"]
    /\ UNCHANGED <<term, rows, window, mem, mgr, reminded, events>>
\* Its story is merged, and the agent gets another one if there is one.
Proceed(s, x) ==
    /\ Alive(s) /\ at \in Pauses /\ term[s].story # None /\ progress[term[s].story] = "pr_submitted"
    /\ IF x = None THEN \A y \in Story : progress[y] # "planned" ELSE progress[x] = "planned"
    /\ progress' = [y \in Story |-> CASE y = term[s].story -> "merged" [] y = x -> "in_progress" [] OTHER -> progress[y]]
    /\ term' = [term EXCEPT ![s].story = x]
    /\ UNCHANGED <<rows, window, mem, mgr, reminded, events>>
Dies(s) ==
    /\ Alive(s) /\ Happens /\ term' = [term EXCEPT ![s].shows = Gone]
    /\ reminded' = [reminded EXCEPT ![s] = 0]
    /\ UNCHANGED <<progress, rows, window, mem, mgr>>
\* The health check terminates the agent, whose story goes to a new one in a session with
\* the same name.
Respawn(s) ==
    /\ ~Alive(s) /\ term[s].by < MaxAgents /\ at = "rest"
    /\ term' = [term EXCEPT ![s].shows = "active", ![s].by = @ + 1]
    /\ window' = [window EXCEPT ![s].same = FALSE] /\ reminded' = [reminded EXCEPT ![s] = 0]
    /\ UNCHANGED <<progress, rows, mem, mgr, events>>
\* hive escalations resolve, hive approvals approve and deny; hive escalations acknowledge.
Answer(e) ==
    /\ at \in Pauses /\ esc' = esc \ {e}
    /\ UNCHANGED <<world, lately, window, mem, mgr, reminded, events>>
Acknowledge(e) ==
    /\ at \in Pauses /\ e.status = "pending" /\ esc' = (esc \ {e}) \cup {[e EXCEPT !.status = "acknowledged"]}
    /\ UNCHANGED <<world, lately, window, mem, mgr, reminded, events>>
Quiet(s) ==
    /\ at = "rest" /\ ~window[s].old /\ window[s].same /\ window' = [window EXCEPT ![s].old = TRUE]
    /\ UNCHANGED <<world, rows, mem, mgr, reminded, events>>
Cooled(s) ==
    /\ at = "rest" /\ mem[s].cooling /\ mem' = [mem EXCEPT ![s].cooling = FALSE]
    /\ UNCHANGED <<world, rows, window, mgr, reminded, events>>
\* (mutant) what was made once counts for ever.
NeverForget == FALSE /\ UNCHANGED vars
\* The lookback ends.
Forget ==
    /\ at = "rest" /\ lately # {} /\ lately' = {}
    /\ UNCHANGED <<world, esc, window, mem, mgr, reminded, events>>

(***************************************************************************)
(* The parts that both scanAgentSessions() and nudgeStuckStories() use.    *)
(* A step that types into a session that is gone ends the check.           *)
(***************************************************************************)
Goto(step, left) == at' = step /\ todo' = left /\ saw' = Nothing
Done(s, blocked)  == /\ Goto(IF at \in {"act", "ask"} THEN "scan" ELSE "stuck", todo \ {s})
                     /\ listed' = [listed EXCEPT ![s].blocked = blocked]
Abort == Goto("rest", {}) /\ listed' = <<>>
Typed(s, blocked) == IF Alive(s) THEN Done(s, blocked) ELSE Abort

Row(s, kind) == [by |-> listed[s].by, story |-> IF kind = "approval" THEN None ELSE listed[s].story, kind |-> kind, status |-> "pending"]
Insert(s, kind) == esc' = esc \cup {Row(s, kind)} /\ lately' = lately \cup {listed[s].by}
OfAgent(s)   == {e \in esc : e.by = listed[s].by}
Held(s, kind) == [kind |-> kind, story |-> listed[s].story]

\* markClassifierTimeoutForHumanIntervention(), markDoneFalseForHumanIntervention(): the
\* row is written unless the agent has an active one of the kind.  before is what was held.
Mark(s, kind, before) ==
    /\ mem' = [mem EXCEPT ![s].held = {h \in before : h.kind # kind} \cup {Held(s, kind)}]
    /\ IF \E e \in OfAgent(s) : e.kind = kind THEN UNCHANGED rows ELSE Insert(s, kind)
    /\ Done(s, TRUE) /\ UNCHANGED <<world, window, reminded, events>>

\* It is typed and submitted, which is verified; counted as long as that can matter.
nudgeAgent(s) == reminded' = [reminded EXCEPT ![s] = IF Alive(s) /\ @ <= MaxNudges THEN @ + 1 ELSE @]
RemindUncounted(s) ==  \* (mutant) it does not count
    /\ mem' = [mem EXCEPT ![s].held = {}, ![s].cooling = Alive(s) \/ @]
    /\ nudgeAgent(s) /\ Typed(s, listed[s].blocked) /\ UNCHANGED <<world, rows, window, events>>
Remind(s) ==
    /\ mem' = [mem EXCEPT ![s].held = {}, ![s].cooling = Alive(s) \/ @, ![s].nudges = IF Alive(s) THEN @ + 1 ELSE @]
    /\ nudgeAgent(s) /\ Typed(s, listed[s].blocked) /\ UNCHANGED <<world, rows, window, events>>

\* What becomes of the verdict, about what the check saw, of the story that it has listed.
TimesOut(s) == Mark(s, "timeout", mem[s].held)
NeverMarked(s) ==  \* (mutant) it is reminded no more, and that is all
    IF mem[s].nudges < MaxNudges THEN Remind(s)
    ELSE Done(s, listed[s].blocked) /\ UNCHANGED <<world, rows, window, mem, reminded, events>>
\* The agent is not done: it is reminded as often as allowed, then a human is told.
SaysUndone(s) == IF mem[s].nudges < MaxNudges THEN Remind(s) ELSE Mark(s, "doneFalse", {})
\* autoProgressDoneStory() finds the pull request or makes one, unless for want of a branch.
CanProgress(story) == story \notin Branchless \/ progress[story] = "pr_submitted"
autoProgressDoneStory(s) ==
    /\ CanProgress(listed[s].story) /\ progress' = [progress EXCEPT ![listed[s].story] = "pr_submitted"]
    /\ Typed(s, listed[s].blocked)
SaysDone(s) ==
    /\ autoProgressDoneStory(s) /\ mem' = [mem EXCEPT ![s].held = {}]
    /\ UNCHANGED <<term, rows, window, reminded, events>>
\* If it makes none, only nudgeStuckStories() goes on to the reminder.
SaysDoneInVain(s) ==
    /\ ~CanProgress(listed[s].story)
    /\ \/ at = "askStuck" /\ mem[s].nudges < MaxNudges /\ Remind(s)
       \/ /\ at = "ask" \/ mem[s].nudges >= MaxNudges
          /\ mem' = [mem EXCEPT ![s].held = {}]
          /\ Done(s, listed[s].blocked) /\ UNCHANGED <<world, rows, window, reminded, events>>

\* The verdict comes from a classifier, which may be out of time, or else from patterns; any
\* is possible.
Assess(s, verdict) ==
    /\ saw.session = s /\ at \in {"ask", "askStuck"}
    /\ \/ verdict = "timeout" /\ TimesOut(s)
       \/ verdict = "undone" /\ SaysUndone(s)
       \/ verdict = "done" /\ (SaysDone(s) \/ SaysDoneInVain(s))

(***************************************************************************)
(* scanAgentSessions().                                                    *)
(***************************************************************************)
findStaleSessionEscalations(live) == {e \in esc : e.status = "pending" /\ ~\E s \in live : Agent(s) = e.by}
prepareSessionData(live) == [s \in live |-> [by |-> Agent(s), story |-> term[s].story, blocked |-> FALSE]]
\* The check reads the tables and lists the sessions; resolveStaleEscalations() ends
\* pending escalations whose agent has none, which may be when they still count as recent.
Begin ==
    LET Live == {s \in Session : Alive(s)}
        Stale == findStaleSessionEscalations(Live) IN
    /\ at = "rest"
    /\ \E E \in SUBSET Stale : {e \in Stale : e.by \notin lately} \subseteq E /\ esc' = esc \ E
    /\ Goto("scan", Live) /\ listed' = prepareSessionData(Live)
    /\ UNCHANGED <<world, lately, window, mem, reminded, events>>

\* The manager's own reminders are not part of the screen that is compared.
updateScreenStaticTracking(w) == IF w.same THEN w ELSE [same |-> TRUE, old |-> FALSE]
Scan(s) ==
    /\ at = "scan" /\ s \in todo
    /\ saw' = [session |-> s, screen |-> Capture(s)] /\ at' = "act"
    /\ window' = [window EXCEPT ![s] = updateScreenStaticTracking(@)]
    /\ UNCHANGED <<world, rows, mem, todo, listed, reminded, events>>

\* applyHumanInterventionStateOverride(): what is held for another story is dropped; a row
\* holds the session as well, while it is active if its own agent's, while pending if not.
StillHeld(s) == {h \in mem[s].held : h.story = listed[s].story}
HeldByMemory(s) == StillHeld(s) # {}  \* (mutant) the rows do not count
HeldForHuman(s) ==
    /\ listed[s].story # None
    /\ \/ StillHeld(s) # {}
       \/ \E e \in esc : /\ e.kind \in Interventions /\ e.story = listed[s].story
                         /\ e.status = "pending" \/ e.by = listed[s].by
State(s) == IF HeldForHuman(s) THEN "asking" ELSE saw.screen

\* updateAgentStateTracking() and what follows it
Tracked(s) ==
    IF State(s) \in Waiting THEN [mem[s] EXCEPT !.held = StillHeld(s)]
                           ELSE [mem[s] EXCEPT !.nudges = 0, !.held = {}, !.attempts = 0]
Acting(s)    == at = "act" /\ saw.session = s
Keeps(s, m)  == mem' = [mem EXCEPT ![s] = m]

\* Keys that the manager presses, in what the terminal shows by then
Press(s, from, to) ==
    IF term[s].shows = from
    THEN term' = [term EXCEPT ![s].shows = to] /\ window' = [window EXCEPT ![s].same = FALSE]
    ELSE UNCHANGED <<term, window>>
autoApprovePermission(s) == Press(s, "permission", "active")
forceBypassMode(s)       == Press(s, "plan", "idle")
\* handlePermissionPrompt(), of an agent in unsafe mode
AutoApprove(s) ==
    /\ Acting(s) /\ State(s) = "permission" /\ Alive(s) /\ Keeps(s, Tracked(s))
    /\ autoApprovePermission(s) /\ Done(s, TRUE) /\ UNCHANGED <<progress, rows, reminded, events>>
\* The rate limit is looked for in what the terminal shows, whatever the state.
BackOff(s) ==
    /\ Acting(s) /\ saw.screen = "throttled" /\ Keeps(s, Tracked(s))
    /\ Typed(s, TRUE) /\ UNCHANGED <<world, rows, window, reminded, events>>
Continue(s) ==
    /\ Acting(s) /\ State(s) = "interrupted" /\ mem[s].attempts < HardReset
    /\ Keeps(s, [Tracked(s) EXCEPT !.attempts = IF Alive(s) THEN @ + 1 ELSE @])
    /\ Typed(s, TRUE) /\ UNCHANGED <<world, rows, window, reminded, events>>
Restart(s) ==
    /\ Acting(s) /\ State(s) = "interrupted" /\ mem[s].attempts >= HardReset
    /\ Keeps(s, [Tracked(s) EXCEPT !.attempts = 0])
    /\ term' = [term EXCEPT ![s].shows = Gone] /\ reminded' = [reminded EXCEPT ![s] = 0]
    /\ Done(s, TRUE) /\ UNCHANGED <<progress, rows, window, events>>
\* A plan is left when bypass mode is restored, which may fail; the human is told anyway.
Escalate(s) ==
    /\ Acting(s) /\ State(s) \in Human \ {"interrupted"} /\ saw.screen # "throttled"
    /\ Keeps(s, Tracked(s))
    /\ \E restored \in {FALSE, State(s) = "plan" /\ Alive(s)} :
          /\ IF restored THEN forceBypassMode(s) ELSE UNCHANGED <<term, window>>
          /\ IF listed[s].by \in lately
             THEN UNCHANGED rows /\ Done(s, ~restored)
             ELSE Insert(s, "approval") /\ Typed(s, ~restored)
    /\ UNCHANGED <<progress, reminded, events>>
Recovered(s) ==
    /\ Acting(s) /\ State(s) \notin Waiting /\ Keeps(s, Tracked(s))
    /\ esc' = esc \ OfAgent(s)
    /\ Done(s, FALSE) /\ UNCHANGED <<world, lately, window, reminded, events>>
\* The full assessment, once the screen has been the same long enough; a throttled session
\* gets it while it backs off.
Idle(s) ==
    /\ Acting(s) /\ State(s) \in Waiting \ Human /\ Keeps(s, Tracked(s))
    /\ IF window[s].old /\ listed[s].story # None /\ progress[listed[s].story] # "merged"
       THEN at' = "ask" /\ UNCHANGED <<todo, saw>> /\ listed' = [listed EXCEPT ![s].blocked = State(s) = "throttled"]
       ELSE Done(s, State(s) = "throttled")
    /\ UNCHANGED <<world, rows, window, reminded, events>>
\* While there is an auditor it sees to the stories that are stuck (spawnAuditorIfNeeded()).
ScanEnds ==
    /\ at = "scan" /\ todo = {}
    /\ \/ /\ Goto("stuck", {s \in DOMAIN listed : listed[s].story # None /\ progress[listed[s].story] = "in_progress"})
          /\ UNCHANGED listed
       \/ Abort
    /\ UNCHANGED <<world, rows, window, mem, reminded, events>>

(***************************************************************************)
(* nudgeStuckStories().                                                    *)
(***************************************************************************)
Skip(s) == Done(s, FALSE) /\ UNCHANGED <<world, rows, window, mem, reminded, events>>
Look(s) ==
    LET y == Capture(s)
        Attended == listed[s].blocked \/ mem[s].cooling \/ y \in Human
        Moving   == y = "active" \/ (y = "unknown" /\ ~window[s].old)
        Resting  == y = "complete" \/ (window[s].old /\ y \in {"idle", "throttled", "unknown"}) IN
    /\ at = "stuck" /\ s \in todo
    /\ \/ (Attended \/ ~(Moving \/ Resting)) /\ Skip(s)
       \/ /\ ~Attended /\ Moving
          /\ mem' = [mem EXCEPT ![s].nudges = 0, ![s].held = {}]
          /\ Done(s, FALSE) /\ UNCHANGED <<world, rows, window, reminded, events>>
       \/ /\ ~Attended /\ Resting
          /\ at' = "askStuck" /\ saw' = [session |-> s, screen |-> y]
          /\ UNCHANGED <<world, rows, window, mem, todo, listed, reminded, events>>
StuckEnds ==
    /\ at = "stuck" /\ todo = {} /\ Abort
    /\ UNCHANGED <<world, rows, window, mem, reminded, events>>

ManagerDies ==
    /\ Happens /\ Abort /\ mem' = [s \in Session |-> Fresh] /\ window' = [s \in Session |-> Unseen]
    /\ reminded' = [s \in Session |-> 0] /\ UNCHANGED <<world, rows>>

Check ==
    \/ Begin \/ ScanEnds \/ StuckEnds
    \/ \E s \in Session :
          \/ Scan(s) \/ AutoApprove(s) \/ BackOff(s) \/ Continue(s) \/ Restart(s)
          \/ Escalate(s) \/ Recovered(s) \/ Idle(s) \/ Look(s)
          \/ \E verdict \in Verdicts : Assess(s, verdict)
Next ==
    \/ Check \/ ManagerDies \/ Forget
    \/ \E s \in Session : \/ Submit(s) \/ Dies(s) \/ Respawn(s) \/ Quiet(s) \/ Cooled(s)
                          \/ \E x \in Shown : Change(s, x)
                          \/ \E x \in Story \cup {None} : Proceed(s, x)
    \/ \E e \in esc : Answer(e) \/ Acknowledge(e)
Spec == Init /\ [][Next]_vars

\* The check comes again and again, and time passes; nobody else has to do anything.
FairSpec ==
    /\ Spec /\ []<><<Check>>_vars /\ SF_vars(Forget)
    /\ \A s \in Session : SF_vars(Quiet(s)) /\ SF_vars(Cooled(s))

(***************************************************************************)
(* Properties.                                                             *)
(***************************************************************************)
\* Types.  A session is dealt with only while the check is at it, and was listed then.
TypeOK ==
    /\ term \in [Session -> [shows : Shown \cup {Gone, "active", "idle"}, by : 1 .. MaxAgents, story : Story \cup {None}]]
    /\ progress \in [Story -> {"planned", "in_progress", "pr_submitted", "merged"}]
    /\ esc \subseteq Escalation /\ lately \subseteq Session \X (1 .. MaxAgents)
    /\ window \in [Session -> [same : BOOLEAN, old : BOOLEAN]]
    /\ mem \in [Session -> [nudges : 0 .. MaxNudges, cooling : BOOLEAN, attempts : 0 .. HardReset,
                            held : SUBSET [kind : Interventions, story : Story]]]
    /\ at \in {"rest", "scan", "act", "ask", "stuck", "askStuck"} /\ todo \subseteq DOMAIN listed
    /\ at \in {"act", "ask", "askStuck"} <=> saw # Nothing
    /\ DOMAIN listed \subseteq Session
    /\ \A s \in DOMAIN listed : listed[s] \in [by : {s} \X (1 .. MaxAgents), story : Story \cup {None}, blocked : BOOLEAN]
    /\ saw = Nothing \/ (saw.session \in todo /\ saw.screen \in Screens)
    /\ reminded \in [Session -> 0 .. MaxNudges + 1] /\ events \in 0 .. MaxEvents

\* An agent has at most one open escalation of each kind that the classifier gives rise to,
\* whatever stories it goes through and however often the manager starts anew
\* (markClassifierTimeoutForHumanIntervention(), markDoneFalseForHumanIntervention()).
OneOfAKind ==
    \A e, f \in esc : e.kind \in Interventions /\ e.by = f.by /\ e.kind = f.kind => e = f

\* An agent that waits for a human is brought before one, unless it goes on by itself: also
\* when the last escalation has been answered and it still waits.
Blocked(s) == Alive(s) /\ term[s].shows \in Human \ {"interrupted"}
HumanIsTold == \A s \in Session : Blocked(s) ~> Told(s) \/ ~Blocked(s)

\* An agent that sits at its prompt while its story is in progress is noticed: the story
\* goes to review, or a human is told, or it moves (scanAgentSessions(), nudgeStuckStories()).
\* Not so when the classifier finds it done and its branch cannot be told.
Stuck(s) ==
    /\ Alive(s) /\ term[s].shows \in {"idle", "complete"} /\ term[s].story \in Story \ Branchless
    /\ progress[term[s].story] = "in_progress"
StuckIsSeen == \A s \in Session : Stuck(s) ~> Told(s) \/ ~Stuck(s)

\* (does not hold) "Maximum number of stuck nudges to send per stalled story/session
\* window" (config/schema.ts).
RemindersEnd == \A s \in Session : reminded[s] <= MaxNudges

\* (does not hold) "Agent recovered - auto-resolve active escalations"
\* (escalation-handler.ts).
RecoveredIsReleased ==
    \A s \in Session : term[s].shows = "active" ~> ~Told(s) \/ term[s].shows # "active"
=============================================================================
