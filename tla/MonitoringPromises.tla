------------------------- MODULE MonitoringPromises --------------------------
(***************************************************************************)
(* What is promised of the manager's check to those it deals with, agents  *)
(* and humans, in terms of terminals, open escalations and reminders.      *)
(* What the manager remembers and how it goes about a check is Monitoring. *)
(***************************************************************************)
EXTENDS Naturals

CONSTANTS
    Session,   \* names of tmux sessions of agents
    MaxNudges  \* max_stuck_nudges_per_story

VARIABLES
    term,     \* a session: what it shows, its agent, the agent's current story
    esc,      \* escalations that are not resolved
    listed,   \* agent and story of each session as the check has read them, and lastState: is it for a human?
    reminded  \* reminders that this manager typed while the screen has stayed the same

\* Why an escalation is made; all but the first come of what the classifier says.
Kinds == {"approval", "timeout", "doneFalse"}
Interventions == Kinds \ {"approval"}

\* While a terminal stays as it is, a manager reminds its agent no more often than
\* max_stuck_nudges_per_story allows, in both steps of its checks together (one that has
\* started anew counts anew).  Not so when the detectors can make nothing of the screen
\* (see RemindersEnd in Monitoring).
NudgesBounded == \A s \in Session : term[s].shows # "unknown" => reminded[s] <= MaxNudges

\* Once a human has been asked about a story because of the classifier, the agent is not
\* reminded of it until that is settled, even by a manager that has started anew
\* (applyHumanInterventionStateOverride() reads the rows).
HumanFirst ==
    [][\A s \in Session : reminded'[s] > reminded[s] =>
          ~\E e \in esc : e.kind \in Interventions /\ e.by = listed[s].by /\ e.story = listed[s].story]_reminded
=============================================================================
