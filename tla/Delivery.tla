------------------------------ MODULE Delivery -------------------------------
(***************************************************************************)
(* What the merge queue promises, whatever its rows go through: a story's  *)
(* change gets to the base branch only after a reviewer approved it, the   *)
(* story is recorded as merged only once GitHub has taken the change (it   *)
(* may still wait for CI), neither verdict is taken back, and a change     *)
(* that has landed is recorded in the end, though a record may be undone   *)
(* and made again.                                                         *)
(***************************************************************************)
EXTENDS Naturals

CONSTANT Story

VARIABLES
    approved,   \* stories of which a reviewer approved a change
    accepted,   \* those of which GitHub took a change for merging
    landed,     \* those of which a change is on the base branch
    recorded    \* those whose status is merged

dvars == <<approved, accepted, landed, recorded>>

Inside == accepted \subseteq approved /\ landed \subseteq accepted /\ recorded \subseteq accepted

Init == approved = {} /\ accepted = {} /\ landed = {} /\ recorded = {}

\* One step may approve, merge and record, of several stories.
Deliver == \E A, C, L, R \in SUBSET Story :
    /\ approved' = approved \cup A
    /\ accepted' = accepted \cup C
    /\ landed'   = landed \cup L
    /\ recorded' = R
    /\ Inside'

LandedIsRecorded == \A s \in Story : s \in landed ~> s \in recorded

Spec == Init /\ [][Deliver]_dvars /\ LandedIsRecorded
=============================================================================
