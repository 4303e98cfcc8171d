-------------------------- MODULE AssignmentProofs ---------------------------
(***************************************************************************)
(* Theorems about Assignment, for any stories, dependencies, agents and    *)
(* bounds: the two tables agree about who works on what, and work builds   *)
(* on what has landed.                                                     *)
(*                                                                         *)
(* Most of it is about one operator.  assignStories() is a loop over the   *)
(* planned stories (FoldLeft of AssignOne) with a list of idle agents of   *)
(* its own, and Kept says what every round of it keeps.  That the fold     *)
(* keeps it, whatever the stories and their order, is proved by looking    *)
(* at the shortest beginning of the order after which it would be lost.    *)
(***************************************************************************)
EXTENDS Assignment, FiniteSetTheorems, WellFoundedInduction, TLAPS

-----------------------------------------------------------------------------
(* The invariant.                                                          *)

\* The tables st and ag agree, and are what landed allows them to be.
Agree(st, ag) ==
    \A a \in Alive(ag) :
        /\ ag[a].status = "idle" => ag[a].current = None
        /\ ag[a].current = None \/ st[ag[a].current].by = a \/ ag[a].current \in landed
MergedHasLanded(st) == \A s \in Story : st[s].status = "merged" => s \in landed
Built(st) == \A s \in Story : st[s].status # "planned" => Deps[s] \subseteq landed
Tables(st, ag) ==
    /\ st \in [Story -> StoryRow] /\ ag \in [Agent -> AgentRow]
    /\ Agree(st, ag) /\ MergedHasLanded(st) /\ Built(st)

\* What is landed stays so when recovery takes the story back to planned, and what spin-down
\* has decided on is merged, whatever happens until it writes.
LandedInOrder == \A s \in landed : Deps[s] \subseteq landed
TodoHasLanded == \A t \in todo : t.story = None \/ t.story \in landed

IInv == TypeOK /\ Tables(stories, agents) /\ LandedInOrder /\ TodoHasLanded

-----------------------------------------------------------------------------
(* Least elements.                                                         *)

LEMMA Least ==
    ASSUME NEW S, S \subseteq Nat, S # {}
    PROVE  \E m \in S : \A k \in S : m <= k
<1>1. PICK m \in S : \A k \in S : ~(<<k, m>> \in OpToRel(<, Nat))
  BY NatLessThanWellFounded, WFMin
<1>2. \A k \in S : ~(k < m)
  BY <1>1 DEF OpToRel
<1>3. \A k \in S : m <= k
  BY <1>2
<1> QED BY <1>3

LEMMA AgentsAreNats == Agent \subseteq Nat /\ Nobody \notin Agent
BY AssignmentAssumption DEF Agent, Nobody

LEMMA MinIs ==
    ASSUME NEW S, S \subseteq Agent, S # {}
    PROVE  Min(S) \in S
<1>1. \E m \in S : \A k \in S : m <= k
  BY Least, AgentsAreNats
<1> QED BY <1>1 DEF Min

LEMMA LeastWorkload ==
    ASSUME NEW x, NEW A, A \subseteq Agent, A # {}
    PROVE  selectAgentWithLeastWorkload(x, A) \in A
<1> DEFINE load(a) == Workload(x, a)
           Loads == {load(a) : a \in A}
<1>1. \A a \in A : load(a) \in Nat
  BY AssignmentAssumption, FS_Subset, FS_CardinalityType DEF Workload
<1>2. PICK m \in Loads : \A k \in Loads : m <= k
  BY <1>1, Least
<1> DEFINE B == {a \in A : load(a) = m}
<1> HIDE DEF load
<1>3. B \subseteq Nat /\ B # {}
  BY AgentsAreNats
<1>4. PICK a \in B : \A b \in B : a <= b
  BY <1>3, Least
<1>5. \A b \in A : load(a) < load(b) \/ (load(a) = load(b) /\ a <= b)
  BY <1>1, <1>2, <1>4
<1> QED BY <1>4, <1>5 DEF selectAgentWithLeastWorkload, load

-----------------------------------------------------------------------------
(* The loop of assignStories().                                            *)

Loop == [stories : [Story -> StoryRow], agents : [Agent -> AgentRow], idle : SUBSET Agent,
         got : Agent \cup {Nobody}, full : BOOLEAN, bad : Story \cup {None},
         how : {"none", "phantom", "no"}]

\* What each round keeps: the agents of the loop's list are idle in the table.
Free(x, a) == x.agents[a].status = "idle" /\ x.agents[a].current = None
Kept(x) == x \in Loop /\ Tables(x.stories, x.agents) /\ \A a \in x.idle : Free(x, a)

\* Who is found or spawned is free, and the stories are as they were.
Got(x, y) == Kept(y) /\ y.stories = x.stories /\ (y.got # Nobody => y.got \in Agent /\ Free(y, y.got))

LEMMA GotIs ==
    ASSUME NEW x, Kept(x), NEW a \in x.idle
    PROVE  Got(x, [x EXCEPT !.got = a])
<1> DEFINE y == [x EXCEPT !.got = a]
<1>1. x \in Loop /\ a \in Agent
  BY DEF Kept, Loop
<1>2. y \in Loop /\ y.stories = x.stories /\ y.agents = x.agents /\ y.idle = x.idle /\ y.got = a
  BY <1>1 DEF Loop
<1> HIDE DEF y
<1>3. Kept(y) /\ Free(y, y.got)
  BY <1>2 DEF Kept, Free
<1> QED BY <1>1, <1>2, <1>3 DEF Got, y

LEMMA NobodyIs ==
    ASSUME NEW x, Kept(x), NEW y \in Loop, y.stories = x.stories, y.agents = x.agents, y.idle = x.idle,
           y.got = Nobody
    PROVE  Got(x, y)
BY DEF Got, Kept, Free

\* A row of an agent that is not at work may be written over.
LEMMA RowWritten ==
    ASSUME NEW st, NEW ag, Tables(st, ag), NEW a \in Agent, NEW row \in AgentRow,
           row.status = "idle", row.current = None
    PROVE  Tables(st, [ag EXCEPT ![a] = row])
<1> DEFINE ag2 == [ag EXCEPT ![a] = row]
<1>1. ag \in [Agent -> AgentRow]
  BY DEF Tables
<1>2. ag2 \in [Agent -> AgentRow] /\ \A b \in Agent : ag2[b] = IF b = a THEN row ELSE ag[b]
  BY <1>1
<1> HIDE DEF ag2
<1>3. Agree(st, ag2)
  <2> SUFFICES ASSUME NEW b \in Alive(ag2)
               PROVE  /\ ag2[b].status = "idle" => ag2[b].current = None
                      /\ ag2[b].current = None \/ st[ag2[b].current].by = b \/ ag2[b].current \in landed
    BY DEF Agree
  <2>1. CASE b = a
    BY <1>2, <2>1 DEF Alive
  <2>2. CASE b # a
    <3>1. ag2[b] = ag[b] /\ b \in Alive(ag)
      BY <1>2, <2>2 DEF Alive
    <3> QED BY <3>1 DEF Tables, Agree
  <2> QED BY <2>1, <2>2
<1> QED BY <1>2, <1>3 DEF Tables, ag2

LEMMA NewRow ==
    ASSUME NEW type \in {"senior", "helper"}
    PROVE  /\ Phantom(type) \in AgentRow /\ Spawned(type, "up") \in AgentRow
           /\ Phantom(type).status = "idle" /\ Phantom(type).current = None
           /\ Spawned(type, "up").status = "idle" /\ Spawned(type, "up").current = None
BY DEF Phantom, Spawned, AgentRow, None

LEMMA SpawnIs ==
    ASSUME NEW x, Kept(x), NEW type \in {"senior", "helper"}, NEW how
    PROVE  Got(x, Spawn(x, type, how))
<1> DEFINE U == Unused(x.stories, x.agents)
           a == Min(U)
<1>x. x \in Loop /\ Tables(x.stories, x.agents) /\ \A b \in x.idle : Free(x, b)
  BY DEF Kept
<1>1. CASE how = "none"
  <2>1. [x EXCEPT !.got = Nobody] \in Loop
    BY <1>x DEF Loop
  <2>2. Spawn(x, type, how) = [x EXCEPT !.got = Nobody]
    BY <1>1 DEF Spawn
  <2> DEFINE y == [x EXCEPT !.got = Nobody]
  <2>3. y.stories = x.stories /\ y.agents = x.agents /\ y.idle = x.idle /\ y.got = Nobody
    BY <1>x DEF Loop
  <2> HIDE DEF y
  <2> QED BY <2>1, <2>2, <2>3, NobodyIs DEF y
<1>2. CASE how # "none" /\ U = {}
  <2> DEFINE y == [x EXCEPT !.got = Nobody, !.full = TRUE]
  <2>1. y \in Loop
    BY <1>x DEF Loop
  <2>2. Spawn(x, type, how) = y
    BY <1>2 DEF Spawn
  <2>3. y.stories = x.stories /\ y.agents = x.agents /\ y.idle = x.idle /\ y.got = Nobody
    BY <1>x DEF Loop
  <2> HIDE DEF y
  <2> QED BY <2>1, <2>2, <2>3, NobodyIs
<1>3. ASSUME how # "none", U # {}
      PROVE  a \in Agent
  BY <1>3, MinIs DEF Unused
<1>4. CASE how = "phantom" /\ U # {}
  <2> DEFINE y == [x EXCEPT !.got = Nobody, !.agents[a] = Phantom(type)]
  <2>1. Spawn(x, type, how) = y
    BY <1>4 DEF Spawn
  <2>2. a \in Agent
    BY <1>3, <1>4
  <2> HIDE DEF a
  <2>3. [x.agents EXCEPT ![a] = Phantom(type)] \in [Agent -> AgentRow]
    BY <1>x, NewRow DEF Loop
  <2>4. /\ y.stories = x.stories /\ y.agents = [x.agents EXCEPT ![a] = Phantom(type)]
        /\ y.idle = x.idle /\ y.got = Nobody
    BY <1>x DEF Loop
  <2>5. y \in Loop
    BY <1>x, <2>3 DEF Loop
  <2> HIDE DEF y
  <2>6. Tables(y.stories, y.agents)
    BY <1>x, <2>2, <2>4, NewRow, RowWritten
  <2>7. \A b \in y.idle : Free(y, b)
    <3> SUFFICES ASSUME NEW b \in x.idle
                 PROVE  Free(y, b)
      BY <2>4
    <3>1. y.agents[b] = IF b = a THEN Phantom(type) ELSE x.agents[b]
      BY <1>x, <2>2, <2>4 DEF Loop
    <3> QED BY <1>x, <3>1, NewRow DEF Free
  <2> QED BY <2>1, <2>4, <2>5, <2>6, <2>7 DEF Got, Kept
<1>5. CASE how \notin {"none", "phantom"} /\ U # {}
  <2> DEFINE y == [x EXCEPT !.got = a, !.agents[a] = Spawned(type, "up"), !.idle = @ \cup {a}]
  <2>1. Spawn(x, type, how) = y
    BY <1>5 DEF Spawn
  <2>2. a \in Agent
    BY <1>3, <1>5
  <2> HIDE DEF a
  <2>3. [x.agents EXCEPT ![a] = Spawned(type, "up")] \in [Agent -> AgentRow]
    BY <1>x, NewRow DEF Loop
  <2>4. /\ y.stories = x.stories /\ y.agents = [x.agents EXCEPT ![a] = Spawned(type, "up")]
        /\ y.idle = x.idle \cup {a} /\ y.got = a
    BY <1>x DEF Loop
  <2>5. y \in Loop
    BY <1>x, <2>2, <2>3 DEF Loop
  <2> HIDE DEF y
  <2>6. Tables(y.stories, y.agents)
    BY <1>x, <2>2, <2>4, NewRow, RowWritten
  <2>7. \A b \in y.idle : Free(y, b)
    <3> SUFFICES ASSUME NEW b \in x.idle \cup {a}
                 PROVE  Free(y, b)
      BY <2>4
    <3>1. y.agents[b] = IF b = a THEN Spawned(type, "up") ELSE x.agents[b]
      BY <1>x, <2>2, <2>4 DEF Loop
    <3> QED BY <1>x, <3>1, NewRow DEF Free
  <2> QED BY <2>1, <2>2, <2>4, <2>5, <2>6, <2>7 DEF Got, Kept
<1> QED BY <1>1, <1>2, <1>4, <1>5

LEMMA SeniorIs ==
    ASSUME NEW x, Kept(x), NEW how
    PROVE  Got(x, getOrSpawnSenior(x, how))
<1>1. CASE OfType(x, "senior") # {}
  <2>1. x.idle \subseteq Agent
    BY DEF Kept, Loop
  <2>2. Min(OfType(x, "senior")) \in x.idle
    BY <1>1, <2>1, MinIs DEF OfType
  <2> QED BY <1>1, <2>2, GotIs DEF getOrSpawnSenior
<1>2. CASE OfType(x, "senior") = {}
  BY <1>2, SpawnIs DEF getOrSpawnSenior
<1> QED BY <1>1, <1>2

LEMMA HelperIs ==
    ASSUME NEW x, Kept(x), NEW how
    PROVE  Got(x, getOrSpawnHelper(x, how))
<1>1. CASE OfType(x, "helper") # {}
  <2>1. x.idle \subseteq Agent
    BY DEF Kept, Loop
  <2>2. selectAgentWithLeastWorkload(x, OfType(x, "helper")) \in x.idle
    BY <1>1, <2>1, LeastWorkload DEF OfType
  <2> QED BY <1>1, <2>2, GotIs DEF getOrSpawnHelper
<1>2. CASE OfType(x, "helper") = {}
  <2> DEFINE y == Spawn(x, "helper", how)
  <2>1. Got(x, y)
    BY SpawnIs
  <2>2. getOrSpawnHelper(x, how) = IF y.got # Nobody THEN y ELSE getOrSpawnSenior(y, "no")
    BY <1>2 DEF getOrSpawnHelper
  <2> HIDE DEF y
  <2>3. Kept(y) /\ y.stories = x.stories
    BY <2>1 DEF Got
  <2>4. Got(y, getOrSpawnSenior(y, "no"))
    BY <2>3, SeniorIs
  <2>5. Got(x, getOrSpawnSenior(y, "no"))
    BY <2>3, <2>4 DEF Got
  <2> QED BY <2>1, <2>2, <2>5
<1> QED BY <1>1, <1>2

\* A story that nobody has, and whose dependencies are merged, gets to somebody who is free.
LEMMA GivenOut ==
    ASSUME NEW y, Kept(y), NEW a \in Agent, Free(y, a), NEW s \in Story,
           y.stories[s].by = Nobody, areDependenciesSatisfied(y.stories, s)
    PROVE  Kept([y EXCEPT !.stories[s] = [status |-> "in_progress", by |-> a],
                          !.agents[a].status = "working", !.agents[a].current = s,
                          !.idle = @ \ {a}])
<1> DEFINE st == [y.stories EXCEPT ![s] = [status |-> "in_progress", by |-> a]]
           row == [y.agents[a] EXCEPT !.status = "working", !.current = s]
           ag == [y.agents EXCEPT ![a] = row]
           z == [y EXCEPT !.stories[s] = [status |-> "in_progress", by |-> a],
                          !.agents[a].status = "working", !.agents[a].current = s,
                          !.idle = @ \ {a}]
<1>1. y \in Loop /\ Tables(y.stories, y.agents) /\ y.stories \in [Story -> StoryRow] /\ y.agents \in [Agent -> AgentRow]
  BY DEF Kept, Tables
<1>2. z.stories = st /\ z.agents = ag /\ z.idle = y.idle \ {a}
  BY <1>1 DEF Loop
<1>3. st \in [Story -> StoryRow]
  <2>1. [status |-> "in_progress", by |-> a] \in StoryRow
    BY DEF StoryRow, Statuses
  <2> QED BY <1>1, <2>1
<1>4. row \in AgentRow /\ row.status = "working" /\ row.current = s
  <2>1. y.agents[a] \in AgentRow
    BY <1>1
  <2> QED BY <2>1 DEF AgentRow
<1> HIDE DEF row
<1>5. ag \in [Agent -> AgentRow]
  BY <1>1, <1>4
<1>6. z \in Loop
  <2>1. /\ y.idle \ {a} \in SUBSET Agent /\ y.got \in Agent \cup {Nobody} /\ y.full \in BOOLEAN
        /\ y.bad \in Story \cup {None} /\ y.how \in {"none", "phantom", "no"}
    BY <1>1 DEF Loop
  <2>2. z.got = y.got /\ z.full = y.full /\ z.bad = y.bad /\ z.how = y.how
    BY <1>1 DEF Loop
  <2>3. z = [i \in {"stories", "agents", "idle", "got", "full", "bad", "how"} |-> z[i]]
    BY <1>1 DEF Loop
  <2> HIDE DEF st, ag, z
  <2> QED BY <1>2, <1>3, <1>5, <2>1, <2>2, <2>3 DEF Loop
<1> HIDE DEF z
<1>7. /\ \A u \in Story : st[u] = IF u = s THEN [status |-> "in_progress", by |-> a] ELSE y.stories[u]
      /\ \A b \in Agent : ag[b] = IF b = a THEN row ELSE y.agents[b]
  BY <1>1
<1> HIDE DEF st, ag
<1>8. Agree(st, ag)
  <2> SUFFICES ASSUME NEW b \in Alive(ag)
               PROVE  /\ ag[b].status = "idle" => ag[b].current = None
                      /\ ag[b].current = None \/ st[ag[b].current].by = b \/ ag[b].current \in landed
    BY DEF Agree
  <2>1. CASE b = a
    BY <1>4, <1>7, <2>1
  <2>2. CASE b # a
    <3>1. b \in Agent /\ ag[b] = y.agents[b] /\ b \in Alive(y.agents)
      BY <1>7, <2>2 DEF Alive
    <3>2. /\ ag[b].status = "idle" => ag[b].current = None
          /\ ag[b].current = None \/ y.stories[ag[b].current].by = b \/ ag[b].current \in landed
      BY <1>1, <3>1 DEF Tables, Agree
    <3>3. ag[b].current \in Story \cup {None}
      BY <1>1, <3>1 DEF AgentRow
    <3>4. ASSUME ag[b].current \in Story, y.stories[ag[b].current].by = b
          PROVE  st[ag[b].current].by = b
      <4>1. ag[b].current # s
        BY <3>1, <3>4, AgentsAreNats
      <4> QED BY <1>7, <3>4, <4>1
    <3> QED BY <3>2, <3>3, <3>4
  <2> QED BY <2>1, <2>2
<1>9. MergedHasLanded(y.stories) /\ Built(y.stories)
  BY <1>1 DEF Tables
<1>10. MergedHasLanded(st)
  BY <1>7, <1>9 DEF MergedHasLanded
<1>11. Built(st)
  <2>1. Deps[s] \subseteq Story /\ \A u \in Story : u = s \/ st[u].status = y.stories[u].status
    BY <1>7, AssignmentAssumption
  <2>2. Deps[s] \subseteq landed
    BY <1>9, <2>1 DEF MergedHasLanded, areDependenciesSatisfied
  <2> QED BY <1>9, <2>1, <2>2 DEF Built
<1>12. \A b \in z.idle : Free(z, b)
  <2> SUFFICES ASSUME NEW b \in y.idle, b # a
               PROVE  Free(z, b)
    BY <1>2
  <2>1. b \in Agent /\ Free(y, b)
    BY <1>1 DEF Kept, Loop
  <2>2. z.agents[b] = y.agents[b]
    BY <1>2, <1>7, <2>1
  <2> QED BY <2>1, <2>2 DEF Free
<1>13. Kept(z)
  BY <1>2, <1>3, <1>5, <1>6, <1>8, <1>10, <1>11, <1>12 DEF Kept, Tables
<1> QED BY <1>13 DEF z

LEMMA AssignOneKeeps ==
    ASSUME NEW x, Kept(x), NEW s \in Story
    PROVE  Kept(AssignOne(x, s))
<1> DEFINE how == IF x.bad = s THEN x.how ELSE "no"
           y   == IF s \in Simple \ Blockers THEN getOrSpawnHelper(x, how) ELSE getOrSpawnSenior(x, how)
           z == [y EXCEPT !.stories[s] = [status |-> "in_progress", by |-> y.got],
                       !.agents[y.got].status = "working", !.agents[y.got].current = s,
                       !.idle = @ \ {y.got}]
<1>1. AssignOne(x, s) = IF x.stories[s].by # Nobody \/ ~areDependenciesSatisfied(x.stories, s) THEN x
                        ELSE IF y.got = Nobody THEN y ELSE z
  BY DEF AssignOne
<1>2. Got(x, y)
  <2> HIDE DEF how
  <2>1. Got(x, getOrSpawnHelper(x, how)) /\ Got(x, getOrSpawnSenior(x, how))
    BY HelperIs, SeniorIs
  <2> QED BY <2>1
<1> HIDE DEF y
<1>3. CASE x.stories[s].by # Nobody \/ ~areDependenciesSatisfied(x.stories, s)
  BY <1>1, <1>3
<1>4. CASE y.got = Nobody
  BY <1>1, <1>2, <1>4 DEF Got
<1>5. CASE x.stories[s].by = Nobody /\ areDependenciesSatisfied(x.stories, s) /\ y.got # Nobody
  <2>1. Kept(y) /\ y.got \in Agent /\ Free(y, y.got) /\ y.stories = x.stories
    BY <1>2, <1>5 DEF Got
  <2>2. Kept(z)
    BY <1>5, <2>1, GivenOut
  <2> HIDE DEF z
  <2> QED BY <1>1, <1>5, <2>2
<1> QED BY <1>3, <1>4, <1>5

-----------------------------------------------------------------------------
(* The fold.                                                               *)

\* The greatest element of a set of places.
LEMMA MaxIs ==
    ASSUME NEW n \in Nat, NEW S, S \subseteq 1 .. n, n \in S
    PROVE  Max(S) = n
<1>1. \A k \in S : n >= k
  OBVIOUS
<1>2. \A m \in S : (\A k \in S : m >= k) => m = n
  OBVIOUS
<1> QED BY <1>1, <1>2 DEF Max

\* FoldLeft on beginnings of the order o, from x on.
Iter(x, o, D) ==
    CHOOSE h : h = [S \in SUBSET D |-> IF S = {} THEN x ELSE AssignOne(h[S \ {Max(S)}], o[Max(S)])]
IterIs(x, o, h, D) ==
    h = [S \in SUBSET D |-> IF S = {} THEN x ELSE AssignOne(h[S \ {Max(S)}], o[Max(S)])]

LEMMA FoldIs ==
    ASSUME NEW x, NEW o
    PROVE  FoldLeft(AssignOne, x, o) = Iter(x, o, DOMAIN o)[DOMAIN o]
BY DEF FoldLeft, MapThenFoldSet, Iter

LEMMA IterExists ==
    ASSUME NEW x, NEW o, NEW n \in Nat
    PROVE  \E h : IterIs(x, o, h, 1 .. n)
<1> DEFINE Ends(k) == \E h : IterIs(x, o, h, 1 .. k)
           Bad == {k \in Nat : ~Ends(k)}
<1> SUFFICES Bad = {}
  OBVIOUS
<1> SUFFICES ASSUME Bad # {}
             PROVE  FALSE
  OBVIOUS
<1> HIDE DEF Ends
<1>1. PICK m \in Bad : \A k \in Bad : m <= k
  BY Least
<1>2. m \in Nat /\ ~Ends(m)
  BY <1>1
<1>3. CASE m = 0
  <2> DEFINE g == [S \in SUBSET (1 .. 0) |-> IF S = {} THEN x ELSE AssignOne(x, o[Max(S)])]
  <2>1. \A S \in SUBSET (1 .. 0) : S = {}
    OBVIOUS
  <2>2. g = [S \in SUBSET (1 .. 0) |-> IF S = {} THEN x ELSE AssignOne(g[S \ {Max(S)}], o[Max(S)])]
    BY <2>1
  <2>3. Ends(0)
    BY <2>2 DEF Ends, IterIs
  <2> QED BY <1>2, <1>3, <2>3
<1>4. CASE m # 0
  <2>1. m - 1 \in Nat /\ m - 1 < m /\ m - 1 \notin Bad
    BY <1>1, <1>2, <1>4
  <2>2. PICK h : IterIs(x, o, h, 1 .. m - 1)
    BY <2>1 DEF Ends
  <2> DEFINE g == [S \in SUBSET (1 .. m) |-> IF m \in S THEN AssignOne(h[S \ {m}], o[m]) ELSE h[S]]
             Step1(S) == IF S = {} THEN x ELSE AssignOne(g[S \ {Max(S)}], o[Max(S)])
  <2>3. ASSUME NEW S, S \subseteq 1 .. m
        PROVE  g[S] = Step1(S)
    <3>1. CASE m \in S
      <4>1. Max(S) = m
        BY <1>2, <2>3, <3>1, MaxIs
      <4>2. g[S] = AssignOne(h[S \ {m}], o[m])
        BY <2>3, <3>1
      <4>3. g[S \ {m}] = h[S \ {m}]
        BY <2>3
      <4> HIDE DEF g
      <4> QED BY <3>1, <4>1, <4>2, <4>3
    <3>2. CASE m \notin S
      <4>1. S \subseteq 1 .. m - 1
        BY <1>2, <2>3, <3>2
      <4>2. h[S] = IF S = {} THEN x ELSE AssignOne(h[S \ {Max(S)}], o[Max(S)])
        BY <2>2, <4>1 DEF IterIs
      <4>3. g[S] = h[S]
        BY <2>3, <3>2
      <4>4. g[S \ {Max(S)}] = h[S \ {Max(S)}]
        BY <2>3, <3>2
      <4> HIDE DEF g
      <4> QED BY <4>2, <4>3, <4>4
    <3> QED BY <3>1, <3>2
  <2>4. g = [S \in SUBSET (1 .. m) |-> g[S]]
    OBVIOUS
  <2> HIDE DEF g
  <2>5. g = [S \in SUBSET (1 .. m) |-> IF S = {} THEN x ELSE AssignOne(g[S \ {Max(S)}], o[Max(S)])]
    BY <2>3, <2>4
  <2>6. Ends(m)
    BY <2>5 DEF Ends, IterIs
  <2> QED BY <1>2, <2>6
<1> QED BY <1>3, <1>4

LEMMA IterKeeps ==
    ASSUME NEW x, Kept(x), NEW o, NEW n \in Nat, \A i \in 1 .. n : o[i] \in Story,
           NEW h, IterIs(x, o, h, 1 .. n)
    PROVE  Kept(h[1 .. n])
<1> DEFINE Keeps(k) == \A S \in SUBSET (1 .. k) : Kept(h[S])
           Bad == {k \in 0 .. n : ~Keeps(k)}
<1>0. \A S \in SUBSET (1 .. n) : h[S] = IF S = {} THEN x ELSE AssignOne(h[S \ {Max(S)}], o[Max(S)])
  BY DEF IterIs
<1> SUFFICES ASSUME Bad # {}
             PROVE  FALSE
  <2>1. Keeps(n)
    OBVIOUS
  <2> QED BY <2>1
<1> HIDE DEF Keeps
<1>1. Bad \subseteq Nat
  OBVIOUS
<1>2. PICK m \in Bad : \A k \in Bad : m <= k
  BY <1>1, Least
<1>3. m \in 0 .. n /\ ~Keeps(m)
  BY <1>2
<1>4. PICK S \in SUBSET (1 .. m) : ~Kept(h[S])
  BY <1>3 DEF Keeps
<1>5. S \in SUBSET (1 .. n)
  BY <1>3, <1>4
<1>6. S # {}
  BY <1>0, <1>4, <1>5
<1>7. m \in Nat /\ S \subseteq 1 .. m /\ m # 0
  <2>1. PICK i : i \in S
    BY <1>6
  <2>2. i \in 1 .. m
    BY <1>4, <2>1
  <2>3. m \in Nat /\ m # 0
    BY <1>3, <2>2
  <2> QED BY <1>4, <2>3
<1>8. m - 1 \in 0 .. n /\ m - 1 < m
  BY <1>3, <1>7
<1>9. Keeps(m - 1)
  BY <1>2, <1>3, <1>8
<1>10. m \in S
  <2> SUFFICES ASSUME m \notin S
               PROVE  S \in SUBSET (1 .. m - 1)
    BY <1>4, <1>9 DEF Keeps
  <2> QED BY <1>3, <1>4
<1>11. Max(S) = m
  BY <1>7, <1>10, MaxIs
<1>12. Kept(h[S \ {m}])
  <2>1. S \ {m} \in SUBSET (1 .. m - 1)
    BY <1>3, <1>4
  <2> QED BY <1>9, <2>1 DEF Keeps
<1>13. h[S] = AssignOne(h[S \ {m}], o[m])
  BY <1>0, <1>5, <1>6, <1>11
<1>14. o[m] \in Story
  BY <1>3, <1>7
<1> QED BY <1>4, <1>12, <1>13, <1>14, AssignOneKeeps

\* The loop keeps what its rounds keep.
LEMMA FoldKeeps ==
    ASSUME NEW x, Kept(x), NEW o \in Seq(Story)
    PROVE  Kept(FoldLeft(AssignOne, x, o))
<1>1. Len(o) \in Nat /\ DOMAIN o = 1 .. Len(o) /\ \A i \in 1 .. Len(o) : o[i] \in Story
  OBVIOUS
<1> DEFINE h == Iter(x, o, 1 .. Len(o))
<1>2. IterIs(x, o, h, 1 .. Len(o))
  <2>1. \E g : IterIs(x, o, g, 1 .. Len(o))
    BY <1>1, IterExists
  <2> QED BY <2>1 DEF Iter, IterIs
<1>3. Kept(h[1 .. Len(o)])
  <2> HIDE DEF h
  <2> QED BY <1>1, <1>2, IterKeeps
<1> QED BY <1>1, <1>3, FoldIs

-----------------------------------------------------------------------------
(* What the handlers do to the tables before they assign.                  *)

LEMMA StartIs ==
    ASSUME NEW st, NEW ag, Tables(st, ag), NEW bad \in Story \cup {None}, NEW how \in Failures \cup {"no"}
    PROVE  Kept(Start(st, ag, bad, how))
<1> DEFINE x == Start(st, ag, bad, how)
<1>1. x.stories = st /\ x.agents = ag /\ x.idle = {a \in Agent : ag[a].status = "idle"}
  BY DEF Start
<1>2. st \in [Story -> StoryRow] /\ ag \in [Agent -> AgentRow] /\ how \in {"none", "phantom", "no"}
  BY AssignmentAssumption DEF Tables
<1>3. x \in Loop
  BY <1>2 DEF Start, Loop
<1> HIDE DEF x
<1>4. \A a \in x.idle : Free(x, a)
  BY <1>1 DEF Free, Tables, Agree, Alive
<1>5. Kept(x)
  BY <1>1, <1>3, <1>4 DEF Kept
<1> QED BY <1>5 DEF x

LEMMA OrdersAreSequences ==
    ASSUME NEW S, S \subseteq Story, NEW o \in Orders(S)
    PROVE  o \in Seq(Story)
<1>1. Cardinality(S) \in Nat
  BY AssignmentAssumption, FS_Subset, FS_CardinalityType
<1>2. o \in [1 .. Cardinality(S) -> S]
  BY DEF Orders, TopologicalOrders, SetToSeqs
<1>3. \A i \in 1 .. Cardinality(S) : o[i] \in Story
  BY <1>2
<1> QED BY <1>1, <1>2, <1>3

LEMMA AssignedIs ==
    ASSUME NEW x, Kept(x), NEW order \in Seq(Story)
    PROVE  Kept(Assigned(x, order))
<1> DEFINE y == getOrSpawnSenior(x, IF x.bad = None THEN x.how ELSE "no")
<1>1. Kept(y)
  BY SeniorIs DEF Got
<1>2. Assigned(x, order) = IF y.got = Nobody THEN y ELSE FoldLeft(AssignOne, y, order)
  BY DEF Assigned
<1> HIDE DEF y
<1>3. Kept(FoldLeft(AssignOne, y, order))
  BY <1>1, FoldKeeps
<1> QED BY <1>1, <1>2, <1>3

\* From tables that agree, assignStories() makes tables that agree.
LEMMA AssignStoriesKeeps ==
    ASSUME NEW st, NEW ag, Tables(st, ag), assignStories(st, ag)
    PROVE  /\ Tables(stories', agents')
           /\ mishaps' = mishaps \/ (mishaps < MaxMishaps /\ mishaps' = mishaps + 1)
<1>1. CASE PlannedIn(st) = {} \/ Orders(PlannedIn(st)) = {}
  BY <1>1 DEF assignStories
<1>2. CASE ~(PlannedIn(st) = {} \/ Orders(PlannedIn(st)) = {})
  <2>1. PICK order \in Orders(PlannedIn(st)), bad \in PlannedIn(st) \cup {None}, how \in Failures \cup {"no"} :
          LET x == Assigned(Start(st, ag, bad, how), order)
          IN  /\ stories' = x.stories /\ agents' = x.agents
              /\ UNCHANGED mishaps \/ (mishaps < MaxMishaps /\ mishaps' = mishaps + 1)
    BY <1>2 DEF assignStories
  <2> DEFINE x == Assigned(Start(st, ag, bad, how), order)
  <2>2. PlannedIn(st) \subseteq Story
    BY DEF PlannedIn
  <2>3. Kept(Start(st, ag, bad, how)) /\ order \in Seq(Story)
    BY <2>2, StartIs, OrdersAreSequences
  <2>4. Kept(x)
    BY <2>3, AssignedIs
  <2> HIDE DEF x
  <2>5. Tables(x.stories, x.agents)
    BY <2>4 DEF Kept
  <2> QED BY <2>1, <2>5 DEF x
<1> QED BY <1>1, <1>2

LEMMA ScaledKeeps ==
    ASSUME NEW st, NEW ag, Tables(st, ag), NEW A, A \subseteq Agent
    PROVE  Tables(st, Scaled(ag, A))
<1> DEFINE ag2 == Scaled(ag, A)
<1>1. ag \in [Agent -> AgentRow]
  BY DEF Tables
<1>2. \A a \in Agent : ag2[a] = IF a \in A THEN Spawned("senior", "up") ELSE ag[a]
  BY DEF Scaled
<1>3. ag2 \in [Agent -> AgentRow]
  BY <1>1, NewRow DEF Scaled
<1> HIDE DEF ag2
<1>4. Agree(st, ag2)
  <2> SUFFICES ASSUME NEW b \in Alive(ag2)
               PROVE  /\ ag2[b].status = "idle" => ag2[b].current = None
                      /\ ag2[b].current = None \/ st[ag2[b].current].by = b \/ ag2[b].current \in landed
    BY DEF Agree
  <2>1. CASE b \in A
    BY <1>2, <2>1, NewRow DEF Alive
  <2>2. CASE b \notin A
    <3>1. ag2[b] = ag[b] /\ b \in Alive(ag)
      BY <1>2, <2>2 DEF Alive
    <3> QED BY <3>1 DEF Tables, Agree
  <2> QED BY <2>1, <2>2
<1> QED BY <1>3, <1>4 DEF Tables, ag2

LEMMA ScaleAndAssignKeeps ==
    ASSUME Tables(stories, agents), scaleAndAssign
    PROVE  /\ Tables(stories', agents')
           /\ mishaps' = mishaps \/ (mishaps < MaxMishaps /\ mishaps' = mishaps + 1)
<1>1. PICK A \in SUBSET Unused(stories, agents) : assignStories(stories, Scaled(agents, A))
  BY DEF scaleAndAssign
<1>2. A \subseteq Agent
  BY DEF Unused
<1> QED BY <1>1, <1>2, ScaledKeeps, AssignStoriesKeeps

\* A story may be taken back unless an agent is at it, or when it has landed.
LEMMA PlannedKeeps ==
    ASSUME NEW st, NEW ag, Tables(st, ag), NEW S, S \subseteq Story,
           \A a \in Alive(ag) : ag[a].current # None /\ ag[a].current \in S => ag[a].current \in landed
    PROVE  Tables(Planned(S, st), ag)
<1> DEFINE st2 == Planned(S, st)
<1>1. st \in [Story -> StoryRow] /\ ag \in [Agent -> AgentRow]
  BY DEF Tables
<1>2. \A s \in Story : st2[s] = IF s \in S THEN [status |-> "planned", by |-> Nobody] ELSE st[s]
  BY DEF Planned
<1>3. st2 \in [Story -> StoryRow]
  <2>1. [status |-> "planned", by |-> Nobody] \in StoryRow
    BY DEF StoryRow, Statuses
  <2> QED BY <1>1, <2>1 DEF Planned
<1> HIDE DEF st2
<1>4. Agree(st2, ag)
  <2> SUFFICES ASSUME NEW a \in Alive(ag)
               PROVE  /\ ag[a].status = "idle" => ag[a].current = None
                      /\ ag[a].current = None \/ st2[ag[a].current].by = a \/ ag[a].current \in landed
    BY DEF Agree
  <2>1. /\ ag[a].status = "idle" => ag[a].current = None
        /\ ag[a].current = None \/ st[ag[a].current].by = a \/ ag[a].current \in landed
    BY DEF Tables, Agree
  <2>2. ag[a].current \in Story \cup {None}
    BY <1>1 DEF Alive, AgentRow
  <2> QED BY <1>2, <2>1, <2>2
<1>5. MergedHasLanded(st2) /\ Built(st2)
  <2>1. MergedHasLanded(st) /\ Built(st)
    BY DEF Tables
  <2> QED BY <1>2, <2>1 DEF MergedHasLanded, Built
<1> QED BY <1>1, <1>3, <1>4, <1>5 DEF Tables, st2

LEMMA OrphansKeep ==
    ASSUME NEW st, NEW ag, Tables(st, ag)
    PROVE  Tables(Planned(Orphans(st, ag), st), ag)
<1>1. Orphans(st, ag) \subseteq Story
  BY DEF Orphans, getStoriesWithOrphanedAssignments, getStaleInProgressStoriesWithoutAssignment,
         getInProgressStoriesWithInconsistentAssignments
<1>2. ASSUME NEW a \in Alive(ag), ag[a].current # None, ag[a].current \in Orphans(st, ag)
      PROVE  ag[a].current \in landed
  <2> DEFINE s == ag[a].current
  <2> SUFFICES ASSUME s \notin landed
               PROVE  FALSE
    OBVIOUS
  <2>1. st[s].by = a /\ a \in Agent /\ ag[a].status # "idle"
    BY <1>2 DEF Tables, Agree, Alive
  <2>2. ag[a].status = "working"
    BY <2>1 DEF Tables, AgentRow, Alive
  <2> QED BY <1>2, <2>1, <2>2, AgentsAreNats
            DEF Orphans, getStoriesWithOrphanedAssignments, getStaleInProgressStoriesWithoutAssignment,
                getInProgressStoriesWithInconsistentAssignments
<1> QED BY <1>1, <1>2, PlannedKeeps

-----------------------------------------------------------------------------
(* The steps.                                                              *)

\* Where nothing lands, the tables after a step are right if they agree.
LEMMA Carried ==
    ASSUME Tables(stories', agents'), landed' = landed
    PROVE  Tables(stories, agents)'
BY DEF Tables, Agree, Alive, MergedHasLanded, Built

LEMMA BuriedKeeps ==
    ASSUME Tables(stories, agents)
    PROVE  Tables(Planned(Revived, stories), Buried(agents))
<1> DEFINE ag == Buried(agents)
<1>1. stories \in [Story -> StoryRow] /\ agents \in [Agent -> AgentRow]
  BY DEF Tables
<1>2. \A a \in Agent : ag[a] = IF a \in DeadAgents THEN Terminated(agents[a]) ELSE agents[a]
  BY DEF Buried
<1>3. \A a \in Agent : Terminated(agents[a]) \in AgentRow /\ Terminated(agents[a]).status = "terminated"
  <2> SUFFICES ASSUME NEW a \in Agent
               PROVE  Terminated(agents[a]) \in AgentRow /\ Terminated(agents[a]).status = "terminated"
    OBVIOUS
  <2>1. agents[a] \in AgentRow
    BY <1>1
  <2> QED BY <2>1 DEF Terminated, AgentRow
<1>4. ag \in [Agent -> AgentRow]
  BY <1>1, <1>3 DEF Buried
<1> HIDE DEF ag
<1>5. \A a \in Alive(ag) : a \in Agent /\ a \in Alive(agents) /\ a \notin DeadAgents /\ ag[a] = agents[a]
  BY <1>2, <1>3 DEF Alive
<1>6. Tables(stories, ag)
  <2>1. Agree(stories, ag)
    BY <1>5 DEF Tables, Agree
  <2> QED BY <1>4, <2>1 DEF Tables
<1>7. ASSUME NEW a \in Alive(ag), ag[a].current # None, ag[a].current \in Revived
      PROVE  ag[a].current \in landed
  <2>1. PICK d \in DeadAgents : agents[d].current = ag[a].current
    BY <1>7 DEF Revived
  <2>2. d \in Alive(agents) /\ d # a
    BY <1>5, <1>7, <2>1 DEF DeadAgents
  <2> QED BY <1>5, <1>7, <2>1, <2>2 DEF Tables, Agree
<1>8. Revived \subseteq Story
  BY <1>1 DEF Revived, DeadAgents, Alive, AgentRow
<1> QED BY <1>6, <1>7, <1>8, PlannedKeeps DEF ag

LEMMA HealthCheckKeeps ==
    ASSUME Tables(stories, agents), HealthCheck
    PROVE  /\ Tables(stories, agents)'
           /\ mishaps' = mishaps \/ (mishaps < MaxMishaps /\ mishaps' = mishaps + 1)
<1> DEFINE ag == Buried(agents)
           st == Planned(Revived, stories)
           recovered == Planned(Orphans(st, ag), st)
<1>1. Tables(st, ag)
  BY BuriedKeeps
<1>2. /\ landed' = landed
      /\ \/ Revived \cup Orphans(st, ag) # {} /\ assignStories(recovered, ag)
         \/ stories' = stories /\ agents' = ag /\ UNCHANGED mishaps /\ Revived = {}
  BY DEF HealthCheck
<1>3. Revived = {} => st = stories
  BY DEF Planned, Tables
<1> HIDE DEF ag, st
<1>4. Tables(recovered, ag)
  BY <1>1, OrphansKeep
<1>5. /\ Tables(stories', agents')
      /\ mishaps' = mishaps \/ (mishaps < MaxMishaps /\ mishaps' = mishaps + 1)
  <2>1. CASE assignStories(recovered, ag)
    BY <1>4, <2>1, AssignStoriesKeeps
  <2>2. CASE stories' = stories /\ agents' = ag /\ UNCHANGED mishaps /\ Revived = {}
    <3>1. stories' = st
      BY <1>3, <2>2
    <3> QED BY <1>1, <2>2, <3>1
  <2> QED BY <1>2, <2>1, <2>2
<1> QED BY <1>2, <1>5, Carried

LEMMA SyncMergedKeeps ==
    ASSUME Tables(stories, agents), LandedInOrder, landed \subseteq Story, SyncMerged
    PROVE  Tables(stories, agents)'
<1> DEFINE synced == {s \in landed : stories[s].status # "merged"}
           st == [s \in Story |-> IF s \in synced THEN [status |-> "merged", by |-> Nobody] ELSE stories[s]]
           stale == {a \in Alive(agents) : agents[a].current # None /\ st[agents[a].current].status = "merged"}
<1>1. /\ stories' = st /\ landed' = landed
      /\ \E next \in [stale -> Story \cup {None}] :
              /\ \A a \in stale : next[a] \in NextStories(st, a)
              /\ agents' = [a \in Agent |->
                              IF a \notin stale THEN agents[a]
                              ELSE [agents[a] EXCEPT !.current = next[a],
                                                     !.status = IF next[a] = None THEN "idle" ELSE "working"]]
  BY DEF SyncMerged
<1>2. PICK next \in [stale -> Story \cup {None}] :
              /\ \A a \in stale : next[a] \in NextStories(st, a)
              /\ agents' = [a \in Agent |->
                              IF a \notin stale THEN agents[a]
                              ELSE [agents[a] EXCEPT !.current = next[a],
                                                     !.status = IF next[a] = None THEN "idle" ELSE "working"]]
  BY <1>1
<1>3. stories \in [Story -> StoryRow] /\ agents \in [Agent -> AgentRow]
  BY DEF Tables
<1>4. \A s \in Story : st[s] = IF s \in synced THEN [status |-> "merged", by |-> Nobody] ELSE stories[s]
  OBVIOUS
<1>5. st \in [Story -> StoryRow]
  <2>1. [status |-> "merged", by |-> Nobody] \in StoryRow
    BY DEF StoryRow, Statuses
  <2> QED BY <1>3, <2>1
<1>6. MergedHasLanded(st)
  BY <1>4 DEF Tables, MergedHasLanded
<1>7. Built(st)
  BY <1>4 DEF Tables, Built, LandedInOrder
<1>8. stale \subseteq Agent
  BY DEF Alive
<1> HIDE DEF st, stale
<1>9. ASSUME NEW a \in Agent
      PROVE  /\ agents'[a] \in AgentRow
             /\ a \notin stale => agents'[a] = agents[a]
             /\ a \in stale => /\ agents'[a].current = next[a]
                               /\ agents'[a].status = IF next[a] = None THEN "idle" ELSE "working"
  <2>1. agents[a] \in AgentRow
    BY <1>3
  <2>2. agents'[a] = IF a \notin stale THEN agents[a]
                     ELSE [agents[a] EXCEPT !.current = next[a],
                                            !.status = IF next[a] = None THEN "idle" ELSE "working"]
    BY <1>2
  <2>3. CASE a \notin stale
    BY <2>1, <2>2, <2>3
  <2>4. CASE a \in stale
    <3>1. next[a] \in Story \cup {None}
      BY <1>2, <2>4
    <3>2. [agents[a] EXCEPT !.current = next[a], !.status = IF next[a] = None THEN "idle" ELSE "working"]
             \in AgentRow
      BY <2>1, <3>1 DEF AgentRow
    <3>3. agents'[a] = [agents[a] EXCEPT !.current = next[a], !.status = IF next[a] = None THEN "idle" ELSE "working"]
      BY <2>2, <2>4
    <3>4. /\ agents'[a].current = next[a]
          /\ agents'[a].status = IF next[a] = None THEN "idle" ELSE "working"
      BY <2>1, <3>3 DEF AgentRow
    <3> QED BY <2>4, <3>2, <3>3, <3>4
  <2> QED BY <2>3, <2>4
<1>10. agents' \in [Agent -> AgentRow]
  <2>1. agents' = [a \in Agent |-> agents'[a]]
    BY <1>2
  <2> QED BY <1>9, <2>1
<1>11. Agree(st, agents')
  <2> SUFFICES ASSUME NEW a \in Alive(agents')
               PROVE  /\ agents'[a].status = "idle" => agents'[a].current = None
                      /\ agents'[a].current = None \/ st[agents'[a].current].by = a \/ agents'[a].current \in landed
    BY DEF Agree
  <2>1. a \in Agent
    BY DEF Alive
  <2>2. CASE a \in stale
    <3>1. next[a] \in NextStories(st, a)
      BY <1>2, <2>2
    <3>2. next[a] = None \/ st[next[a]].by = a
      BY <3>1 DEF NextStories
    <3> QED BY <1>9, <2>1, <2>2, <3>2
  <2>3. CASE a \notin stale
    <3>1. agents'[a] = agents[a] /\ a \in Alive(agents)
      BY <1>9, <2>1, <2>3 DEF Alive
    <3>2. /\ agents[a].status = "idle" => agents[a].current = None
          /\ agents[a].current = None \/ stories[agents[a].current].by = a \/ agents[a].current \in landed
      BY <3>1 DEF Tables, Agree
    <3>3. agents[a].current \in Story \cup {None}
      BY <1>3, <2>1 DEF AgentRow
    <3> QED BY <1>4, <3>1, <3>2, <3>3
  <2> QED BY <2>2, <2>3
<1> QED BY <1>1, <1>5, <1>6, <1>7, <1>10, <1>11, Carried DEF Tables

LEMMA AssignSteps ==
    ASSUME Tables(stories, agents), AutoAssign \/ RecoverQAFailed \/ Assign
    PROVE  /\ Tables(stories, agents)'
           /\ mishaps' = mishaps \/ (mishaps < MaxMishaps /\ mishaps' = mishaps + 1)
<1>1. landed' = landed
  BY DEF AutoAssign, RecoverQAFailed, Assign
<1>2. CASE AutoAssign
  <2>1. scaleAndAssign \/ UNCHANGED <<tables, mishaps>>
    BY <1>2 DEF AutoAssign
  <2>2. CASE scaleAndAssign
    BY <1>1, <2>2, ScaleAndAssignKeeps, Carried
  <2>3. CASE UNCHANGED <<tables, mishaps>>
    BY <1>1, <2>3, Carried DEF tables
  <2> QED BY <2>1, <2>2, <2>3
<1>3. CASE RecoverQAFailed
  <2>1. assignStories(Planned(UnassignedQAFailed, stories), agents) \/ UNCHANGED <<tables, mishaps>>
    BY <1>3 DEF RecoverQAFailed
  <2>2. CASE assignStories(Planned(UnassignedQAFailed, stories), agents)
    <3>1. UnassignedQAFailed \subseteq Story
      BY DEF UnassignedQAFailed
    <3>2. ASSUME NEW a \in Alive(agents), agents[a].current # None, agents[a].current \in UnassignedQAFailed
          PROVE  agents[a].current \in landed
      BY <3>2, AgentsAreNats DEF UnassignedQAFailed, Tables, Agree, Alive
    <3>3. Tables(Planned(UnassignedQAFailed, stories), agents)
      BY <3>1, <3>2, PlannedKeeps
    <3> QED BY <1>1, <2>2, <3>3, AssignStoriesKeeps, Carried
  <2>3. CASE UNCHANGED <<tables, mishaps>>
    BY <1>1, <2>3, Carried DEF tables
  <2> QED BY <2>1, <2>2, <2>3
<1>4. CASE Assign
  BY <1>1, <1>4, ScaleAndAssignKeeps, Carried DEF Assign
<1> QED BY <1>2, <1>3, <1>4

\* A story that has landed may be taken from whoever has it.
LEMMA Released ==
    ASSUME Tables(stories, agents), NEW S, S \subseteq landed,
           stories' = [s \in Story |-> IF s \in S THEN [stories[s] EXCEPT !.by = Nobody] ELSE stories[s]]
    PROVE  Tables(stories', agents)
<1>1. stories \in [Story -> StoryRow] /\ agents \in [Agent -> AgentRow]
  BY DEF Tables
<1>2. ASSUME NEW s \in Story
      PROVE  /\ stories'[s] \in StoryRow /\ stories'[s].status = stories[s].status
             /\ s \notin S => stories'[s] = stories[s]
  <2>1. stories[s] \in StoryRow
    BY <1>1
  <2>2. /\ [stories[s] EXCEPT !.by = Nobody] \in StoryRow
        /\ [stories[s] EXCEPT !.by = Nobody].status = stories[s].status
    BY <2>1 DEF StoryRow
  <2>3. stories'[s] = IF s \in S THEN [stories[s] EXCEPT !.by = Nobody] ELSE stories[s]
    OBVIOUS
  <2> QED BY <2>1, <2>2, <2>3
<1>3. stories' \in [Story -> StoryRow]
  <2>1. stories' = [s \in Story |-> stories'[s]]
    OBVIOUS
  <2> QED BY <1>2, <2>1
<1>4. Agree(stories', agents)
  <2> SUFFICES ASSUME NEW a \in Alive(agents)
               PROVE  /\ agents[a].status = "idle" => agents[a].current = None
                      /\ agents[a].current = None \/ stories'[agents[a].current].by = a \/ agents[a].current \in landed
    BY DEF Agree
  <2>1. /\ agents[a].status = "idle" => agents[a].current = None
        /\ agents[a].current = None \/ stories[agents[a].current].by = a \/ agents[a].current \in landed
    BY DEF Tables, Agree
  <2>2. agents[a].current \in Story \cup {None}
    BY <1>1 DEF Alive, AgentRow
  <2> QED BY <1>2, <2>1, <2>2
<1>5. MergedHasLanded(stories') /\ Built(stories')
  BY <1>2 DEF Tables, MergedHasLanded, Built
<1> QED BY <1>1, <1>3, <1>4, <1>5 DEF Tables

LEMMA SpinDownReadKeeps ==
    ASSUME Tables(stories, agents), SpinDownRead
    PROVE  /\ Tables(stories, agents)' /\ TodoHasLanded'
           /\ todo' \subseteq [agent : Agent, story : Story \cup {None}]
<1> DEFINE merged == {s \in Story : stories[s].status = "merged" /\ stories[s].by \in Alive(agents)}
           busy   == {s \in merged : \/ agents[stories[s].by].current \notin {None, s}
                                     \/ Unmerged(stories[s].by) # {}}
           lost   == {a \in Agent : agents[a].status = "working" /\ agents[a].current = None /\ Unmerged(a) = {}}
<1>1. /\ stories' = [s \in Story |-> IF s \in busy THEN [stories[s] EXCEPT !.by = Nobody] ELSE stories[s]]
      /\ todo' = {[agent |-> stories[s].by, story |-> s] : s \in merged \ busy}
                     \cup {[agent |-> a, story |-> None] : a \in lost}
      /\ agents' = agents /\ landed' = landed
  BY DEF SpinDownRead
<1>2. merged \subseteq landed /\ merged \subseteq Story /\ \A s \in merged : stories[s].by \in Agent
  BY DEF Tables, MergedHasLanded, Alive
<1>3. busy \subseteq merged /\ lost \subseteq Agent
  OBVIOUS
<1> HIDE DEF merged, busy, lost
<1>4. Tables(stories', agents)
  BY <1>1, <1>2, <1>3, Released
<1>5. \A t \in todo' : /\ t \in [agent : Agent, story : Story \cup {None}]
                       /\ t.story = None \/ t.story \in landed
  <2> SUFFICES ASSUME NEW t \in todo'
               PROVE  /\ t \in [agent : Agent, story : Story \cup {None}]
                      /\ t.story = None \/ t.story \in landed
    OBVIOUS
  <2>1. CASE \E s \in merged \ busy : t = [agent |-> stories[s].by, story |-> s]
    BY <1>2, <2>1
  <2>2. CASE \E a \in lost : t = [agent |-> a, story |-> None]
    BY <1>3, <2>2
  <2> QED BY <1>1, <2>1, <2>2
<1> QED BY <1>1, <1>4, <1>5, Carried DEF TodoHasLanded

\* A row of an agent may change as long as it does not get another story.
LEMMA AgentsKeep ==
    ASSUME Tables(stories, agents), agents' \in [Agent -> AgentRow], stories' = stories, landed' = landed,
           \A a \in Agent : \/ agents'[a].status = "terminated"
                            \/ agents'[a].status = agents[a].status /\ agents'[a].current = agents[a].current
    PROVE  Tables(stories, agents)'
<1>1. Agree(stories, agents')
  <2> SUFFICES ASSUME NEW a \in Alive(agents')
               PROVE  /\ agents'[a].status = "idle" => agents'[a].current = None
                      /\ agents'[a].current = None \/ stories[agents'[a].current].by = a \/ agents'[a].current \in landed
    BY DEF Agree
  <2>1. a \in Alive(agents) /\ agents'[a].status = agents[a].status /\ agents'[a].current = agents[a].current
    BY DEF Alive
  <2> QED BY <2>1 DEF Tables, Agree
<1> QED BY <1>1, Carried DEF Tables

\* The rows that Kill, Dies and Write leave.
LEMMA RowsLeft ==
    ASSUME agents \in [Agent -> AgentRow], NEW a \in Agent
    PROVE  /\ [agents[a] EXCEPT !.session = "dead"] \in AgentRow
           /\ [agents[a] EXCEPT !.session = "dead"].status = agents[a].status
           /\ [agents[a] EXCEPT !.session = "dead"].current = agents[a].current
           /\ Terminated(agents[a]) \in AgentRow /\ Terminated(agents[a]).status = "terminated"
<1>1. agents[a] \in AgentRow
  OBVIOUS
<1> QED BY <1>1 DEF Terminated, AgentRow

LEMMA KillKeeps ==
    ASSUME Tables(stories, agents), SpinDownKill \/ IdleKill
    PROVE  Tables(stories, agents)'
<1>1. /\ agents' = [a \in Agent |-> IF agents[a].session = "up" /\ \E t \in todo : t.agent = a
                                    THEN [agents[a] EXCEPT !.session = "dead"] ELSE agents[a]]
      /\ stories' = stories /\ landed' = landed
  BY DEF SpinDownKill, IdleKill, Kill
<1>2. agents \in [Agent -> AgentRow]
  BY DEF Tables
<1>3. ASSUME NEW a \in Agent
      PROVE  /\ agents'[a] \in AgentRow
             /\ agents'[a].status = agents[a].status /\ agents'[a].current = agents[a].current
  <2>1. agents'[a] \in {[agents[a] EXCEPT !.session = "dead"], agents[a]}
    BY <1>1
  <2> QED BY <1>2, <2>1, RowsLeft
<1>4. agents' \in [Agent -> AgentRow]
  <2>1. agents' = [a \in Agent |-> agents'[a]]
    BY <1>1
  <2> QED BY <1>3, <2>1
<1> QED BY <1>1, <1>3, <1>4, AgentsKeep

LEMMA DiesKeeps ==
    ASSUME Tables(stories, agents), NEW d \in Agent, Dies(d)
    PROVE  Tables(stories, agents)'
<1>1. agents' = [agents EXCEPT ![d].session = "dead"] /\ stories' = stories /\ landed' = landed
  BY DEF Dies
<1>2. agents \in [Agent -> AgentRow]
  BY DEF Tables
<1>3. ASSUME NEW a \in Agent
      PROVE  /\ agents'[a] \in AgentRow
             /\ agents'[a].status = agents[a].status /\ agents'[a].current = agents[a].current
  <2>1. agents'[a] = IF a = d THEN [agents[a] EXCEPT !.session = "dead"] ELSE agents[a]
    BY <1>1, <1>2
  <2> QED BY <1>2, <2>1, RowsLeft
<1>4. agents' \in [Agent -> AgentRow]
  <2>1. agents' = [a \in Agent |-> agents'[a]]
    BY <1>1, <1>2
  <2> QED BY <1>3, <2>1
<1> QED BY <1>1, <1>3, <1>4, AgentsKeep

LEMMA WriteKeeps ==
    ASSUME Tables(stories, agents), TodoHasLanded, SpinDownWrite \/ IdleWrite
    PROVE  Tables(stories, agents)'
<1> DEFINE S == {s \in Story : \E t \in todo : t.story = s}
<1>1. /\ agents' = [a \in Agent |-> IF \E t \in todo : t.agent = a THEN Terminated(agents[a]) ELSE agents[a]]
      /\ stories' = [s \in Story |-> IF s \in S THEN [stories[s] EXCEPT !.by = Nobody] ELSE stories[s]]
      /\ landed' = landed
  BY DEF SpinDownWrite, IdleWrite, Write
<1>2. S \subseteq landed
  BY AssignmentAssumption DEF TodoHasLanded, None
<1> HIDE DEF S
<1>3. Tables(stories', agents)
  BY <1>1, <1>2, Released
<1>4. agents \in [Agent -> AgentRow]
  BY DEF Tables
<1>5. ASSUME NEW a \in Agent
      PROVE  /\ agents'[a] \in AgentRow
             /\ agents'[a].status = "terminated" \/ agents'[a] = agents[a]
  <2>1. agents'[a] \in {Terminated(agents[a]), agents[a]}
    BY <1>1
  <2> QED BY <1>4, <2>1, RowsLeft
<1>6. agents' \in [Agent -> AgentRow]
  <2>1. agents' = [a \in Agent |-> agents'[a]]
    BY <1>1
  <2> QED BY <1>5, <2>1
<1>7. Agree(stories', agents')
  <2> SUFFICES ASSUME NEW a \in Alive(agents')
               PROVE  /\ agents'[a].status = "idle" => agents'[a].current = None
                      /\ agents'[a].current = None \/ stories'[agents'[a].current].by = a \/ agents'[a].current \in landed
    BY DEF Agree
  <2>1. a \in Alive(agents) /\ agents'[a] = agents[a]
    BY <1>5 DEF Alive
  <2> QED BY <1>3, <2>1 DEF Tables, Agree
<1> QED BY <1>1, <1>3, <1>6, <1>7, Carried DEF Tables

\* The status of a story changes, and its change may land.
LEMMA StatusKeeps ==
    ASSUME Tables(stories, agents), NEW s \in Story, NEW x \in Statuses,
           stories' = [stories EXCEPT ![s].status = x], stories[s].status # "planned", agents' = agents,
           landed' = landed \/ landed' = landed \cup {s}, x = "merged" => s \in landed'
    PROVE  Tables(stories, agents)'
<1>1. stories \in [Story -> StoryRow] /\ agents \in [Agent -> AgentRow]
  BY DEF Tables
<1>2. [stories[s] EXCEPT !.status = x] \in StoryRow
  <2>1. stories[s] \in StoryRow
    BY <1>1
  <2> QED BY <2>1 DEF StoryRow
<1>3. ASSUME NEW u \in Story
      PROVE  /\ stories'[u] \in StoryRow /\ stories'[u].by = stories[u].by
             /\ stories'[u].status = IF u = s THEN x ELSE stories[u].status
  <2>1. stories[u] \in StoryRow
    BY <1>1
  <2>2. stories'[u] = IF u = s THEN [stories[u] EXCEPT !.status = x] ELSE stories[u]
    BY <1>1
  <2> QED BY <1>2, <2>1, <2>2 DEF StoryRow
<1>4. stories' \in [Story -> StoryRow]
  <2>1. stories' = [u \in Story |-> stories'[u]]
    BY <1>1
  <2> QED BY <1>3, <2>1
<1>5. Agree(stories, agents)'
  <2> SUFFICES ASSUME NEW a \in Agent, agents[a].status # "terminated"
               PROVE  /\ agents[a].status = "idle" => agents[a].current = None
                      /\ agents[a].current = None \/ stories'[agents[a].current].by = a \/ agents[a].current \in landed'
    BY DEF Agree, Alive
  <2>1. /\ agents[a].status = "idle" => agents[a].current = None
        /\ agents[a].current = None \/ stories[agents[a].current].by = a \/ agents[a].current \in landed
    BY DEF Tables, Agree, Alive
  <2>2. agents[a].current \in Story \cup {None}
    BY <1>1 DEF AgentRow
  <2> QED BY <1>3, <2>1, <2>2
<1>6. MergedHasLanded(stories)' /\ Built(stories)'
  BY <1>3 DEF Tables, MergedHasLanded, Built
<1> QED BY <1>1, <1>4, <1>5, <1>6 DEF Tables

LEMMA VerdictsKeep ==
    ASSUME Tables(stories, agents), NEW s \in Story, Submit(s) \/ Reject(s) \/ Approve(s)
    PROVE  Tables(stories, agents)'
<1>1. CASE Submit(s)
  BY <1>1, StatusKeeps DEF Submit, Status, Statuses
<1>2. CASE Reject(s)
  BY <1>2, StatusKeeps DEF Reject, Status, Statuses
<1>3. CASE Approve(s)
  BY <1>3, StatusKeeps DEF Approve, Status, Statuses
<1> QED BY <1>1, <1>2, <1>3

LEMMA LandsKeeps ==
    ASSUME Tables(stories, agents), NEW s \in Story, Lands(s)
    PROVE  Tables(stories, agents)'
<1>1. stories' = stories /\ agents' = agents /\ landed' = landed \cup {s}
  BY DEF Lands, tables
<1> QED BY <1>1 DEF Tables, Agree, Alive, MergedHasLanded, Built

\* autoMergeApprovedPRs() frees the agent that has the story as its current one.
LEMMA AutoMergeKeeps ==
    ASSUME Tables(stories, agents), NEW s \in Story, AutoMerge(s)
    PROVE  Tables(stories, agents)'
<1>1. stories \in [Story -> StoryRow] /\ agents \in [Agent -> AgentRow]
  BY DEF Tables
<1>2. /\ stories[s].status = "pr_submitted" /\ landed' = landed \cup {s}
      /\ \/ stories' = [stories EXCEPT ![s].status = "merged"]
         \/ stories' = [stories EXCEPT ![s] = [status |-> "merged", by |-> Nobody]]
      /\ agents' = [a \in Agent |-> IF a = stories[s].by /\ agents[a].current = s
                                    THEN [agents[a] EXCEPT !.status = "idle", !.current = None]
                                    ELSE agents[a]]
  BY DEF AutoMerge
<1>3. ASSUME NEW u \in Story
      PROVE  /\ stories'[u] \in StoryRow
             /\ u # s => stories'[u] = stories[u]
             /\ u = s => stories'[u].status = "merged"
  <2>1. stories[u] \in StoryRow
    BY <1>1
  <2>2. [stories[u] EXCEPT !.status = "merged"] \in StoryRow /\ [stories[u] EXCEPT !.status = "merged"].status = "merged"
    BY <2>1 DEF StoryRow, Statuses
  <2> DEFINE row == [status |-> "merged", by |-> Nobody]
  <2>3. row \in StoryRow /\ row.status = "merged"
    BY DEF StoryRow, Statuses
  <2> HIDE DEF row
  <2>4. CASE stories' = [stories EXCEPT ![s].status = "merged"]
    <3>1. stories'[u] = IF u = s THEN [stories[u] EXCEPT !.status = "merged"] ELSE stories[u]
      BY <1>1, <2>4
    <3> QED BY <2>1, <2>2, <3>1
  <2>5. CASE stories' = [stories EXCEPT ![s] = row]
    <3>1. stories'[u] = IF u = s THEN row ELSE stories[u]
      BY <1>1, <2>5
    <3> QED BY <2>1, <2>3, <3>1
  <2> QED BY <1>2, <2>4, <2>5 DEF row
<1>4. stories' \in [Story -> StoryRow]
  <2>1. stories' = [u \in Story |-> stories'[u]]
    BY <1>1, <1>2
  <2> QED BY <1>3, <2>1
<1>5. ASSUME NEW a \in Agent
      PROVE  /\ agents'[a] \in AgentRow
             /\ agents'[a] = agents[a] \/ (agents'[a].status = "idle" /\ agents'[a].current = None)
  <2>1. agents[a] \in AgentRow
    BY <1>1
  <2> DEFINE row == [agents[a] EXCEPT !.status = "idle", !.current = None]
  <2>2. row \in AgentRow /\ row.status = "idle" /\ row.current = None
    BY <2>1 DEF AgentRow
  <2>3. agents'[a] \in {row, agents[a]}
    BY <1>2
  <2> HIDE DEF row
  <2> QED BY <2>1, <2>2, <2>3
<1>6. agents' \in [Agent -> AgentRow]
  <2>1. agents' = [a \in Agent |-> agents'[a]]
    BY <1>2
  <2> QED BY <1>5, <2>1
<1>7. Agree(stories, agents)'
  <2> SUFFICES ASSUME NEW a \in Agent, agents'[a].status # "terminated"
               PROVE  /\ agents'[a].status = "idle" => agents'[a].current = None
                      /\ agents'[a].current = None \/ stories'[agents'[a].current].by = a \/ agents'[a].current \in landed'
    BY DEF Agree, Alive
  <2>1. CASE agents'[a] = agents[a]
    <3>1. /\ agents[a].status = "idle" => agents[a].current = None
          /\ agents[a].current = None \/ stories[agents[a].current].by = a \/ agents[a].current \in landed
      BY <2>1 DEF Tables, Agree, Alive
    <3>2. agents[a].current \in Story \cup {None}
      BY <1>1 DEF AgentRow
    <3>3. landed' = landed \cup {s}
      BY <1>2
    <3>4. CASE agents[a].current = s
      BY <2>1, <3>1, <3>3, <3>4
    <3>5. CASE agents[a].current # s
      <4>1. agents[a].current = None \/ stories'[agents[a].current] = stories[agents[a].current]
        BY <1>3, <3>2, <3>5
      <4> QED BY <2>1, <3>1, <3>3, <4>1
    <3> QED BY <3>4, <3>5
  <2> QED BY <1>5, <2>1
<1>8. MergedHasLanded(stories)' /\ Built(stories)'
  BY <1>2, <1>3 DEF Tables, MergedHasLanded, Built
<1> QED BY <1>4, <1>6, <1>7, <1>8 DEF Tables

LEMMA ClaimKeeps ==
    ASSUME Tables(stories, agents), NEW d \in Agent, NEW s \in Story, Claim(d, s)
    PROVE  Tables(stories, agents)'
<1> DEFINE row == [status |-> "in_progress", by |-> d]
<1>1. stories \in [Story -> StoryRow] /\ agents \in [Agent -> AgentRow]
  BY DEF Tables
<1>2. /\ stories[s].by \in {Nobody, d} /\ areDependenciesSatisfied(stories, s)
      /\ stories' = [stories EXCEPT ![s] = row] /\ agents' = agents /\ landed' = landed
  BY DEF Claim
<1>3. row \in StoryRow /\ row.status = "in_progress" /\ row.by = d
  BY DEF StoryRow, Statuses
<1> HIDE DEF row
<1>4. stories' \in [Story -> StoryRow] /\ \A u \in Story : stories'[u] = IF u = s THEN row ELSE stories[u]
  BY <1>1, <1>2, <1>3
<1>5. Agree(stories', agents)
  <2> SUFFICES ASSUME NEW a \in Alive(agents)
               PROVE  /\ agents[a].status = "idle" => agents[a].current = None
                      /\ agents[a].current = None \/ stories'[agents[a].current].by = a \/ agents[a].current \in landed
    BY DEF Agree
  <2>1. /\ agents[a].status = "idle" => agents[a].current = None
        /\ agents[a].current = None \/ stories[agents[a].current].by = a \/ agents[a].current \in landed
    BY DEF Tables, Agree
  <2>2. agents[a].current \in Story \cup {None} /\ a \in Agent
    BY <1>1 DEF Alive, AgentRow
  <2> QED BY <1>2, <1>3, <1>4, <2>1, <2>2, AgentsAreNats
<1>6. MergedHasLanded(stories') /\ Built(stories')
  <2>1. MergedHasLanded(stories) /\ Built(stories) /\ Deps[s] \subseteq Story
    BY AssignmentAssumption DEF Tables
  <2>2. Deps[s] \subseteq landed
    BY <1>2, <2>1 DEF MergedHasLanded, areDependenciesSatisfied
  <2> QED BY <1>3, <1>4, <2>1, <2>2 DEF MergedHasLanded, Built
<1> QED BY <1>1, <1>2, <1>4, <1>5, <1>6, Carried DEF Tables

-----------------------------------------------------------------------------
(* The theorems.                                                           *)

LEMMA InitIInv == Init => IInv
<1> SUFFICES ASSUME Init
             PROVE  IInv
  OBVIOUS
<1>1. [status |-> "planned", by |-> Nobody] \in StoryRow
  BY DEF StoryRow, Statuses
<1>2. Spawned("senior", None) \in AgentRow
  BY DEF Spawned, AgentRow
<1> DEFINE row == Terminated(Spawned("senior", None))
<1>3. row \in AgentRow /\ row.status = "terminated"
  BY <1>2 DEF Terminated, AgentRow
<1> HIDE DEF row
<1>4. agents = [a \in Agent |-> row]
  BY DEF Init, row
<1>5. stories \in [Story -> StoryRow] /\ agents \in [Agent -> AgentRow]
  BY <1>1, <1>3, <1>4 DEF Init
<1>6. \A s \in Story : stories[s].status = "planned"
  BY DEF Init
<1>7. Alive(agents) = {}
  BY <1>3, <1>4 DEF Alive
<1>8. Tables(stories, agents)
  BY <1>5, <1>6, <1>7 DEF Tables, Agree, MergedHasLanded, Built
<1>9. TypeOK
  BY <1>5, AssignmentAssumption DEF Init, TypeOK
<1> QED BY <1>8, <1>9 DEF Init, IInv, LandedInOrder, TodoHasLanded

\* The bounds of what is counted, and the manager's step.
CountsOK ==
    /\ deaths \in 0 .. MaxDeaths /\ mishaps \in 0 .. MaxMishaps
    /\ verdicts \in 0 .. MaxVerdicts /\ claims \in 0 .. MaxClaims
Decided == todo \subseteq [agent : Agent, story : Story \cup {None}] /\ TodoHasLanded

\* The steps of the check keep the tables, and land nothing.
LEMMA CheckKeeps ==
    ASSUME IInv, Check
    PROVE  Tables(stories, agents)' /\ landed' = landed /\ CountsOK' /\ Decided'
<1> USE AssignmentAssumption
<1>1. TypeOK /\ Tables(stories, agents) /\ LandedInOrder /\ TodoHasLanded /\ CountsOK /\ Decided
  BY DEF IInv, TypeOK, CountsOK, Decided
<1>2. CASE HealthCheck
  <2>1. todo' = todo /\ landed' = landed /\ UNCHANGED <<deaths, verdicts, claims>>
    BY <1>2 DEF HealthCheck
  <2> QED BY <1>1, <1>2, <2>1, HealthCheckKeeps DEF CountsOK, Decided, TodoHasLanded
<1>3. CASE SyncMerged
  <2>1. todo' = todo /\ landed' = landed /\ UNCHANGED counts /\ landed \subseteq Story
    BY <1>1, <1>3 DEF SyncMerged, TypeOK
  <2> QED BY <1>1, <1>3, <2>1, SyncMergedKeeps DEF CountsOK, Decided, TodoHasLanded, counts
<1>4. CASE AutoAssign \/ RecoverQAFailed
  <2>1. todo' = todo /\ landed' = landed /\ UNCHANGED <<deaths, verdicts, claims>>
    BY <1>4 DEF AutoAssign, RecoverQAFailed
  <2> QED BY <1>1, <1>4, <2>1, AssignSteps DEF CountsOK, Decided, TodoHasLanded
<1>5. CASE SpinDownRead
  <2>1. landed' = landed /\ UNCHANGED counts
    BY <1>5 DEF SpinDownRead
  <2> QED BY <1>1, <1>5, <2>1, SpinDownReadKeeps DEF CountsOK, Decided, counts
<1>6. CASE SpinDownKill \/ IdleKill
  <2>1. todo' = todo /\ landed' = landed /\ UNCHANGED counts
    BY <1>6 DEF SpinDownKill, IdleKill, Kill
  <2> QED BY <1>1, <1>6, <2>1, KillKeeps DEF CountsOK, Decided, TodoHasLanded, counts
<1>7. CASE SpinDownWrite \/ IdleWrite
  <2>1. todo' = {} /\ landed' = landed /\ UNCHANGED counts
    BY <1>7 DEF SpinDownWrite, IdleWrite, Write
  <2> QED BY <1>1, <1>7, <2>1, WriteKeeps DEF CountsOK, Decided, TodoHasLanded, counts
<1>8. CASE IdleRead
  <2>1. UNCHANGED <<tables, landed, counts>>
    BY <1>8 DEF IdleRead
  <2>2. \A t \in todo' : t \in [agent : Agent, story : Story \cup {None}] /\ t.story = None
    BY <1>8 DEF IdleRead
  <2>3. Tables(stories, agents)'
    BY <1>1, <2>1, Carried DEF tables
  <2> QED BY <1>1, <2>1, <2>2, <2>3 DEF CountsOK, Decided, TodoHasLanded, counts
<1> QED BY <1>2, <1>3, <1>4, <1>5, <1>6, <1>7, <1>8 DEF Check

LEMMA NextIInv ==
    ASSUME IInv, [Next]_vars
    PROVE  IInv'
<1> USE AssignmentAssumption
<1>1. TypeOK /\ Tables(stories, agents) /\ LandedInOrder /\ TodoHasLanded /\ CountsOK /\ Decided
  BY DEF IInv, TypeOK, CountsOK, Decided
<1>2. landed \subseteq Story
  BY <1>1 DEF TypeOK
\* What has landed before its turn has not.
<1>3. /\ Tables(stories, agents)' /\ CountsOK' /\ Decided'
      /\ \/ landed' = landed
         \/ \E s \in Story : landed' = landed \cup {s} /\ stories[s].status # "planned"
  <2>1. CASE Check
    BY <2>1, CheckKeeps
  <2>2. CASE ManagerDies
    <3>1. UNCHANGED <<tables, landed, deaths, verdicts, claims>> /\ todo' = {}
      BY <2>2 DEF ManagerDies
    <3>2. Tables(stories, agents)'
      BY <1>1, <3>1, Carried DEF tables
    <3>3. CountsOK'
      BY <1>1, <2>2 DEF ManagerDies, CountsOK
    <3> QED BY <3>1, <3>2, <3>3 DEF Decided, TodoHasLanded
  <2>3. CASE Assign
    <3>1. UNCHANGED <<landed, mgr, deaths, verdicts, claims>>
      BY <2>3 DEF Assign
    <3> QED BY <1>1, <2>3, <3>1, AssignSteps DEF CountsOK, Decided, TodoHasLanded, mgr
  <2>4. ASSUME NEW s \in Story, Submit(s) \/ Reject(s) \/ Approve(s) \/ AutoMerge(s) \/ Lands(s)
        PROVE  /\ Tables(stories, agents)' /\ CountsOK' /\ Decided'
               /\ landed' = landed \/ (landed' = landed \cup {s} /\ stories[s].status # "planned")
    <3>1. Tables(stories, agents)'
      BY <1>1, <2>4, VerdictsKeep, AutoMergeKeeps, LandsKeeps
    <3>2. landed' = landed \/ (landed' = landed \cup {s} /\ stories[s].status # "planned")
      BY <2>4 DEF Submit, Reject, Approve, AutoMerge, Lands
    <3>3. CountsOK' /\ todo' = todo
      <4>1. CASE Reject(s)
        BY <1>1, <4>1 DEF Reject, mgr, CountsOK
      <4>2. CASE ~Reject(s)
        <5>1. UNCHANGED mgr /\ UNCHANGED counts
          BY <2>4, <4>2 DEF Submit, Approve, AutoMerge, Lands, Others
        <5> QED BY <1>1, <5>1 DEF mgr, counts, CountsOK
      <4> QED BY <4>1, <4>2
    <3>4. Decided'
      BY <1>1, <3>2, <3>3 DEF Decided, TodoHasLanded
    <3> QED BY <3>1, <3>2, <3>3, <3>4
  <2>5. ASSUME NEW a \in Agent, Dies(a)
        PROVE  Tables(stories, agents)' /\ CountsOK' /\ Decided' /\ landed' = landed
    <3>1. landed' = landed /\ todo' = todo /\ CountsOK'
      BY <1>1, <2>5 DEF Dies, mgr, CountsOK
    <3> QED BY <1>1, <2>5, <3>1, DiesKeeps DEF Decided, TodoHasLanded
  <2>6. ASSUME NEW a \in Agent, NEW s \in Story, Claim(a, s)
        PROVE  Tables(stories, agents)' /\ CountsOK' /\ Decided' /\ landed' = landed
    <3>1. landed' = landed /\ todo' = todo /\ CountsOK'
      BY <1>1, <2>6 DEF Claim, mgr, CountsOK
    <3> QED BY <1>1, <2>6, <3>1, ClaimKeeps DEF Decided, TodoHasLanded
  <2>7. CASE UNCHANGED vars
    <3>1. Tables(stories, agents)' /\ landed' = landed
      BY <1>1, <2>7, Carried DEF vars, tables
    <3> QED BY <1>1, <2>7, <3>1 DEF CountsOK, Decided, TodoHasLanded, vars, mgr, counts
  <2> QED BY <2>1, <2>2, <2>3, <2>4, <2>5, <2>6, <2>7 DEF Next
<1>4. LandedInOrder' /\ landed' \subseteq Story
  BY <1>1, <1>2, <1>3 DEF LandedInOrder, Tables, Built
<1>5. TypeOK'
  BY <1>3, <1>4 DEF TypeOK, Tables, CountsOK, Decided
<1> QED BY <1>3, <1>4, <1>5 DEF IInv, Decided

\* The invariant, whoever dies, claims, rejects or merges between which steps of the manager.
THEOREM Invariance == Spec => []IInv
<1>1. Init => IInv
  BY InitIInv
<1>2. IInv /\ [Next]_vars => IInv'
  BY NextIInv
<1> QED BY <1>1, <1>2, PTL DEF Spec

\* The tables hold what the code writes into them, in particular agents of stories exist.
THEOREM TypeCorrect == Spec => []TypeOK
<1>1. IInv => TypeOK
  BY DEF IInv
<1> QED BY <1>1, Invariance, PTL

\* The two tables agree on who has what.
THEOREM TablesAgree == Spec => []CurrentIsAssigned
<1>1. IInv => CurrentIsAssigned
  BY DEF IInv, Tables, Agree, CurrentIsAssigned
<1> QED BY <1>1, Invariance, PTL

\* No two agents that are not terminated have as their current story one that has not landed.
OneAtWork ==
    \A a, b \in Alive(agents) :
        agents[a].current = agents[b].current /\ agents[a].current # None =>
            a = b \/ agents[a].current \in landed
\* Whatever scheduler.ts, orphan-recovery.ts, my-stories claim and spin-down.ts take from whom.
THEOREM NoTwoAtWork == Spec => []OneAtWork
<1>1. IInv => OneAtWork
  BY DEF IInv, Tables, Agree, OneAtWork
<1> QED BY <1>1, Invariance, PTL

\* Work begins only on top of what has landed.
THEOREM WorkInOrder == Spec => []BuiltOnLanded
<1>1. IInv => BuiltOnLanded
  BY DEF IInv, Tables, Built, BuiltOnLanded
<1> QED BY <1>1, Invariance, PTL

\* So that changes land on the base branch in the order of the dependencies.
THEOREM LandsInOrder == Spec => []LandedInOrder
<1>1. IInv => LandedInOrder
  BY DEF IInv
<1> QED BY <1>1, Invariance, PTL
===============================================================================
