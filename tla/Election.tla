------------------------------ MODULE Election ------------------------------
(***************************************************************************)
(* Leader election of the distributed mode: RaftStateMachine and           *)
(* HeartbeatManager (src/cluster), with the membership requests a leader   *)
(* serves, the restart of a node from raft-state.json, and the catch-up    *)
(* flag that sync() raises while it recovers from a snapshot.              *)
(*                                                                         *)
(* A handler of the HTTP server runs to completion on the event loop, so   *)
(* it is one action.  startElection() awaits every vote call, so it is     *)
(* three: the start, the settling of each call, and the count once all     *)
(* calls have settled.  Clocks are abstracted: an election deadline may    *)
(* pass whenever the 250 ms timer is allowed to look at it.                *)
(*                                                                         *)
(* Everything persistRaftState() writes is written before the event loop   *)
(* runs anything else, so term, vote and leader hint on disk are those in  *)
(* memory between two actions: Restart keeps the three of them.            *)
(***************************************************************************)
EXTENDS Integers, FiniteSets

CONSTANTS
    Node,          \* cluster node ids
    Nil,           \* JavaScript null
    StaticPeers,   \* config.peers of each node
    MaxTerm,       \* bound: no election starts beyond this term
    MaxElections,  \* bound: elections started, all nodes together
    MaxBeats,      \* bound: heartbeat calls on the wire
    MaxRestarts,   \* bound: process restarts, all nodes together
    MaxChanges,    \* bound: membership changes a leader applies
    MaxCatchUps    \* bound: snapshot recoveries, all nodes together

ASSUME NodesAssumption == IsFiniteSet(Node) /\ Nil \notin Node
ASSUME PeersAssumption ==
    StaticPeers \in [Node -> SUBSET Node] /\ \A n \in Node : n \notin StaticPeers[n]
ASSUME BoundsAssumption ==
    /\ MaxTerm \in Nat
    /\ MaxElections \in Nat
    /\ MaxBeats \in Nat
    /\ MaxRestarts \in Nat
    /\ MaxChanges \in Nat
    /\ MaxCatchUps \in Nat

VARIABLES
    role, currentTerm, votedFor, leaderId,   \* fields of RaftStateMachine
    peers,        \* what getPeers() returns
    catchingUp,   \* isCatchingUp
    inFlight,     \* electionInFlight
    eTerm,        \* the constant electionTerm of the running startElection()
    pending,      \* its vote calls that have not settled
    voters,       \* who is counted in its local variable votes
    voteReqs, voteResps,    \* vote calls on the wire and their answers
    heartbeats, rejects,    \* heartbeat calls and the answers that refuse them
    budget,       \* how often each bounded event has happened
    granted,      \* history: <<voter, term, candidate>> of every vote cast
    won           \* history: <<node, term>> of every election won

raftVars == <<role, currentTerm, votedFor, leaderId>>
candVars == <<inFlight, eTerm, pending, voters>>
voteNet  == <<voteReqs, voteResps>>
beatNet  == <<heartbeats, rejects>>
history  == <<granted, won>>
vars == <<raftVars, peers, catchingUp, candVars, voteNet, beatNet, budget, history>>

Roles == {"leader", "follower", "candidate"}
Term  == 0 .. MaxTerm
VoteReq   == [from : Node, to : Node, term : Term]
VoteResp  == [from : Node, to : Node, eterm : Term, term : Term,
              granted : BOOLEAN, leader : Node \cup {Nil}]
Heartbeat == [from : Node, to : Node, term : Term, peers : SUBSET Node]
Reject    == [from : Node, to : Node, term : Term]

TypeOK ==
    /\ role \in [Node -> Roles]
    /\ currentTerm \in [Node -> Term]
    /\ votedFor \in [Node -> Node \cup {Nil}]
    /\ leaderId \in [Node -> Node \cup {Nil}]
    /\ peers \in [Node -> SUBSET Node]
    /\ catchingUp \in [Node -> BOOLEAN]
    /\ inFlight \in [Node -> BOOLEAN]
    /\ eTerm \in [Node -> Term]
    /\ pending \in [Node -> SUBSET Node]
    /\ voters \in [Node -> SUBSET Node]
    /\ voteReqs \subseteq VoteReq
    /\ voteResps \subseteq VoteResp
    /\ heartbeats \subseteq Heartbeat
    /\ rejects \subseteq Reject
    /\ budget \in [elections : 0 .. MaxElections, restarts : 0 .. MaxRestarts,
                   changes : 0 .. MaxChanges, catchUps : 0 .. MaxCatchUps]
    /\ granted \subseteq Node \X Term \X Node
    /\ won \subseteq Node \X Term

Init ==
    /\ role = [n \in Node |-> "follower"]
    /\ currentTerm = [n \in Node |-> 0]
    /\ votedFor = [n \in Node |-> Nil]
    /\ leaderId = [n \in Node |-> Nil]
    /\ peers = StaticPeers
    /\ catchingUp = [n \in Node |-> FALSE]
    /\ inFlight = [n \in Node |-> FALSE]
    /\ eTerm = [n \in Node |-> 0]
    /\ pending = [n \in Node |-> {}]
    /\ voters = [n \in Node |-> {}]
    /\ voteReqs = {} /\ voteResps = {} /\ heartbeats = {} /\ rejects = {}
    /\ budget = [elections |-> 0, restarts |-> 0, changes |-> 0, catchUps |-> 0]
    /\ granted = {} /\ won = {}

(***************************************************************************)
(* Helpers.                                                                *)
(***************************************************************************)

\* Slips in the handlers below, to show that the properties can tell them apart.
OutgrownUnlessLeader(n, term) == role[n] # "leader" /\ term > currentTerm[n]
StillCandidateUnchecked(n) == TRUE
initializeForgetsVote(n) ==
    /\ role' = [role EXCEPT ![n] = "follower"]
    /\ votedFor' = [votedFor EXCEPT ![n] = Nil]
    /\ UNCHANGED <<currentTerm, leaderId>>
releaseIfWon(n) == inFlight' = [inFlight EXCEPT ![n] = role'[n] # "leader"]

\* getPeers() may contain the node itself: a heartbeat carries the leader's list.
quorum(n) == (Cardinality(peers[n]) + 1) \div 2 + 1

stepDown(n, term, leader) ==
    /\ currentTerm' = [currentTerm EXCEPT ![n] = term]
    /\ role' = [role EXCEPT ![n] = "follower"]
    /\ votedFor' = [votedFor EXCEPT ![n] = Nil]
    /\ leaderId' = [leaderId EXCEPT ![n] = leader]

\* An answer of a higher term: its sender has outgrown n.
Outgrown(n, term) == term > currentTerm[n]

\* The caller still waits for p's answer to its vote call of this election.
Waiting(n, p, term) == inFlight[n] /\ eTerm[n] = term /\ p \in pending[n]

\* The candidate that startElection() left is still one, in that term.
StillCandidate(n) == role[n] = "candidate" /\ currentTerm[n] = eTerm[n]

\* The call of n to p is over: nothing of it will reach n any more.
Settle(n, p) ==
    /\ pending' = [pending EXCEPT ![n] = @ \ {p}]
    /\ voteResps' = {r \in voteResps : ~(r.to = n /\ r.from = p)}

\* votes += 1
Counts(n, r) == StillCandidate(n) /\ r.granted

\* The finally block of startElection().
releaseElection(n) == inFlight' = [inFlight EXCEPT ![n] = FALSE]

\* Term, vote and leader hint come back from raft-state.json, nothing else does.
initializeRaftStore(n) ==
    /\ role' = [role EXCEPT ![n] = "follower"]
    /\ UNCHANGED <<currentTerm, votedFor, leaderId>>

(***************************************************************************)
(* startElection().                                                        *)
(***************************************************************************)

startElection(n) ==
    /\ role[n] # "leader" /\ ~catchingUp[n] /\ ~inFlight[n]
    /\ currentTerm[n] < MaxTerm /\ budget.elections < MaxElections
    /\ budget' = [budget EXCEPT !.elections = @ + 1]
    /\ LET t == currentTerm[n] + 1
           asked == peers[n] \ {n}
       IN  /\ currentTerm' = [currentTerm EXCEPT ![n] = t]
           /\ eTerm' = [eTerm EXCEPT ![n] = t]
           /\ pending' = [pending EXCEPT ![n] = asked]
           /\ voteReqs' = voteReqs \cup {[from |-> n, to |-> p, term |-> t] : p \in asked}
           /\ granted' = granted \cup {<<n, t, n>>}
    /\ role' = [role EXCEPT ![n] = "candidate"]
    /\ votedFor' = [votedFor EXCEPT ![n] = n]
    /\ leaderId' = [leaderId EXCEPT ![n] = Nil]
    /\ inFlight' = [inFlight EXCEPT ![n] = TRUE]
    /\ voters' = [voters EXCEPT ![n] = {n}]
    /\ UNCHANGED <<peers, catchingUp, voteResps, beatNet, won>>

\* A vote call answers: a higher term deposes the caller, a grant is counted
\* only while the caller is still the candidate that asked.
VoteCallReturns(r) ==
    LET n == r.to IN
    /\ r \in voteResps
    /\ Settle(n, r.from)
    /\ IF Outgrown(n, r.term)
       THEN stepDown(n, r.term, r.leader) /\ UNCHANGED voters
       ELSE /\ voters' = IF Counts(n, r)
                         THEN [voters EXCEPT ![n] = @ \cup {r.from}]
                         ELSE voters
            /\ UNCHANGED raftVars
    /\ UNCHANGED <<peers, catchingUp, inFlight, eTerm, voteReqs, beatNet, budget, history>>

\* postJson() returns null: timeout, refused connection or an error status.  The
\* request may still reach the peer, its answer no longer reaches the caller.
VoteCallFails(n, p) ==
    /\ p \in pending[n]
    /\ Settle(n, p)
    /\ UNCHANGED <<raftVars, peers, catchingUp, inFlight, eTerm, voters, voteReqs,
                   beatNet, budget, history>>

\* Promise.all has settled: count, and release electionInFlight in any case.
FinishElection(n) ==
    /\ inFlight[n] /\ pending[n] = {}
    /\ IF StillCandidate(n) /\ Cardinality(voters[n]) >= quorum(n)
       THEN /\ role' = [role EXCEPT ![n] = "leader"]
            /\ leaderId' = [leaderId EXCEPT ![n] = n]
            /\ votedFor' = [votedFor EXCEPT ![n] = Nil]
            /\ won' = won \cup {<<n, eTerm[n]>>}
            /\ UNCHANGED currentTerm
       ELSE UNCHANGED <<raftVars, won>>
    /\ releaseElection(n)
    /\ eTerm' = [eTerm EXCEPT ![n] = 0]
    /\ voters' = [voters EXCEPT ![n] = {}]
    /\ UNCHANGED <<peers, catchingUp, pending, voteNet, beatNet, budget, granted>>

(***************************************************************************)
(* handleVoteRequest().  It looks at the vote only, never at the role: a   *)
(* node that has won its term has released its vote and can cast it again. *)
(***************************************************************************)

canVote(n, m) ==
    /\ m.term >= currentTerm[n]
    /\ m.term > currentTerm[n] \/ votedFor[n] \in {Nil, m.from}

handleVoteRequest(m) ==
    LET n == m.to
        newer == m.term > currentTerm[n]
        grant == canVote(n, m)
    IN
    /\ m \in voteReqs
    /\ voteReqs' = voteReqs \ {m}
    /\ currentTerm' = [currentTerm EXCEPT ![n] = IF newer THEN m.term ELSE @]
    /\ role' = [role EXCEPT ![n] = IF newer THEN "follower" ELSE @]
    /\ leaderId' = [leaderId EXCEPT ![n] = IF newer THEN Nil ELSE @]
    /\ votedFor' = [votedFor EXCEPT ![n] = IF grant THEN m.from ELSE @]
    /\ granted' = IF grant THEN granted \cup {<<n, m.term, m.from>>} ELSE granted
    /\ voteResps' =
         IF Waiting(m.from, n, m.term)
         THEN voteResps \cup {[from |-> n, to |-> m.from, eterm |-> m.term,
                               term |-> currentTerm'[n], granted |-> grant,
                               leader |-> leaderId'[n]]}
         ELSE voteResps
    /\ UNCHANGED <<peers, catchingUp, candVars, beatNet, budget, won>>

(***************************************************************************)
(* Heartbeats.                                                             *)
(***************************************************************************)

sendHeartbeats(n) ==
    /\ role[n] = "leader"
    /\ Cardinality(heartbeats) + Cardinality(peers[n] \ {n}) <= MaxBeats
    /\ heartbeats' = heartbeats \cup
         {[from |-> n, to |-> p, term |-> currentTerm[n], peers |-> peers[n]] :
             p \in peers[n] \ {n}}
    /\ UNCHANGED <<raftVars, peers, catchingUp, candVars, voteNet, rejects, budget, history>>

\* handleHeartbeat() of a stale leader: the answer carries the higher term.
RejectHeartbeat(h) ==
    /\ h \in heartbeats
    /\ h.term < currentTerm[h.to]
    /\ heartbeats' = heartbeats \ {h}
    /\ rejects' = rejects \cup {[from |-> h.to, to |-> h.from, term |-> currentTerm[h.to]]}
    /\ UNCHANGED <<raftVars, peers, catchingUp, candVars, voteNet, budget, history>>

\* handleHeartbeat() of a current leader.  The answer repeats a term the sender
\* has already had, sendHeartbeats() ignores it, so it is not sent.  A list that
\* is empty does not replace the receiver's.
AcceptHeartbeat(h) ==
    LET n == h.to IN
    /\ h \in heartbeats
    /\ h.term >= currentTerm[n]
    /\ heartbeats' = heartbeats \ {h}
    /\ IF h.term > currentTerm[n]
       THEN stepDown(n, h.term, h.from)
       ELSE /\ role' = [role EXCEPT ![n] = "follower"]
            /\ leaderId' = [leaderId EXCEPT ![n] = h.from]
            /\ UNCHANGED <<currentTerm, votedFor>>
    /\ peers' = [peers EXCEPT ![n] = IF h.peers = {} THEN @ ELSE h.peers]
    /\ UNCHANGED <<catchingUp, candVars, voteNet, rejects, budget, history>>

\* The answer reaches whoever sent the heartbeat, in whatever role it now is; the
\* node that answered becomes its leader hint.
RejectReturns(r) ==
    /\ r \in rejects
    /\ rejects' = rejects \ {r}
    /\ IF Outgrown(r.to, r.term)
       THEN stepDown(r.to, r.term, r.from)
       ELSE UNCHANGED raftVars
    /\ UNCHANGED <<peers, catchingUp, candVars, voteNet, heartbeats, budget, history>>

\* A heartbeat call or its answer is lost; postJson() returns null, nothing else.
LoseBeat ==
    /\ \/ \E h \in heartbeats : heartbeats' = heartbeats \ {h} /\ UNCHANGED rejects
       \/ \E r \in rejects : rejects' = rejects \ {r} /\ UNCHANGED heartbeats
    /\ UNCHANGED <<raftVars, peers, catchingUp, candVars, voteNet, budget, history>>

(***************************************************************************)
(* Membership: only a leader changes its list; the others learn it from    *)
(* its heartbeats.                                                         *)
(***************************************************************************)

ChangePeers(n, new) ==
    /\ role[n] = "leader"
    /\ budget.changes < MaxChanges
    /\ peers' = [peers EXCEPT ![n] = new]
    /\ budget' = [budget EXCEPT !.changes = @ + 1]
    /\ UNCHANGED <<raftVars, catchingUp, candVars, voteNet, beatNet, history>>

\* Nothing keeps a leader from adding itself.
handleMembershipJoin(n, x) == x \notin peers[n] /\ ChangePeers(n, peers[n] \cup {x})

handleMembershipLeave(n, x) == x \in peers[n] /\ x # n /\ ChangePeers(n, peers[n] \ {x})

(***************************************************************************)
(* Snapshot recovery raises isCatchingUp while sync() awaits a peer; the   *)
(* timers and handlers of the election keep running meanwhile.             *)
(***************************************************************************)

BeginCatchUp(n) ==
    /\ ~catchingUp[n] /\ peers[n] \ {n} # {}
    /\ budget.catchUps < MaxCatchUps
    /\ catchingUp' = [catchingUp EXCEPT ![n] = TRUE]
    /\ budget' = [budget EXCEPT !.catchUps = @ + 1]
    /\ UNCHANGED <<raftVars, peers, candVars, voteNet, beatNet, history>>

EndCatchUp(n) ==
    /\ catchingUp[n]
    /\ catchingUp' = [catchingUp EXCEPT ![n] = FALSE]
    /\ UNCHANGED <<raftVars, peers, candVars, voteNet, beatNet, budget, history>>

\* A crash and a restart: raft-state.json is reloaded, the rest starts afresh and
\* the calls the old process awaited are gone.
Restart(n) ==
    /\ budget.restarts < MaxRestarts
    /\ initializeRaftStore(n)
    /\ peers' = [peers EXCEPT ![n] = StaticPeers[n]]
    /\ catchingUp' = [catchingUp EXCEPT ![n] = FALSE]
    /\ inFlight' = [inFlight EXCEPT ![n] = FALSE]
    /\ eTerm' = [eTerm EXCEPT ![n] = 0]
    /\ pending' = [pending EXCEPT ![n] = {}]
    /\ voters' = [voters EXCEPT ![n] = {}]
    /\ voteResps' = {r \in voteResps : r.to # n}
    /\ rejects' = {r \in rejects : r.to # n}
    /\ budget' = [budget EXCEPT !.restarts = @ + 1]
    /\ UNCHANGED <<voteReqs, heartbeats, history>>

Next ==
    \/ \E n \in Node : startElection(n)
    \/ \E r \in voteResps : VoteCallReturns(r)
    \/ \E n, p \in Node : VoteCallFails(n, p)
    \/ \E n \in Node : FinishElection(n)
    \/ \E m \in voteReqs : handleVoteRequest(m)
    \/ \E n \in Node : sendHeartbeats(n)
    \/ \E h \in heartbeats : RejectHeartbeat(h)
    \/ \E h \in heartbeats : AcceptHeartbeat(h)
    \/ \E r \in rejects : RejectReturns(r)
    \/ LoseBeat
    \/ \E n, x \in Node : handleMembershipJoin(n, x)
    \/ \E n, x \in Node : handleMembershipLeave(n, x)
    \/ \E n \in Node : BeginCatchUp(n)
    \/ \E n \in Node : EndCatchUp(n)
    \/ \E n \in Node : Restart(n)

Spec == Init /\ [][Next]_vars

(***************************************************************************)
(* Fairness.  setInterval keeps firing the heartbeat of a leader; every    *)
(* call settles, by its answer or by the abort timer of postJson(); and a  *)
(* call that is made again and again between two nodes gets through again  *)
(* and again, both ways.                                                   *)
(***************************************************************************)

BeatArrives(n, p) ==
    \E h \in heartbeats : h.from = n /\ h.to = p /\ (RejectHeartbeat(h) \/ AcceptHeartbeat(h))
RejectArrives(n, p) == \E r \in rejects : r.to = n /\ r.from = p /\ RejectReturns(r)

Fairness ==
    /\ \A n \in Node : WF_vars(sendHeartbeats(n))
    /\ \A n, p \in Node : SF_vars(BeatArrives(n, p)) /\ SF_vars(RejectArrives(n, p))
    /\ \A n, p \in Node : WF_vars(VoteCallFails(n, p))
    /\ \A n \in Node : WF_vars(FinishElection(n))

FairSpec == Spec /\ Fairness

(***************************************************************************)
(* Properties.                                                             *)
(***************************************************************************)

Granted(t, c) == {v \in Node : <<v, t, c>> \in granted}

\* The votes a running election has counted are votes that were really cast for
\* this candidate in this term: late, refused or foreign answers are never counted
\* (startElection() checks role and term again after every await).
CountedVotesWereCast ==
    \A n \in Node : inFlight[n] => voters[n] \subseteq Granted(eTerm[n], n)

\* Whoever acts as leader of a term has won an election in that very term: no
\* restart, late answer or membership change makes a leader of another term.
LeaderWonItsTerm ==
    \A n \in Node : role[n] = "leader" => <<n, currentTerm[n]>> \in won

\* A node votes for two candidates of one term only if it has itself won that term:
\* clearing votedFor on the way to leadership is the one way a vote is released.
SecondVoteOnlyAfterWinning ==
    \A v \in Node, t \in Term : \A a, b \in Node :
        <<v, t, a>> \in granted /\ <<v, t, b>> \in granted /\ a # b => <<v, t>> \in won

\* With the membership of the configuration, two winners of one term share a voter
\* that had won that term before: there is no other way to two leaders in one term.
TwinLeadersShareAWinner ==
    \A t \in Term : \A a, b \in Node :
        <<a, t>> \in won /\ <<b, t>> \in won /\ a # b
            => \E v \in Granted(t, a) \cap Granted(t, b) : <<v, t>> \in won

\* While no join or leave is served, the quorum of every node stays a majority of
\* the cluster, though heartbeats replace peer lists by lists that name the
\* receiver and omit the sender.
QuorumIsMajority ==
    \A n \in Node : 2 * quorum(n) > Cardinality(Node)

\* A term is never taken back: neither a handler, nor a late answer, nor a restart
\* lowers it.
TermNeverRegresses ==
    [][\A n \in Node : currentTerm'[n] >= currentTerm[n]]_vars

\* Within a term a vote, once cast, stays where it is, restarts included; only the
\* candidate that wins releases its own.
VoteIsKept ==
    [][\A n \in Node :
         votedFor[n] # Nil /\ currentTerm'[n] = currentTerm[n]
             => \/ votedFor'[n] = votedFor[n]
                \/ votedFor[n] = n /\ votedFor'[n] = Nil /\ role'[n] = "leader"]_vars

\* A leader that a peer has outgrown is deposed: one of its heartbeats comes back
\* with the higher term, unless the peer is removed from the cluster first.
StaleLeaderIsDeposed ==
    \A n, p \in Node :
        (role[n] = "leader" /\ p \in peers[n] /\ currentTerm[p] > currentTerm[n])
            ~> role[n] # "leader" \/ p \notin peers[n]

\* electionInFlight is always released, whatever becomes of the vote calls: a node
\* never loses its ability to start another election.
ElectionEnds == \A n \in Node : inFlight[n] ~> ~inFlight[n]

\* README.md:616: "only one node is elected leader at a time (RAFT consensus)": no
\* two nodes win the same term.
OneWinnerPerTerm ==
    \A t \in Term : \A a, b \in Node : <<a, t>> \in won /\ <<b, t>> \in won => a = b

\* raft-state-machine.ts:124: "the node must not become leader until it has a
\* complete, current state": nobody is elected while it catches up.
NotElectedWhileCatchingUp ==
    [][\A n \in Node : role[n] # "leader" /\ role'[n] = "leader" => ~catchingUp[n]]_vars

\* runtime.ts:306: "If not the leader, redirect to leader": the node a membership
\* request is redirected to has won the term its follower is in.
RedirectNamesAWinner ==
    \A n \in Node :
        role[n] = "follower" /\ leaderId[n] # Nil => <<leaderId[n], currentTerm[n]>> \in won
=============================================================================
