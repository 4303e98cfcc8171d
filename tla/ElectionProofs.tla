--------------------------- MODULE ElectionProofs ---------------------------
(***************************************************************************)
(* Theorems about Election, for every set of nodes, every configuration    *)
(* and every value of the bounds.                                          *)
(***************************************************************************)
EXTENDS Election, FiniteSetTheorems, TLAPS

(***************************************************************************)
(* The inductive invariant.  CountedVotesWereCast, LeaderWonItsTerm and    *)
(* SecondVoteOnlyAfterWinning are three of its parts; the others say why   *)
(* they survive a step.                                                    *)
(***************************************************************************)

\* A vote is never cast in a term the voter has not reached.
VotesAreOfThePast ==
    \A v, c \in Node, t \in Term : <<v, t, c>> \in granted => t <= currentTerm[v]

\* A vote of the current term is the one still held, or its voter has won the term.
VoteHeldOrReleased ==
    \A v, c \in Node :
        <<v, currentTerm[v], c>> \in granted => votedFor[v] = c \/ <<v, currentTerm[v]>> \in won

\* Every answer on the wire is awaited by the election that asked for it.
AnswersAreAwaited ==
    \A r \in voteResps : Waiting(r.to, r.from, r.eterm)

\* An answer that grants is the answer of a vote that was cast.
GrantsWereCast ==
    \A r \in voteResps : r.granted => <<r.from, r.eterm, r.to>> \in granted

\* A candidate holds its own vote.
CandidateHoldsItsVote ==
    \A n \in Node : role[n] = "candidate" => votedFor[n] = n

\* What the handlers owe to the terms and votes of the nodes.
TermInv ==
    /\ VotesAreOfThePast
    /\ VoteHeldOrReleased
    /\ CandidateHoldsItsVote
    /\ LeaderWonItsTerm
    /\ SecondVoteOnlyAfterWinning

\* What they owe to the count of a running election.
CountInv ==
    /\ AnswersAreAwaited
    /\ GrantsWereCast
    /\ CountedVotesWereCast

VoteInv == TermInv /\ CountInv

(***************************************************************************)
(* Types.                                                                  *)
(***************************************************************************)

LEMMA InitType == Init => TypeOK
BY NodesAssumption, PeersAssumption, BoundsAssumption
   DEF Init, TypeOK, Roles, Term, VoteReq, VoteResp, Heartbeat, Reject

\* What stepDown() writes has the right type when the term has.
LEMMA StepDownType ==
    ASSUME TypeOK, NEW n \in Node, NEW t \in Term, NEW l \in Node \cup {Nil}, stepDown(n, t, l)
    PROVE  /\ role' \in [Node -> Roles]
           /\ currentTerm' \in [Node -> Term]
           /\ votedFor' \in [Node -> Node \cup {Nil}]
           /\ leaderId' \in [Node -> Node \cup {Nil}]
BY DEF TypeOK, stepDown, Roles

LEMMA StepType == TypeOK /\ [Next]_vars => TypeOK'
<1> SUFFICES ASSUME TypeOK, [Next]_vars PROVE TypeOK'
    OBVIOUS
<1> USE NodesAssumption, PeersAssumption, BoundsAssumption
<1>1. CASE UNCHANGED vars
  BY <1>1 DEF TypeOK, vars, raftVars, candVars, voteNet, beatNet, history
<1>2. ASSUME NEW n \in Node, startElection(n) PROVE TypeOK'
  <2>1. currentTerm[n] + 1 \in Term
    BY <1>2 DEF TypeOK, startElection, Term
  <2>2. budget' \in [elections : 0 .. MaxElections, restarts : 0 .. MaxRestarts,
                     changes : 0 .. MaxChanges, catchUps : 0 .. MaxCatchUps]
    BY <1>2 DEF TypeOK, startElection
  <2>3. voteReqs' \subseteq VoteReq
    BY <1>2, <2>1 DEF TypeOK, startElection, VoteReq
  <2> QED
    BY <1>2, <2>1, <2>2, <2>3 DEF TypeOK, startElection, Roles, beatNet
<1>3. ASSUME NEW r \in voteResps, VoteCallReturns(r) PROVE TypeOK'
  <2>1. /\ r.to \in Node /\ r.from \in Node /\ r.term \in Term
        /\ r.leader \in Node \cup {Nil}
    BY DEF TypeOK, VoteResp
  <2>2. pending' \in [Node -> SUBSET Node] /\ voteResps' \subseteq VoteResp
    BY <1>3, <2>1 DEF TypeOK, VoteCallReturns, Settle
  <2>3. CASE Outgrown(r.to, r.term)
    <3>1. stepDown(r.to, r.term, r.leader) /\ UNCHANGED voters
      BY <1>3, <2>3 DEF VoteCallReturns
    <3> QED
      BY <1>3, <2>1, <2>2, <3>1, StepDownType DEF TypeOK, VoteCallReturns, beatNet, history
  <2>4. CASE ~Outgrown(r.to, r.term)
    BY <1>3, <2>1, <2>2, <2>4 DEF TypeOK, VoteCallReturns, raftVars, beatNet, history
  <2> QED
    BY <2>3, <2>4
<1>4. ASSUME NEW n \in Node, NEW p \in Node, VoteCallFails(n, p) PROVE TypeOK'
  BY <1>4 DEF TypeOK, VoteCallFails, Settle, raftVars, beatNet, history
<1>5. ASSUME NEW n \in Node, FinishElection(n) PROVE TypeOK'
  <2>1. /\ role' \in [Node -> Roles] /\ currentTerm' \in [Node -> Term]
        /\ votedFor' \in [Node -> Node \cup {Nil}]
        /\ leaderId' \in [Node -> Node \cup {Nil}]
        /\ won' \subseteq Node \X Term
    BY <1>5 DEF TypeOK, FinishElection, raftVars, Roles
  <2>2. /\ inFlight' \in [Node -> BOOLEAN] /\ eTerm' \in [Node -> Term]
        /\ voters' \in [Node -> SUBSET Node]
    BY <1>5 DEF TypeOK, FinishElection, releaseElection, Term
  <2> QED
    BY <1>5, <2>1, <2>2 DEF TypeOK, FinishElection, voteNet, beatNet
<1>6. ASSUME NEW m \in voteReqs, handleVoteRequest(m) PROVE TypeOK'
  <2>1. m.to \in Node /\ m.from \in Node /\ m.term \in Term
    BY DEF TypeOK, VoteReq
  <2>2. /\ role' \in [Node -> Roles] /\ currentTerm' \in [Node -> Term]
        /\ votedFor' \in [Node -> Node \cup {Nil}]
        /\ leaderId' \in [Node -> Node \cup {Nil}]
    BY <1>6, <2>1 DEF TypeOK, handleVoteRequest, Roles
  <2>3. granted' \subseteq Node \X Term \X Node
    BY <1>6, <2>1 DEF TypeOK, handleVoteRequest
  <2>4. canVote(m.to, m) \in BOOLEAN
    BY DEF canVote
  <2>5. voteResps' \subseteq VoteResp
    BY <1>6, <2>1, <2>2, <2>4 DEF TypeOK, handleVoteRequest, VoteResp
  <2> QED
    BY <1>6, <2>2, <2>3, <2>5 DEF TypeOK, handleVoteRequest, candVars, beatNet
<1>7. ASSUME NEW n \in Node, sendHeartbeats(n) PROVE TypeOK'
  <2>1. heartbeats' \subseteq Heartbeat
    BY <1>7 DEF TypeOK, sendHeartbeats, Heartbeat
  <2> QED
    BY <1>7, <2>1 DEF TypeOK, sendHeartbeats, raftVars, candVars, voteNet, history
<1>8. ASSUME NEW h \in heartbeats, RejectHeartbeat(h) PROVE TypeOK'
  <2>1. rejects' \subseteq Reject
    BY <1>8 DEF TypeOK, RejectHeartbeat, Heartbeat, Reject
  <2> QED
    BY <1>8, <2>1 DEF TypeOK, RejectHeartbeat, raftVars, candVars, voteNet, history
<1>9. ASSUME NEW h \in heartbeats, AcceptHeartbeat(h) PROVE TypeOK'
  <2>1. h.to \in Node /\ h.from \in Node /\ h.term \in Term /\ h.peers \in SUBSET Node
    BY DEF TypeOK, Heartbeat
  <2>2. /\ role' \in [Node -> Roles] /\ currentTerm' \in [Node -> Term]
        /\ votedFor' \in [Node -> Node \cup {Nil}]
        /\ leaderId' \in [Node -> Node \cup {Nil}]
    <3>1. CASE h.term > currentTerm[h.to]
      <4>1. stepDown(h.to, h.term, h.from)
        BY <1>9, <3>1 DEF AcceptHeartbeat
      <4> QED
        BY <2>1, <4>1, StepDownType
    <3>2. CASE ~(h.term > currentTerm[h.to])
      BY <1>9, <2>1, <3>2 DEF TypeOK, AcceptHeartbeat, Roles
    <3> QED
      BY <3>1, <3>2
  <2>3. peers' \in [Node -> SUBSET Node] /\ heartbeats' \subseteq Heartbeat
    BY <1>9, <2>1 DEF TypeOK, AcceptHeartbeat
  <2> QED
    BY <1>9, <2>2, <2>3 DEF TypeOK, AcceptHeartbeat, candVars, voteNet, history
<1>10. ASSUME NEW r \in rejects, RejectReturns(r) PROVE TypeOK'
  <2>1. r.to \in Node /\ r.from \in Node /\ r.term \in Term
    BY DEF TypeOK, Reject
  <2>2. CASE Outgrown(r.to, r.term)
    <3>1. stepDown(r.to, r.term, r.from)
      BY <1>10, <2>2 DEF RejectReturns
    <3> QED
      BY <1>10, <2>1, <3>1, StepDownType
         DEF TypeOK, RejectReturns, candVars, voteNet, history
  <2>3. CASE ~Outgrown(r.to, r.term)
    BY <1>10, <2>3 DEF TypeOK, RejectReturns, raftVars, candVars, voteNet, history
  <2> QED
    BY <2>2, <2>3
<1>11. CASE LoseBeat
  BY <1>11 DEF TypeOK, LoseBeat, raftVars, candVars, voteNet, history
<1>12. ASSUME NEW n \in Node, NEW new \in SUBSET Node, ChangePeers(n, new) PROVE TypeOK'
  BY <1>12 DEF TypeOK, ChangePeers, raftVars, candVars, voteNet, beatNet, history
<1>13. ASSUME NEW n \in Node, NEW x \in Node, handleMembershipJoin(n, x) PROVE TypeOK'
  <2>1. peers[n] \cup {x} \in SUBSET Node
    BY DEF TypeOK
  <2> QED
    BY <1>12, <1>13, <2>1 DEF handleMembershipJoin
<1>14. ASSUME NEW n \in Node, NEW x \in Node, handleMembershipLeave(n, x) PROVE TypeOK'
  <2>1. peers[n] \ {x} \in SUBSET Node
    BY DEF TypeOK
  <2> QED
    BY <1>12, <1>14, <2>1 DEF handleMembershipLeave
<1>15. ASSUME NEW n \in Node, BeginCatchUp(n) PROVE TypeOK'
  BY <1>15 DEF TypeOK, BeginCatchUp, raftVars, candVars, voteNet, beatNet, history
<1>16. ASSUME NEW n \in Node, EndCatchUp(n) PROVE TypeOK'
  BY <1>16 DEF TypeOK, EndCatchUp, raftVars, candVars, voteNet, beatNet, history
<1>17. ASSUME NEW n \in Node, Restart(n) PROVE TypeOK'
  BY <1>17 DEF TypeOK, Restart, initializeRaftStore, Roles, Term, history
<1> QED
  BY <1>1, <1>2, <1>3, <1>4, <1>5, <1>6, <1>7, <1>8, <1>9, <1>10, <1>11, <1>13, <1>14,
     <1>15, <1>16, <1>17 DEF Next

\* Every variable keeps its type, and the bounds of the model hold.
THEOREM TypeCorrect == Spec => []TypeOK
<1>1. Init => TypeOK
  BY InitType
<1>2. TypeOK /\ [Next]_vars => TypeOK'
  BY StepType
<1> QED
  BY <1>1, <1>2, PTL DEF Spec

(***************************************************************************)
(* Votes.                                                                  *)
(***************************************************************************)

LEMMA InitVotes == Init => VoteInv
BY DEF Init, VoteInv, TermInv, CountInv, VotesAreOfThePast, VoteHeldOrReleased,
       AnswersAreAwaited, GrantsWereCast, CandidateHoldsItsVote, CountedVotesWereCast,
       LeaderWonItsTerm, SecondVoteOnlyAfterWinning

LEMMA TermIsNat == ASSUME TypeOK, NEW n \in Node PROVE currentTerm[n] \in Nat
BY BoundsAssumption DEF TypeOK, Term

\* stepDown() to a higher term: no vote of that term has been cast by n.
LEMMA StepDownTerms ==
    ASSUME TypeOK, TermInv, NEW n \in Node, NEW t \in Term, NEW l \in Node \cup {Nil},
           t > currentTerm[n], stepDown(n, t, l), UNCHANGED history
    PROVE  TermInv'
<1>1. /\ \A v \in Node \ {n} : /\ currentTerm'[v] = currentTerm[v] /\ role'[v] = role[v]
                              /\ votedFor'[v] = votedFor[v]
      /\ currentTerm'[n] = t /\ role'[n] = "follower"
      /\ granted' = granted /\ won' = won
  BY DEF TypeOK, stepDown, history
<1>2. \A v \in Node : currentTerm[v] \in Nat
  BY TermIsNat
<1>3. t \in Nat
  BY BoundsAssumption DEF Term
<1>4. VotesAreOfThePast'
  BY <1>1, <1>2, <1>3, BoundsAssumption DEF TermInv, VotesAreOfThePast, Term
<1>5. \A c \in Node : <<n, t, c>> \notin granted
  BY <1>2, <1>3 DEF TermInv, VotesAreOfThePast
<1>6. VoteHeldOrReleased'
  BY <1>1, <1>5 DEF TermInv, VoteHeldOrReleased
<1>7. CandidateHoldsItsVote' /\ LeaderWonItsTerm' /\ SecondVoteOnlyAfterWinning'
  BY <1>1 DEF TermInv, CandidateHoldsItsVote, LeaderWonItsTerm, SecondVoteOnlyAfterWinning
<1> QED
  BY <1>4, <1>6, <1>7 DEF TermInv

\* Nothing a node promises is disturbed when terms, votes and the records of both stay
\* and roles only fall back to follower.
LEMMA FollowersKeepTerms ==
    ASSUME TermInv, UNCHANGED <<currentTerm, votedFor, history>>,
           \A v \in Node : role'[v] = role[v] \/ role'[v] = "follower"
    PROVE  TermInv'
BY DEF TermInv, VotesAreOfThePast, VoteHeldOrReleased, CandidateHoldsItsVote,
       LeaderWonItsTerm, SecondVoteOnlyAfterWinning, history

\* A vote that n casts for c in its (new) term t, which has no other vote of n unless n
\* has won it.
LEMMA VoteCast ==
    ASSUME TypeOK, TermInv, NEW n \in Node, NEW t \in Term, NEW c \in Node,
           t = currentTerm[n] => votedFor[n] \in {Nil, c},
           t >= currentTerm[n],
           currentTerm' = [currentTerm EXCEPT ![n] = t],
           votedFor' = [votedFor EXCEPT ![n] = c],
           granted' = granted \cup {<<n, t, c>>}, won' = won,
           role'[n] = "leader" => role[n] = "leader" /\ t = currentTerm[n],
           role'[n] = "candidate" => c = n,
           \A v \in Node \ {n} : role'[v] = role[v]
    PROVE  TermInv'
<1>1. /\ \A v \in Node \ {n} : currentTerm'[v] = currentTerm[v] /\ votedFor'[v] = votedFor[v]
      /\ currentTerm'[n] = t /\ votedFor'[n] = c
  BY DEF TypeOK
<1>2. (\A v \in Node : currentTerm[v] \in Nat) /\ t \in Nat /\ \A u \in Term : u \in Nat
  BY TermIsNat, BoundsAssumption DEF Term
<1>3. \A a \in Node : <<n, t, a>> \in granted /\ a # c => <<n, t>> \in won
  <2>1. CASE t = currentTerm[n]
    BY <2>1, NodesAssumption DEF TermInv, VoteHeldOrReleased
  <2>2. CASE t > currentTerm[n]
    BY <1>2, <2>2 DEF TermInv, VotesAreOfThePast
  <2> QED
    BY <1>2, <2>1, <2>2
<1>4. VotesAreOfThePast'
  BY <1>1, <1>2 DEF TermInv, VotesAreOfThePast
<1>5. VoteHeldOrReleased'
  BY <1>1, <1>3 DEF TermInv, VoteHeldOrReleased
<1>6. CandidateHoldsItsVote' /\ LeaderWonItsTerm'
  BY <1>1 DEF TermInv, CandidateHoldsItsVote, LeaderWonItsTerm
<1>7. SecondVoteOnlyAfterWinning'
  BY <1>3 DEF TermInv, SecondVoteOnlyAfterWinning
<1> QED
  BY <1>4, <1>5, <1>6, <1>7 DEF TermInv

LEMMA TermStep == TypeOK /\ TermInv /\ [Next]_vars => TermInv'
<1> SUFFICES ASSUME TypeOK, TermInv, [Next]_vars PROVE TermInv'
    OBVIOUS
<1>1. CASE UNCHANGED vars
  BY <1>1, FollowersKeepTerms DEF vars, raftVars, history
<1>2. ASSUME NEW n \in Node, startElection(n) PROVE TermInv'
  <2>1. /\ currentTerm[n] + 1 \in Term
        /\ currentTerm[n] + 1 > currentTerm[n]
    BY <1>2, BoundsAssumption DEF TypeOK, startElection, Term
  <2>2. /\ role'[n] = "candidate" /\ \A v \in Node \ {n} : role'[v] = role[v]
    BY <1>2 DEF startElection, TypeOK
  <2>3. ~(currentTerm[n] + 1 = currentTerm[n]) /\ currentTerm[n] + 1 >= currentTerm[n]
    BY <2>1, TermIsNat
  <2> DEFINE t == currentTerm[n] + 1
  <2>4. /\ currentTerm' = [currentTerm EXCEPT ![n] = t]
        /\ votedFor' = [votedFor EXCEPT ![n] = n]
        /\ granted' = granted \cup {<<n, t, n>>} /\ won' = won
    BY <1>2 DEF startElection
  <2> HIDE DEF t
  <2> QED
    BY <2>1, <2>2, <2>3, <2>4, VoteCast DEF t
<1>3. ASSUME NEW r \in voteResps, VoteCallReturns(r) PROVE TermInv'
  <2>1. r.to \in Node /\ r.term \in Term /\ r.leader \in Node \cup {Nil}
    BY DEF TypeOK, VoteResp
  <2>2. CASE Outgrown(r.to, r.term)
    BY <1>3, <2>1, <2>2, StepDownTerms DEF VoteCallReturns, Outgrown, history
  <2>3. CASE ~Outgrown(r.to, r.term)
    BY <1>3, <2>3, FollowersKeepTerms DEF VoteCallReturns, raftVars
  <2> QED
    BY <2>2, <2>3
<1>4. ASSUME NEW n \in Node, NEW p \in Node, VoteCallFails(n, p) PROVE TermInv'
  BY <1>4, FollowersKeepTerms DEF VoteCallFails, raftVars
<1>5. ASSUME NEW n \in Node, FinishElection(n) PROVE TermInv'
  <2>1. CASE ~(StillCandidate(n) /\ Cardinality(voters[n]) >= quorum(n))
    BY <1>5, <2>1, FollowersKeepTerms DEF FinishElection, raftVars, history
  <2>2. CASE StillCandidate(n) /\ Cardinality(voters[n]) >= quorum(n)
    <3>1. /\ role[n] = "candidate" /\ eTerm[n] = currentTerm[n] /\ votedFor[n] = n
      BY <2>2 DEF StillCandidate, TermInv, CandidateHoldsItsVote
    <3>2. /\ role' = [role EXCEPT ![n] = "leader"]
          /\ votedFor' = [votedFor EXCEPT ![n] = Nil]
          /\ won' = won \cup {<<n, currentTerm[n]>>}
          /\ currentTerm' = currentTerm /\ granted' = granted
      BY <1>5, <2>2, <3>1 DEF FinishElection
    <3>3. VotesAreOfThePast' /\ SecondVoteOnlyAfterWinning'
      BY <3>2 DEF TermInv, VotesAreOfThePast, SecondVoteOnlyAfterWinning
    <3>4. VoteHeldOrReleased'
      BY <3>2 DEF TermInv, VoteHeldOrReleased, TypeOK
    <3>5. CandidateHoldsItsVote' /\ LeaderWonItsTerm'
      BY <3>2 DEF TermInv, CandidateHoldsItsVote, LeaderWonItsTerm, TypeOK
    <3> QED
      BY <3>3, <3>4, <3>5 DEF TermInv
  <2> QED
    BY <2>1, <2>2
<1>6. ASSUME NEW m \in voteReqs, handleVoteRequest(m) PROVE TermInv'
  <2> DEFINE n == m.to
  <2>1. n \in Node /\ m.from \in Node /\ m.term \in Term
    BY DEF TypeOK, VoteReq
  <2>2. currentTerm[n] \in Nat /\ m.term \in Nat
    BY <2>1, TermIsNat, BoundsAssumption DEF Term
  <2>3. /\ role' = [role EXCEPT ![n] = IF m.term > currentTerm[n] THEN "follower" ELSE @]
        /\ \A v \in Node \ {n} : role'[v] = role[v]
        /\ role'[n] = IF m.term > currentTerm[n] THEN "follower" ELSE role[n]
        /\ won' = won
    BY <1>6, <2>1 DEF handleVoteRequest, TypeOK
  <2>4. CASE canVote(n, m)
    <3>1. /\ currentTerm' = [currentTerm EXCEPT ![n] = m.term]
          /\ votedFor' = [votedFor EXCEPT ![n] = m.from]
          /\ granted' = granted \cup {<<n, m.term, m.from>>}
      <4>1. (IF m.term > currentTerm[n] THEN m.term ELSE currentTerm[n]) = m.term
        BY <2>2, <2>4 DEF canVote
      <4>2. currentTerm' = [currentTerm EXCEPT
                              ![n] = IF m.term > currentTerm[n] THEN m.term ELSE currentTerm[n]]
        BY <1>6 DEF handleVoteRequest
      <4>3. /\ votedFor' = [votedFor EXCEPT ![n] = m.from]
            /\ granted' = granted \cup {<<n, m.term, m.from>>}
        BY <1>6, <2>4 DEF handleVoteRequest
      <4> HIDE DEF n
      <4> QED
        BY <4>1, <4>2, <4>3
    <3>2. m.term >= currentTerm[n] /\ (m.term = currentTerm[n] => votedFor[n] \in {Nil, m.from})
      BY <2>2, <2>4 DEF canVote
    <3>3. role'[n] = "leader" => role[n] = "leader" /\ m.term = currentTerm[n]
      BY <2>2, <2>3, <3>2
    <3>4. role'[n] = "candidate" => m.from = n
      BY <2>1, <2>2, <2>3, <3>2, NodesAssumption DEF TermInv, CandidateHoldsItsVote
    <3> QED
      BY <2>1, <2>3, <3>1, <3>2, <3>3, <3>4, VoteCast
  <2>5. CASE ~canVote(n, m)
    <3>1. ~(m.term > currentTerm[n])
      BY <2>2, <2>5 DEF canVote
    <3>2. currentTerm' = currentTerm /\ votedFor' = votedFor /\ role' = role /\ granted' = granted
      BY <1>6, <2>1, <2>5, <3>1 DEF handleVoteRequest, TypeOK
    <3> QED
      BY <2>3, <3>2, FollowersKeepTerms DEF history
  <2> QED
    BY <2>4, <2>5
<1>7. ASSUME NEW n \in Node, sendHeartbeats(n) PROVE TermInv'
  BY <1>7, FollowersKeepTerms DEF sendHeartbeats, raftVars
<1>8. ASSUME NEW h \in heartbeats, RejectHeartbeat(h) PROVE TermInv'
  BY <1>8, FollowersKeepTerms DEF RejectHeartbeat, raftVars
<1>9. ASSUME NEW h \in heartbeats, AcceptHeartbeat(h) PROVE TermInv'
  <2>1. h.to \in Node /\ h.from \in Node /\ h.term \in Term
    BY DEF TypeOK, Heartbeat
  <2>2. CASE h.term > currentTerm[h.to]
    BY <1>9, <2>1, <2>2, StepDownTerms DEF AcceptHeartbeat
  <2>3. CASE ~(h.term > currentTerm[h.to])
    <3>1. role' = [role EXCEPT ![h.to] = "follower"] /\ UNCHANGED <<currentTerm, votedFor, history>>
      BY <1>9, <2>3 DEF AcceptHeartbeat
    <3> QED
      BY <3>1, FollowersKeepTerms DEF TypeOK
  <2> QED
    BY <2>2, <2>3
<1>10. ASSUME NEW r \in rejects, RejectReturns(r) PROVE TermInv'
  <2>1. r.to \in Node /\ r.from \in Node /\ r.term \in Term
    BY DEF TypeOK, Reject
  <2>2. CASE Outgrown(r.to, r.term)
    BY <1>10, <2>1, <2>2, StepDownTerms DEF RejectReturns, Outgrown, history
  <2>3. CASE ~Outgrown(r.to, r.term)
    BY <1>10, <2>3, FollowersKeepTerms DEF RejectReturns, raftVars
  <2> QED
    BY <2>2, <2>3
<1>11. CASE LoseBeat
  BY <1>11, FollowersKeepTerms DEF LoseBeat, raftVars
<1>12. ASSUME NEW n \in Node, NEW new, ChangePeers(n, new) PROVE TermInv'
  BY <1>12, FollowersKeepTerms DEF ChangePeers, raftVars
<1>13. ASSUME NEW n \in Node, NEW x \in Node,
              handleMembershipJoin(n, x) \/ handleMembershipLeave(n, x) PROVE TermInv'
  BY <1>12, <1>13 DEF handleMembershipJoin, handleMembershipLeave
<1>14. ASSUME NEW n \in Node, BeginCatchUp(n) \/ EndCatchUp(n) PROVE TermInv'
  BY <1>14, FollowersKeepTerms DEF BeginCatchUp, EndCatchUp, raftVars
<1>15. ASSUME NEW n \in Node, Restart(n) PROVE TermInv'
  <2>1. role' = [role EXCEPT ![n] = "follower"] /\ UNCHANGED <<currentTerm, votedFor, history>>
    BY <1>15 DEF Restart, initializeRaftStore
  <2> QED
    BY <2>1, FollowersKeepTerms DEF TypeOK
<1> QED
  BY <1>1, <1>2, <1>3, <1>4, <1>5, <1>6, <1>7, <1>8, <1>9, <1>10, <1>11, <1>13, <1>14, <1>15
     DEF Next

LEMMA CountStep == TypeOK /\ CountInv /\ [Next]_vars => CountInv'
<1> SUFFICES ASSUME TypeOK, CountInv, [Next]_vars PROVE CountInv'
    OBVIOUS
<1> USE DEF CountInv, AnswersAreAwaited, GrantsWereCast, CountedVotesWereCast, Waiting, Granted
\* Most actions leave the candidate's side alone and only add to the record of votes.
<1>1. ASSUME UNCHANGED <<candVars, voteResps>>, granted \subseteq granted' PROVE CountInv'
  BY <1>1 DEF candVars
<1>2. CASE UNCHANGED vars
  BY <1>1, <1>2 DEF vars, voteNet, history
<1>3. ASSUME NEW n \in Node, startElection(n) PROVE CountInv'
  <2>1. ~inFlight[n] /\ voteResps' = voteResps
    BY <1>3 DEF startElection
  <2>2. \A r \in voteResps : r.to \in Node /\ r.to # n
    BY <2>1 DEF TypeOK, VoteResp
  <2>3. /\ eTerm' = [eTerm EXCEPT ![n] = currentTerm[n] + 1]
        /\ inFlight' = [inFlight EXCEPT ![n] = TRUE]
        /\ voters' = [voters EXCEPT ![n] = {n}]
        /\ pending' = [pending EXCEPT ![n] = peers[n] \ {n}]
        /\ granted' = granted \cup {<<n, currentTerm[n] + 1, n>>}
    BY <1>3 DEF startElection
  <2>4. AnswersAreAwaited' /\ GrantsWereCast'
    BY <2>1, <2>2, <2>3 DEF TypeOK
  <2>5. CountedVotesWereCast'
    BY <2>3 DEF TypeOK
  <2> QED
    BY <2>4, <2>5
<1>4. ASSUME NEW n \in Node, NEW p \in Node, Settle(n, p), UNCHANGED <<inFlight, eTerm, granted>>
      PROVE  AnswersAreAwaited' /\ GrantsWereCast'
  BY <1>4 DEF Settle, TypeOK, VoteResp
<1>5. ASSUME NEW r \in voteResps, VoteCallReturns(r) PROVE CountInv'
  <2>1. r.to \in Node /\ r.from \in Node
    BY DEF TypeOK, VoteResp
  <2>2. /\ Settle(r.to, r.from) /\ UNCHANGED <<inFlight, eTerm, granted>>
        /\ \/ voters' = voters
           \/ r.granted /\ voters' = [voters EXCEPT ![r.to] = @ \cup {r.from}]
    BY <1>5 DEF VoteCallReturns, Counts, history
  <2>3. AnswersAreAwaited' /\ GrantsWereCast'
    BY <1>4, <2>1, <2>2
  <2>4. r.granted => r.from \in Granted(eTerm[r.to], r.to)
    BY <2>1
  <2>5. CountedVotesWereCast'
    BY <2>1, <2>2, <2>4 DEF TypeOK
  <2> QED
    BY <2>3, <2>5
<1>6. ASSUME NEW n \in Node, NEW p \in Node, VoteCallFails(n, p) PROVE CountInv'
  <2>1. Settle(n, p) /\ UNCHANGED <<inFlight, eTerm, granted, voters>>
    BY <1>6 DEF VoteCallFails, history
  <2>2. AnswersAreAwaited' /\ GrantsWereCast'
    BY <1>4, <2>1
  <2> QED
    BY <2>1, <2>2
<1>7. ASSUME NEW n \in Node, FinishElection(n) PROVE CountInv'
  <2>1. /\ pending[n] = {} /\ pending' = pending /\ voteResps' = voteResps /\ granted' = granted
        /\ inFlight' = [inFlight EXCEPT ![n] = FALSE]
        /\ eTerm' = [eTerm EXCEPT ![n] = 0]
        /\ voters' = [voters EXCEPT ![n] = {}]
    BY <1>7 DEF FinishElection, releaseElection, voteNet
  <2>2. \A r \in voteResps : r.to \in Node /\ r.to # n
    BY <2>1 DEF TypeOK, VoteResp
  <2>3. AnswersAreAwaited' /\ GrantsWereCast'
    BY <2>1, <2>2 DEF TypeOK
  <2>4. CountedVotesWereCast'
    BY <2>1 DEF TypeOK
  <2> QED
    BY <2>3, <2>4
<1>8. ASSUME NEW m \in voteReqs, handleVoteRequest(m) PROVE CountInv'
  <2>1. m.to \in Node /\ m.from \in Node /\ m.term \in Term
    BY DEF TypeOK, VoteReq
  <2>2. /\ UNCHANGED candVars
        /\ granted' = IF canVote(m.to, m) THEN granted \cup {<<m.to, m.term, m.from>>} ELSE granted
    BY <1>8 DEF handleVoteRequest
  <2>3. \A r \in voteResps' : r \in voteResps
          \/ /\ Waiting(m.from, m.to, m.term)
             /\ r.to = m.from /\ r.from = m.to /\ r.eterm = m.term /\ r.granted = canVote(m.to, m)
    BY <1>8 DEF handleVoteRequest
  <2>4. AnswersAreAwaited'
    BY <2>2, <2>3 DEF candVars
  <2>5. GrantsWereCast'
    BY <2>2, <2>3
  <2>6. CountedVotesWereCast'
    BY <2>2 DEF candVars
  <2> QED
    BY <2>4, <2>5, <2>6
<1>9. ASSUME NEW n \in Node, Restart(n) PROVE CountInv'
  <2>1. /\ voteResps' = {r \in voteResps : r.to # n} /\ granted' = granted
        /\ inFlight' = [inFlight EXCEPT ![n] = FALSE]
        /\ eTerm' = [eTerm EXCEPT ![n] = 0]
        /\ pending' = [pending EXCEPT ![n] = {}]
        /\ voters' = [voters EXCEPT ![n] = {}]
    BY <1>9 DEF Restart, history
  <2>2. AnswersAreAwaited' /\ GrantsWereCast'
    BY <2>1 DEF TypeOK, VoteResp
  <2>3. CountedVotesWereCast'
    BY <2>1 DEF TypeOK
  <2> QED
    BY <2>2, <2>3
<1>10. ASSUME NEW n \in Node, sendHeartbeats(n) PROVE CountInv'
  BY <1>1, <1>10 DEF sendHeartbeats, voteNet, history
<1>11. ASSUME NEW h \in heartbeats, RejectHeartbeat(h) \/ AcceptHeartbeat(h) PROVE CountInv'
  BY <1>1, <1>11 DEF RejectHeartbeat, AcceptHeartbeat, voteNet, history
<1>12. ASSUME NEW r \in rejects, RejectReturns(r) PROVE CountInv'
  BY <1>1, <1>12 DEF RejectReturns, voteNet, history
<1>13. CASE LoseBeat
  BY <1>1, <1>13 DEF LoseBeat, voteNet, history
<1>14. ASSUME NEW n \in Node, NEW x \in Node,
              handleMembershipJoin(n, x) \/ handleMembershipLeave(n, x) PROVE CountInv'
  BY <1>1, <1>14
     DEF handleMembershipJoin, handleMembershipLeave, ChangePeers, voteNet, history
<1>15. ASSUME NEW n \in Node, BeginCatchUp(n) \/ EndCatchUp(n) PROVE CountInv'
  BY <1>1, <1>15 DEF BeginCatchUp, EndCatchUp, voteNet, history
<1> QED
  BY <1>2, <1>3, <1>5, <1>6, <1>7, <1>8, <1>9, <1>10, <1>11, <1>12, <1>13, <1>14, <1>15 DEF Next

LEMMA VotesAreKept == Spec => [](TypeOK /\ VoteInv)
<1>1. Init => TypeOK /\ VoteInv
  BY InitType, InitVotes
<1>2. TypeOK /\ VoteInv /\ [Next]_vars => TypeOK' /\ VoteInv'
  BY StepType, TermStep, CountStep DEF VoteInv
<1> QED
  BY <1>1, <1>2, PTL DEF Spec

\* Only votes that were cast for the candidate in the term of its election are counted,
\* whatever answers arrive late, twice or from a deposed voter (startElection).
THEOREM CountedVotes == Spec => []CountedVotesWereCast
<1>1. VoteInv => CountedVotesWereCast
  BY DEF VoteInv, CountInv
<1> QED
  BY <1>1, VotesAreKept, PTL

\* A leader has won the very term it leads, across restarts and membership changes.
THEOREM LeadersHaveWon == Spec => []LeaderWonItsTerm
<1>1. VoteInv => LeaderWonItsTerm
  BY DEF VoteInv, TermInv
<1> QED
  BY <1>1, VotesAreKept, PTL

\* Only a node that has won a term casts two votes in it (handleVoteRequest).
THEOREM SecondVotes == Spec => []SecondVoteOnlyAfterWinning
<1>1. VoteInv => SecondVoteOnlyAfterWinning
  BY DEF VoteInv, TermInv
<1> QED
  BY <1>1, VotesAreKept, PTL

(***************************************************************************)
(* Steps.                                                                  *)
(***************************************************************************)

\* No handler, answer or restart lowers a term (stepDown is only ever called with a
\* higher one).
THEOREM TermsOnlyGrow == Spec => TermNeverRegresses
<1> DEFINE Grow == \A n \in Node : currentTerm'[n] >= currentTerm[n]
<1>1. TypeOK /\ [Next]_vars => [Grow]_vars
  <2> SUFFICES ASSUME TypeOK, Next PROVE Grow
    BY DEF Grow
  <2>1. \A n \in Node : currentTerm[n] \in Nat
    BY TermIsNat
  <2>2. CASE UNCHANGED currentTerm
    BY <2>1, <2>2
  <2>3. ASSUME NEW n \in Node, NEW t \in Term, t > currentTerm[n],
               currentTerm' = [currentTerm EXCEPT ![n] = t]
        PROVE  Grow
    BY <2>1, <2>3, BoundsAssumption DEF TypeOK, Term
  <2>4. ASSUME NEW n \in Node, startElection(n) PROVE Grow
    <3>1. currentTerm[n] + 1 \in Term /\ currentTerm[n] + 1 > currentTerm[n]
      BY <2>1, <2>4, BoundsAssumption DEF startElection, Term
    <3>2. currentTerm' = [currentTerm EXCEPT ![n] = currentTerm[n] + 1]
      BY <2>4 DEF startElection
    <3> QED
      BY <2>3, <3>1, <3>2
  <2>5. ASSUME NEW r \in voteResps, VoteCallReturns(r) PROVE Grow
    <3>1. r.to \in Node /\ r.term \in Term
      BY DEF TypeOK, VoteResp
    <3> QED
      BY <2>2, <2>3, <2>5, <3>1 DEF VoteCallReturns, Outgrown, stepDown, raftVars
  <2>6. ASSUME NEW n \in Node, FinishElection(n) PROVE Grow
    BY <2>2, <2>6 DEF FinishElection, raftVars
  <2>7. ASSUME NEW m \in voteReqs, handleVoteRequest(m) PROVE Grow
    <3>1. m.to \in Node /\ m.term \in Term
      BY DEF TypeOK, VoteReq
    <3>2. CASE m.term > currentTerm[m.to]
      BY <2>3, <2>7, <3>1, <3>2 DEF handleVoteRequest
    <3>3. CASE ~(m.term > currentTerm[m.to])
      <4>1. UNCHANGED currentTerm
        BY <2>7, <3>3 DEF handleVoteRequest, TypeOK
      <4> QED
        BY <2>2, <4>1
    <3> QED
      BY <3>2, <3>3
  <2>8. ASSUME NEW h \in heartbeats, AcceptHeartbeat(h) PROVE Grow
    <3>1. h.to \in Node /\ h.term \in Term
      BY DEF TypeOK, Heartbeat
    <3> QED
      BY <2>2, <2>3, <2>8, <3>1 DEF AcceptHeartbeat, stepDown
  <2>9. ASSUME NEW r \in rejects, RejectReturns(r) PROVE Grow
    <3>1. r.to \in Node /\ r.term \in Term
      BY DEF TypeOK, Reject
    <3> QED
      BY <2>2, <2>3, <2>9, <3>1 DEF RejectReturns, Outgrown, stepDown, raftVars
  <2>10. ASSUME NEW n \in Node, Restart(n) PROVE Grow
    BY <2>2, <2>10 DEF Restart, initializeRaftStore
  <2> HIDE DEF Grow
  <2> QED
    BY <2>2, <2>4, <2>5, <2>6, <2>7, <2>8, <2>9, <2>10
       DEF Next, VoteCallFails, sendHeartbeats, RejectHeartbeat, LoseBeat, handleMembershipJoin,
           handleMembershipLeave, ChangePeers, BeginCatchUp, EndCatchUp, raftVars
<1> QED
  BY <1>1, TypeCorrect, PTL DEF Spec, TermNeverRegresses

\* Within a term a vote stays where it is, restarts included; only the candidate that
\* wins releases its own.
THEOREM VotesStay == Spec => VoteIsKept
<1> DEFINE Keep(n) ==
      votedFor[n] # Nil /\ currentTerm'[n] = currentTerm[n]
         => \/ votedFor'[n] = votedFor[n]
            \/ votedFor[n] = n /\ votedFor'[n] = Nil /\ role'[n] = "leader"
<1>1. TypeOK /\ VoteInv /\ [Next]_vars => [\A n \in Node : Keep(n)]_vars
  <2> SUFFICES ASSUME TypeOK, VoteInv, Next, NEW n \in Node PROVE Keep(n)
    BY DEF Keep
  <2>1. currentTerm[n] \in Nat
    BY TermIsNat
  <2>2. CASE UNCHANGED votedFor
    BY <2>2
  <2>3. ASSUME NEW k \in Node, NEW t \in Term, NEW l, t > currentTerm[k], stepDown(k, t, l)
        PROVE  Keep(n)
    <3>1. CASE k = n
      BY <2>1, <2>3, <3>1, BoundsAssumption DEF TypeOK, stepDown, Term
    <3>2. CASE k # n
      BY <2>3, <3>2 DEF TypeOK, stepDown
    <3> QED
      BY <3>1, <3>2
  <2>4. ASSUME NEW k \in Node, startElection(k) PROVE Keep(n)
    BY <2>1, <2>4 DEF TypeOK, startElection
  <2>5. ASSUME NEW r \in voteResps, VoteCallReturns(r) PROVE Keep(n)
    <3>1. r.to \in Node /\ r.term \in Term
      BY DEF TypeOK, VoteResp
    <3> QED
      BY <2>2, <2>3, <2>5, <3>1 DEF VoteCallReturns, Outgrown, raftVars
  <2>6. ASSUME NEW k \in Node, FinishElection(k) PROVE Keep(n)
    <3>1. CASE ~(StillCandidate(k) /\ Cardinality(voters[k]) >= quorum(k))
      BY <2>2, <2>6, <3>1 DEF FinishElection, raftVars
    <3>2. CASE StillCandidate(k) /\ Cardinality(voters[k]) >= quorum(k)
      BY <2>6, <3>2
         DEF FinishElection, StillCandidate, TypeOK, VoteInv, TermInv, CandidateHoldsItsVote
    <3> QED
      BY <3>1, <3>2
  <2>7. ASSUME NEW m \in voteReqs, handleVoteRequest(m) PROVE Keep(n)
    <3>1. m.to \in Node /\ m.term \in Nat
      BY BoundsAssumption DEF TypeOK, VoteReq, Term
    <3>2. /\ votedFor' = [votedFor EXCEPT ![m.to] = IF canVote(m.to, m) THEN m.from ELSE @]
          /\ currentTerm' = [currentTerm EXCEPT
                               ![m.to] = IF m.term > currentTerm[m.to] THEN m.term ELSE @]
      BY <2>7 DEF handleVoteRequest
    <3>3. CASE m.to = n
      BY <2>1, <3>1, <3>2, <3>3 DEF TypeOK, canVote
    <3>4. CASE m.to # n
      BY <3>2, <3>4 DEF TypeOK
    <3> QED
      BY <3>3, <3>4
  <2>8. ASSUME NEW h \in heartbeats, AcceptHeartbeat(h) PROVE Keep(n)
    <3>1. h.to \in Node /\ h.term \in Term
      BY DEF TypeOK, Heartbeat
    <3> QED
      BY <2>2, <2>3, <2>8, <3>1 DEF AcceptHeartbeat
  <2>9. ASSUME NEW r \in rejects, RejectReturns(r) PROVE Keep(n)
    <3>1. r.to \in Node /\ r.term \in Term
      BY DEF TypeOK, Reject
    <3> QED
      BY <2>2, <2>3, <2>9, <3>1 DEF RejectReturns, Outgrown, raftVars
  <2>10. ASSUME NEW k \in Node, Restart(k) PROVE Keep(n)
    BY <2>2, <2>10 DEF Restart, initializeRaftStore
  <2> HIDE DEF Keep
  <2> QED
    BY <2>2, <2>4, <2>5, <2>6, <2>7, <2>8, <2>9, <2>10
       DEF Next, VoteCallFails, sendHeartbeats, RejectHeartbeat, LoseBeat, handleMembershipJoin,
           handleMembershipLeave, ChangePeers, BeginCatchUp, EndCatchUp, raftVars
<1> QED
  BY <1>1, VotesAreKept, PTL DEF Spec, VoteIsKept

(***************************************************************************)
(* A configured cluster whose membership is left alone.                    *)
(***************************************************************************)

\* Every node is configured with all the others and no join or leave is served.
ConfiguredMesh ==
    /\ \A n \in Node : Cardinality(StaticPeers[n]) + 1 >= Cardinality(Node)
    /\ MaxChanges = 0

\* No list, at a node or on the wire, is shorter than that of the configuration.
ListsAreComplete ==
    /\ \A n \in Node : Cardinality(peers[n]) + 1 >= Cardinality(Node)
    /\ \A h \in heartbeats : Cardinality(h.peers) + 1 >= Cardinality(Node)

\* Whoever has won a term has the votes of a majority of the cluster in it.
WonByMajority ==
    \A n \in Node, t \in Term :
        <<n, t>> \in won => 2 * Cardinality(Granted(t, n)) > Cardinality(Node)

LEMMA ListsStayComplete ==
    ASSUME ConfiguredMesh PROVE TypeOK /\ ListsAreComplete /\ [Next]_vars => ListsAreComplete'
<1> SUFFICES ASSUME TypeOK, ListsAreComplete, [Next]_vars PROVE ListsAreComplete'
    OBVIOUS
<1> USE DEF ListsAreComplete
<1>1. CASE UNCHANGED peers /\ heartbeats' \subseteq heartbeats
  BY <1>1
<1>2. ASSUME NEW n \in Node, sendHeartbeats(n) PROVE ListsAreComplete'
  BY <1>2 DEF sendHeartbeats, TypeOK
<1>3. ASSUME NEW h \in heartbeats, AcceptHeartbeat(h) PROVE ListsAreComplete'
  <2>1. h.to \in Node
    BY DEF TypeOK, Heartbeat
  <2> QED
    BY <1>3, <2>1 DEF AcceptHeartbeat, TypeOK
<1>4. ASSUME NEW n \in Node, NEW new, ChangePeers(n, new) PROVE FALSE
  BY <1>4, BoundsAssumption DEF ChangePeers, ConfiguredMesh, TypeOK
<1>5. ASSUME NEW n \in Node, Restart(n) PROVE ListsAreComplete'
  BY <1>5 DEF Restart, TypeOK, ConfiguredMesh
<1> QED
  BY <1>1, <1>2, <1>3, <1>4, <1>5
     DEF Next, vars, startElection, VoteCallReturns, VoteCallFails, FinishElection,
         handleVoteRequest, RejectHeartbeat, RejectReturns, LoseBeat, handleMembershipJoin,
         handleMembershipLeave, BeginCatchUp, EndCatchUp, voteNet, beatNet

LEMMA CompleteListsMakeMajorities ==
    TypeOK /\ ListsAreComplete => QuorumIsMajority
<1> SUFFICES ASSUME TypeOK, ListsAreComplete, NEW n \in Node
             PROVE  2 * quorum(n) > Cardinality(Node)
    BY DEF QuorumIsMajority
<1>1. Cardinality(Node) \in Nat
  BY NodesAssumption, FS_CardinalityType
<1>2. IsFiniteSet(peers[n])
  BY NodesAssumption, FS_Subset DEF TypeOK
<1>3. Cardinality(peers[n]) \in Nat
  BY <1>2, FS_CardinalityType
<1> QED
  BY <1>1, <1>3 DEF ListsAreComplete, quorum

\* While no join or leave is served, a quorum is a majority of the cluster at every node,
\* though heartbeats replace its peer list (quorum, handleHeartbeat).
THEOREM QuorumsAreMajorities ==
    ASSUME ConfiguredMesh PROVE Spec => []QuorumIsMajority
<1>1. Init => ListsAreComplete
  BY DEF Init, ListsAreComplete, ConfiguredMesh
<1>2. TypeOK /\ ListsAreComplete /\ [Next]_vars => ListsAreComplete'
  BY ListsStayComplete
<1>3. TypeOK /\ ListsAreComplete => QuorumIsMajority
  BY CompleteListsMakeMajorities
<1> QED
  BY <1>1, <1>2, <1>3, TypeCorrect, PTL DEF Spec

\* Two majorities of the cluster have a member in common.
LEMMA MajoritiesMeet ==
    ASSUME NEW A \in SUBSET Node, NEW B \in SUBSET Node,
           2 * Cardinality(A) > Cardinality(Node), 2 * Cardinality(B) > Cardinality(Node)
    PROVE  A \cap B # {}
<1>1. IsFiniteSet(A) /\ IsFiniteSet(B) /\ IsFiniteSet(A \cup B)
  BY NodesAssumption, FS_Subset, FS_Union
<1>2. /\ Cardinality(A) \in Nat /\ Cardinality(B) \in Nat
      /\ Cardinality(A \cup B) \in Nat /\ Cardinality(Node) \in Nat
  BY <1>1, NodesAssumption, FS_CardinalityType
<1>3. Cardinality(A \cup B) <= Cardinality(Node)
  BY NodesAssumption, FS_Subset
<1>4. Cardinality(A \cup B) = Cardinality(A) + Cardinality(B) - Cardinality(A \cap B)
  BY <1>1, FS_Union
<1>5. SUFFICES ASSUME A \cap B = {} PROVE FALSE
  OBVIOUS
<1>6. Cardinality(A \cap B) = 0
  BY <1>5, FS_EmptySet
<1> QED
  BY <1>2, <1>3, <1>4, <1>6

LEMMA GrantedGrows ==
    ASSUME granted \subseteq granted', NEW t, NEW c
    PROVE  Cardinality(Granted(t, c)) <= Cardinality(Granted(t, c)')
<1>1. Granted(t, c) \subseteq Granted(t, c)' /\ Granted(t, c)' \subseteq Node
  BY DEF Granted
<1>2. IsFiniteSet(Granted(t, c)')
  BY <1>1, NodesAssumption, FS_Subset
<1> QED
  BY <1>1, <1>2, FS_Subset

LEMMA WinsNeedMajorities ==
    TypeOK /\ CountedVotesWereCast /\ QuorumIsMajority /\ WonByMajority /\ [Next]_vars
        => WonByMajority'
<1> SUFFICES ASSUME TypeOK, CountedVotesWereCast, QuorumIsMajority, WonByMajority, [Next]_vars
             PROVE  WonByMajority'
    OBVIOUS
<1>1. Cardinality(Node) \in Nat
  BY NodesAssumption, FS_CardinalityType
<1>2. \A t \in Term, c \in Node : /\ IsFiniteSet(Granted(t, c))
                                /\ Cardinality(Granted(t, c)) \in Nat
                                /\ Cardinality(Granted(t, c)') \in Nat
  <2> SUFFICES ASSUME NEW t \in Term, NEW c \in Node
               PROVE  /\ IsFiniteSet(Granted(t, c)) /\ Cardinality(Granted(t, c)) \in Nat
                      /\ Cardinality(Granted(t, c)') \in Nat
      OBVIOUS
  <2>1. Granted(t, c) \subseteq Node /\ Granted(t, c)' \subseteq Node
    BY DEF Granted
  <2> QED
    BY <2>1, NodesAssumption, FS_Subset, FS_CardinalityType
<1>3. granted \subseteq granted'
  BY DEF Next, vars, startElection, VoteCallReturns, VoteCallFails, FinishElection,
         handleVoteRequest, sendHeartbeats, RejectHeartbeat, AcceptHeartbeat, RejectReturns,
         LoseBeat, handleMembershipJoin, handleMembershipLeave, ChangePeers, BeginCatchUp,
         EndCatchUp, Restart, history
<1>4. ASSUME UNCHANGED won PROVE WonByMajority'
  <2> SUFFICES ASSUME NEW n \in Node, NEW t \in Term, <<n, t>> \in won
               PROVE  2 * Cardinality(Granted(t, n)') > Cardinality(Node)
      BY <1>4 DEF WonByMajority
  <2>1. 2 * Cardinality(Granted(t, n)) > Cardinality(Node)
    BY DEF WonByMajority
  <2>2. Cardinality(Granted(t, n)) <= Cardinality(Granted(t, n)')
    BY <1>3, GrantedGrows
  <2> QED
    BY <1>1, <1>2, <2>1, <2>2
<1>5. ASSUME NEW k \in Node, FinishElection(k), ~UNCHANGED won PROVE WonByMajority'
  <2>1. /\ inFlight[k] /\ Cardinality(voters[k]) >= quorum(k)
        /\ won' = won \cup {<<k, eTerm[k]>>} /\ granted' = granted
    BY <1>5 DEF FinishElection
  <2>2. voters[k] \subseteq Granted(eTerm[k], k) /\ eTerm[k] \in Term /\ voters[k] \subseteq Node
    BY <2>1 DEF CountedVotesWereCast, TypeOK
  <2>3. Cardinality(voters[k]) <= Cardinality(Granted(eTerm[k], k))
    BY <1>2, <2>2, FS_Subset
  <2>4. Cardinality(voters[k]) \in Nat
    BY <2>2, NodesAssumption, FS_Subset, FS_CardinalityType
  <2>5. IsFiniteSet(peers[k]) /\ Cardinality(peers[k]) \in Nat
    BY NodesAssumption, FS_Subset, FS_CardinalityType DEF TypeOK
  <2>6. quorum(k) \in Nat /\ 2 * quorum(k) > Cardinality(Node)
    BY <2>5 DEF QuorumIsMajority, quorum
  <2>7. 2 * Cardinality(Granted(eTerm[k], k)) > Cardinality(Node)
    BY <1>1, <1>2, <2>1, <2>2, <2>3, <2>4, <2>6
  <2>8. \A t \in Term, c \in Node : Granted(t, c)' = Granted(t, c)
    BY <2>1 DEF Granted
  <2> QED
    BY <2>1, <2>2, <2>7, <2>8 DEF WonByMajority
<1> QED
  BY <1>4, <1>5
     DEF Next, vars, startElection, VoteCallReturns, VoteCallFails, handleVoteRequest,
         sendHeartbeats, RejectHeartbeat, AcceptHeartbeat, RejectReturns, LoseBeat,
         handleMembershipJoin, handleMembershipLeave, ChangePeers, BeginCatchUp, EndCatchUp,
         Restart, history

\* With the membership of the configuration there is one way only to two leaders in one
\* term: a voter they share had won that term and released its vote.
THEOREM TwinLeaders ==
    ASSUME ConfiguredMesh PROVE Spec => []TwinLeadersShareAWinner
<1>1. Init => WonByMajority
  BY DEF Init, WonByMajority
<1>2. TypeOK /\ CountedVotesWereCast /\ QuorumIsMajority /\ WonByMajority /\ [Next]_vars
        => WonByMajority'
  BY WinsNeedMajorities
<1>3. WonByMajority /\ SecondVoteOnlyAfterWinning => TwinLeadersShareAWinner
  <2> SUFFICES ASSUME WonByMajority, SecondVoteOnlyAfterWinning, NEW t \in Term,
                      NEW a \in Node, NEW b \in Node, <<a, t>> \in won, <<b, t>> \in won, a # b
               PROVE  \E v \in Granted(t, a) \cap Granted(t, b) : <<v, t>> \in won
      BY DEF TwinLeadersShareAWinner
  <2>1. Granted(t, a) \subseteq Node /\ Granted(t, b) \subseteq Node
    BY DEF Granted
  <2>2. PICK v \in Granted(t, a) \cap Granted(t, b) : TRUE
    BY <2>1, MajoritiesMeet DEF WonByMajority
  <2>3. <<v, t>> \in won
    BY <2>2 DEF SecondVoteOnlyAfterWinning, Granted
  <2> QED
    BY <2>2, <2>3
<1>4. Spec => []QuorumIsMajority
  BY QuorumsAreMajorities
<1> QED
  BY <1>1, <1>2, <1>3, <1>4, TypeCorrect, CountedVotes, SecondVotes, PTL DEF Spec

=============================================================================
