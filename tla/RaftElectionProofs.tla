------------------------- MODULE RaftElectionProofs -------------------------
(***************************************************************************)
(* At most one leader is elected in a term.  The votes are not unique: a   *)
(* candidate that a leader of its own term turns into a follower forgets   *)
(* its vote for itself and may vote again.  What is kept is a vote for     *)
(* another replica (PeerVoteKept), a candidate's vote for itself while it  *)
(* stands (SelfVotes), and an elected leader's vote for itself for the     *)
(* whole term (Mandate), because only another leader of that term could    *)
(* take it back.  Two majorities meet in a replica that falls under one of *)
(* these.                                                                  *)
(***************************************************************************)
EXTENDS RaftTypeProofs

\* Two sets of replicas that are each a majority have a member in common.
LEMMA MajoritiesMeet ==
  ASSUME NEW P \in SUBSET Node, NEW Q \in SUBSET Node,
         Cardinality(P) >= majority, Cardinality(Q) >= majority
  PROVE  P \cap Q /= {}
<1>1. IsFiniteSet(Node) /\ Cardinality(Node) \in Nat
  BY NodeAssumption, FS_CardinalityType
<1>2. IsFiniteSet(P) /\ IsFiniteSet(Q) /\ Cardinality(P) \in Nat /\ Cardinality(Q) \in Nat
  BY <1>1, FS_Subset, FS_CardinalityType
<1>3. Cardinality(P) + Cardinality(Q) > Cardinality(Node)
  BY <1>1, <1>2 DEF majority
<1> QED
  BY <1>1, <1>3, FS_MajoritiesIntersect

-----------------------------------------------------------------------------
(* The ways a step can touch an election.                                  *)

LeaderTypes == Replication \cup {"Heartbeat"}

\* What the network carries after the step is backed by what has happened.
NetBacked ==
  /\ \A q \in requests' : q.type \in LeaderTypes
                          => <<q.term, q.src>> \in elected' /\ q.src /= q.dst
  /\ \A r \in replies' : r.type = "RequestVote" /\ r.result.voteGranted
                         => <<r.src, r.askedIn, r.dst>> \in grants'

Quiet == UNCHANGED <<currentTerm, votedFor, state, votesGranted, grants, elected>>

ToFollower(i, t) ==
  /\ currentTerm' = [currentTerm EXCEPT ![i] = t]
  /\ votedFor' = [votedFor EXCEPT ![i] = Nil]
  /\ state' = [state EXCEPT ![i] = "Follower"]
  /\ votesGranted' = [votesGranted EXCEPT ![i] = {}]
  /\ UNCHANGED <<grants, elected>>

\* A newer term is adopted; or a leader of the same term is recognised.
Adopts(i, t) == t > currentTerm[i] /\ ToFollower(i, t)

StepsDown(i, l) ==
  /\ l \in Node /\ l /= i /\ <<currentTerm[i], l>> \in elected
  /\ state[i] /= "Follower"
  /\ ToFollower(i, currentTerm[i])

\* The facts about grants and elected that do not mention the network.
LEMMA ElectionFacts ==
  ASSUME TypeInv
  PROVE  /\ currentTerm \in [Node -> Nat] /\ votedFor \in [Node -> Node \cup {Nil}]
         /\ state \in [Node -> {"Follower", "Candidate", "Leader"}]
         /\ votesGranted \in [Node -> SUBSET Node]
         /\ grants \subseteq Node \X Nat \X Node /\ elected \subseteq Nat \X Node
         /\ requests \subseteq RequestSet /\ replies \subseteq ReplySet
         /\ \A g \in grants : /\ g[1] \in Node /\ g[2] \in Nat /\ g[3] \in Node
                              /\ g = <<g[1], g[2], g[3]>>
         /\ \A e \in elected : e[1] \in Nat /\ e[2] \in Node /\ e = <<e[1], e[2]>>
         /\ Nil \notin Node
<1>1. /\ currentTerm \in [Node -> Nat] /\ votedFor \in [Node -> Node \cup {Nil}]
      /\ state \in [Node -> {"Follower", "Candidate", "Leader"}]
      /\ votesGranted \in [Node -> SUBSET Node]
      /\ grants \subseteq Node \X Nat \X Node /\ elected \subseteq Nat \X Node
      /\ requests \subseteq RequestSet /\ replies \subseteq ReplySet
  BY TypeFacts DEF ElecTypeOK, HistoryTypeOK
<1>2. \A g \in grants : /\ g[1] \in Node /\ g[2] \in Nat /\ g[3] \in Node
                        /\ g = <<g[1], g[2], g[3]>>
  BY <1>1
<1>3. \A e \in elected : e[1] \in Nat /\ e[2] \in Node /\ e = <<e[1], e[2]>>
  BY <1>1
<1> QED
  BY <1>1, <1>2, <1>3, NilAssumption

LEMMA QuietKeeps ==
  ASSUME TypeInv, ElectionInv, Quiet, NetBacked
  PROVE  ElectionInv'
<1>1. CountedVotes' /\ SelfVotes' /\ PeerVotes'
  BY DEF ElectionInv, Quiet, NetBacked, CountedVotes, SelfVotes, PeerVotes
<1>2. PeerVoteKept' /\ ElectionSafety'
  BY DEF ElectionInv, Quiet, PeerVoteKept, ElectionSafety
<1>3. Mandates'
  BY DEF ElectionInv, Quiet, NetBacked, Mandates, Mandate, LeaderTypes
<1> QED
  BY <1>1, <1>2, <1>3 DEF ElectionInv

\* i becomes a follower that has forgotten its vote.  That is safe when the term
\* is new, and when i stood in a term that another replica leads.
LEMMA ToFollowerKeeps ==
  ASSUME TypeInv, ElectionInv, NetBacked, NEW i \in Node, NEW t \in Nat, ToFollower(i, t),
         t > currentTerm[i] \/ \E l \in Node : t = currentTerm[i] /\ StepsDown(i, l)
  PROVE  ElectionInv'
<1> USE ElectionFacts
<1>1. /\ currentTerm'[i] = t /\ votedFor'[i] = Nil /\ state'[i] = "Follower"
      /\ votesGranted'[i] = {}
      /\ \A j \in Node : j /= i => /\ currentTerm'[j] = currentTerm[j]
                                   /\ votedFor'[j] = votedFor[j]
                                   /\ state'[j] = state[j]
                                   /\ votesGranted'[j] = votesGranted[j]
      /\ grants' = grants /\ elected' = elected /\ t >= currentTerm[i]
  BY DEF ToFollower
<1>2. \A g \in grants : g[2] <= currentTerm[g[1]]
  BY DEF ElectionInv, PeerVotes
<1>3. \A g \in grants : g[1] = i /\ g[2] = t => g[3] = i
  <2>1. CASE t > currentTerm[i]
    BY <1>2, <2>1
  <2>2. CASE t = currentTerm[i] /\ state[i] /= "Follower"
    <3>1. \A d \in Node : <<i, t, d>> \in grants => d = i
      BY <2>2 DEF ElectionInv, SelfVotes
    <3>2. \A g \in grants : g[1] = i /\ g[2] = t => <<i, t, g[3]>> \in grants /\ g[3] \in Node
      OBVIOUS
    <3> QED
      BY <3>1, <3>2
  <2> QED
    BY <2>1, <2>2 DEF StepsDown
<1>4. CountedVotes'
  BY <1>1 DEF ElectionInv, CountedVotes, NetBacked
<1>5. SelfVotes'
  BY <1>1 DEF ElectionInv, SelfVotes
<1>6. PeerVotes'
  <2>1. ASSUME NEW g \in grants
        PROVE  /\ g[2] <= currentTerm'[g[1]]
               /\ g[2] = currentTerm'[g[1]] /\ g[3] /= g[1]
                    => votedFor'[g[1]] = g[3] /\ state'[g[1]] = "Follower"
    <3>1. CASE g[1] = i
      BY <1>1, <1>2, <1>3, <3>1
    <3>2. CASE g[1] /= i
      BY <1>1, <3>2 DEF ElectionInv, PeerVotes
    <3> QED
      BY <3>1, <3>2
  <2> QED
    BY <1>1, <2>1 DEF PeerVotes
<1>7. PeerVoteKept' /\ ElectionSafety'
  BY <1>1 DEF ElectionInv, PeerVoteKept, ElectionSafety
<1>8. \A e \in elected : ~(e[1] = t /\ e[2] = i)
  <2>1. SUFFICES ASSUME <<t, i>> \in elected PROVE FALSE
    OBVIOUS
  <2>2. CASE t > currentTerm[i]
    <3>1. Mandate(t, i)
      BY <2>1 DEF ElectionInv, Mandates
    <3>2. <<i, t, i>> \in grants
      BY <3>1 DEF Mandate
    <3> QED
      BY <1>2, <2>2, <3>2
  <2>3. ASSUME NEW l \in Node, t = currentTerm[i], StepsDown(i, l)
        PROVE  FALSE
    BY <2>1, <2>3 DEF ElectionInv, ElectionSafety, StepsDown
  <2> QED
    BY <2>2, <2>3
<1>9. Mandates'
  <2>1. ASSUME NEW e \in elected PROVE Mandate(e[1], e[2])'
    <3>1. Mandate(e[1], e[2])
      BY DEF ElectionInv, Mandates
    <3>2. currentTerm'[e[2]] = e[1] => votedFor'[e[2]] = e[2]
      BY <1>1, <1>8, <3>1 DEF Mandate
    <3> QED
      BY <1>1, <3>1, <3>2 DEF Mandate
  <2>2. \A j \in Node : state'[j] = "Leader" => <<currentTerm'[j], j>> \in elected'
    BY <1>1 DEF ElectionInv, Mandates
  <2> QED
    BY <1>1, <2>1, <2>2 DEF Mandates, NetBacked, LeaderTypes
<1> QED
  BY <1>4, <1>5, <1>6, <1>7, <1>9 DEF ElectionInv

-----------------------------------------------------------------------------
(* Standing, voting, winning, restarting.                                  *)

LEMMA StandKeeps ==
  ASSUME TypeInv, ElectionInv, NEW i \in Node, runElection(i)
  PROVE  ElectionInv'
<1> USE ElectionFacts
<1> DEFINE t == currentTerm[i] + 1
<1>1. /\ currentTerm'[i] = t /\ votedFor'[i] = i /\ state'[i] = "Candidate"
      /\ votesGranted'[i] = {i}
      /\ \A j \in Node : j /= i => /\ currentTerm'[j] = currentTerm[j]
                                   /\ votedFor'[j] = votedFor[j]
                                   /\ state'[j] = state[j]
                                   /\ votesGranted'[j] = votesGranted[j]
      /\ grants' = grants \cup {<<i, t, i>>} /\ elected' = elected /\ replies' = replies
  BY DEF runElection
<1>2. t \in Nat /\ t > currentTerm[i]
  OBVIOUS
<1> HIDE DEF t
<1>3. \A g \in grants : g[2] <= currentTerm[g[1]]
  BY DEF ElectionInv, PeerVotes
<1>4. \A d \in Node : <<i, t, d>> \notin grants
  BY <1>2, <1>3
<1>5. CountedVotes'
  BY <1>1 DEF ElectionInv, CountedVotes
<1>6. SelfVotes'
  <2>1. ASSUME NEW j \in Node, state'[j] /= "Follower"
        PROVE  /\ votedFor'[j] = j
               /\ <<j, currentTerm'[j], j>> \in grants'
               /\ \A d \in Node : <<j, currentTerm'[j], d>> \in grants' => d = j
    <3>1. CASE j = i
      BY <1>1, <1>4, <3>1
    <3>2. CASE j /= i
      BY <1>1, <2>1, <3>2 DEF ElectionInv, SelfVotes
    <3> QED
      BY <3>1, <3>2
  <2> QED
    BY <2>1 DEF SelfVotes
<1>7. PeerVotes'
  <2>1. ASSUME NEW g \in grants'
        PROVE  /\ g[2] <= currentTerm'[g[1]]
               /\ g[2] = currentTerm'[g[1]] /\ g[3] /= g[1]
                    => votedFor'[g[1]] = g[3] /\ state'[g[1]] = "Follower"
    <3>1. CASE g = <<i, t, i>>
      BY <1>1, <1>2, <3>1
    <3>2. CASE g \in grants /\ g[1] = i
      BY <1>1, <1>2, <1>3, <3>2
    <3>3. CASE g \in grants /\ g[1] /= i
      BY <1>1, <3>3 DEF ElectionInv, PeerVotes
    <3> QED
      BY <1>1, <3>1, <3>2, <3>3
  <2> QED
    BY <2>1 DEF PeerVotes
<1>8. PeerVoteKept' /\ ElectionSafety'
  BY <1>1 DEF ElectionInv, PeerVoteKept, ElectionSafety
<1>9. Mandates'
  <2>1. ASSUME NEW e \in elected PROVE Mandate(e[1], e[2])'
    <3>1. Mandate(e[1], e[2]) /\ <<e[2], e[1], e[2]>> \in grants
      BY DEF ElectionInv, Mandates, Mandate
    <3>2. e[1] <= currentTerm[e[2]]
      BY <1>3, <3>1
    <3>3. currentTerm'[e[2]] = e[1] => votedFor'[e[2]] = e[2]
      BY <1>1, <3>1 DEF Mandate
    <3>4. \A d \in Node : <<e[2], e[1], d>> \in grants' => d = e[2]
      BY <1>1, <3>1 DEF Mandate
    <3> QED
      BY <1>1, <3>1, <3>3, <3>4 DEF Mandate
  <2>2. \A j \in Node : state'[j] = "Leader" => <<currentTerm'[j], j>> \in elected'
    BY <1>1 DEF ElectionInv, Mandates
  <2>3. \A m \in requests' : m \in requests \/ m.type = "RequestVote"
    BY DEF runElection
  <2>4. \A m \in requests' : m.type \in LeaderTypes
                             => <<m.term, m.src>> \in elected' /\ m.src /= m.dst
    BY <1>1, <2>3 DEF ElectionInv, Mandates, LeaderTypes, Replication
  <2> QED
    BY <1>1, <2>1, <2>2, <2>4 DEF Mandates, LeaderTypes
<1> QED
  BY <1>5, <1>6, <1>7, <1>8, <1>9 DEF ElectionInv

\* A voter answers a candidate: it first adopts a newer term, and then votes if
\* its vote in that term is still free or already the candidate's.
LEMMA VoteKeeps ==
  ASSUME TypeInv, ElectionInv, NEW m \in requests, handleRequestVote(m)
  PROVE  ElectionInv'
<1> USE ElectionFacts
<1> DEFINE i == m.dst
           newer == m.term > currentTerm[i]
           vote == IF newer THEN Nil ELSE votedFor[i]
           canVote == CastVote(m, vote)
           new == <<i, m.term, m.src>>
           t == IF newer THEN m.term ELSE currentTerm[i]
<1>1. i \in Node /\ m.src \in Node /\ m.term \in Nat /\ m.type = "RequestVote"
  BY RequestFields DEF handleRequestVote, Received
<1>2. /\ currentTerm'[i] = t
      /\ state'[i] = IF newer THEN "Follower" ELSE state[i]
      /\ votedFor'[i] = IF canVote THEN m.src ELSE vote
      /\ votesGranted'[i] = IF newer THEN {} ELSE votesGranted[i]
      /\ \A j \in Node : j /= i => /\ currentTerm'[j] = currentTerm[j]
                                   /\ votedFor'[j] = votedFor[j]
                                   /\ state'[j] = state[j]
                                   /\ votesGranted'[j] = votesGranted[j]
      /\ grants' = (IF canVote THEN grants \cup {new} ELSE grants)
      /\ elected' = elected
  BY <1>1 DEF handleRequestVote, EndElection
<1>3. canVote => m.term = t /\ vote \in {Nil, m.src}
  BY <1>1 DEF CastVote
<1>4. t \in Nat /\ t >= currentTerm[i] /\ (newer => t > currentTerm[i])
      /\ (~newer => t = currentTerm[i] /\ vote = votedFor[i])
  BY <1>1
<1>5. requests' \subseteq requests
      /\ \A r \in replies' : \/ r \in replies
                             \/ r.result.voteGranted = canVote /\ r.src = i
                                /\ r.askedIn = m.term /\ r.dst = m.src
  <2>1. Respond(m, [voteGranted |-> canVote])
    BY DEF handleRequestVote
  <2> HIDE DEF canVote
  <2> QED
    BY <2>1, RespondEffect
<1> HIDE DEF newer, vote, canVote, t, i
<1>6. \A g \in grants : g[2] <= currentTerm[g[1]]
  BY DEF ElectionInv, PeerVotes
<1>7. newer => \A d \in Node : <<i, t, d>> \notin grants
  BY <1>1, <1>4, <1>6
<1>8. canVote /\ m.src /= i => \A d \in Node : <<i, t, d>> \in grants /\ d /= i => d = m.src
  <2>1. SUFFICES ASSUME canVote, m.src /= i, ~newer, NEW d \in Node, <<i, t, d>> \in grants,
                        d /= i
                 PROVE  d = m.src
    BY <1>7
  <2>2. votedFor[i] = d
    BY <1>1, <1>4, <2>1 DEF ElectionInv, PeerVotes
  <2> QED
    BY <1>3, <1>4, <2>1, <2>2
<1>9. canVote /\ m.src /= i => state'[i] = "Follower"
  <2>1. SUFFICES ASSUME canVote, m.src /= i, ~newer, state[i] /= "Follower" PROVE FALSE
    BY <1>1, <1>2
  <2>2. votedFor[i] = i
    BY <1>1, <2>1 DEF ElectionInv, SelfVotes
  <2> QED
    BY <1>1, <1>3, <1>4, <2>1, <2>2
<1>10. CountedVotes'
  BY <1>1, <1>2, <1>4, <1>5 DEF ElectionInv, CountedVotes
<1>11. SelfVotes'
  <2>1. ASSUME NEW j \in Node, state'[j] /= "Follower"
        PROVE  /\ votedFor'[j] = j
               /\ <<j, currentTerm'[j], j>> \in grants'
               /\ \A d \in Node : <<j, currentTerm'[j], d>> \in grants' => d = j
    <3>1. CASE j = i
      <4>1. ~newer /\ state[i] /= "Follower" /\ currentTerm'[i] = currentTerm[i]
        BY <1>1, <1>2, <1>4, <2>1, <3>1
      <4>2. votedFor[i] = i /\ <<i, currentTerm[i], i>> \in grants
            /\ \A d \in Node : <<i, currentTerm[i], d>> \in grants => d = i
        BY <1>1, <4>1 DEF ElectionInv, SelfVotes
      <4>3. canVote => m.src = i
        BY <1>9, <2>1, <3>1
      <4> QED
        BY <1>1, <1>2, <1>4, <3>1, <4>1, <4>2, <4>3
    <3>2. CASE j /= i
      BY <1>1, <1>2, <2>1, <3>2 DEF ElectionInv, SelfVotes
    <3> QED
      BY <3>1, <3>2
  <2> QED
    BY <2>1 DEF SelfVotes
<1>12. PeerVotes'
  <2>1. ASSUME NEW g \in grants'
        PROVE  /\ g[2] <= currentTerm'[g[1]]
               /\ g[2] = currentTerm'[g[1]] /\ g[3] /= g[1]
                    => votedFor'[g[1]] = g[3] /\ state'[g[1]] = "Follower"
    <3>1. CASE canVote /\ g = new
      BY <1>1, <1>2, <1>3, <1>9, <3>1
    <3>2. CASE g \in grants /\ g[1] = i
      <4>1. g[2] <= currentTerm'[i]
        BY <1>1, <1>2, <1>4, <1>6, <3>2
      <4>2. ASSUME g[2] = currentTerm'[i], g[3] /= i
            PROVE  votedFor'[i] = g[3] /\ state'[i] = "Follower"
        <5>1. <<i, t, g[3]>> \in grants /\ g[3] \in Node
          BY <1>2, <3>2, <4>2
        <5>2. ~newer
          BY <1>7, <5>1
        <5>3. votedFor[i] = g[3] /\ state[i] = "Follower"
          BY <1>2, <1>4, <3>2, <4>2, <5>2 DEF ElectionInv, PeerVotes
        <5> QED
          BY <1>2, <1>3, <1>4, <5>1, <5>2, <5>3
      <4> QED
        BY <3>2, <4>1, <4>2
    <3>3. CASE g \in grants /\ g[1] /= i
      BY <1>2, <3>3 DEF ElectionInv, PeerVotes
    <3> QED
      BY <1>2, <3>1, <3>2, <3>3
  <2> QED
    BY <2>1 DEF PeerVotes
<1>13. PeerVoteKept'
  <2>1. ASSUME NEW g \in grants, canVote, g[1] = i, g[2] = m.term, g[3] /= i, m.src /= i
        PROVE  g = new
    <3>1. <<i, t, g[3]>> \in grants /\ g[3] \in Node
      BY <1>3, <2>1
    <3> QED
      BY <1>8, <2>1, <3>1
  <2> QED
    BY <1>2, <2>1 DEF ElectionInv, PeerVoteKept
<1>14. ElectionSafety'
  BY <1>2 DEF ElectionInv, ElectionSafety
<1>15. Mandates'
  <2>1. ASSUME NEW e \in elected PROVE Mandate(e[1], e[2])'
    <3>1. Mandate(e[1], e[2]) /\ <<e[2], e[1], e[2]>> \in grants
      BY DEF ElectionInv, Mandates, Mandate
    <3>2. e[1] <= currentTerm[e[2]]
      BY <1>6, <3>1
    <3>3. CASE e[2] = i /\ e[1] = t
      <4>1. ~newer /\ votedFor[i] = i
        BY <1>4, <3>1, <3>2, <3>3 DEF Mandate
      <4>2. canVote => m.src = i
        BY <1>1, <1>3, <1>4, <4>1
      <4> QED
        BY <1>1, <1>2, <1>4, <3>1, <3>3, <4>1, <4>2 DEF Mandate
    <3>4. CASE ~(e[2] = i /\ e[1] = t)
      <4>1. ~(canVote /\ new[1] = e[2] /\ new[2] = e[1])
        BY <1>3, <3>4
      <4>2. \A d \in Node : <<e[2], e[1], d>> \in grants' => d = e[2]
        BY <1>2, <3>1, <4>1 DEF Mandate
      <4>3. currentTerm'[e[2]] = e[1] => votedFor'[e[2]] = e[2]
        BY <1>2, <3>1, <3>4 DEF Mandate
      <4> QED
        BY <1>2, <3>1, <4>2, <4>3 DEF Mandate
    <3> QED
      BY <3>3, <3>4
  <2>2. \A j \in Node : state'[j] = "Leader" => <<currentTerm'[j], j>> \in elected'
    BY <1>2, <1>4 DEF ElectionInv, Mandates
  <2> QED
    BY <1>2, <1>5, <2>1, <2>2 DEF ElectionInv, Mandates
<1> QED
  BY <1>10, <1>11, <1>12, <1>13, <1>14, <1>15 DEF ElectionInv

\* The votes i counts once an answer of its own election is in.
LEMMA CountVotes ==
  ASSUME TypeInv, ElectionInv, NEW r \in replies, r.type = "RequestVote",
         r.askedIn = currentTerm[r.dst]
  PROVE  LET votes == IF r.result.voteGranted THEN votesGranted[r.dst] \cup {r.src}
                      ELSE votesGranted[r.dst]
         IN  /\ votes \subseteq Node
             /\ \A v \in votes : <<v, currentTerm[r.dst], r.dst>> \in grants
<1>1. r.dst \in Node /\ r.src \in Node
  BY ElectionFacts, ReplyFields
<1>2. votesGranted[r.dst] \subseteq Node
  BY <1>1, ElectionFacts
<1>3. \A v \in votesGranted[r.dst] : <<v, currentTerm[r.dst], r.dst>> \in grants
  BY <1>1 DEF ElectionInv, CountedVotes
<1>4. r.result.voteGranted => <<r.src, r.askedIn, r.dst>> \in grants
  BY DEF ElectionInv, CountedVotes
<1> QED
  BY <1>1, <1>2, <1>3, <1>4

LEMMA WinKeeps ==
  ASSUME TypeInv, ElectionInv, NEW i \in Node, state[i] = "Candidate", becomeLeader(i),
         NEW votes \in SUBSET Node, Cardinality(votes) >= majority,
         \A v \in votes : <<v, currentTerm[i], i>> \in grants,
         UNCHANGED <<currentTerm, votedFor, grants, requests>>, replies' \subseteq replies
  PROVE  ElectionInv'
<1> USE ElectionFacts
<1> DEFINE t == currentTerm[i]
<1>1. /\ state'[i] = "Leader" /\ votesGranted'[i] = {}
      /\ \A j \in Node : j /= i => state'[j] = state[j] /\ votesGranted'[j] = votesGranted[j]
      /\ elected' = elected \cup {<<t, i>>}
  BY DEF becomeLeader, EndElection
<1>2. /\ votedFor[i] = i /\ <<i, t, i>> \in grants
      /\ \A d \in Node : <<i, t, d>> \in grants => d = i
  BY DEF ElectionInv, SelfVotes
<1>3. t \in Nat
  OBVIOUS
<1> HIDE DEF t
<1>4. ASSUME NEW l \in Node, <<t, l>> \in elected
      PROVE  l = i
  <2>1. Mandate(t, l)
    BY <1>3, <1>4 DEF ElectionInv, Mandates
  <2>2. PICK Q \in SUBSET Node : Cardinality(Q) >= majority /\ \A v \in Q : <<v, t, l>> \in grants
    BY <2>1 DEF Mandate
  <2>3. PICK v \in Node : v \in votes /\ v \in Q
    BY <2>2, MajoritiesMeet
  <2>4. <<v, t, i>> \in grants /\ <<v, t, l>> \in grants
    BY <2>2, <2>3 DEF t
  <2>5. CASE v = i
    BY <1>2, <2>4, <2>5
  <2>6. CASE v = l
    BY <2>1, <2>4, <2>6 DEF Mandate
  <2>7. CASE v /= i /\ v /= l
    <3>1. <<v, t, i>> = <<v, t, l>>
      BY <2>4, <2>7 DEF ElectionInv, PeerVoteKept
    <3> QED
      BY <3>1
  <2> QED
    BY <2>5, <2>6, <2>7
<1>5. ElectionSafety'
  <2>1. ASSUME NEW e \in elected, e[1] = t PROVE e = <<t, i>>
    BY <1>4, <2>1
  <2> QED
    BY <1>1, <2>1 DEF ElectionInv, ElectionSafety
<1>6. Mandates'
  <2>1. Mandate(t, i)
    <3>1. \A v \in votes : <<v, t, i>> \in grants
      BY DEF t
    <3> QED
      BY <1>2, <3>1 DEF Mandate
  <2>2. \A e \in elected' : Mandate(e[1], e[2])
    BY <1>1, <2>1 DEF ElectionInv, Mandates
  <2>3. \A e \in elected' : Mandate(e[1], e[2])'
    BY <2>2 DEF Mandate
  <2>4. \A j \in Node : state'[j] = "Leader" => <<currentTerm'[j], j>> \in elected'
    BY <1>1 DEF ElectionInv, Mandates, t
  <2> QED
    BY <1>1, <2>3, <2>4 DEF ElectionInv, Mandates
<1>7. CountedVotes'
  BY <1>1 DEF ElectionInv, CountedVotes
<1>8. SelfVotes'
  BY <1>1, <1>2 DEF ElectionInv, SelfVotes, t
<1>9. PeerVotes' /\ PeerVoteKept'
  <2>1. \A g \in grants : g[1] = i /\ g[2] = t => g[3] = i
    BY <1>2
  <2>2. \A g \in grants : g[2] = currentTerm[g[1]] /\ g[3] /= g[1] => g[1] /= i
    BY <2>1 DEF t
  <2> QED
    BY <1>1, <2>2 DEF ElectionInv, PeerVotes, PeerVoteKept
<1> QED
  BY <1>5, <1>6, <1>7, <1>8, <1>9 DEF ElectionInv

LEMMA RequestVoteReplyKeeps ==
  ASSUME TypeInv, ElectionInv, NEW r \in replies, requestVoteReply(r)
  PROVE  ElectionInv'
<1> USE ElectionFacts
<1> DEFINE i == r.dst
           votes == IF r.result.voteGranted THEN votesGranted[i] \cup {r.src}
                    ELSE votesGranted[i]
<1>1. i \in Node /\ r.src \in Node /\ r.term \in Nat /\ r.type = "RequestVote"
      /\ r.askedIn = currentTerm[i] /\ state[i] = "Candidate"
  BY ReplyFields DEF requestVoteReply, Answer
<1>2. votes \in SUBSET Node /\ \A v \in votes : <<v, currentTerm[i], i>> \in grants
  BY <1>1, CountVotes
<1>3. /\ replies' \subseteq replies /\ requests' = requests /\ grants' = grants
  BY DEF requestVoteReply
<1>4. \/ /\ r.term > currentTerm[i] /\ becomeFollower(i, r.term) /\ elected' = elected
      \/ /\ Cardinality(votes) >= majority /\ becomeLeader(i)
         /\ UNCHANGED <<currentTerm, votedFor>>
      \/ /\ votesGranted' = [votesGranted EXCEPT ![i] = votes]
         /\ UNCHANGED <<currentTerm, votedFor, state, elected>>
  BY DEF requestVoteReply
<1> HIDE DEF votes
<1>5. CASE r.term > currentTerm[i] /\ becomeFollower(i, r.term) /\ elected' = elected
  <2>1. ToFollower(i, r.term)
    BY <1>3, <1>5 DEF becomeFollower, EndElection, ToFollower
  <2>2. NetBacked
    BY <1>3, <1>5 DEF NetBacked, ElectionInv, CountedVotes, Mandates, LeaderTypes
  <2> QED
    BY <1>1, <1>5, <2>1, <2>2, ToFollowerKeeps
<1>6. CASE /\ Cardinality(votes) >= majority /\ becomeLeader(i)
           /\ UNCHANGED <<currentTerm, votedFor>>
  BY <1>1, <1>2, <1>3, <1>6, WinKeeps
<1>7. CASE /\ votesGranted' = [votesGranted EXCEPT ![i] = votes]
           /\ UNCHANGED <<currentTerm, votedFor, state, elected>>
  <2>1. \A j \in Node : votesGranted'[j] = IF j = i THEN votes ELSE votesGranted[j]
    BY <1>1, <1>7
  <2>2. CountedVotes'
    BY <1>2, <1>3, <1>7, <2>1 DEF ElectionInv, CountedVotes
  <2>3. SelfVotes' /\ PeerVotes' /\ PeerVoteKept' /\ ElectionSafety'
    BY <1>3, <1>7 DEF ElectionInv, SelfVotes, PeerVotes, PeerVoteKept, ElectionSafety
  <2>4. Mandates'
    BY <1>3, <1>7 DEF ElectionInv, Mandates, Mandate
  <2> QED
    BY <2>2, <2>3, <2>4 DEF ElectionInv
<1> QED
  BY <1>4, <1>5, <1>6, <1>7

LEMMA RestartKeeps ==
  ASSUME TypeInv, ElectionInv, NEW i \in Node, Restart(i)
  PROVE  ElectionInv'
<1> USE ElectionFacts
<1>1. /\ state'[i] = "Follower" /\ votesGranted'[i] = {}
      /\ \A j \in Node : j /= i => state'[j] = state[j] /\ votesGranted'[j] = votesGranted[j]
      /\ UNCHANGED <<currentTerm, votedFor, grants, elected>> /\ replies' \subseteq replies
  BY DEF Restart, EndElection, history
<1>2. \A m \in requests' : \E q \in requests :
        m.type = q.type /\ m.term = q.term /\ m.src = q.src /\ m.dst = q.dst
  <2> DEFINE mine == {m \in requests : m.src = i}
  <2>1. mine \subseteq requests /\ mine \subseteq RequestSet
        /\ requests' = {m \in requests : m.src /= i} \cup Late(mine)
    BY DEF Restart
  <2> HIDE DEF mine
  <2>2. ASSUME NEW m \in Late(mine)
        PROVE  \E q \in requests :
                 m.type = q.type /\ m.term = q.term /\ m.src = q.src /\ m.dst = q.dst
    <3>1. PICK q \in mine : m = [q EXCEPT !.late = TRUE]
      BY <2>1, LateSet
    <3> QED
      BY <2>1, <3>1, LateFields
  <2> QED
    BY <2>1, <2>2
<1>3. CountedVotes' /\ SelfVotes' /\ PeerVotes'
  BY <1>1 DEF ElectionInv, CountedVotes, SelfVotes, PeerVotes
<1>4. PeerVoteKept' /\ ElectionSafety'
  BY <1>1 DEF ElectionInv, PeerVoteKept, ElectionSafety
<1>5. Mandates'
  <2>1. \A e \in elected' : Mandate(e[1], e[2])'
    BY <1>1 DEF ElectionInv, Mandates, Mandate
  <2>2. \A j \in Node : state'[j] = "Leader" => <<currentTerm'[j], j>> \in elected'
    BY <1>1 DEF ElectionInv, Mandates
  <2>3. \A m \in requests' : m.type \in Replication \cup {"Heartbeat"}
                             => <<m.term, m.src>> \in elected' /\ m.src /= m.dst
    BY <1>1, <1>2 DEF ElectionInv, Mandates
  <2> QED
    BY <2>1, <2>2, <2>3 DEF Mandates
<1> QED
  BY <1>3, <1>4, <1>5 DEF ElectionInv

-----------------------------------------------------------------------------
(* The other steps touch an election in one of the ways above.             *)

\* A step that sends nothing but what is backed, with no vote and no leader.
LEMMA NetStaysBacked ==
  ASSUME ElectionInv, UNCHANGED <<grants, elected>>,
         \A q \in requests' : \/ q.type \notin LeaderTypes
                              \/ <<q.term, q.src>> \in elected /\ q.src /= q.dst
                              \/ \E m \in requests : /\ q.type = m.type /\ q.term = m.term
                                                     /\ q.src = m.src /\ q.dst = m.dst,
         \A r \in replies' : r \in replies \/ r.type /= "RequestVote"
  PROVE  NetBacked
  BY DEF ElectionInv, NetBacked, Mandates, CountedVotes, LeaderTypes

LEMMA RespondBacked ==
  ASSUME TypeInv, ElectionInv, NEW m \in requests, NEW x, Respond(m, x),
         m.type /= "RequestVote", UNCHANGED <<grants, elected>>
  PROVE  NetBacked
<1>1. requests' \subseteq requests /\ \A r \in replies' : r \in replies \/ r.type = m.type
  BY RespondEffect
<1> QED
  BY <1>1, NetStaysBacked

LEMMA CallFailsBacked ==
  ASSUME TypeInv, ElectionInv, NEW asked, asked \subseteq requests, NEW i, NEW p, NEW types,
         NEW sent, CallFails(asked, i, p, types, sent), UNCHANGED <<grants, elected>>,
         \A m \in sent : m.type \in LeaderTypes
                         => <<m.term, m.src>> \in elected /\ m.src /= m.dst
  PROVE  NetBacked
<1>1. /\ replies' \subseteq replies
      /\ requests' \subseteq requests \cup Late(asked) \cup sent
      /\ asked \subseteq RequestSet
  BY CallFailsEffect
<1>2. ASSUME NEW q \in Late(asked)
      PROVE  \E m \in requests : q.type = m.type /\ q.term = m.term /\ q.src = m.src /\ q.dst = m.dst
  <2>1. PICK m \in asked : q = [m EXCEPT !.late = TRUE]
    BY <1>1, LateSet
  <2> QED
    BY <1>1, <2>1, LateFields
<1> QED
  BY <1>1, <1>2, NetStaysBacked

\* What a leader drives carries its term.
LEMMA SentBacked ==
  ASSUME TypeInv, ElectionInv, NEW i \in Node, state[i] = "Leader", NEW idle, NEW new,
         Driven(i, idle, new), replicating' = [replicating EXCEPT ![i] = new]
  PROVE  \A m \in Sent(i, idle) : <<m.term, m.src>> \in elected /\ m.src /= m.dst
<1>1. replicating'[i] = new
  BY TypeFacts DEF LeaderTypeOK
<1>2. <<currentTerm[i], i>> \in elected
  BY DEF ElectionInv, Mandates
<1> QED
  BY <1>1, <1>2, SentCalls DEF CallFrom, Peers

LEMMA SettleBacked ==
  ASSUME TypeInv, ElectionInv, NEW i \in Node, NEW p \in Node, Settle(i, p),
         state[i] = state'[i] \/ state'[i] = "Follower",
         nextIndex' \in [Node -> [Node -> Nat \ {0}]]
  PROVE  \A m \in Sent(i, [replicating[i] EXCEPT ![p] = Nil]) :
           <<m.term, m.src>> \in elected /\ m.src /= m.dst
<1> DEFINE idle == [replicating[i] EXCEPT ![p] = Nil]
<1>1. CASE state'[i] = "Leader"
  <2>1. PICK new : Driven(i, idle, new) /\ replicating' = [replicating EXCEPT ![i] = new]
    BY SettleType
  <2> HIDE DEF idle
  <2>2. \A m \in Sent(i, idle) : <<m.term, m.src>> \in elected /\ m.src /= m.dst
    BY <1>1, <2>1, SentBacked
  <2> QED
    BY <2>2 DEF idle
<1>2. CASE state'[i] /= "Leader"
  <2>1. replicating' = [replicating EXCEPT ![i] = idle]
    BY <1>2 DEF Settle
  <2>2. replicating'[i] = idle
    BY <2>1, TypeFacts DEF LeaderTypeOK
  <2> HIDE DEF idle
  <2>3. Sent(i, idle) = {}
    BY <2>2 DEF Sent
  <2> QED
    BY <2>3 DEF idle
<1> QED
  BY <1>1, <1>2

LEMMA BecomeFollowerKeeps ==
  ASSUME TypeInv, ElectionInv, NetBacked, NEW i \in Node, NEW t \in Nat,
         t > currentTerm[i], becomeFollower(i, t), UNCHANGED <<grants, elected>>
  PROVE  ElectionInv'
<1>1. ToFollower(i, t)
  BY DEF ToFollower, becomeFollower, EndElection
<1> QED
  BY <1>1, ToFollowerKeeps

LEMMA FollowLeaderKeeps ==
  ASSUME TypeInv, ElectionInv, NetBacked, NEW m \in requests, m.type \in LeaderTypes,
         m.term >= currentTerm[m.dst], FollowLeader(m), UNCHANGED <<grants, elected>>
  PROVE  ElectionInv'
<1> DEFINE i == m.dst
<1>1. i \in Node /\ m.src \in Node /\ m.term \in Nat
  BY ElectionFacts, RequestFields
<1>2. <<m.term, m.src>> \in elected /\ m.src /= i
  BY DEF ElectionInv, Mandates, LeaderTypes
<1>3. CASE UNCHANGED <<state, currentTerm, votedFor, votesGranted, votesPending>>
  BY <1>3, QuietKeeps DEF Quiet
<1>4. CASE becomeFollower(i, m.term) /\ m.term > currentTerm[i]
  BY <1>1, <1>4, BecomeFollowerKeeps
<1>5. CASE becomeFollower(i, m.term) /\ ~(m.term > currentTerm[i]) /\ state[i] /= "Follower"
  <2>1. m.term = currentTerm[i]
    BY <1>1, <1>5, ElectionFacts
  <2>2. ToFollower(i, m.term)
    BY <1>5 DEF ToFollower, becomeFollower, EndElection
  <2>3. StepsDown(i, m.src)
    BY <1>1, <1>2, <1>5, <2>1, <2>2 DEF StepsDown
  <2> QED
    BY <1>1, <2>1, <2>2, <2>3, ToFollowerKeeps
<1> QED
  BY <1>3, <1>4, <1>5 DEF FollowLeader

\* The handlers of a leader's messages: reject, or follow.
LEMMA LeaderMessageKeeps ==
  ASSUME TypeInv, ElectionInv, NEW m \in requests, m.type \in LeaderTypes,
         \/ UNCHANGED elecVars
         \/ m.term >= currentTerm[m.dst] /\ FollowLeader(m),
         NEW x, Respond(m, x), UNCHANGED history
  PROVE  ElectionInv'
<1>1. NetBacked
  BY RespondBacked DEF history, LeaderTypes, Replication
<1>2. CASE UNCHANGED elecVars
  BY <1>1, <1>2, QuietKeeps DEF Quiet, elecVars, history
<1>3. CASE m.term >= currentTerm[m.dst] /\ FollowLeader(m)
  BY <1>1, <1>3, FollowLeaderKeeps DEF history
<1> QED
  BY <1>2, <1>3

-----------------------------------------------------------------------------
LEMMA ElectionInvInit == Init => ElectionInv
<1> SUFFICES ASSUME Init PROVE ElectionInv
  OBVIOUS
<1>1. CountedVotes /\ SelfVotes /\ PeerVotes /\ PeerVoteKept /\ ElectionSafety
  BY DEF Init, CountedVotes, SelfVotes, PeerVotes, PeerVoteKept, ElectionSafety
<1>2. Mandates
  BY DEF Init, Mandates
<1> QED
  BY <1>1, <1>2 DEF ElectionInv

LEMMA ElectionInvNext == TypeInv /\ ElectionInv /\ [Next]_vars => ElectionInv'
<1> SUFFICES ASSUME TypeInv, ElectionInv, [Next]_vars PROVE ElectionInv'
  OBVIOUS
<1> USE ElectionFacts
<1>1. CASE UNCHANGED vars
  <2>1. UNCHANGED <<requests, replies, grants, elected>> /\ Quiet
    BY <1>1 DEF vars, history, elecVars, Quiet
  <2>2. NetBacked
    BY <2>1, NetStaysBacked
  <2> QED
    BY <2>1, <2>2, QuietKeeps
<1>2. ASSUME NEW i \in Node, runElection(i) PROVE ElectionInv'
  BY <1>2, StandKeeps
<1>3. ASSUME NEW i \in Node, Restart(i) PROVE ElectionInv'
  BY <1>3, RestartKeeps
<1>4. ASSUME NEW i \in Node, sendHeartbeats(i) \/ \E v \in Stroke : handleClientWrite(i, v)
      PROVE  ElectionInv'
  <2>1. /\ state[i] = "Leader" /\ replies' = replies /\ Quiet
        /\ requests' = requests \cup Sent(i, replicating[i])
    BY <1>4 DEF sendHeartbeats, handleClientWrite, Quiet, elecVars, history
  <2>2. \E s : StoreOK(s) /\ replicating' = [replicating EXCEPT
                                ![i] = DriveAll(i, replicating[i], s, nextIndex[i])]
    <3>1. CASE sendHeartbeats(i)
      BY <3>1, TypeFacts DEF sendHeartbeats
    <3>2. ASSUME NEW v \in Stroke, handleClientWrite(i, v)
          PROVE  StoreOK(store'[i]) /\ replicating' = [replicating EXCEPT
                                ![i] = DriveAll(i, replicating[i], store'[i], nextIndex[i])]
      <4>1. TypeInv'
        BY <3>2, ClientWriteType
      <4>2. StoreOK(store'[i])
        BY <4>1 DEF TypeInv, StoreInv
      <4> QED
        BY <3>2, <4>2 DEF handleClientWrite
    <3> QED
      BY <1>4, <3>1, <3>2
  <2>3. PICK new : Driven(i, replicating[i], new) /\ replicating' = [replicating EXCEPT ![i] = new]
    <3>1. currentTerm[i] \in Nat /\ replicating[i] \in [Node -> CallSet \cup {Nil}]
          /\ nextIndex[i] \in [Node -> Nat \ {0}]
      BY TypeFacts DEF ElecTypeOK, LeaderTypeOK, CallSet
    <3>2. \A s : StoreOK(s) => Driven(i, replicating[i], DriveAll(i, replicating[i], s, nextIndex[i]))
      BY <3>1, DriveAllType
    <3> QED
      BY <2>2, <3>2
  <2>4. \A m \in Sent(i, replicating[i]) : <<m.term, m.src>> \in elected /\ m.src /= m.dst
    BY <2>1, <2>3, SentBacked
  <2>5. NetBacked
    BY <2>1, <2>4, NetStaysBacked DEF Quiet
  <2> QED
    BY <2>1, <2>5, QuietKeeps
<1>5. ASSUME NEW i \in Node, readBoardState(i) PROVE ElectionInv'
  <2>1. state[i] = "Leader" /\ replies' = replies /\ Quiet
    BY <1>5 DEF readBoardState, Quiet, elecVars, history
  <2>2. <<currentTerm[i], i>> \in elected
    BY <2>1 DEF ElectionInv, Mandates
  <2>3. \A m \in requests' \ requests : m.term = currentTerm[i] /\ m.src = i /\ m.dst /= i
    BY <1>5 DEF readBoardState, Peers
  <2>4. NetBacked
    BY <2>1, <2>2, <2>3, NetStaysBacked DEF Quiet
  <2> QED
    BY <2>1, <2>4, QuietKeeps
<1>6. ASSUME NEW i \in Node, requestCatchUp(i) PROVE ElectionInv'
  <2>1. replies' = replies /\ Quiet
    BY <1>6 DEF requestCatchUp, Quiet, elecVars, history
  <2>2. \A m \in requests' \ requests : m.type \notin LeaderTypes
    <3>1. requests' = requests \/ \E t : requests' = requests \cup {SyncLogArgs(i, t)}
      <4> HIDE ElectionFacts
      <4> QED
        BY <1>6 DEF requestCatchUp
    <3>2. \A t : SyncLogArgs(i, t).type = "SyncLog"
      BY DEF SyncLogArgs
    <3> QED
      BY <3>1, <3>2 DEF LeaderTypes, Replication
  <2>3. NetBacked
    BY <2>1, <2>2, NetStaysBacked DEF Quiet
  <2> QED
    BY <2>1, <2>3, QuietKeeps
<1>7. ASSUME NEW i \in Node, syncLogFails(i) PROVE ElectionInv'
  <2> DEFINE asked == {m \in requests : m.type = "SyncLog" /\ m.src = i /\ ~m.late}
  <2>1. Quiet
    BY <1>7 DEF syncLogFails, Quiet, elecVars, history
  <2>2. asked \subseteq requests
    OBVIOUS
  <2>3. \/ CallFails(asked, i, catchUp[i].target, {"SyncLog"}, {})
        \/ \E t : CallFails(asked, i, catchUp[i].target, {"SyncLog"}, {SyncLogArgs(i, t)})
    BY <1>7 DEF syncLogFails
  <2> HIDE DEF asked
  <2>4. \A t : SyncLogArgs(i, t).type \notin LeaderTypes
    BY DEF SyncLogArgs, LeaderTypes, Replication
  <2>5. NetBacked
    <3>1. CASE CallFails(asked, i, catchUp[i].target, {"SyncLog"}, {})
      BY <2>1, <2>2, <3>1, CallFailsBacked DEF Quiet
    <3>2. ASSUME NEW t, CallFails(asked, i, catchUp[i].target, {"SyncLog"}, {SyncLogArgs(i, t)})
          PROVE  NetBacked
      <4>1. \A m \in {SyncLogArgs(i, t)} : m.type \in LeaderTypes
                         => <<m.term, m.src>> \in elected /\ m.src /= m.dst
        BY <2>4
      <4> QED
        BY <2>1, <2>2, <3>2, <4>1, CallFailsBacked DEF Quiet
    <3> QED
      BY <2>3, <3>1, <3>2
  <2> QED
    BY <2>1, <2>5, QuietKeeps
<1>8. ASSUME NEW i \in Node, NEW p \in Peers(i), requestVoteFails(i, p) PROVE ElectionInv'
  <2> DEFINE asked == {m \in requests : m.type = "RequestVote" /\ m.src = i /\ m.dst = p
                                        /\ m.term = currentTerm[i]}
  <2>1. Quiet /\ asked \subseteq requests /\ CallFails(asked, i, p, {"RequestVote"}, {})
    BY <1>8 DEF requestVoteFails, Quiet, history
  <2> HIDE DEF asked
  <2>2. NetBacked
    BY <2>1, CallFailsBacked DEF Quiet
  <2> QED
    BY <2>1, <2>2, QuietKeeps
<1>9. ASSUME NEW i \in Node, NEW p \in Peers(i), replicateOnceFails(i, p) PROVE ElectionInv'
  <2> DEFINE asked == requests \cap {replicating[i][p]}
             sent == Sent(i, [replicating[i] EXCEPT ![p] = Nil])
  <2>1. /\ Quiet /\ asked \subseteq requests /\ CallFails(asked, i, p, Replication, sent)
        /\ Settle(i, p) /\ nextIndex' = nextIndex /\ p \in Node
    BY <1>9 DEF replicateOnceFails, Quiet, elecVars, Peers
  <2>2. nextIndex' \in [Node -> [Node -> Nat \ {0}]] /\ state'[i] = state[i]
    BY <2>1, TypeFacts DEF LeaderTypeOK, Quiet
  <2>3. \A m \in sent : <<m.term, m.src>> \in elected /\ m.src /= m.dst
    BY <2>1, <2>2, SettleBacked
  <2> HIDE DEF asked, sent
  <2>4. NetBacked
    BY <2>1, <2>3, CallFailsBacked DEF Quiet
  <2> QED
    BY <2>1, <2>4, QuietKeeps
<1>10. ASSUME NEW i \in Node, NEW d \in ReadSet, ReadSettled(i, d), NetBacked,
              UNCHANGED <<grants, elected>>
       PROVE  ElectionInv'
  <2>1. CASE UNCHANGED elecVars
    BY <1>10, <2>1, QuietKeeps DEF Quiet, elecVars
  <2>2. ASSUME NEW t \in d.terms, t > currentTerm[i], becomeFollower(i, t)
        PROVE  ElectionInv'
    <3>1. t \in Nat
      BY DEF ReadSet
    <3> QED
      BY <1>10, <2>2, <3>1, BecomeFollowerKeeps
  <2> QED
    BY <1>10, <2>1, <2>2 DEF ReadSettled
<1>11. ASSUME NEW i \in Node, NEW p \in Peers(i), heartbeatFails(i, p) PROVE ElectionInv'
  <2> DEFINE asked == {m \in requests : m.type = "Heartbeat" /\ m.src = i /\ m.dst = p /\ ~m.late}
             d == [reads[i] EXCEPT !.waits = @ \ {p}]
  <2>1. /\ ReadSettled(i, d) /\ asked \subseteq requests
        /\ CallFails(asked, i, p, {"Heartbeat"}, {}) /\ UNCHANGED <<grants, elected>>
    BY <1>11 DEF heartbeatFails
  <2>2. reads[i] \in ReadSet
    BY <1>11, TypeFacts DEF heartbeatFails, TaskTypeOK
  <2>3. d \in ReadSet
    BY <2>2 DEF ReadSet
  <2> HIDE DEF asked, d
  <2>4. NetBacked
    BY <2>1, CallFailsBacked
  <2> QED
    BY <1>10, <2>1, <2>3, <2>4
<1>12. ASSUME NEW r \in replies, heartbeatReply(r) PROVE ElectionInv'
  <2> DEFINE i == r.dst
             d == [reads[i] EXCEPT !.waits = @ \ {r.src}, !.terms = @ \cup {r.term},
                                   !.acks = IF r.result.success THEN @ \cup {r.src} ELSE @]
  <2>1. /\ ReadSettled(i, d) /\ requests' = requests /\ replies' \subseteq replies
        /\ UNCHANGED <<grants, elected>> /\ r.type = "Heartbeat"
    BY <1>12 DEF heartbeatReply, Answer
  <2>2. i \in Node /\ r.src \in Node /\ r.term \in Nat
    BY ReplyFields
  <2>3. reads[i] \in ReadSet
    BY <2>1, <2>2, TypeFacts DEF HeartbeatCalls, TaskTypeOK
  <2>4. d \in ReadSet
    BY <2>2, <2>3 DEF ReadSet
  <2> HIDE DEF d
  <2>5. NetBacked
    BY <2>1, NetStaysBacked
  <2> QED
    BY <1>10, <2>1, <2>2, <2>4, <2>5
<1>13. ASSUME NEW m \in requests, handleRequestVote(m) PROVE ElectionInv'
  BY <1>13, VoteKeeps
<1>14. ASSUME NEW m \in requests, handleAppendEntries(m) PROVE ElectionInv'
  <2>1. /\ m.type \in LeaderTypes /\ UNCHANGED history
        /\ \/ UNCHANGED elecVars
           \/ m.term >= currentTerm[m.dst] /\ FollowLeader(m)
        /\ \E x : Respond(m, x)
    BY <1>14 DEF handleAppendEntries, Received, LeaderTypes, Replication
  <2> QED
    BY <2>1, LeaderMessageKeeps
<1>15. ASSUME NEW m \in requests, handleInstallSnapshot(m) \/ handleHeartbeat(m)
       PROVE  ElectionInv'
  <2>1. /\ m.type \in LeaderTypes /\ UNCHANGED history
        /\ \/ UNCHANGED elecVars
           \/ m.term >= currentTerm[m.dst] /\ FollowLeader(m)
        /\ \E x : Respond(m, x)
    BY <1>15 DEF handleInstallSnapshot, handleHeartbeat, Received, LeaderTypes, Replication
  <2> QED
    BY <2>1, LeaderMessageKeeps
<1>16. ASSUME NEW m \in requests, handleSyncLog(m) PROVE ElectionInv'
  <2>1. m.dst \in Node /\ m.term \in Nat
    BY RequestFields
  <2>2. m.type /= "RequestVote" /\ UNCHANGED <<grants, elected>> /\ \E x : Respond(m, x)
    BY <1>16 DEF handleSyncLog, Received, history
  <2>3. NetBacked
    BY <2>2, RespondBacked
  <2>4. CASE m.term > currentTerm[m.dst] /\ becomeFollower(m.dst, m.term)
    BY <2>1, <2>2, <2>3, <2>4, BecomeFollowerKeeps
  <2>5. CASE UNCHANGED elecVars
    BY <2>2, <2>3, <2>5, QuietKeeps DEF Quiet, elecVars
  <2> QED
    BY <1>16, <2>4, <2>5 DEF handleSyncLog
<1>17. ASSUME NEW r \in replies, requestVoteReply(r) PROVE ElectionInv'
  BY <1>17, RequestVoteReplyKeeps
<1>18. ASSUME NEW r \in replies, syncLogReply(r) PROVE ElectionInv'
  <2>1. r.dst \in Node /\ r.term \in Nat
    BY ReplyFields
  <2>2. UNCHANGED <<grants, elected, requests>> /\ replies' \subseteq replies
    BY <1>18 DEF syncLogReply, history
  <2>3. NetBacked
    BY <2>2, NetStaysBacked
  <2>4. CASE r.term > currentTerm[r.dst] /\ becomeFollower(r.dst, r.term)
    BY <2>1, <2>2, <2>3, <2>4, BecomeFollowerKeeps
  <2>5. CASE UNCHANGED elecVars
    BY <2>2, <2>3, <2>5, QuietKeeps DEF Quiet, elecVars
  <2> QED
    BY <1>18, <2>4, <2>5 DEF syncLogReply
<1>19. ASSUME NEW r \in replies, replicateOnceReply(r) PROVE ElectionInv'
  <2> DEFINE i == r.dst
             sent == Sent(i, [replicating[i] EXCEPT ![r.src] = Nil])
  <2>1. i \in Node /\ r.src \in Node /\ r.term \in Nat
    BY ReplyFields
  <2>2. /\ Settle(i, r.src) /\ UNCHANGED <<grants, elected>>
        /\ requests' = requests \cup sent /\ replies' \subseteq replies
    BY <1>19 DEF replicateOnceReply
  <2>3. \/ r.term > currentTerm[i] /\ becomeFollower(i, r.term)
        \/ UNCHANGED elecVars
    BY <1>19 DEF replicateOnceReply
  <2>4. state'[i] = state[i] \/ state'[i] = "Follower"
    BY <2>1, <2>3 DEF becomeFollower, elecVars
  <2>5. nextIndex' \in [Node -> [Node -> Nat \ {0}]]
    <3>1. TypeInv'
      BY <1>19, ReplicateOnceReplyType
    <3> QED
      BY <3>1 DEF TypeInv, TypeOK, LeaderTypeOK
  <2>6. \A m \in sent : <<m.term, m.src>> \in elected /\ m.src /= m.dst
    BY <2>1, <2>2, <2>4, <2>5, SettleBacked
  <2> HIDE DEF sent
  <2>7. NetBacked
    BY <2>2, <2>6, NetStaysBacked
  <2>8. CASE r.term > currentTerm[i] /\ becomeFollower(i, r.term)
    BY <2>1, <2>2, <2>7, <2>8, BecomeFollowerKeeps
  <2>9. CASE UNCHANGED elecVars
    BY <2>2, <2>7, <2>9, QuietKeeps DEF Quiet, elecVars
  <2> QED
    BY <2>3, <2>8, <2>9
<1> QED
  BY <1>1, <1>2, <1>3, <1>4, <1>5, <1>6, <1>7, <1>8, <1>9, <1>11, <1>12, <1>13, <1>14,
     <1>15, <1>16, <1>17, <1>18, <1>19 DEF Next

\* The invariant that makes elections safe: counted votes were given, and every
\* vote that a later election could still need is kept.
THEOREM ElectionInvCorrect == Spec => []ElectionInv
<1>1. Init => ElectionInv
  BY ElectionInvInit
<1>2. TypeInv /\ ElectionInv /\ [Next]_vars => ElectionInv'
  BY ElectionInvNext
<1> QED
  BY <1>1, <1>2, TypeInvCorrect, PTL DEF Spec

\* At most one replica is elected in a term, for any number of replicas and over
\* any crashes, losses and delays, although becomeFollower clears votedFor in the
\* middle of a term.
THEOREM ElectionSafe == Spec => []ElectionSafety
<1>1. ElectionInv => ElectionSafety
  BY DEF ElectionInv
<1> QED
  BY <1>1, ElectionInvCorrect, PTL

\* A vote for another replica is never followed by a vote for a third one in the
\* same term: the fsync in handleRequestVote before the answer is enough.
THEOREM PeerVotesKept == Spec => []PeerVoteKept
<1>1. ElectionInv => PeerVoteKept
  BY DEF ElectionInv
<1> QED
  BY <1>1, ElectionInvCorrect, PTL

-----------------------------------------------------------------------------
(* Terms, votes and election timers, step by step.                         *)

Step(i) ==
  /\ currentTerm'[i] >= currentTerm[i]
  /\ votedFor'[i] /= votedFor[i] /\ votedFor[i] /= Nil
       => currentTerm'[i] > currentTerm[i] \/ state[i] = "Candidate"

LEMMA BecomeFollowerStep ==
  ASSUME TypeInv, NEW i \in Node, NEW t \in Nat, becomeFollower(i, t),
         t > currentTerm[i] \/ (t = currentTerm[i] /\ state[i] = "Candidate")
  PROVE  /\ \A j \in Node : Step(j)
         /\ NeverStuck => NeverStuck'
<1> USE TypeFacts DEF ElecTypeOK
<1>1. /\ currentTerm'[i] = t /\ electionTimer'[i] = TRUE
      /\ \A j \in Node : j /= i => /\ currentTerm'[j] = currentTerm[j]
                                   /\ votedFor'[j] = votedFor[j]
                                   /\ state'[j] = state[j]
                                   /\ electionTimer'[j] = electionTimer[j]
                                   /\ votesPending'[j] = votesPending[j]
  BY DEF becomeFollower, EndElection
<1>2. \A j \in Node : Step(j)
  BY <1>1 DEF Step
<1>3. NeverStuck => NeverStuck'
  BY <1>1 DEF NeverStuck
<1> QED
  BY <1>2, <1>3

LEMMA NewTermStep ==
  ASSUME TypeInv, NEW i \in Node, NEW t \in Nat, becomeFollower(i, t), t > currentTerm[i]
  PROVE  /\ \A j \in Node : Step(j)
         /\ NeverStuck => NeverStuck'
<1>1. t > currentTerm[i] \/ (t = currentTerm[i] /\ state[i] = "Candidate")
  BY Zenon
<1> QED
  BY <1>1, BecomeFollowerStep

LEMMA FollowLeaderStep ==
  ASSUME TypeInv, ElectionInv, NEW m \in requests, m.type \in LeaderTypes,
         m.term >= currentTerm[m.dst], FollowLeader(m)
  PROVE  /\ \A j \in Node : Step(j)
         /\ NeverStuck => NeverStuck'
<1> DEFINE i == m.dst
<1>1. i \in Node /\ m.src \in Node /\ m.term \in Nat /\ currentTerm[i] \in Nat
  BY ElectionFacts, RequestFields
<1>2. <<m.term, m.src>> \in elected /\ m.src /= i
  BY DEF ElectionInv, Mandates, LeaderTypes
<1>3. CASE /\ electionTimer' = [electionTimer EXCEPT ![i] = TRUE]
           /\ UNCHANGED <<state, currentTerm, votedFor, votesGranted, votesPending>>
  <2>1. \A j \in Node : Step(j)
    BY <1>3, ElectionFacts DEF Step
  <2>2. NeverStuck => NeverStuck'
    BY <1>3, TypeFacts DEF ElecTypeOK, NeverStuck
  <2> QED
    BY <2>1, <2>2
<1>4. CASE becomeFollower(i, m.term) /\ (m.term > currentTerm[i] \/ state[i] /= "Follower")
  <2>1. CASE m.term > currentTerm[i]
    BY <1>1, <1>4, <2>1, NewTermStep
  <2>2. CASE m.term = currentTerm[i] /\ state[i] /= "Follower"
    <3>1. state[i] /= "Leader"
      <4>1. SUFFICES ASSUME state[i] = "Leader" PROVE FALSE
        OBVIOUS
      <4>2. <<currentTerm[i], i>> \in elected
        BY <1>1, <4>1 DEF ElectionInv, Mandates
      <4> QED
        BY <1>2, <2>2, <4>2 DEF ElectionInv, ElectionSafety
    <3>2. state[i] = "Candidate"
      BY <1>1, <2>2, <3>1, ElectionFacts
    <3> QED
      BY <1>1, <1>4, <2>2, <3>2, BecomeFollowerStep
  <2> QED
    BY <1>1, <1>4, <2>1, <2>2
<1> QED
  BY <1>3, <1>4 DEF FollowLeader

\* A step that leaves votes, roles and timers alone.
LEMMA QuietStep ==
  ASSUME TypeInv, UNCHANGED elecVars
  PROVE  /\ \A j \in Node : Step(j)
         /\ NeverStuck => NeverStuck'
<1>1. \A j \in Node : Step(j)
  BY ElectionFacts DEF Step, elecVars
<1>2. NeverStuck => NeverStuck'
  BY DEF NeverStuck, elecVars
<1> QED
  BY <1>1, <1>2

LEMMA VoteSettledStep ==
  ASSUME TypeInv, NEW i \in Node, NEW p, VoteSettled(i, p),
         UNCHANGED <<currentTerm, votedFor, state>>
  PROVE  /\ \A j \in Node : Step(j)
         /\ NeverStuck => NeverStuck'
<1>1. \A j \in Node : Step(j)
  BY ElectionFacts DEF Step
<1>2. NeverStuck => NeverStuck'
  BY TypeFacts DEF VoteSettled, NeverStuck, ElecTypeOK
<1> QED
  BY <1>1, <1>2

LEMMA StandStep ==
  ASSUME TypeInv, NEW i \in Node, runElection(i)
  PROVE  /\ \A j \in Node : Step(j)
         /\ NeverStuck => NeverStuck'
<1> USE TypeFacts DEF ElecTypeOK
<1>1. \A j \in Node : Step(j)
  BY DEF Step, runElection
<1>2. Peers(i) /= {}
  <2>1. SUFFICES ASSUME Node = {i} PROVE FALSE
    BY DEF Peers
  <2>2. Cardinality({i}) = 1
    BY FS_Singleton
  <2> QED
    BY <2>1, <2>2, NodeAssumption
<1>3. NeverStuck => NeverStuck'
  BY <1>2 DEF NeverStuck, runElection
<1> QED
  BY <1>1, <1>3

LEMMA VoteStep ==
  ASSUME TypeInv, NEW m \in requests, handleRequestVote(m)
  PROVE  /\ \A j \in Node : Step(j)
         /\ NeverStuck => NeverStuck'
<1> USE TypeFacts DEF ElecTypeOK
<1> DEFINE i == m.dst
<1>1. i \in Node /\ m.src \in Node /\ m.term \in Nat
  BY RequestFields
<1>2. \A j \in Node : Step(j)
  BY <1>1 DEF Step, handleRequestVote, CastVote
<1>3. NeverStuck => NeverStuck'
  BY <1>1 DEF NeverStuck, handleRequestVote, EndElection
<1> QED
  BY <1>2, <1>3

LEMMA RequestVoteReplyStep ==
  ASSUME TypeInv, NEW r \in replies, requestVoteReply(r)
  PROVE  /\ \A j \in Node : Step(j)
         /\ NeverStuck => NeverStuck'
<1> DEFINE i == r.dst
<1>1. i \in Node /\ r.src \in Node /\ r.term \in Nat
  BY TypeFacts, ReplyFields
<1>2. CASE r.term > currentTerm[i] /\ becomeFollower(i, r.term)
  BY <1>1, <1>2, NewTermStep
<1>3. CASE becomeLeader(i) /\ UNCHANGED <<currentTerm, votedFor>>
  <2>1. \A j \in Node : Step(j)
    BY <1>3, ElectionFacts DEF Step
  <2>2. NeverStuck => NeverStuck'
    BY <1>1, <1>3, TypeFacts DEF NeverStuck, becomeLeader, EndElection, ElecTypeOK
  <2> QED
    BY <2>1, <2>2
<1>4. CASE VoteSettled(i, r.src) /\ UNCHANGED <<currentTerm, votedFor, state>>
  BY <1>1, <1>4, VoteSettledStep
<1> QED
  BY <1>2, <1>3, <1>4 DEF requestVoteReply

LEMMA ElectionStep ==
  ASSUME TypeInv, ElectionInv, [Next]_vars
  PROVE  /\ \A j \in Node : Step(j)
         /\ NeverStuck => NeverStuck'
<1> USE TypeFacts
<1>1. CASE UNCHANGED vars
  BY <1>1, QuietStep DEF vars
<1>2. ASSUME NEW i \in Node, runElection(i)
      PROVE  (\A j \in Node : Step(j)) /\ (NeverStuck => NeverStuck')
  BY <1>2, StandStep
<1>3. ASSUME NEW i \in Node, Restart(i)
      PROVE  (\A j \in Node : Step(j)) /\ (NeverStuck => NeverStuck')
  <2>1. \A j \in Node : Step(j)
    BY <1>3, ElectionFacts DEF Step, Restart
  <2>2. NeverStuck => NeverStuck'
    BY <1>3 DEF NeverStuck, Restart, EndElection, ElecTypeOK
  <2> QED
    BY <2>1, <2>2
<1>4. ASSUME NEW i \in Node,
             \/ sendHeartbeats(i) \/ readBoardState(i) \/ requestCatchUp(i) \/ syncLogFails(i)
             \/ \E v \in Stroke : handleClientWrite(i, v)
             \/ \E p \in Peers(i) : replicateOnceFails(i, p)
      PROVE  (\A j \in Node : Step(j)) /\ (NeverStuck => NeverStuck')
  <2>1. UNCHANGED elecVars
    BY <1>4 DEF sendHeartbeats, readBoardState, requestCatchUp, syncLogFails,
                handleClientWrite, replicateOnceFails
  <2> QED
    BY <2>1, QuietStep
<1>5. ASSUME NEW i \in Node, NEW p \in Peers(i), requestVoteFails(i, p)
      PROVE  (\A j \in Node : Step(j)) /\ (NeverStuck => NeverStuck')
  BY <1>5, VoteSettledStep DEF requestVoteFails
<1>6. ASSUME NEW i \in Node, NEW d \in ReadSet, ReadSettled(i, d)
      PROVE  (\A j \in Node : Step(j)) /\ (NeverStuck => NeverStuck')
  <2>1. CASE UNCHANGED elecVars
    BY <2>1, QuietStep
  <2>2. ASSUME NEW t \in d.terms, t > currentTerm[i], becomeFollower(i, t)
        PROVE  (\A j \in Node : Step(j)) /\ (NeverStuck => NeverStuck')
    <3>1. t \in Nat
      BY DEF ReadSet
    <3> QED
      BY <2>2, <3>1, NewTermStep
  <2> QED
    BY <1>6, <2>1, <2>2 DEF ReadSettled
<1>7. ASSUME NEW i \in Node, NEW p \in Peers(i), heartbeatFails(i, p)
      PROVE  (\A j \in Node : Step(j)) /\ (NeverStuck => NeverStuck')
  <2> DEFINE d == [reads[i] EXCEPT !.waits = @ \ {p}]
  <2>1. ReadSettled(i, d) /\ reads[i] \in ReadSet
    BY <1>7 DEF heartbeatFails, TaskTypeOK
  <2>2. d \in ReadSet
    BY <2>1 DEF ReadSet
  <2> HIDE DEF d
  <2> QED
    BY <1>6, <2>1, <2>2
<1>8. ASSUME NEW r \in replies, heartbeatReply(r)
      PROVE  (\A j \in Node : Step(j)) /\ (NeverStuck => NeverStuck')
  <2> DEFINE i == r.dst
             d == [reads[i] EXCEPT !.waits = @ \ {r.src}, !.terms = @ \cup {r.term},
                                   !.acks = IF r.result.success THEN @ \cup {r.src} ELSE @]
  <2>1. i \in Node /\ r.src \in Node /\ r.term \in Nat
    BY ReplyFields
  <2>2. ReadSettled(i, d) /\ r.type = "Heartbeat"
    BY <1>8 DEF heartbeatReply, Answer
  <2>3. reads[i] \in ReadSet
    BY <2>1, <2>2 DEF HeartbeatCalls, TaskTypeOK
  <2>4. d \in ReadSet
    BY <2>1, <2>3 DEF ReadSet
  <2> HIDE DEF d
  <2> QED
    BY <1>6, <2>1, <2>2, <2>4
<1>9. ASSUME NEW m \in requests, handleRequestVote(m)
      PROVE  (\A j \in Node : Step(j)) /\ (NeverStuck => NeverStuck')
  BY <1>9, VoteStep
<1>10. ASSUME NEW m \in requests,
              handleAppendEntries(m) \/ handleInstallSnapshot(m) \/ handleHeartbeat(m)
       PROVE  (\A j \in Node : Step(j)) /\ (NeverStuck => NeverStuck')
  <2>1. /\ m.type \in LeaderTypes
        /\ \/ UNCHANGED elecVars
           \/ m.term >= currentTerm[m.dst] /\ FollowLeader(m)
    BY <1>10 DEF handleAppendEntries, handleInstallSnapshot, handleHeartbeat, Received,
                 LeaderTypes, Replication
  <2> QED
    BY <2>1, FollowLeaderStep, QuietStep
<1>11. ASSUME NEW m \in requests, handleSyncLog(m)
       PROVE  (\A j \in Node : Step(j)) /\ (NeverStuck => NeverStuck')
  BY <1>11, RequestFields, NewTermStep, QuietStep DEF handleSyncLog
<1>12. ASSUME NEW r \in replies, requestVoteReply(r)
       PROVE  (\A j \in Node : Step(j)) /\ (NeverStuck => NeverStuck')
  BY <1>12, RequestVoteReplyStep
<1>13. ASSUME NEW r \in replies, replicateOnceReply(r) \/ syncLogReply(r)
       PROVE  (\A j \in Node : Step(j)) /\ (NeverStuck => NeverStuck')
  <2>1. \/ UNCHANGED elecVars
        \/ r.term > currentTerm[r.dst] /\ becomeFollower(r.dst, r.term)
    BY <1>13 DEF replicateOnceReply, syncLogReply
  <2> QED
    BY <2>1, ReplyFields, NewTermStep, QuietStep
<1> QED
  BY <1>1, <1>2, <1>3, <1>4, <1>5, <1>7, <1>8, <1>9, <1>10, <1>11, <1>12, <1>13 DEF Next

\* A replica's term never goes back, and within a term only a candidate's vote
\* for itself is ever taken back: no leader of the term loses its own, and no
\* follower changes the vote it gave.
THEOREM TermsAndVotesOnlyAdvance == Spec => TermsAndVotesAdvance
<1>1. TypeInv /\ ElectionInv /\ [Next]_vars => \A j \in Node : Step(j)
  BY ElectionStep
<1>2. TypeInv /\ ElectionInv /\ [Next]_vars
        => [\A i \in Node :
              /\ currentTerm'[i] >= currentTerm[i]
              /\ votedFor'[i] /= votedFor[i] /\ votedFor[i] /= Nil
                   => currentTerm'[i] > currentTerm[i] \/ state[i] = "Candidate"]_vars
  BY <1>1 DEF Step
<1> QED
  BY <1>2, TypeInvCorrect, ElectionInvCorrect, PTL DEF Spec, TermsAndVotesAdvance

\* A replica that does not lead can always stand again: its timer is armed, or
\* it still waits for votes, over every order of votes, refusals and timeouts.
THEOREM NeverStuckCorrect == Spec => []NeverStuck
<1>1. Init => NeverStuck
  BY DEF Init, NeverStuck
<1>2. TypeInv /\ ElectionInv /\ NeverStuck /\ [Next]_vars => NeverStuck'
  BY ElectionStep
<1> QED
  BY <1>1, <1>2, TypeInvCorrect, ElectionInvCorrect, PTL DEF Spec

=============================================================================
