------------------------------- MODULE MCRaft -------------------------------
(***************************************************************************)
(* RaftNode for TLC.  Spec starts from a cluster that has just been        *)
(* created.  LedSpec starts once First has been elected in term 1 by all   *)
(* the others and every vote call has settled, which Spec reaches: a run   *)
(* that is about replication does not explore that election.               *)
(***************************************************************************)
EXTENDS RaftNode, TLC

CONSTANT First

Symmetry == Permutations(Node) \cup Permutations(Stroke)

\* First has a part of its own in LedSpec.
LedSymmetry == Permutations(Node \ {First}) \cup Permutations(Stroke)

Led ==
  /\ currentTerm = [i \in Node |-> 1]
  /\ votedFor = [i \in Node |-> First]
  /\ state = [i \in Node |-> IF i = First THEN "Leader" ELSE "Follower"]
  /\ leaderId = [i \in Node |-> IF i = First THEN First ELSE Nil]
  /\ leaderAddr = [i \in Node |-> IF i = First THEN First ELSE Nil]
  /\ electionTimer = [i \in Node |-> i /= First]
  /\ votesGranted = [i \in Node |-> {}]
  /\ votesPending = [i \in Node |-> {}]
  /\ store = [i \in Node |-> emptyStore]
  /\ nextIndex = [i \in Node |-> [p \in Node |-> 1]]
  /\ matchIndex = [i \in Node |-> [p \in Node |-> 0]]
  /\ replicating = [i \in Node |-> [p \in Node |-> Nil]]
  /\ rounds = [i \in Node |-> {}]
  /\ writes = [i \in Node |-> {}]
  /\ reads = [i \in Node |-> Nil]
  /\ catchUp = [i \in Node |-> CatchUpDue]
  /\ requests = {}
  /\ replies = {}
  /\ grants = {<<i, 1, First>> : i \in Node}
  /\ elected = {<<1, First>>}
  /\ submitted = {} /\ acked = {} /\ served = {}

FullBudget == [election |-> MaxElections, crash |-> MaxCrashes, late |-> MaxLate,
               read |-> MaxReads, catchUp |-> MaxCatchUps, round |-> MaxRounds]

LedInit == Led /\ budget = FullBudget

LedSpec == LedInit /\ [][Next]_vars

\* Reads and a change of leader are explored apart from crashes, late calls and
\* catch-ups, and with ReadsApart from retries: budgets for the one or the other.
ApartInit ==
  /\ Led
  /\ \/ budget = [FullBudget EXCEPT !.read = 0, !.election = 0]
     \/ budget = [FullBudget EXCEPT !.crash = 0, !.late = 0, !.catchUp = 0]

ApartSpec == ApartInit /\ [][Next]_vars

\* Where a change of leader is possible there is a budget for it, or a term after the
\* first: there no write is retried, and once there is a second term, two writes are
\* submitted only if one of them has been acknowledged.
ReadsApart ==
  /\ (budget.election > 0 \/ \E i \in Node : currentTerm[i] > 1) =>
       \A i \in Node : \A w \in writes[i] : w.attempt = 1
  /\ (\E i \in Node : currentTerm[i] > 1) => acked /= {} \/ Cardinality(submitted) <= 1

\* The board that no replica has shown more of.
Longest ==
  LET boards == {store[i].boardEvents : i \in Node} IN
  CHOOSE b \in boards : \A c \in boards : Len(c) <= Len(b)

OneBoard == INSTANCE ReplicatedBoard
  WITH Replica <- Node, board <- Longest,
       shown <- [i \in Node |-> store[i].boardEvents],
       acknowledged <- {a.entry.stroke : a \in acked}

\* The replicas together are one board: over elections, truncations, snapshots
\* and calls that fail or arrive late, what handleClientWrite acknowledges and
\* what applyCommitted shows are steps of ReplicatedBoard.
ImplementsOneBoard == OneBoard!Spec

\* Enough of LedSpec to lose an acknowledged write: a write in each term led,
\* a replica that is never reached, a round once the last leader is elected.
TwoWritersOnly ==
  /\ \E i \in Node \ {First} : store[i] = emptyStore
  /\ Cardinality(submitted) <= Cardinality(elected)
  /\ MaxElections - budget.election <= Cardinality(submitted)
  /\ budget.round < MaxRounds => budget.election = 0
=============================================================================
