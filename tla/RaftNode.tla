------------------------------ MODULE RaftNode ------------------------------
(***************************************************************************)
(* A cluster of replicas (replica/src/raftNode.ts) that exchange RPCs over *)
(* HTTP (rpcClient.ts, rpcHandlers.ts).                                    *)
(*                                                                         *)
(* A replica is one Node.js process: a handler, or the code between two    *)
(* awaits, runs without interruption, so it is one action.  What the code  *)
(* awaits is kept as state: the calls in flight, and for every             *)
(* Promise.allSettled the set of peers whose call has not settled yet.     *)
(* Every assignment to persistent state is fsynced inside the handler that *)
(* makes it, so at the grain of these actions the disk equals the memory.  *)
(*                                                                         *)
(* The network delivers a request at any later time or never; a call whose *)
(* answer does not come fails (rpcTimeoutMs), and its request may still be *)
(* delivered afterwards.  Calls may overtake each other.                   *)
(***************************************************************************)
EXTENDS RaftLog, FiniteSets, SequencesExt

CONSTANTS
  Node,              \* the replicas
  Stroke,            \* the strokes clients write, each at most once
  Nil,               \* the code's null / undefined
  SnapshotThreshold, \* RAFT_TIMING.snapshotThresholdEntries
  BatchCap,          \* RAFT_TIMING.appendEntriesBatchCap
  MaxRetries,        \* maxRetries of handleClientWrite
  \* Bounds of the model, not of the code:
  MaxElections,      \* elections, over all replicas: a bound on the terms too
  MaxCrashes,        \* crashes, over all replicas
  MaxLate,           \* requests delivered after their caller gave up
  MaxReads,          \* board-state reads
  MaxCatchUps,       \* catch-up rounds
  MaxRounds          \* sendHeartbeats calls, over all replicas

ASSUME NodeAssumption == IsFiniteSet(Node) /\ Cardinality(Node) > 1
ASSUME TuningAssumption == /\ SnapshotThreshold \in Nat \ {0}
                           /\ BatchCap \in Nat \ {0}
                           /\ MaxRetries \in Nat \ {0}
ASSUME BoundAssumption ==
  {MaxElections, MaxCrashes, MaxLate, MaxReads, MaxCatchUps, MaxRounds} \subseteq Nat

VARIABLES
  currentTerm, votedFor,     \* persisted by persistState
  state, leaderId, leaderAddr,
  electionTimer,             \* is the election timer armed?
  votesGranted, votesPending \* of the election a candidate is running
elecVars == <<currentTerm, votedFor, state, leaderId, leaderAddr, electionTimer,
              votesGranted, votesPending>>

VARIABLES
  store,                     \* log, commit index, applied events, snapshot
  nextIndex, matchIndex,     \* per peer, meaningful while leader
  replicating,               \* the replication call in flight to each peer
  rounds,                    \* sendHeartbeats calls: peers each still awaits
  writes,                    \* handleClientWrite calls that are waiting
  reads,                     \* the readBoardState call that is waiting
  catchUp                    \* the requestCatchUp call
leaderVars == <<nextIndex, matchIndex, replicating, rounds, writes>>

VARIABLES requests, replies, budget

\* What happened, for the properties.  No handler reads these; submitted only
\* keeps clients from writing the same stroke twice.
VARIABLES
  grants,    \* <<voter, term, candidate>>
  elected,   \* <<term, leader>>
  submitted, \* strokes written so far
  acked,     \* entries whose writer was told "success", and the term it was in
  served     \* reads answered with a board
history == <<grants, elected, submitted, acked, served>>

vars == <<elecVars, store, leaderVars, reads, catchUp, requests, replies,
          budget, history>>

Peers(i) == Node \ {i}

\* Mutant: half of the cluster is enough.
majority_Half == Cardinality(Node) \div 2

majority == (Cardinality(Node) \div 2) + 1

Spend(what) ==
  budget[what] > 0 /\ budget' = [budget EXCEPT ![what] = @ - 1]

-----------------------------------------------------------------------------
(* The replica's log and the board derived from it.                        *)

emptyStore == [log |-> emptyLog, commitIndex |-> 0, boardEvents |-> <<>>,
               snapshotBoards |-> <<>>]

\* What persistence.loadSnapshot() returns: takeSnapshot and applySnapshot
\* move the log's boundary and the saved snapshot together.
loadSnapshot(s) == [lastIncludedIndex |-> s.log.lastIncludedIndex,
                    lastIncludedTerm  |-> s.log.lastIncludedTerm,
                    boards            |-> s.snapshotBoards]

\* The strokes of the entries from one index up to another.
StrokesOf(l, from, to) ==
  [k \in 1..(to - from + 1) |-> getEntry(l, from + k - 1).stroke]

\* Mutant: the whole log is compacted, not only what is applied.
takeSnapshot_All(s) ==
  [s EXCEPT !.snapshotBoards = s.boardEvents,
            !.log = compact(@, getLastIndex(@), getLastTerm(@))]

takeSnapshot(s) ==
  [s EXCEPT !.snapshotBoards = s.boardEvents,
            !.log = compact(@, s.commitIndex, getTermAt(@, s.commitIndex))]

maybeSnapshot(s) ==
  IF s.commitIndex - s.log.lastIncludedIndex < SnapshotThreshold THEN s
  ELSE takeSnapshot(s)

\* Assign the commit index, persistState, applyCommitted.  lastApplied has
\* no variable: applyCommitted always brings it up to commitIndex.
CommitTo(s, index) ==
  maybeSnapshot([s EXCEPT
    !.commitIndex = index,
    !.boardEvents = s.boardEvents \o StrokesOf(s.log, s.commitIndex + 1, index)])

\* "if (leaderCommit > commitIndex) commitIndex = min(leaderCommit, last)"
FollowCommit(s, leaderCommit) ==
  IF leaderCommit > s.commitIndex
  THEN CommitTo(s, Min({leaderCommit, getLastIndex(s.log)}))
  ELSE s

\* Mutant: the snapshot is not saved.
applySnapshot_Unsaved(s, snapshot) ==
  [log            |-> installSnapshot(s.log, snapshot.lastIncludedIndex,
                                      snapshot.lastIncludedTerm),
   commitIndex    |-> snapshot.lastIncludedIndex,
   boardEvents    |-> snapshot.boards,
   snapshotBoards |-> s.snapshotBoards]

applySnapshot(s, snapshot) ==
  [log            |-> installSnapshot(s.log, snapshot.lastIncludedIndex,
                                      snapshot.lastIncludedTerm),
   commitIndex    |-> snapshot.lastIncludedIndex,
   boardEvents    |-> snapshot.boards,
   snapshotBoards |-> snapshot.boards]

\* Mutant: the leader's own entry counts twice.
updateCommitIndex_SelfTwice(i, s, match) ==
  LET replicated(n) == 2 + Cardinality({p \in Peers(i) : match[p] >= n})
      committable == {n \in (s.commitIndex + 1)..getLastIndex(s.log) :
                        /\ getEntry(s.log, n).term = currentTerm[i]
                        /\ replicated(n) >= majority}
  IN  IF committable = {} THEN s ELSE CommitTo(s, Max(committable))

\* Mutant: the leader's own entry does not count.
updateCommitIndex_NoSelf(i, s, match) ==
  LET replicated(n) == Cardinality({p \in Peers(i) : match[p] >= n})
      committable == {n \in (s.commitIndex + 1)..getLastIndex(s.log) :
                        /\ getEntry(s.log, n).term = currentTerm[i]
                        /\ replicated(n) >= majority}
  IN  IF committable = {} THEN s ELSE CommitTo(s, Max(committable))

\* The leader's commit rule: the highest entry of its own term that a
\* majority holds.
updateCommitIndex(i, s, match) ==
  LET replicated(n) == 1 + Cardinality({p \in Peers(i) : match[p] >= n})
      committable == {n \in (s.commitIndex + 1)..getLastIndex(s.log) :
                        /\ getEntry(s.log, n).term = currentTerm[i]
                        /\ replicated(n) >= majority}
  IN  IF committable = {} THEN s ELSE CommitTo(s, Max(committable))

\* The constructor: the log without the entries whose index the snapshot covers,
\* the snapshot's boards, then the log up to commitIndex.
Recover(s) ==
  LET l == reloaded(s.log)
  IN  maybeSnapshot([s EXCEPT !.log = l, !.boardEvents =
        s.snapshotBoards \o StrokesOf(l, l.lastIncludedIndex + 1, s.commitIndex)])

\* Does every entry still carry an index behind the snapshot?
AllBehind(l) == \A k \in 1..Len(l.entries) : l.entries[k].index > l.lastIncludedIndex

-----------------------------------------------------------------------------
(* Calls and answers.                                                      *)

\* A request nobody waits for any more.
Late(ms) == {[m EXCEPT !.late = TRUE] : m \in ms}

Received(m, type) == m \in requests /\ m.type = type

\* Is the caller still waiting for the answer to m?
Awaited(m) ==
  /\ ~m.late
  /\ m.type = "RequestVote" => /\ m.dst \in votesPending[m.src]
                               /\ m.term = currentTerm[m.src]

\* An answer nobody waits for changes nothing, and neither does a request of
\* an old term whose answer nobody waits for: they are not kept.
Relevant(m) == m.term >= currentTerm[m.dst] \/ Awaited(m)

Usable(r) == r.type = "RequestVote" => /\ r.src \in votesPending[r.dst]
                                      /\ r.askedIn = currentTerm[r.dst]

Respond(m, r) ==
  /\ requests' = {q \in requests \ {m} : Relevant(q)'}
  /\ replies' = {a \in replies : Usable(a)'} \cup
       IF Awaited(m)
       THEN {[type |-> m.type, src |-> m.dst, dst |-> m.src, askedIn |-> m.term,
              term |-> currentTerm'[m.dst], result |-> r]}
       ELSE {}

Answer(r, type) == r \in replies /\ r.type = type

\* A call of i to p fails: its answer is lost, its request is lost, or the
\* caller gives up on a request that is still to be delivered.  "sent" is
\* what the caller then sends.
CallFails(asked, i, p, types, sent) ==
  /\ replies' = {r \in replies : ~(r.dst = i /\ r.src = p /\ r.type \in types)}
  /\ \/ requests' = (requests \ asked) \cup sent /\ UNCHANGED budget
     \/ /\ asked /= {} /\ Spend("late")
        /\ requests' = (requests \ asked) \cup Late(asked) \cup sent

-----------------------------------------------------------------------------
(* State transitions.                                                      *)

\* The variables of a runElection call that no longer matters are dead.
EndElection(i) ==
  /\ votesGranted' = [votesGranted EXCEPT ![i] = {}]
  /\ votesPending' = [votesPending EXCEPT ![i] = {}]

\* Called without a leader by most handlers; leaderId and leaderAddr are set
\* by FollowLeader when there is one.
becomeFollower(i, term) ==
  /\ state' = [state EXCEPT ![i] = "Follower"]
  /\ currentTerm' = [currentTerm EXCEPT ![i] = term]
  /\ votedFor' = [votedFor EXCEPT ![i] = Nil]
  /\ electionTimer' = [electionTimer EXCEPT ![i] = TRUE]
  /\ EndElection(i)

\* Mutant: becomeFollower is called in every case, and resets votedFor.
FollowLeader_Always(m) ==
  LET i == m.dst IN
  /\ becomeFollower(i, m.term)
  /\ leaderId' = [leaderId EXCEPT ![i] = m.src]
  /\ leaderAddr' = IF m.type = "InstallSnapshot" THEN leaderAddr
                   ELSE [leaderAddr EXCEPT ![i] = m.src]

\* The common start of the AppendEntries, Heartbeat and InstallSnapshot
\* handlers, once the term is not stale.  InstallSnapshot carries no address.
FollowLeader(m) ==
  LET i == m.dst IN
  /\ \/ /\ m.term > currentTerm[i] \/ state[i] /= "Follower"
        /\ becomeFollower(i, m.term)
     \/ /\ m.term = currentTerm[i] /\ state[i] = "Follower"
        /\ electionTimer' = [electionTimer EXCEPT ![i] = TRUE]
        /\ UNCHANGED <<state, currentTerm, votedFor, votesGranted, votesPending>>
  /\ leaderId' = [leaderId EXCEPT ![i] = m.src]
  /\ leaderAddr' = IF m.type = "InstallSnapshot" THEN leaderAddr
                   ELSE [leaderAddr EXCEPT ![i] = m.src]

becomeLeader(i) ==
  /\ state' = [state EXCEPT ![i] = "Leader"]
  /\ leaderId' = [leaderId EXCEPT ![i] = i]
  /\ leaderAddr' = [leaderAddr EXCEPT ![i] = i]
  /\ electionTimer' = [electionTimer EXCEPT ![i] = FALSE]
  /\ EndElection(i)
  /\ nextIndex' = [nextIndex EXCEPT
                     ![i] = [p \in Node |-> getLastIndex(store[i].log) + 1]]
  /\ matchIndex' = [matchIndex EXCEPT ![i] = [p \in Node |-> 0]]
  /\ elected' = elected \cup {<<currentTerm[i], i>>}

-----------------------------------------------------------------------------
(* Elections.                                                              *)

\* onElectionTimeout: the timer has fired and is not armed again before the
\* election is decided.
runElection(i) ==
  /\ electionTimer[i] /\ state[i] /= "Leader"
  /\ Spend("election")
  /\ state' = [state EXCEPT ![i] = "Candidate"]
  /\ currentTerm' = [currentTerm EXCEPT ![i] = @ + 1]
  /\ votedFor' = [votedFor EXCEPT ![i] = i]
  /\ leaderId' = [leaderId EXCEPT ![i] = Nil]
  /\ electionTimer' = [electionTimer EXCEPT ![i] = FALSE]
  /\ votesGranted' = [votesGranted EXCEPT ![i] = {i}]
  /\ votesPending' = [votesPending EXCEPT ![i] = Peers(i)]
  /\ requests' = requests \cup
       {[type |-> "RequestVote", src |-> i, dst |-> p, term |-> currentTerm'[i],
         lastLogIndex |-> getLastIndex(store[i].log),
         lastLogTerm |-> getLastTerm(store[i].log), late |-> FALSE] : p \in Peers(i)}
  /\ grants' = grants \cup {<<i, currentTerm'[i], i>>}
  /\ UNCHANGED <<leaderAddr, store, leaderVars, reads, catchUp, replies,
                 elected, submitted, acked, served>>

\* Mutant: only the last terms are compared.
isLogUpToDate_TermOnly(l, candidateLastIndex, candidateLastTerm) ==
  candidateLastTerm >= getLastTerm(l)

isLogUpToDate(l, candidateLastIndex, candidateLastTerm) ==
  \/ candidateLastTerm > getLastTerm(l)
  \/ candidateLastTerm = getLastTerm(l) /\ candidateLastIndex >= getLastIndex(l)

\* Mutant: the vote already given is not looked at.
CastVote_Again(m, vote) ==
  LET i == m.dst IN
  /\ m.term >= currentTerm[i]
  /\ isLogUpToDate(store[i].log, m.lastLogIndex, m.lastLogTerm)

\* What handleRequestVote does once a newer term has been adopted: vote is
\* the votedFor it then sees.
CastVote(m, vote) ==
  LET i == m.dst IN
  /\ m.term >= currentTerm[i]
  /\ vote \in {Nil, m.src}
  /\ isLogUpToDate(store[i].log, m.lastLogIndex, m.lastLogTerm)

handleRequestVote(m) ==
  LET i == m.dst
      newer == m.term > currentTerm[i]
      vote == IF newer THEN Nil ELSE votedFor[i]
      canVote == CastVote(m, vote)
  IN
  /\ Received(m, "RequestVote")
  /\ currentTerm' = IF newer THEN [currentTerm EXCEPT ![i] = m.term] ELSE currentTerm
  /\ state' = IF newer THEN [state EXCEPT ![i] = "Follower"] ELSE state
  /\ votedFor' = [votedFor EXCEPT ![i] = IF canVote THEN m.src ELSE vote]
  /\ electionTimer' = [electionTimer EXCEPT ![i] = @ \/ newer \/ canVote]
  /\ IF newer THEN EndElection(i) ELSE UNCHANGED <<votesGranted, votesPending>>
  /\ grants' = IF canVote THEN grants \cup {<<i, m.term, m.src>>} ELSE grants
  /\ Respond(m, [voteGranted |-> canVote])
  /\ UNCHANGED <<leaderId, leaderAddr, store, leaderVars, reads, catchUp, budget,
                 elected, submitted, acked, served>>

\* Mutant: an election that fails does not arm the timer again.
VoteSettled_NoRetry(i, p) ==
  /\ votesPending' = [votesPending EXCEPT ![i] = @ \ {p}]
  /\ UNCHANGED electionTimer

\* An answer settles p's call.  The last one to settle without a majority
\* arms the timer for another attempt.
VoteSettled(i, p) ==
  /\ votesPending' = [votesPending EXCEPT ![i] = @ \ {p}]
  /\ electionTimer' = [electionTimer EXCEPT ![i] = votesPending'[i] = {}]

requestVoteReply(r) ==
  LET i == r.dst
      votes == IF r.result.voteGranted THEN votesGranted[i] \cup {r.src}
               ELSE votesGranted[i]
  IN
  /\ Answer(r, "RequestVote")
  /\ state[i] = "Candidate" /\ r.askedIn = currentTerm[i] /\ r.src \in votesPending[i]
  /\ \/ /\ r.term > currentTerm[i]
        /\ becomeFollower(i, r.term)
        /\ UNCHANGED <<leaderId, leaderAddr, nextIndex, matchIndex, elected>>
     \/ /\ r.term <= currentTerm[i] /\ Cardinality(votes) >= majority
        /\ becomeLeader(i)
        /\ UNCHANGED <<currentTerm, votedFor>>
     \/ /\ r.term <= currentTerm[i] /\ Cardinality(votes) < majority
        /\ votesGranted' = [votesGranted EXCEPT ![i] = votes]
        /\ VoteSettled(i, r.src)
        /\ UNCHANGED <<currentTerm, votedFor, state, leaderId, leaderAddr,
                       nextIndex, matchIndex, elected>>
  /\ replies' = {a \in replies \ {r} : Usable(a)'}
  /\ UNCHANGED <<store, replicating, rounds, writes, reads, catchUp, requests,
                 budget, grants, submitted, acked, served>>

requestVoteFails(i, p) ==
  /\ p \in votesPending[i]
  /\ CallFails({m \in requests : m.type = "RequestVote" /\ m.src = i /\ m.dst = p
                                /\ m.term = currentTerm[i]},
               i, p, {"RequestVote"}, {})
  /\ VoteSettled(i, p)
  /\ UNCHANGED <<currentTerm, votedFor, state, leaderId, leaderAddr, votesGranted,
                 store, leaderVars, reads, catchUp, history>>

-----------------------------------------------------------------------------
(* Replication.                                                            *)

\* The request replicateOnce sends to a peer at nextIndex next, from a store s.
replicateOnce(i, p, s, next) ==
  LET tail == getEntriesFrom(s.log, next) IN
  IF next <= s.log.lastIncludedIndex
  THEN [type |-> "InstallSnapshot", src |-> i, dst |-> p, term |-> currentTerm[i],
        snapshot |-> loadSnapshot(s), late |-> FALSE]
  ELSE [type |-> "AppendEntries", src |-> i, dst |-> p, term |-> currentTerm[i],
        prevLogIndex |-> next - 1, prevLogTerm |-> getTermAt(s.log, next - 1),
        entries |-> SubSeq(tail, 1, Min({Len(tail), BatchCap})),
        leaderCommit |-> s.commitIndex, late |-> FALSE]

\* Mutant: a call in flight does not keep another one from being sent.
DriveAll_Twice(i, idle, s, next) ==
  [p \in Node |-> IF p = i THEN Nil ELSE replicateOnce(i, p, s, next[p])]

\* driveReplication to every peer: a peer with a call in flight is awaited,
\* the others are sent a request.  idle are the calls before, all settled
\* ones removed.
DriveAll(i, idle, s, next) ==
  [p \in Node |-> IF p = i \/ idle[p] /= Nil THEN idle[p]
                  ELSE replicateOnce(i, p, s, next[p])]

\* The requests that drive sends.
Sent(i, idle) == {replicating'[i][p] : p \in {q \in Peers(i) : idle[q] = Nil}} \ {Nil}

sendHeartbeats(i) ==
  /\ state[i] = "Leader"
  /\ Spend("round")
  /\ replicating' = [replicating EXCEPT ![i] = DriveAll(i, @, store[i], nextIndex[i])]
  /\ requests' = requests \cup Sent(i, replicating[i])
  /\ rounds' = [rounds EXCEPT ![i] = @ \cup {Peers(i)}]
  /\ UNCHANGED <<elecVars, store, nextIndex, matchIndex, writes, reads, catchUp,
                 replies, history>>

handleClientWrite(i, v) ==
  LET entry == [index |-> getLastIndex(store[i].log) + 1, term |-> currentTerm[i],
                stroke |-> v]
  IN
  /\ state[i] = "Leader"
  /\ v \notin submitted
  /\ submitted' = submitted \cup {v}
  /\ store' = [store EXCEPT ![i].log = append(@, entry)]
  /\ replicating' = [replicating EXCEPT ![i] = DriveAll(i, @, store'[i], nextIndex[i])]
  /\ requests' = requests \cup Sent(i, replicating[i])
  /\ writes' = [writes EXCEPT ![i] =
                  @ \cup {[entry |-> entry, attempt |-> 1, waits |-> Peers(i)]}]
  /\ UNCHANGED <<elecVars, nextIndex, matchIndex, rounds, reads, catchUp, replies,
                 budget, grants, elected, acked, served>>

(***************************************************************************)
(* The call to p has settled, with nextIndex, matchIndex and the node's    *)
(* state as it left them.  Every allSettled that was only waiting for p    *)
(* resumes before anything else runs: a finished sendHeartbeats round      *)
(* advances the commit index; a write whose entry a majority holds commits *)
(* and is acknowledged; any other write drives the peers again or, after   *)
(* its last attempt or when the node no longer leads, fails.  They resume  *)
(* in the order they began to wait, so a repeated drive may be sent before *)
(* or after the commit index has moved.                                    *)
(***************************************************************************)
Settle(i, p) ==
  LET leads    == state'[i] = "Leader"
      ready    == {w \in writes[i] : w.waits = {p}}
      done     == {w \in ready :
                     1 + Cardinality({q \in Peers(i) : matchIndex'[i][q] >= w.entry.index})
                       >= majority}
      retried  == {w \in ready \ done : w.attempt < MaxRetries}
      waiting  == {[w EXCEPT !.waits = @ \ {p}] : w \in writes[i] \ ready}
      idle     == [replicating[i] EXCEPT ![p] = Nil]
      advanced == updateCommitIndex(i, store[i], matchIndex'[i])
  IN
  /\ rounds' = [rounds EXCEPT ![i] = {w \ {p} : w \in @} \ {{}}]
  /\ acked' = IF leads THEN acked \cup {[entry |-> w.entry, ackedIn |-> currentTerm[i]] : w \in done}
              ELSE acked
  /\ store' = IF leads /\ ({p} \in rounds[i] \/ done /= {})
              THEN [store EXCEPT ![i] = advanced] ELSE store
  /\ \/ /\ leads /\ retried /= {}
        /\ writes' = [writes EXCEPT ![i] = waiting \cup
             {[w EXCEPT !.attempt = @ + 1, !.waits = Peers(i)] : w \in retried}]
        /\ \E s \in {store[i], store'[i]} :
             replicating' = [replicating EXCEPT ![i] = DriveAll(i, idle, s, nextIndex'[i])]
     \/ /\ ~leads \/ retried = {}
        /\ writes' = [writes EXCEPT ![i] = waiting]
        /\ replicating' = [replicating EXCEPT ![i] = idle]

\* Mutant: prevLogIndex and prevLogTerm are not looked at.
LogConsistent_Unchecked(l, m) == TRUE

\* The follower's check of prevLogIndex and prevLogTerm; below its snapshot
\* boundary everything counts as consistent.
LogConsistent(l, m) ==
  \/ m.prevLogIndex < l.lastIncludedIndex
  \/ m.prevLogIndex = l.lastIncludedIndex
     /\ (l.lastIncludedIndex > 0 => l.lastIncludedTerm = m.prevLogTerm)
  \/ hasEntry(l, m.prevLogIndex) /\ getEntry(l, m.prevLogIndex).term = m.prevLogTerm

\* A conflict with a committed entry is found before the loop changes anything.
Appendable(s, m) ==
  /\ LogConsistent(s.log, m)
  /\ CommittedConflicts(s.log, s.commitIndex, m.entries) = {}

AppendEntriesResult(i, success) ==
  [success |-> success, currentLogLength |-> getLength(store'[i].log)]

handleAppendEntries(m) ==
  LET i == m.dst
      s == store[i]
      merged == [s EXCEPT !.log = MergeEntries(@, s.commitIndex, m.entries)]
  IN
  /\ Received(m, "AppendEntries")
  /\ \/ /\ m.term < currentTerm[i]
        /\ UNCHANGED <<elecVars, store>>
        /\ Respond(m, AppendEntriesResult(i, FALSE))
     \/ /\ m.term >= currentTerm[i] /\ ~Appendable(s, m)
        /\ FollowLeader(m)
        /\ UNCHANGED store
        /\ Respond(m, AppendEntriesResult(i, FALSE))
     \/ /\ m.term >= currentTerm[i] /\ Appendable(s, m)
        /\ FollowLeader(m)
        /\ store' = [store EXCEPT ![i] = FollowCommit(merged, m.leaderCommit)]
        /\ Respond(m, AppendEntriesResult(i, TRUE))
  /\ UNCHANGED <<leaderVars, reads, catchUp, budget, history>>

\* Mutant: a snapshot is installed even when it is older than the board.
handleInstallSnapshot_Stale(m) ==
  LET i == m.dst IN
  /\ Received(m, "InstallSnapshot")
  /\ \/ m.term < currentTerm[i] /\ UNCHANGED <<elecVars, store>>
     \/ /\ m.term >= currentTerm[i]
        /\ FollowLeader(m)
        /\ store' = [store EXCEPT ![i] = applySnapshot(@, m.snapshot)]
  /\ Respond(m, [success |-> TRUE])
  /\ UNCHANGED <<leaderVars, reads, catchUp, budget, history>>

\* A snapshot that does not reach past commitIndex is acknowledged unused.
handleInstallSnapshot(m) ==
  LET i == m.dst IN
  /\ Received(m, "InstallSnapshot")
  /\ \/ m.term < currentTerm[i] /\ UNCHANGED <<elecVars, store>>
     \/ /\ m.term >= currentTerm[i]
        /\ FollowLeader(m)
        /\ store' = IF m.snapshot.lastIncludedIndex <= store[i].commitIndex THEN store
                    ELSE [store EXCEPT ![i] = applySnapshot(@, m.snapshot)]
  /\ Respond(m, [success |-> TRUE])
  /\ UNCHANGED <<leaderVars, reads, catchUp, budget, history>>

\* Mutant: nextIndex is set to the peer's last entry instead of past it.
RecordProgress_OffByOne(i, p, m, result) ==
  CASE m.type = "InstallSnapshot" ->
         /\ nextIndex' = [nextIndex EXCEPT ![i][p] = m.snapshot.lastIncludedIndex]
         /\ matchIndex' = [matchIndex EXCEPT ![i][p] = m.snapshot.lastIncludedIndex]
    [] m.type = "AppendEntries" /\ ~result.success ->
         /\ nextIndex' = [nextIndex EXCEPT ![i][p] = result.currentLogLength]
         /\ UNCHANGED matchIndex
    [] OTHER ->
         LET last == m.prevLogIndex + Len(m.entries) IN
         /\ nextIndex' = [nextIndex EXCEPT ![i][p] = last + 1]
         /\ matchIndex' = [matchIndex EXCEPT ![i][p] = last]

\* replicateOnce after its await: the answer is to the request m, whatever has
\* become of the node since.
RecordProgress(i, p, m, result) ==
  CASE m.type = "InstallSnapshot" ->
         /\ nextIndex' = [nextIndex EXCEPT ![i][p] = m.snapshot.lastIncludedIndex + 1]
         /\ matchIndex' = [matchIndex EXCEPT ![i][p] = m.snapshot.lastIncludedIndex]
    [] m.type = "AppendEntries" /\ ~result.success ->
         /\ nextIndex' = [nextIndex EXCEPT ![i][p] = Max({1, result.currentLogLength + 1})]
         /\ UNCHANGED matchIndex
    [] m.type = "AppendEntries" /\ result.success /\ m.entries = <<>> ->
         /\ matchIndex' = [matchIndex EXCEPT ![i][p] = Max({@, m.prevLogIndex})]
         /\ UNCHANGED nextIndex
    [] OTHER ->
         LET last == m.prevLogIndex + Len(m.entries) IN
         /\ nextIndex' = [nextIndex EXCEPT ![i][p] = last + 1]
         /\ matchIndex' = [matchIndex EXCEPT ![i][p] = last]

Replication == {"AppendEntries", "InstallSnapshot"}

replicateOnceReply(r) ==
  LET i == r.dst IN
  /\ r \in replies /\ r.type \in Replication
  /\ \/ /\ r.term > currentTerm[i]
        /\ becomeFollower(i, r.term)
        /\ UNCHANGED <<leaderId, leaderAddr, nextIndex, matchIndex>>
     \/ /\ r.term <= currentTerm[i]
        /\ RecordProgress(i, r.src, replicating[i][r.src], r.result)
        /\ UNCHANGED elecVars
  /\ Settle(i, r.src)
  /\ requests' = requests \cup Sent(i, [replicating[i] EXCEPT ![r.src] = Nil])
  /\ replies' = replies \ {r}
  /\ UNCHANGED <<reads, catchUp, budget, grants, elected, submitted, served>>

\* Mutant: a call that fails never settles for those who await it.
replicateOnceFails_Unsettled(i, p) ==
  /\ replicating[i][p] /= Nil
  /\ replicating' = [replicating EXCEPT ![i][p] = Nil]
  /\ CallFails(requests \cap {replicating[i][p]}, i, p, Replication, {})
  /\ UNCHANGED <<elecVars, store, nextIndex, matchIndex, rounds, writes, reads,
                 catchUp, history>>

replicateOnceFails(i, p) ==
  /\ replicating[i][p] /= Nil
  /\ UNCHANGED <<elecVars, nextIndex, matchIndex>>
  /\ Settle(i, p)
  /\ CallFails(requests \cap {replicating[i][p]}, i, p, Replication,
               Sent(i, [replicating[i] EXCEPT ![p] = Nil]))
  /\ UNCHANGED <<reads, catchUp, grants, elected, submitted, served>>

-----------------------------------------------------------------------------
(* Reads (ReadIndex).                                                      *)

\* readBoardState calls confirmLeadership, which asks every peer.  superseded
\* and acked record, for the properties, what was true when the read began.
readBoardState(i) ==
  /\ state[i] = "Leader" /\ reads[i] = Nil
  /\ Spend("read")
  /\ reads' = [reads EXCEPT ![i] =
       [term |-> currentTerm[i], waits |-> Peers(i), acks |-> {}, terms |-> {},
        superseded |-> \E e \in elected : e[1] > currentTerm[i], acked |-> acked]]
  /\ requests' = requests \cup
       {[type |-> "Heartbeat", src |-> i, dst |-> p, term |-> currentTerm[i],
         leaderCommit |-> store[i].commitIndex, late |-> FALSE] : p \in Peers(i)}
  /\ UNCHANGED <<elecVars, store, leaderVars, catchUp, replies, history>>

handleHeartbeat(m) ==
  LET i == m.dst IN
  /\ Received(m, "Heartbeat")
  /\ \/ m.term < currentTerm[i] /\ UNCHANGED <<elecVars, store>>
     \/ /\ m.term >= currentTerm[i]
        /\ FollowLeader(m)
        /\ store' = [store EXCEPT ![i] = FollowCommit(@, m.leaderCommit)]
  /\ Respond(m, [success |-> m.term >= currentTerm[i]])
  /\ UNCHANGED <<leaderVars, reads, catchUp, budget, history>>

\* Mutant: the read is served without counting the acks.
ReadSettled_NoQuorum(i, d) ==
  \/ /\ d.waits /= {}
     /\ reads' = [reads EXCEPT ![i] = d]
     /\ UNCHANGED <<elecVars, served>>
  \/ /\ d.waits = {}
     /\ reads' = [reads EXCEPT ![i] = Nil]
     /\ served' = served \cup {[term |-> d.term, superseded |-> d.superseded,
                                acked |-> d.acked, strokes |-> store[i].boardEvents]}
     /\ UNCHANGED elecVars

\* confirmLeadership after its allSettled, with d what the peers answered: the
\* first answer of a newer term steps down, otherwise a majority of acks, in
\* the term the read began in, lets the board be served.
ReadSettled(i, d) ==
  LET newer == {t \in d.terms : t > currentTerm[i]}
      confirmed == /\ state[i] = "Leader" /\ currentTerm[i] = d.term
                   /\ 1 + Cardinality(d.acks) >= majority
  IN
  \/ /\ d.waits /= {}
     /\ reads' = [reads EXCEPT ![i] = d]
     /\ UNCHANGED <<elecVars, served>>
  \/ /\ d.waits = {} /\ newer /= {}
     /\ \E t \in newer : becomeFollower(i, t)
     /\ reads' = [reads EXCEPT ![i] = Nil]
     /\ UNCHANGED <<leaderId, leaderAddr, served>>
  \/ /\ d.waits = {} /\ newer = {}
     /\ reads' = [reads EXCEPT ![i] = Nil]
     /\ served' = IF confirmed
                  THEN served \cup {[term |-> d.term, superseded |-> d.superseded,
                                     acked |-> d.acked, strokes |-> store[i].boardEvents]}
                  ELSE served
     /\ UNCHANGED elecVars

heartbeatReply(r) ==
  LET d == reads[r.dst] IN
  /\ Answer(r, "Heartbeat")
  /\ ReadSettled(r.dst,
       [d EXCEPT !.waits = @ \ {r.src}, !.terms = @ \cup {r.term},
                 !.acks = IF r.result.success THEN @ \cup {r.src} ELSE @])
  /\ replies' = replies \ {r}
  /\ UNCHANGED <<store, leaderVars, catchUp, requests, budget,
                 grants, elected, submitted, acked>>

heartbeatFails(i, p) ==
  /\ reads[i] /= Nil
  /\ p \in reads[i].waits
  /\ ReadSettled(i, [reads[i] EXCEPT !.waits = @ \ {p}])
  /\ CallFails({m \in requests : m.type = "Heartbeat" /\ m.src = i /\ m.dst = p /\ ~m.late},
               i, p, {"Heartbeat"}, {})
  /\ UNCHANGED <<store, leaderVars, catchUp, grants, elected, submitted, acked>>

-----------------------------------------------------------------------------
(* Catch-up: once after each start, a follower pulls committed entries.    *)

CatchUpDue == [status |-> "due", target |-> Nil, rest |-> {}]
CatchUpDone == [status |-> "done", target |-> Nil, rest |-> {}]
Asking(target, rest) == [status |-> "asking", target |-> target, rest |-> rest]

SyncLogArgs(i, target) ==
  [type |-> "SyncLog", src |-> i, dst |-> target, term |-> currentTerm[i],
   fromIndex |-> getLastIndex(store[i].log) + 1, late |-> FALSE]

requestCatchUp(i) ==
  LET targets == IF leaderAddr[i] /= Nil THEN {leaderAddr[i]} ELSE Peers(i) IN
  /\ catchUp[i].status = "due"
  /\ Spend("catchUp")
  /\ \/ /\ state[i] = "Follower"
        /\ \E t \in targets :
             /\ catchUp' = [catchUp EXCEPT ![i] = Asking(t, targets \ {t})]
             /\ requests' = requests \cup {SyncLogArgs(i, t)}
     \/ /\ state[i] /= "Follower"
        /\ catchUp' = [catchUp EXCEPT ![i] = CatchUpDone]
        /\ UNCHANGED requests
  /\ UNCHANGED <<elecVars, store, leaderVars, reads, replies, history>>

\* Any replica answers, leader or not.
SyncLogResult(s, fromIndex) ==
  LET behind == fromIndex <= s.log.lastIncludedIndex IN
  [commitIndex |-> s.commitIndex,
   snapshot    |-> IF behind THEN loadSnapshot(s) ELSE Nil,
   entries     |-> IF behind THEN <<>>
                   ELSE EntriesUpTo(getEntriesFrom(s.log, fromIndex), s.commitIndex)]

handleSyncLog(m) ==
  LET i == m.dst IN
  /\ Received(m, "SyncLog")
  /\ \/ /\ m.term > currentTerm[i]
        /\ becomeFollower(i, m.term)
        /\ UNCHANGED <<leaderId, leaderAddr>>
     \/ /\ m.term <= currentTerm[i]
        /\ UNCHANGED elecVars
  /\ Respond(m, SyncLogResult(store[i], m.fromIndex))
  /\ UNCHANGED <<store, leaderVars, reads, catchUp, budget, history>>

\* Mutant: the snapshot is installed even when it is older than the board.
Synced_Stale(s, result) ==
  LET base == IF result.snapshot /= Nil THEN applySnapshot(s, result.snapshot) ELSE s
  IN  FollowCommit([base EXCEPT !.log = MergeEntries(@, base.commitIndex, result.entries)],
                   result.commitIndex)

\* What requestCatchUp does to the store with an answer: snapshot, entries
\* (those that conflict with committed ones are skipped), commit index.
Synced(s, result) ==
  LET behind == /\ result.snapshot /= Nil
                /\ result.snapshot.lastIncludedIndex > s.commitIndex
      base == IF behind THEN applySnapshot(s, result.snapshot) ELSE s
  IN  FollowCommit([base EXCEPT !.log = MergeEntries(@, base.commitIndex, result.entries)],
                   result.commitIndex)

syncLogReply(r) ==
  LET i == r.dst IN
  /\ Answer(r, "SyncLog")
  /\ \/ /\ r.term > currentTerm[i]
        /\ becomeFollower(i, r.term)
        /\ UNCHANGED <<leaderId, leaderAddr>>
     \/ /\ r.term <= currentTerm[i]
        /\ UNCHANGED elecVars
  /\ store' = [store EXCEPT ![i] = Synced(@, r.result)]
  /\ catchUp' = [catchUp EXCEPT ![i] = CatchUpDone]
  /\ replies' = replies \ {r}
  /\ UNCHANGED <<leaderVars, reads, requests, budget, history>>

\* The answer never comes: the next target is asked, if there is one.
syncLogFails(i) ==
  LET c == catchUp[i]
      asked == {m \in requests : m.type = "SyncLog" /\ m.src = i /\ ~m.late}
  IN
  /\ c.status = "asking"
  /\ \/ /\ c.rest = {}
        /\ catchUp' = [catchUp EXCEPT ![i] = CatchUpDone]
        /\ CallFails(asked, i, c.target, {"SyncLog"}, {})
     \/ \E t \in c.rest :
        /\ catchUp' = [catchUp EXCEPT ![i] = Asking(t, c.rest \ {t})]
        /\ CallFails(asked, i, c.target, {"SyncLog"}, {SyncLogArgs(i, t)})
  /\ UNCHANGED <<elecVars, store, leaderVars, reads, history>>

-----------------------------------------------------------------------------
\* A crash, and the start that follows it: the constructor restores what is on
\* disk, start() arms the timer, a catch-up is due.  Callers of the crashed
\* process get no answer; requests it sent may still be delivered.  A log that
\* is out of order (a leader's writes behind the gap a stale catch-up answer
\* left, renumbered by a later snapshot) could make the constructor drop entries
\* and leave commitIndex beyond the log: such a restart is out of the model.
Restart(i) ==
  /\ Spend("crash")
  /\ AllBehind(store[i].log)
  /\ state' = [state EXCEPT ![i] = "Follower"]
  /\ leaderId' = [leaderId EXCEPT ![i] = Nil]
  /\ leaderAddr' = [leaderAddr EXCEPT ![i] = Nil]
  /\ electionTimer' = [electionTimer EXCEPT ![i] = TRUE]
  /\ EndElection(i)
  /\ store' = [store EXCEPT ![i] = Recover(@)]
  /\ nextIndex' = [nextIndex EXCEPT ![i] = [p \in Node |-> 1]]
  /\ matchIndex' = [matchIndex EXCEPT ![i] = [p \in Node |-> 0]]
  /\ replicating' = [replicating EXCEPT ![i] = [p \in Node |-> Nil]]
  /\ rounds' = [rounds EXCEPT ![i] = {}]
  /\ writes' = [writes EXCEPT ![i] = {}]
  /\ reads' = [reads EXCEPT ![i] = Nil]
  /\ catchUp' = [catchUp EXCEPT ![i] = CatchUpDue]
  /\ requests' = {m \in requests : m.src /= i} \cup Late({m \in requests : m.src = i})
  /\ replies' = {r \in replies : r.dst /= i}
  /\ UNCHANGED <<currentTerm, votedFor, history>>

Init ==
  /\ currentTerm = [i \in Node |-> 0]
  /\ votedFor = [i \in Node |-> Nil]
  /\ state = [i \in Node |-> "Follower"]
  /\ leaderId = [i \in Node |-> Nil]
  /\ leaderAddr = [i \in Node |-> Nil]
  /\ electionTimer = [i \in Node |-> TRUE]
  /\ votesGranted = [i \in Node |-> {}]
  /\ votesPending = [i \in Node |-> {}]
  /\ store = [i \in Node |-> emptyStore]
  /\ nextIndex = [i \in Node |-> [p \in Node |-> 1]]
  /\ matchIndex = [i \in Node |-> [p \in Node |-> 0]]
  /\ replicating = [i \in Node |-> [p \in Node |-> Nil]]
  /\ rounds = [i \in Node |-> {}]
  /\ writes = [i \in Node |-> {}]
  /\ reads = [i \in Node |-> Nil]
  /\ catchUp = [i \in Node |-> CatchUpDue]
  /\ requests = {}
  /\ replies = {}
  /\ budget = [election |-> MaxElections, crash |-> MaxCrashes, late |-> MaxLate,
               read |-> MaxReads, catchUp |-> MaxCatchUps, round |-> MaxRounds]
  /\ grants = {} /\ elected = {} /\ submitted = {} /\ acked = {} /\ served = {}

Next ==
  \/ \E i \in Node : \/ runElection(i)
                     \/ sendHeartbeats(i)
                     \/ readBoardState(i)
                     \/ requestCatchUp(i)
                     \/ syncLogFails(i)
                     \/ Restart(i)
                     \/ \E v \in Stroke : handleClientWrite(i, v)
                     \/ \E p \in Peers(i) : \/ requestVoteFails(i, p)
                                            \/ replicateOnceFails(i, p)
                                            \/ heartbeatFails(i, p)
  \/ \E m \in requests : \/ handleRequestVote(m)
                         \/ handleAppendEntries(m)
                         \/ handleInstallSnapshot(m)
                         \/ handleHeartbeat(m)
                         \/ handleSyncLog(m)
  \/ \E r \in replies : \/ requestVoteReply(r)
                        \/ replicateOnceReply(r)
                        \/ heartbeatReply(r)
                        \/ syncLogReply(r)

Spec == Init /\ [][Next]_vars

-----------------------------------------------------------------------------
(* Types.                                                                  *)

SnapshotSet == [lastIncludedIndex : Nat, lastIncludedTerm : Nat, boards : Seq(Stroke)]

StoreSet == [log : LogOf(Stroke), commitIndex : Nat, boardEvents : Seq(Stroke),
             snapshotBoards : Seq(Stroke)]

RequestVoteSet ==
  [type : {"RequestVote"}, src : Node, dst : Node, term : Nat, lastLogIndex : Nat,
   lastLogTerm : Nat, late : BOOLEAN]
AppendEntriesSet ==
  [type : {"AppendEntries"}, src : Node, dst : Node, term : Nat, prevLogIndex : Nat,
   prevLogTerm : Nat, entries : Seq(EntryOf(Stroke)), leaderCommit : Nat, late : BOOLEAN]
InstallSnapshotSet ==
  [type : {"InstallSnapshot"}, src : Node, dst : Node, term : Nat,
   snapshot : SnapshotSet, late : BOOLEAN]
HeartbeatSet ==
  [type : {"Heartbeat"}, src : Node, dst : Node, term : Nat, leaderCommit : Nat,
   late : BOOLEAN]
SyncLogSet ==
  [type : {"SyncLog"}, src : Node, dst : Node, term : Nat, fromIndex : Nat,
   late : BOOLEAN]
RequestSet == RequestVoteSet \cup AppendEntriesSet \cup InstallSnapshotSet
                \cup HeartbeatSet \cup SyncLogSet

ReplyOf(type, results) ==
  [type : {type}, src : Node, dst : Node, askedIn : Nat, term : Nat, result : results]
ReplySet ==
  ReplyOf("RequestVote", [voteGranted : BOOLEAN])
    \cup ReplyOf("AppendEntries", [success : BOOLEAN, currentLogLength : Nat])
    \cup ReplyOf("InstallSnapshot", [success : BOOLEAN])
    \cup ReplyOf("Heartbeat", [success : BOOLEAN])
    \cup ReplyOf("SyncLog", [commitIndex : Nat, snapshot : SnapshotSet \cup {Nil},
                             entries : Seq(EntryOf(Stroke))])

AckSet == [entry : EntryOf(Stroke), ackedIn : Nat]
WriteSet == [entry : EntryOf(Stroke), attempt : 1..MaxRetries, waits : SUBSET Node]
ReadSet == [term : Nat, waits : SUBSET Node, acks : SUBSET Node, terms : SUBSET Nat,
            superseded : BOOLEAN, acked : SUBSET AckSet]
CatchUpSet == [status : {"due", "asking", "done"}, target : Node \cup {Nil},
               rest : SUBSET Node]
BudgetSet == [election : Nat, crash : Nat, late : Nat, read : Nat, catchUp : Nat,
              round : Nat]

ServedSet == [term : Nat, superseded : BOOLEAN, acked : SUBSET AckSet,
              strokes : Seq(Stroke)]

\* null is not a replica, nor any of the records it may stand in for.
ASSUME NilAssumption == Nil \notin Node \cup RequestSet \cup ReadSet \cup SnapshotSet

ElecTypeOK ==
  /\ currentTerm \in [Node -> Nat]
  /\ votedFor \in [Node -> Node \cup {Nil}]
  /\ state \in [Node -> {"Follower", "Candidate", "Leader"}]
  /\ leaderId \in [Node -> Node \cup {Nil}]
  /\ leaderAddr \in [Node -> Node \cup {Nil}]
  /\ electionTimer \in [Node -> BOOLEAN]
  /\ votesGranted \in [Node -> SUBSET Node]
  /\ votesPending \in [Node -> SUBSET Node]

StoreTypeOK == store \in [Node -> StoreSet]

LeaderTypeOK ==
  /\ nextIndex \in [Node -> [Node -> Nat \ {0}]]
  /\ matchIndex \in [Node -> [Node -> Nat]]
  /\ replicating \in [Node -> [Node -> AppendEntriesSet \cup InstallSnapshotSet \cup {Nil}]]
  /\ rounds \in [Node -> SUBSET SUBSET Node]
  /\ writes \in [Node -> SUBSET WriteSet]

TaskTypeOK ==
  /\ reads \in [Node -> ReadSet \cup {Nil}]
  /\ catchUp \in [Node -> CatchUpSet]
  /\ budget \in BudgetSet

NetTypeOK == requests \subseteq RequestSet /\ replies \subseteq ReplySet

HistoryTypeOK ==
  /\ grants \subseteq Node \X Nat \X Node
  /\ elected \subseteq Nat \X Node
  /\ submitted \subseteq Stroke
  /\ acked \subseteq AckSet
  /\ served \subseteq ServedSet

\* Every variable holds a value of the type the TypeScript declarations give it;
\* in particular no index or term is ever negative or undefined, and a nextIndex
\* is at least 1.
TypeOK == /\ ElecTypeOK /\ StoreTypeOK /\ LeaderTypeOK /\ TaskTypeOK
          /\ NetTypeOK /\ HistoryTypeOK

-----------------------------------------------------------------------------
(* Elections.                                                              *)

\* At most one replica is ever elected in a term, whatever crashes, delays and
\* losses, and although becomeFollower forgets the vote of the current term.
ElectionSafety ==
  \A e, f \in elected : e[1] = f[1] => e = f

\* A replica's vote for ANOTHER replica is never followed by a vote for a third
\* one in the same term: persistState keeps it over a crash, and the handlers
\* that reset votedFor reset only a candidate's vote for itself.
PeerVoteKept ==
  \A g, h \in grants :
    g[1] = h[1] /\ g[2] = h[2] /\ g[3] /= g[1] /\ h[3] /= h[1] => g = h

\* A replica that does not lead has its election timer armed or a vote call
\* that will settle: no interleaving of answers, timeouts and handlers leaves a
\* replica that will never stand again.
NeverStuck ==
  \A i \in Node : state[i] /= "Leader" => electionTimer[i] \/ votesPending[i] /= {}

\* A replica's term never goes back, over restarts too, and a vote once given is
\* taken back only by a step that also moves the term or leaves candidacy.
TermsAndVotesAdvance ==
  [][\A i \in Node :
       /\ currentTerm'[i] >= currentTerm[i]
       /\ votedFor'[i] /= votedFor[i] /\ votedFor[i] /= Nil
            => currentTerm'[i] > currentTerm[i] \/ state[i] = "Candidate"]_vars

-----------------------------------------------------------------------------
(* The replicated log.                                                     *)

\* All the strokes a replica holds: those applied, then those still to commit.
AllStrokes(i) ==
  LET s == store[i] IN
  s.boardEvents \o StrokesOf(s.log, s.commitIndex + 1, getLastIndex(s.log))

\* The boards that two replicas show never contradict each other: the strokes
\* applied on one are a prefix of those applied on the other.
BoardsAgree ==
  \A i, j \in Node : \/ IsPrefix(store[i].boardEvents, store[j].boardEvents)
                     \/ IsPrefix(store[j].boardEvents, store[i].boardEvents)

\* Two logs that hold an entry of the same term at the same index agree on it and
\* on everything before it, over truncation, compaction and snapshots.
LogMatching ==
  \A i, j \in Node : \A n \in 1..getLastIndex(store[i].log) :
    /\ hasEntry(store[i].log, n) /\ hasEntry(store[j].log, n)
    /\ getEntry(store[i].log, n).term = getEntry(store[j].log, n).term
    => SubSeq(AllStrokes(i), 1, n) = SubSeq(AllStrokes(j), 1, n)

\* As long as no replica has been elected twice, an entry whose writer was told
\* "success" is held, at its index, by every leader of the term it was
\* acknowledged in or of a later one.
AckedWritesKept ==
  (\A e, f \in elected : e[2] = f[2] => e = f) =>
    \A i \in Node, a \in acked :
      state[i] = "Leader" /\ currentTerm[i] >= a.ackedIn =>
        /\ a.entry.index <= Len(AllStrokes(i))
        /\ AllStrokes(i)[a.entry.index] = a.entry.stroke

\* The README: "A stroke becomes visible only after it is committed by a
\* majority"; the gateway shows a stroke to the board once handleClientWrite
\* has answered "success".
VisibleOnMajority ==
  \A a \in acked :
    Cardinality({i \in Node : \E k \in 1..Len(AllStrokes(i)) :
                   AllStrokes(i)[k] = a.entry.stroke}) >= majority

\* What a replica has applied it never takes back: a step, a snapshot or a
\* restart only adds to the board.
BoardsGrow ==
  [][\A i \in Node : IsPrefix(store[i].boardEvents, store'[i].boardEvents)]_vars

\* The commit index lies between the snapshot boundary and the end of the log
\* (persistence.ts: "commitIndex is always <= log length"), and there is one
\* applied stroke per committed index.
CommitWithinLog ==
  \A i \in Node : LET s == store[i] IN
    /\ s.log.lastIncludedIndex <= s.commitIndex
    /\ s.commitIndex <= getLastIndex(s.log)
    /\ Len(s.boardEvents) = s.commitIndex

\* A crash at any time loses nothing of the board: the constructor rebuilds
\* exactly the strokes that were applied, from the snapshot and the log, as long
\* as every entry of the log carries an index behind the snapshot's.
RestartRebuildsBoard ==
  \A i \in Node : AllBehind(store[i].log) => Recover(store[i]) = store[i]

\* driveReplication keeps "one replication RPC in flight per peer": the request
\* or the answer of a live call belongs to the call its sender waits for, and
\* there is never a second one for the same pair of replicas.
OneCallPerPeer ==
  /\ \A m \in requests :
       m.type \in Replication /\ ~m.late => replicating[m.src][m.dst] = m
  /\ \A r \in replies : r.type \in Replication =>
       /\ replicating[r.dst][r.src] /= Nil
       /\ replicating[r.dst][r.src].type = r.type
       /\ \A m \in requests : m.type \in Replication /\ m.src = r.dst /\ m.dst = r.src
                              => m.late
       /\ \A q \in replies : q.type \in Replication /\ q.src = r.src /\ q.dst = r.dst
                             => q = r

\* No call waits for an answer that cannot come: every sendHeartbeats round and
\* every write waits only for peers that have a call in flight.
NoOrphanWait ==
  \A i \in Node : \A p \in Node :
    p \in UNION (rounds[i] \cup {w.waits : w \in writes[i]}) => replicating[i][p] /= Nil

-----------------------------------------------------------------------------
(* Reads.                                                                  *)

\* ReadIndex: a leader that answers a read had not been superseded when the read
\* began, that is, no later term had a leader by then.
ReadNotSuperseded ==
  \A s \in served : ~s.superseded

\* A read answered by a leader that has acknowledged a write of its own term
\* shows every write acknowledged before the read began.
ReadsSeeAcked ==
  \A s \in served :
    (\E a \in s.acked : a.entry.term = s.term) =>
      \A a \in s.acked : /\ a.entry.index <= Len(s.strokes)
                          /\ s.strokes[a.entry.index] = a.entry.stroke

-----------------------------------------------------------------------------
(* The inductive invariant behind the proofs in RaftTypeProofs and         *)
(* RaftElectionProofs.                                                     *)

\* A store whose boundaries are in order and whose boards have one event per
\* index; a snapshot in a message is of that kind too.
StoreOK(s) ==
  /\ s \in StoreSet
  /\ s.log.lastIncludedIndex <= s.commitIndex
  /\ s.commitIndex <= getLastIndex(s.log)
  /\ Len(s.boardEvents) = s.commitIndex
  /\ Len(s.snapshotBoards) = s.log.lastIncludedIndex

SnapshotOK(sn) == sn \in SnapshotSet /\ Len(sn.boards) = sn.lastIncludedIndex

SnapshotsOK ==
  /\ \A m \in requests : m.type = "InstallSnapshot" => SnapshotOK(m.snapshot)
  /\ \A r \in replies : r.type = "SyncLog" =>
       r.result.snapshot = Nil \/ SnapshotOK(r.result.snapshot)

StoreInv == (\A i \in Node : StoreOK(store[i])) /\ SnapshotsOK

\* The heartbeats of a read: the same discipline as OneCallPerPeer.
HeartbeatCalls ==
  /\ \A m \in requests : m.type = "Heartbeat" /\ ~m.late =>
       /\ reads[m.src] /= Nil
       /\ m.dst \in reads[m.src].waits
       /\ \A q \in requests : /\ q.type = "Heartbeat" /\ ~q.late
                              /\ q.src = m.src /\ q.dst = m.dst
                              => q = m
  /\ \A r \in replies : r.type = "Heartbeat" =>
       /\ reads[r.dst] /= Nil
       /\ r.src \in reads[r.dst].waits
       /\ \A m \in requests : m.type = "Heartbeat" /\ m.src = r.dst /\ m.dst = r.src
                              => m.late
       /\ \A q \in replies : q.type = "Heartbeat" /\ q.src = r.src /\ q.dst = r.dst
                             => q = r

TypeInv == TypeOK /\ StoreInv /\ OneCallPerPeer /\ HeartbeatCalls

\* A vote that is counted was given.
CountedVotes ==
  /\ \A i \in Node : \A v \in votesGranted[i] : <<v, currentTerm[i], i>> \in grants
  /\ \A r \in replies : r.type = "RequestVote" /\ r.result.voteGranted
                         => <<r.src, r.askedIn, r.dst>> \in grants

\* Who stands or leads has voted for itself in its term, and for nobody else.
SelfVotes ==
  \A i \in Node : state[i] /= "Follower" =>
    /\ votedFor[i] = i
    /\ <<i, currentTerm[i], i>> \in grants
    /\ \A d \in Node : <<i, currentTerm[i], d>> \in grants => d = i

\* A vote for another replica binds the voter for as long as it is in that term.
PeerVotes ==
  \A g \in grants :
    /\ g[2] <= currentTerm[g[1]]
    /\ g[2] = currentTerm[g[1]] /\ g[3] /= g[1]
         => votedFor[g[1]] = g[3] /\ state[g[1]] = "Follower"

\* A replica elected in a term got its votes from a majority, and keeps its vote
\* for itself as long as it is in that term.
Mandate(term, leader) ==
  /\ \E Q \in SUBSET Node : /\ Cardinality(Q) >= majority
                            /\ \A v \in Q : <<v, term, leader>> \in grants
  /\ <<leader, term, leader>> \in grants
  /\ \A d \in Node : <<leader, term, d>> \in grants => d = leader
  /\ currentTerm[leader] = term => votedFor[leader] = leader

\* Only who was elected in a term leads in it and sends a leader's requests.
Mandates ==
  /\ \A e \in elected : Mandate(e[1], e[2])
  /\ \A i \in Node : state[i] = "Leader" => <<currentTerm[i], i>> \in elected
  /\ \A m \in requests : m.type \in Replication \cup {"Heartbeat"}
                          => <<m.term, m.src>> \in elected /\ m.src /= m.dst

ElectionInv == /\ CountedVotes /\ SelfVotes /\ PeerVotes /\ PeerVoteKept
               /\ Mandates /\ ElectionSafety

=============================================================================
