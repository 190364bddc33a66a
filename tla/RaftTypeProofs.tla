--------------------------- MODULE RaftTypeProofs ---------------------------
(***************************************************************************)
(* The type invariant of RaftNode.  It is inductive only together with the *)
(* order of the store's boundaries (StoreInv) and the discipline of calls  *)
(* in flight (OneCallPerPeer, HeartbeatCalls): an answer is read against   *)
(* the call that waits for it, which must be there and of the same kind.   *)
(***************************************************************************)
EXTENDS RaftNode, RaftLogProofs, FiniteSetTheorems

-----------------------------------------------------------------------------
(* What the operations on a replica's store return: each of them takes a   *)
(* store whose boundaries are in order, with one board event per committed *)
(* index, to another one of that kind (StoreOK).                           *)

LEMMA StoreFields ==
  ASSUME NEW s, StoreOK(s)
  PROVE  /\ s \in StoreSet
         /\ s.log \in LogOf(Stroke)
         /\ s.commitIndex \in Nat
         /\ s.boardEvents \in Seq(Stroke)
         /\ s.snapshotBoards \in Seq(Stroke)
         /\ s.log.lastIncludedIndex \in Nat
         /\ s.log.lastIncludedTerm \in Nat
         /\ getLastIndex(s.log) \in Nat
         /\ getLastTerm(s.log) \in Nat
         /\ getLength(s.log) \in Nat
         /\ s.log.lastIncludedIndex <= s.commitIndex
         /\ s.commitIndex <= getLastIndex(s.log)
         /\ Len(s.boardEvents) = s.commitIndex
         /\ Len(s.snapshotBoards) = s.log.lastIncludedIndex
<1>1. s \in StoreSet
  BY DEF StoreOK
<1>2. s.log \in LogOf(Stroke)
  BY <1>1 DEF StoreSet
<1> QED
  BY <1>1, <1>2, LogIndexType DEF StoreOK, StoreSet

\* The four fields decide.
LEMMA StoreFromFields ==
  ASSUME NEW l \in LogOf(Stroke), NEW c \in Nat,
         NEW b \in Seq(Stroke), NEW sb \in Seq(Stroke),
         l.lastIncludedIndex <= c, c <= getLastIndex(l),
         Len(b) = c, Len(sb) = l.lastIncludedIndex
  PROVE  StoreOK([log |-> l, commitIndex |-> c, boardEvents |-> b, snapshotBoards |-> sb])
  BY DEF StoreOK, StoreSet

LEMMA StrokesType ==
  ASSUME NEW l \in LogOf(Stroke), NEW from \in Nat, NEW to \in Nat,
         l.lastIncludedIndex < from, to <= getLastIndex(l), from <= to + 1
  PROVE  /\ StrokesOf(l, from, to) \in Seq(Stroke)
         /\ Len(StrokesOf(l, from, to)) = (to - from) + 1
<1> DEFINE n == (to - from) + 1
           e(k) == getEntry(l, (from + k) - 1).stroke
<1>1. n \in Nat
  OBVIOUS
<1>2. \A k \in 1..n : e(k) \in Stroke
  <2> SUFFICES ASSUME NEW k \in 1..n PROVE e(k) \in Stroke
    OBVIOUS
  <2> DEFINE m == (from + k) - 1
  <2>1. m \in Nat /\ hasEntry(l, m)
    BY LogIndexType DEF hasEntry
  <2> HIDE DEF m
  <2>2. getEntry(l, m) \in EntryOf(Stroke)
    BY <2>1, EntryType
  <2> QED
    BY <2>2 DEF m, EntryOf
<1>3. StrokesOf(l, from, to) = [k \in 1..n |-> e(k)]
  BY DEF StrokesOf
<1> HIDE DEF n, e
<1>4. [k \in 1..n |-> e(k)] \in Seq(Stroke) /\ Len([k \in 1..n |-> e(k)]) = n
  BY <1>1, <1>2
<1> QED
  BY <1>3, <1>4 DEF n

LEMMA MaybeSnapshotOK ==
  ASSUME NEW s, StoreOK(s)
  PROVE  StoreOK(maybeSnapshot(s)) /\ maybeSnapshot(s).commitIndex = s.commitIndex
<1>1. CASE maybeSnapshot(s) = s
  BY <1>1
<1>2. CASE maybeSnapshot(s) = takeSnapshot(s)
  <2> DEFINE t == getTermAt(s.log, s.commitIndex)
             l == compact(s.log, s.commitIndex, t)
  <2>1. t \in Nat
    BY StoreFields, TermAtType
  <2> HIDE DEF t
  <2>2. l \in LogOf(Stroke) /\ l.lastIncludedIndex = s.commitIndex
        /\ getLastIndex(l) = getLastIndex(s.log)
    BY <2>1, StoreFields, CompactType
  <2>3. takeSnapshot(s) = [s EXCEPT !.snapshotBoards = s.boardEvents, !.log = l]
    BY DEF takeSnapshot, t
  <2> HIDE DEF l
  <2>4. l.lastIncludedIndex <= s.commitIndex
    BY <2>2, StoreFields
  <2>5. takeSnapshot(s) = [log |-> l, commitIndex |-> s.commitIndex,
                           boardEvents |-> s.boardEvents, snapshotBoards |-> s.boardEvents]
    BY <2>3, StoreFields, ZenonT(60) DEF StoreSet
  <2>6. StoreOK([log |-> l, commitIndex |-> s.commitIndex,
                 boardEvents |-> s.boardEvents, snapshotBoards |-> s.boardEvents])
    BY <2>2, <2>4, StoreFields, StoreFromFields
  <2> QED
    BY <1>2, <2>5, <2>6
<1> QED
  BY <1>1, <1>2 DEF maybeSnapshot

LEMMA CommitFields ==
  ASSUME NEW s \in StoreSet, NEW c \in Nat, NEW b \in Seq(Stroke)
  PROVE  [s EXCEPT !.commitIndex = c, !.boardEvents = b]
           = [log |-> s.log, commitIndex |-> c, boardEvents |-> b,
              snapshotBoards |-> s.snapshotBoards]
<1> DEFINE t == [s EXCEPT !.commitIndex = c]
<1>1. t \in StoreSet /\ t.log = s.log /\ t.commitIndex = c
      /\ t.snapshotBoards = s.snapshotBoards
  BY DEF StoreSet
<1>2. [s EXCEPT !.commitIndex = c, !.boardEvents = b] = [t EXCEPT !.boardEvents = b]
  OBVIOUS
<1> HIDE DEF t
<1>3. [t EXCEPT !.boardEvents = b]
        = [log |-> t.log, commitIndex |-> t.commitIndex, boardEvents |-> b,
           snapshotBoards |-> t.snapshotBoards]
  BY <1>1 DEF StoreSet
<1> QED
  BY <1>1, <1>2, <1>3

LEMMA CommitToOK ==
  ASSUME NEW s, StoreOK(s), NEW c \in Nat, s.commitIndex <= c, c <= getLastIndex(s.log)
  PROVE  StoreOK(CommitTo(s, c))
<1> DEFINE new == StrokesOf(s.log, s.commitIndex + 1, c)
           t == [log |-> s.log, commitIndex |-> c, boardEvents |-> s.boardEvents \o new,
                 snapshotBoards |-> s.snapshotBoards]
<1>1. new \in Seq(Stroke) /\ Len(new) = c - s.commitIndex
  <2>1. s.commitIndex + 1 \in Nat /\ s.log.lastIncludedIndex < s.commitIndex + 1
        /\ s.commitIndex + 1 <= c + 1
    BY StoreFields
  <2>2. new \in Seq(Stroke) /\ Len(new) = (c - (s.commitIndex + 1)) + 1
    BY <2>1, StoreFields, StrokesType
  <2> QED
    BY <2>2, StoreFields
<1> HIDE DEF new
<1>2. s.boardEvents \o new \in Seq(Stroke) /\ Len(s.boardEvents \o new) = c
  <2>1. s.boardEvents \in Seq(Stroke) /\ Len(s.boardEvents) = s.commitIndex
        /\ s.commitIndex \in Nat
    BY StoreFields
  <2>2. s.boardEvents \o new \in Seq(Stroke)
        /\ Len(s.boardEvents \o new) = Len(s.boardEvents) + Len(new)
    BY <1>1, <2>1, ConcatProperties
  <2> QED
    BY <1>1, <2>1, <2>2
<1>3. StoreOK(t)
  <2> DEFINE b == s.boardEvents \o new
  <2>1. b \in Seq(Stroke) /\ Len(b) = c
    BY <1>2
  <2> HIDE DEF b
  <2>2. StoreOK([log |-> s.log, commitIndex |-> c, boardEvents |-> b,
                 snapshotBoards |-> s.snapshotBoards])
    BY <2>1, StoreFields, StoreFromFields
  <2> QED
    BY <2>2 DEF b
<1>4. CommitTo(s, c) = maybeSnapshot(t)
  <2> DEFINE b == s.boardEvents \o new
  <2>1. CommitTo(s, c) = maybeSnapshot([s EXCEPT !.commitIndex = c, !.boardEvents = b])
    BY DEF CommitTo, new
  <2>2. s \in StoreSet /\ b \in Seq(Stroke)
    BY <1>2, StoreFields
  <2> HIDE DEF b
  <2>3. [s EXCEPT !.commitIndex = c, !.boardEvents = b]
          = [log |-> s.log, commitIndex |-> c, boardEvents |-> b,
             snapshotBoards |-> s.snapshotBoards]
    BY <2>2, CommitFields
  <2> QED
    BY <2>1, <2>3 DEF b
<1> QED
  BY <1>3, <1>4, MaybeSnapshotOK

LEMMA FollowCommitOK ==
  ASSUME NEW s, StoreOK(s), NEW c \in Nat
  PROVE  StoreOK(FollowCommit(s, c))
<1>1. CASE ~(c > s.commitIndex)
  BY <1>1 DEF FollowCommit
<1>2. CASE c > s.commitIndex
  <2> DEFINE n == Min({c, getLastIndex(s.log)})
  <2>1. n \in Nat /\ s.commitIndex <= n /\ n <= getLastIndex(s.log)
    <3>1. c \in Nat /\ getLastIndex(s.log) \in Nat
      BY StoreFields
    <3>2. n \in Nat /\ n \in {c, getLastIndex(s.log)} /\ n <= getLastIndex(s.log)
      BY <3>1, MinOfTwo
    <3> HIDE DEF n
    <3> QED BY <1>2, <3>1, <3>2, StoreFields
  <2>2. FollowCommit(s, c) = CommitTo(s, n)
    BY <1>2 DEF FollowCommit
  <2> HIDE DEF n
  <2> QED
    BY <2>1, <2>2, CommitToOK
<1> QED
  BY <1>1, <1>2

LEMMA ApplySnapshotOK ==
  ASSUME NEW s, StoreOK(s), NEW sn, SnapshotOK(sn)
  PROVE  StoreOK(applySnapshot(s, sn))
<1> DEFINE l == installSnapshot(s.log, sn.lastIncludedIndex, sn.lastIncludedTerm)
<1>1. sn.lastIncludedIndex \in Nat /\ sn.lastIncludedTerm \in Nat
      /\ sn.boards \in Seq(Stroke) /\ Len(sn.boards) = sn.lastIncludedIndex
  BY DEF SnapshotOK, SnapshotSet
<1>2. l \in LogOf(Stroke) /\ l.lastIncludedIndex = sn.lastIncludedIndex
  <2>1. s.log \in LogOf(Stroke)
    BY StoreFields
  <2>2. \A n, t \in Nat : /\ installSnapshot(s.log, n, t) \in LogOf(Stroke)
                          /\ installSnapshot(s.log, n, t).lastIncludedIndex = n
    BY <2>1, InstallType
  <2> QED
    BY <1>1, <2>2
<1>3. applySnapshot(s, sn) = [log |-> l, commitIndex |-> sn.lastIncludedIndex,
                              boardEvents |-> sn.boards, snapshotBoards |-> sn.boards]
  BY DEF applySnapshot
<1> HIDE DEF l
<1>4. l.lastIncludedIndex <= sn.lastIncludedIndex /\ sn.lastIncludedIndex <= getLastIndex(l)
  BY <1>1, <1>2, LogIndexType
<1>5. StoreOK([log |-> l, commitIndex |-> sn.lastIncludedIndex,
               boardEvents |-> sn.boards, snapshotBoards |-> sn.boards])
  BY <1>1, <1>2, <1>4, StoreFromFields
<1> QED
  BY <1>3, <1>5

LEMMA LoadSnapshotOK ==
  ASSUME NEW s, StoreOK(s)
  PROVE  SnapshotOK(loadSnapshot(s))
  BY StoreFields DEF loadSnapshot, SnapshotOK, SnapshotSet

\* Another log with the same boundary that still reaches the commit index.
LEMMA WithLogOK ==
  ASSUME NEW s, StoreOK(s), NEW l \in LogOf(Stroke),
         l.lastIncludedIndex = s.log.lastIncludedIndex, s.commitIndex <= getLastIndex(l)
  PROVE  StoreOK([s EXCEPT !.log = l])
<1>1. [s EXCEPT !.log = l] = [log |-> l, commitIndex |-> s.commitIndex,
                              boardEvents |-> s.boardEvents,
                              snapshotBoards |-> s.snapshotBoards]
  BY StoreFields DEF StoreSet
<1>2. StoreOK([log |-> l, commitIndex |-> s.commitIndex, boardEvents |-> s.boardEvents,
               snapshotBoards |-> s.snapshotBoards])
  BY StoreFields, StoreFromFields
<1> QED
  BY <1>1, <1>2

LEMMA MergeOK ==
  ASSUME NEW s, StoreOK(s), NEW es \in Seq(EntryOf(Stroke))
  PROVE  StoreOK([s EXCEPT !.log = MergeEntries(s.log, s.commitIndex, es)])
<1> DEFINE l == MergeEntries(s.log, s.commitIndex, es)
<1>1. l \in LogOf(Stroke) /\ l.lastIncludedIndex = s.log.lastIncludedIndex
      /\ s.commitIndex <= getLastIndex(l)
  BY StoreFields, MergeType
<1> HIDE DEF l
<1>2. StoreOK([s EXCEPT !.log = l])
  BY <1>1, WithLogOK
<1> QED
  BY <1>2 DEF l

LEMMA UpdateCommitOK ==
  ASSUME NEW i, NEW s, StoreOK(s), NEW match
  PROVE  StoreOK(updateCommitIndex(i, s, match))
<1> DEFINE replicated(n) == 1 + Cardinality({p \in Peers(i) : match[p] >= n})
           C == {n \in (s.commitIndex + 1)..getLastIndex(s.log) :
                   /\ getEntry(s.log, n).term = currentTerm[i]
                   /\ replicated(n) >= majority}
<1>1. updateCommitIndex(i, s, match) = IF C = {} THEN s ELSE CommitTo(s, Max(C))
  BY DEF updateCommitIndex
<1>2. C /= {} => Max(C) \in (s.commitIndex + 1)..getLastIndex(s.log)
  <2>1. C \subseteq (s.commitIndex + 1)..getLastIndex(s.log)
    OBVIOUS
  <2> HIDE DEF C
  <2>2. C \subseteq 0..getLastIndex(s.log) /\ getLastIndex(s.log) \in Nat
    BY <2>1, StoreFields
  <2> QED
    BY <2>1, <2>2, MaxInSet
<1> HIDE DEF C
<1>3. C /= {} => Max(C) \in Nat /\ s.commitIndex <= Max(C) /\ Max(C) <= getLastIndex(s.log)
  BY <1>2, StoreFields
<1> QED
  BY <1>1, <1>3, CommitToOK

LEMMA RecoverOK ==
  ASSUME NEW s, StoreOK(s), AllBehind(s.log)
  PROVE  StoreOK(Recover(s))
<1> DEFINE new == StrokesOf(s.log, s.log.lastIncludedIndex + 1, s.commitIndex)
           b == s.snapshotBoards \o new
<1>1. new \in Seq(Stroke) /\ Len(new) = s.commitIndex - s.log.lastIncludedIndex
  <2>1. s.log.lastIncludedIndex + 1 \in Nat
        /\ s.log.lastIncludedIndex < s.log.lastIncludedIndex + 1
        /\ s.log.lastIncludedIndex + 1 <= s.commitIndex + 1
    BY StoreFields
  <2>2. new \in Seq(Stroke) /\ Len(new) = (s.commitIndex - (s.log.lastIncludedIndex + 1)) + 1
    BY <2>1, StoreFields, StrokesType
  <2> QED
    BY <2>2, StoreFields
<1>2. b \in Seq(Stroke) /\ Len(b) = s.commitIndex
  <2>1. s.snapshotBoards \in Seq(Stroke) /\ Len(s.snapshotBoards) = s.log.lastIncludedIndex
        /\ s.log.lastIncludedIndex \in Nat /\ s.commitIndex \in Nat
    BY StoreFields
  <2> HIDE DEF new
  <2>2. b \in Seq(Stroke) /\ Len(b) = Len(s.snapshotBoards) + Len(new)
    BY <1>1, <2>1, ConcatProperties
  <2> HIDE DEF b
  <2> QED
    BY <1>1, <2>1, <2>2
<1>3. Recover(s) = maybeSnapshot([s EXCEPT !.boardEvents = b])
  <2>1. s.log \in LogOf(Stroke)
    BY StoreFields
  <2>2. reloaded(s.log) = s.log
    BY <2>1, ReloadedSame DEF AllBehind
  <2>3. [s EXCEPT !.log = s.log, !.boardEvents = b] = [s EXCEPT !.boardEvents = b]
    BY StoreFields DEF StoreSet
  <2> QED
    BY <2>2, <2>3 DEF Recover
<1> HIDE DEF b
<1>4. [s EXCEPT !.boardEvents = b] = [log |-> s.log, commitIndex |-> s.commitIndex,
                                      boardEvents |-> b, snapshotBoards |-> s.snapshotBoards]
  BY StoreFields DEF StoreSet
<1>5. StoreOK([log |-> s.log, commitIndex |-> s.commitIndex, boardEvents |-> b,
               snapshotBoards |-> s.snapshotBoards])
  BY <1>2, StoreFields, StoreFromFields
<1> QED
  BY <1>3, <1>4, <1>5, MaybeSnapshotOK

LEMMA EmptyStoreOK == StoreOK(emptyStore)
<1>1. emptyLog \in LogOf(Stroke) /\ emptyLog.lastIncludedIndex = 0 /\ getLastIndex(emptyLog) = 0
  BY EmptySeq DEF emptyLog, LogOf, getLastIndex
<1>2. <<>> \in Seq(Stroke) /\ Len(<<>>) = 0
  BY EmptySeq
<1>3. emptyLog.lastIncludedIndex <= 0 /\ 0 <= getLastIndex(emptyLog) /\ 0 \in Nat
      /\ Len(<<>>) = emptyLog.lastIncludedIndex
  BY <1>1, <1>2
<1>4. StoreOK([log |-> emptyLog, commitIndex |-> 0, boardEvents |-> <<>>,
               snapshotBoards |-> <<>>])
  BY <1>1, <1>2, <1>3, StoreFromFields
<1> QED
  BY <1>4 DEF emptyStore

-----------------------------------------------------------------------------
(* Messages.                                                               *)

LEMMA RequestFields ==
  ASSUME NEW m \in RequestSet
  PROVE  /\ m.src \in Node /\ m.dst \in Node /\ m.term \in Nat /\ m.late \in BOOLEAN
         /\ m.type \in {"RequestVote", "AppendEntries", "InstallSnapshot", "Heartbeat",
                        "SyncLog"}
         /\ m.type = "RequestVote" => m \in RequestVoteSet
         /\ m.type = "AppendEntries" => m \in AppendEntriesSet
         /\ m.type = "InstallSnapshot" => m \in InstallSnapshotSet
         /\ m.type = "Heartbeat" => m \in HeartbeatSet
         /\ m.type = "SyncLog" => m \in SyncLogSet
         /\ m /= Nil
<1>1. CASE m \in RequestVoteSet
  BY <1>1, NilAssumption DEF RequestVoteSet
<1>2. CASE m \in AppendEntriesSet
  BY <1>2, NilAssumption DEF AppendEntriesSet
<1>3. CASE m \in InstallSnapshotSet
  BY <1>3, NilAssumption DEF InstallSnapshotSet
<1>4. CASE m \in HeartbeatSet
  BY <1>4, NilAssumption DEF HeartbeatSet
<1>5. CASE m \in SyncLogSet
  BY <1>5, NilAssumption DEF SyncLogSet
<1> QED
  BY <1>1, <1>2, <1>3, <1>4, <1>5 DEF RequestSet

\* Nobody waits for a late request any more; otherwise it is as it was.
LEMMA LateFields ==
  ASSUME NEW m \in RequestSet
  PROVE  LET l == [m EXCEPT !.late = TRUE] IN
         /\ l \in RequestSet
         /\ l.late /\ l.src = m.src /\ l.dst = m.dst /\ l.type = m.type /\ l.term = m.term
         /\ m.type = "InstallSnapshot" => l.snapshot = m.snapshot
<1> DEFINE l == [m EXCEPT !.late = TRUE]
<1>1. CASE m \in RequestVoteSet
  BY <1>1 DEF RequestVoteSet, RequestSet
<1>2. CASE m \in AppendEntriesSet
  BY <1>2 DEF AppendEntriesSet, RequestSet
<1>3. CASE m \in InstallSnapshotSet
  BY <1>3 DEF InstallSnapshotSet, RequestSet
<1>4. CASE m \in HeartbeatSet
  BY <1>4 DEF HeartbeatSet, RequestSet
<1>5. CASE m \in SyncLogSet
  BY <1>5 DEF SyncLogSet, RequestSet
<1> QED
  BY <1>1, <1>2, <1>3, <1>4, <1>5 DEF RequestSet

LEMMA ReplyFields ==
  ASSUME NEW r \in ReplySet
  PROVE  /\ r.src \in Node /\ r.dst \in Node /\ r.term \in Nat /\ r.askedIn \in Nat
         /\ r.type \in {"RequestVote", "AppendEntries", "InstallSnapshot", "Heartbeat",
                        "SyncLog"}
         /\ r.type = "RequestVote" => r.result.voteGranted \in BOOLEAN
         /\ r.type = "AppendEntries" => /\ r.result.success \in BOOLEAN
                                        /\ r.result.currentLogLength \in Nat
         /\ r.type = "Heartbeat" => r.result.success \in BOOLEAN
         /\ r.type = "SyncLog" => /\ r.result.commitIndex \in Nat
                                  /\ r.result.snapshot \in SnapshotSet \cup {Nil}
                                  /\ r.result.entries \in Seq(EntryOf(Stroke))
  BY DEF ReplySet, ReplyOf

-----------------------------------------------------------------------------
(* State transitions.                                                      *)

LEMMA BecomeFollowerType ==
  ASSUME ElecTypeOK, NEW i \in Node, NEW t \in Nat, becomeFollower(i, t),
         UNCHANGED <<leaderId, leaderAddr>>
  PROVE  ElecTypeOK'
  BY DEF ElecTypeOK, becomeFollower, EndElection

LEMMA FollowLeaderType ==
  ASSUME ElecTypeOK, NEW m, m.dst \in Node, m.src \in Node, m.term \in Nat, FollowLeader(m)
  PROVE  ElecTypeOK'
<1> DEFINE i == m.dst
<1>1. leaderId' \in [Node -> Node \cup {Nil}] /\ leaderAddr' \in [Node -> Node \cup {Nil}]
  BY DEF ElecTypeOK, FollowLeader
<1>2. CASE becomeFollower(i, m.term)
  BY <1>1, <1>2 DEF ElecTypeOK, becomeFollower, EndElection
<1>3. CASE /\ electionTimer' = [electionTimer EXCEPT ![i] = TRUE]
           /\ UNCHANGED <<state, currentTerm, votedFor, votesGranted, votesPending>>
  BY <1>1, <1>3 DEF ElecTypeOK
<1> QED
  BY <1>2, <1>3 DEF FollowLeader

LEMMA ElecUnchanged ==
  ASSUME ElecTypeOK, UNCHANGED elecVars
  PROVE  ElecTypeOK'
  BY DEF ElecTypeOK, elecVars

LEMMA LeaderUnchanged ==
  ASSUME LeaderTypeOK, UNCHANGED leaderVars
  PROVE  LeaderTypeOK'
  BY DEF LeaderTypeOK, leaderVars

LEMMA HistoryUnchanged ==
  ASSUME HistoryTypeOK, UNCHANGED history
  PROVE  HistoryTypeOK'
  BY DEF HistoryTypeOK, history

LEMMA SpendType ==
  ASSUME NEW what \in {"election", "crash", "late", "read", "catchUp", "round"},
         budget \in BudgetSet, Spend(what)
  PROVE  budget' \in BudgetSet
  BY DEF Spend, BudgetSet

-----------------------------------------------------------------------------
(* Calls in flight.                                                        *)

\* A step that sends no replication request and settles no replication call.
LEMMA CallsKept ==
  ASSUME OneCallPerPeer, UNCHANGED replicating,
         \A q \in requests' : q \in requests \/ q.late \/ q.type \notin Replication,
         \A a \in replies' : a \in replies \/ a.type \notin Replication
  PROVE  OneCallPerPeer'
  BY DEF OneCallPerPeer

LEMMA HeartbeatsKept ==
  ASSUME HeartbeatCalls, UNCHANGED reads,
         \A q \in requests' : q \in requests \/ q.late \/ q.type /= "Heartbeat",
         \A a \in replies' : a \in replies \/ a.type /= "Heartbeat"
  PROVE  HeartbeatCalls'
  BY DEF HeartbeatCalls

\* A step that answers m.
LEMMA RespondEffect ==
  ASSUME NEW m, NEW x, Respond(m, x)
  PROVE  LET r == [type |-> m.type, src |-> m.dst, dst |-> m.src, askedIn |-> m.term,
                   term |-> currentTerm'[m.dst], result |-> x] IN
         /\ requests' \subseteq requests \ {m}
         /\ replies' \subseteq replies \cup {r}
         /\ m.late => replies' \subseteq replies
  BY DEF Respond, Awaited

LEMMA RespondCalls ==
  ASSUME TypeInv, NEW m \in requests, NEW x, Respond(m, x), UNCHANGED <<replicating, reads>>
  PROVE  OneCallPerPeer' /\ HeartbeatCalls'
<1> DEFINE r == [type |-> m.type, src |-> m.dst, dst |-> m.src, askedIn |-> m.term,
                 term |-> currentTerm'[m.dst], result |-> x]
<1>1. /\ requests' \subseteq requests \ {m}
      /\ replies' \subseteq replies \cup {r}
      /\ m.late => replies' \subseteq replies
  BY RespondEffect
<1>2. /\ r.type = m.type /\ r.src = m.dst /\ r.dst = m.src
      /\ m.late \in BOOLEAN /\ m /= Nil
      /\ \A q \in requests : q.late \in BOOLEAN
  BY RequestFields DEF TypeInv, TypeOK, NetTypeOK
<1> HIDE DEF r
<1>3. OneCallPerPeer'
  <2>1. \A q \in requests' : q.type \in Replication /\ ~q.late
                             => replicating'[q.src][q.dst] = q
    BY <1>1 DEF TypeInv, OneCallPerPeer
  <2>2. ASSUME NEW a \in replies', a.type \in Replication
        PROVE  /\ replicating'[a.dst][a.src] /= Nil
               /\ replicating'[a.dst][a.src].type = a.type
               /\ \A q \in requests' : q.type \in Replication /\ q.src = a.dst /\ q.dst = a.src
                                       => q.late
               /\ \A b \in replies' : b.type \in Replication /\ b.src = a.src /\ b.dst = a.dst
                                      => b = a
    <3>1. CASE m.late \/ m.type \notin Replication
      BY <1>1, <1>2, <2>2, <3>1 DEF TypeInv, OneCallPerPeer
    <3>2. CASE ~m.late /\ m.type \in Replication
      <4>1. replicating[m.src][m.dst] = m
        BY <3>2 DEF TypeInv, OneCallPerPeer
      <4>2. \A q \in requests' : q.type \in Replication /\ q.src = m.src /\ q.dst = m.dst
                                 => q.late
        BY <1>1, <1>2, <4>1 DEF TypeInv, OneCallPerPeer
      <4>3. \A b \in replies : b.type \in Replication => ~(b.src = m.dst /\ b.dst = m.src)
        BY <3>2 DEF TypeInv, OneCallPerPeer
      <4>4. CASE a = r
        BY <1>1, <1>2, <4>1, <4>2, <4>3, <4>4
      <4>5. CASE a /= r
        <5>1. a \in replies
          BY <1>1, <4>5
        <5> QED
          BY <1>1, <1>2, <2>2, <4>3, <5>1 DEF TypeInv, OneCallPerPeer
      <4> QED
        BY <4>4, <4>5
    <3> QED
      BY <1>2, <3>1, <3>2
  <2> QED
    BY <2>1, <2>2 DEF OneCallPerPeer
<1>4. HeartbeatCalls'
  <2>1. ASSUME NEW q \in requests', q.type = "Heartbeat", ~q.late
        PROVE  /\ reads'[q.src] /= Nil
               /\ q.dst \in reads'[q.src].waits
               /\ \A n \in requests' : /\ n.type = "Heartbeat" /\ ~n.late
                                       /\ n.src = q.src /\ n.dst = q.dst
                                       => n = q
    BY <1>1, <2>1 DEF TypeInv, HeartbeatCalls
  <2>2. ASSUME NEW a \in replies', a.type = "Heartbeat"
        PROVE  /\ reads'[a.dst] /= Nil
               /\ a.src \in reads'[a.dst].waits
               /\ \A q \in requests' : q.type = "Heartbeat" /\ q.src = a.dst /\ q.dst = a.src
                                       => q.late
               /\ \A b \in replies' : b.type = "Heartbeat" /\ b.src = a.src /\ b.dst = a.dst
                                      => b = a
    <3>1. CASE m.late \/ m.type /= "Heartbeat"
      BY <1>1, <1>2, <2>2, <3>1 DEF TypeInv, HeartbeatCalls
    <3>2. CASE ~m.late /\ m.type = "Heartbeat"
      <4>1. /\ reads[m.src] /= Nil
            /\ m.dst \in reads[m.src].waits
            /\ \A n \in requests : /\ n.type = "Heartbeat" /\ ~n.late
                                   /\ n.src = m.src /\ n.dst = m.dst
                                   => n = m
        BY <3>2 DEF TypeInv, HeartbeatCalls
      <4>2. \A q \in requests' : q.type = "Heartbeat" /\ q.src = m.src /\ q.dst = m.dst
                                 => q.late
        BY <1>1, <1>2, <4>1
      <4>3. \A b \in replies : b.type = "Heartbeat" => ~(b.src = m.dst /\ b.dst = m.src)
        BY <3>2 DEF TypeInv, HeartbeatCalls
      <4>4. CASE a = r
        BY <1>1, <1>2, <4>1, <4>2, <4>3, <4>4
      <4>5. CASE a /= r
        <5>1. a \in replies
          BY <1>1, <4>5
        <5> QED
          BY <1>1, <1>2, <2>2, <4>3, <5>1 DEF TypeInv, HeartbeatCalls
      <4> QED
        BY <4>4, <4>5
    <3> QED
      BY <1>2, <3>1, <3>2
  <2> QED
    BY <2>1, <2>2 DEF HeartbeatCalls
<1> QED
  BY <1>3, <1>4

\* The answer to m is of the kind that m asks for.
ResultOK(type, x) ==
  /\ type = "RequestVote" => x \in [voteGranted : BOOLEAN]
  /\ type = "AppendEntries" => x \in [success : BOOLEAN, currentLogLength : Nat]
  /\ type \in {"InstallSnapshot", "Heartbeat"} => x \in [success : BOOLEAN]
  /\ type = "SyncLog" => /\ x \in [commitIndex : Nat, snapshot : SnapshotSet \cup {Nil},
                                   entries : Seq(EntryOf(Stroke))]
                         /\ x.snapshot = Nil \/ SnapshotOK(x.snapshot)

LEMMA RespondNet ==
  ASSUME TypeInv, NEW m \in requests, NEW x, ResultOK(m.type, x), Respond(m, x), ElecTypeOK'
  PROVE  NetTypeOK' /\ SnapshotsOK'
<1> DEFINE r == [type |-> m.type, src |-> m.dst, dst |-> m.src, askedIn |-> m.term,
                 term |-> currentTerm'[m.dst], result |-> x]
<1>1. /\ requests' \subseteq requests \ {m}
      /\ replies' \subseteq replies \cup {r}
  BY RespondEffect
<1>2. /\ m.src \in Node /\ m.dst \in Node /\ m.term \in Nat
      /\ m.type \in {"RequestVote", "AppendEntries", "InstallSnapshot", "Heartbeat",
                     "SyncLog"}
  BY RequestFields DEF TypeInv, TypeOK, NetTypeOK
<1>3. currentTerm'[m.dst] \in Nat
  BY <1>2 DEF ElecTypeOK
<1>4. r \in ReplySet
  BY <1>2, <1>3 DEF ReplySet, ReplyOf, ResultOK
<1>5. r.type = "SyncLog" => r.result.snapshot = Nil \/ SnapshotOK(r.result.snapshot)
  BY DEF ResultOK
<1> HIDE DEF r
<1>6. NetTypeOK'
  BY <1>1, <1>4 DEF TypeInv, TypeOK, NetTypeOK
<1>7. SnapshotsOK'
  BY <1>1, <1>5 DEF TypeInv, StoreInv, SnapshotsOK
<1> QED
  BY <1>6, <1>7

LEMMA LateSet ==
  ASSUME NEW ms, ms \subseteq RequestSet
  PROVE  /\ Late(ms) \subseteq RequestSet
         /\ \A l \in Late(ms) : /\ l.late
                                /\ \E m \in ms : l = [m EXCEPT !.late = TRUE]
  BY LateFields DEF Late

LEMMA CallFailsEffect ==
  ASSUME TypeInv, NEW asked, asked \subseteq requests, NEW i, NEW p, NEW types, NEW sent,
         CallFails(asked, i, p, types, sent)
  PROVE  /\ replies' = {r \in replies : ~(r.dst = i /\ r.src = p /\ r.type \in types)}
         /\ requests' \subseteq (requests \ asked) \cup Late(asked) \cup sent
         /\ budget' \in BudgetSet
         /\ asked \subseteq RequestSet
<1>1. requests \subseteq RequestSet /\ budget \in BudgetSet
  BY DEF TypeInv, TypeOK, NetTypeOK, TaskTypeOK
<1>2. budget' \in BudgetSet
  BY <1>1, SpendType DEF CallFails
<1> QED
  BY <1>1, <1>2 DEF CallFails

\* Giving up on calls changes the network only by the requests then sent.
LEMMA CallFailsNet ==
  ASSUME TypeInv, NEW asked, asked \subseteq requests, NEW i, NEW p, NEW types, NEW sent,
         CallFails(asked, i, p, types, sent), sent \subseteq RequestSet,
         \A m \in sent : m.type = "InstallSnapshot" => SnapshotOK(m.snapshot)
  PROVE  NetTypeOK' /\ SnapshotsOK'
<1>1. /\ replies' \subseteq replies
      /\ requests' \subseteq requests \cup Late(asked) \cup sent
      /\ asked \subseteq RequestSet
  BY CallFailsEffect
<1>2. NetTypeOK'
  BY <1>1, LateSet DEF TypeInv, TypeOK, NetTypeOK
<1>3. ASSUME NEW m \in requests', m.type = "InstallSnapshot"
      PROVE  SnapshotOK(m.snapshot)
  <2>1. CASE m \in requests \/ m \in sent
    BY <1>3, <2>1 DEF TypeInv, StoreInv, SnapshotsOK
  <2>2. CASE m \in Late(asked)
    <3>1. PICK n \in asked : m = [n EXCEPT !.late = TRUE]
      BY <1>1, <2>2, LateSet
    <3>2. n \in RequestSet /\ n \in requests
      BY <1>1
    <3>3. n.type = "InstallSnapshot" /\ m.snapshot = n.snapshot
      BY <1>3, <3>1, <3>2, LateFields
    <3> QED
      BY <3>2, <3>3 DEF TypeInv, StoreInv, SnapshotsOK
  <2> QED
    BY <1>1, <2>1, <2>2
<1>4. SnapshotsOK'
  BY <1>1, <1>3 DEF TypeInv, StoreInv, SnapshotsOK
<1> QED
  BY <1>2, <1>4

-----------------------------------------------------------------------------
(* Elections keep the invariant.                                           *)

LEMMA TypeFacts ==
  ASSUME TypeInv
  PROVE  /\ ElecTypeOK /\ StoreTypeOK /\ LeaderTypeOK /\ TaskTypeOK /\ NetTypeOK
         /\ HistoryTypeOK /\ SnapshotsOK /\ OneCallPerPeer /\ HeartbeatCalls
         /\ requests \subseteq RequestSet /\ replies \subseteq ReplySet
         /\ \A i \in Node : StoreOK(store[i])
  BY DEF TypeInv, TypeOK, StoreInv, NetTypeOK

LEMMA StoresUnchanged ==
  ASSUME TypeInv, UNCHANGED store
  PROVE  StoreTypeOK' /\ (\A i \in Node : StoreOK(store[i]))'
  BY DEF TypeInv, TypeOK, StoreInv, StoreTypeOK, StoreOK, StoreSet

\* Only one replica's store changes, and to a good one.
LEMMA OneStoreChanges ==
  ASSUME TypeInv, NEW i \in Node, NEW s, StoreOK(s), store' = [store EXCEPT ![i] = s]
  PROVE  StoreTypeOK' /\ (\A j \in Node : StoreOK(store[j]))'
<1>1. store \in [Node -> StoreSet] /\ \A j \in Node : StoreOK(store[j])
  BY DEF TypeInv, TypeOK, StoreInv, StoreTypeOK
<1>2. s \in StoreSet
  BY DEF StoreOK
<1>3. StoreTypeOK'
  BY <1>1, <1>2 DEF StoreTypeOK
<1>4. \A j \in Node : store'[j] = IF j = i THEN s ELSE store[j]
  BY <1>1
<1>5. \A j \in Node : StoreOK(store'[j])
  BY <1>1, <1>4
<1> QED
  BY <1>3, <1>5

LEMMA RunElectionType ==
  ASSUME TypeInv, NEW i \in Node, runElection(i)
  PROVE  TypeInv'
<1> USE TypeFacts
<1>1. ElecTypeOK'
  BY DEF ElecTypeOK, runElection, Peers
<1>2. currentTerm'[i] \in Nat /\ getLastIndex(store[i].log) \in Nat
      /\ getLastTerm(store[i].log) \in Nat
  BY <1>1, StoreFields DEF ElecTypeOK
<1>3. ASSUME NEW m \in requests' \ requests
      PROVE  m \in RequestVoteSet /\ m.type = "RequestVote"
  <2>1. PICK p \in Peers(i) :
          m = [type |-> "RequestVote", src |-> i, dst |-> p, term |-> currentTerm'[i],
               lastLogIndex |-> getLastIndex(store[i].log),
               lastLogTerm |-> getLastTerm(store[i].log), late |-> FALSE]
    BY DEF runElection
  <2>2. p \in Node
    BY DEF Peers
  <2> QED
    BY <1>2, <2>1, <2>2 DEF RequestVoteSet
<1>4. NetTypeOK'
  BY <1>3 DEF NetTypeOK, RequestSet, runElection
<1>5. SnapshotsOK'
  BY <1>3 DEF SnapshotsOK, runElection
<1>6. TaskTypeOK'
  BY SpendType DEF TaskTypeOK, runElection
<1>7. HistoryTypeOK'
  BY <1>2 DEF HistoryTypeOK, runElection
<1>8. OneCallPerPeer'
  BY <1>3, CallsKept DEF runElection, Replication, leaderVars
<1>9. HeartbeatCalls'
  BY <1>3, HeartbeatsKept DEF runElection
<1>10. LeaderTypeOK' /\ StoreTypeOK' /\ (\A j \in Node : StoreOK(store[j]))'
  BY LeaderUnchanged, StoresUnchanged DEF runElection
<1> QED
  BY <1>1, <1>4, <1>5, <1>6, <1>7, <1>8, <1>9, <1>10 DEF TypeInv, TypeOK, StoreInv

LEMMA RequestVoteType ==
  ASSUME TypeInv, NEW m \in requests, handleRequestVote(m)
  PROVE  TypeInv'
<1> USE TypeFacts
<1> DEFINE i == m.dst
           newer == m.term > currentTerm[i]
           vote == IF newer THEN Nil ELSE votedFor[i]
           canVote == CastVote(m, vote)
<1>1. m.type = "RequestVote" /\ i \in Node /\ m.src \in Node /\ m.term \in Nat
  BY RequestFields DEF handleRequestVote, Received
<1>2. canVote \in BOOLEAN
  BY DEF CastVote, isLogUpToDate
<1>3. ElecTypeOK'
  <2>1. currentTerm' \in [Node -> Nat] /\ state' \in [Node -> {"Follower", "Candidate", "Leader"}]
    BY <1>1 DEF ElecTypeOK, handleRequestVote
  <2>2. votedFor' \in [Node -> Node \cup {Nil}]
    BY <1>1 DEF ElecTypeOK, handleRequestVote
  <2>3. electionTimer' \in [Node -> BOOLEAN]
    BY <1>1 DEF ElecTypeOK, handleRequestVote
  <2>4. votesGranted' \in [Node -> SUBSET Node] /\ votesPending' \in [Node -> SUBSET Node]
    BY <1>1 DEF ElecTypeOK, handleRequestVote, EndElection
  <2> QED
    BY <2>1, <2>2, <2>3, <2>4 DEF ElecTypeOK, handleRequestVote
<1>4. ResultOK(m.type, [voteGranted |-> canVote]) /\ Respond(m, [voteGranted |-> canVote])
  BY <1>1, <1>2 DEF ResultOK, handleRequestVote
<1>5. NetTypeOK' /\ SnapshotsOK'
  BY <1>3, <1>4, RespondNet
<1>6. OneCallPerPeer' /\ HeartbeatCalls'
  BY <1>4, RespondCalls DEF handleRequestVote, leaderVars
<1>7. HistoryTypeOK'
  BY <1>1 DEF HistoryTypeOK, handleRequestVote
<1>8. TaskTypeOK'
  BY DEF TaskTypeOK, handleRequestVote
<1>9. LeaderTypeOK' /\ StoreTypeOK' /\ (\A j \in Node : StoreOK(store[j]))'
  BY LeaderUnchanged, StoresUnchanged DEF handleRequestVote
<1> QED
  BY <1>3, <1>5, <1>6, <1>7, <1>8, <1>9 DEF TypeInv, TypeOK, StoreInv

LEMMA VoteSettledType ==
  ASSUME ElecTypeOK, NEW i \in Node, NEW p, VoteSettled(i, p),
         votesGranted' \in [Node -> SUBSET Node],
         UNCHANGED <<currentTerm, votedFor, state, leaderId, leaderAddr>>
  PROVE  ElecTypeOK'
<1>1. votesPending' \in [Node -> SUBSET Node]
  BY DEF ElecTypeOK, VoteSettled
<1>2. electionTimer' \in [Node -> BOOLEAN]
  BY DEF ElecTypeOK, VoteSettled
<1> QED
  BY <1>1, <1>2 DEF ElecTypeOK

LEMMA BecomeLeaderType ==
  ASSUME TypeInv, NEW i \in Node, becomeLeader(i), UNCHANGED <<currentTerm, votedFor>>
  PROVE  /\ ElecTypeOK'
         /\ nextIndex' \in [Node -> [Node -> Nat \ {0}]]
         /\ matchIndex' \in [Node -> [Node -> Nat]]
         /\ elected' \subseteq Nat \X Node
<1> USE TypeFacts
<1>1. ElecTypeOK'
  BY DEF ElecTypeOK, becomeLeader, EndElection
<1>2. getLastIndex(store[i].log) + 1 \in Nat \ {0}
  BY StoreFields
<1>3. nextIndex' \in [Node -> [Node -> Nat \ {0}]] /\ matchIndex' \in [Node -> [Node -> Nat]]
  BY <1>2 DEF LeaderTypeOK, becomeLeader
<1>4. elected' \subseteq Nat \X Node
  BY DEF HistoryTypeOK, ElecTypeOK, becomeLeader
<1> QED
  BY <1>1, <1>3, <1>4

LEMMA RequestVoteReplyType ==
  ASSUME TypeInv, NEW r \in replies, requestVoteReply(r)
  PROVE  TypeInv'
<1> USE TypeFacts
<1> DEFINE i == r.dst
           votes == IF r.result.voteGranted THEN votesGranted[i] \cup {r.src}
                    ELSE votesGranted[i]
<1>1. i \in Node /\ r.src \in Node /\ r.term \in Nat
  BY ReplyFields
<1>2. /\ ElecTypeOK'
      /\ nextIndex' \in [Node -> [Node -> Nat \ {0}]]
      /\ matchIndex' \in [Node -> [Node -> Nat]]
      /\ elected' \subseteq Nat \X Node
  <2>1. CASE /\ becomeFollower(i, r.term)
             /\ UNCHANGED <<leaderId, leaderAddr, nextIndex, matchIndex, elected>>
    BY <1>1, <2>1, BecomeFollowerType DEF LeaderTypeOK, HistoryTypeOK
  <2>2. CASE becomeLeader(i) /\ UNCHANGED <<currentTerm, votedFor>>
    BY <1>1, <2>2, BecomeLeaderType
  <2>3. CASE /\ votesGranted' = [votesGranted EXCEPT ![i] = votes]
             /\ VoteSettled(i, r.src)
             /\ UNCHANGED <<currentTerm, votedFor, state, leaderId, leaderAddr,
                            nextIndex, matchIndex, elected>>
    <3>1. votes \subseteq Node
      BY <1>1 DEF ElecTypeOK
    <3>2. votesGranted' \in [Node -> SUBSET Node]
      BY <1>1, <2>3, <3>1 DEF ElecTypeOK
    <3> QED
      BY <1>1, <2>3, <3>2, VoteSettledType DEF LeaderTypeOK, HistoryTypeOK
  <2> QED
    BY <2>1, <2>2, <2>3 DEF requestVoteReply
<1>3. replies' \subseteq replies
  BY DEF requestVoteReply
<1>4. NetTypeOK' /\ SnapshotsOK'
  BY <1>3 DEF NetTypeOK, SnapshotsOK, requestVoteReply
<1>5. OneCallPerPeer' /\ HeartbeatCalls'
  BY <1>3, CallsKept, HeartbeatsKept DEF requestVoteReply
<1>6. HistoryTypeOK' /\ TaskTypeOK' /\ LeaderTypeOK'
  BY <1>2 DEF HistoryTypeOK, TaskTypeOK, LeaderTypeOK, requestVoteReply
<1>7. StoreTypeOK' /\ (\A j \in Node : StoreOK(store[j]))'
  BY StoresUnchanged DEF requestVoteReply
<1> QED
  BY <1>2, <1>4, <1>5, <1>6, <1>7 DEF TypeInv, TypeOK, StoreInv

LEMMA RequestVoteFailsType ==
  ASSUME TypeInv, NEW i \in Node, NEW p \in Peers(i), requestVoteFails(i, p)
  PROVE  TypeInv'
<1> USE TypeFacts
<1> DEFINE asked == {m \in requests : m.type = "RequestVote" /\ m.src = i /\ m.dst = p
                                      /\ m.term = currentTerm[i]}
<1>1. asked \subseteq requests /\ CallFails(asked, i, p, {"RequestVote"}, {})
  BY DEF requestVoteFails
<1> HIDE DEF asked
<1>2. ElecTypeOK'
  BY VoteSettledType DEF ElecTypeOK, requestVoteFails
<1>3. NetTypeOK' /\ SnapshotsOK'
  BY <1>1, CallFailsNet
<1>4. /\ replies' \subseteq replies /\ requests' \subseteq requests \cup Late(asked)
      /\ budget' \in BudgetSet /\ \A m \in Late(asked) : m.late
  <2>1. /\ replies' \subseteq replies
        /\ requests' \subseteq (requests \ asked) \cup Late(asked) \cup {}
        /\ budget' \in BudgetSet /\ asked \subseteq RequestSet
    BY <1>1, CallFailsEffect
  <2> QED
    BY <2>1, LateSet
<1>5. OneCallPerPeer' /\ HeartbeatCalls'
  BY <1>4, CallsKept, HeartbeatsKept DEF requestVoteFails, leaderVars
<1>6. HistoryTypeOK' /\ TaskTypeOK' /\ LeaderTypeOK'
  BY <1>4, HistoryUnchanged, LeaderUnchanged DEF TaskTypeOK, requestVoteFails
<1>7. StoreTypeOK' /\ (\A j \in Node : StoreOK(store[j]))'
  BY StoresUnchanged DEF requestVoteFails
<1> QED
  BY <1>2, <1>3, <1>5, <1>6, <1>7 DEF TypeInv, TypeOK, StoreInv

-----------------------------------------------------------------------------
(* Replication keeps the invariant.                                        *)

CallSet == AppendEntriesSet \cup InstallSnapshotSet

\* What replicateOnce sends from i to p.
CallFrom(i, p, m) ==
  /\ m \in CallSet
  /\ m.type \in Replication /\ m.src = i /\ m.dst = p /\ m.term = currentTerm[i] /\ ~m.late
  /\ m.type = "InstallSnapshot" => SnapshotOK(m.snapshot)

LEMMA ReplicateOnceType ==
  ASSUME NEW i \in Node, NEW p \in Node, NEW s, StoreOK(s), NEW next \in Nat \ {0},
         currentTerm[i] \in Nat
  PROVE  CallFrom(i, p, replicateOnce(i, p, s, next))
<1> DEFINE m == replicateOnce(i, p, s, next)
<1>1. CASE next <= s.log.lastIncludedIndex
  <2> DEFINE sn == loadSnapshot(s)
  <2>1. SnapshotOK(sn) /\ sn \in SnapshotSet
    BY LoadSnapshotOK DEF SnapshotOK
  <2>2. m = [type |-> "InstallSnapshot", src |-> i, dst |-> p, term |-> currentTerm[i],
             snapshot |-> sn, late |-> FALSE]
    BY <1>1 DEF replicateOnce
  <2> HIDE DEF m, sn
  <2>3. CallFrom(i, p, m)
    BY <2>1, <2>2 DEF CallFrom, CallSet, InstallSnapshotSet, Replication
  <2> QED
    BY <2>3 DEF m
<1>2. CASE ~(next <= s.log.lastIncludedIndex)
  <2> DEFINE tail == getEntriesFrom(s.log, next)
             es == SubSeq(tail, 1, Min({Len(tail), BatchCap}))
             t == getTermAt(s.log, next - 1)
  <2>1. s.log \in LogOf(Stroke) /\ s.commitIndex \in Nat
    BY StoreFields
  <2>2. tail \in Seq(EntryOf(Stroke))
    BY <2>1, EntriesFromType
  <2>3. t \in Nat /\ next - 1 \in Nat
    BY <2>1, TermAtType
  <2>4. es \in Seq(EntryOf(Stroke))
    <3> HIDE DEF tail
    <3>1. Len(tail) \in Nat /\ BatchCap \in Nat
      BY <2>2, TuningAssumption, LenProperties
    <3> DEFINE n == Min({Len(tail), BatchCap})
    <3>2. n \in Nat /\ n <= Len(tail)
      BY <3>1, MinOfTwo
    <3> HIDE DEF n
    <3>3. SubSeq(tail, 1, n) \in Seq(EntryOf(Stroke))
      BY <2>2, <3>1, <3>2, StretchType
    <3> QED
      BY <3>3 DEF n
  <2>5. m = [type |-> "AppendEntries", src |-> i, dst |-> p, term |-> currentTerm[i],
             prevLogIndex |-> next - 1, prevLogTerm |-> t, entries |-> es,
             leaderCommit |-> s.commitIndex, late |-> FALSE]
    BY <1>2 DEF replicateOnce
  <2> HIDE DEF m, tail, es, t
  <2>6. CallFrom(i, p, m)
    BY <2>1, <2>3, <2>4, <2>5 DEF CallFrom, CallSet, AppendEntriesSet, Replication
  <2> QED
    BY <2>6 DEF m
<1> QED
  BY <1>1, <1>2

\* Every peer keeps the call it has, or has none and may get a new one.
Driven(i, idle, new) ==
  /\ new \in [Node -> CallSet \cup {Nil}]
  /\ \A p \in Node : \/ new[p] = idle[p]
                     \/ p /= i /\ idle[p] = Nil /\ CallFrom(i, p, new[p])

LEMMA DriveAllType ==
  ASSUME NEW i \in Node, NEW idle \in [Node -> CallSet \cup {Nil}], NEW s, StoreOK(s),
         NEW next \in [Node -> Nat \ {0}], currentTerm[i] \in Nat
  PROVE  Driven(i, idle, DriveAll(i, idle, s, next))
<1> DEFINE new == DriveAll(i, idle, s, next)
<1>1. \A p \in Node : new[p] = IF p = i \/ idle[p] /= Nil THEN idle[p]
                               ELSE replicateOnce(i, p, s, next[p])
  BY DEF DriveAll
<1>2. \A p \in Node : CallFrom(i, p, replicateOnce(i, p, s, next[p]))
  BY ReplicateOnceType
<1>3. \A p \in Node : \/ new[p] = idle[p]
                      \/ p /= i /\ idle[p] = Nil /\ CallFrom(i, p, new[p])
  BY <1>1, <1>2
<1>4. \A p \in Node : new[p] \in CallSet \cup {Nil}
  BY <1>3 DEF CallFrom
<1>5. new = [p \in Node |-> new[p]]
  BY DEF DriveAll
<1> HIDE DEF new
<1>6. new \in [Node -> CallSet \cup {Nil}]
  BY <1>4, <1>5
<1>7. Driven(i, idle, new)
  BY <1>3, <1>6 DEF Driven
<1> QED
  BY <1>7 DEF new

\* OneCallPerPeer, of any network.
CallsOK(req, rep, calls) ==
  /\ \A m \in req : m.type \in Replication /\ ~m.late => calls[m.src][m.dst] = m
  /\ \A r \in rep : r.type \in Replication =>
       /\ calls[r.dst][r.src] /= Nil
       /\ calls[r.dst][r.src].type = r.type
       /\ \A m \in req : m.type \in Replication /\ m.src = r.dst /\ m.dst = r.src
                         => m.late
       /\ \A q \in rep : q.type \in Replication /\ q.src = r.src /\ q.dst = r.dst
                         => q = r

LEMMA SentCalls ==
  ASSUME NEW i \in Node, NEW idle, NEW new, Driven(i, idle, new), replicating'[i] = new,
         NEW m \in Sent(i, idle)
  PROVE  \E p \in Peers(i) : m = new[p] /\ idle[p] = Nil /\ CallFrom(i, p, m)
<1>1. PICK p \in Peers(i) : m = new[p] /\ idle[p] = Nil /\ m /= Nil
  BY DEF Sent
<1>2. p \in Node
  BY DEF Peers
<1> QED
  BY <1>1, <1>2 DEF Driven

LEMMA DriveCalls ==
  ASSUME NEW i \in Node, NEW idle, NEW new, NEW req, NEW rep,
         replicating \in [Node -> [Node -> CallSet \cup {Nil}]],
         req \subseteq RequestSet, rep \subseteq ReplySet,
         CallsOK(req, rep, [replicating EXCEPT ![i] = idle]),
         Driven(i, idle, new), replicating' = [replicating EXCEPT ![i] = new],
         requests' \subseteq req \cup Sent(i, idle), replies' \subseteq rep
  PROVE  OneCallPerPeer'
<1> DEFINE calls == [replicating EXCEPT ![i] = idle]
<1>1. /\ \A j \in Node : calls[j] = IF j = i THEN idle ELSE replicating[j]
      /\ \A j \in Node : replicating'[j] = IF j = i THEN new ELSE replicating[j]
  OBVIOUS
<1> HIDE DEF calls
<1>2. \A j, p \in Node : calls[j][p] /= Nil => replicating'[j][p] = calls[j][p]
  BY <1>1 DEF Driven
<1>3. CallsOK(req, rep, calls)
  BY DEF calls
<1>4. \A m \in Sent(i, idle) : \E p \in Peers(i) : m = new[p] /\ idle[p] = Nil /\ CallFrom(i, p, m)
  BY <1>1, SentCalls
<1>5. ASSUME NEW m \in requests', m.type \in Replication, ~m.late
      PROVE  replicating'[m.src][m.dst] = m
  <2>1. CASE m \in req
    <3>1. calls[m.src][m.dst] = m /\ m /= Nil /\ m.src \in Node /\ m.dst \in Node
      BY <1>3, <1>5, <2>1, RequestFields DEF CallsOK
    <3> QED
      BY <1>2, <3>1
  <2>2. CASE m \in Sent(i, idle)
    BY <1>1, <1>4, <2>2 DEF CallFrom
  <2> QED
    BY <2>1, <2>2
<1>6. ASSUME NEW r \in replies', r.type \in Replication
      PROVE  /\ replicating'[r.dst][r.src] /= Nil
             /\ replicating'[r.dst][r.src].type = r.type
             /\ \A m \in requests' : m.type \in Replication /\ m.src = r.dst /\ m.dst = r.src
                                     => m.late
             /\ \A q \in replies' : q.type \in Replication /\ q.src = r.src /\ q.dst = r.dst
                                    => q = r
  <2>1. /\ r \in rep /\ r.dst \in Node /\ r.src \in Node
        /\ calls[r.dst][r.src] /= Nil /\ calls[r.dst][r.src].type = r.type
    BY <1>3, <1>6, ReplyFields DEF CallsOK
  <2>2. \A m \in Sent(i, idle) : ~(m.src = r.dst /\ m.dst = r.src)
    BY <1>1, <1>4, <2>1 DEF CallFrom
  <2> QED
    BY <1>2, <1>3, <1>6, <2>1, <2>2 DEF CallsOK
<1> QED
  BY <1>5, <1>6 DEF OneCallPerPeer

\* A step of i that only drives its peers: idle are its calls before.
LEMMA DriveNet ==
  ASSUME TypeInv, NEW i \in Node, NEW new, Driven(i, replicating[i], new),
         replicating' = [replicating EXCEPT ![i] = new],
         requests' = requests \cup Sent(i, replicating[i]), UNCHANGED <<replies, reads>>
  PROVE  NetTypeOK' /\ SnapshotsOK' /\ OneCallPerPeer' /\ HeartbeatCalls'
<1> USE TypeFacts
<1> DEFINE idle == replicating[i]
<1>1. replicating \in [Node -> [Node -> CallSet \cup {Nil}]]
  BY DEF LeaderTypeOK, CallSet
<1>2. replicating'[i] = new /\ [replicating EXCEPT ![i] = idle] = replicating
  BY <1>1
<1>3. \A m \in Sent(i, idle) : /\ m \in RequestSet /\ m.type \in Replication
                               /\ m.type = "InstallSnapshot" => SnapshotOK(m.snapshot)
  BY <1>2, SentCalls DEF CallFrom, CallSet, RequestSet
<1>4. NetTypeOK'
  BY <1>3 DEF NetTypeOK
<1>5. SnapshotsOK'
  BY <1>3 DEF SnapshotsOK
<1>6. CallsOK(requests, replies, [replicating EXCEPT ![i] = idle])
  BY <1>2 DEF CallsOK, OneCallPerPeer
<1>7. OneCallPerPeer'
  BY <1>1, <1>6, DriveCalls
<1>8. HeartbeatCalls'
  BY <1>3, HeartbeatsKept DEF Replication
<1> QED
  BY <1>4, <1>5, <1>7, <1>8

LEMMA SendHeartbeatsType ==
  ASSUME TypeInv, NEW i \in Node, sendHeartbeats(i)
  PROVE  TypeInv'
<1> USE TypeFacts
<1> DEFINE new == DriveAll(i, replicating[i], store[i], nextIndex[i])
<1>1. currentTerm[i] \in Nat /\ replicating[i] \in [Node -> CallSet \cup {Nil}]
      /\ nextIndex[i] \in [Node -> Nat \ {0}] /\ StoreOK(store[i])
  BY DEF ElecTypeOK, LeaderTypeOK, CallSet
<1>2. Driven(i, replicating[i], new)
  BY <1>1, DriveAllType
<1>3. replicating' = [replicating EXCEPT ![i] = new]
  BY DEF sendHeartbeats
<1> HIDE DEF new
<1>4. NetTypeOK' /\ SnapshotsOK' /\ OneCallPerPeer' /\ HeartbeatCalls'
  BY <1>2, <1>3, DriveNet DEF sendHeartbeats
<1>5. rounds' \in [Node -> SUBSET SUBSET Node]
  BY DEF LeaderTypeOK, sendHeartbeats, Peers
<1>6. replicating' \in [Node -> [Node -> AppendEntriesSet \cup InstallSnapshotSet \cup {Nil}]]
  BY <1>2, <1>3 DEF LeaderTypeOK, Driven, CallSet
<1>7. LeaderTypeOK'
  BY <1>5, <1>6 DEF LeaderTypeOK, sendHeartbeats
<1>8. TaskTypeOK'
  BY SpendType DEF TaskTypeOK, sendHeartbeats
<1>9. ElecTypeOK' /\ HistoryTypeOK' /\ StoreTypeOK' /\ (\A j \in Node : StoreOK(store[j]))'
  BY ElecUnchanged, HistoryUnchanged, StoresUnchanged DEF sendHeartbeats
<1> QED
  BY <1>4, <1>7, <1>8, <1>9 DEF TypeInv, TypeOK, StoreInv

LEMMA ClientWriteType ==
  ASSUME TypeInv, NEW i \in Node, NEW v \in Stroke, handleClientWrite(i, v)
  PROVE  TypeInv'
<1> USE TypeFacts
<1> DEFINE entry == [index |-> getLastIndex(store[i].log) + 1, term |-> currentTerm[i],
                     stroke |-> v]
           l == append(store[i].log, entry)
           s == [store[i] EXCEPT !.log = l]
           new == DriveAll(i, replicating[i], s, nextIndex[i])
<1>1. currentTerm[i] \in Nat /\ replicating[i] \in [Node -> CallSet \cup {Nil}]
      /\ nextIndex[i] \in [Node -> Nat \ {0}] /\ StoreOK(store[i])
  BY DEF ElecTypeOK, LeaderTypeOK, CallSet
<1>2. entry \in EntryOf(Stroke)
  BY <1>1, StoreFields DEF EntryOf
<1>3. writes' = [writes EXCEPT ![i] =
                   writes[i] \cup {[entry |-> entry, attempt |-> 1, waits |-> Peers(i)]}]
  BY DEF handleClientWrite
<1>4. store' = [store EXCEPT ![i] = s] /\ store'[i] = s
  BY DEF handleClientWrite, StoreTypeOK
<1> HIDE DEF entry
<1>5. StoreOK(s)
  <2>1. store[i].log \in LogOf(Stroke)
    BY <1>1, StoreFields
  <2>2. l \in LogOf(Stroke) /\ l.lastIncludedIndex = store[i].log.lastIncludedIndex
        /\ getLastIndex(l) = getLastIndex(store[i].log) + 1
    BY <1>2, <2>1, AppendType
  <2> HIDE DEF l
  <2>3. store[i].commitIndex <= getLastIndex(l)
    BY <1>1, <2>2, StoreFields
  <2> QED
    BY <1>1, <2>2, <2>3, WithLogOK
<1>6. replicating' = [replicating EXCEPT ![i] = new]
  BY <1>4 DEF handleClientWrite
<1> HIDE DEF s
<1>7. Driven(i, replicating[i], new)
  BY <1>1, <1>5, DriveAllType
<1> HIDE DEF new
<1>8. NetTypeOK' /\ SnapshotsOK' /\ OneCallPerPeer' /\ HeartbeatCalls'
  BY <1>6, <1>7, DriveNet DEF handleClientWrite
<1>9. replicating' \in [Node -> [Node -> AppendEntriesSet \cup InstallSnapshotSet \cup {Nil}]]
  BY <1>6, <1>7 DEF LeaderTypeOK, Driven, CallSet
<1>10. writes' \in [Node -> SUBSET WriteSet]
  <2>1. [entry |-> entry, attempt |-> 1, waits |-> Peers(i)] \in WriteSet
    BY <1>2, TuningAssumption DEF WriteSet, Peers
  <2> QED
    BY <1>3, <2>1 DEF LeaderTypeOK
<1>11. LeaderTypeOK'
  BY <1>9, <1>10 DEF LeaderTypeOK, handleClientWrite
<1>12. HistoryTypeOK' /\ TaskTypeOK'
  BY DEF HistoryTypeOK, TaskTypeOK, handleClientWrite
<1>13. ElecTypeOK' /\ StoreTypeOK' /\ (\A j \in Node : StoreOK(store[j]))'
  BY <1>4, <1>5, ElecUnchanged, OneStoreChanges DEF handleClientWrite
<1> QED
  BY <1>8, <1>11, <1>12, <1>13 DEF TypeInv, TypeOK, StoreInv

LEMMA SettleType ==
  ASSUME TypeInv, NEW i \in Node, NEW p \in Node, Settle(i, p),
         nextIndex' \in [Node -> [Node -> Nat \ {0}]]
  PROVE  /\ rounds' \in [Node -> SUBSET SUBSET Node]
         /\ writes' \in [Node -> SUBSET WriteSet]
         /\ acked' \subseteq AckSet
         /\ StoreTypeOK' /\ (\A j \in Node : StoreOK(store[j]))'
         /\ \E new : /\ Driven(i, [replicating[i] EXCEPT ![p] = Nil], new)
                     /\ replicating' = [replicating EXCEPT ![i] = new]
<1> USE TypeFacts
<1> DEFINE leads    == state'[i] = "Leader"
           ready    == {w \in writes[i] : w.waits = {p}}
           done     == {w \in ready :
                          1 + Cardinality({q \in Peers(i) : matchIndex'[i][q] >= w.entry.index})
                            >= majority}
           retried  == {w \in ready \ done : w.attempt < MaxRetries}
           waiting  == {[w EXCEPT !.waits = @ \ {p}] : w \in writes[i] \ ready}
           again    == {[w EXCEPT !.attempt = @ + 1, !.waits = Peers(i)] : w \in retried}
           idle     == [replicating[i] EXCEPT ![p] = Nil]
           advanced == updateCommitIndex(i, store[i], matchIndex'[i])
<1>1. ready \subseteq writes[i] /\ done \subseteq writes[i] /\ retried \subseteq writes[i]
      /\ writes[i] \subseteq WriteSet /\ writes \in [Node -> SUBSET WriteSet]
      /\ \A w \in retried : w.attempt < MaxRetries
  BY DEF LeaderTypeOK
<1>2. \/ store' = [store EXCEPT ![i] = advanced]
      \/ store' = store
  BY DEF Settle
<1>3. acked' = acked \/ acked' = acked \cup {[entry |-> w.entry, ackedIn |-> currentTerm[i]] : w \in done}
  BY DEF Settle
<1>4. rounds' = [rounds EXCEPT ![i] = {w \ {p} : w \in rounds[i]} \ {{}}]
  BY DEF Settle
<1>5. \/ writes' = [writes EXCEPT ![i] = waiting \cup again]
      \/ writes' = [writes EXCEPT ![i] = waiting]
  BY DEF Settle
<1>6. \/ \E s \in {store[i], store'[i]} :
           replicating' = [replicating EXCEPT ![i] = DriveAll(i, idle, s, nextIndex'[i])]
      \/ replicating' = [replicating EXCEPT ![i] = idle]
  BY DEF Settle
<1>7. StoreTypeOK' /\ (\A j \in Node : StoreOK(store[j]))'
  <2>1. StoreOK(advanced)
    BY UpdateCommitOK
  <2> HIDE DEF advanced
  <2>2. CASE store' = store
    BY <2>2, StoresUnchanged
  <2>3. CASE store' = [store EXCEPT ![i] = advanced]
    BY <2>1, <2>3, OneStoreChanges
  <2> QED
    BY <1>2, <2>2, <2>3
<1>8. waiting \subseteq WriteSet
  <2>1. \A w \in WriteSet : [w EXCEPT !.waits = @ \ {p}] \in WriteSet
    BY DEF WriteSet
  <2> QED
    BY <1>1, <2>1
<1>9. again \subseteq WriteSet
  <2>1. ASSUME NEW w \in WriteSet, w.attempt < MaxRetries
        PROVE  [w EXCEPT !.attempt = @ + 1, !.waits = Peers(i)] \in WriteSet
    <3>1. w.attempt + 1 \in 1..MaxRetries
      BY <2>1, TuningAssumption DEF WriteSet
    <3> QED
      BY <3>1 DEF WriteSet, Peers
  <2>2. \A w \in retried : w \in WriteSet /\ w.attempt < MaxRetries
    BY <1>1
  <2> QED
    BY <2>1, <2>2
<1>10. acked' \subseteq AckSet
  <2>1. \A w \in done : [entry |-> w.entry, ackedIn |-> currentTerm[i]] \in AckSet
    BY <1>1 DEF WriteSet, AckSet, ElecTypeOK
  <2> HIDE DEF done
  <2>2. {[entry |-> w.entry, ackedIn |-> currentTerm[i]] : w \in done} \subseteq AckSet
    BY <2>1
  <2>3. acked \subseteq AckSet
    BY DEF HistoryTypeOK
  <2> QED
    BY <1>3, <2>2, <2>3
<1> HIDE DEF waiting, again, done, retried
<1>11. writes' \in [Node -> SUBSET WriteSet]
  BY <1>1, <1>5, <1>8, <1>9
<1>12. rounds' \in [Node -> SUBSET SUBSET Node]
  BY <1>4 DEF LeaderTypeOK
<1>13. idle \in [Node -> CallSet \cup {Nil}]
  BY DEF LeaderTypeOK, CallSet
<1> HIDE DEF idle
<1>14. \E new : Driven(i, idle, new) /\ replicating' = [replicating EXCEPT ![i] = new]
  <2>1. CASE replicating' = [replicating EXCEPT ![i] = idle]
    <3>1. Driven(i, idle, idle)
      BY <1>13 DEF Driven
    <3> QED
      BY <2>1, <3>1
  <2>2. ASSUME NEW s \in {store[i], store'[i]},
               replicating' = [replicating EXCEPT ![i] = DriveAll(i, idle, s, nextIndex'[i])]
        PROVE  \E new : Driven(i, idle, new) /\ replicating' = [replicating EXCEPT ![i] = new]
    <3>1. StoreOK(s)
      BY <1>7
    <3>2. nextIndex'[i] \in [Node -> Nat \ {0}] /\ currentTerm[i] \in Nat
      BY DEF ElecTypeOK
    <3>3. Driven(i, idle, DriveAll(i, idle, s, nextIndex'[i]))
      BY <1>13, <3>1, <3>2, DriveAllType
    <3> QED
      BY <2>2, <3>3
  <2> QED
    BY <1>6, <2>1, <2>2
<1> QED
  BY <1>7, <1>10, <1>11, <1>12, <1>14 DEF idle

LEMMA RecordProgressType ==
  ASSUME TypeInv, NEW i \in Node, NEW r \in replies, r.dst = i, r.type \in Replication,
         RecordProgress(i, r.src, replicating[i][r.src], r.result)
  PROVE  /\ nextIndex' \in [Node -> [Node -> Nat \ {0}]]
         /\ matchIndex' \in [Node -> [Node -> Nat]]
<1> USE TypeFacts
<1> DEFINE p == r.src
           m == replicating[i][p]
<1>1. p \in Node /\ m /= Nil /\ m.type = r.type
  BY ReplyFields DEF OneCallPerPeer
<1>2. /\ nextIndex \in [Node -> [Node -> Nat \ {0}]]
      /\ matchIndex \in [Node -> [Node -> Nat]]
      /\ nextIndex[i] \in [Node -> Nat \ {0}] /\ matchIndex[i] \in [Node -> Nat]
      /\ m \in CallSet
  BY <1>1 DEF LeaderTypeOK, CallSet
<1>3. RecordProgress(i, p, m, r.result)
  OBVIOUS
<1>4. r.type = "AppendEntries" => r.result.currentLogLength \in Nat
  BY ReplyFields
<1> HIDE DEF m, p
<1>5. CASE m.type = "InstallSnapshot"
  <2>1. m.snapshot.lastIncludedIndex \in Nat
    BY <1>2, <1>5 DEF CallSet, AppendEntriesSet, InstallSnapshotSet, SnapshotSet
  <2>2. nextIndex' = [nextIndex EXCEPT ![i][p] = m.snapshot.lastIncludedIndex + 1]
        /\ matchIndex' = [matchIndex EXCEPT ![i][p] = m.snapshot.lastIncludedIndex]
    BY <1>3, <1>5 DEF RecordProgress
  <2> QED
    BY <1>1, <1>2, <2>1, <2>2
<1>6. CASE m.type = "AppendEntries"
  <2>1. m.prevLogIndex \in Nat /\ m.entries \in Seq(EntryOf(Stroke)) /\ Len(m.entries) \in Nat
    BY <1>2, <1>6, LenProperties DEF CallSet, AppendEntriesSet, InstallSnapshotSet
  <2>2. CASE ~r.result.success
    <3> DEFINE n == Max({1, r.result.currentLogLength + 1})
    <3>1. n \in Nat \ {0}
      <4>1. r.result.currentLogLength + 1 \in Nat /\ 1 \in Nat
        BY <1>1, <1>4, <1>6
      <4>2. n \in Nat /\ 1 <= n
        BY <4>1, MaxOfTwo
      <4> HIDE DEF n
      <4> QED
        BY <4>2
    <3>2. nextIndex' = [nextIndex EXCEPT ![i][p] = n] /\ matchIndex' = matchIndex
      BY <1>3, <1>6, <2>2 DEF RecordProgress
    <3> HIDE DEF n
    <3> QED
      BY <1>1, <1>2, <3>1, <3>2
  <2>3. CASE r.result.success /\ m.entries = <<>>
    <3> DEFINE n == Max({matchIndex[i][p], m.prevLogIndex})
    <3>1. n \in Nat
      BY <1>1, <1>2, <2>1, MaxOfTwo
    <3>2. matchIndex' = [matchIndex EXCEPT ![i][p] = n] /\ nextIndex' = nextIndex
      BY <1>2, <1>3, <1>6, <2>3 DEF RecordProgress
    <3> HIDE DEF n
    <3> QED
      BY <1>1, <1>2, <3>1, <3>2
  <2>4. CASE r.result.success /\ m.entries /= <<>>
    <3> DEFINE n == m.prevLogIndex + Len(m.entries)
    <3>1. n \in Nat /\ n + 1 \in Nat \ {0}
      BY <2>1
    <3>2. nextIndex' = [nextIndex EXCEPT ![i][p] = n + 1]
          /\ matchIndex' = [matchIndex EXCEPT ![i][p] = n]
      BY <1>3, <1>6, <2>4 DEF RecordProgress
    <3> HIDE DEF n
    <3> QED
      BY <1>1, <1>2, <3>1, <3>2
  <2> QED
    BY <2>2, <2>3, <2>4
<1> QED
  BY <1>1, <1>5, <1>6 DEF Replication

LEMMA ReplicateOnceReplyType ==
  ASSUME TypeInv, NEW r \in replies, replicateOnceReply(r)
  PROVE  TypeInv'
<1> USE TypeFacts
<1> DEFINE i == r.dst
           p == r.src
           idle == [replicating[i] EXCEPT ![p] = Nil]
           calls == [replicating EXCEPT ![i] = idle]
<1>1. i \in Node /\ p \in Node /\ r.term \in Nat /\ r.type \in Replication
  BY ReplyFields DEF replicateOnceReply
<1>2. /\ ElecTypeOK'
      /\ nextIndex' \in [Node -> [Node -> Nat \ {0}]]
      /\ matchIndex' \in [Node -> [Node -> Nat]]
  <2>1. CASE /\ becomeFollower(i, r.term)
             /\ UNCHANGED <<leaderId, leaderAddr, nextIndex, matchIndex>>
    BY <1>1, <2>1, BecomeFollowerType DEF LeaderTypeOK
  <2>2. CASE RecordProgress(i, p, replicating[i][p], r.result) /\ UNCHANGED elecVars
    BY <1>1, <2>2, RecordProgressType, ElecUnchanged
  <2> QED
    BY <2>1, <2>2 DEF replicateOnceReply
<1>3. Settle(i, p)
  BY DEF replicateOnceReply
<1>4. /\ rounds' \in [Node -> SUBSET SUBSET Node]
      /\ writes' \in [Node -> SUBSET WriteSet]
      /\ acked' \subseteq AckSet
      /\ StoreTypeOK' /\ (\A j \in Node : StoreOK(store[j]))'
      /\ \E new : Driven(i, idle, new) /\ replicating' = [replicating EXCEPT ![i] = new]
  BY <1>1, <1>2, <1>3, SettleType
<1>5. PICK new : Driven(i, idle, new) /\ replicating' = [replicating EXCEPT ![i] = new]
  BY <1>4
<1>6. replicating \in [Node -> [Node -> CallSet \cup {Nil}]]
  BY DEF LeaderTypeOK, CallSet
<1>7. replicating'[i] = new
  BY <1>1, <1>5, <1>6
<1>8. requests' = requests \cup Sent(i, idle) /\ replies' = replies \ {r}
  BY DEF replicateOnceReply
<1>9. \A j, q \in Node : calls[j][q] = IF j = i /\ q = p THEN Nil ELSE replicating[j][q]
  BY <1>1, <1>6
<1> HIDE DEF idle
<1>10. CallsOK(requests, replies', calls)
  <2> HIDE DEF calls
  <2>1. ASSUME NEW m \in requests, m.type \in Replication, ~m.late
        PROVE  calls[m.src][m.dst] = m
    <3>1. m.src \in Node /\ m.dst \in Node
      BY RequestFields
    <3>2. ~(m.src = i /\ m.dst = p)
      BY <1>1, <2>1 DEF OneCallPerPeer
    <3> QED
      BY <1>9, <2>1, <3>1, <3>2 DEF OneCallPerPeer
  <2>2. ASSUME NEW a \in replies', a.type \in Replication
        PROVE  calls[a.dst][a.src] = replicating[a.dst][a.src]
    <3>1. a \in replies /\ a /= r /\ a.src \in Node /\ a.dst \in Node
      BY <1>8, ReplyFields
    <3>2. ~(a.dst = i /\ a.src = p)
      BY <1>1, <2>2, <3>1 DEF OneCallPerPeer
    <3> QED
      BY <1>9, <3>1, <3>2
  <2> QED
    BY <1>8, <2>1, <2>2 DEF CallsOK, OneCallPerPeer
<1>11. OneCallPerPeer'
  BY <1>1, <1>5, <1>6, <1>8, <1>10, DriveCalls
<1>12. \A m \in Sent(i, idle) : /\ m \in RequestSet /\ m.type \in Replication
                                /\ m.type = "InstallSnapshot" => SnapshotOK(m.snapshot)
  BY <1>1, <1>5, <1>7, SentCalls DEF CallFrom, CallSet, RequestSet
<1>13. NetTypeOK' /\ SnapshotsOK'
  BY <1>8, <1>12 DEF NetTypeOK, SnapshotsOK
<1>14. HeartbeatCalls'
  BY <1>8, <1>12, HeartbeatsKept DEF Replication, replicateOnceReply
<1>15. LeaderTypeOK'
  <2>1. replicating' \in [Node -> [Node -> CallSet \cup {Nil}]]
    BY <1>5, <1>6 DEF Driven
  <2> QED
    BY <1>2, <1>4, <2>1 DEF LeaderTypeOK, CallSet
<1>16. HistoryTypeOK' /\ TaskTypeOK'
  BY <1>4 DEF HistoryTypeOK, TaskTypeOK, replicateOnceReply
<1> QED
  BY <1>2, <1>4, <1>11, <1>13, <1>14, <1>15, <1>16 DEF TypeInv, TypeOK, StoreInv

LEMMA ReplicateOnceFailsType ==
  ASSUME TypeInv, NEW i \in Node, NEW p \in Peers(i), replicateOnceFails(i, p)
  PROVE  TypeInv'
<1> USE TypeFacts
<1> DEFINE idle == [replicating[i] EXCEPT ![p] = Nil]
           calls == [replicating EXCEPT ![i] = idle]
           asked == requests \cap {replicating[i][p]}
           sent == Sent(i, idle)
           req == (requests \ asked) \cup Late(asked)
<1>1. p \in Node
  BY DEF Peers
<1>2. /\ rounds' \in [Node -> SUBSET SUBSET Node]
      /\ writes' \in [Node -> SUBSET WriteSet]
      /\ acked' \subseteq AckSet
      /\ StoreTypeOK' /\ (\A j \in Node : StoreOK(store[j]))'
      /\ \E new : Driven(i, idle, new) /\ replicating' = [replicating EXCEPT ![i] = new]
  <2>1. nextIndex' \in [Node -> [Node -> Nat \ {0}]] /\ Settle(i, p)
    BY DEF LeaderTypeOK, replicateOnceFails
  <2> QED
    BY <1>1, <2>1, SettleType
<1>3. PICK new : Driven(i, idle, new) /\ replicating' = [replicating EXCEPT ![i] = new]
  BY <1>2
<1>4. replicating \in [Node -> [Node -> CallSet \cup {Nil}]]
  BY DEF LeaderTypeOK, CallSet
<1>5. replicating'[i] = new
  BY <1>3, <1>4
<1>6. CallFails(asked, i, p, Replication, sent) /\ asked \subseteq requests
  BY DEF replicateOnceFails
<1>7. \A j, q \in Node : calls[j][q] = IF j = i /\ q = p THEN Nil ELSE replicating[j][q]
  BY <1>1, <1>4
<1>8. \A m \in requests \ asked : m /= replicating[i][p]
  OBVIOUS
<1> HIDE DEF idle, asked, sent
<1>9. /\ replies' = {r \in replies : ~(r.dst = i /\ r.src = p /\ r.type \in Replication)}
      /\ requests' \subseteq req \cup sent
      /\ budget' \in BudgetSet
      /\ asked \subseteq RequestSet
  BY <1>6, CallFailsEffect
<1>10. Late(asked) \subseteq RequestSet /\ \A m \in Late(asked) : m.late
  BY <1>9, LateSet
<1>11. CallsOK(req, replies', calls)
  <2> HIDE DEF calls
  <2>1. ASSUME NEW m \in req, m.type \in Replication, ~m.late
        PROVE  calls[m.src][m.dst] = m
    <3>1. m \in requests \ asked
      BY <1>10, <2>1
    <3>2. m.src \in Node /\ m.dst \in Node /\ replicating[m.src][m.dst] = m
      BY <2>1, <3>1, RequestFields DEF OneCallPerPeer
    <3>3. ~(m.src = i /\ m.dst = p)
      BY <1>8, <3>1, <3>2
    <3> QED
      BY <1>7, <3>2, <3>3
  <2>2. ASSUME NEW a \in replies', a.type \in Replication
        PROVE  calls[a.dst][a.src] = replicating[a.dst][a.src]
    <3>1. a \in replies /\ a.src \in Node /\ a.dst \in Node /\ ~(a.dst = i /\ a.src = p)
      BY <1>9, <2>2, ReplyFields
    <3> QED
      BY <1>7, <3>1
  <2>3. ASSUME NEW a \in replies', a.type \in Replication,
               NEW m \in req, m.type \in Replication, m.src = a.dst, m.dst = a.src
        PROVE  m.late
    <3>1. CASE m \in requests
      BY <1>9, <2>3, <3>1 DEF OneCallPerPeer
    <3>2. CASE m \in Late(asked)
      BY <1>10, <3>2
    <3> QED
      BY <3>1, <3>2
  <2> QED
    BY <1>9, <2>1, <2>2, <2>3 DEF CallsOK, OneCallPerPeer
<1>12. req \subseteq RequestSet /\ replies' \subseteq ReplySet
  BY <1>9, <1>10
<1> HIDE DEF req
<1>13. OneCallPerPeer'
  BY <1>3, <1>4, <1>9, <1>11, <1>12, DriveCalls DEF sent
<1>14. \A m \in sent : /\ m \in RequestSet /\ m.type \in Replication
                       /\ m.type = "InstallSnapshot" => SnapshotOK(m.snapshot)
  BY <1>3, <1>5, SentCalls DEF CallFrom, CallSet, RequestSet, sent
<1>15. NetTypeOK' /\ SnapshotsOK'
  BY <1>6, <1>14, CallFailsNet
<1>16. HeartbeatCalls'
  BY <1>9, <1>10, <1>14, HeartbeatsKept DEF Replication, replicateOnceFails, req
<1>17. LeaderTypeOK'
  <2>1. replicating' \in [Node -> [Node -> CallSet \cup {Nil}]]
    BY <1>3, <1>4 DEF Driven
  <2> QED
    BY <1>2, <2>1 DEF LeaderTypeOK, CallSet, replicateOnceFails
<1>18. HistoryTypeOK' /\ TaskTypeOK' /\ ElecTypeOK'
  BY <1>2, <1>9, ElecUnchanged DEF HistoryTypeOK, TaskTypeOK, replicateOnceFails
<1> QED
  BY <1>2, <1>13, <1>15, <1>16, <1>17, <1>18 DEF TypeInv, TypeOK, StoreInv

\* The three handlers of a leader's messages: no bookkeeping of the receiver
\* as a leader changes.
LEMMA HandlerType ==
  ASSUME TypeInv, NEW m \in requests, NEW x, ResultOK(m.type, x), Respond(m, x), ElecTypeOK',
         StoreTypeOK', (\A j \in Node : StoreOK(store[j]))',
         UNCHANGED <<leaderVars, reads, catchUp, budget, history>>
  PROVE  TypeInv'
<1> USE TypeFacts
<1>1. NetTypeOK' /\ SnapshotsOK'
  BY RespondNet
<1>2. OneCallPerPeer' /\ HeartbeatCalls'
  BY RespondCalls DEF leaderVars
<1>3. LeaderTypeOK' /\ HistoryTypeOK' /\ TaskTypeOK'
  BY LeaderUnchanged, HistoryUnchanged DEF TaskTypeOK
<1> QED
  BY <1>1, <1>2, <1>3 DEF TypeInv, TypeOK, StoreInv

LEMMA AppendEntriesType ==
  ASSUME TypeInv, NEW m \in requests, handleAppendEntries(m)
  PROVE  TypeInv'
<1> USE TypeFacts
<1> DEFINE i == m.dst
           s == store[i]
           merged == [s EXCEPT !.log = MergeEntries(s.log, s.commitIndex, m.entries)]
           t == FollowCommit(merged, m.leaderCommit)
<1>1. m.type = "AppendEntries" /\ i \in Node /\ m.src \in Node /\ m.term \in Nat
      /\ m.entries \in Seq(EntryOf(Stroke)) /\ m.leaderCommit \in Nat
  BY RequestFields DEF handleAppendEntries, Received, AppendEntriesSet
<1>2. StoreOK(t)
  <2>1. StoreOK(merged)
    BY <1>1, MergeOK
  <2> HIDE DEF merged
  <2> QED
    BY <1>1, <2>1, FollowCommitOK
<1>3. /\ UNCHANGED elecVars \/ FollowLeader(m)
      /\ UNCHANGED store \/ store' = [store EXCEPT ![i] = t]
      /\ \E b \in BOOLEAN : Respond(m, AppendEntriesResult(i, b))
      /\ UNCHANGED <<leaderVars, reads, catchUp, budget, history>>
  BY DEF handleAppendEntries
<1> HIDE DEF t
<1>4. ElecTypeOK'
  BY <1>1, <1>3, ElecUnchanged, FollowLeaderType
<1>5. StoreTypeOK' /\ (\A j \in Node : StoreOK(store[j]))'
  BY <1>1, <1>2, <1>3, StoresUnchanged, OneStoreChanges
<1>6. PICK b \in BOOLEAN : Respond(m, AppendEntriesResult(i, b))
  BY <1>3
<1>7. ResultOK(m.type, AppendEntriesResult(i, b))
  <2>1. getLength(store'[i].log) \in Nat
    BY <1>1, <1>5, StoreFields
  <2> QED
    BY <1>1, <2>1 DEF ResultOK, AppendEntriesResult
<1> QED
  BY <1>3, <1>4, <1>5, <1>6, <1>7, HandlerType

LEMMA InstallSnapshotType ==
  ASSUME TypeInv, NEW m \in requests, handleInstallSnapshot(m)
  PROVE  TypeInv'
<1> USE TypeFacts
<1> DEFINE i == m.dst
           t == applySnapshot(store[i], m.snapshot)
<1>1. m.type = "InstallSnapshot" /\ i \in Node /\ m.src \in Node /\ m.term \in Nat
      /\ SnapshotOK(m.snapshot)
  BY RequestFields DEF handleInstallSnapshot, Received, SnapshotsOK
<1>2. StoreOK(t)
  BY <1>1, ApplySnapshotOK
<1>3. /\ UNCHANGED elecVars \/ FollowLeader(m)
      /\ UNCHANGED store \/ store' = [store EXCEPT ![i] = t]
      /\ Respond(m, [success |-> TRUE])
      /\ UNCHANGED <<leaderVars, reads, catchUp, budget, history>>
  BY DEF handleInstallSnapshot
<1> HIDE DEF t
<1>4. ElecTypeOK'
  BY <1>1, <1>3, ElecUnchanged, FollowLeaderType
<1>5. StoreTypeOK' /\ (\A j \in Node : StoreOK(store[j]))'
  BY <1>1, <1>2, <1>3, StoresUnchanged, OneStoreChanges
<1>6. ResultOK(m.type, [success |-> TRUE])
  BY <1>1 DEF ResultOK
<1> QED
  BY <1>3, <1>4, <1>5, <1>6, HandlerType

-----------------------------------------------------------------------------
(* Reads keep the invariant.                                               *)

LEMMA HeartbeatType ==
  ASSUME TypeInv, NEW m \in requests, handleHeartbeat(m)
  PROVE  TypeInv'
<1> USE TypeFacts
<1> DEFINE i == m.dst
           t == FollowCommit(store[i], m.leaderCommit)
           x == [success |-> m.term >= currentTerm[i]]
<1>1. m.type = "Heartbeat" /\ i \in Node /\ m.src \in Node /\ m.term \in Nat
      /\ m.leaderCommit \in Nat
  BY RequestFields DEF handleHeartbeat, Received, HeartbeatSet
<1>2. StoreOK(t)
  BY <1>1, FollowCommitOK
<1>3. /\ UNCHANGED elecVars \/ FollowLeader(m)
      /\ UNCHANGED store \/ store' = [store EXCEPT ![i] = t]
      /\ Respond(m, x)
      /\ UNCHANGED <<leaderVars, reads, catchUp, budget, history>>
  BY DEF handleHeartbeat
<1>4. ResultOK(m.type, x)
  BY <1>1 DEF ResultOK
<1> HIDE DEF t, x
<1>5. ElecTypeOK'
  BY <1>1, <1>3, ElecUnchanged, FollowLeaderType
<1>6. StoreTypeOK' /\ (\A j \in Node : StoreOK(store[j]))'
  BY <1>1, <1>2, <1>3, StoresUnchanged, OneStoreChanges
<1> QED
  BY <1>3, <1>4, <1>5, <1>6, HandlerType

LEMMA ReadBoardStateType ==
  ASSUME TypeInv, NEW i \in Node, readBoardState(i)
  PROVE  TypeInv'
<1> USE TypeFacts
<1> DEFINE d == [term |-> currentTerm[i], waits |-> Peers(i), acks |-> {}, terms |-> {},
                 superseded |-> \E e \in elected : e[1] > currentTerm[i], acked |-> acked]
<1>1. reads' = [reads EXCEPT ![i] = d]
  BY DEF readBoardState
<1>2. d \in ReadSet /\ d /= Nil /\ d.waits = Peers(i)
  <2>1. (\E e \in elected : e[1] > currentTerm[i]) \in BOOLEAN
    OBVIOUS
  <2>2. d \in ReadSet
    BY <2>1 DEF ReadSet, Peers, ElecTypeOK, HistoryTypeOK
  <2> QED
    BY <2>2, NilAssumption
<1> HIDE DEF d
<1>3. ASSUME NEW m \in requests' \ requests
      PROVE  m \in HeartbeatSet /\ m.type = "Heartbeat" /\ m.src = i /\ m.dst \in Peers(i)
             /\ ~m.late /\ m.term = currentTerm[i] /\ m.leaderCommit = store[i].commitIndex
  <2>1. PICK p \in Peers(i) :
          m = [type |-> "Heartbeat", src |-> i, dst |-> p, term |-> currentTerm[i],
               leaderCommit |-> store[i].commitIndex, late |-> FALSE]
    BY DEF readBoardState
  <2>2. p \in Node /\ currentTerm[i] \in Nat /\ store[i].commitIndex \in Nat
    BY StoreFields DEF Peers, ElecTypeOK
  <2> QED
    BY <2>1, <2>2 DEF HeartbeatSet
<1>4. NetTypeOK'
  BY <1>3 DEF NetTypeOK, RequestSet, readBoardState
<1>5. SnapshotsOK'
  BY <1>3 DEF SnapshotsOK, readBoardState
<1>6. OneCallPerPeer'
  BY <1>3, CallsKept DEF readBoardState, Replication, leaderVars
<1>7. reads' \in [Node -> ReadSet \cup {Nil}] /\ reads[i] = Nil /\ reads'[i] = d
      /\ \A j \in Node : j /= i => reads'[j] = reads[j]
  BY <1>1, <1>2 DEF TaskTypeOK, readBoardState
<1>8. \A m \in requests : m.type = "Heartbeat" /\ ~m.late => m.src /= i
  BY <1>7 DEF HeartbeatCalls
<1>9. \A r \in replies : r.type = "Heartbeat" => r.dst /= i
  BY <1>7 DEF HeartbeatCalls
<1>10. HeartbeatCalls'
  <2>1. ASSUME NEW m \in requests', m.type = "Heartbeat", ~m.late
        PROVE  /\ reads'[m.src] /= Nil
               /\ m.dst \in reads'[m.src].waits
               /\ \A q \in requests' : /\ q.type = "Heartbeat" /\ ~q.late
                                       /\ q.src = m.src /\ q.dst = m.dst
                                       => q = m
    <3>1. CASE m \in requests
      <4>1. m.src \in Node /\ m.src /= i
        BY <1>8, <2>1, <3>1, RequestFields
      <4>2. reads'[m.src] = reads[m.src]
        BY <1>7, <4>1
      <4> QED
        BY <1>3, <2>1, <3>1, <4>1, <4>2 DEF HeartbeatCalls
    <3>2. CASE m \notin requests
      <4>1. m.src = i /\ m.dst \in Peers(i)
        BY <1>3, <3>2
      <4>2. \A q \in requests' : q.type = "Heartbeat" /\ ~q.late /\ q.src = i
                                 => q \in requests' \ requests
        BY <1>8
      <4>3. \A q \in requests' \ requests :
              q.dst = m.dst => q = [type |-> "Heartbeat", src |-> i, dst |-> m.dst,
                                    term |-> currentTerm[i],
                                    leaderCommit |-> store[i].commitIndex, late |-> FALSE]
        BY DEF readBoardState
      <4> QED
        BY <1>2, <1>7, <3>2, <4>1, <4>2, <4>3
    <3> QED
      BY <3>1, <3>2
  <2>2. ASSUME NEW r \in replies', r.type = "Heartbeat"
        PROVE  /\ reads'[r.dst] /= Nil
               /\ r.src \in reads'[r.dst].waits
               /\ \A m \in requests' : m.type = "Heartbeat" /\ m.src = r.dst /\ m.dst = r.src
                                       => m.late
               /\ \A q \in replies' : q.type = "Heartbeat" /\ q.src = r.src /\ q.dst = r.dst
                                      => q = r
    <3>1. r \in replies /\ replies' = replies
      BY DEF readBoardState
    <3>2. r.dst \in Node /\ r.dst /= i
      BY <1>9, <2>2, <3>1, ReplyFields
    <3>3. reads'[r.dst] = reads[r.dst]
      BY <1>7, <3>2
    <3> QED
      BY <1>3, <2>2, <3>1, <3>2, <3>3 DEF HeartbeatCalls
  <2> QED
    BY <2>1, <2>2 DEF HeartbeatCalls
<1>11. TaskTypeOK'
  BY <1>7, SpendType DEF TaskTypeOK, readBoardState
<1>12. ElecTypeOK' /\ LeaderTypeOK' /\ HistoryTypeOK' /\ StoreTypeOK'
       /\ (\A j \in Node : StoreOK(store[j]))'
  BY ElecUnchanged, LeaderUnchanged, HistoryUnchanged, StoresUnchanged DEF readBoardState
<1> QED
  BY <1>4, <1>5, <1>6, <1>10, <1>11, <1>12 DEF TypeInv, TypeOK, StoreInv

LEMMA ReadSettledType ==
  ASSUME TypeInv, NEW i \in Node, NEW d \in ReadSet, ReadSettled(i, d)
  PROVE  /\ ElecTypeOK'
         /\ reads' = [reads EXCEPT ![i] = IF d.waits = {} THEN Nil ELSE d]
         /\ reads' \in [Node -> ReadSet \cup {Nil}]
         /\ served' \subseteq ServedSet
<1> USE TypeFacts
<1> DEFINE s == [term |-> d.term, superseded |-> d.superseded, acked |-> d.acked,
                 strokes |-> store[i].boardEvents]
<1>1. reads \in [Node -> ReadSet \cup {Nil}] /\ served \subseteq ServedSet
  BY DEF TaskTypeOK, HistoryTypeOK
<1>2. s \in ServedSet
  BY StoreFields DEF ServedSet, ReadSet
<1>3. served' = served \/ served' = served \cup {s}
  BY DEF ReadSettled
<1>4. reads' = [reads EXCEPT ![i] = IF d.waits = {} THEN Nil ELSE d]
  BY DEF ReadSettled
<1>5. ElecTypeOK'
  <2>1. CASE UNCHANGED elecVars
    BY <2>1, ElecUnchanged
  <2>2. ASSUME NEW t \in d.terms, becomeFollower(i, t), UNCHANGED <<leaderId, leaderAddr>>
        PROVE  ElecTypeOK'
    <3>1. t \in Nat
      BY DEF ReadSet
    <3> QED
      BY <2>2, <3>1, BecomeFollowerType
  <2> QED
    BY <2>1, <2>2 DEF ReadSettled
<1> HIDE DEF s
<1> QED
  BY <1>1, <1>2, <1>3, <1>4, <1>5

\* The call of i's read to p has settled, and left no trace in the network.
LEMMA HeartbeatSettled ==
  ASSUME TypeInv, NEW i \in Node, NEW p \in Node, NEW d \in ReadSet,
         reads[i] /= Nil, d.waits = reads[i].waits \ {p},
         reads' = [reads EXCEPT ![i] = IF d.waits = {} THEN Nil ELSE d],
         \A m \in requests' : \/ m.late
                              \/ /\ m \in requests
                                 /\ ~(m.type = "Heartbeat" /\ m.src = i /\ m.dst = p),
         \A r \in replies' : /\ r \in replies
                             /\ ~(r.type = "Heartbeat" /\ r.dst = i /\ r.src = p)
  PROVE  HeartbeatCalls'
<1> USE TypeFacts
<1>1. d /= Nil
  BY NilAssumption
<1>2. /\ \A j \in Node : j /= i => reads'[j] = reads[j]
      /\ d.waits /= {} => reads'[i] = d
  BY DEF TaskTypeOK
<1>3. ASSUME NEW j \in Node, NEW q \in Node, reads[j] /= Nil, q \in reads[j].waits,
             ~(j = i /\ q = p)
      PROVE  reads'[j] /= Nil /\ q \in reads'[j].waits
  BY <1>1, <1>2, <1>3
<1>4. ASSUME NEW m \in requests', m.type = "Heartbeat", ~m.late
      PROVE  /\ reads'[m.src] /= Nil
             /\ m.dst \in reads'[m.src].waits
             /\ \A q \in requests' : /\ q.type = "Heartbeat" /\ ~q.late
                                     /\ q.src = m.src /\ q.dst = m.dst
                                     => q = m
  <2>1. m \in requests /\ m.src \in Node /\ m.dst \in Node /\ ~(m.src = i /\ m.dst = p)
    BY <1>4, RequestFields
  <2> QED
    BY <1>3, <1>4, <2>1 DEF HeartbeatCalls
<1>5. ASSUME NEW r \in replies', r.type = "Heartbeat"
      PROVE  /\ reads'[r.dst] /= Nil
             /\ r.src \in reads'[r.dst].waits
             /\ \A m \in requests' : m.type = "Heartbeat" /\ m.src = r.dst /\ m.dst = r.src
                                     => m.late
             /\ \A q \in replies' : q.type = "Heartbeat" /\ q.src = r.src /\ q.dst = r.dst
                                    => q = r
  <2>1. r \in replies /\ r.src \in Node /\ r.dst \in Node /\ ~(r.dst = i /\ r.src = p)
    BY <1>5, ReplyFields
  <2> QED
    BY <1>3, <1>5, <2>1 DEF HeartbeatCalls
<1> QED
  BY <1>4, <1>5 DEF HeartbeatCalls

LEMMA HeartbeatReplyType ==
  ASSUME TypeInv, NEW r \in replies, heartbeatReply(r)
  PROVE  TypeInv'
<1> USE TypeFacts
<1> DEFINE i == r.dst
           d == [reads[i] EXCEPT !.waits = @ \ {r.src}, !.terms = @ \cup {r.term},
                                 !.acks = IF r.result.success THEN @ \cup {r.src} ELSE @]
<1>1. i \in Node /\ r.src \in Node /\ r.term \in Nat /\ r.type = "Heartbeat"
  BY ReplyFields DEF heartbeatReply, Answer
<1>2. reads[i] /= Nil /\ reads[i] \in ReadSet
  BY <1>1 DEF HeartbeatCalls, TaskTypeOK
<1>3. d \in ReadSet /\ d.waits = reads[i].waits \ {r.src}
  BY <1>1, <1>2 DEF ReadSet
<1>4. ReadSettled(i, d) /\ replies' = replies \ {r} /\ requests' = requests
  BY DEF heartbeatReply
<1> HIDE DEF d
<1>5. /\ ElecTypeOK'
      /\ reads' = [reads EXCEPT ![i] = IF d.waits = {} THEN Nil ELSE d]
      /\ reads' \in [Node -> ReadSet \cup {Nil}]
      /\ served' \subseteq ServedSet
  BY <1>1, <1>3, <1>4, ReadSettledType
<1>6. /\ \A m \in requests' : \/ m.late
                              \/ /\ m \in requests
                                 /\ ~(m.type = "Heartbeat" /\ m.src = i /\ m.dst = r.src)
      /\ \A a \in replies' : /\ a \in replies
                             /\ ~(a.type = "Heartbeat" /\ a.dst = i /\ a.src = r.src)
  BY <1>1, <1>4 DEF HeartbeatCalls
<1>7. HeartbeatCalls'
  BY <1>1, <1>2, <1>3, <1>5, <1>6, HeartbeatSettled
<1>8. OneCallPerPeer'
  BY <1>4, CallsKept DEF heartbeatReply, leaderVars
<1>9. NetTypeOK' /\ SnapshotsOK'
  BY <1>4 DEF NetTypeOK, SnapshotsOK
<1>10. HistoryTypeOK' /\ TaskTypeOK'
  BY <1>5 DEF HistoryTypeOK, TaskTypeOK, heartbeatReply
<1>11. LeaderTypeOK' /\ StoreTypeOK' /\ (\A j \in Node : StoreOK(store[j]))'
  BY LeaderUnchanged, StoresUnchanged DEF heartbeatReply
<1> QED
  BY <1>5, <1>7, <1>8, <1>9, <1>10, <1>11 DEF TypeInv, TypeOK, StoreInv

LEMMA HeartbeatFailsType ==
  ASSUME TypeInv, NEW i \in Node, NEW p \in Peers(i), heartbeatFails(i, p)
  PROVE  TypeInv'
<1> USE TypeFacts
<1> DEFINE d == [reads[i] EXCEPT !.waits = @ \ {p}]
           asked == {m \in requests : m.type = "Heartbeat" /\ m.src = i /\ m.dst = p /\ ~m.late}
<1>1. p \in Node /\ reads[i] /= Nil /\ reads[i] \in ReadSet
  BY DEF Peers, heartbeatFails, TaskTypeOK
<1>2. d \in ReadSet /\ d.waits = reads[i].waits \ {p}
  BY <1>1 DEF ReadSet
<1>3. ReadSettled(i, d) /\ CallFails(asked, i, p, {"Heartbeat"}, {}) /\ asked \subseteq requests
  BY DEF heartbeatFails
<1>4. \A m \in requests \ asked : m.late \/ ~(m.type = "Heartbeat" /\ m.src = i /\ m.dst = p)
  OBVIOUS
<1> HIDE DEF d, asked
<1>5. /\ ElecTypeOK'
      /\ reads' = [reads EXCEPT ![i] = IF d.waits = {} THEN Nil ELSE d]
      /\ reads' \in [Node -> ReadSet \cup {Nil}]
      /\ served' \subseteq ServedSet
  BY <1>2, <1>3, ReadSettledType
<1>6. /\ replies' = {r \in replies : ~(r.dst = i /\ r.src = p /\ r.type \in {"Heartbeat"})}
      /\ requests' \subseteq (requests \ asked) \cup Late(asked) \cup {}
      /\ budget' \in BudgetSet
      /\ asked \subseteq RequestSet
  BY <1>3, CallFailsEffect
<1>7. \A m \in Late(asked) : m.late
  BY <1>6, LateSet
<1>8. /\ \A m \in requests' : \/ m.late
                              \/ /\ m \in requests
                                 /\ ~(m.type = "Heartbeat" /\ m.src = i /\ m.dst = p)
      /\ \A r \in replies' : /\ r \in replies
                             /\ ~(r.type = "Heartbeat" /\ r.dst = i /\ r.src = p)
  BY <1>4, <1>6, <1>7
<1>9. HeartbeatCalls'
  BY <1>1, <1>2, <1>5, <1>8, HeartbeatSettled
<1>10. OneCallPerPeer'
  BY <1>8, CallsKept DEF heartbeatFails, leaderVars
<1>11. NetTypeOK' /\ SnapshotsOK'
  BY <1>3, CallFailsNet
<1>12. HistoryTypeOK' /\ TaskTypeOK'
  BY <1>5, <1>6 DEF HistoryTypeOK, TaskTypeOK, heartbeatFails
<1>13. LeaderTypeOK' /\ StoreTypeOK' /\ (\A j \in Node : StoreOK(store[j]))'
  BY LeaderUnchanged, StoresUnchanged DEF heartbeatFails
<1> QED
  BY <1>5, <1>9, <1>10, <1>11, <1>12, <1>13 DEF TypeInv, TypeOK, StoreInv

-----------------------------------------------------------------------------
(* Catch-up and restarts keep the invariant.                               *)

LEMMA SyncLogArgsType ==
  ASSUME TypeInv, NEW i \in Node, NEW t \in Node
  PROVE  SyncLogArgs(i, t) \in RequestSet /\ SyncLogArgs(i, t).type = "SyncLog"
<1>1. currentTerm[i] \in Nat /\ getLastIndex(store[i].log) + 1 \in Nat
  BY TypeFacts, StoreFields DEF ElecTypeOK
<1> QED
  BY <1>1 DEF SyncLogArgs, RequestSet, SyncLogSet

LEMMA RequestCatchUpType ==
  ASSUME TypeInv, NEW i \in Node, requestCatchUp(i)
  PROVE  TypeInv'
<1> USE TypeFacts
<1>1. \A m \in requests' \ requests : m \in RequestSet /\ m.type = "SyncLog"
  <2>1. \A m \in requests' \ requests : \E t \in Node : m = SyncLogArgs(i, t)
    BY ZenonT(60) DEF requestCatchUp, Peers, ElecTypeOK
  <2> QED
    BY <2>1, SyncLogArgsType
<1>2. catchUp' \in [Node -> CatchUpSet]
  <2>1. CatchUpDone \in CatchUpSet
    BY DEF CatchUpDone, CatchUpSet
  <2>2. \A t \in Node, R \in SUBSET Node : Asking(t, R) \in CatchUpSet
    BY DEF Asking, CatchUpSet
  <2> DEFINE targets == IF leaderAddr[i] /= Nil THEN {leaderAddr[i]} ELSE Peers(i)
  <2>3. targets \subseteq Node
    BY DEF Peers, ElecTypeOK
  <2>4. \/ \E t \in targets : catchUp' = [catchUp EXCEPT ![i] = Asking(t, targets \ {t})]
        \/ catchUp' = [catchUp EXCEPT ![i] = CatchUpDone]
    BY DEF requestCatchUp
  <2> HIDE DEF targets
  <2>5. PICK c \in CatchUpSet : catchUp' = [catchUp EXCEPT ![i] = c]
    <3>1. ASSUME NEW t \in targets
          PROVE  Asking(t, targets \ {t}) \in CatchUpSet
      BY <2>2, <2>3
    <3> QED
      BY <2>1, <2>4, <3>1
  <2> QED
    BY <2>5 DEF TaskTypeOK
<1>3. replies' = replies
  BY DEF requestCatchUp
<1>4. NetTypeOK' /\ SnapshotsOK'
  BY <1>1, <1>3 DEF NetTypeOK, SnapshotsOK
<1>5. OneCallPerPeer' /\ HeartbeatCalls'
  BY <1>1, <1>3, CallsKept, HeartbeatsKept DEF requestCatchUp, Replication, leaderVars
<1>6. TaskTypeOK'
  BY <1>2, SpendType DEF TaskTypeOK, requestCatchUp
<1>7. ElecTypeOK' /\ LeaderTypeOK' /\ HistoryTypeOK' /\ StoreTypeOK'
      /\ (\A j \in Node : StoreOK(store[j]))'
  BY ElecUnchanged, LeaderUnchanged, HistoryUnchanged, StoresUnchanged DEF requestCatchUp
<1> QED
  BY <1>4, <1>5, <1>6, <1>7 DEF TypeInv, TypeOK, StoreInv

LEMMA SyncLogResultType ==
  ASSUME NEW s, StoreOK(s), NEW n \in Nat
  PROVE  ResultOK("SyncLog", SyncLogResult(s, n))
<1> DEFINE es == EntriesUpTo(getEntriesFrom(s.log, n), s.commitIndex)
<1>1. s.log \in LogOf(Stroke) /\ s.commitIndex \in Nat
  BY StoreFields
<1>2. getEntriesFrom(s.log, n) \in Seq(EntryOf(Stroke))
  BY <1>1, EntriesFromType
<1>3. es \in Seq(EntryOf(Stroke))
  BY <1>1, <1>2, FilterType
<1>4. SnapshotOK(loadSnapshot(s)) /\ loadSnapshot(s) \in SnapshotSet
  BY LoadSnapshotOK DEF SnapshotOK
<1>5. <<>> \in Seq(EntryOf(Stroke))
  BY EmptySeq
<1>6. CASE n <= s.log.lastIncludedIndex
  <2>1. SyncLogResult(s, n) = [commitIndex |-> s.commitIndex, snapshot |-> loadSnapshot(s),
                               entries |-> <<>>]
    BY <1>6 DEF SyncLogResult
  <2> QED
    BY <1>1, <1>4, <1>5, <2>1 DEF ResultOK
<1>7. CASE ~(n <= s.log.lastIncludedIndex)
  <2>1. SyncLogResult(s, n) = [commitIndex |-> s.commitIndex, snapshot |-> Nil, entries |-> es]
    BY <1>7 DEF SyncLogResult
  <2> HIDE DEF es
  <2> QED
    BY <1>1, <1>3, <2>1 DEF ResultOK
<1> QED
  BY <1>6, <1>7

LEMMA HandleSyncLogType ==
  ASSUME TypeInv, NEW m \in requests, handleSyncLog(m)
  PROVE  TypeInv'
<1> USE TypeFacts
<1> DEFINE x == SyncLogResult(store[m.dst], m.fromIndex)
<1>1. m.type = "SyncLog" /\ m.dst \in Node /\ m.src \in Node /\ m.term \in Nat
      /\ m.fromIndex \in Nat
  BY RequestFields DEF handleSyncLog, Received, SyncLogSet
<1>2. ResultOK(m.type, x) /\ Respond(m, x)
  BY <1>1, SyncLogResultType DEF handleSyncLog
<1> HIDE DEF x
<1>3. ElecTypeOK'
  BY <1>1, ElecUnchanged, BecomeFollowerType DEF handleSyncLog
<1>4. StoreTypeOK' /\ (\A j \in Node : StoreOK(store[j]))'
  BY StoresUnchanged DEF handleSyncLog
<1> QED
  BY <1>2, <1>3, <1>4, HandlerType DEF handleSyncLog

LEMMA SyncedOK ==
  ASSUME NEW s, StoreOK(s), NEW x, ResultOK("SyncLog", x)
  PROVE  StoreOK(Synced(s, x))
<1> DEFINE behind == /\ x.snapshot /= Nil
                     /\ x.snapshot.lastIncludedIndex > s.commitIndex
           base == IF behind THEN applySnapshot(s, x.snapshot) ELSE s
           merged == [base EXCEPT !.log = MergeEntries(base.log, base.commitIndex, x.entries)]
<1>1. x.commitIndex \in Nat /\ x.entries \in Seq(EntryOf(Stroke))
      /\ (x.snapshot = Nil \/ SnapshotOK(x.snapshot))
  BY DEF ResultOK
<1>2. StoreOK(base)
  BY <1>1, ApplySnapshotOK
<1>3. Synced(s, x) = FollowCommit(merged, x.commitIndex)
  BY DEF Synced
<1> HIDE DEF base
<1>4. StoreOK(merged)
  BY <1>1, <1>2, MergeOK
<1> HIDE DEF merged
<1> QED
  BY <1>1, <1>3, <1>4, FollowCommitOK

LEMMA SyncLogReplyType ==
  ASSUME TypeInv, NEW r \in replies, syncLogReply(r)
  PROVE  TypeInv'
<1> USE TypeFacts
<1> DEFINE i == r.dst
           s == Synced(store[i], r.result)
<1>1. i \in Node /\ r.src \in Node /\ r.term \in Nat /\ r.type = "SyncLog"
  BY ReplyFields DEF syncLogReply, Answer
<1>2. ResultOK("SyncLog", r.result)
  <2>1. r \in ReplyOf("SyncLog", [commitIndex : Nat, snapshot : SnapshotSet \cup {Nil},
                                  entries : Seq(EntryOf(Stroke))])
    BY <1>1 DEF ReplySet, ReplyOf
  <2>2. r.result \in [commitIndex : Nat, snapshot : SnapshotSet \cup {Nil},
                      entries : Seq(EntryOf(Stroke))]
    BY <2>1 DEF ReplyOf
  <2>3. r.result.snapshot = Nil \/ SnapshotOK(r.result.snapshot)
    BY <1>1 DEF SnapshotsOK
  <2> QED
    BY <2>2, <2>3 DEF ResultOK
<1>3. StoreOK(s) /\ store' = [store EXCEPT ![i] = s]
  BY <1>1, <1>2, SyncedOK DEF syncLogReply
<1> HIDE DEF s
<1>4. StoreTypeOK' /\ (\A j \in Node : StoreOK(store[j]))'
  BY <1>1, <1>3, OneStoreChanges
<1>5. ElecTypeOK'
  BY <1>1, ElecUnchanged, BecomeFollowerType DEF syncLogReply
<1>6. NetTypeOK' /\ SnapshotsOK'
  BY DEF NetTypeOK, SnapshotsOK, syncLogReply
<1>7. OneCallPerPeer' /\ HeartbeatCalls'
  BY CallsKept, HeartbeatsKept DEF syncLogReply, leaderVars
<1>8. TaskTypeOK'
  BY <1>1 DEF TaskTypeOK, syncLogReply, CatchUpDone, CatchUpSet
<1>9. LeaderTypeOK' /\ HistoryTypeOK'
  BY LeaderUnchanged, HistoryUnchanged DEF syncLogReply
<1> QED
  BY <1>4, <1>5, <1>6, <1>7, <1>8, <1>9 DEF TypeInv, TypeOK, StoreInv

LEMMA SyncLogFailsType ==
  ASSUME TypeInv, NEW i \in Node, syncLogFails(i)
  PROVE  TypeInv'
<1> USE TypeFacts
<1> DEFINE asked == {m \in requests : m.type = "SyncLog" /\ m.src = i /\ ~m.late}
<1>1. PICK c, sent : /\ c \in CatchUpSet /\ catchUp' = [catchUp EXCEPT ![i] = c]
                     /\ \A m \in sent : \E t \in Node : m = SyncLogArgs(i, t)
                     /\ CallFails(asked, i, catchUp[i].target, {"SyncLog"}, sent)
  <2>1. catchUp[i] \in CatchUpSet /\ catchUp[i].rest \subseteq Node
    BY DEF TaskTypeOK, CatchUpSet
  <2>2. CatchUpDone \in CatchUpSet
    BY DEF CatchUpDone, CatchUpSet
  <2>3. \A t \in Node, R \in SUBSET Node : Asking(t, R) \in CatchUpSet
    BY DEF Asking, CatchUpSet
  <2>6. \/ /\ catchUp' = [catchUp EXCEPT ![i] = CatchUpDone]
           /\ CallFails(asked, i, catchUp[i].target, {"SyncLog"}, {})
        \/ \E t \in catchUp[i].rest :
             /\ catchUp' = [catchUp EXCEPT ![i] = Asking(t, catchUp[i].rest \ {t})]
             /\ CallFails(asked, i, catchUp[i].target, {"SyncLog"}, {SyncLogArgs(i, t)})
    BY DEF syncLogFails
  <2> HIDE DEF asked
  <2>4. CASE /\ catchUp' = [catchUp EXCEPT ![i] = CatchUpDone]
             /\ CallFails(asked, i, catchUp[i].target, {"SyncLog"}, {})
    BY <2>2, <2>4
  <2>5. ASSUME NEW t \in catchUp[i].rest,
               catchUp' = [catchUp EXCEPT ![i] = Asking(t, catchUp[i].rest \ {t})],
               CallFails(asked, i, catchUp[i].target, {"SyncLog"}, {SyncLogArgs(i, t)})
        PROVE  \E c, sent : /\ c \in CatchUpSet /\ catchUp' = [catchUp EXCEPT ![i] = c]
                            /\ \A m \in sent : \E u \in Node : m = SyncLogArgs(i, u)
                            /\ CallFails(asked, i, catchUp[i].target, {"SyncLog"}, sent)
    <3>1. t \in Node /\ catchUp[i].rest \ {t} \in SUBSET Node
      BY <2>1
    <3>2. Asking(t, catchUp[i].rest \ {t}) \in CatchUpSet
      BY <2>3, <3>1
    <3>3. \A m \in {SyncLogArgs(i, t)} : \E u \in Node : m = SyncLogArgs(i, u)
      BY <3>1
    <3> QED
      BY <2>5, <3>2, <3>3
  <2> QED
    BY <2>4, <2>5, <2>6
<1>2. asked \subseteq requests
  OBVIOUS
<1> HIDE DEF asked
<1>3. \A m \in sent : m \in RequestSet /\ m.type = "SyncLog"
  BY <1>1, SyncLogArgsType
<1>4. NetTypeOK' /\ SnapshotsOK'
  BY <1>1, <1>2, <1>3, CallFailsNet
<1>5. /\ replies' \subseteq replies
      /\ requests' \subseteq requests \cup Late(asked) \cup sent
      /\ budget' \in BudgetSet
      /\ asked \subseteq RequestSet
  BY <1>1, <1>2, CallFailsEffect
<1>6. \A m \in Late(asked) : m.late
  BY <1>5, LateSet
<1>7. OneCallPerPeer'
  BY <1>3, <1>5, <1>6, CallsKept DEF syncLogFails, leaderVars, Replication
<1>8. HeartbeatCalls'
  BY <1>3, <1>5, <1>6, HeartbeatsKept DEF syncLogFails
<1>9. TaskTypeOK'
  BY <1>1, <1>5 DEF TaskTypeOK, syncLogFails
<1>10. ElecTypeOK' /\ LeaderTypeOK' /\ HistoryTypeOK' /\ StoreTypeOK'
       /\ (\A j \in Node : StoreOK(store[j]))'
  BY ElecUnchanged, LeaderUnchanged, HistoryUnchanged, StoresUnchanged DEF syncLogFails
<1> QED
  BY <1>4, <1>7, <1>8, <1>9, <1>10 DEF TypeInv, TypeOK, StoreInv

LEMMA RestartType ==
  ASSUME TypeInv, NEW i \in Node, Restart(i)
  PROVE  TypeInv'
<1> USE TypeFacts
<1> DEFINE mine == {m \in requests : m.src = i}
<1>1. requests' = {m \in requests : m.src /= i} \cup Late(mine)
      /\ replies' = {r \in replies : r.dst /= i}
  BY DEF Restart
<1>2. mine \subseteq requests /\ mine \subseteq RequestSet
  OBVIOUS
<1> HIDE DEF mine
<1>3. Late(mine) \subseteq RequestSet
      /\ \A l \in Late(mine) : l.late /\ \E m \in mine : l = [m EXCEPT !.late = TRUE]
  BY <1>2, LateSet
<1>4. ElecTypeOK'
  BY DEF ElecTypeOK, Restart, EndElection
<1>5. StoreTypeOK' /\ (\A j \in Node : StoreOK(store[j]))'
  <2>1. StoreOK(Recover(store[i])) /\ store' = [store EXCEPT ![i] = Recover(store[i])]
    BY RecoverOK DEF Restart, TypeInv, StoreInv
  <2> QED
    BY <2>1, OneStoreChanges
<1>6. LeaderTypeOK'
  BY DEF LeaderTypeOK, Restart
<1>7. TaskTypeOK'
  <2>1. budget' \in BudgetSet
    BY SpendType DEF TaskTypeOK, Restart
  <2>2. CatchUpDue \in CatchUpSet
    BY DEF CatchUpDue, CatchUpSet
  <2> QED
    BY <2>1, <2>2 DEF TaskTypeOK, Restart
<1>8. NetTypeOK'
  BY <1>1, <1>3 DEF NetTypeOK
<1>9. SnapshotsOK'
  <2>1. ASSUME NEW l \in requests', l.type = "InstallSnapshot"
        PROVE  SnapshotOK(l.snapshot)
    <3>1. CASE l \in requests
      BY <2>1, <3>1 DEF SnapshotsOK
    <3>2. CASE l \in Late(mine)
      <4>1. PICK m \in mine : l = [m EXCEPT !.late = TRUE]
        BY <1>3, <3>2
      <4>2. m \in requests /\ m.type = "InstallSnapshot" /\ l.snapshot = m.snapshot
        BY <1>2, <2>1, <4>1, LateFields
      <4> QED
        BY <4>2 DEF SnapshotsOK
    <3> QED
      BY <1>1, <3>1, <3>2
  <2> QED
    BY <1>1, <2>1 DEF SnapshotsOK
<1>10. \A j \in Node : j /= i => replicating'[j] = replicating[j] /\ reads'[j] = reads[j]
  BY DEF Restart, LeaderTypeOK, TaskTypeOK
<1>11. /\ \A m \in requests' : m.late \/ (m \in requests /\ m.src \in Node /\ m.src /= i)
       /\ \A r \in replies' : r \in replies /\ r.dst \in Node /\ r.dst /= i
  BY <1>1, <1>3, RequestFields, ReplyFields
<1>12. OneCallPerPeer'
  BY <1>10, <1>11 DEF OneCallPerPeer
<1>13. HeartbeatCalls'
  BY <1>10, <1>11 DEF HeartbeatCalls
<1>14. HistoryTypeOK'
  BY HistoryUnchanged DEF Restart
<1> QED
  BY <1>4, <1>5, <1>6, <1>7, <1>8, <1>9, <1>12, <1>13, <1>14 DEF TypeInv, TypeOK, StoreInv

-----------------------------------------------------------------------------
LEMMA TypeInvInit == Init => TypeInv
<1> SUFFICES ASSUME Init PROVE TypeInv
  OBVIOUS
<1>1. StoreOK(emptyStore) /\ emptyStore \in StoreSet
  BY EmptyStoreOK DEF StoreOK
<1>2. ElecTypeOK /\ LeaderTypeOK
  BY DEF Init, ElecTypeOK, LeaderTypeOK
<1>3. StoreTypeOK /\ \A i \in Node : StoreOK(store[i])
  BY <1>1 DEF Init, StoreTypeOK
<1>4. TaskTypeOK
  BY BoundAssumption DEF Init, TaskTypeOK, BudgetSet, CatchUpSet, CatchUpDue
<1>5. NetTypeOK /\ SnapshotsOK /\ OneCallPerPeer /\ HeartbeatCalls /\ HistoryTypeOK
  BY DEF Init, NetTypeOK, SnapshotsOK, OneCallPerPeer, HeartbeatCalls, HistoryTypeOK
<1> QED
  BY <1>2, <1>3, <1>4, <1>5 DEF TypeInv, TypeOK, StoreInv

LEMMA TypeInvStutter ==
  ASSUME TypeInv, UNCHANGED vars
  PROVE  TypeInv'
<1> USE TypeFacts DEF vars
<1>1. ElecTypeOK' /\ LeaderTypeOK' /\ HistoryTypeOK' /\ StoreTypeOK'
      /\ (\A i \in Node : StoreOK(store[i]))'
  BY ElecUnchanged, LeaderUnchanged, HistoryUnchanged, StoresUnchanged
<1>2. TaskTypeOK' /\ NetTypeOK' /\ SnapshotsOK'
  BY DEF TaskTypeOK, NetTypeOK, SnapshotsOK
<1>3. OneCallPerPeer' /\ HeartbeatCalls'
  BY CallsKept, HeartbeatsKept DEF leaderVars
<1> QED
  BY <1>1, <1>2, <1>3 DEF TypeInv, TypeOK, StoreInv

LEMMA TypeInvNext == TypeInv /\ [Next]_vars => TypeInv'
<1> SUFFICES ASSUME TypeInv, [Next]_vars PROVE TypeInv'
  OBVIOUS
<1>1. CASE UNCHANGED vars
  BY <1>1, TypeInvStutter
<1>2. ASSUME NEW i \in Node,
             \/ runElection(i) \/ sendHeartbeats(i) \/ readBoardState(i)
             \/ requestCatchUp(i) \/ syncLogFails(i) \/ Restart(i)
             \/ \E v \in Stroke : handleClientWrite(i, v)
      PROVE  TypeInv'
  BY <1>2, RunElectionType, SendHeartbeatsType, ReadBoardStateType, RequestCatchUpType,
     SyncLogFailsType, RestartType, ClientWriteType
<1>3. ASSUME NEW i \in Node, NEW p \in Peers(i),
             requestVoteFails(i, p) \/ replicateOnceFails(i, p) \/ heartbeatFails(i, p)
      PROVE  TypeInv'
  BY <1>3, RequestVoteFailsType, ReplicateOnceFailsType, HeartbeatFailsType
<1>4. ASSUME NEW m \in requests,
             \/ handleRequestVote(m) \/ handleAppendEntries(m) \/ handleInstallSnapshot(m)
             \/ handleHeartbeat(m) \/ handleSyncLog(m)
      PROVE  TypeInv'
  BY <1>4, RequestVoteType, AppendEntriesType, InstallSnapshotType, HeartbeatType,
     HandleSyncLogType
<1>5. ASSUME NEW r \in replies,
             \/ requestVoteReply(r) \/ replicateOnceReply(r) \/ heartbeatReply(r)
             \/ syncLogReply(r)
      PROVE  TypeInv'
  BY <1>5, RequestVoteReplyType, ReplicateOnceReplyType, HeartbeatReplyType, SyncLogReplyType
<1> QED
  BY <1>1, <1>2, <1>3, <1>4, <1>5 DEF Next

\* The inductive invariant: types, the order of the store's boundaries, and the
\* discipline of calls in flight hold in every reachable state, whatever the
\* number of replicas, strokes, elections, crashes and lost or late messages.
THEOREM TypeInvCorrect == Spec => []TypeInv
<1>1. Init => TypeInv
  BY TypeInvInit
<1>2. TypeInv /\ [Next]_vars => TypeInv'
  BY TypeInvNext
<1> QED
  BY <1>1, <1>2, PTL DEF Spec

\* Every handler keeps every variable in the type the TypeScript declarations
\* give it, and never leaves a nextIndex below 1.
THEOREM TypeCorrect == Spec => []TypeOK
<1>1. TypeInv => TypeOK
  BY DEF TypeInv
<1> QED
  BY <1>1, TypeInvCorrect, PTL

\* commitIndex stays between the snapshot boundary and the end of the log, with
\* one applied stroke per committed index, over append, truncation, compaction,
\* snapshot installation, catch-up and restart.
THEOREM CommitWithinLogCorrect == Spec => []CommitWithinLog
<1>1. TypeInv => CommitWithinLog
  BY DEF TypeInv, StoreInv, StoreOK, CommitWithinLog
<1> QED
  BY <1>1, TypeInvCorrect, PTL

\* driveReplication never has two live calls to the same peer, and every answer
\* replicateOnce reads belongs to the call it waits for.
THEOREM OneCallPerPeerCorrect == Spec => []OneCallPerPeer
<1>1. TypeInv => OneCallPerPeer
  BY DEF TypeInv
<1> QED
  BY <1>1, TypeInvCorrect, PTL

=============================================================================
