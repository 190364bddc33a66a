------------------------- MODULE RaftRecoveryProofs -------------------------
(***************************************************************************)
(* What a replica can rely on after a crash, while it waits, and when it   *)
(* serves a read, for every value of the constants of RaftNode: the        *)
(* constructor rebuilds the board (RestartRebuildsBoard), no call waits    *)
(* for an answer that cannot come (NoOrphanWait), and a read is confirmed  *)
(* only by a leader nobody had superseded when it began                    *)
(* (ReadNotSuperseded).                                                    *)
(***************************************************************************)
EXTENDS RaftElectionProofs, SequenceTheorems

-----------------------------------------------------------------------------
(* The board is a function of the snapshot and the committed log.          *)

\* The stroke at index n, as the snapshot and the log have it.
OnDisk(s, n) ==
  IF n <= s.log.lastIncludedIndex THEN s.snapshotBoards[n] ELSE getEntry(s.log, n).stroke

Derived(s) == \A n \in 1..s.commitIndex : s.boardEvents[n] = OnDisk(s, n)

\* maybeSnapshot has run since the commit index moved.
Compacted(s) == s.commitIndex - s.log.lastIncludedIndex < SnapshotThreshold

Rebuildable(s) == Derived(s) /\ Compacted(s)

LEMMA JoinedAt ==
  ASSUME NEW S, NEW x \in Seq(S), NEW y \in Seq(S)
  PROVE  /\ x \o y \in Seq(S) /\ Len(x \o y) = Len(x) + Len(y)
         /\ \A n \in 1..Len(x) : (x \o y)[n] = x[n]
         /\ \A n \in 1..Len(y) : (x \o y)[Len(x) + n] = y[n]
BY ConcatProperties

\* The strokes behind index b, up to index c.
LEMMA StrokesBehind ==
  ASSUME NEW l \in LogOf(Stroke), NEW b \in Nat, NEW c \in Nat,
         l.lastIncludedIndex <= b, b <= c, c <= getLastIndex(l)
  PROVE  /\ StrokesOf(l, b + 1, c) \in Seq(Stroke)
         /\ Len(StrokesOf(l, b + 1, c)) = c - b
         /\ \A k \in 1..(c - b) : StrokesOf(l, b + 1, c)[k] = getEntry(l, b + k).stroke
<1>1. b + 1 \in Nat /\ l.lastIncludedIndex < b + 1 /\ b + 1 <= c + 1
  BY LogIndexType
<1>2. (c - (b + 1)) + 1 = c - b
  OBVIOUS
<1>3. StrokesOf(l, b + 1, c) \in Seq(Stroke) /\ Len(StrokesOf(l, b + 1, c)) = c - b
  <2> DEFINE from == b + 1
  <2>1. /\ StrokesOf(l, from, c) \in Seq(Stroke)
        /\ Len(StrokesOf(l, from, c)) = (c - from) + 1
    <3>1. from \in Nat /\ l.lastIncludedIndex < from /\ from <= c + 1
      BY <1>1
    <3> HIDE DEF from
    <3> QED BY <3>1, StrokesType
  <2> QED
    BY <1>2, <2>1
<1>4. ASSUME NEW k \in 1..(c - b)
      PROVE  StrokesOf(l, b + 1, c)[k] = getEntry(l, b + k).stroke
  <2>1. ((b + 1) + k) - 1 = b + k /\ k \in 1..((c - (b + 1)) + 1)
    OBVIOUS
  <2>2. StrokesOf(l, b + 1, c)[k] = getEntry(l, ((b + 1) + k) - 1).stroke
    BY <2>1 DEF StrokesOf
  <2> QED
    BY <2>1, <2>2
<1> QED
  BY <1>3, <1>4

\* A board extended by the strokes behind it, up to c.
LEMMA BoardExtended ==
  ASSUME NEW l \in LogOf(Stroke), NEW b \in Seq(Stroke), NEW c \in Nat,
         l.lastIncludedIndex <= Len(b), Len(b) <= c, c <= getLastIndex(l)
  PROVE  LET x == b \o StrokesOf(l, Len(b) + 1, c) IN
         /\ x \in Seq(Stroke) /\ Len(x) = c
         /\ \A n \in 1..Len(b) : x[n] = b[n]
         /\ \A n \in 1..c : n > Len(b) => x[n] = getEntry(l, n).stroke
<1> DEFINE m == Len(b)
           new == StrokesOf(l, m + 1, c)
           x == b \o new
<1>0. m \in Nat
  OBVIOUS
<1>1. /\ new \in Seq(Stroke) /\ Len(new) = c - m
      /\ \A k \in 1..(c - m) : new[k] = getEntry(l, m + k).stroke
  <2> HIDE DEF m
  <2> QED BY <1>0, StrokesBehind DEF m
<1> HIDE DEF new
<1>2. /\ x \in Seq(Stroke) /\ Len(x) = m + Len(new)
      /\ \A n \in 1..m : x[n] = b[n]
      /\ \A n \in 1..Len(new) : x[m + n] = new[n]
  BY <1>1, JoinedAt
<1>3. Len(x) = c
  BY <1>0, <1>1, <1>2
<1>4. ASSUME NEW n \in 1..c, n > m PROVE x[n] = getEntry(l, n).stroke
  <2> DEFINE k == n - m
  <2>1. k \in 1..(c - m) /\ m + k = n
    BY <1>0, <1>4
  <2> HIDE DEF k, m, x
  <2> QED
    BY <1>1, <1>2, <2>1
<1> QED
  BY <1>2, <1>3, <1>4 DEF new

LEMMA RecoverChangesNothing ==
  ASSUME NEW s, StoreOK(s), Rebuildable(s), AllBehind(s.log)
  PROVE  Recover(s) = s
<1> DEFINE l == s.log
           m == l.lastIncludedIndex
           c == s.commitIndex
           x == s.snapshotBoards \o StrokesOf(l, m + 1, c)
<1>1. /\ l \in LogOf(Stroke) /\ m \in Nat /\ c \in Nat /\ m <= c /\ c <= getLastIndex(l)
      /\ s \in StoreSet /\ s.snapshotBoards \in Seq(Stroke) /\ s.boardEvents \in Seq(Stroke)
      /\ Len(s.snapshotBoards) = m /\ Len(s.boardEvents) = c
  BY StoreFields DEF StoreOK
<1>2. \A n \in 1..c : s.boardEvents[n] = OnDisk(s, n)
  BY DEF Rebuildable, Derived
<1>3. \A n \in 1..c : OnDisk(s, n) = IF n <= m THEN s.snapshotBoards[n] ELSE getEntry(l, n).stroke
  BY DEF OnDisk
<1>4. Recover(s) = maybeSnapshot([s EXCEPT !.boardEvents = x])
  <2>1. reloaded(l) = l
    BY <1>1, ReloadedSame DEF AllBehind
  <2>2. [s EXCEPT !.log = s.log, !.boardEvents = x] = [s EXCEPT !.boardEvents = x]
    BY <1>1 DEF StoreSet
  <2> QED
    BY <2>1, <2>2 DEF Recover
<1> HIDE DEF l, m, c
<1>5. /\ x \in Seq(Stroke) /\ Len(x) = c
      /\ \A n \in 1..m : x[n] = s.snapshotBoards[n]
      /\ \A n \in 1..c : n > m => x[n] = getEntry(l, n).stroke
  <2> DEFINE b == s.snapshotBoards
             y == b \o StrokesOf(l, Len(b) + 1, c)
  <2>1. b \in Seq(Stroke) /\ Len(b) = m
    BY <1>1
  <2>2. y = x
    BY <2>1
  <2> HIDE DEF b
  <2>3. /\ y \in Seq(Stroke) /\ Len(y) = c
        /\ \A n \in 1..Len(b) : y[n] = b[n]
        /\ \A n \in 1..c : n > Len(b) => y[n] = getEntry(l, n).stroke
    <3>1. l.lastIncludedIndex <= Len(b) /\ Len(b) <= c
      BY <1>1, <2>1 DEF m
    <3> QED
      BY <1>1, <2>1, <3>1, BoardExtended
  <2> QED
    BY <2>1, <2>2, <2>3 DEF b
<1> HIDE DEF x
<1>6. \A n \in 1..c : x[n] = s.boardEvents[n]
  BY <1>1, <1>2, <1>3, <1>5
<1>7. x = s.boardEvents
  BY <1>1, <1>5, <1>6, SeqEqual
<1>8. [s EXCEPT !.boardEvents = x] = s
  BY <1>1, <1>7 DEF StoreSet
<1> QED
  BY <1>4, <1>8 DEF maybeSnapshot, Rebuildable, Compacted

LEMMA SnapshotRebuilds ==
  ASSUME NEW s, StoreOK(s), Derived(s)
  PROVE  Rebuildable(maybeSnapshot(s))
<1>1. CASE s.commitIndex - s.log.lastIncludedIndex < SnapshotThreshold
  BY <1>1 DEF maybeSnapshot, Rebuildable, Compacted
<1>2. CASE ~(s.commitIndex - s.log.lastIncludedIndex < SnapshotThreshold)
  <2> DEFINE t == getTermAt(s.log, s.commitIndex)
             l == compact(s.log, s.commitIndex, t)
  <2>1. t \in Nat
    BY StoreFields, TermAtType
  <2> HIDE DEF t
  <2>2. l.lastIncludedIndex = s.commitIndex
    BY <2>1, StoreFields, CompactType
  <2>3. maybeSnapshot(s) = [s EXCEPT !.snapshotBoards = s.boardEvents, !.log = l]
    BY <1>2 DEF maybeSnapshot, takeSnapshot, t
  <2> HIDE DEF l
  <2>4. maybeSnapshot(s) = [log |-> l, commitIndex |-> s.commitIndex,
                            boardEvents |-> s.boardEvents, snapshotBoards |-> s.boardEvents]
    BY <2>3, StoreFields, ZenonT(60) DEF StoreSet
  <2> QED
    BY <2>2, <2>4, StoreFields, TuningAssumption DEF Rebuildable, Derived, Compacted, OnDisk
<1> QED
  BY <1>1, <1>2

LEMMA CommitRebuilds ==
  ASSUME NEW s, StoreOK(s), Derived(s), NEW c \in Nat, s.commitIndex <= c,
         c <= getLastIndex(s.log)
  PROVE  Rebuildable(CommitTo(s, c))
<1> DEFINE l == s.log
           m == s.commitIndex
           x == s.boardEvents \o StrokesOf(l, m + 1, c)
           t == [log |-> l, commitIndex |-> c, boardEvents |-> x,
                 snapshotBoards |-> s.snapshotBoards]
<1>1. /\ l \in LogOf(Stroke) /\ l.lastIncludedIndex \in Nat /\ m \in Nat
      /\ l.lastIncludedIndex <= m /\ m <= c /\ c <= getLastIndex(l) /\ s \in StoreSet
      /\ s.boardEvents \in Seq(Stroke) /\ Len(s.boardEvents) = m
      /\ s.snapshotBoards \in Seq(Stroke) /\ Len(s.snapshotBoards) = l.lastIncludedIndex
  BY StoreFields DEF StoreOK
<1>2. \A n \in 1..m : s.boardEvents[n] = OnDisk(s, n)
  BY DEF Derived
<1>3. CommitTo(s, c) = maybeSnapshot([s EXCEPT !.commitIndex = c, !.boardEvents = x])
  BY DEF CommitTo
<1>4. \A n \in 1..c : n > m => OnDisk(s, n) = getEntry(l, n).stroke
  BY <1>1 DEF OnDisk
<1> HIDE DEF m, l
<1>5. /\ x \in Seq(Stroke) /\ Len(x) = c
      /\ \A n \in 1..m : x[n] = s.boardEvents[n]
      /\ \A n \in 1..c : n > m => x[n] = getEntry(l, n).stroke
  BY <1>1, BoardExtended, ZenonT(60)
<1> HIDE DEF x
<1>6. StoreOK(t) /\ CommitTo(s, c) = maybeSnapshot(t)
  <2>1. l.lastIncludedIndex <= c
    BY <1>1
  <2>2. StoreOK(t)
    BY <1>1, <1>5, <2>1, StoreFromFields
  <2>3. s \in StoreSet /\ x \in Seq(Stroke)
    BY <1>1, <1>5
  <2>4. [s EXCEPT !.commitIndex = c, !.boardEvents = x]
          = [log |-> s.log, commitIndex |-> c, boardEvents |-> x,
             snapshotBoards |-> s.snapshotBoards]
    BY <2>3, CommitFields
  <2> QED
    BY <1>3, <2>2, <2>4 DEF l
<1>7. \A n \in 1..c : x[n] = OnDisk(s, n)
  BY <1>1, <1>2, <1>4, <1>5
<1>8. \A n \in 1..c : OnDisk(t, n) = OnDisk(s, n)
  BY DEF OnDisk, l
<1>9. Derived(t)
  BY <1>7, <1>8 DEF Derived
<1> HIDE DEF t
<1> QED
  BY <1>6, <1>9, SnapshotRebuilds

LEMMA FollowCommitRebuilds ==
  ASSUME NEW s, StoreOK(s), Rebuildable(s), NEW c \in Nat
  PROVE  Rebuildable(FollowCommit(s, c))
<1>1. CASE c > s.commitIndex
  <2> DEFINE n == Min({c, getLastIndex(s.log)})
  <2>1. n \in Nat /\ n \in {c, getLastIndex(s.log)} /\ n <= c /\ n <= getLastIndex(s.log)
    BY StoreFields, MinOfTwo
  <2>2. FollowCommit(s, c) = CommitTo(s, n)
    BY <1>1 DEF FollowCommit
  <2> HIDE DEF n
  <2>3. s.commitIndex <= n
    BY <1>1, <2>1, StoreFields
  <2> QED
    BY <2>1, <2>2, <2>3, CommitRebuilds DEF Rebuildable
<1>2. CASE ~(c > s.commitIndex)
  BY <1>2 DEF FollowCommit
<1> QED
  BY <1>1, <1>2

LEMMA InstallRebuilds ==
  ASSUME NEW s, StoreOK(s), NEW sn, SnapshotOK(sn)
  PROVE  Rebuildable(applySnapshot(s, sn))
<1> DEFINE n == sn.lastIncludedIndex
           t == sn.lastIncludedTerm
           l == installSnapshot(s.log, n, t)
<1>1. n \in Nat /\ t \in Nat
  BY DEF SnapshotOK, SnapshotSet
<1>2. l.lastIncludedIndex = n
  BY DEF installSnapshot
<1>3. applySnapshot(s, sn) = [log |-> l, commitIndex |-> n, boardEvents |-> sn.boards,
                              snapshotBoards |-> sn.boards]
  BY DEF applySnapshot
<1> HIDE DEF l, n
<1> QED
  BY <1>1, <1>2, <1>3, TuningAssumption DEF Rebuildable, Derived, Compacted, OnDisk

\* Another log with the same boundary and the same committed entries.
LEMMA SameCommittedRebuilds ==
  ASSUME NEW s, StoreOK(s), Rebuildable(s), NEW l,
         l.lastIncludedIndex = s.log.lastIncludedIndex,
         \A n \in (s.log.lastIncludedIndex + 1)..s.commitIndex :
           getEntry(l, n) = getEntry(s.log, n)
  PROVE  Rebuildable([s EXCEPT !.log = l])
<1> DEFINE t == [s EXCEPT !.log = l]
<1>1. /\ t.log = l /\ t.commitIndex = s.commitIndex /\ t.boardEvents = s.boardEvents
      /\ t.snapshotBoards = s.snapshotBoards
  BY StoreFields DEF StoreSet
<1> HIDE DEF t
<1>2. \A n \in 1..s.commitIndex : OnDisk(t, n) = OnDisk(s, n)
  BY <1>1, StoreFields DEF OnDisk
<1>3. Rebuildable(t)
  BY <1>1, <1>2 DEF Rebuildable, Derived, Compacted
<1> QED
  BY <1>3 DEF t

\* truncateFrom behind the commit index leaves the committed entries alone.
LEMMA TruncateKeeps ==
  ASSUME NEW l \in LogOf(Stroke), NEW c \in Nat, NEW k \in Nat, k > c,
         NEW n \in (l.lastIncludedIndex + 1)..c, c <= getLastIndex(l)
  PROVE  getEntry(truncateFrom(l, k), n) = getEntry(l, n)
<1>1. /\ l.entries \in Seq(EntryOf(Stroke)) /\ l.lastIncludedIndex \in Nat
      /\ Len(l.entries) \in Nat /\ getLastIndex(l) = l.lastIncludedIndex + Len(l.entries)
  BY LogIndexType DEF getLastIndex
<1>2. CASE hasEntry(l, k)
  <2> DEFINE m == (k - l.lastIncludedIndex) - 1
             cut == SubSeq(l.entries, 1, m)
             j == n - l.lastIncludedIndex
  <2>1. m \in Nat /\ m <= Len(l.entries) /\ j \in 1..m
    BY <1>1, <1>2, SMTT(60) DEF hasEntry
  <2>2. truncateFrom(l, k) = [l EXCEPT !.entries = cut]
    BY <1>2 DEF truncateFrom
  <2>3. cut[j] = l.entries[j]
    <3> HIDE DEF m, j
    <3> QED BY <1>1, <2>1, SubSeqProperties
  <2>4. /\ [l EXCEPT !.entries = cut].entries = cut
        /\ [l EXCEPT !.entries = cut].lastIncludedIndex = l.lastIncludedIndex
    <3> HIDE DEF cut
    <3> QED BY DEF LogOf
  <2> HIDE DEF cut
  <2> QED
    BY <2>2, <2>3, <2>4 DEF getEntry
<1>3. CASE ~hasEntry(l, k)
  BY <1>3 DEF truncateFrom
<1> QED
  BY <1>2, <1>3

\* The loop of handleAppendEntries and requestCatchUp changes no committed entry,
\* whatever entries it is given.
LEMMA MergeKeepsCommitted ==
  ASSUME NEW l \in LogOf(Stroke), NEW c \in Nat, NEW es \in Seq(EntryOf(Stroke)),
         c <= getLastIndex(l), l.lastIncludedIndex <= c,
         NEW n \in (l.lastIncludedIndex + 1)..c
  PROVE  getEntry(MergeEntries(l, c, es), n) = getEntry(l, n)
<1> DEFINE new == NewPositions(l, c, es)
           first == Min(new)
           base == truncateFrom(l, es[first].index)
           tail == SubSeq(es, first, Len(es))
<1>1. CASE new = {}
  BY <1>1 DEF MergeEntries
<1>2. CASE new /= {}
  <2>0. Len(es) \in Nat
    OBVIOUS
  <2>1. first \in new /\ first \in 1..Len(es)
    <3>1. new \subseteq Nat /\ new \subseteq 1..Len(es)
      BY <2>0 DEF NewPositions
    <3> HIDE DEF new
    <3> QED BY <1>2, <3>1, MinInSet
  <2>2. es[first].index \in Nat
    <3>1. es[first] \in EntryOf(Stroke)
      <4> HIDE DEF first
      <4> QED BY <2>1, ElementOfSeq
    <3> HIDE DEF first
    <3> QED BY <3>1 DEF EntryOf
  <2>3. \/ es[first].index > getLastIndex(l)
        \/ hasEntry(l, es[first].index) /\ es[first].index > c
    BY <2>1 DEF NewPositions, Conflicts
  <2> HIDE DEF first
  <2>4. es[first].index > c
    BY <2>2, <2>3, LogIndexType
  <2>5. base \in LogOf(Stroke) /\ base.lastIncludedIndex = l.lastIncludedIndex
        /\ (hasEntry(l, es[first].index) => getLastIndex(base) = es[first].index - 1)
        /\ (~hasEntry(l, es[first].index) => base = l)
    BY <2>2, TruncateType
  <2>6. getEntry(base, n) = getEntry(l, n)
    BY <2>2, <2>4, TruncateKeeps
  <2>7. c <= getLastIndex(base)
    BY <2>2, <2>3, <2>4, <2>5, LogIndexType DEF hasEntry
  <2>8. tail \in Seq(EntryOf(Stroke))
    BY <2>0, <2>1, StretchType
  <2>9. MergeEntries(l, c, es) = [base EXCEPT !.entries = base.entries \o tail]
    BY <1>2 DEF MergeEntries, first
  <2> HIDE DEF base, tail
  <2> DEFINE j == n - l.lastIncludedIndex
             merged == base.entries \o tail
  <2>10. base.entries \in Seq(EntryOf(Stroke)) /\ Len(base.entries) \in Nat
         /\ l.lastIncludedIndex \in Nat /\ getLastIndex(base) \in Nat
    BY <2>5, LogIndexType
  <2>11. j \in 1..Len(base.entries)
    BY <2>5, <2>7, <2>10, SMTT(60) DEF getLastIndex
  <2>12. merged[j] = base.entries[j]
    <3> HIDE DEF j
    <3> QED BY <2>8, <2>10, <2>11, ConcatProperties
  <2> HIDE DEF merged, j
  <2>13. /\ [base EXCEPT !.entries = merged].entries = merged
         /\ [base EXCEPT !.entries = merged].lastIncludedIndex = l.lastIncludedIndex
    BY <2>5 DEF LogOf
  <2> QED
    BY <2>5, <2>6, <2>9, <2>12, <2>13 DEF getEntry, j, merged
<1> QED
  BY <1>1, <1>2

LEMMA MergeRebuilds ==
  ASSUME NEW s, StoreOK(s), Rebuildable(s), NEW es \in Seq(EntryOf(Stroke))
  PROVE  Rebuildable([s EXCEPT !.log = MergeEntries(s.log, s.commitIndex, es)])
<1> DEFINE l == MergeEntries(s.log, s.commitIndex, es)
<1>1. /\ s.log \in LogOf(Stroke) /\ s.commitIndex \in Nat
      /\ s.commitIndex <= getLastIndex(s.log) /\ s.log.lastIncludedIndex <= s.commitIndex
  BY StoreFields
<1>2. l.lastIncludedIndex = s.log.lastIncludedIndex
  BY <1>1, MergeType
<1>3. \A n \in (s.log.lastIncludedIndex + 1)..s.commitIndex :
        getEntry(l, n) = getEntry(s.log, n)
  BY <1>1, MergeKeepsCommitted
<1> HIDE DEF l
<1>5. Rebuildable([s EXCEPT !.log = l])
  BY <1>2, <1>3, SameCommittedRebuilds
<1> QED
  BY <1>5 DEF l

LEMMA AppendRebuilds ==
  ASSUME NEW s, StoreOK(s), Rebuildable(s), NEW e \in EntryOf(Stroke)
  PROVE  Rebuildable([s EXCEPT !.log = append(s.log, e)])
<1> DEFINE l == append(s.log, e)
           es == s.log.entries
<1>1. /\ s.log \in LogOf(Stroke) /\ s.commitIndex \in Nat /\ es \in Seq(EntryOf(Stroke))
      /\ s.commitIndex <= getLastIndex(s.log) /\ s.log.lastIncludedIndex \in Nat
      /\ Len(es) \in Nat /\ getLastIndex(s.log) = s.log.lastIncludedIndex + Len(es)
  BY StoreFields, LogIndexType DEF getLastIndex
<1>2. l.lastIncludedIndex = s.log.lastIncludedIndex
  BY <1>1, AppendType
<1>3. l.entries = Append(es, e)
  BY <1>1 DEF append, LogOf
<1>4. ASSUME NEW n \in (s.log.lastIncludedIndex + 1)..s.commitIndex
      PROVE  getEntry(l, n) = getEntry(s.log, n)
  <2> DEFINE k == n - s.log.lastIncludedIndex
  <2>1. k \in 1..Len(es)
    BY <1>1
  <2> HIDE DEF es, k
  <2>2. Append(es, e)[k] = es[k]
    BY <1>1, <2>1, AppendProperties
  <2> HIDE DEF l
  <2> QED
    BY <1>2, <1>3, <2>2 DEF getEntry, k, es
<1> HIDE DEF l
<1>5. Rebuildable([s EXCEPT !.log = l])
  BY <1>2, <1>4, SameCommittedRebuilds
<1> QED
  BY <1>5 DEF l

LEMMA UpdateCommitRebuilds ==
  ASSUME NEW i, NEW s, StoreOK(s), Rebuildable(s), NEW match
  PROVE  Rebuildable(updateCommitIndex(i, s, match))
<1> DEFINE replicated(n) == 1 + Cardinality({p \in Peers(i) : match[p] >= n})
           C == {n \in (s.commitIndex + 1)..getLastIndex(s.log) :
                   /\ getEntry(s.log, n).term = currentTerm[i]
                   /\ replicated(n) >= majority}
<1>1. updateCommitIndex(i, s, match) = IF C = {} THEN s ELSE CommitTo(s, Max(C))
  BY DEF updateCommitIndex
<1>2. C /= {} => Max(C) \in (s.commitIndex + 1)..getLastIndex(s.log)
  <2>1. C \subseteq (s.commitIndex + 1)..getLastIndex(s.log)
    OBVIOUS
  <2> HIDE DEF C
  <2>2. C \subseteq 0..getLastIndex(s.log) /\ getLastIndex(s.log) \in Nat
    BY <2>1, StoreFields
  <2> QED
    BY <2>1, <2>2, MaxInSet
<1> HIDE DEF C
<1>3. C /= {} => Max(C) \in Nat /\ s.commitIndex <= Max(C) /\ Max(C) <= getLastIndex(s.log)
  BY <1>2, StoreFields
<1> QED
  BY <1>1, <1>3, CommitRebuilds DEF Rebuildable

LEMMA SyncedRebuilds ==
  ASSUME NEW s, StoreOK(s), Rebuildable(s), NEW x, ResultOK("SyncLog", x)
  PROVE  Rebuildable(Synced(s, x))
<1> DEFINE behind == /\ x.snapshot /= Nil
                     /\ x.snapshot.lastIncludedIndex > s.commitIndex
           base == IF behind THEN applySnapshot(s, x.snapshot) ELSE s
           merged == [base EXCEPT !.log = MergeEntries(base.log, base.commitIndex, x.entries)]
<1>1. x.commitIndex \in Nat /\ x.entries \in Seq(EntryOf(Stroke))
      /\ (x.snapshot = Nil \/ SnapshotOK(x.snapshot))
  BY DEF ResultOK
<1>2. StoreOK(base) /\ Rebuildable(base)
  BY <1>1, ApplySnapshotOK, InstallRebuilds
<1>3. Synced(s, x) = FollowCommit(merged, x.commitIndex)
  BY DEF Synced
<1> HIDE DEF base
<1>4. StoreOK(merged) /\ Rebuildable(merged)
  BY <1>1, <1>2, MergeOK, MergeRebuilds
<1> HIDE DEF merged
<1> QED
  BY <1>1, <1>3, <1>4, FollowCommitRebuilds

-----------------------------------------------------------------------------
(* Step by step.                                                           *)

AllRebuildable == \A i \in Node : Rebuildable(store[i])

LEMMA OneRebuilds ==
  ASSUME TypeInv, AllRebuildable, NEW i \in Node, NEW s, Rebuildable(s),
         store' = [store EXCEPT ![i] = s]
  PROVE  AllRebuildable'
<1>1. \A j \in Node : store'[j] = IF j = i THEN s ELSE store[j]
  BY TypeFacts DEF StoreTypeOK
<1> QED
  BY <1>1 DEF AllRebuildable

LEMMA NoneChanges ==
  ASSUME AllRebuildable, UNCHANGED store
  PROVE  AllRebuildable'
BY DEF AllRebuildable

LEMMA WriteRebuilds ==
  ASSUME TypeInv, AllRebuildable, NEW i \in Node, NEW v \in Stroke, handleClientWrite(i, v)
  PROVE  AllRebuildable'
<1> USE TypeFacts
<1> DEFINE entry == [index |-> getLastIndex(store[i].log) + 1, term |-> currentTerm[i],
                     stroke |-> v]
           s == [store[i] EXCEPT !.log = append(store[i].log, entry)]
<1>1. currentTerm[i] \in Nat /\ StoreOK(store[i]) /\ Rebuildable(store[i])
  BY DEF ElecTypeOK, AllRebuildable
<1>2. entry \in EntryOf(Stroke)
  BY <1>1, StoreFields DEF EntryOf
<1>3. store' = [store EXCEPT ![i] = s]
  BY DEF handleClientWrite, StoreTypeOK
<1> HIDE DEF entry
<1>4. Rebuildable(s)
  BY <1>1, <1>2, AppendRebuilds
<1> HIDE DEF s
<1> QED
  BY <1>3, <1>4, OneRebuilds

LEMMA SettleRebuilds ==
  ASSUME TypeInv, AllRebuildable, NEW i \in Node, NEW p \in Node, Settle(i, p)
  PROVE  AllRebuildable'
<1> DEFINE s == updateCommitIndex(i, store[i], matchIndex'[i])
<1>1. store' = store \/ store' = [store EXCEPT ![i] = s]
  BY DEF Settle
<1>2. StoreOK(store[i]) /\ Rebuildable(store[i])
  BY TypeFacts DEF AllRebuildable
<1>3. Rebuildable(s)
  BY <1>2, UpdateCommitRebuilds
<1> HIDE DEF s
<1> QED
  BY <1>1, <1>3, NoneChanges, OneRebuilds

LEMMA AppendEntriesRebuilds ==
  ASSUME TypeInv, AllRebuildable, NEW m \in requests, handleAppendEntries(m)
  PROVE  AllRebuildable'
<1> USE TypeFacts
<1> DEFINE i == m.dst
           s == store[i]
           merged == [s EXCEPT !.log = MergeEntries(s.log, s.commitIndex, m.entries)]
           t == FollowCommit(merged, m.leaderCommit)
<1>1. /\ i \in Node /\ m.entries \in Seq(EntryOf(Stroke)) /\ m.leaderCommit \in Nat
      /\ StoreOK(s) /\ Rebuildable(s)
  BY RequestFields DEF handleAppendEntries, Received, AppendEntriesSet, AllRebuildable
<1>2. UNCHANGED store \/ store' = [store EXCEPT ![i] = t]
  BY DEF handleAppendEntries
<1>3. StoreOK(merged) /\ Rebuildable(merged)
  <2> HIDE DEF s
  <2> QED BY <1>1, MergeOK, MergeRebuilds
<1> HIDE DEF merged
<1>4. Rebuildable(t)
  BY <1>1, <1>3, FollowCommitRebuilds
<1> HIDE DEF t
<1> QED
  BY <1>1, <1>2, <1>4, NoneChanges, OneRebuilds

LEMMA InstallSnapshotRebuilds ==
  ASSUME TypeInv, AllRebuildable, NEW m \in requests, handleInstallSnapshot(m)
  PROVE  AllRebuildable'
<1> USE TypeFacts
<1> DEFINE i == m.dst
           t == applySnapshot(store[i], m.snapshot)
<1>1. i \in Node /\ SnapshotOK(m.snapshot) /\ StoreOK(store[i])
  BY RequestFields DEF handleInstallSnapshot, Received, SnapshotsOK
<1>2. UNCHANGED store \/ store' = [store EXCEPT ![i] = t]
  BY DEF handleInstallSnapshot
<1>3. Rebuildable(t)
  BY <1>1, InstallRebuilds
<1> HIDE DEF t
<1> QED
  BY <1>1, <1>2, <1>3, NoneChanges, OneRebuilds

LEMMA HeartbeatRebuilds ==
  ASSUME TypeInv, AllRebuildable, NEW m \in requests, handleHeartbeat(m)
  PROVE  AllRebuildable'
<1> USE TypeFacts
<1> DEFINE i == m.dst
           t == FollowCommit(store[i], m.leaderCommit)
<1>1. i \in Node /\ m.leaderCommit \in Nat /\ StoreOK(store[i]) /\ Rebuildable(store[i])
  BY RequestFields DEF handleHeartbeat, Received, HeartbeatSet, AllRebuildable
<1>2. UNCHANGED store \/ store' = [store EXCEPT ![i] = t]
  BY DEF handleHeartbeat
<1>3. Rebuildable(t)
  BY <1>1, FollowCommitRebuilds
<1> HIDE DEF t
<1> QED
  BY <1>1, <1>2, <1>3, NoneChanges, OneRebuilds

LEMMA SyncLogReplyRebuilds ==
  ASSUME TypeInv, AllRebuildable, NEW r \in replies, syncLogReply(r)
  PROVE  AllRebuildable'
<1> USE TypeFacts
<1> DEFINE i == r.dst
           t == Synced(store[i], r.result)
<1>1. i \in Node /\ r.type = "SyncLog" /\ StoreOK(store[i]) /\ Rebuildable(store[i])
  BY ReplyFields DEF syncLogReply, Answer, AllRebuildable
<1>2. ResultOK("SyncLog", r.result)
  <2>1. r \in ReplyOf("SyncLog", [commitIndex : Nat, snapshot : SnapshotSet \cup {Nil},
                                  entries : Seq(EntryOf(Stroke))])
    BY <1>1 DEF ReplySet, ReplyOf
  <2>2. r.result \in [commitIndex : Nat, snapshot : SnapshotSet \cup {Nil},
                      entries : Seq(EntryOf(Stroke))]
    BY <2>1 DEF ReplyOf
  <2>3. r.result.snapshot = Nil \/ SnapshotOK(r.result.snapshot)
    BY <1>1 DEF SnapshotsOK
  <2> QED
    BY <2>2, <2>3 DEF ResultOK
<1>3. store' = [store EXCEPT ![i] = t]
  BY DEF syncLogReply
<1>4. Rebuildable(t)
  BY <1>1, <1>2, SyncedRebuilds
<1> HIDE DEF t
<1> QED
  BY <1>1, <1>3, <1>4, OneRebuilds

LEMMA RestartRebuilds ==
  ASSUME TypeInv, AllRebuildable, NEW i \in Node, Restart(i)
  PROVE  AllRebuildable'
<1>1. store' = [store EXCEPT ![i] = Recover(store[i])]
  BY DEF Restart
<1>2. StoreOK(store[i]) /\ Rebuildable(store[i]) /\ AllBehind(store[i].log)
  BY TypeFacts DEF AllRebuildable, Restart
<1>3. Recover(store[i]) = store[i]
  BY <1>2, RecoverChangesNothing
<1> QED
  BY <1>1, <1>2, <1>3, OneRebuilds

LEMMA AllRebuildableNext ==
  ASSUME TypeInv, AllRebuildable, [Next]_vars
  PROVE  AllRebuildable'
<1>1. CASE UNCHANGED vars
  BY <1>1, NoneChanges DEF vars
<1>2. ASSUME NEW i \in Node,
             \/ runElection(i) \/ sendHeartbeats(i) \/ readBoardState(i)
             \/ requestCatchUp(i) \/ syncLogFails(i)
             \/ \E p \in Peers(i) : requestVoteFails(i, p) \/ heartbeatFails(i, p)
      PROVE  AllRebuildable'
  <2>1. UNCHANGED store
    BY <1>2 DEF runElection, sendHeartbeats, readBoardState, requestCatchUp, syncLogFails,
                requestVoteFails, heartbeatFails
  <2> QED
    BY <2>1, NoneChanges
<1>3. ASSUME NEW i \in Node, Restart(i) PROVE AllRebuildable'
  BY <1>3, RestartRebuilds
<1>4. ASSUME NEW i \in Node, NEW v \in Stroke, handleClientWrite(i, v) PROVE AllRebuildable'
  BY <1>4, WriteRebuilds
<1>5. ASSUME NEW i \in Node, NEW p \in Peers(i), replicateOnceFails(i, p)
      PROVE  AllRebuildable'
  BY <1>5, SettleRebuilds DEF replicateOnceFails, Peers
<1>6. ASSUME NEW m \in requests, handleRequestVote(m) \/ handleSyncLog(m)
      PROVE  AllRebuildable'
  <2>1. UNCHANGED store
    BY <1>6 DEF handleRequestVote, handleSyncLog
  <2> QED
    BY <2>1, NoneChanges
<1>7. ASSUME NEW m \in requests,
             handleAppendEntries(m) \/ handleInstallSnapshot(m) \/ handleHeartbeat(m)
      PROVE  AllRebuildable'
  BY <1>7, AppendEntriesRebuilds, InstallSnapshotRebuilds, HeartbeatRebuilds
<1>8. ASSUME NEW r \in replies, requestVoteReply(r) \/ heartbeatReply(r)
      PROVE  AllRebuildable'
  <2>1. UNCHANGED store
    BY <1>8 DEF requestVoteReply, heartbeatReply
  <2> QED
    BY <2>1, NoneChanges
<1>9. ASSUME NEW r \in replies, replicateOnceReply(r) PROVE AllRebuildable'
  <2>1. r.dst \in Node /\ r.src \in Node /\ Settle(r.dst, r.src)
    BY <1>9, TypeFacts, ReplyFields DEF replicateOnceReply
  <2> QED
    BY <2>1, SettleRebuilds
<1>10. ASSUME NEW r \in replies, syncLogReply(r) PROVE AllRebuildable'
  BY <1>10, SyncLogReplyRebuilds
<1> QED
  BY <1>1, <1>2, <1>3, <1>4, <1>5, <1>6, <1>7, <1>8, <1>9, <1>10 DEF Next

\* A crash loses nothing of the board: whatever the snapshot threshold, batches,
\* truncations and installed snapshots, the constructor, which filters the log by
\* the index each entry carries, finds on disk exactly the strokes that were applied.
\* The precondition is that every entry of the log carries an index behind the
\* snapshot's (AllBehind): a gap left by a stale catch-up answer keeps it, a log whose
\* indices are out of order may not.
THEOREM RestartKeepsBoard == Spec => []RestartRebuildsBoard
<1>1. Init => AllRebuildable
  <2> SUFFICES ASSUME Init, NEW i \in Node PROVE Rebuildable(store[i])
    BY DEF AllRebuildable
  <2>1. store[i] = emptyStore
    BY DEF Init
  <2>2. Rebuildable(emptyStore)
    BY TuningAssumption DEF Rebuildable, Derived, Compacted, emptyStore, emptyLog
  <2> QED
    BY <2>1, <2>2
<1>2. TypeInv /\ AllRebuildable /\ [Next]_vars => AllRebuildable'
  BY AllRebuildableNext
<1>3. TypeInv /\ AllRebuildable => RestartRebuildsBoard
  BY TypeFacts, RecoverChangesNothing DEF AllRebuildable, RestartRebuildsBoard
<1> QED
  BY <1>1, <1>2, <1>3, TypeInvCorrect, PTL DEF Spec

-----------------------------------------------------------------------------
(* Who waits for whom.                                                     *)

Waits(i, q) == (\E d \in rounds[i] : q \in d) \/ (\E w \in writes[i] : q \in w.waits)

LEMMA NoOrphanByWaits ==
  NoOrphanWait <=> \A i \in Node : \A q \in Node : Waits(i, q) => replicating[i][q] /= Nil
BY DEF NoOrphanWait, Waits

LEMMA NoOrphanByWaitsNext ==
  NoOrphanWait' <=> \A i \in Node : \A q \in Node : Waits(i, q)' => replicating'[i][q] /= Nil
BY DEF NoOrphanWait, Waits

\* driveReplication to every peer leaves none without a call, and gives up none.
LEMMA DriveAllFills ==
  ASSUME NEW i \in Node, NEW idle \in [Node -> CallSet \cup {Nil}], NEW s, StoreOK(s),
         NEW next \in [Node -> Nat \ {0}], currentTerm[i] \in Nat
  PROVE  /\ \A q \in Peers(i) : DriveAll(i, idle, s, next)[q] /= Nil
         /\ \A q \in Node : idle[q] /= Nil => DriveAll(i, idle, s, next)[q] /= Nil
<1>1. ASSUME NEW q \in Node, q /= i, idle[q] = Nil
      PROVE  DriveAll(i, idle, s, next)[q] /= Nil
  <2>1. next[q] \in Nat \ {0}
    OBVIOUS
  <2>2. replicateOnce(i, q, s, next[q]) \in CallSet
    BY <2>1, ReplicateOnceType DEF CallFrom
  <2>3. Nil \notin CallSet
    BY NilAssumption DEF CallSet, RequestSet
  <2>4. DriveAll(i, idle, s, next)[q] = replicateOnce(i, q, s, next[q])
    BY <1>1 DEF DriveAll
  <2> QED
    BY <2>2, <2>3, <2>4
<1>2. ASSUME NEW q \in Node, idle[q] /= Nil
      PROVE  DriveAll(i, idle, s, next)[q] = idle[q]
  BY <1>2 DEF DriveAll
<1> QED
  BY <1>1, <1>2 DEF Peers

LEMMA SendHeartbeatsWaits ==
  ASSUME TypeInv, NoOrphanWait, NEW i \in Node, sendHeartbeats(i)
  PROVE  NoOrphanWait'
<1> USE TypeFacts
<1> DEFINE new == DriveAll(i, replicating[i], store[i], nextIndex[i])
<1>1. /\ currentTerm[i] \in Nat /\ replicating[i] \in [Node -> CallSet \cup {Nil}]
      /\ nextIndex[i] \in [Node -> Nat \ {0}] /\ StoreOK(store[i])
  BY DEF ElecTypeOK, LeaderTypeOK, CallSet
<1>2. /\ \A q \in Peers(i) : new[q] /= Nil
      /\ \A q \in Node : replicating[i][q] /= Nil => new[q] /= Nil
  BY <1>1, DriveAllFills
<1>3. /\ replicating' = [replicating EXCEPT ![i] = new] /\ writes' = writes
      /\ rounds' = [rounds EXCEPT ![i] = rounds[i] \cup {Peers(i)}]
  BY DEF sendHeartbeats
<1> HIDE DEF new
<1>4. ASSUME NEW j \in Node, NEW q \in Node, Waits(j, q)' PROVE replicating'[j][q] /= Nil
  <2>1. Waits(j, q) => replicating[j][q] /= Nil
    BY NoOrphanByWaits
  <2>2. CASE j = i
    <3>1. Waits(i, q) \/ q \in Peers(i)
      BY <1>3, <1>4, <2>2 DEF Waits, LeaderTypeOK
    <3>2. replicating'[i] = new
      BY <1>3 DEF LeaderTypeOK
    <3> QED
      BY <1>2, <2>1, <2>2, <3>1, <3>2
  <2>3. CASE j /= i
    <3>1. Waits(j, q) /\ replicating'[j] = replicating[j]
      BY <1>3, <1>4, <2>3 DEF Waits, LeaderTypeOK
    <3> QED
      BY <2>1, <3>1
  <2> QED
    BY <2>2, <2>3
<1> QED
  BY <1>4, NoOrphanByWaitsNext

LEMMA ClientWriteWaits ==
  ASSUME TypeInv, NoOrphanWait, NEW i \in Node, NEW v \in Stroke, handleClientWrite(i, v)
  PROVE  NoOrphanWait'
<1> USE TypeFacts
<1> DEFINE s == store'[i]
           new == DriveAll(i, replicating[i], s, nextIndex[i])
<1>0. TypeInv'
  BY ClientWriteType
<1>1. /\ currentTerm[i] \in Nat /\ replicating[i] \in [Node -> CallSet \cup {Nil}]
      /\ nextIndex[i] \in [Node -> Nat \ {0}] /\ StoreOK(s)
  BY <1>0 DEF ElecTypeOK, LeaderTypeOK, CallSet, TypeInv, StoreInv
<1>2. PICK e : writes' = [writes EXCEPT ![i] =
                   writes[i] \cup {[entry |-> e, attempt |-> 1, waits |-> Peers(i)]}]
  BY DEF handleClientWrite
<1>3. replicating' = [replicating EXCEPT ![i] = new] /\ rounds' = rounds
  BY DEF handleClientWrite
<1> HIDE DEF s
<1>4. /\ \A q \in Peers(i) : new[q] /= Nil
      /\ \A q \in Node : replicating[i][q] /= Nil => new[q] /= Nil
  BY <1>1, DriveAllFills
<1> HIDE DEF new
<1>5. ASSUME NEW j \in Node, NEW q \in Node, Waits(j, q)' PROVE replicating'[j][q] /= Nil
  <2>1. Waits(j, q) => replicating[j][q] /= Nil
    BY NoOrphanByWaits
  <2>2. CASE j = i
    <3>0. writes'[i] = writes[i] \cup {[entry |-> e, attempt |-> 1, waits |-> Peers(i)]}
      BY <1>2 DEF LeaderTypeOK
    <3>1. Waits(i, q) \/ q \in Peers(i)
      BY <1>3, <1>5, <2>2, <3>0 DEF Waits
    <3>2. replicating'[i] = new
      BY <1>3 DEF LeaderTypeOK
    <3> QED
      BY <1>4, <2>1, <2>2, <3>1, <3>2
  <2>3. CASE j /= i
    <3>1. Waits(j, q) /\ replicating'[j] = replicating[j]
      BY <1>2, <1>3, <1>5, <2>3 DEF Waits, LeaderTypeOK
    <3> QED
      BY <2>1, <3>1
  <2> QED
    BY <2>2, <2>3
<1> QED
  BY <1>5, NoOrphanByWaitsNext

\* Whoever still waits once the call to p has settled waits for calls that are
\* still in flight, or has just made sure that there is one to every peer.
LEMMA SettleWaits ==
  ASSUME TypeInv, NoOrphanWait, NEW i \in Node, NEW p \in Node, Settle(i, p),
         nextIndex' \in [Node -> [Node -> Nat \ {0}]]
  PROVE  NoOrphanWait'
<1> USE TypeFacts
<1> DEFINE ready    == {w \in writes[i] : w.waits = {p}}
           done     == {w \in ready :
                          1 + Cardinality({q \in Peers(i) : matchIndex'[i][q] >= w.entry.index})
                            >= majority}
           retried  == {w \in ready \ done : w.attempt < MaxRetries}
           waiting  == {[w EXCEPT !.waits = @ \ {p}] : w \in writes[i] \ ready}
           again    == {[w EXCEPT !.attempt = @ + 1, !.waits = Peers(i)] : w \in retried}
           idle     == [replicating[i] EXCEPT ![p] = Nil]
<1>1. rounds' = [rounds EXCEPT ![i] = {d \ {p} : d \in rounds[i]} \ {{}}]
  BY DEF Settle
<1>2. \/ /\ writes' = [writes EXCEPT ![i] = waiting \cup again]
         /\ \E s \in {store[i], store'[i]} :
              replicating' = [replicating EXCEPT ![i] = DriveAll(i, idle, s, nextIndex'[i])]
      \/ /\ writes' = [writes EXCEPT ![i] = waiting]
         /\ replicating' = [replicating EXCEPT ![i] = idle]
  BY DEF Settle
<1>3. \A w \in waiting : \A q \in w.waits : q /= p /\ \E x \in writes[i] : q \in x.waits
  <2>1. ASSUME NEW x \in writes[i] PROVE [x EXCEPT !.waits = @ \ {p}].waits = x.waits \ {p}
    <3>1. x \in WriteSet
      BY DEF LeaderTypeOK
    <3> QED
      BY <3>1 DEF WriteSet
  <2> SUFFICES ASSUME NEW w \in waiting, NEW q \in w.waits
               PROVE  q /= p /\ \E x \in writes[i] : q \in x.waits
    OBVIOUS
  <2> HIDE DEF ready
  <2>2. PICK x \in writes[i] : w = [x EXCEPT !.waits = @ \ {p}]
    OBVIOUS
  <2>3. w.waits = x.waits \ {p}
    BY <2>1, <2>2
  <2> HIDE DEF waiting
  <2> QED
    BY <2>3
<1>4. \A w \in again : w.waits = Peers(i)
  <2>1. ASSUME NEW x \in writes[i]
        PROVE  [x EXCEPT !.attempt = @ + 1, !.waits = Peers(i)].waits = Peers(i)
    <3>1. x \in WriteSet
      BY DEF LeaderTypeOK
    <3> QED
      BY <3>1 DEF WriteSet
  <2>2. retried \subseteq writes[i]
    OBVIOUS
  <2> HIDE DEF retried
  <2> SUFFICES ASSUME NEW w \in again PROVE w.waits = Peers(i)
    OBVIOUS
  <2>3. PICK x \in retried : w = [x EXCEPT !.attempt = @ + 1, !.waits = Peers(i)]
    OBVIOUS
  <2> HIDE DEF again
  <2> QED
    BY <2>1, <2>2, <2>3
<1> HIDE DEF waiting, again
<1>5. ASSUME NEW q \in Node, Waits(i, q), q /= p PROVE idle[q] /= Nil
  <2>1. replicating[i][q] /= Nil
    BY <1>5, NoOrphanByWaits
  <2> QED
    BY <1>5, <2>1 DEF LeaderTypeOK
<1>6. idle \in [Node -> CallSet \cup {Nil}]
  BY DEF LeaderTypeOK, CallSet
<1> HIDE DEF idle
<1>7. ASSUME NEW q \in Node, \E d \in rounds'[i] : q \in d PROVE Waits(i, q) /\ q /= p
  BY <1>1, <1>7 DEF Waits, LeaderTypeOK
<1>8. ASSUME NEW q \in Node, Waits(i, q)' PROVE replicating'[i][q] /= Nil
  <2>1. CASE /\ writes' = [writes EXCEPT ![i] = waiting]
             /\ replicating' = [replicating EXCEPT ![i] = idle]
    <3>1. writes'[i] = waiting /\ replicating'[i] = idle
      BY <2>1 DEF LeaderTypeOK
    <3>2. Waits(i, q) /\ q /= p
      BY <1>3, <1>7, <1>8, <3>1 DEF Waits
    <3> QED
      BY <1>5, <3>1, <3>2
  <2>2. ASSUME NEW s, StoreOK(s),
               writes' = [writes EXCEPT ![i] = waiting \cup again],
               replicating' = [replicating EXCEPT ![i] = DriveAll(i, idle, s, nextIndex'[i])]
        PROVE  replicating'[i][q] /= Nil
    <3> DEFINE new == DriveAll(i, idle, s, nextIndex'[i])
    <3>1. writes'[i] = waiting \cup again /\ replicating'[i] = new
      BY <2>2 DEF LeaderTypeOK
    <3>2. StoreOK(s) /\ nextIndex'[i] \in [Node -> Nat \ {0}] /\ currentTerm[i] \in Nat
      BY <2>2 DEF ElecTypeOK
    <3>3. /\ \A x \in Peers(i) : new[x] /= Nil
          /\ \A x \in Node : idle[x] /= Nil => new[x] /= Nil
      <4> DEFINE next == nextIndex'[i]
      <4>1. next \in [Node -> Nat \ {0}]
        BY <3>2
      <4> HIDE DEF next, retried, done, ready
      <4>2. /\ \A x \in Peers(i) : DriveAll(i, idle, s, next)[x] /= Nil
            /\ \A x \in Node : idle[x] /= Nil => DriveAll(i, idle, s, next)[x] /= Nil
        BY <1>6, <3>2, <4>1, DriveAllFills
      <4> QED
        BY <4>2 DEF next
    <3> HIDE DEF new
    <3>4. (Waits(i, q) /\ q /= p) \/ q \in Peers(i)
      <4>1. CASE \E d \in rounds'[i] : q \in d
        BY <1>7, <4>1
      <4>2. ASSUME NEW w \in writes'[i], q \in w.waits
            PROVE  (Waits(i, q) /\ q /= p) \/ q \in Peers(i)
        <5>1. CASE w \in waiting
          BY <1>3, <4>2, <5>1 DEF Waits
        <5>2. CASE w \in again
          BY <1>4, <4>2, <5>2
        <5> QED
          BY <3>1, <5>1, <5>2
      <4> QED
        BY <1>8, <4>1, <4>2 DEF Waits
    <3> QED
      BY <1>5, <3>1, <3>3, <3>4
  <2>3. (\A j \in Node : StoreOK(store[j]))'
    BY SettleType
  <2>4. \A s \in {store[i], store'[i]} : StoreOK(s)
    BY <2>3
  <2> QED
    BY <1>2, <2>1, <2>2, <2>4
<1>9. ASSUME NEW j \in Node, j /= i, NEW q \in Node, Waits(j, q)'
      PROVE  replicating'[j][q] /= Nil
  <2>1. /\ rounds'[j] = rounds[j] /\ writes'[j] = writes[j]
        /\ replicating'[j] = replicating[j]
    BY <1>1, <1>2, <1>9 DEF LeaderTypeOK
  <2>2. Waits(j, q)
    BY <1>9, <2>1 DEF Waits
  <2> QED
    BY <2>1, <2>2, NoOrphanByWaits
<1> QED
  BY <1>8, <1>9, NoOrphanByWaitsNext

LEMMA NoOrphanNext ==
  ASSUME TypeInv, NoOrphanWait, [Next]_vars
  PROVE  NoOrphanWait'
<1>0. ASSUME UNCHANGED <<rounds, writes, replicating>> PROVE NoOrphanWait'
  BY <1>0 DEF NoOrphanWait
<1>1. CASE UNCHANGED vars
  BY <1>0, <1>1 DEF vars, leaderVars
<1>2. ASSUME NEW i \in Node,
             \/ runElection(i) \/ readBoardState(i) \/ requestCatchUp(i) \/ syncLogFails(i)
             \/ \E p \in Peers(i) : requestVoteFails(i, p) \/ heartbeatFails(i, p)
      PROVE  NoOrphanWait'
  <2>1. UNCHANGED <<rounds, writes, replicating>>
    BY <1>2 DEF runElection, readBoardState, requestCatchUp, syncLogFails,
                requestVoteFails, heartbeatFails, leaderVars
  <2> QED
    BY <1>0, <2>1
<1>3. ASSUME NEW i \in Node, Restart(i) PROVE NoOrphanWait'
  <2>1. /\ rounds' = [rounds EXCEPT ![i] = {}] /\ writes' = [writes EXCEPT ![i] = {}]
        /\ replicating' = [replicating EXCEPT ![i] = [p \in Node |-> Nil]]
    BY <1>3 DEF Restart
  <2>2. ASSUME NEW j \in Node, NEW q \in Node, Waits(j, q)' PROVE replicating'[j][q] /= Nil
    <3>1. j /= i
      BY <2>1, <2>2, TypeFacts DEF Waits, LeaderTypeOK
    <3>2. Waits(j, q) /\ replicating'[j] = replicating[j]
      BY <2>1, <2>2, <3>1, TypeFacts DEF Waits, LeaderTypeOK
    <3> QED
      BY <3>2, NoOrphanByWaits
  <2> QED
    BY <2>2, NoOrphanByWaitsNext
<1>4. ASSUME NEW i \in Node, NEW v \in Stroke, handleClientWrite(i, v) PROVE NoOrphanWait'
  BY <1>4, ClientWriteWaits
<1>5. ASSUME NEW i \in Node, sendHeartbeats(i) PROVE NoOrphanWait'
  BY <1>5, SendHeartbeatsWaits
<1>6. ASSUME NEW i \in Node, NEW p \in Peers(i), replicateOnceFails(i, p)
      PROVE  NoOrphanWait'
  <2>1. p \in Node /\ Settle(i, p) /\ nextIndex' = nextIndex
    BY <1>6 DEF replicateOnceFails, Peers
  <2>2. nextIndex' \in [Node -> [Node -> Nat \ {0}]]
    BY <2>1, TypeFacts DEF LeaderTypeOK
  <2> QED
    BY <2>1, <2>2, SettleWaits
<1>7. ASSUME NEW m \in requests,
             \/ handleRequestVote(m) \/ handleSyncLog(m) \/ handleAppendEntries(m)
             \/ handleInstallSnapshot(m) \/ handleHeartbeat(m)
      PROVE  NoOrphanWait'
  <2>1. UNCHANGED <<rounds, writes, replicating>>
    BY <1>7 DEF handleRequestVote, handleSyncLog, handleAppendEntries,
                handleInstallSnapshot, handleHeartbeat, leaderVars
  <2> QED
    BY <1>0, <2>1
<1>8. ASSUME NEW r \in replies, requestVoteReply(r) \/ heartbeatReply(r) \/ syncLogReply(r)
      PROVE  NoOrphanWait'
  <2>1. UNCHANGED <<rounds, writes, replicating>>
    BY <1>8 DEF requestVoteReply, heartbeatReply, syncLogReply, leaderVars
  <2> QED
    BY <1>0, <2>1
<1>9. ASSUME NEW r \in replies, replicateOnceReply(r) PROVE NoOrphanWait'
  <2>1. r.dst \in Node /\ r.src \in Node /\ Settle(r.dst, r.src)
    BY <1>9, TypeFacts, ReplyFields DEF replicateOnceReply
  <2>2. nextIndex' \in [Node -> [Node -> Nat \ {0}]]
    <3>1. TypeInv'
      BY <1>9, ReplicateOnceReplyType
    <3> QED
      BY <3>1 DEF TypeInv, TypeOK, LeaderTypeOK
  <2> QED
    BY <2>1, <2>2, SettleWaits
<1> QED
  BY <1>1, <1>2, <1>3, <1>4, <1>5, <1>6, <1>7, <1>8, <1>9 DEF Next

\* No Promise.allSettled of sendHeartbeats or handleClientWrite is left waiting
\* for a peer without a call in flight, over every order in which calls to
\* several peers settle, fail and are driven again.
THEOREM NobodyWaitsForNothing == Spec => []NoOrphanWait
<1>1. Init => NoOrphanWait
  BY DEF Init, NoOrphanWait
<1>2. TypeInv /\ NoOrphanWait /\ [Next]_vars => NoOrphanWait'
  BY NoOrphanNext
<1> QED
  BY <1>1, <1>2, TypeInvCorrect, PTL DEF Spec

-----------------------------------------------------------------------------
(* Reads.                                                                  *)

\* The heartbeats of a read carry the term it began in.
ReadTerms ==
  \A m \in requests : m.type = "Heartbeat" /\ ~m.late => m.term = reads[m.src].term

\* A read asks, and is acknowledged by, other replicas.
ReadPeers ==
  \A i \in Node : reads[i] /= Nil =>
    reads[i].waits \subseteq Peers(i) /\ reads[i].acks \subseteq Peers(i)

\* v is past the term of i's read, and has not acknowledged it nor ever will.
MovedOn(i, v) ==
  /\ currentTerm[v] > reads[i].term
  /\ v \notin reads[i].acks
  /\ \A r \in replies : r.type = "Heartbeat" /\ r.dst = i /\ r.src = v => ~r.result.success

\* A leader of a later term had the votes of a majority before the read began.
SupersededReads ==
  \A i \in Node : reads[i] /= Nil /\ reads[i].superseded =>
    \E Q \in SUBSET Node : Cardinality(Q) >= majority /\ \A v \in Q : MovedOn(i, v)

ReadInv == ReadTerms /\ ReadPeers /\ SupersededReads /\ ReadNotSuperseded

TermsGrow == \A j \in Node : currentTerm[j] \in Nat /\ currentTerm'[j] \in Nat
                             /\ currentTerm'[j] >= currentTerm[j]

LEMMA TermsGrowNext ==
  ASSUME TypeInv, ElectionInv, [Next]_vars
  PROVE  TermsGrow /\ TypeInv'
<1>1. TypeInv'
  BY TypeInvNext
<1>2. \A j \in Node : Step(j)
  BY ElectionStep
<1>3. \A j \in Node : currentTerm[j] \in Nat
  BY ElectionFacts
<1>4. \A j \in Node : currentTerm'[j] \in Nat
  BY <1>1 DEF TypeInv, TypeOK, ElecTypeOK
<1> QED
  BY <1>1, <1>2, <1>3, <1>4 DEF Step, TermsGrow

\* No heartbeat is sent or answered by the step.
HeartbeatsStay ==
  /\ \A q \in requests' : q \in requests \/ q.late \/ q.type /= "Heartbeat"
  /\ \A a \in replies' : a \in replies \/ a.type /= "Heartbeat"

LEMMA MovedOnStays ==
  ASSUME TypeInv, TermsGrow, NEW i \in Node, NEW v \in Node, MovedOn(i, v),
         reads[i] /= Nil, reads'[i] /= Nil, reads'[i].term = reads[i].term,
         v \notin reads'[i].acks,
         \A a \in replies' : a.type = "Heartbeat" /\ a.dst = i /\ a.src = v
                             => a \in replies \/ ~a.result.success
  PROVE  MovedOn(i, v)'
<1>1. reads[i].term \in Nat
  BY TypeFacts DEF TaskTypeOK, ReadSet
<1>2. currentTerm'[v] > reads'[i].term
  BY <1>1 DEF MovedOn, TermsGrow
<1> QED
  BY <1>2 DEF MovedOn

LEMMA ReadsKept ==
  ASSUME TypeInv, TermsGrow, ReadInv, HeartbeatsStay, UNCHANGED <<reads, served>>
  PROVE  ReadInv'
<1>1. ReadTerms'
  BY DEF ReadInv, ReadTerms, HeartbeatsStay
<1>2. ReadPeers' /\ ReadNotSuperseded'
  BY DEF ReadInv, ReadPeers, ReadNotSuperseded
<1>3. SupersededReads'
  <2> SUFFICES ASSUME NEW i \in Node, reads'[i] /= Nil, reads'[i].superseded
               PROVE  \E Q \in SUBSET Node : /\ Cardinality(Q) >= majority
                                             /\ \A v \in Q : MovedOn(i, v)'
    BY DEF SupersededReads
  <2>1. PICK Q \in SUBSET Node : Cardinality(Q) >= majority /\ \A v \in Q : MovedOn(i, v)
    BY DEF ReadInv, SupersededReads
  <2>2. ASSUME NEW v \in Q PROVE MovedOn(i, v)'
    <3>1. v \in Node /\ MovedOn(i, v) /\ v \notin reads'[i].acks
      BY <2>1 DEF MovedOn
    <3>2. \A a \in replies' : a.type = "Heartbeat" => a \in replies
      BY DEF HeartbeatsStay
    <3> QED
      BY <3>1, <3>2, MovedOnStays
  <2> QED
    BY <2>1, <2>2
<1> QED
  BY <1>1, <1>2, <1>3 DEF ReadInv

\* A replica that has moved past the read's term refuses its heartbeat.
LEMMA HandleHeartbeatReads ==
  ASSUME TypeInv, TermsGrow, ReadInv, NEW m \in requests, handleHeartbeat(m)
  PROVE  ReadInv'
<1> DEFINE x == [success |-> m.term >= currentTerm[m.dst]]
           r == [type |-> m.type, src |-> m.dst, dst |-> m.src, askedIn |-> m.term,
                 term |-> currentTerm'[m.dst], result |-> x]
<1>1. /\ m.type = "Heartbeat" /\ Respond(m, x) /\ UNCHANGED <<reads, served>>
  BY DEF handleHeartbeat, Received, history
<1>2. /\ m.src \in Node /\ m.dst \in Node /\ m.term \in Nat /\ m.late \in BOOLEAN
  BY TypeFacts, RequestFields
<1>3. /\ requests' \subseteq requests \ {m}
      /\ replies' \subseteq replies \cup {r}
      /\ m.late => replies' \subseteq replies
  BY <1>1, RespondEffect
<1>4. r.src = m.dst /\ r.dst = m.src /\ r.result.success = (m.term >= currentTerm[m.dst])
  OBVIOUS
<1> HIDE DEF r, x
<1>5. ReadTerms'
  BY <1>1, <1>3 DEF ReadInv, ReadTerms
<1>6. ReadPeers' /\ ReadNotSuperseded'
  BY <1>1 DEF ReadInv, ReadPeers, ReadNotSuperseded
<1>7. SupersededReads'
  <2> SUFFICES ASSUME NEW i \in Node, reads'[i] /= Nil, reads'[i].superseded
               PROVE  \E Q \in SUBSET Node : /\ Cardinality(Q) >= majority
                                             /\ \A v \in Q : MovedOn(i, v)'
    BY DEF SupersededReads
  <2>1. reads[i] /= Nil /\ reads[i].superseded /\ reads'[i] = reads[i]
    BY <1>1
  <2>2. PICK Q \in SUBSET Node : Cardinality(Q) >= majority /\ \A v \in Q : MovedOn(i, v)
    BY <2>1 DEF ReadInv, SupersededReads
  <2>3. ASSUME NEW v \in Q PROVE MovedOn(i, v)'
    <3>1. v \in Node /\ MovedOn(i, v) /\ v \notin reads'[i].acks
      BY <2>1, <2>2 DEF MovedOn
    <3>2. ASSUME NEW a \in replies', a \notin replies, a.dst = i, a.src = v
          PROVE  ~a.result.success
      <4>1. a = r /\ ~m.late /\ i = m.src /\ v = m.dst
        BY <1>2, <1>3, <1>4, <3>2
      <4>2. m.term = reads[i].term
        BY <1>1, <4>1 DEF ReadInv, ReadTerms
      <4>3. currentTerm[v] > reads[i].term
        BY <3>1 DEF MovedOn
      <4>4. currentTerm[v] \in Nat
        BY <3>1 DEF TermsGrow
      <4> QED
        BY <1>2, <1>4, <4>1, <4>2, <4>3, <4>4
    <3> QED
      BY <2>1, <3>1, <3>2, MovedOnStays
  <2> QED
    BY <2>2, <2>3
<1> QED
  BY <1>5, <1>6, <1>7 DEF ReadInv

\* A read that begins when a later term has a leader: the voters of that term
\* are past the read's term.
LEMMA ReadBoardStateReads ==
  ASSUME TypeInv, ElectionInv, TermsGrow, ReadInv, NEW i \in Node, readBoardState(i), TypeInv'
  PROVE  ReadInv'
<1> USE TypeFacts
<1> DEFINE d == [term |-> currentTerm[i], waits |-> Peers(i), acks |-> {}, terms |-> {},
                 superseded |-> \E e \in elected : e[1] > currentTerm[i], acked |-> acked]
           new == {[type |-> "Heartbeat", src |-> i, dst |-> p, term |-> currentTerm[i],
                    leaderCommit |-> store[i].commitIndex, late |-> FALSE] : p \in Peers(i)}
<1>1. /\ reads[i] = Nil /\ reads' = [reads EXCEPT ![i] = d]
      /\ requests' = requests \cup new /\ replies' = replies
      /\ served' = served /\ currentTerm' = currentTerm
  BY DEF readBoardState, history, elecVars
<1>2. d.term = currentTerm[i] /\ d.waits = Peers(i) /\ d.acks = {}
      /\ d.superseded = \E e \in elected : e[1] > currentTerm[i]
  OBVIOUS
<1>3. \A m \in new : m.src = i /\ m.term = currentTerm[i]
  OBVIOUS
<1> HIDE DEF d, new
<1>4. reads'[i] = d /\ \A j \in Node : j /= i => reads'[j] = reads[j]
  BY <1>1 DEF TaskTypeOK
<1>5. ReadTerms'
  <2> SUFFICES ASSUME NEW m \in requests', m.type = "Heartbeat", ~m.late
               PROVE  m.term = reads'[m.src].term
    BY DEF ReadTerms
  <2>1. CASE m \in new
    BY <1>2, <1>3, <1>4, <2>1
  <2>2. CASE m \in requests
    <3>1. reads[m.src] /= Nil /\ m.src \in Node
      BY <2>2, RequestFields DEF HeartbeatCalls
    <3>2. m.term = reads[m.src].term
      BY <2>2 DEF ReadInv, ReadTerms
    <3> QED
      BY <1>1, <1>4, <3>1, <3>2
  <2> QED
    BY <1>1, <2>1, <2>2
<1>6. ReadPeers' /\ ReadNotSuperseded'
  BY <1>1, <1>2, <1>4 DEF ReadInv, ReadPeers, ReadNotSuperseded
<1>7. SupersededReads'
  <2> SUFFICES ASSUME NEW j \in Node, reads'[j] /= Nil, reads'[j].superseded
               PROVE  \E Q \in SUBSET Node : /\ Cardinality(Q) >= majority
                                             /\ \A v \in Q : MovedOn(j, v)'
    BY DEF SupersededReads
  <2>1. CASE j /= i
    <3>1. PICK Q \in SUBSET Node : Cardinality(Q) >= majority /\ \A v \in Q : MovedOn(j, v)
      BY <1>4, <2>1 DEF ReadInv, SupersededReads
    <3>2. \A v \in Q : MovedOn(j, v)'
      BY <1>1, <1>4, <2>1, <3>1 DEF MovedOn
    <3> QED
      BY <3>1, <3>2
  <2>2. CASE j = i
    <3>1. PICK e \in elected : e[1] > currentTerm[i]
      BY <1>2, <1>4, <2>2
    <3>2. e[1] \in Nat /\ currentTerm[i] \in Nat
      BY ElectionFacts
    <3>3. PICK Q \in SUBSET Node : /\ Cardinality(Q) >= majority
                                   /\ \A v \in Q : <<v, e[1], e[2]>> \in grants
      BY DEF ElectionInv, Mandates, Mandate
    <3>4. ASSUME NEW v \in Q PROVE MovedOn(i, v)'
      <4>1. <<v, e[1], e[2]>> \in grants /\ v \in Node
        BY <3>3
      <4>2. e[1] <= currentTerm[v]
        BY <4>1 DEF ElectionInv, PeerVotes
      <4>3. currentTerm[v] \in Nat
        BY <4>1 DEF TermsGrow
      <4>4. currentTerm'[v] > reads'[i].term /\ v \notin reads'[i].acks
        BY <1>1, <1>2, <1>4, <3>1, <3>2, <4>2, <4>3
      <4>5. \A r \in replies : r.type = "Heartbeat" => r.dst /= i
        BY <1>1 DEF HeartbeatCalls
      <4> QED
        BY <1>1, <4>4, <4>5 DEF MovedOn
    <3> QED
      BY <2>2, <3>3, <3>4
  <2> QED
    BY <2>1, <2>2
<1> QED
  BY <1>5, <1>6, <1>7 DEF ReadInv

\* confirmLeadership serves the board only if a majority, with the leader itself,
\* was still in the term of the read: none of those that had moved on is in it.
LEMMA ReadSettledReads ==
  ASSUME TypeInv, TermsGrow, ReadInv, TypeInv', NEW i \in Node, NEW p \in Node, NEW d \in ReadSet,
         ReadSettled(i, d), reads[i] /= Nil, p \in reads[i].waits,
         d.term = reads[i].term, d.superseded = reads[i].superseded,
         d.waits \subseteq reads[i].waits, d.acks \subseteq reads[i].acks \cup {p},
         p \in d.acks => \/ p \in reads[i].acks
                         \/ \E r \in replies : /\ r.type = "Heartbeat" /\ r.dst = i
                                               /\ r.src = p /\ r.result.success,
         HeartbeatsStay
  PROVE  ReadInv'
<1>1. reads' = [reads EXCEPT ![i] = IF d.waits = {} THEN Nil ELSE d]
  BY ReadSettledType
<1>2. /\ reads'[i] = (IF d.waits = {} THEN Nil ELSE d)
      /\ \A j \in Node : j /= i => reads'[j] = reads[j]
  BY <1>1, TypeFacts DEF TaskTypeOK
<1>3. d.acks \subseteq Peers(i) /\ d.waits \subseteq Peers(i)
  BY DEF ReadInv, ReadPeers
<1>4. ASSUME NEW v \in Node, MovedOn(i, v) PROVE v \notin d.acks
  BY <1>4 DEF MovedOn
<1>5. ReadTerms'
  <2> SUFFICES ASSUME NEW m \in requests', m.type = "Heartbeat", ~m.late
               PROVE  m.term = reads'[m.src].term
    BY DEF ReadTerms
  <2>1. m \in requests
    BY DEF HeartbeatsStay
  <2>2. m.term = reads[m.src].term /\ m.src \in Node
    BY <2>1, TypeFacts, RequestFields DEF ReadInv, ReadTerms
  <2>3. reads'[m.src] /= Nil
    BY DEF TypeInv, HeartbeatCalls
  <2> QED
    BY <1>2, <2>2, <2>3
<1>6. ReadPeers'
  <2> SUFFICES ASSUME NEW j \in Node, reads'[j] /= Nil
               PROVE  reads'[j].waits \subseteq Peers(j) /\ reads'[j].acks \subseteq Peers(j)
    BY DEF ReadPeers
  <2>1. CASE j = i
    BY <1>2, <1>3, <2>1
  <2>2. CASE j /= i
    BY <1>2, <2>2 DEF ReadInv, ReadPeers
  <2> QED
    BY <2>1, <2>2
<1>7. SupersededReads'
  <2> SUFFICES ASSUME NEW j \in Node, reads'[j] /= Nil, reads'[j].superseded
               PROVE  \E Q \in SUBSET Node : /\ Cardinality(Q) >= majority
                                             /\ \A v \in Q : MovedOn(j, v)'
    BY DEF SupersededReads
  <2>0. \A a \in replies' : a.type = "Heartbeat" => a \in replies
    BY DEF HeartbeatsStay
  <2>1. /\ reads[j] /= Nil /\ reads[j].superseded /\ reads'[j].term = reads[j].term
        /\ \A v \in Node : MovedOn(j, v) => v \notin reads'[j].acks
    <3>1. CASE j = i
      BY <1>2, <1>4, <3>1
    <3>2. CASE j /= i
      BY <1>2, <3>2 DEF MovedOn
    <3> QED
      BY <3>1, <3>2
  <2>2. PICK Q \in SUBSET Node : Cardinality(Q) >= majority /\ \A v \in Q : MovedOn(j, v)
    BY <2>1 DEF ReadInv, SupersededReads
  <2>3. ASSUME NEW v \in Q PROVE MovedOn(j, v)'
    <3>1. v \in Node /\ MovedOn(j, v)
      BY <2>2
    <3> QED
      BY <2>0, <2>1, <3>1, MovedOnStays
  <2> QED
    BY <2>2, <2>3
<1>8. ReadNotSuperseded'
  <2> DEFINE answer == [term |-> d.term, superseded |-> d.superseded, acked |-> d.acked,
                        strokes |-> store[i].boardEvents]
  <2>1. \/ served' = served
        \/ /\ served' = served \cup {answer} /\ currentTerm[i] = d.term
           /\ 1 + Cardinality(d.acks) >= majority
    BY DEF ReadSettled
  <2>2. answer.superseded = d.superseded
    OBVIOUS
  <2> HIDE DEF answer
  <2>3. ASSUME currentTerm[i] = d.term, 1 + Cardinality(d.acks) >= majority PROVE ~d.superseded
    <3> SUFFICES ASSUME d.superseded PROVE FALSE
      OBVIOUS
    <3>1. PICK Q \in SUBSET Node : Cardinality(Q) >= majority /\ \A v \in Q : MovedOn(i, v)
      BY DEF ReadInv, SupersededReads
    <3> DEFINE P == d.acks \cup {i}
    <3>2. IsFiniteSet(d.acks) /\ i \notin d.acks /\ P \in SUBSET Node
      BY <1>3, NodeAssumption, FS_Subset DEF Peers
    <3>3. Cardinality(P) = Cardinality(d.acks) + 1 /\ Cardinality(d.acks) \in Nat
      BY <3>2, FS_AddElement, FS_CardinalityType
    <3>4. Cardinality(P) >= majority
      BY <2>3, <3>3
    <3> HIDE DEF P
    <3>5. PICK v \in P \cap Q : TRUE
      BY <3>1, <3>2, <3>4, MajoritiesMeet
    <3>6. v \in Node /\ MovedOn(i, v)
      BY <3>1, <3>5
    <3>7. v = i
      BY <1>4, <3>5, <3>6 DEF P
    <3> QED
      BY <2>3, <3>6, <3>7 DEF MovedOn, TermsGrow
  <2>4. \A s \in served : ~s.superseded
    BY DEF ReadInv, ReadNotSuperseded
  <2> QED
    BY <2>1, <2>2, <2>3, <2>4 DEF ReadNotSuperseded
<1> QED
  BY <1>5, <1>6, <1>7, <1>8 DEF ReadInv

LEMMA HeartbeatReplyReads ==
  ASSUME TypeInv, TermsGrow, ReadInv, TypeInv', NEW r \in replies, heartbeatReply(r)
  PROVE  ReadInv'
<1> USE TypeFacts
<1> DEFINE i == r.dst
           p == r.src
           d == [reads[i] EXCEPT !.waits = @ \ {p}, !.terms = @ \cup {r.term},
                                 !.acks = IF r.result.success THEN @ \cup {p} ELSE @]
<1>1. /\ ReadSettled(i, d) /\ requests' = requests /\ replies' \subseteq replies
      /\ r.type = "Heartbeat"
  BY DEF heartbeatReply, Answer
<1>2. i \in Node /\ p \in Node /\ r.term \in Nat
  BY ReplyFields
<1>3. reads[i] \in ReadSet /\ reads[i] /= Nil /\ p \in reads[i].waits
  BY <1>1, <1>2 DEF HeartbeatCalls, TaskTypeOK
<1>4. d \in ReadSet
  BY <1>2, <1>3 DEF ReadSet
<1>5. /\ d.term = reads[i].term /\ d.superseded = reads[i].superseded
      /\ d.waits = reads[i].waits \ {p}
      /\ d.acks = IF r.result.success THEN reads[i].acks \cup {p} ELSE reads[i].acks
  BY <1>3 DEF ReadSet
<1> HIDE DEF d
<1>6. HeartbeatsStay
  BY <1>1 DEF HeartbeatsStay
<1>7. d.waits \subseteq reads[i].waits /\ d.acks \subseteq reads[i].acks \cup {p}
  BY <1>5
<1>8. p \in d.acks => \/ p \in reads[i].acks
                      \/ \E a \in replies : /\ a.type = "Heartbeat" /\ a.dst = i
                                            /\ a.src = p /\ a.result.success
  BY <1>1, <1>5
<1> HIDE DEF i, p
<1> QED
  BY <1>1, <1>2, <1>3, <1>4, <1>5, <1>6, <1>7, <1>8, ReadSettledReads

\* A step that gives up on calls keeps no request of theirs that is awaited.
LEMMA CallFailsStays ==
  ASSUME TypeInv, NEW asked, asked \subseteq requests, NEW i, NEW p, NEW types, NEW sent,
         CallFails(asked, i, p, types, sent),
         \A m \in sent : m.type /= "Heartbeat"
  PROVE  HeartbeatsStay
<1>1. /\ replies' \subseteq replies
      /\ requests' \subseteq (requests \ asked) \cup Late(asked) \cup sent
      /\ asked \subseteq RequestSet
  BY CallFailsEffect
<1>2. \A l \in Late(asked) : l.late
  BY <1>1, LateSet
<1> QED
  BY <1>1, <1>2 DEF HeartbeatsStay

LEMMA HeartbeatFailsReads ==
  ASSUME TypeInv, TermsGrow, ReadInv, TypeInv', NEW i \in Node, NEW p \in Peers(i),
         heartbeatFails(i, p)
  PROVE  ReadInv'
<1> USE TypeFacts
<1> DEFINE asked == {m \in requests : m.type = "Heartbeat" /\ m.src = i /\ m.dst = p /\ ~m.late}
           d == [reads[i] EXCEPT !.waits = @ \ {p}]
<1>1. /\ ReadSettled(i, d) /\ asked \subseteq requests /\ p \in Node
      /\ CallFails(asked, i, p, {"Heartbeat"}, {})
      /\ reads[i] \in ReadSet /\ reads[i] /= Nil /\ p \in reads[i].waits
  BY DEF heartbeatFails, TaskTypeOK, Peers
<1>2. d \in ReadSet
  BY <1>1 DEF ReadSet
<1>3. /\ d.term = reads[i].term /\ d.superseded = reads[i].superseded
      /\ d.waits = reads[i].waits \ {p} /\ d.acks = reads[i].acks
  BY <1>1 DEF ReadSet
<1> HIDE DEF d, asked
<1>4. HeartbeatsStay
  BY <1>1, CallFailsStays
<1> QED
  BY <1>1, <1>2, <1>3, <1>4, ReadSettledReads

\* A crash drops the read of the replica; its heartbeats arrive late, if at all.
LEMMA RestartReads ==
  ASSUME TypeInv, TermsGrow, ReadInv, NEW i \in Node, Restart(i)
  PROVE  ReadInv'
<1> USE TypeFacts
<1> DEFINE mine == {m \in requests : m.src = i}
<1>1. /\ reads' = [reads EXCEPT ![i] = Nil] /\ served' = served
      /\ requests' = {m \in requests : m.src /= i} \cup Late(mine)
      /\ replies' = {r \in replies : r.dst /= i} /\ currentTerm' = currentTerm
  BY DEF Restart, history
<1>2. \A l \in Late(mine) : l.late
  BY LateSet
<1> HIDE DEF mine
<1>3. reads'[i] = Nil /\ \A j \in Node : j /= i => reads'[j] = reads[j]
  BY <1>1 DEF TaskTypeOK
<1>4. ReadTerms'
  BY <1>1, <1>2, <1>3, RequestFields DEF ReadInv, ReadTerms
<1>5. ReadPeers' /\ ReadNotSuperseded'
  BY <1>1, <1>3 DEF ReadInv, ReadPeers, ReadNotSuperseded
<1>6. SupersededReads'
  <2> SUFFICES ASSUME NEW j \in Node, reads'[j] /= Nil, reads'[j].superseded
               PROVE  \E Q \in SUBSET Node : /\ Cardinality(Q) >= majority
                                             /\ \A v \in Q : MovedOn(j, v)'
    BY DEF SupersededReads
  <2>1. j /= i /\ reads'[j] = reads[j]
    BY <1>3
  <2>2. PICK Q \in SUBSET Node : Cardinality(Q) >= majority /\ \A v \in Q : MovedOn(j, v)
    BY <2>1 DEF ReadInv, SupersededReads
  <2>3. \A v \in Q : MovedOn(j, v)'
    BY <1>1, <2>1, <2>2 DEF MovedOn
  <2> QED
    BY <2>2, <2>3
<1> QED
  BY <1>4, <1>5, <1>6 DEF ReadInv

LEMMA SentTypes ==
  ASSUME TypeInv', NEW i \in Node, NEW idle, NEW m \in Sent(i, idle)
  PROVE  m.type /= "Heartbeat"
<1>1. replicating' \in [Node -> [Node -> AppendEntriesSet \cup InstallSnapshotSet \cup {Nil}]]
  BY DEF TypeInv, TypeOK, LeaderTypeOK
<1>2. PICK p \in Node : m = replicating'[i][p] /\ m /= Nil
  BY DEF Sent, Peers
<1>3. m \in AppendEntriesSet \cup InstallSnapshotSet
  BY <1>1, <1>2
<1> QED
  BY <1>3 DEF AppendEntriesSet, InstallSnapshotSet

LEMMA RespondStays ==
  ASSUME NEW m, NEW x, m.type /= "Heartbeat", Respond(m, x)
  PROVE  HeartbeatsStay
<1> DEFINE r == [type |-> m.type, src |-> m.dst, dst |-> m.src, askedIn |-> m.term,
                 term |-> currentTerm'[m.dst], result |-> x]
<1>1. requests' \subseteq requests /\ replies' \subseteq replies \cup {r}
  BY RespondEffect
<1>2. r.type = m.type
  OBVIOUS
<1> HIDE DEF r
<1> QED
  BY <1>1, <1>2 DEF HeartbeatsStay

LEMMA ReadInvNext ==
  ASSUME TypeInv, ElectionInv, ReadInv, [Next]_vars
  PROVE  ReadInv'
<1>0. TermsGrow /\ TypeInv'
  BY TermsGrowNext
<1>1. CASE UNCHANGED vars
  <2>1. HeartbeatsStay /\ UNCHANGED <<reads, served>>
    BY <1>1 DEF vars, HeartbeatsStay, history
  <2> QED
    BY <1>0, <2>1, ReadsKept
<1>2. ASSUME NEW i \in Node, runElection(i) PROVE ReadInv'
  <2>1. HeartbeatsStay /\ UNCHANGED <<reads, served>>
    BY <1>2 DEF runElection, HeartbeatsStay
  <2> QED
    BY <1>0, <2>1, ReadsKept
<1>3. ASSUME NEW i \in Node, sendHeartbeats(i) \/ \E v \in Stroke : handleClientWrite(i, v)
      PROVE  ReadInv'
  <2>1. /\ requests' = requests \cup Sent(i, replicating[i]) /\ replies' = replies
        /\ UNCHANGED <<reads, served>>
    BY <1>3 DEF sendHeartbeats, handleClientWrite, history
  <2>2. HeartbeatsStay
    BY <1>0, <2>1, SentTypes DEF HeartbeatsStay
  <2> QED
    BY <1>0, <2>1, <2>2, ReadsKept
<1>4. ASSUME NEW i \in Node, readBoardState(i) PROVE ReadInv'
  BY <1>0, <1>4, ReadBoardStateReads
<1>5. ASSUME NEW i \in Node, requestCatchUp(i) PROVE ReadInv'
  <2>1. /\ \A q \in requests' : q \in requests \/ \E u : q = SyncLogArgs(i, u)
        /\ replies' = replies /\ UNCHANGED <<reads, served>>
    BY <1>5 DEF requestCatchUp, history
  <2>2. HeartbeatsStay
    BY <2>1 DEF HeartbeatsStay, SyncLogArgs
  <2> QED
    BY <1>0, <2>1, <2>2, ReadsKept
<1>6. ASSUME NEW i \in Node, syncLogFails(i) PROVE ReadInv'
  <2> DEFINE asked == {m \in requests : m.type = "SyncLog" /\ m.src = i /\ ~m.late}
  <2>1. /\ UNCHANGED <<reads, served>> /\ asked \subseteq requests
        /\ \E sent : /\ \A m \in sent : \E u : m = SyncLogArgs(i, u)
                     /\ CallFails(asked, i, catchUp[i].target, {"SyncLog"}, sent)
    BY <1>6 DEF syncLogFails, history
  <2> HIDE DEF asked
  <2>2. PICK sent : /\ \A m \in sent : \E u : m = SyncLogArgs(i, u)
                    /\ CallFails(asked, i, catchUp[i].target, {"SyncLog"}, sent)
    BY <2>1
  <2>3. \A m \in sent : m.type /= "Heartbeat"
    BY <2>2 DEF SyncLogArgs
  <2>4. HeartbeatsStay
    BY <2>1, <2>2, <2>3, CallFailsStays
  <2> QED
    BY <1>0, <2>1, <2>4, ReadsKept
<1>7. ASSUME NEW i \in Node, Restart(i) PROVE ReadInv'
  BY <1>0, <1>7, RestartReads
<1>8. ASSUME NEW i \in Node, NEW p \in Peers(i), requestVoteFails(i, p) PROVE ReadInv'
  <2> DEFINE asked == {m \in requests : m.type = "RequestVote" /\ m.src = i /\ m.dst = p
                                        /\ m.term = currentTerm[i]}
  <2>1. /\ UNCHANGED <<reads, served>> /\ asked \subseteq requests
        /\ CallFails(asked, i, p, {"RequestVote"}, {})
    BY <1>8 DEF requestVoteFails, history
  <2> HIDE DEF asked
  <2>2. HeartbeatsStay
    BY <2>1, CallFailsStays
  <2> QED
    BY <1>0, <2>1, <2>2, ReadsKept
<1>9. ASSUME NEW i \in Node, NEW p \in Peers(i), replicateOnceFails(i, p) PROVE ReadInv'
  <2> DEFINE asked == requests \cap {replicating[i][p]}
             sent == Sent(i, [replicating[i] EXCEPT ![p] = Nil])
  <2>1. /\ UNCHANGED <<reads, served>> /\ asked \subseteq requests
        /\ CallFails(asked, i, p, Replication, sent)
    BY <1>9 DEF replicateOnceFails
  <2>2. \A m \in sent : m.type /= "Heartbeat"
    BY <1>0, SentTypes
  <2> HIDE DEF asked, sent
  <2>3. HeartbeatsStay
    BY <2>1, <2>2, CallFailsStays
  <2> QED
    BY <1>0, <2>1, <2>3, ReadsKept
<1>10. ASSUME NEW i \in Node, NEW p \in Peers(i), heartbeatFails(i, p) PROVE ReadInv'
  BY <1>0, <1>10, HeartbeatFailsReads
<1>11. ASSUME NEW m \in requests,
              \/ handleRequestVote(m) \/ handleAppendEntries(m)
              \/ handleInstallSnapshot(m) \/ handleSyncLog(m)
       PROVE  ReadInv'
  <2>1. /\ m.type /= "Heartbeat" /\ UNCHANGED <<reads, served>>
        /\ \E x : Respond(m, x)
    BY <1>11 DEF handleRequestVote, handleAppendEntries, handleInstallSnapshot,
                 handleSyncLog, Received, history
  <2>2. HeartbeatsStay
    BY <2>1, RespondStays
  <2> QED
    BY <1>0, <2>1, <2>2, ReadsKept
<1>12. ASSUME NEW m \in requests, handleHeartbeat(m) PROVE ReadInv'
  BY <1>0, <1>12, HandleHeartbeatReads
<1>13. ASSUME NEW r \in replies, requestVoteReply(r) \/ syncLogReply(r) PROVE ReadInv'
  <2>1. requests' = requests /\ replies' \subseteq replies /\ UNCHANGED <<reads, served>>
    BY <1>13 DEF requestVoteReply, syncLogReply, history
  <2>2. HeartbeatsStay
    BY <2>1 DEF HeartbeatsStay
  <2> QED
    BY <1>0, <2>1, <2>2, ReadsKept
<1>14. ASSUME NEW r \in replies, replicateOnceReply(r) PROVE ReadInv'
  <2> DEFINE sent == Sent(r.dst, [replicating[r.dst] EXCEPT ![r.src] = Nil])
  <2>1. /\ requests' = requests \cup sent /\ replies' \subseteq replies
        /\ UNCHANGED <<reads, served>> /\ r.dst \in Node
    BY <1>14, TypeFacts, ReplyFields DEF replicateOnceReply
  <2>2. \A m \in sent : m.type /= "Heartbeat"
    BY <1>0, <2>1, SentTypes
  <2> HIDE DEF sent
  <2>3. HeartbeatsStay
    BY <2>1, <2>2 DEF HeartbeatsStay
  <2> QED
    BY <1>0, <2>1, <2>3, ReadsKept
<1>15. ASSUME NEW r \in replies, heartbeatReply(r) PROVE ReadInv'
  BY <1>0, <1>15, HeartbeatReplyReads
<1> QED
  BY <1>1, <1>2, <1>3, <1>4, <1>5, <1>6, <1>7, <1>8, <1>9, <1>10, <1>11, <1>12, <1>13,
     <1>14, <1>15 DEF Next

\* A board is served only by a leader that no later term had replaced when the
\* read began, for any cluster size and over delayed, lost and late heartbeats:
\* the majority that confirms the read meets the one that voted in a later term.
THEOREM ReadsAreConfirmed == Spec => []ReadNotSuperseded
<1>1. Init => ReadInv
  BY DEF Init, ReadInv, ReadTerms, ReadPeers, SupersededReads, ReadNotSuperseded
<1>2. TypeInv /\ ElectionInv /\ ReadInv /\ [Next]_vars => ReadInv'
  BY ReadInvNext
<1>3. ReadInv => ReadNotSuperseded
  BY DEF ReadInv
<1> QED
  BY <1>1, <1>2, <1>3, TypeInvCorrect, ElectionInvCorrect, PTL DEF Spec

=============================================================================
