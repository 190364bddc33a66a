----------------------------- MODULE MCRaftLog -----------------------------
(***************************************************************************)
(* RaftLog for TLC: one log driven through every operation of its class,   *)
(* and the entry loop of handleAppendEntries and requestCatchUp, written   *)
(* as the code writes it, as the reference for MergeEntries.               *)
(***************************************************************************)
EXTENDS RaftLog

CONSTANTS MaxIndex, MaxTerm, MaxBatch   \* bounds of the log explored

ASSUME BoundsAssumption == {MaxIndex, MaxTerm, MaxBatch} \subseteq Nat

VARIABLES log, commitIndex
vars == <<log, commitIndex>>

Entry(index, term) == [index |-> index, term |-> term, stroke |-> <<index, term>>]

\* What a sender can put in a message: entries of growing index.
Growing(es) == \A j, k \in 1..Len(es) : j < k => es[j].index < es[k].index

\* A batch may reach beyond the last index, and leave one out.
Batches ==
  LET entries == {Entry(n, t) : n \in 1..(MaxIndex + MaxBatch), t \in 1..MaxTerm}
  IN  {es \in UNION {[1..n -> entries] : n \in 0..MaxBatch} : Growing(es)}

\* One pass of the loop of requestCatchUp.
MergeStep(l, entry) ==
  IF entry.index <= l.lastIncludedIndex THEN l
  ELSE IF Conflicts(l, entry) /\ entry.index <= commitIndex THEN l
  ELSE LET cut == IF Conflicts(l, entry) THEN truncateFrom(l, entry.index) ELSE l
       IN  IF hasEntry(cut, entry.index) THEN cut ELSE append(cut, entry)

\* The log after the whole loop over es.
MergeLoop(l, es) ==
  LET after[k \in 0..Len(es)] == IF k = 0 THEN l ELSE MergeStep(after[k - 1], es[k])
  IN  after[Len(es)]

Init == log = emptyLog /\ commitIndex = 0

Write(t) ==
  /\ getLastIndex(log) < MaxIndex
  /\ log' = append(log, Entry(getLastIndex(log) + 1, t))
  /\ UNCHANGED commitIndex

Merge(es) ==
  /\ CommittedConflicts(log, commitIndex, es) = {}
  /\ \A k \in 1..Len(es) : es[k].index <= MaxIndex
  /\ es /= <<>> => es[1].index <= getLastIndex(log) + 1
  /\ log' = MergeEntries(log, commitIndex, es)
  /\ UNCHANGED commitIndex

Commit(c) ==
  /\ c > commitIndex /\ c <= getLastIndex(log)
  /\ commitIndex' = c
  /\ UNCHANGED log

Compact ==
  /\ commitIndex > log.lastIncludedIndex
  /\ log' = compact(log, commitIndex, getTermAt(log, commitIndex))
  /\ UNCHANGED commitIndex

Install(index, term) ==
  /\ index > commitIndex
  /\ log' = installSnapshot(log, index, term)
  /\ commitIndex' = index

Next ==
  \/ \E t \in 1..MaxTerm : Write(t)
  \/ \E es \in Batches : Merge(es)
  \/ \E c \in 1..MaxIndex : Commit(c)
  \/ Compact
  \/ \E index \in 1..MaxIndex, term \in 1..MaxTerm : Install(index, term)

Spec == Init /\ [][Next]_vars

\* The closed form the model uses for the entry loop computes what the loop
\* computes, for every log, commit index and batch, also when a batch starts
\* beyond the end of the log.
MergeIsTheLoop ==
  \A es \in Batches : MergeEntries(log, commitIndex, es) = MergeLoop(log, es)

\* handleAppendEntries returns in the middle of its loop at a conflict with a
\* committed entry; at that point it has not changed the log.
AbortChangesNothing ==
  \A es \in Batches : \A k \in CommittedConflicts(log, commitIndex, es) :
    MergeLoop(log, SubSeq(es, 1, k)) = log

\* Truncating, compacting and installing never lose a committed entry and keep
\* the term known at the boundary, so the prevLogTerm check still works there.
CommittedTermsKept ==
  [][\A n \in log'.lastIncludedIndex..commitIndex :
       n >= log.lastIncludedIndex => getTermAt(log', n) = getTermAt(log, n)]_vars
=============================================================================
