------------------------------ MODULE RaftLog ------------------------------
(***************************************************************************)
(* The replicated log of one replica (replica/src/raftLog.ts) as a value,  *)
(* and the operations of class RaftLog as operators on it.                 *)
(*                                                                         *)
(* A log is a record of the entries it still holds and of the snapshot     *)
(* boundary that replaces the ones it has compacted away.  Callers use     *)
(* absolute indices; an entry is found by its POSITION behind the boundary, *)
(* not by the index it carries, exactly as `entries[index - lastIncluded   *)
(* - 1]' does.  Each mutation also rewrites or extends the WAL before it   *)
(* returns, so the log here is the log on disk as well.                    *)
(***************************************************************************)
EXTENDS Integers, Sequences, FiniteSetsExt

EntryOf(Stroke) == [index : Nat, term : Nat, stroke : Stroke]

LogOf(Stroke) == [entries           : Seq(EntryOf(Stroke)),
                  lastIncludedIndex : Nat,
                  lastIncludedTerm  : Nat]

emptyLog == [entries |-> <<>>, lastIncludedIndex |-> 0, lastIncludedTerm |-> 0]

getLength(l) == Len(l.entries)

getLastIndex(l) == l.lastIncludedIndex + Len(l.entries)

getLastTerm(l) ==
  IF l.entries = <<>> THEN l.lastIncludedTerm ELSE l.entries[Len(l.entries)].term

\* getEntry() returns undefined outside these indices.
hasEntry(l, index) == index > l.lastIncludedIndex /\ index <= getLastIndex(l)

getEntry(l, index) == l.entries[index - l.lastIncludedIndex]

getTermAt(l, index) ==
  IF index = l.lastIncludedIndex THEN l.lastIncludedTerm
  ELSE IF hasEntry(l, index) THEN getEntry(l, index).term ELSE 0

getEntriesFrom(l, startIndex) ==
  IF startIndex <= l.lastIncludedIndex THEN l.entries
  ELSE SubSeq(l.entries, startIndex - l.lastIncludedIndex, Len(l.entries))

append(l, entry) == [l EXCEPT !.entries = Append(@, entry)]

truncateFrom(l, index) ==
  IF hasEntry(l, index)
  THEN [l EXCEPT !.entries = SubSeq(@, 1, index - l.lastIncludedIndex - 1)]
  ELSE l

\* Mutant: the boundary gets the term of the last entry.
compact_LastTerm(l, uptoIndex, term) ==
  IF uptoIndex <= l.lastIncludedIndex THEN l
  ELSE [entries           |-> getEntriesFrom(l, uptoIndex + 1),
        lastIncludedIndex |-> uptoIndex,
        lastIncludedTerm  |-> getLastTerm(l)]

compact(l, uptoIndex, term) ==
  IF uptoIndex <= l.lastIncludedIndex THEN l
  ELSE [entries           |-> getEntriesFrom(l, uptoIndex + 1),
        lastIncludedIndex |-> uptoIndex,
        lastIncludedTerm  |-> term]

\* Array.filter: the entries at the positions kept, in their order.
Filtered(es, kept) ==
  LET nth(j) == CHOOSE k \in kept : Cardinality({i \in kept : i <= k}) = j
  IN  [j \in 1..Cardinality(kept) |-> es[nth(j)]]

\* entries.filter(e => e.index > index) and entries.filter(e => e.index <= index)
\* look at the index an entry carries, wherever it stands in the log.
EntriesAfter(es, index) == Filtered(es, {k \in 1..Len(es) : es[k].index > index})

EntriesUpTo(es, index) == Filtered(es, {k \in 1..Len(es) : es[k].index <= index})

\* installSnapshot keeps every entry that carries an index behind the new boundary.
installSnapshot(l, lastIncludedIndex, lastIncludedTerm) ==
  [entries           |-> EntriesAfter(l.entries, lastIncludedIndex),
   lastIncludedIndex |-> lastIncludedIndex,
   lastIncludedTerm  |-> lastIncludedTerm]

\* The constructor keeps what installSnapshot keeps, of the log on disk.
reloaded(l) == installSnapshot(l, l.lastIncludedIndex, l.lastIncludedTerm)

-----------------------------------------------------------------------------
(***************************************************************************)
(* The loop that handleAppendEntries and requestCatchUp share: entries the *)
(* log already holds are skipped, the first one that conflicts with an     *)
(* uncommitted entry truncates the log there, and what is missing is       *)
(* appended.  In a batch whose indices grow, once one entry has been       *)
(* appended the log ends before every later one, so the loop appends the   *)
(* rest: it is enough to find the first entry that changes the log.  (A    *)
(* leader that wrote behind a gap in its log sends batches that do not     *)
(* grow; what the loop makes of those is left out.)                        *)
(***************************************************************************)
Conflicts(l, entry) ==
  hasEntry(l, entry.index) /\ getEntry(l, entry.index).term /= entry.term

\* Mutant: the commit index is not looked at.
CommittedConflicts_Any(l, commitIndex, es) == {k \in 1..Len(es) : Conflicts(l, es[k])}

\* The positions of es whose entry would overwrite a committed one.
CommittedConflicts(l, commitIndex, es) ==
  {k \in 1..Len(es) : Conflicts(l, es[k]) /\ es[k].index <= commitIndex}

\* Mutant: conflicts are not looked for.
NewPositions_NoTruncate(l, commitIndex, es) ==
  {k \in 1..Len(es) : es[k].index > getLastIndex(l)}

NewPositions(l, commitIndex, es) ==
  {k \in 1..Len(es) : \/ es[k].index > getLastIndex(l)
                      \/ Conflicts(l, es[k]) /\ es[k].index > commitIndex}

MergeEntries(l, commitIndex, es) ==
  LET new   == NewPositions(l, commitIndex, es)
      first == Min(new)
      base  == truncateFrom(l, es[first].index)
  IN  IF new = {} THEN l
      ELSE [base EXCEPT !.entries = @ \o SubSeq(es, first, Len(es))]
=============================================================================
