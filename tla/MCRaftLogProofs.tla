-------------------------- MODULE MCRaftLogProofs --------------------------
(***************************************************************************)
(* Proofs about one log driven through every operation of its class, for   *)
(* any indices, terms and batches: the entry loop computes MergeEntries,   *)
(* stopping it at a committed conflict has changed nothing, and no         *)
(* operation loses the term of a committed entry.                          *)
(***************************************************************************)
EXTENDS MCRaftLog, RaftLogProofs

Strokes == Nat \X Nat

\* The boundary is committed, and what is committed is in the log.
LogInv ==
  /\ log \in LogOf(Strokes)
  /\ commitIndex \in Nat
  /\ log.lastIncludedIndex <= commitIndex
  /\ commitIndex <= getLastIndex(log)

-----------------------------------------------------------------------------
(* Induction over the numbers; a set stands for the predicate.             *)

LEMMA Counting ==
  ASSUME NEW T \in SUBSET Nat, 0 \in T, \A n \in T : n + 1 \in T
  PROVE  T = Nat
<1> SUFFICES ASSUME Nat \ T /= {} PROVE FALSE
  OBVIOUS
<1> DEFINE m == Min(Nat \ T)
<1>1. m \in Nat \ T /\ \A k \in Nat \ T : m <= k
  BY MinInSet
<1> HIDE DEF m
<1>2. m /= 0 /\ m - 1 \in T
  BY <1>1
<1> QED
  BY <1>1, <1>2

-----------------------------------------------------------------------------
(* The recursion of MergeLoop.                                             *)

\* The log after each pass, up to n.
IsLoop(g, l, es, n) ==
  g = [k \in 0..n |-> IF k = 0 THEN l ELSE MergeStep(g[k - 1], es[k])]

LEMMA LoopExists ==
  ASSUME NEW l, NEW es, NEW n \in Nat
  PROVE  \E g : IsLoop(g, l, es, n)
<1> DEFINE T == {m \in Nat : \E g : IsLoop(g, l, es, m)}
<1>1. 0 \in T
  <2>1. IsLoop([k \in 0..0 |-> l], l, es, 0)
    BY DEF IsLoop
  <2> QED
    BY <2>1
<1>2. ASSUME NEW m \in T PROVE m + 1 \in T
  <2>1. PICK g : IsLoop(g, l, es, m)
    BY <1>2
  <2> DEFINE h == [k \in 0..(m + 1) |-> IF k <= m THEN g[k] ELSE MergeStep(g[m], es[m + 1])]
  <2>2. IsLoop(h, l, es, m + 1)
    <3> SUFFICES \A k \in 0..(m + 1) : h[k] = IF k = 0 THEN l ELSE MergeStep(h[k - 1], es[k])
      BY DEF IsLoop
    <3> TAKE k \in 0..(m + 1)
    <3>1. CASE k = 0
      BY <2>1, <3>1 DEF IsLoop
    <3>2. CASE k \in 1..m
      <4>1. h[k] = g[k] /\ h[k - 1] = g[k - 1]
        BY <3>2
      <4>2. g[k] = MergeStep(g[k - 1], es[k])
        BY <2>1, <3>2 DEF IsLoop
      <4> QED
        BY <3>2, <4>1, <4>2
    <3>3. CASE k = m + 1
      BY <3>3
    <3> QED
      BY <3>1, <3>2, <3>3
  <2> QED
    BY <2>2
<1> HIDE DEF T
<1>3. T = Nat
  BY <1>1, <1>2, Counting DEF T
<1> QED
  BY <1>3 DEF T

LEMMA LoopNext ==
  ASSUME NEW l, NEW es, NEW n \in Nat, NEW g, IsLoop(g, l, es, n), NEW k \in 0..(n - 1)
  PROVE  g[k + 1] = MergeStep(g[k], es[k + 1])
<1>1. k + 1 \in 0..n /\ k + 1 /= 0 /\ (k + 1) - 1 = k
  OBVIOUS
<1> QED
  BY <1>1 DEF IsLoop

LEMMA LoopIs ==
  ASSUME NEW l, NEW es, Len(es) \in Nat
  PROVE  \E g : IsLoop(g, l, es, Len(es)) /\ MergeLoop(l, es) = g[Len(es)]
<1> DEFINE f == CHOOSE g : IsLoop(g, l, es, Len(es))
<1>1. IsLoop(f, l, es, Len(es))
  BY LoopExists
<1>2. MergeLoop(l, es) = f[Len(es)]
  BY DEF MergeLoop, IsLoop
<1> QED
  BY <1>1, <1>2

-----------------------------------------------------------------------------
(* One pass of the loop.                                                   *)

\* The entry changes the log.
IsNew(l, e) == e.index > getLastIndex(l) \/ (Conflicts(l, e) /\ e.index > commitIndex)

LEMMA LongerStretch ==
  ASSUME NEW T, NEW es \in Seq(T), NEW m \in Nat, m >= 1, NEW k \in Nat, m <= k, k < Len(es)
  PROVE  SubSeq(es, m, k + 1) = SubSeq(es, m, k) \o <<es[k + 1]>>
<1>1. m \in 1..Len(es) /\ k + 1 \in m..Len(es) /\ (k + 1) - 1 = k
  OBVIOUS
<1> QED
  BY <1>1, SubSeqRecursiveSecond

LEMMA ConcatAppend ==
  ASSUME NEW T, NEW r \in Seq(T), NEW t \in Seq(T), NEW e \in T
  PROVE  Append(r \o t, e) = r \o (t \o <<e>>)
<1>1. <<e>> \in Seq(T) /\ r \o t \in Seq(T)
  BY ConcatProperties
<1>2. Append(r \o t, e) = (r \o t) \o <<e>>
  BY <1>1, AppendIsConcat
<1>3. (r \o t) \o <<e>> = r \o (t \o <<e>>)
  BY <1>1, ConcatAssociative
<1> QED
  BY <1>2, <1>3

LEMMA EntryOfBatch ==
  ASSUME NEW S, NEW es \in Seq(EntryOf(S)), NEW k \in 1..Len(es)
  PROVE  es[k] \in EntryOf(S) /\ es[k].index \in Nat
<1>1. es[k] \in EntryOf(S)
  BY ElementOfSeq
<1> QED
  BY <1>1 DEF EntryOf

LEMMA NextIsLater ==
  ASSUME NEW es, Growing(es), NEW j \in 1..Len(es), NEW k \in 1..Len(es), j < k
  PROVE  es[j].index < es[k].index
  BY Zenon DEF Growing

LEMMA StepSkips ==
  ASSUME NEW S, NEW l \in LogOf(S), NEW e \in EntryOf(S), commitIndex \in Nat, ~IsNew(l, e)
  PROVE  MergeStep(l, e) = l
<1>1. e.index \in Nat /\ e.index <= getLastIndex(l) /\ getLastIndex(l) \in Nat
      /\ l.lastIncludedIndex \in Nat
  <2>1. e.index \in Nat /\ getLastIndex(l) \in Nat /\ l.lastIncludedIndex \in Nat
    BY LogIndexType DEF EntryOf
  <2> QED
    BY <2>1 DEF IsNew
<1>2. Conflicts(l, e) => e.index <= commitIndex
  BY <1>1 DEF IsNew
<1>3. e.index > l.lastIncludedIndex => hasEntry(l, e.index)
  BY <1>1 DEF hasEntry
<1> QED
  BY <1>1, <1>2, <1>3 DEF MergeStep

LEMMA StepAppends ==
  ASSUME NEW S, NEW l \in LogOf(S), NEW e \in EntryOf(S), commitIndex \in Nat, IsNew(l, e)
  PROVE  /\ MergeStep(l, e) = append(truncateFrom(l, e.index), e)
         /\ MergeStep(l, e) \in LogOf(S)
         /\ getLastIndex(MergeStep(l, e)) <= e.index
         /\ e.index > getLastIndex(l) => MergeStep(l, e) = append(l, e)
<1> DEFINE cut == IF Conflicts(l, e) THEN truncateFrom(l, e.index) ELSE l
<1>1. e.index \in Nat /\ getLastIndex(l) \in Nat /\ l.lastIncludedIndex \in Nat
      /\ l.lastIncludedIndex <= getLastIndex(l)
  BY LogIndexType DEF EntryOf
<1>2. Conflicts(l, e) => hasEntry(l, e.index)
  BY DEF Conflicts
<1>3. hasEntry(l, e.index) => e.index > l.lastIncludedIndex /\ e.index <= getLastIndex(l)
  BY DEF hasEntry
<1>4. e.index > l.lastIncludedIndex
  BY <1>1, <1>2, <1>3 DEF IsNew
<1>5. Conflicts(l, e) => e.index > commitIndex
  BY <1>1, <1>2, <1>3 DEF IsNew
<1>6. hasEntry(l, e.index) => Conflicts(l, e)
  BY <1>1, <1>3 DEF IsNew
<1>7. /\ truncateFrom(l, e.index) \in LogOf(S)
      /\ hasEntry(l, e.index) => getLastIndex(truncateFrom(l, e.index)) = e.index - 1
      /\ ~hasEntry(l, e.index) => truncateFrom(l, e.index) = l
  BY <1>1, TruncateType
<1>8. cut = truncateFrom(l, e.index)
  BY <1>6, <1>7
<1> HIDE DEF cut
<1>9. getLastIndex(cut) < e.index /\ cut \in LogOf(S)
  BY <1>1, <1>2, <1>7, <1>8 DEF IsNew
<1>10. ~hasEntry(cut, e.index) /\ getLastIndex(cut) \in Nat
  BY <1>1, <1>9, LogIndexType DEF hasEntry
<1>11. MergeStep(l, e) = append(cut, e)
  BY <1>1, <1>4, <1>5, <1>10 DEF MergeStep, cut
<1>12. append(cut, e) \in LogOf(S) /\ getLastIndex(append(cut, e)) = getLastIndex(cut) + 1
  BY <1>9, AppendType
<1>13. e.index > getLastIndex(l) => ~hasEntry(l, e.index)
  BY <1>1, <1>3
<1> QED
  BY <1>1, <1>7, <1>8, <1>9, <1>10, <1>11, <1>12, <1>13

\* As long as no entry is new the loop leaves the log alone.
LEMMA LoopSkips ==
  ASSUME NEW S, NEW l \in LogOf(S), NEW es \in Seq(EntryOf(S)), commitIndex \in Nat,
         NEW g, IsLoop(g, l, es, Len(es)),
         NEW n \in 0..Len(es), \A k \in 1..n : ~IsNew(l, es[k])
  PROVE  g[n] = l
<1> DEFINE T == {k \in Nat : k <= n => g[k] = l}
<1>1. 0 \in T
  BY DEF IsLoop
<1>2. ASSUME NEW k \in T PROVE k + 1 \in T
  <2> SUFFICES ASSUME k + 1 <= n PROVE g[k + 1] = l
    OBVIOUS
  <2>1. k \in Nat /\ g[k] = l /\ k + 1 \in 1..n /\ k + 1 \in 1..Len(es) /\ k + 1 \in 0..Len(es)
    BY <1>2
  <2>2. g[k + 1] = MergeStep(l, es[k + 1])
    BY <2>1 DEF IsLoop
  <2>3. es[k + 1] \in EntryOf(S)
    BY <2>1, ElementOfSeq
  <2> QED
    BY <2>1, <2>2, <2>3, StepSkips
<1> HIDE DEF T
<1>3. T = Nat
  BY <1>1, <1>2, Counting DEF T
<1>4. n \in T
  BY <1>3
<1> QED
  BY <1>4 DEF T

\* base with the entries of es from position first on.
Extended(base, es, first) == [base EXCEPT !.entries = @ \o SubSeq(es, first, Len(es))]

\* From the first new entry on the loop appends every entry: the log then
\* always ends before the next one.
LEMMA LoopAppends ==
  ASSUME NEW S, NEW l \in LogOf(S), NEW es \in Seq(EntryOf(S)), commitIndex \in Nat,
         Growing(es), NEW g, IsLoop(g, l, es, Len(es)),
         NEW first \in 1..Len(es), g[first - 1] = l, IsNew(l, es[first]),
         NEW base, base = truncateFrom(l, es[first].index)
  PROVE  g[Len(es)] = Extended(base, es, first)
<1> DEFINE rest(k) == SubSeq(es, first, k)
           Done(k) == /\ g[k] = [base EXCEPT !.entries = base.entries \o rest(k)]
                      /\ g[k] \in LogOf(S)
                      /\ getLastIndex(g[k]) <= es[k].index
           T == {d \in Nat : first + d <= Len(es) => Done(first + d)}
<1>0. Len(es) \in Nat /\ first \in Nat /\ first >= 1 /\ first <= Len(es)
  OBVIOUS
<1>1. es[first] \in EntryOf(S) /\ es[first].index \in Nat
  BY EntryOfBatch
<1>2. base \in LogOf(S)
  BY <1>1, TruncateType
<1>3. 0 \in T
  <2>1. g[first] = MergeStep(l, es[first])
    BY <1>0 DEF IsLoop
  <2>2. g[first] = append(base, es[first]) /\ g[first] \in LogOf(S)
        /\ getLastIndex(g[first]) <= es[first].index
    BY <1>1, <2>1, StepAppends
  <2>3. rest(first) = <<es[first]>>
    <3>1. SubSeq(es, first, first) \in Seq(EntryOf(S)) /\ Len(SubSeq(es, first, first)) = 1
      BY <1>0, StretchType
    <3>2. SubSeq(es, first, first)[1] = es[first]
      BY <1>0, SubSeqProperties, ElementOfSeq
    <3> DEFINE q == SubSeq(es, first, first)
    <3>3. q \in Seq(EntryOf(S)) /\ Len(q) = 1 /\ q[1] = es[first]
      BY <3>1, <3>2
    <3> HIDE DEF q
    <3>4. q = <<es[first]>>
      BY <1>1, <3>3
    <3> QED
      BY <3>4 DEF q
  <2>4. Append(base.entries, es[first]) = base.entries \o <<es[first]>>
    BY <1>1, <1>2, LogIndexType, AppendIsConcat
  <2>5. g[first] = [base EXCEPT !.entries = base.entries \o rest(first)]
    BY <2>2, <2>3, <2>4 DEF append
  <2>6. Done(first) /\ first + 0 = first
    BY <1>0, <2>2, <2>5
  <2> HIDE DEF Done
  <2> QED
    BY <2>6
<1>4. ASSUME NEW d \in T PROVE d + 1 \in T
  <2> DEFINE k == first + d
  <2> SUFFICES ASSUME k + 1 <= Len(es) PROVE Done(k + 1)
    <3>1. d \in Nat /\ first + (d + 1) = k + 1
      BY <1>0
    <3> HIDE DEF Done, k
    <3> QED
      BY <3>1
  <2>1. d \in Nat /\ k \in 1..Len(es) /\ k + 1 \in 1..Len(es) /\ first <= k
    BY <1>0, <1>4
  <2>2. Done(k)
    <3> HIDE DEF Done
    <3> QED
      BY <1>0, <1>4, <2>1
  <2> HIDE DEF k
  <2>3. /\ es[k] \in EntryOf(S) /\ es[k + 1] \in EntryOf(S)
        /\ es[k].index \in Nat /\ es[k + 1].index \in Nat
    BY <2>1, EntryOfBatch
  <2>4. es[k].index < es[k + 1].index
    BY <1>0, <2>1, NextIsLater
  <2>5. getLastIndex(g[k]) \in Nat /\ es[k + 1].index > getLastIndex(g[k])
    <3>1. g[k] \in LogOf(S) /\ getLastIndex(g[k]) <= es[k].index
      BY <2>2
    <3>2. getLastIndex(g[k]) \in Nat
      BY <3>1, LogIndexType
    <3> QED
      BY <2>3, <2>4, <3>1, <3>2
  <2>6. g[k + 1] = MergeStep(g[k], es[k + 1])
    <3> HIDE DEF T, Done
    <3>1. k \in 0..(Len(es) - 1)
      BY <1>0, <2>1
    <3> QED
      BY <1>0, <3>1, LoopNext
  <2>7. /\ g[k + 1] = append(g[k], es[k + 1])
        /\ g[k + 1] \in LogOf(S)
        /\ getLastIndex(g[k + 1]) <= es[k + 1].index
    BY <2>2, <2>3, <2>5, <2>6, StepAppends DEF IsNew
  <2>8. g[k].entries = base.entries \o rest(k)
    BY <1>2, <2>2 DEF LogOf
  <2>9. rest(k) \in Seq(EntryOf(S)) /\ base.entries \in Seq(EntryOf(S))
    <3>1. rest(k) \in Seq(EntryOf(S))
      BY <1>0, <2>1, StretchType
    <3> HIDE DEF T, Done
    <3> QED
      BY <1>2, <3>1, LogIndexType
  <2>10. rest(k + 1) = rest(k) \o <<es[k + 1]>>
    <3> HIDE DEF T, Done
    <3> QED
      BY <1>0, <2>1, LongerStretch
  <2>11. Append(base.entries \o rest(k), es[k + 1]) = base.entries \o rest(k + 1)
    <3> DEFINE r == rest(k)
               b == base.entries
    <3>1. r \in Seq(EntryOf(S)) /\ b \in Seq(EntryOf(S)) /\ es[k + 1] \in EntryOf(S)
      BY <2>3, <2>9
    <3> HIDE DEF T, Done, r, b
    <3>2. Append(b \o r, es[k + 1]) = b \o (r \o <<es[k + 1]>>)
      BY ONLY <3>1, ConcatAppend
    <3> QED
      BY <2>10, <3>2 DEF r, b
  <2>12. g[k + 1] = [base EXCEPT !.entries = base.entries \o rest(k + 1)]
    <3> HIDE DEF rest
    <3>1. g[k + 1] = [g[k] EXCEPT !.entries = Append(base.entries \o rest(k), es[k + 1])]
      BY <2>7, <2>8 DEF append
    <3> QED
      BY <2>2, <2>11, <3>1
  <2> QED
    BY <2>7, <2>12
<1> HIDE DEF T
<1>5. T = Nat
  BY <1>3, <1>4, Counting DEF T
<1>6. Len(es) - first \in T /\ first + (Len(es) - first) = Len(es)
  BY <1>0, <1>5
<1>7. Done(Len(es))
  <2> HIDE DEF Done
  <2> QED
    BY <1>0, <1>6 DEF T
<1> QED
  BY <1>7 DEF Extended

-----------------------------------------------------------------------------
\* MergeEntries is what the loop computes.
LEMMA LoopIsMerge ==
  ASSUME NEW S, NEW l \in LogOf(S), NEW es \in Seq(EntryOf(S)), commitIndex \in Nat, Growing(es)
  PROVE  MergeLoop(l, es) = MergeEntries(l, commitIndex, es)
<1> DEFINE new == NewPositions(l, commitIndex, es)
           first == Min(new)
           base == truncateFrom(l, es[first].index)
<1>0. Len(es) \in Nat
  OBVIOUS
<1>1. PICK g : IsLoop(g, l, es, Len(es)) /\ MergeLoop(l, es) = g[Len(es)]
  BY <1>0, LoopIs
<1>2. \A k \in 1..Len(es) : k \in new <=> IsNew(l, es[k])
  BY DEF NewPositions, IsNew
<1>3. CASE new = {}
  <2>1. \A k \in 1..Len(es) : ~IsNew(l, es[k])
    BY <1>2, <1>3
  <2>2. g[Len(es)] = l
    BY <1>0, <1>1, <2>1, LoopSkips
  <2> QED
    BY <1>1, <1>3, <2>2 DEF MergeEntries
<1>4. CASE new /= {}
  <2>1. new \subseteq Nat /\ new \subseteq 1..Len(es)
    BY <1>0 DEF NewPositions
  <2>2. first \in new /\ \A k \in new : first <= k
    <3> HIDE DEF new
    <3> QED BY <1>4, <2>1, MinInSet
  <2>3. MergeEntries(l, commitIndex, es) = Extended(base, es, first)
    BY <1>4 DEF MergeEntries, Extended
  <2> HIDE DEF new, first
  <2>4. first \in 1..Len(es) /\ first - 1 \in 0..Len(es) /\ IsNew(l, es[first])
    BY <1>0, <1>2, <2>1, <2>2
  <2>5. \A k \in 1..(first - 1) : ~IsNew(l, es[k])
    BY <1>0, <1>2, <2>2, <2>4
  <2>6. g[first - 1] = l
    BY <1>1, <2>4, <2>5, LoopSkips
  <2>7. g[Len(es)] = Extended(base, es, first)
    <3> HIDE DEF base
    <3>1. base = truncateFrom(l, es[first].index)
      BY DEF base
    <3>2. IsLoop(g, l, es, Len(es)) /\ l \in LogOf(S) /\ es \in Seq(EntryOf(S))
      BY <1>1
    <3>3. commitIndex \in Nat /\ Growing(es)
      OBVIOUS
    <3> QED
      BY ONLY <2>4, <2>6, <3>1, <3>2, <3>3, LoopAppends, SMTT(60)
  <2> QED
    BY <1>1, <2>3, <2>7
<1> QED
  BY <1>3, <1>4

\* Up to a conflict with a committed entry no entry of the batch is new.
LEMMA LoopAborts ==
  ASSUME NEW S, NEW l \in LogOf(S), NEW es \in Seq(EntryOf(S)), commitIndex \in Nat,
         Growing(es), commitIndex <= getLastIndex(l),
         NEW k \in CommittedConflicts(l, commitIndex, es)
  PROVE  MergeLoop(l, SubSeq(es, 1, k)) = l
<1> DEFINE part == SubSeq(es, 1, k)
<1>0. Len(es) \in Nat /\ k \in 1..Len(es) /\ k \in Nat /\ es[k].index <= commitIndex
  BY DEF CommittedConflicts
<1>1. part \in Seq(EntryOf(S)) /\ Len(part) = k
  BY <1>0, StretchType
<1>2. \A j \in 1..k : part[j] = es[j] /\ es[j] \in EntryOf(S)
  BY <1>0, SubSeqProperties, ElementOfSeq
<1>3. \A j \in 1..k : es[j].index <= commitIndex /\ es[j].index <= getLastIndex(l)
  <2>1. getLastIndex(l) \in Nat
    BY LogIndexType
  <2>2. \A j \in 1..k : es[j].index \in Nat /\ (j < k => es[j].index < es[k].index)
    BY <1>0, EntryOfBatch, NextIsLater
  <2>3. \A j \in 1..k : j < k \/ j = k
    BY <1>0
  <2> QED
    BY <1>0, <2>1, <2>2, <2>3
<1>4. \A j \in 1..k : ~IsNew(l, part[j])
  <2>1. getLastIndex(l) \in Nat /\ \A j \in 1..k : es[j].index \in Nat
    BY <1>2, LogIndexType DEF EntryOf
  <2> HIDE DEF part
  <2> QED
    BY <1>2, <1>3, <2>1 DEF IsNew
<1> HIDE DEF part
<1>5. PICK g : IsLoop(g, l, part, Len(part)) /\ MergeLoop(l, part) = g[Len(part)]
  BY <1>0, <1>1, LoopIs
<1>6. g[k] = l
  BY <1>0, <1>1, <1>4, <1>5, LoopSkips
<1>7. MergeLoop(l, part) = l
  BY <1>1, <1>5, <1>6
<1> QED
  BY <1>7 DEF part

-----------------------------------------------------------------------------
(* What the operations do to the terms of a log.                           *)

LEMMA AppendKeepsTerms ==
  ASSUME NEW S, NEW l \in LogOf(S), NEW e \in EntryOf(S),
         NEW n \in Nat, n <= getLastIndex(l)
  PROVE  getTermAt(append(l, e), n) = getTermAt(l, n)
<1> DEFINE es == Append(l.entries, e)
           i == n - l.lastIncludedIndex
<1>1. append(l, e) = [l EXCEPT !.entries = es]
  BY DEF append
<1>2. /\ l.entries \in Seq(EntryOf(S)) /\ Len(l.entries) \in Nat
      /\ l.lastIncludedIndex \in Nat /\ getLastIndex(l) = l.lastIncludedIndex + Len(l.entries)
  BY LogIndexType DEF getLastIndex
<1>3. Len(es) = Len(l.entries) + 1 /\ \A j \in 1..Len(l.entries) : es[j] = l.entries[j]
  BY <1>2, AppendProperties
<1> HIDE DEF es
<1>4. /\ [l EXCEPT !.entries = es].entries = es
      /\ [l EXCEPT !.entries = es].lastIncludedIndex = l.lastIncludedIndex
      /\ [l EXCEPT !.entries = es].lastIncludedTerm = l.lastIncludedTerm
  BY DEF LogOf
<1>5. n > l.lastIncludedIndex => i \in 1..Len(l.entries)
  BY <1>2
<1> QED
  BY <1>1, <1>2, <1>3, <1>4, <1>5 DEF getTermAt, hasEntry, getEntry, getLastIndex

\* The entry loop cuts beyond the commit index only.
LEMMA MergeKeepsTerms ==
  ASSUME NEW S, NEW l \in LogOf(S), NEW c \in Nat, NEW es \in Seq(EntryOf(S)),
         c <= getLastIndex(l), NEW n \in Nat, n <= c
  PROVE  getTermAt(MergeEntries(l, c, es), n) = getTermAt(l, n)
<1> DEFINE new == NewPositions(l, c, es)
           first == Min(new)
           base == truncateFrom(l, es[first].index)
           tail == SubSeq(es, first, Len(es))
           merged == base.entries \o tail
           i == n - l.lastIncludedIndex
<1>1. CASE new = {}
  BY <1>1 DEF MergeEntries
<1>2. CASE new /= {}
  <2>0. Len(es) \in Nat
    OBVIOUS
  <2>1. first \in new /\ first \in 1..Len(es)
    <3>1. new \subseteq Nat /\ new \subseteq 1..Len(es)
      BY <2>0 DEF NewPositions
    <3> HIDE DEF new
    <3> QED BY <1>2, <3>1, MinInSet
  <2>2. MergeEntries(l, c, es) = [base EXCEPT !.entries = merged]
    BY <1>2 DEF MergeEntries
  <2>3. \/ es[first].index > getLastIndex(l)
        \/ hasEntry(l, es[first].index) /\ es[first].index > c
    BY <2>1 DEF NewPositions, Conflicts
  <2> HIDE DEF new, first
  <2>4. es[first].index \in Nat
    BY <2>1, EntryOfBatch
  <2>5. tail \in Seq(EntryOf(S)) /\ Len(tail) \in Nat
    BY <2>0, <2>1, StretchType
  <2>6. /\ l.entries \in Seq(EntryOf(S)) /\ Len(l.entries) \in Nat
        /\ l.lastIncludedIndex \in Nat
        /\ getLastIndex(l) \in Nat
        /\ getLastIndex(l) = l.lastIncludedIndex + Len(l.entries)
    BY LogIndexType DEF getLastIndex
  <2>7. /\ base \in LogOf(S)
        /\ base.lastIncludedIndex = l.lastIncludedIndex
        /\ hasEntry(l, es[first].index) => getLastIndex(base) = es[first].index - 1
        /\ ~hasEntry(l, es[first].index) => base = l
    BY <2>4, TruncateType
  <2>8. base.lastIncludedTerm = l.lastIncludedTerm
    BY DEF truncateFrom, LogOf
  <2>9. base.entries \in Seq(EntryOf(S)) /\ Len(base.entries) \in Nat
        /\ getLastIndex(base) = l.lastIncludedIndex + Len(base.entries)
    BY <2>7, LogIndexType DEF getLastIndex
  <2>10. n <= getLastIndex(base) /\ n <= getLastIndex(l)
    BY <2>3, <2>4, <2>6, <2>7, <2>9 DEF hasEntry
  <2>11. \A j \in 1..Len(base.entries) : base.entries[j] = l.entries[j]
    <3>1. CASE ~hasEntry(l, es[first].index)
      BY <2>7, <3>1
    <3>2. CASE hasEntry(l, es[first].index)
      <4> DEFINE m == es[first].index - l.lastIncludedIndex - 1
      <4>1. m \in Nat /\ m <= Len(l.entries)
        BY <2>4, <2>6, <3>2 DEF hasEntry
      <4>2. base.entries = SubSeq(l.entries, 1, m)
        BY <3>2 DEF truncateFrom, LogOf
      <4> HIDE DEF m, base
      <4> QED
        BY <2>6, <4>1, <4>2, SubSeqProperties, ElementOfSeq
    <3> QED
      BY <3>1, <3>2
  <2> HIDE DEF base, tail
  <2>12. /\ merged \in Seq(EntryOf(S))
         /\ Len(merged) = Len(base.entries) + Len(tail)
         /\ \A j \in 1..Len(base.entries) : merged[j] = base.entries[j]
    BY <2>5, <2>9, ConcatProperties
  <2> HIDE DEF merged
  <2>13. /\ [base EXCEPT !.entries = merged].entries = merged
         /\ [base EXCEPT !.entries = merged].lastIncludedIndex = l.lastIncludedIndex
         /\ [base EXCEPT !.entries = merged].lastIncludedTerm = l.lastIncludedTerm
    BY <2>7, <2>8 DEF LogOf
  <2> DEFINE r == MergeEntries(l, c, es)
  <2>14. r.entries = merged /\ r.lastIncludedIndex = l.lastIncludedIndex
         /\ r.lastIncludedTerm = l.lastIncludedTerm
    BY <2>2, <2>13
  <2> HIDE DEF r
  <2>15. CASE n <= l.lastIncludedIndex
    <3>1. ~hasEntry(l, n) /\ ~hasEntry(r, n)
      BY <2>6, <2>14, <2>15 DEF hasEntry
    <3>2. getTermAt(r, n) = getTermAt(l, n)
      BY <2>14, <3>1 DEF getTermAt
    <3> QED
      BY <3>2 DEF r
  <2>16. CASE n > l.lastIncludedIndex
    <3>1. i \in 1..Len(base.entries)
      BY <2>6, <2>9, <2>10, <2>16
    <3>2. r.entries[i] = l.entries[i]
      BY <2>11, <2>12, <2>14, <3>1
    <3>3. hasEntry(l, n) /\ hasEntry(r, n) /\ n /= l.lastIncludedIndex
      BY <2>5, <2>6, <2>9, <2>10, <2>12, <2>14, <2>16 DEF hasEntry, getLastIndex
    <3> QED
      BY <2>14, <3>2, <3>3 DEF getTermAt, getEntry, r
  <2> QED
    BY <2>6, <2>15, <2>16 DEF r
<1> QED
  BY <1>1, <1>2

-----------------------------------------------------------------------------
(* The inductive invariant.                                                *)

LEMMA EntryIs ==
  ASSUME NEW n \in Nat, NEW t \in Nat
  PROVE  Entry(n, t) \in EntryOf(Strokes)
  BY DEF Entry, EntryOf, Strokes

\* A batch is a sequence of entries of growing index.
LEMMA BatchIs ==
  ASSUME NEW es \in Batches
  PROVE  es \in Seq(EntryOf(Strokes)) /\ Growing(es)
<1> DEFINE entries == {Entry(n, t) : n \in 1..(MaxIndex + MaxBatch), t \in 1..MaxTerm}
<1>1. MaxIndex \in Nat /\ MaxTerm \in Nat /\ MaxBatch \in Nat
  BY BoundsAssumption
<1>2. entries \subseteq EntryOf(Strokes)
  BY <1>1, EntryIs
<1>3. PICK n \in 0..MaxBatch : es \in [1..n -> entries]
  BY DEF Batches
<1> HIDE DEF entries
<1>4. es \in [1..n -> EntryOf(Strokes)] /\ n \in Nat
  BY <1>1, <1>2, <1>3
<1> QED
  BY <1>4, SeqDef DEF Batches

LEMMA LogInvInit == Init => LogInv
<1>1. emptyLog \in LogOf(Strokes) /\ emptyLog.lastIncludedIndex = 0 /\ getLastIndex(emptyLog) = 0
  BY EmptySeq DEF emptyLog, LogOf, getLastIndex
<1> QED
  BY <1>1 DEF Init, LogInv

LEMMA LogInvStep == LogInv /\ [Next]_vars => LogInv'
<1> SUFFICES ASSUME LogInv, [Next]_vars PROVE LogInv'
  OBVIOUS
<1> USE DEF LogInv
<1>0. /\ getLastIndex(log) \in Nat /\ log.lastIncludedIndex \in Nat
      /\ MaxIndex \in Nat /\ MaxTerm \in Nat /\ MaxBatch \in Nat
  BY BoundsAssumption, LogIndexType
<1>1. ASSUME NEW t \in 1..MaxTerm, Write(t) PROVE LogInv'
  <2> DEFINE e == Entry(getLastIndex(log) + 1, t)
  <2>1. e \in EntryOf(Strokes)
    BY <1>0, EntryIs
  <2> HIDE DEF e
  <2>2. log' = append(log, e) /\ commitIndex' = commitIndex
    BY <1>1 DEF Write, e
  <2> QED
    BY <1>0, <2>1, <2>2, AppendType
<1>2. ASSUME NEW es \in Batches, Merge(es) PROVE LogInv'
  BY <1>2, BatchIs, MergeType DEF Merge
<1>3. ASSUME NEW c \in 1..MaxIndex, Commit(c) PROVE LogInv'
  BY <1>0, <1>3 DEF Commit
<1>4. CASE Compact
  <2> DEFINE t == getTermAt(log, commitIndex)
  <2>1. t \in Nat
    BY TermAtType
  <2> HIDE DEF t
  <2>2. log' = compact(log, commitIndex, t) /\ commitIndex' = commitIndex
    BY <1>4 DEF Compact, t
  <2> QED
    BY <1>0, <2>1, <2>2, CompactType
<1>5. ASSUME NEW n \in 1..MaxIndex, NEW t \in 1..MaxTerm, Install(n, t) PROVE LogInv'
  <2>1. n \in Nat /\ t \in Nat
    BY <1>0
  <2>2. log' = installSnapshot(log, n, t) /\ commitIndex' = n
    BY <1>5 DEF Install
  <2>3. log' \in LogOf(Strokes) /\ log'.lastIncludedIndex = n
    BY <2>1, <2>2, InstallType
  <2>4. \A l \in LogOf(Strokes) : l.lastIncludedIndex <= getLastIndex(l)
    BY LogIndexType
  <2> QED
    BY <2>1, <2>2, <2>3, <2>4, SMTT(60) DEF LogInv
<1>6. CASE UNCHANGED vars
  BY <1>6 DEF vars
<1> QED
  BY <1>1, <1>2, <1>3, <1>4, <1>5, <1>6 DEF Next

LEMMA LogInvHolds == Spec => []LogInv
  BY LogInvInit, LogInvStep, PTL DEF Spec

-----------------------------------------------------------------------------
\* For every log the operations can build, every commit index and every batch,
\* the closed form the models use is the loop of requestCatchUp.
THEOREM TheLoopIsMergeEntries == Spec => []MergeIsTheLoop
<1>1. LogInv => MergeIsTheLoop
  BY BatchIs, LoopIsMerge DEF LogInv, MergeIsTheLoop
<1> QED
  BY <1>1, LogInvHolds, PTL

\* handleAppendEntries may return in the middle of its loop: what it leaves is
\* the log it found.
THEOREM AbortIsHarmless == Spec => []AbortChangesNothing
<1>1. LogInv => AbortChangesNothing
  BY BatchIs, LoopAborts DEF LogInv, AbortChangesNothing
<1> QED
  BY <1>1, LogInvHolds, PTL

\* No write, merge, commit, compaction or install changes the term known at a
\* committed index, the boundary included.
THEOREM CommittedTermsStay == Spec => CommittedTermsKept
<1>1. LogInv /\ [Next]_vars
        => [\A n \in log'.lastIncludedIndex..commitIndex :
              n >= log.lastIncludedIndex => getTermAt(log', n) = getTermAt(log, n)]_vars
  <2> SUFFICES ASSUME LogInv, Next,
                      NEW n \in log'.lastIncludedIndex..commitIndex,
                      n >= log.lastIncludedIndex
               PROVE  getTermAt(log', n) = getTermAt(log, n)
    OBVIOUS
  <2>0. /\ getLastIndex(log) \in Nat /\ log.lastIncludedIndex \in Nat
        /\ log \in LogOf(Strokes)
        /\ MaxIndex \in Nat /\ MaxTerm \in Nat /\ MaxBatch \in Nat
        /\ commitIndex \in Nat /\ commitIndex <= getLastIndex(log)
    BY BoundsAssumption, LogIndexType DEF LogInv
  <2>1. n \in Nat /\ n <= commitIndex
    BY <2>0
  <2>2. ASSUME NEW t \in 1..MaxTerm, Write(t) PROVE getTermAt(log', n) = getTermAt(log, n)
    <3> DEFINE e == Entry(getLastIndex(log) + 1, t)
    <3>1. e \in EntryOf(Strokes)
      BY <2>0, EntryIs
    <3> HIDE DEF e
    <3>2. log' = append(log, e)
      BY <2>2 DEF Write, e
    <3> QED
      BY <2>0, <2>1, <3>1, <3>2, AppendKeepsTerms
  <2>3. ASSUME NEW es \in Batches, Merge(es) PROVE getTermAt(log', n) = getTermAt(log, n)
    BY <2>0, <2>1, <2>3, BatchIs, MergeKeepsTerms DEF Merge
  <2>4. ASSUME NEW c \in 1..MaxIndex, Commit(c) PROVE getTermAt(log', n) = getTermAt(log, n)
    BY <2>4 DEF Commit
  <2>5. ASSUME Compact PROVE getTermAt(log', n) = getTermAt(log, n)
    <3>1. commitIndex > log.lastIncludedIndex
          /\ log' = compact(log, commitIndex, getTermAt(log, commitIndex))
      BY <2>5 DEF Compact
    <3>2. log'.lastIncludedIndex = commitIndex
          /\ log'.lastIncludedTerm = getTermAt(log, commitIndex)
      BY <2>0, <3>1 DEF compact
    <3>3. n = commitIndex
      BY <2>0, <3>2
    <3> QED
      BY <3>2, <3>3 DEF getTermAt
  <2>6. ASSUME NEW i \in 1..MaxIndex, NEW t \in 1..MaxTerm, Install(i, t)
        PROVE  getTermAt(log', n) = getTermAt(log, n)
    <3>1. log'.lastIncludedIndex = i /\ i > commitIndex
      BY <2>6 DEF Install, installSnapshot
    <3> QED
      BY <2>0, <2>1, <3>1
  <2> QED
    BY <2>2, <2>3, <2>4, <2>5, <2>6 DEF Next
<1> QED
  BY <1>1, LogInvHolds, PTL DEF Spec, CommittedTermsKept

=============================================================================
