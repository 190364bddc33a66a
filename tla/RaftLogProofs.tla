--------------------------- MODULE RaftLogProofs ---------------------------
(***************************************************************************)
(* What the operations of RaftLog return, for every log: their types, and  *)
(* where the log then begins and ends.  The other proofs rest on these.    *)
(***************************************************************************)
EXTENDS RaftLog, SequenceTheorems, FiniteSetTheorems, WellFoundedInduction, TLAPS

\* A non-empty set of naturals has a smallest element, which Min returns.
LEMMA MinInSet ==
  ASSUME NEW S, S \subseteq Nat, S /= {}
  PROVE  Min(S) \in S /\ \A y \in S : Min(S) <= y
<1> DEFINE less == {ss \in Nat \X Nat : ss[1] < ss[2]}
<1>1. IsWellFoundedOn(less, Nat)
  BY NatLessThanWellFounded DEF OpToRel
<1>2. PICK x \in S : \A y \in S : ~ (<<y, x>> \in less)
  <2> HIDE DEF less
  <2> QED BY <1>1, WFMin
<1>3. \A y \in S : x <= y
  <2> SUFFICES ASSUME NEW y \in S, y < x PROVE FALSE
    OBVIOUS
  <2>1. <<y, x>> \in Nat \X Nat /\ <<y, x>>[1] < <<y, x>>[2]
    OBVIOUS
  <2>2. <<y, x>> \in less
    BY <2>1
  <2> QED
    BY <1>2, <2>2
<1> QED
  BY <1>3 DEF Min

\* A non-empty set of naturals with a bound has a largest element, Max.
LEMMA MaxInSet ==
  ASSUME NEW b \in Nat, NEW S, S \subseteq 0..b, S /= {}
  PROVE  Max(S) \in S /\ \A y \in S : y <= Max(S)
<1> DEFINE T == {b - y : y \in S}
<1>1. T \subseteq Nat /\ T /= {}
  <2>1. \A y \in S : y \in 0..b /\ b - y \in Nat
    OBVIOUS
  <2> QED BY <2>1
<1>2. Min(T) \in T /\ \A y \in T : Min(T) <= y
  BY <1>1, MinInSet
<1>3. PICK x \in S : Min(T) = b - x
  BY <1>2
<1>4. \A y \in S : b - x <= b - y
  BY <1>2, <1>3
<1>5. \A y \in S : y <= x
  BY <1>4
<1> QED
  BY <1>5 DEF Max

LEMMA MinOfTwo ==
  ASSUME NEW a \in Nat, NEW b \in Nat
  PROVE  /\ Min({a, b}) \in Nat
         /\ Min({a, b}) \in {a, b}
         /\ Min({a, b}) <= a /\ Min({a, b}) <= b
<1>1. {a, b} \subseteq Nat /\ {a, b} /= {}
  OBVIOUS
<1>2. Min({a, b}) \in {a, b} /\ \A y \in {a, b} : Min({a, b}) <= y
  BY <1>1, MinInSet
<1> QED
  BY <1>2

LEMMA MaxOfTwo ==
  ASSUME NEW a \in Nat, NEW b \in Nat
  PROVE  /\ Max({a, b}) \in Nat
         /\ Max({a, b}) >= a /\ Max({a, b}) >= b
<1>1. {a, b} \subseteq 0..(a + b) /\ {a, b} /= {} /\ a + b \in Nat
  OBVIOUS
<1>2. Max({a, b}) \in {a, b} /\ \A y \in {a, b} : y <= Max({a, b})
  BY <1>1, MaxInSet
<1> QED
  BY <1>2

-----------------------------------------------------------------------------
LEMMA LogIndexType ==
  ASSUME NEW S, NEW l \in LogOf(S)
  PROVE  /\ l.entries \in Seq(EntryOf(S))
         /\ Len(l.entries) \in Nat
         /\ l.lastIncludedIndex \in Nat
         /\ l.lastIncludedTerm \in Nat
         /\ getLastIndex(l) \in Nat
         /\ l.lastIncludedIndex <= getLastIndex(l)
         /\ getLastTerm(l) \in Nat
         /\ getLength(l) \in Nat
<1>1. l.entries \in Seq(EntryOf(S)) /\ l.lastIncludedIndex \in Nat /\ l.lastIncludedTerm \in Nat
  BY DEF LogOf
<1>2. Len(l.entries) \in Nat
  BY <1>1
<1>3. l.entries /= <<>> => l.entries[Len(l.entries)] \in EntryOf(S)
  BY <1>1, EmptySeq
<1> QED
  BY <1>1, <1>2, <1>3 DEF getLastIndex, getLastTerm, getLength, EntryOf

LEMMA EntryType ==
  ASSUME NEW S, NEW l \in LogOf(S), NEW n \in Nat, hasEntry(l, n)
  PROVE  getEntry(l, n) \in EntryOf(S)
  BY LogIndexType, n - l.lastIncludedIndex \in 1..Len(l.entries)
  DEF hasEntry, getEntry, getLastIndex

LEMMA TermAtType ==
  ASSUME NEW S, NEW l \in LogOf(S), NEW n \in Nat
  PROVE  getTermAt(l, n) \in Nat
<1>1. hasEntry(l, n) => getEntry(l, n).term \in Nat
  BY EntryType DEF EntryOf
<1> QED
  BY <1>1, LogIndexType DEF getTermAt

\* A stretch of a sequence, also an empty one, is a sequence.
LEMMA StretchType ==
  ASSUME NEW S, NEW s \in Seq(S), NEW m \in Nat, m >= 1, NEW n \in Nat, n <= Len(s)
  PROVE  /\ SubSeq(s, m, n) \in Seq(S)
         /\ Len(SubSeq(s, m, n)) = IF m <= n THEN n - m + 1 ELSE 0
<1>1. \A i \in m..n : s[i] \in S
  BY ElementOfSeq
<1> QED
  BY <1>1, SubSeqProperties

LEMMA EntriesFromType ==
  ASSUME NEW S, NEW l \in LogOf(S), NEW n \in Nat
  PROVE  getEntriesFrom(l, n) \in Seq(EntryOf(S))
<1>1. CASE n <= l.lastIncludedIndex
  BY <1>1, LogIndexType DEF getEntriesFrom
<1>2. CASE n > l.lastIncludedIndex
  <2>1. n - l.lastIncludedIndex \in Nat /\ n - l.lastIncludedIndex >= 1
    BY <1>2, LogIndexType
  <2> QED
    BY <1>2, <2>1, LogIndexType, StretchType DEF getEntriesFrom
<1> QED
  BY <1>1, <1>2, LogIndexType

\* A log with other entries behind the same boundary.
LEMMA WithEntries ==
  ASSUME NEW S, NEW l \in LogOf(S), NEW es \in Seq(EntryOf(S))
  PROVE  /\ [l EXCEPT !.entries = es] \in LogOf(S)
         /\ [l EXCEPT !.entries = es].lastIncludedIndex = l.lastIncludedIndex
         /\ getLastIndex([l EXCEPT !.entries = es]) = l.lastIncludedIndex + Len(es)
  BY DEF LogOf, getLastIndex

LEMMA AppendType ==
  ASSUME NEW S, NEW l \in LogOf(S), NEW e \in EntryOf(S)
  PROVE  /\ append(l, e) \in LogOf(S)
         /\ append(l, e).lastIncludedIndex = l.lastIncludedIndex
         /\ getLastIndex(append(l, e)) = getLastIndex(l) + 1
<1>1. Append(l.entries, e) \in Seq(EntryOf(S)) /\ Len(Append(l.entries, e)) = Len(l.entries) + 1
  BY LogIndexType
<1>2. append(l, e) = [l EXCEPT !.entries = Append(l.entries, e)]
  BY DEF append
<1>3. getLastIndex(l) = l.lastIncludedIndex + Len(l.entries)
  BY DEF getLastIndex
<1> DEFINE es == Append(l.entries, e)
<1> HIDE DEF es
<1>4. /\ [l EXCEPT !.entries = es] \in LogOf(S)
      /\ [l EXCEPT !.entries = es].lastIncludedIndex = l.lastIncludedIndex
      /\ getLastIndex([l EXCEPT !.entries = es]) = l.lastIncludedIndex + Len(es)
  <2>1. es \in Seq(EntryOf(S))
    BY <1>1 DEF es
  <2> QED BY <2>1, WithEntries
<1>5. append(l, e) = [l EXCEPT !.entries = es] /\ Len(es) = Len(l.entries) + 1
  BY <1>1, <1>2 DEF es
<1>6. l.lastIncludedIndex \in Nat /\ Len(l.entries) \in Nat
  BY LogIndexType
<1> QED
  BY <1>3, <1>4, <1>5, <1>6

\* truncateFrom cuts the log right before the index, or leaves it alone.
LEMMA TruncateType ==
  ASSUME NEW S, NEW l \in LogOf(S), NEW n \in Nat
  PROVE  /\ truncateFrom(l, n) \in LogOf(S)
         /\ truncateFrom(l, n).lastIncludedIndex = l.lastIncludedIndex
         /\ hasEntry(l, n) => getLastIndex(truncateFrom(l, n)) = n - 1
         /\ ~hasEntry(l, n) => truncateFrom(l, n) = l
<1>1. CASE ~hasEntry(l, n)
  BY <1>1 DEF truncateFrom
<1>2. CASE hasEntry(l, n)
  <2> DEFINE k == n - l.lastIncludedIndex - 1
             cut == SubSeq(l.entries, 1, k)
  <2>1. k \in Nat /\ k <= Len(l.entries)
    BY <1>2, LogIndexType DEF hasEntry, getLastIndex
  <2>2. cut \in Seq(EntryOf(S)) /\ Len(cut) = k
    BY <2>1, LogIndexType, StretchType
  <2>3. truncateFrom(l, n) = [l EXCEPT !.entries = cut]
    BY <1>2 DEF truncateFrom
  <2> HIDE DEF cut
  <2> QED
    BY <1>2, <2>1, <2>2, <2>3, LogIndexType DEF LogOf, getLastIndex
<1> QED
  BY <1>1, <1>2

\* Compaction moves the boundary and leaves the end of the log where it was.
LEMMA CompactType ==
  ASSUME NEW S, NEW l \in LogOf(S), NEW t \in Nat, NEW n \in Nat,
         l.lastIncludedIndex <= n, n <= getLastIndex(l)
  PROVE  /\ compact(l, n, t) \in LogOf(S)
         /\ compact(l, n, t).lastIncludedIndex = n
         /\ getLastIndex(compact(l, n, t)) = getLastIndex(l)
<1>1. CASE n = l.lastIncludedIndex
  BY <1>1, LogIndexType DEF compact
<1>2. CASE n > l.lastIncludedIndex
  <2> DEFINE k == (n + 1) - l.lastIncludedIndex
             rest == SubSeq(l.entries, k, Len(l.entries))
  <2>1. k \in Nat /\ k >= 1 /\ k <= Len(l.entries) + 1
    BY <1>2, LogIndexType, SMTT(60) DEF getLastIndex
  <2>2. l.entries \in Seq(EntryOf(S)) /\ Len(l.entries) \in Nat /\ l.lastIncludedIndex \in Nat
    BY LogIndexType
  <2>3. compact(l, n, t) = [entries |-> rest, lastIncludedIndex |-> n, lastIncludedTerm |-> t]
    <3>1. ~(n <= l.lastIncludedIndex) /\ ~(n + 1 <= l.lastIncludedIndex)
      BY <1>2, <2>2
    <3>2. getEntriesFrom(l, n + 1) = SubSeq(l.entries, (n + 1) - l.lastIncludedIndex, Len(l.entries))
      BY <3>1, Zenon DEF getEntriesFrom
    <3> QED BY <3>1, <3>2, Zenon DEF compact
  <2> HIDE DEF k
  <2>4. rest \in Seq(EntryOf(S)) /\ Len(rest) = Len(l.entries) - k + 1
    BY <2>1, <2>2, StretchType
  <2>5. getLastIndex(l) = l.lastIncludedIndex + Len(l.entries)
    BY DEF getLastIndex
  <2> HIDE DEF rest
  <2>6. n + Len(rest) = l.lastIncludedIndex + Len(l.entries)
    BY <2>2, <2>4, SMTT(60) DEF k
  <2> QED
    BY <2>3, <2>4, <2>5, <2>6 DEF LogOf, getLastIndex
<1> QED
  BY <1>1, <1>2, LogIndexType

\* Among the positions a filter keeps there is a j-th one.
LEMMA NthKept ==
  ASSUME NEW n \in Nat, NEW kept \in SUBSET (1..n), NEW j \in 1..Cardinality(kept)
  PROVE  \E k \in kept : Cardinality({i \in kept : i <= k}) = j
<1> DEFINE upTo(k) == {i \in kept : i <= k}
           c(k) == Cardinality(upTo(k))
           enough == {k \in 1..n : c(k) >= j}
           m == Min(enough)
<1>0. n \in Int /\ kept \subseteq 1..n /\ \A i \in kept : i \in Int /\ 1 <= i /\ i <= n
  OBVIOUS
<1>1. IsFiniteSet(kept) /\ Cardinality(kept) \in Nat
  <2>1. IsFiniteSet(1..n)
    BY <1>0, FS_Interval
  <2>2. IsFiniteSet(kept)
    BY <1>0, <2>1, FS_Subset
  <2> QED BY <2>2, FS_CardinalityType
<1>2. ASSUME NEW k PROVE IsFiniteSet(upTo(k)) /\ c(k) \in Nat
  <2>1. upTo(k) \in SUBSET kept
    OBVIOUS
  <2>2. IsFiniteSet(upTo(k))
    BY <1>1, <2>1, FS_Subset
  <2> QED BY <2>2, FS_CardinalityType
<1>3. \A i \in kept : ~(i <= 0) /\ i <= n
  BY <1>0
<1>4. c(0) = 0 /\ c(n) = Cardinality(kept)
  <2>1. upTo(0) = {} /\ upTo(n) = kept
    BY <1>3
  <2> QED BY <2>1, FS_EmptySet
<1>5. n \in enough
  <2>1. kept /= {}
    BY <1>1, FS_EmptySet
  <2>2. PICK i : i \in kept
    BY <2>1
  <2>3. n \in 1..n
    BY <1>0, <2>2
  <2>4. c(n) >= j
    BY <1>1, <1>4
  <2> HIDE DEF c
  <2> QED BY <2>3, <2>4
<1>6. m \in enough /\ \A y \in enough : m <= y
  <2>1. enough \subseteq 1..n
    OBVIOUS
  <2> HIDE DEF enough
  <2>2. enough \subseteq Nat
    BY <2>1
  <2> QED BY <1>5, <2>2, MinInSet
<1> HIDE DEF m
<1>7. m \in 1..n /\ c(m) >= j /\ \A y \in 1..n : c(y) >= j => m <= y
  BY <1>6
<1> HIDE DEF enough
<1>8. c(m - 1) < j
  <2>1. CASE m = 1
    BY <1>4, <2>1
  <2>2. CASE m /= 1
    <3>1. c(m - 1) \in Nat
      BY <1>2
    <3> HIDE DEF c
    <3>2. m - 1 \in 1..n /\ ~(m <= m - 1)
      BY <1>7, <2>2
    <3> QED BY <1>1, <1>7, <3>1, <3>2
  <2> QED BY <2>1, <2>2
<1>9. \A i \in kept : i <= m <=> i <= m - 1 \/ i = m
  BY <1>0, <1>7
<1>10. upTo(m) = IF m \in kept THEN upTo(m - 1) \cup {m} ELSE upTo(m - 1)
  BY <1>9
<1>11. m \notin upTo(m - 1)
  BY <1>7
<1>12. c(m) = IF m \in kept THEN c(m - 1) + 1 ELSE c(m - 1)
  <2>1. IsFiniteSet(upTo(m - 1))
    BY <1>2
  <2> HIDE DEF upTo
  <2> QED BY <1>10, <1>11, <2>1, FS_AddElement
<1>13. c(m) \in Nat /\ c(m - 1) \in Nat
  BY <1>2
<1> HIDE DEF c
<1>14. m \in kept /\ c(m) = j
  BY <1>7, <1>8, <1>12, <1>13
<1> QED
  BY <1>14 DEF c

LEMMA FilteredType ==
  ASSUME NEW S, NEW es \in Seq(S), NEW kept \in SUBSET (1..Len(es))
  PROVE  Filtered(es, kept) \in Seq(S)
<1> DEFINE upTo(k) == Cardinality({i \in kept : i <= k})
           nth(j) == CHOOSE k \in kept : upTo(k) = j
<1>1. Len(es) \in Nat
  OBVIOUS
<1>2. Cardinality(kept) \in Nat
  <2>1. Len(es) \in Int /\ IsFiniteSet(1..Len(es))
    BY <1>1, FS_Interval
  <2> QED BY <2>1, FS_Subset, FS_CardinalityType
<1>3. ASSUME NEW j \in 1..Cardinality(kept) PROVE nth(j) \in kept
  <2>1. \E k \in kept : upTo(k) = j
    BY <1>1, NthKept
  <2> HIDE DEF upTo
  <2> QED BY <2>1
<1>4. Filtered(es, kept) = [j \in 1..Cardinality(kept) |-> es[nth(j)]]
  BY DEF Filtered
<1> HIDE DEF nth
<1>5. \A j \in 1..Cardinality(kept) : es[nth(j)] \in S
  <2> TAKE j \in 1..Cardinality(kept)
  <2>1. nth(j) \in 1..Len(es)
    BY <1>3
  <2> QED BY <2>1, ElementOfSeq
<1> QED
  BY <1>2, <1>4, <1>5

\* A filter that keeps everything behind position m returns that rest.
LEMMA FilteredRest ==
  ASSUME NEW S, NEW es \in Seq(S), NEW m \in 0..Len(es), NEW kept,
         kept = (m + 1)..Len(es)
  PROVE  /\ Filtered(es, kept) = [j \in 1..(Len(es) - m) |-> es[m + j]]
         /\ Filtered(es, kept) \in Seq(S)
         /\ Len(Filtered(es, kept)) = Len(es) - m
<1> DEFINE upTo(k) == Cardinality({i \in kept : i <= k})
           nth(j) == CHOOSE k \in kept : upTo(k) = j
           r == Filtered(es, kept)
<1>1. Len(es) \in Nat
  OBVIOUS
<1>2. r = [j \in 1..Cardinality(kept) |-> es[nth(j)]]
  BY DEF Filtered
<1>3. Cardinality(kept) = Len(es) - m
  <2>1. m + 1 \in Int /\ Len(es) \in Int
    BY <1>1
  <2>2. Cardinality((m + 1)..Len(es)) = IF m + 1 > Len(es) THEN 0 ELSE Len(es) - (m + 1) + 1
    BY <2>1, FS_Interval
  <2> QED
    BY <1>1, <2>2
<1>4. ASSUME NEW k \in kept PROVE upTo(k) = k - m
  <2>1. {i \in kept : i <= k} = (m + 1)..k /\ k \in Int /\ m + 1 \in Int /\ m + 1 <= k
    BY <1>1
  <2>2. Cardinality((m + 1)..k) = IF m + 1 > k THEN 0 ELSE k - (m + 1) + 1
    BY <2>1, FS_Interval
  <2>3. upTo(k) = Cardinality((m + 1)..k)
    BY <2>1
  <2> HIDE DEF upTo
  <2> QED
    BY <1>1, <2>1, <2>2, <2>3
<1> HIDE DEF upTo
<1>5. ASSUME NEW j \in 1..(Len(es) - m) PROVE nth(j) = m + j
  <2>1. m + j \in kept /\ upTo(m + j) = j
    BY <1>1, <1>4
  <2>2. nth(j) \in kept /\ upTo(nth(j)) = j
    BY <2>1
  <2>3. upTo(nth(j)) = nth(j) - m /\ nth(j) \in Int
    BY <2>2, <1>4
  <2> QED
    BY <1>1, <2>2, <2>3
<1> HIDE DEF nth, r
<1>6. r = [j \in 1..(Len(es) - m) |-> es[m + j]]
  BY <1>2, <1>3, <1>5
<1>7. \A j \in 1..(Len(es) - m) : m + j \in 1..Len(es)
  BY <1>1
<1>8. \A j \in 1..(Len(es) - m) : es[m + j] \in S
  BY <1>7, ElementOfSeq
<1>9. r \in Seq(S) /\ Len(r) = Len(es) - m
  BY <1>1, <1>6, <1>8
<1> QED
  BY <1>6, <1>9 DEF r

LEMMA FilterType ==
  ASSUME NEW S, NEW es \in Seq(EntryOf(S)), NEW n \in Nat
  PROVE  EntriesAfter(es, n) \in Seq(EntryOf(S)) /\ EntriesUpTo(es, n) \in Seq(EntryOf(S))
<1>1. {k \in 1..Len(es) : es[k].index > n} \in SUBSET (1..Len(es))
  OBVIOUS
<1>2. {k \in 1..Len(es) : es[k].index <= n} \in SUBSET (1..Len(es))
  OBVIOUS
<1> QED
  BY <1>1, <1>2, FilteredType DEF EntriesAfter, EntriesUpTo

LEMMA InstallType ==
  ASSUME NEW S, NEW l \in LogOf(S), NEW n \in Nat, NEW t \in Nat
  PROVE  /\ installSnapshot(l, n, t) \in LogOf(S)
         /\ installSnapshot(l, n, t).lastIncludedIndex = n
  BY LogIndexType, FilterType DEF installSnapshot, LogOf

\* A log whose entries all carry an index behind its boundary survives a restart.
LEMMA ReloadedSame ==
  ASSUME NEW S, NEW l \in LogOf(S),
         \A k \in 1..Len(l.entries) : l.entries[k].index > l.lastIncludedIndex
  PROVE  reloaded(l) = l
<1> DEFINE es == l.entries
           kept == {k \in 1..Len(es) : es[k].index > l.lastIncludedIndex}
           r == Filtered(es, kept)
<1>1. es \in Seq(EntryOf(S)) /\ Len(es) \in Nat
  BY LogIndexType DEF LogOf
<1>2. kept = (0 + 1)..Len(es)
  BY <1>1
<1>3. 0 \in 0..Len(es)
  BY <1>1
<1> HIDE DEF kept, es
<1>4. r = [j \in 1..(Len(es) - 0) |-> es[0 + j]]
  BY <1>1, <1>2, <1>3, FilteredRest
<1>5. r = [j \in 1..Len(es) |-> es[j]]
  BY <1>1, <1>4
<1>6. r = es
  BY <1>1, <1>5
<1>7. reloaded(l) = [entries           |-> l.entries,
                     lastIncludedIndex |-> l.lastIncludedIndex,
                     lastIncludedTerm  |-> l.lastIncludedTerm]
  BY <1>6 DEF reloaded, installSnapshot, EntriesAfter, es, kept
<1> QED
  BY <1>7 DEF LogOf

\* The entry loop keeps the boundary, and never cuts into what is committed.
LEMMA MergeType ==
  ASSUME NEW S, NEW l \in LogOf(S), NEW c \in Nat, NEW es \in Seq(EntryOf(S)),
         c <= getLastIndex(l)
  PROVE  /\ MergeEntries(l, c, es) \in LogOf(S)
         /\ MergeEntries(l, c, es).lastIncludedIndex = l.lastIncludedIndex
         /\ c <= getLastIndex(MergeEntries(l, c, es))
<1> DEFINE new == NewPositions(l, c, es)
           first == Min(new)
           base == truncateFrom(l, es[first].index)
           tail == SubSeq(es, first, Len(es))
<1>1. CASE new = {}
  BY <1>1 DEF MergeEntries
<1>2. CASE new /= {}
  <2>0. Len(es) \in Nat
    OBVIOUS
  <2>1. first \in new /\ first \in 1..Len(es)
    <3>1. new \subseteq Nat /\ new \subseteq 1..Len(es)
      BY <2>0 DEF NewPositions
    <3> HIDE DEF new
    <3> QED BY <1>2, <3>1, MinInSet
  <2>2. es[first].index \in Nat
    <3>1. es[first] \in EntryOf(S)
      <4> HIDE DEF first
      <4> QED BY <2>1, ElementOfSeq
    <3> HIDE DEF first
    <3> QED BY <3>1 DEF EntryOf
  <2>3. \/ es[first].index > getLastIndex(l)
        \/ hasEntry(l, es[first].index) /\ es[first].index > c
    BY <2>1 DEF NewPositions, Conflicts
  <2> HIDE DEF first
  <2>4. base \in LogOf(S) /\ base.lastIncludedIndex = l.lastIncludedIndex
        /\ (hasEntry(l, es[first].index) => getLastIndex(base) = es[first].index - 1)
        /\ (~hasEntry(l, es[first].index) => base = l)
    BY <2>2, TruncateType
  <2>5. c <= getLastIndex(base)
    BY <2>2, <2>3, <2>4, LogIndexType DEF hasEntry
  <2>6. tail \in Seq(EntryOf(S)) /\ Len(tail) \in Nat
    BY <2>0, <2>1, StretchType
  <2> HIDE DEF base, tail
  <2>7. base.entries \o tail \in Seq(EntryOf(S))
        /\ Len(base.entries \o tail) = Len(base.entries) + Len(tail)
    BY <2>4, <2>6, LogIndexType, ConcatProperties
  <2> DEFINE merged == base.entries \o tail
  <2>8. MergeEntries(l, c, es) = [base EXCEPT !.entries = merged]
    BY <1>2 DEF MergeEntries, base, tail, first
  <2> HIDE DEF merged
  <2>9. getLastIndex(base) = base.lastIncludedIndex + Len(base.entries)
    BY DEF getLastIndex
  <2>10. base.lastIncludedIndex \in Nat /\ Len(base.entries) \in Nat
    BY <2>4, LogIndexType
  <2>11. merged \in Seq(EntryOf(S)) /\ Len(merged) = Len(base.entries) + Len(tail)
    BY <2>7 DEF merged
  <2>12. /\ [base EXCEPT !.entries = merged] \in LogOf(S)
         /\ [base EXCEPT !.entries = merged].lastIncludedIndex = base.lastIncludedIndex
         /\ getLastIndex([base EXCEPT !.entries = merged]) = base.lastIncludedIndex + Len(merged)
    BY <2>4, <2>11, WithEntries
  <2> QED
    BY <2>4, <2>5, <2>6, <2>8, <2>9, <2>10, <2>11, <2>12
<1> QED
  BY <1>1, <1>2

=============================================================================
