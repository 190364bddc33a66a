--------------------------- MODULE FrontendProofs ---------------------------
(***************************************************************************)
(* Proofs about the frontend and the board, for any number of clients,     *)
(* events and faults: the sockets of a client, the fold of undo and redo,  *)
(* what its canvas, its redo stack and its archive hold (FrontendInv), and *)
(* that the canvas agrees with the board in the end (CanvasInv).           *)
(***************************************************************************)
EXTENDS Frontend, SequenceTheorems, FiniteSetTheorems, WellFoundedInduction, TLAPS

-----------------------------------------------------------------------------
(* Induction.  A set of numbers is used in place of a predicate, which no  *)
(* prover here instantiates.                                               *)

\* The intervals 1..n are well founded by inclusion, so the numbers are by order.
LEMMA LeastOf ==
  ASSUME NEW S \in SUBSET Nat, S /= {}
  PROVE  \E m \in S : \A k \in S : m <= k
<1> DEFINE I == {1..n : n \in S}
<1>1. IsWellFoundedOn(StrictSubsetOrdering(Nat), FiniteSubsetsOf(Nat))
  BY FS_StrictSubsetOrderingWellFounded
<1>2. I \subseteq FiniteSubsetsOf(Nat)
  <2>1. \A n \in S : IsFiniteSet(1..n) /\ 1..n \subseteq Nat
    BY FS_Interval
  <2> QED
    BY <2>1 DEF FiniteSubsetsOf
<1>3. I /= {}
  OBVIOUS
<1> HIDE DEF I
<1>4. PICK x \in I : \A y \in I : ~ (<<y, x>> \in StrictSubsetOrdering(Nat))
  BY <1>1, <1>2, <1>3, WFMin
<1>5. PICK m \in S : x = 1..m
  BY DEF I
<1>6. ASSUME NEW k \in S, k < m PROVE FALSE
  <2>1. (1..k) \in I /\ 1..k \subseteq 1..m /\ m \in 1..m /\ m \notin 1..k
    BY <1>6 DEF I
  <2>2. <<1..k, 1..m>> \in StrictSubsetOrdering(Nat)
    BY <2>1 DEF StrictSubsetOrdering
  <2> QED
    BY <2>1, <2>2, <1>4, <1>5
<1> QED
  BY <1>6

LEMMA NatInd ==
  ASSUME NEW S \in SUBSET Nat, 0 \in S, \A n \in S : n + 1 \in S
  PROVE  S = Nat
<1> SUFFICES ASSUME Nat \ S /= {} PROVE FALSE
  OBVIOUS
<1>1. PICK m \in Nat \ S : \A k \in Nat \ S : m <= k
  BY LeastOf
<1>2. m /= 0 /\ m - 1 \in S
  BY <1>1
<1> QED
  BY <1>2

-----------------------------------------------------------------------------
(* Without, the filter of an array.                                        *)

\* The recursion of Without, and a function that satisfies it up to n.
Step(seq, x, prev, k) == IF seq[k] = x THEN prev ELSE Append(prev, seq[k])

IsKept(g, seq, x, n) ==
  g = [k \in 0..n |-> IF k = 0 THEN <<>> ELSE Step(seq, x, g[k - 1], k)]

LEMMA KeptExists ==
  ASSUME NEW seq, NEW x, NEW n \in Nat
  PROVE  \E g : IsKept(g, seq, x, n)
<1> DEFINE S == {m \in Nat : \E g : IsKept(g, seq, x, m)}
<1>1. 0 \in S
  <2>1. IsKept([k \in 0..0 |-> <<>>], seq, x, 0)
    BY DEF IsKept
  <2> QED
    BY <2>1
<1>2. ASSUME NEW m \in S PROVE m + 1 \in S
  <2>1. PICK g : IsKept(g, seq, x, m)
    BY <1>2
  <2> DEFINE h == [k \in 0..(m + 1) |-> IF k <= m THEN g[k] ELSE Step(seq, x, g[m], m + 1)]
  <2>2. IsKept(h, seq, x, m + 1)
    <3> SUFFICES \A k \in 0..(m + 1) :
                   h[k] = IF k = 0 THEN <<>> ELSE Step(seq, x, h[k - 1], k)
      BY DEF IsKept
    <3> TAKE k \in 0..(m + 1)
    <3>1. CASE k = 0
      BY <2>1, <3>1 DEF IsKept
    <3>2. CASE k \in 1..m
      <4>1. h[k] = g[k] /\ h[k - 1] = g[k - 1]
        BY <3>2
      <4>2. g[k] = Step(seq, x, g[k - 1], k)
        BY <2>1, <3>2 DEF IsKept
      <4> QED
        BY <3>2, <4>1, <4>2
    <3>3. CASE k = m + 1
      BY <3>3
    <3> QED
      BY <3>1, <3>2, <3>3
  <2> QED
    BY <2>2
<1> HIDE DEF S
<1>3. S = Nat
  BY <1>1, <1>2, NatInd DEF S
<1> QED
  BY <1>3 DEF S

LEMMA WithoutIs ==
  ASSUME NEW seq, NEW x, Len(seq) \in Nat
  PROVE  \E g : IsKept(g, seq, x, Len(seq)) /\ Without(seq, x) = g[Len(seq)]
<1> DEFINE f == CHOOSE g : IsKept(g, seq, x, Len(seq))
<1>1. IsKept(f, seq, x, Len(seq))
  BY KeptExists
<1>2. Without(seq, x) = f[Len(seq)]
  BY DEF Without, IsKept, Step
<1> QED
  BY <1>1, <1>2

\* y is in two places of a sequence.
Double(seq, y) == \E j, k \in DOMAIN seq : j /= k /\ seq[j] = y /\ seq[k] = y

\* Without(seq, x) is a sequence of the other elements of seq, none of them in
\* more places than in seq.
LEMMA WithoutHas ==
  ASSUME NEW T, NEW seq \in Seq(T), NEW x
  PROVE  /\ Without(seq, x) \in Seq(T)
         /\ \A y : Has(Without(seq, x), y) <=> y /= x /\ Has(seq, y)
         /\ \A y : Double(Without(seq, x), y) => Double(seq, y)
<1> DEFINE N == Len(seq)
<1>0. N \in Nat /\ DOMAIN seq = 1..N /\ \A k \in 1..N : seq[k] \in T
  OBVIOUS
<1>1. PICK g : IsKept(g, seq, x, N) /\ Without(seq, x) = g[N]
  BY <1>0, WithoutIs
<1> HIDE DEF N
<1>2. g[0] = <<>> /\ \A k \in 1..N : g[k] = Step(seq, x, g[k - 1], k)
  BY <1>0, <1>1 DEF IsKept
<1> DEFINE Upto(m) == /\ g[m] \in Seq(T)
                      /\ \A y : (\E j \in DOMAIN g[m] : g[m][j] = y)
                                  <=> y /= x /\ \E j \in 1..m : seq[j] = y
                      /\ \A y : Double(g[m], y)
                                  => \E j, k \in 1..m : j /= k /\ seq[j] = y /\ seq[k] = y
           S == {m \in Nat : m <= N => Upto(m)}
<1>3. 0 \in S
  <2>1. g[0] \in Seq(T) /\ DOMAIN g[0] = {} /\ 1..0 = {}
    BY <1>2, EmptySeq
  <2>2. Upto(0)
    BY <2>1 DEF Double
  <2> HIDE DEF Upto
  <2> QED
    BY <2>2
<1>4. ASSUME NEW m \in S PROVE m + 1 \in S
  <2> SUFFICES ASSUME m + 1 <= N PROVE Upto(m + 1)
    OBVIOUS
  <2>0. m \in Nat /\ m + 1 \in 1..N
    BY <1>0
  <2>1. Upto(m)
    BY <1>0, <1>4, <2>0
  <2>2. g[m + 1] = Step(seq, x, g[m], m + 1)
    BY <1>2, <2>0
  <2>3. CASE seq[m + 1] = x
    <3>1. g[m + 1] = g[m]
      BY <2>2, <2>3 DEF Step
    <3>2. \A j : j \in 1..(m + 1) <=> j \in 1..m \/ j = m + 1
      BY <2>0
    <3>3. g[m + 1] \in Seq(T)
      BY <2>1, <3>1
    <3>4. \A y : (\E j \in DOMAIN g[m + 1] : g[m + 1][j] = y)
                   <=> y /= x /\ \E j \in 1..(m + 1) : seq[j] = y
      BY <2>1, <2>3, <3>1, <3>2, ZenonT(60)
    <3>5. \A y : Double(g[m + 1], y)
                   => \E j, k \in 1..(m + 1) : j /= k /\ seq[j] = y /\ seq[k] = y
      BY <2>1, <3>1, <3>2
    <3> QED
      BY <3>3, <3>4, <3>5
  <2>4. CASE seq[m + 1] /= x
    <3> DEFINE q == g[m]
               L == Len(q)
    <3>1. g[m + 1] = Append(q, seq[m + 1])
      BY <2>2, <2>4 DEF Step
    <3>2. q \in Seq(T) /\ L \in Nat /\ DOMAIN q = 1..L
      BY <2>1
    <3>3. /\ g[m + 1] \in Seq(T) /\ DOMAIN g[m + 1] = 1..(L + 1)
          /\ g[m + 1][L + 1] = seq[m + 1] /\ \A j \in 1..L : g[m + 1][j] = q[j]
      BY <1>0, <2>0, <3>1, <3>2
    <3>4. \A j : j \in 1..(m + 1) <=> j \in 1..m \/ j = m + 1
      BY <2>0
    <3>5. \A j : j \in 1..(L + 1) <=> j \in 1..L \/ j = L + 1
      BY <3>2
    <3>6. L + 1 \notin 1..L /\ m + 1 \notin 1..m
      BY <2>0, <3>2
    <3> HIDE DEF q, L
    <3>7. \A y : (\E j \in 1..L : q[j] = y) <=> y /= x /\ \E j \in 1..m : seq[j] = y
      BY <2>1, <3>2 DEF q
    <3>8. \A y : (\E j \in DOMAIN g[m + 1] : g[m + 1][j] = y)
                   <=> y /= x /\ \E j \in 1..(m + 1) : seq[j] = y
      <4> SUFFICES ASSUME NEW y
                   PROVE  (\E j \in 1..(L + 1) : g[m + 1][j] = y)
                            <=> y /= x /\ \E j \in 1..(m + 1) : seq[j] = y
        BY <3>3
      <4>1. (\E j \in 1..(L + 1) : g[m + 1][j] = y)
              <=> (\E j \in 1..L : q[j] = y) \/ seq[m + 1] = y
        BY <3>3, <3>5
      <4>2. (\E j \in 1..(m + 1) : seq[j] = y)
              <=> (\E j \in 1..m : seq[j] = y) \/ seq[m + 1] = y
        BY <3>4
      <4> QED
        BY <2>4, <3>7, <4>1, <4>2
    <3>9. ASSUME NEW y, Double(g[m + 1], y)
          PROVE  \E j, k \in 1..(m + 1) : j /= k /\ seq[j] = y /\ seq[k] = y
      <4>1. PICK j, k \in 1..(L + 1) : j /= k /\ g[m + 1][j] = y /\ g[m + 1][k] = y
        BY <3>3, <3>9 DEF Double
      <4>2. CASE j \in 1..L /\ k \in 1..L
        <5>1. Double(q, y)
          <6>1. q[j] = y /\ q[k] = y
            BY <3>3, <4>1, <4>2
          <6> QED
            BY <3>2, <4>1, <4>2, <6>1 DEF Double
        <5> QED
          BY <2>1, <3>4, <5>1 DEF q
      <4>3. CASE j = L + 1 \/ k = L + 1
        <5>1. seq[m + 1] = y /\ \E i \in 1..L : q[i] = y
          BY <3>3, <3>5, <4>1, <4>3
        <5>2. \E i \in 1..m : seq[i] = y
          BY <3>7, <5>1
        <5> QED
          BY <3>4, <3>6, <5>1, <5>2
      <4> QED
        BY <3>5, <4>1, <4>2, <4>3
    <3> QED
      BY <3>3, <3>8, <3>9
  <2> QED
    BY <2>3, <2>4
<1> HIDE DEF S
<1>5. S = Nat
  BY <1>3, <1>4, NatInd DEF S
<1>6. Upto(N)
  <2>1. N \in S /\ N <= N
    BY <1>0, <1>5
  <2> QED
    BY <2>1 DEF S
<1>7. Without(seq, x) \in Seq(T)
  BY <1>1, <1>6
<1>8. \A y : Has(Without(seq, x), y) <=> y /= x /\ Has(seq, y)
  BY <1>0, <1>1, <1>6 DEF Has
<1>9. \A y : Double(Without(seq, x), y) => Double(seq, y)
  BY <1>0, <1>1, <1>6 DEF Double
<1> QED
  BY <1>7, <1>8, <1>9

LEMMA AppendedHas ==
  ASSUME NEW T, NEW seq \in Seq(T), NEW z \in T
  PROVE  /\ Append(seq, z) \in Seq(T)
         /\ \A y : Has(Append(seq, z), y) <=> Has(seq, y) \/ y = z
         /\ \A y : Double(Append(seq, z), y) <=> Double(seq, y) \/ (y = z /\ Has(seq, y))
<1> DEFINE L == Len(seq)
           q == Append(seq, z)
<1>1. L \in Nat /\ DOMAIN seq = 1..L
  OBVIOUS
<1>2. /\ q \in Seq(T) /\ DOMAIN q = 1..(L + 1)
      /\ q[L + 1] = z /\ \A j \in 1..L : q[j] = seq[j]
  OBVIOUS
<1>3. \A j : j \in 1..(L + 1) <=> j \in 1..L \/ j = L + 1
  BY <1>1
<1>4. L + 1 \notin 1..L
  BY <1>1
<1> HIDE DEF L, q
<1>5. \A y : Has(q, y) <=> Has(seq, y) \/ y = z
  BY <1>1, <1>2, <1>3 DEF Has
<1>6. ASSUME NEW y PROVE Double(q, y) <=> Double(seq, y) \/ (y = z /\ Has(seq, y))
  <2>1. ASSUME Double(q, y) PROVE Double(seq, y) \/ (y = z /\ Has(seq, y))
    <3>1. PICK j, k \in 1..(L + 1) : j /= k /\ q[j] = y /\ q[k] = y
      BY <1>2, <2>1 DEF Double
    <3>2. CASE j \in 1..L /\ k \in 1..L
      <4>1. seq[j] = y /\ seq[k] = y
        BY <1>2, <3>1, <3>2
      <4> QED
        BY <1>1, <3>1, <3>2, <4>1 DEF Double
    <3>3. CASE j = L + 1 \/ k = L + 1
      BY <1>1, <1>2, <1>3, <3>1, <3>3 DEF Has
    <3> QED
      BY <1>3, <3>1, <3>2, <3>3
  <2>2. ASSUME Double(seq, y) PROVE Double(q, y)
    <3>1. PICK j, k \in 1..L : j /= k /\ seq[j] = y /\ seq[k] = y
      BY <1>1, <2>2 DEF Double
    <3>2. q[j] = y /\ q[k] = y /\ j \in DOMAIN q /\ k \in DOMAIN q
      BY <1>2, <1>3, <3>1
    <3> QED
      BY <3>1, <3>2 DEF Double
  <2>3. ASSUME y = z, Has(seq, y) PROVE Double(q, y)
    <3>1. PICK j \in 1..L : seq[j] = y
      BY <1>1, <2>3 DEF Has
    <3>2. q[j] = y /\ q[L + 1] = y /\ j /= L + 1 /\ j \in DOMAIN q /\ L + 1 \in DOMAIN q
      BY <1>2, <1>3, <1>4, <2>3, <3>1
    <3> QED
      BY <3>2 DEF Double
  <2> QED
    BY <2>1, <2>2, <2>3
<1>7. \A y : Double(q, y) <=> Double(seq, y) \/ (y = z /\ Has(seq, y))
  BY <1>6
<1> QED
  BY <1>2, <1>5, <1>7 DEF q

-----------------------------------------------------------------------------
(* The fold of a board's events.                                           *)

Edit == [id : Nat, action : Action, target : Nat, by : Client, via : Nat]

EditsOf(es, s) == {k \in DOMAIN es : es[k].target = s /\ es[k].action /= "stroke"}

\* The last undo or redo of s is an undo.
LastUndone(es, s) ==
  \E k \in EditsOf(es, s) : es[k].action = "undo_stroke" /\ \A l \in EditsOf(es, s) : l <= k

DrawnAt(es, s, k) == k \in DOMAIN es /\ es[k].action = "stroke" /\ es[k].target = s
DrawnTwice(es, s) == \E j, k \in DOMAIN es : j /= k /\ DrawnAt(es, s, j) /\ DrawnAt(es, s, k)

\* What the fold keeps beside the events is what the events say.
BoardOK(b) ==
  /\ b \in [events : Seq(Edit), undone : SUBSET Nat, visible : Seq(Nat)]
  /\ \A s \in Nat : s \in b.undone <=> LastUndone(b.events, s)
  /\ \A s \in Nat : Has(b.visible, s) <=> Drawn(b.events, s) /\ ~LastUndone(b.events, s)
  /\ \A s \in Nat : Double(b.visible, s) => DrawnTwice(b.events, s)

LEMMA OnBoardIs ==
  ASSUME NEW es \in Seq(Edit), NEW s
  PROVE  OnBoard(es, s) <=> Drawn(es, s) /\ ~LastUndone(es, s)
<1>1. EditsOf(es, s) \subseteq Nat
  BY DEF EditsOf
<1>2. OnBoard(es, s) <=> /\ Drawn(es, s)
                         /\ \A k \in EditsOf(es, s) : es[k].action = "undo_stroke"
                              => \E l \in EditsOf(es, s) : l > k
  BY DEF OnBoard, EditsOf
<1> QED
  BY <1>1, <1>2 DEF LastUndone

\* What one more event changes in what the events say.
LEMMA EventAppended ==
  ASSUME NEW es \in Seq(Edit), NEW e \in Edit, NEW s \in Nat
  PROVE  LET more == Append(es, e) IN
         /\ more \in Seq(Edit)
         /\ Drawn(more, s) <=> Drawn(es, s) \/ (e.action = "stroke" /\ e.target = s)
         /\ LastUndone(more, s) <=> IF e.target = s /\ e.action /= "stroke"
                                    THEN e.action = "undo_stroke" ELSE LastUndone(es, s)
         /\ DrawnTwice(es, s) => DrawnTwice(more, s)
         /\ Drawn(es, s) /\ e.action = "stroke" /\ e.target = s => DrawnTwice(more, s)
<1> DEFINE L == Len(es)
           q == Append(es, e)
<1>1. L \in Nat /\ DOMAIN es = 1..L
  OBVIOUS
<1>2. /\ q \in Seq(Edit) /\ DOMAIN q = 1..(L + 1)
      /\ q[L + 1] = e /\ \A j \in 1..L : q[j] = es[j]
  OBVIOUS
<1>3. \A j : j \in 1..(L + 1) <=> j \in 1..L \/ j = L + 1
  BY <1>1
<1>4. L + 1 \notin 1..L /\ \A j \in 1..L : j <= L + 1 /\ ~(L + 1 <= j)
  BY <1>1
<1> HIDE DEF L, q
<1>5. Drawn(q, s) <=> Drawn(es, s) \/ (e.action = "stroke" /\ e.target = s)
  BY <1>1, <1>2, <1>3 DEF Drawn
<1>6. DrawnTwice(es, s) => DrawnTwice(q, s)
  BY <1>1, <1>2, <1>3 DEF DrawnTwice, DrawnAt
<1>7. Drawn(es, s) /\ e.action = "stroke" /\ e.target = s => DrawnTwice(q, s)
  BY <1>1, <1>2, <1>3, <1>4 DEF DrawnTwice, DrawnAt, Drawn
<1>8. CASE e.target = s /\ e.action /= "stroke"
  <2>1. L + 1 \in EditsOf(q, s) /\ \A k \in EditsOf(q, s) : k = L + 1 \/ k \in 1..L
    BY <1>2, <1>3, <1>8 DEF EditsOf
  <2>2. L + 1 <= L + 1
    BY <1>1
  <2>3. LastUndone(q, s) <=> e.action = "undo_stroke"
    BY <1>2, <1>4, <2>1, <2>2 DEF LastUndone
  <2> QED
    BY <1>2, <1>5, <1>6, <1>7, <1>8, <2>3 DEF q
<1>9. CASE ~(e.target = s /\ e.action /= "stroke")
  <2>1. EditsOf(q, s) = EditsOf(es, s)
    BY <1>1, <1>2, <1>3, <1>9 DEF EditsOf
  <2>2. EditsOf(es, s) \subseteq 1..L
    BY <1>1 DEF EditsOf
  <2>3. LastUndone(q, s) <=> LastUndone(es, s)
    BY <1>2, <2>1, <2>2 DEF LastUndone
  <2> QED
    BY <1>2, <1>5, <1>6, <1>7, <1>9, <2>3 DEF q
<1> QED
  BY <1>8, <1>9

\* applyBoardEvent keeps the fold right, whatever the event, however often it
\* came before and in whatever order.
LEMMA BoardStep ==
  ASSUME NEW b, BoardOK(b), NEW e \in Edit
  PROVE  /\ BoardOK(applyBoardEvent(b, e))
         /\ applyBoardEvent(b, e).events = Append(b.events, e)
<1> DEFINE n == applyBoardEvent(b, e)
           t == e.target
<1>0. /\ b.events \in Seq(Edit) /\ b.undone \in SUBSET Nat /\ b.visible \in Seq(Nat)
      /\ t \in Nat /\ e.action \in {"stroke", "undo_stroke", "redo_stroke"}
  BY DEF BoardOK, Edit, Action
<1>1. n.events = Append(b.events, e)
  BY DEF applyBoardEvent
<1>2. \A s \in Nat :
        /\ Drawn(n.events, s) <=> Drawn(b.events, s) \/ (e.action = "stroke" /\ t = s)
        /\ LastUndone(n.events, s) <=> IF t = s /\ e.action /= "stroke"
                                       THEN e.action = "undo_stroke" ELSE LastUndone(b.events, s)
        /\ DrawnTwice(b.events, s) => DrawnTwice(n.events, s)
        /\ Drawn(b.events, s) /\ e.action = "stroke" /\ t = s => DrawnTwice(n.events, s)
  BY <1>0, <1>1, EventAppended
<1>3. \A s \in Nat :
        /\ s \in b.undone <=> LastUndone(b.events, s)
        /\ Has(b.visible, s) <=> Drawn(b.events, s) /\ ~LastUndone(b.events, s)
        /\ Double(b.visible, s) => DrawnTwice(b.events, s)
  BY DEF BoardOK
<1>4. n.events \in Seq(Edit)
  BY <1>0, <1>1
<1> DEFINE undone == n.undone
           visible == n.visible
<1>5. n = [events |-> n.events, undone |-> undone, visible |-> visible]
  BY DEF applyBoardEvent
<1>6. SUFFICES /\ undone \in SUBSET Nat /\ visible \in Seq(Nat)
               /\ \A s \in Nat : s \in undone <=> LastUndone(n.events, s)
               /\ \A s \in Nat : Has(visible, s)
                                  <=> Drawn(n.events, s) /\ ~LastUndone(n.events, s)
               /\ \A s \in Nat : Double(visible, s) => DrawnTwice(n.events, s)
  <2> HIDE DEF n
  <2>1. n \in [events : Seq(Edit), undone : SUBSET Nat, visible : Seq(Nat)]
    BY <1>4, <1>5, <1>6
  <2> QED
    BY <1>1, <1>6, <2>1 DEF BoardOK, n
<1>7. CASE e.action = "undo_stroke"
  <2>1. undone = b.undone \cup {t} /\ visible = Without(b.visible, t)
    BY <1>7 DEF applyBoardEvent
  <2> HIDE DEF n, undone, visible
  <2>2. /\ visible \in Seq(Nat)
        /\ \A y : Has(visible, y) <=> y /= t /\ Has(b.visible, y)
        /\ \A y : Double(visible, y) => Double(b.visible, y)
    BY <1>0, <2>1, WithoutHas
  <2> QED
    BY <1>0, <1>2, <1>3, <1>7, <2>1, <2>2
<1>8. CASE e.action = "redo_stroke"
  <2>1. /\ undone = b.undone \ {t}
        /\ visible = IF Has(b.visible, t) \/ ~Drawn(b.events, t) THEN b.visible
                     ELSE Append(b.visible, t)
    BY <1>8 DEF applyBoardEvent
  <2> HIDE DEF n, undone, visible
  <2>2. CASE Has(b.visible, t) \/ ~Drawn(b.events, t)
    BY <1>0, <1>2, <1>3, <1>8, <2>1, <2>2
  <2>3. CASE ~(Has(b.visible, t) \/ ~Drawn(b.events, t))
    <3>1. /\ visible \in Seq(Nat)
          /\ \A y : Has(visible, y) <=> Has(b.visible, y) \/ y = t
          /\ \A y : Double(visible, y) => Double(b.visible, y)
      BY <1>0, <2>1, <2>3, AppendedHas
    <3> QED
      BY <1>0, <1>2, <1>3, <1>8, <2>1, <2>3, <3>1
  <2> QED
    BY <2>2, <2>3
<1>9. CASE e.action = "stroke"
  <2>1. /\ undone = b.undone
        /\ visible = IF t \in b.undone THEN b.visible ELSE Append(b.visible, t)
    BY <1>9 DEF applyBoardEvent
  <2> HIDE DEF n, undone, visible
  <2>2. CASE t \in b.undone
    BY <1>0, <1>2, <1>3, <1>9, <2>1, <2>2
  <2>3. CASE t \notin b.undone
    <3>1. /\ visible \in Seq(Nat)
          /\ \A y : Has(visible, y) <=> Has(b.visible, y) \/ y = t
          /\ \A y : Double(visible, y) => Double(b.visible, y) \/ (y = t /\ Has(b.visible, y))
      BY <1>0, <2>1, <2>3, AppendedHas
    <3> QED
      BY <1>0, <1>2, <1>3, <1>9, <2>1, <2>3, <3>1
  <2> QED
    BY <2>2, <2>3
<1> QED
  BY <1>0, <1>7, <1>8, <1>9

LEMMA EmptyBoardOK == BoardOK(emptyBoard)
BY EmptySeq DEF BoardOK, emptyBoard, LastUndone, EditsOf, Drawn, Has, Double

-----------------------------------------------------------------------------
(* The sockets.                                                            *)

SocketState == {"none", "CONNECTING", "OPEN", "CLOSING", "CLOSED"}

ConnType ==
  /\ mounted \in [Client -> BOOLEAN]
  /\ readyState \in [Client -> [Socket -> SocketState]]
  /\ wsRef \in [Client -> Nat]
  /\ timers \in [Client -> SUBSET Socket]
  /\ faults \in Nat

\* What is connecting or open is the newest socket.
NewestLive ==
  \A c \in Client, k \in Socket :
    /\ readyState[c][k] \in Live => k = wsRef[c]
    /\ k > wsRef[c] => readyState[c][k] = "none"

ConnInv == ConnType /\ NewestLive

\* The steps of the sockets.
ConnNext(c) ==
  \/ effect(c) \/ cleanup(c)
  \/ \E k \in Socket : onopen(c, k) \/ onclose(c, k) \/ reconnects(c, k)

LEMMA ConnectKeeps ==
  ASSUME ConnInv, NEW c \in Client, connect(c)
  PROVE  /\ wsRef' \in [Client -> Nat]
         /\ readyState' \in [Client -> [Socket -> SocketState]]
         /\ NewestLive'
<1>0. Socket \subseteq Nat \ {0} /\ ConnType /\ NewestLive
  BY ConnectionAssumption DEF ConnInv, Socket
<1>1. CASE UNCHANGED <<wsRef, readyState, status>>
  BY <1>0, <1>1 DEF ConnType, NewestLive
<1>2. CASE /\ RefState(c) \notin Live
           /\ wsRef' = [wsRef EXCEPT ![c] = @ + 1]
           /\ readyState' = [readyState EXCEPT ![c][wsRef[c] + 1] = "CONNECTING"]
  <2>1. wsRef' \in [Client -> Nat] /\ wsRef'[c] = wsRef[c] + 1
        /\ \A d \in Client \ {c} : wsRef'[d] = wsRef[d]
    BY <1>0, <1>2 DEF ConnType
  <2>2. readyState' \in [Client -> [Socket -> SocketState]]
    BY <1>0, <1>2 DEF ConnType, SocketState
  <2>3. \A d \in Client, k \in Socket :
          readyState'[d][k] = IF d = c /\ k = wsRef[c] + 1 THEN "CONNECTING"
                              ELSE readyState[d][k]
    BY <1>0, <1>2 DEF ConnType
  <2>4. \A k \in Socket : readyState[c][k] \notin Live
    BY <1>0, <1>2 DEF NewestLive, RefState
  <2>5. NewestLive'
    <3> SUFFICES ASSUME NEW d \in Client, NEW k \in Socket
                 PROVE  /\ readyState'[d][k] \in Live => k = wsRef'[d]
                        /\ k > wsRef'[d] => readyState'[d][k] = "none"
      BY DEF NewestLive
    <3>1. CASE d = c
      BY <1>0, <2>1, <2>3, <2>4, <3>1 DEF NewestLive, ConnType
    <3>2. CASE d /= c
      BY <1>0, <2>1, <2>3, <3>2 DEF NewestLive
    <3> QED
      BY <3>1, <3>2
  <2> QED
    BY <2>1, <2>2, <2>5
<1> QED
  BY <1>1, <1>2 DEF connect

\* A socket that changes its state, and not to a live one unless it was live.
LEMMA StateKeeps ==
  ASSUME ConnInv, NEW c \in Client, NEW k \in Socket, NEW st \in SocketState \ {"none"},
         readyState' = [readyState EXCEPT ![c][k] = st], wsRef' = wsRef,
         readyState[c][k] /= "none", st \in Live => readyState[c][k] \in Live
  PROVE  readyState' \in [Client -> [Socket -> SocketState]] /\ NewestLive'
<1>1. readyState' \in [Client -> [Socket -> SocketState]]
  BY DEF ConnInv, ConnType
<1>2. \A d \in Client, j \in Socket :
        readyState'[d][j] = IF d = c /\ j = k THEN st ELSE readyState[d][j]
  BY DEF ConnInv, ConnType
<1>3. NewestLive'
  BY <1>2 DEF ConnInv, NewestLive
<1> QED
  BY <1>1, <1>3

LEMMA ConnStep ==
  ASSUME ConnInv, NEW c \in Client, ConnNext(c)
  PROVE  ConnInv'
<1>0. ConnType /\ NewestLive
  BY DEF ConnInv
<1>1. CASE effect(c)
  <2>1. connect(c) /\ mounted' \in [Client -> BOOLEAN] /\ UNCHANGED <<timers, faults>>
    BY <1>0, <1>1 DEF effect, ConnType
  <2> QED
    BY <1>0, <2>1, ConnectKeeps DEF ConnInv, ConnType
<1>2. CASE cleanup(c)
  <2>1. /\ mounted' \in [Client -> BOOLEAN] /\ timers' \in [Client -> SUBSET Socket]
        /\ faults' \in Nat /\ wsRef' = wsRef
    BY <1>0, <1>2 DEF cleanup, Fault, ConnType
  <2>2. readyState' \in [Client -> [Socket -> SocketState]] /\ NewestLive'
    <3>1. CASE RefState(c) \notin Live
      BY <1>0, <1>2, <2>1, <3>1 DEF cleanup, ConnType, NewestLive
    <3>2. CASE RefState(c) \in Live
      <4>1. readyState' = [readyState EXCEPT ![c][wsRef[c]] = "CLOSING"] /\ wsRef[c] /= 0
        BY <1>2, <3>2 DEF cleanup, RefState, Live
      <4>2. CASE wsRef[c] \in Socket
        BY <2>1, <3>2, <4>1, <4>2, StateKeeps DEF RefState, Live, SocketState
      <4>3. CASE wsRef[c] \notin Socket
        <5>1. readyState' = readyState
          BY <1>0, <4>1, <4>3 DEF ConnType
        <5> QED
          BY <1>0, <2>1, <5>1 DEF ConnType, NewestLive
      <4> QED
        BY <4>2, <4>3
    <3> QED
      BY <3>1, <3>2
  <2> QED
    BY <1>0, <2>1, <2>2 DEF ConnInv, ConnType
<1>3. ASSUME NEW k \in Socket, onopen(c, k) PROVE ConnInv'
  <2>1. readyState' \in [Client -> [Socket -> SocketState]] /\ NewestLive'
    BY <1>3, StateKeeps DEF onopen, Live, SocketState
  <2> QED
    BY <1>0, <1>3, <2>1 DEF onopen, ConnInv, ConnType
<1>4. ASSUME NEW k \in Socket, onclose(c, k) PROVE ConnInv'
  <2>1. readyState' \in [Client -> [Socket -> SocketState]] /\ NewestLive'
    BY <1>4, StateKeeps DEF onclose, Live, SocketState
  <2>2. timers' \in [Client -> SUBSET Socket] /\ faults' \in Nat
    BY <1>0, <1>4 DEF onclose, Fault, ConnType
  <2> QED
    BY <1>0, <1>4, <2>1, <2>2 DEF onclose, ConnInv, ConnType
<1>5. ASSUME NEW k \in Socket, reconnects(c, k) PROVE ConnInv'
  <2>1. connect(c) /\ timers' \in [Client -> SUBSET Socket] /\ UNCHANGED <<mounted, faults>>
    BY <1>0, <1>5 DEF reconnects, ConnType
  <2> QED
    BY <1>0, <2>1, ConnectKeeps DEF ConnInv, ConnType
<1> QED
  BY <1>1, <1>2, <1>3, <1>4, <1>5 DEF ConnNext

\* The bound on the sockets cuts nothing off: every connect finds a socket left.
\* A run of the effect that is to come, a close that has begun and a timer that
\* is set may each open one, and a fault makes at most two of these.
Closing(c) == {k \in Socket : readyState[c][k] = "CLOSING"}

Slots(c) == Cardinality(timers[c]) + Cardinality(Closing(c)) + (IF mounted[c] THEN 0 ELSE 1)

SocketsSuffice ==
  /\ faults <= MaxFaults
  /\ \A c \in Client : wsRef[c] + Slots(c) <= 1 + 2 * faults

LEMMA SocketSets ==
  ASSUME NEW S \in SUBSET Socket
  PROVE  /\ IsFiniteSet(S) /\ Cardinality(S) \in Nat
         /\ \A T \in SUBSET S : Cardinality(T) <= Cardinality(S)
         /\ \A x : Cardinality(S \cup {x}) <= Cardinality(S) + 1
         /\ \A x \in S : Cardinality(S \ {x}) = Cardinality(S) - 1
<1>1. IsFiniteSet(Socket)
  BY ConnectionAssumption, FS_Interval DEF Socket
<1>2. IsFiniteSet(S) /\ Cardinality(S) \in Nat
  BY <1>1, FS_Subset, FS_CardinalityType
<1>3. \A T \in SUBSET S : Cardinality(T) <= Cardinality(S)
  BY <1>2, FS_Subset
<1>4. \A x : Cardinality(S \cup {x}) <= Cardinality(S) + 1
  BY <1>2, FS_AddElement
<1>5. \A x \in S : Cardinality(S \ {x}) = Cardinality(S) - 1
  BY <1>2, FS_RemoveElement
<1> QED
  BY <1>2, <1>3, <1>4, <1>5

\* The client of a step of the sockets is the only one it changes.
LEMMA OthersKept ==
  ASSUME ConnInv, NEW c \in Client, ConnNext(c), NEW d \in Client \ {c}
  PROVE  /\ mounted'[d] = mounted[d] /\ readyState'[d] = readyState[d]
         /\ wsRef'[d] = wsRef[d] /\ timers'[d] = timers[d]
<1>0. ConnType
  BY DEF ConnInv
<1>1. ASSUME connect(c) PROVE wsRef'[d] = wsRef[d] /\ readyState'[d] = readyState[d]
  BY <1>0, <1>1 DEF connect, ConnType
<1>2. CASE effect(c)
  BY <1>0, <1>1, <1>2 DEF effect, ConnType
<1>3. CASE cleanup(c)
  BY <1>0, <1>3 DEF cleanup, ConnType
<1>4. ASSUME NEW k \in Socket, onopen(c, k) \/ onclose(c, k)
      PROVE  /\ mounted'[d] = mounted[d] /\ readyState'[d] = readyState[d]
             /\ wsRef'[d] = wsRef[d] /\ timers'[d] = timers[d]
  BY <1>0, <1>4 DEF onopen, onclose, ConnType
<1>5. ASSUME NEW k \in Socket, reconnects(c, k)
      PROVE  /\ mounted'[d] = mounted[d] /\ readyState'[d] = readyState[d]
             /\ wsRef'[d] = wsRef[d] /\ timers'[d] = timers[d]
  BY <1>0, <1>1, <1>5 DEF reconnects, ConnType
<1> QED
  BY <1>2, <1>3, <1>4, <1>5 DEF ConnNext

LEMMA FaultCounts ==
  ASSUME ConnType, SocketsSuffice, Fault
  PROVE  faults' = faults + 1 /\ faults' <= MaxFaults /\ faults \in Nat
BY ConnectionAssumption DEF ConnType, SocketsSuffice, Fault

\* connect takes at most one socket and closes none.
LEMMA ConnectCounts ==
  ASSUME ConnInv, NEW c \in Client, connect(c)
  PROVE  /\ wsRef'[c] \in Nat /\ wsRef[c] \in Nat /\ wsRef'[c] <= wsRef[c] + 1
         /\ Closing(c)' \subseteq Closing(c)
<1>0. ConnType
  BY DEF ConnInv
<1>1. CASE UNCHANGED <<wsRef, readyState, status>>
  BY <1>0, <1>1 DEF ConnType, Closing
<1>2. CASE /\ wsRef' = [wsRef EXCEPT ![c] = @ + 1]
           /\ readyState' = [readyState EXCEPT ![c][wsRef[c] + 1] = "CONNECTING"]
  <2>1. wsRef'[c] = wsRef[c] + 1 /\ wsRef[c] \in Nat
    BY <1>0, <1>2 DEF ConnType
  <2>2. \A k \in Socket :
          readyState'[c][k] = IF k = wsRef[c] + 1 THEN "CONNECTING" ELSE readyState[c][k]
    BY <1>0, <1>2 DEF ConnType
  <2> QED
    BY <2>1, <2>2 DEF Closing
<1> QED
  BY <1>1, <1>2 DEF connect

LEMMA SlotsStep ==
  ASSUME ConnInv, SocketsSuffice, NEW c \in Client, ConnNext(c)
  PROVE  SocketsSuffice'
<1>0. /\ ConnType /\ faults \in Nat /\ faults <= MaxFaults /\ MaxFaults \in Nat
      /\ timers[c] \in SUBSET Socket /\ Closing(c) \in SUBSET Socket
      /\ wsRef[c] \in Nat /\ mounted[c] \in BOOLEAN
  BY ConnectionAssumption DEF ConnInv, ConnType, SocketsSuffice, Closing
<1>1. ConnType' /\ timers'[c] \in SUBSET Socket /\ Closing(c)' \in SUBSET Socket
      /\ wsRef'[c] \in Nat /\ mounted'[c] \in BOOLEAN
  BY ConnStep DEF ConnInv, ConnType, Closing
<1> DEFINE T == Cardinality(timers[c])
           K == Cardinality(Closing(c))
           Tn == Cardinality(timers'[c])
           Kn == Cardinality(Closing(c)')
<1>2. T \in Nat /\ K \in Nat /\ Tn \in Nat /\ Kn \in Nat
  BY <1>0, <1>1, SocketSets
<1>3. /\ mounted[c] => wsRef[c] + T + K <= 1 + 2 * faults
      /\ ~mounted[c] => wsRef[c] + T + K + 1 <= 1 + 2 * faults
  BY <1>0, <1>2 DEF SocketsSuffice, Slots
<1>4. SUFFICES /\ faults' \in Nat /\ faults' <= MaxFaults /\ faults <= faults'
               /\ mounted'[c] => wsRef'[c] + Tn + Kn <= 1 + 2 * faults'
               /\ ~mounted'[c] => wsRef'[c] + Tn + Kn + 1 <= 1 + 2 * faults'
  <2>1. wsRef'[c] + Slots(c)' <= 1 + 2 * faults'
    BY <1>1, <1>2, <1>4 DEF Slots
  <2>2. ASSUME NEW d \in Client \ {c} PROVE wsRef'[d] + Slots(d)' <= 1 + 2 * faults'
    <3>1. wsRef'[d] = wsRef[d] /\ Slots(d)' = Slots(d)
      BY OthersKept DEF Slots, Closing
    <3>2. wsRef[d] + Slots(d) <= 1 + 2 * faults
      BY DEF SocketsSuffice
    <3>3. timers[d] \in SUBSET Socket /\ Closing(d) \in SUBSET Socket /\ wsRef[d] \in Nat
      BY <1>0 DEF ConnType, Closing
    <3>4. Cardinality(timers[d]) \in Nat /\ Cardinality(Closing(d)) \in Nat
      BY <3>3, SocketSets
    <3>5. Slots(d) \in Nat
      BY <3>4 DEF Slots
    <3> QED
      BY <1>0, <1>4, <3>1, <3>2, <3>3, <3>5
  <2> QED
    BY <1>4, <2>1, <2>2 DEF SocketsSuffice
<1>5. CASE effect(c)
  <2>1. ~mounted[c] /\ mounted'[c] /\ connect(c) /\ timers' = timers /\ faults' = faults
    BY <1>0, <1>5 DEF effect, ConnType
  <2>2. Kn <= K /\ wsRef'[c] <= wsRef[c] + 1 /\ Tn = T
    BY <1>0, <2>1, ConnectCounts, SocketSets
  <2> HIDE DEF T, K, Tn, Kn
  <2> QED
    BY <1>0, <1>1, <1>2, <1>3, <2>1, <2>2
<1>6. CASE cleanup(c)
  <2>1. /\ mounted[c] /\ ~mounted'[c] /\ wsRef' = wsRef /\ Fault
        /\ timers'[c] \subseteq timers[c]
    BY <1>0, <1>6 DEF cleanup, ConnType
  <2>2. Closing(c)' \subseteq Closing(c) \cup {wsRef[c]}
    BY <1>0, <1>6 DEF cleanup, ConnType, Closing
  <2>3. Closing(c) \cup {wsRef[c]} \in SUBSET Socket => Kn <= Cardinality(Closing(c) \cup {wsRef[c]})
    BY <2>2, SocketSets
  <2>4. Kn <= K + 1
    <3>1. CASE wsRef[c] \in Socket
      BY <1>0, <1>2, <2>3, <3>1, SocketSets
    <3>2. CASE wsRef[c] \notin Socket
      <4>1. Closing(c)' \subseteq Closing(c)
        BY <1>1, <2>2, <3>2
      <4> QED
        BY <1>0, <1>2, <4>1, SocketSets
    <3> QED
      BY <3>1, <3>2
  <2>5. Tn <= T
    BY <1>0, <2>1, SocketSets
  <2>6. faults' = faults + 1 /\ faults' <= MaxFaults
    BY <1>0, <2>1, FaultCounts
  <2> HIDE DEF T, K, Tn, Kn
  <2> QED
    BY <1>0, <1>1, <1>2, <1>3, <2>1, <2>4, <2>5, <2>6
<1>7. ASSUME NEW k \in Socket, onopen(c, k)
      PROVE  /\ faults' \in Nat /\ faults' <= MaxFaults /\ faults <= faults'
             /\ mounted'[c] => wsRef'[c] + Tn + Kn <= 1 + 2 * faults'
             /\ ~mounted'[c] => wsRef'[c] + Tn + Kn + 1 <= 1 + 2 * faults'
  <2>1. UNCHANGED <<mounted, wsRef, timers, faults>> /\ Closing(c)' \subseteq Closing(c)
    BY <1>0, <1>7 DEF onopen, ConnType, Closing
  <2>2. Kn <= K /\ Tn = T
    BY <1>0, <2>1, SocketSets
  <2> HIDE DEF T, K, Tn, Kn
  <2> QED
    BY <1>0, <1>1, <1>2, <1>3, <2>1, <2>2
<1>8. ASSUME NEW k \in Socket, onclose(c, k)
      PROVE  /\ faults' \in Nat /\ faults' <= MaxFaults /\ faults <= faults'
             /\ mounted'[c] => wsRef'[c] + Tn + Kn <= 1 + 2 * faults'
             /\ ~mounted'[c] => wsRef'[c] + Tn + Kn + 1 <= 1 + 2 * faults'
  <2>1. /\ UNCHANGED <<mounted, wsRef>> /\ timers'[c] = timers[c] \cup {k}
        /\ Closing(c)' = Closing(c) \ {k}
    BY <1>0, <1>8 DEF onclose, ConnType, Closing
  <2>2. Tn <= T + 1
    BY <1>0, <2>1, SocketSets
  <2>3. CASE readyState[c][k] = "CLOSING" /\ UNCHANGED faults
    <3>1. k \in Closing(c)
      BY <2>3 DEF Closing
    <3>2. Kn = K - 1
      BY <1>0, <2>1, <3>1, SocketSets
    <3> HIDE DEF T, K, Tn, Kn
    <3> QED
      BY <1>0, <1>1, <1>2, <1>3, <2>1, <2>2, <2>3, <3>2
  <2>4. CASE Fault
    <3>1. Closing(c)' \subseteq Closing(c)
      BY <2>1
    <3>2. Kn <= K
      BY <1>0, <3>1, SocketSets
    <3>3. faults' = faults + 1 /\ faults' <= MaxFaults
      BY <1>0, <2>4, FaultCounts
    <3> HIDE DEF T, K, Tn, Kn
    <3> QED
      BY <1>0, <1>1, <1>2, <1>3, <2>1, <2>2, <3>2, <3>3
  <2> QED
    BY <1>8, <2>3, <2>4 DEF onclose
<1>9. ASSUME NEW k \in Socket, reconnects(c, k)
      PROVE  /\ faults' \in Nat /\ faults' <= MaxFaults /\ faults <= faults'
             /\ mounted'[c] => wsRef'[c] + Tn + Kn <= 1 + 2 * faults'
             /\ ~mounted'[c] => wsRef'[c] + Tn + Kn + 1 <= 1 + 2 * faults'
  <2>1. /\ UNCHANGED <<mounted, faults>> /\ connect(c) /\ k \in timers[c]
        /\ timers'[c] = timers[c] \ {k}
    BY <1>0, <1>9 DEF reconnects, ConnType
  <2>2. Kn <= K /\ wsRef'[c] <= wsRef[c] + 1 /\ Tn = T - 1
    BY <1>0, <2>1, ConnectCounts, SocketSets
  <2> HIDE DEF T, K, Tn, Kn
  <2> QED
    BY <1>0, <1>1, <1>2, <1>3, <2>1, <2>2
<1> QED
  BY <1>5, <1>6, <1>7, <1>8, <1>9 DEF ConnNext

LEMMA RefIsASocket ==
  ASSUME ConnInv, SocketsSuffice, NEW c \in Client
  PROVE  wsRef[c] = 0 \/ wsRef[c] \in Socket
<1>1. /\ timers[c] \in SUBSET Socket /\ Closing(c) \in SUBSET Socket
      /\ wsRef[c] \in Nat /\ MaxFaults \in Nat /\ faults \in Nat /\ faults <= MaxFaults
  BY ConnectionAssumption DEF ConnInv, ConnType, SocketsSuffice, Closing
<1>2. Cardinality(timers[c]) \in Nat /\ Cardinality(Closing(c)) \in Nat
  BY <1>1, SocketSets
<1>3. Slots(c) \in Nat
  BY <1>2 DEF Slots
<1>4. wsRef[c] <= 1 + 2 * MaxFaults
  BY <1>1, <1>3 DEF SocketsSuffice
<1> QED
  BY <1>1, <1>4 DEF Socket

-----------------------------------------------------------------------------
(* The clients, the gateway and the board.                                 *)

Read == [strokes : Seq(Nat), of : SUBSET Nat, lacks : SUBSET Nat, confirmed : BOOLEAN]
JoinAck == [type : {"join_ack"}, strokes : Seq(Nat), of : SUBSET Nat, lacks : SUBSET Nat,
            confirmed : BOOLEAN]
Notice == [type : {"stroke_broadcast", "error"}, id : Nat]
Phase == {"unsent", "sent", "committed", "limbo", "late", "done"}

FrontendType ==
  /\ events \in Seq(Edit) /\ phase \in Seq(Phase) /\ Len(phase) = Len(events)
  /\ strokes \in [Client -> Seq(Nat)] /\ redoIds \in [Client -> Seq(Nat)]
  /\ archive \in [Client -> SUBSET Nat] /\ pending \in [Client -> SUBSET Nat]
  /\ session \in [Client -> {"none", "joined", "read", "acked"}]
  /\ reading \in [Client -> Read]
  /\ toClient \in [Client -> Seq(JoinAck \cup Notice)]
  /\ seen \in [Client -> SUBSET Nat] /\ disputed \in [Client -> SUBSET Nat]

\* An event has its number, a stroke names itself, and the board holds events.
EventsNumbered ==
  /\ \A e \in Event : events[e].id = e /\ (events[e].action = "stroke" => Target(e) = e)
  /\ \A k \in DOMAIN board.events :
       board.events[k].id \in Event /\ board.events[k] = events[board.events[k].id]

Begins(es, all) == Len(es) <= Len(all) /\ \A k \in DOMAIN es : es[k] = all[k]

\* What a replica has applied is how the board began.
PastOK ==
  /\ board \in past /\ applied \in past
  /\ \A b \in past : BoardOK(b) /\ Begins(b.events, board.events)

\* The gateway has a session and messages for open sockets only.
OpenOnly ==
  \A c \in Client : session[c] /= "none" \/ toClient[c] /= <<>> => IsOpen(c)

\* What the gateway has read for a client was on the board.
ReadsOld ==
  \A c \in Client :
    /\ reading[c].of \cup reading[c].lacks \subseteq Committed
    /\ \A k \in DOMAIN toClient[c] :
         toClient[c][k].type = "join_ack"
           => toClient[c][k].of \cup toClient[c][k].lacks \subseteq Committed

\* Doubles come from the board alone.
DoublesDrawnTwice ==
  \A c \in Client, s \in Nat :
    /\ Double(strokes[c], s) => DrawnTwice(board.events, s)
    /\ Double(reading[c].strokes, s) => DrawnTwice(board.events, s)
    /\ \A k \in DOMAIN toClient[c] :
         toClient[c][k].type = "join_ack" /\ Double(toClient[c][k].strokes, s)
           => DrawnTwice(board.events, s)

\* A rollback is kept for an event that went out on a socket, and an event of the
\* newest one has been shown since it opened.
PendingSent ==
  \A c \in Client : \A e \in pending[c] :
    /\ e \in Event /\ events[e].by = c
    /\ events[e].via \in Socket
    /\ readyState[c][events[e].via] \notin {"none", "CONNECTING"}
    /\ IsOpen(c) /\ events[e].via = wsRef[c] => e \in seen[c]

SeenEvents == \A c \in Client : seen[c] \subseteq Event

\* The gateway reports events, and failures only on the socket they came from.
NoticesOf ==
  \A c \in Client : \A k \in DOMAIN toClient[c] :
    /\ toClient[c][k].type /= "join_ack" => toClient[c][k].id \in Event
    /\ toClient[c][k].type = "error" =>
         /\ events[toClient[c][k].id].via = wsRef[c]
         /\ phase[toClient[c][k].id] \in {"limbo", "late"}

\* The strokes the archive need not have.
Excused(c) == disputed[c] \cup Targets(Unannounced)

\* A rollback that may still be called for finds its stroke.
RollbacksReachable ==
  \A c \in Client : \A e \in pending[c] :
    /\ IsOpen(c) /\ events[e].via = wsRef[c] /\ phase[e] /= "done"
    /\ events[e].action /= "stroke"
    => Target(e) \in archive[c] \cup disputed[c] \/ e \in Committed

ShownReachable ==
  \A c \in Client, s \in Nat :
    Has(strokes[c], s) \/ Has(redoIds[c], s) => s \in archive[c] \cup Excused(c)

FrontendInv ==
  /\ ConnInv /\ SocketsSuffice /\ FrontendType /\ BoardOK(board)
  /\ EventsNumbered /\ PastOK /\ OpenOnly /\ ReadsOld /\ DoublesDrawnTwice
  /\ PendingSent /\ SeenEvents /\ NoticesOf /\ RollbacksReachable /\ ShownReachable

\* Two places hold an element when and only when it is counted more than once.
LEMMA TimesIs ==
  ASSUME NEW T, NEW seq \in Seq(T), NEW x
  PROVE  Times(seq, x) > 1 <=> Double(seq, x)
<1> DEFINE S == {k \in DOMAIN seq : seq[k] = x}
<1>1. DOMAIN seq = 1..Len(seq) /\ Len(seq) \in Nat
  OBVIOUS
<1>2. IsFiniteSet(1..Len(seq))
  BY <1>1, FS_Interval
<1>3. IsFiniteSet(S) /\ Cardinality(S) \in Nat
  BY <1>1, <1>2, FS_Subset, FS_CardinalityType
<1>4. Times(seq, x) = Cardinality(S)
  BY DEF Times
<1>5. Double(seq, x) <=> \E j, k \in S : j /= k
  BY DEF Double
<1> HIDE DEF S
<1>6. ASSUME NEW j \in S, NEW k \in S, j /= k PROVE Cardinality(S) > 1
  <2>1. Cardinality(S) /= 0 /\ Cardinality(S) /= 1
    BY <1>3, <1>6, FS_EmptySet, FS_Singleton
  <2> QED
    BY <1>3, <2>1
<1>7. ASSUME Cardinality(S) > 1 PROVE \E j, k \in S : j /= k
  <2>1. S /= {}
    BY <1>3, <1>7, FS_EmptySet
  <2>2. PICK j \in S : TRUE
    BY <2>1
  <2>3. Cardinality({j}) = 1
    BY FS_Singleton
  <2>4. S /= {j}
    <3> SUFFICES ASSUME S = {j} PROVE FALSE
      OBVIOUS
    <3>1. Cardinality(S) = 1
      BY <2>3
    <3> QED
      BY <1>3, <1>7, <3>1
  <2> QED
    BY <2>2, <2>4
<1> QED
  BY <1>4, <1>5, <1>6, <1>7

\* The properties follow from the invariant.
LEMMA FrontendImplies ==
  ASSUME FrontendInv
  PROVE  VisibleByLastEdit /\ NoDoubles /\ EditsReachable /\ OneLiveSocket
<1>0. /\ events \in Seq(Edit) /\ Event = 1..Len(events) /\ Event \subseteq Nat
      /\ board.events \in Seq(Edit) /\ strokes \in [Client -> Seq(Nat)]
  BY DEF FrontendInv, FrontendType, BoardOK, Event
<1>1. VisibleByLastEdit
  BY <1>0, OnBoardIs DEF FrontendInv, BoardOK, VisibleByLastEdit
<1>2. NoDoubles
  <2> SUFFICES ASSUME NEW c \in Client, NEW s \in Event, Times(strokes[c], s) > 1
               PROVE  Times(board.events, events[s]) > 1
    BY DEF NoDoubles
  <2>1. strokes[c] \in Seq(Nat) /\ s \in Nat
    BY <1>0
  <2>2. Double(strokes[c], s)
    BY <2>1, TimesIs
  <2>3. DrawnTwice(board.events, s)
    BY <2>1, <2>2 DEF FrontendInv, DoublesDrawnTwice
  <2>4. ASSUME NEW k \in DOMAIN board.events, DrawnAt(board.events, s, k)
        PROVE  board.events[k] = events[s]
    BY <2>4 DEF FrontendInv, EventsNumbered, DrawnAt, Target
  <2>5. Double(board.events, events[s])
    BY <2>3, <2>4 DEF DrawnTwice, Double
  <2> QED
    BY <1>0, <2>5, TimesIs
<1>3. EditsReachable
  BY <1>0 DEF FrontendInv, ShownReachable, Excused, EditsReachable
<1>4. OneLiveSocket
  <2> SUFFICES ASSUME NEW c \in Client
               PROVE  Cardinality({k \in Socket : readyState[c][k] \in Live}) <= 1
    BY DEF OneLiveSocket
  <2> DEFINE S == {k \in Socket : readyState[c][k] \in Live}
  <2>1. \A k \in S : k = wsRef[c]
    BY DEF FrontendInv, ConnInv, NewestLive
  <2> HIDE DEF S
  <2>2. CASE S = {}
    BY <2>2, FS_EmptySet DEF S
  <2>3. CASE S /= {}
    <3>1. S = {wsRef[c]}
      BY <2>1, <2>3
    <3>2. Cardinality(S) = 1
      BY <3>1, FS_Singleton
    <3> QED
      BY <3>2 DEF S
  <2> QED
    BY <2>2, <2>3
<1> QED
  BY <1>1, <1>2, <1>3, <1>4

LEMMA FrontendStart == Init => FrontendInv
<1> SUFFICES ASSUME Init PROVE FrontendInv
  OBVIOUS
<1>0. Author \subseteq Client /\ MaxFaults \in Nat /\ Socket \subseteq Nat \ {0} /\ 1 \in Socket
  BY FrontendAssumption, ConnectionAssumption DEF Socket
<1>1. ConnInv
  BY <1>0 DEF Init, ConnInit, ConnInv, ConnType, NewestLive, SocketState, Live
<1>2. SocketsSuffice
  <2>1. ASSUME NEW c \in Client PROVE wsRef[c] + Slots(c) <= 1 + 2 * faults
    <3>1. timers[c] = {} /\ Closing(c) = {} /\ faults = 0
      BY <2>1 DEF Init, ConnInit, Closing
    <3>2. Cardinality({}) = 0
      BY FS_EmptySet
    <3>3. CASE c \in Author
      <4>1. wsRef[c] = 1 /\ mounted[c] = TRUE
        BY <3>3, <2>1 DEF Init, ConnInit
      <4>2. Slots(c) = 0
        BY <3>1, <3>2, <4>1 DEF Slots
      <4> QED
        BY <3>1, <4>1, <4>2
    <3>4. CASE c \notin Author
      <4>1. wsRef[c] = 0
        BY <3>4, <2>1 DEF Init, ConnInit
      <4>2. ~mounted[c]
        BY <3>4, <2>1 DEF Init, ConnInit
      <4>3. Slots(c) = 1
        BY <3>1, <3>2, <4>2 DEF Slots
      <4> QED
        BY <3>1, <4>1, <4>3
    <3> QED
      BY <3>3, <3>4
  <2> QED
    BY <1>0, <2>1 DEF SocketsSuffice, Init, ConnInit
<1>3. FrontendType
  BY EmptySeq DEF Init, FrontendType, noRead, Read
<1>4. BoardOK(board) /\ board.events = <<>>
  BY EmptyBoardOK DEF Init, emptyBoard
<1>p. PastOK
  BY <1>4 DEF Init, PastOK, Begins
<1>5. EventsNumbered /\ ReadsOld
  BY <1>4 DEF Init, EventsNumbered, ReadsOld, Event, noRead
<1>6. OpenOnly
  BY <1>0 DEF Init, ConnInit, OpenOnly, IsOpen, RefState
<1>7. DoublesDrawnTwice
  BY DEF Init, DoublesDrawnTwice, Double, noRead
<1>8. PendingSent /\ SeenEvents /\ NoticesOf /\ RollbacksReachable
  BY DEF Init, PendingSent, SeenEvents, NoticesOf, RollbacksReachable
<1>9. ShownReachable
  BY DEF Init, ShownReachable, Has
<1> QED
  BY <1>1, <1>2, <1>3, <1>4, <1>p, <1>5, <1>6, <1>7, <1>8, <1>9 DEF FrontendInv

\* The board stays.
LEMMA PastKept ==
  ASSUME PastOK, UNCHANGED clusterVars
  PROVE  PastOK'
BY DEF PastOK, Begins, clusterVars

-----------------------------------------------------------------------------
(* The steps of the sockets.                                               *)

\* What a step of c's sockets has to show: the messages that are kept belong to
\* the socket that is still open, and no rollback moves to another socket.
LEMMA SocketKeeps ==
  ASSUME FrontendInv, NEW c \in Client, ConnNext(c), UNCHANGED boardRest,
         session' \in [Client -> {"none", "joined", "read", "acked"}],
         reading' \in [Client -> Read], toClient' \in [Client -> Seq(JoinAck \cup Notice)],
         pending' \in [Client -> SUBSET Nat], seen' \in [Client -> SUBSET Nat],
         \A d \in Client \ {c} : /\ session'[d] = session[d] /\ reading'[d] = reading[d]
                                 /\ toClient'[d] = toClient[d] /\ pending'[d] = pending[d]
                                 /\ seen'[d] = seen[d],
         toClient'[c] \in {toClient[c], <<>>}, reading'[c] \in {reading[c], noRead},
         pending'[c] \subseteq pending[c], seen'[c] \subseteq seen[c],
         session'[c] /= "none" \/ toClient'[c] /= <<>> => IsOpen(c)',
         toClient'[c] /= <<>> => wsRef'[c] = wsRef[c],
         \A e \in pending'[c] :
           /\ readyState'[c][events[e].via] \notin {"none", "CONNECTING"}
           /\ IsOpen(c)' /\ events[e].via = wsRef'[c]
              => IsOpen(c) /\ events[e].via = wsRef[c] /\ e \in seen'[c]
  PROVE  FrontendInv'
<1>0. UNCHANGED <<strokes, redoIds, archive, phase, board, clusterVars, events, disputed, raced>>
  BY DEF boardRest, clusterVars
<1>p. PastOK'
  BY <1>0, PastKept DEF FrontendInv
<1>h. /\ OpenOnly /\ ReadsOld /\ DoublesDrawnTwice /\ PendingSent /\ NoticesOf
      /\ RollbacksReachable /\ ShownReachable
  BY DEF FrontendInv
<1>1. ConnInv' /\ SocketsSuffice'
  BY ConnStep, SlotsStep DEF FrontendInv
<1>2. FrontendType' /\ BoardOK(board)' /\ EventsNumbered'
  BY <1>0 DEF FrontendInv, FrontendType, EventsNumbered, Event, Target
<1>3. \A d \in Client \ {c} : readyState'[d] = readyState[d] /\ wsRef'[d] = wsRef[d]
  BY OthersKept DEF FrontendInv
<1>4. \A d \in Client \ {c} : IsOpen(d)' <=> IsOpen(d)
  BY <1>3 DEF IsOpen, RefState
<1>5. Committed' = Committed /\ Event' = Event
  BY <1>0 DEF Committed, Event
<1>6. OpenOnly'
  BY <1>4, <1>h DEF OpenOnly
<1>7. \A d \in Client : toClient'[d] = toClient[d] \/ toClient'[d] = <<>>
  OBVIOUS
<1>8. \A d \in Client : reading'[d] = reading[d] \/ reading'[d] = noRead
  OBVIOUS
<1>9. ReadsOld'
  <2> SUFFICES ASSUME NEW d \in Client
               PROVE  /\ reading'[d].of \cup reading'[d].lacks \subseteq Committed
                      /\ \A k \in DOMAIN toClient'[d] : toClient'[d][k].type = "join_ack"
                           => toClient'[d][k].of \cup toClient'[d][k].lacks \subseteq Committed
    BY <1>5 DEF ReadsOld
  <2>1. /\ reading[d].of \cup reading[d].lacks \subseteq Committed
        /\ \A k \in DOMAIN toClient[d] : toClient[d][k].type = "join_ack"
             => toClient[d][k].of \cup toClient[d][k].lacks \subseteq Committed
    BY <1>h DEF ReadsOld
  <2>2. noRead.of = {} /\ noRead.lacks = {} /\ DOMAIN <<>> = {}
    BY DEF noRead
  <2>3. reading'[d].of \cup reading'[d].lacks \subseteq Committed
    <3>1. CASE reading'[d] = reading[d]
      BY <2>1, <3>1
    <3>2. CASE reading'[d] = noRead
      BY <2>2, <3>2
    <3> QED
      BY <1>8, <3>1, <3>2
  <2>4. \A k \in DOMAIN toClient'[d] : toClient'[d][k].type = "join_ack"
          => toClient'[d][k].of \cup toClient'[d][k].lacks \subseteq Committed
    <3>1. CASE toClient'[d] = toClient[d]
      BY <2>1, <3>1
    <3>2. CASE toClient'[d] = <<>>
      BY <2>2, <3>2
    <3> QED
      BY <1>7, <3>1, <3>2
  <2> QED
    BY <2>3, <2>4
<1>10. DoublesDrawnTwice'
  <2> SUFFICES ASSUME NEW d \in Client, NEW s \in Nat
               PROVE  /\ Double(strokes[d], s) => DrawnTwice(board.events, s)
                      /\ Double(reading'[d].strokes, s) => DrawnTwice(board.events, s)
                      /\ \A k \in DOMAIN toClient'[d] :
                           toClient'[d][k].type = "join_ack" /\ Double(toClient'[d][k].strokes, s)
                             => DrawnTwice(board.events, s)
    BY <1>0 DEF DoublesDrawnTwice
  <2>1. Double(noRead.strokes, s) => DrawnTwice(board.events, s)
    BY DEF Double, noRead
  <2>2. Double(reading'[d].strokes, s) => DrawnTwice(board.events, s)
    BY <1>8, <2>1, <1>h DEF DoublesDrawnTwice
  <2>3. \A k \in DOMAIN toClient'[d] :
          toClient'[d][k].type = "join_ack" /\ Double(toClient'[d][k].strokes, s)
            => DrawnTwice(board.events, s)
    <3>1. CASE toClient'[d] = toClient[d]
      BY <3>1, <1>h DEF DoublesDrawnTwice
    <3>2. CASE toClient'[d] = <<>>
      BY <3>2
    <3> QED
      BY <1>7, <3>1, <3>2
  <2> QED
    BY <2>2, <2>3, <1>h DEF DoublesDrawnTwice
<1>11. \A d \in Client : pending'[d] \subseteq pending[d]
  OBVIOUS
<1>12. ASSUME NEW d \in Client, NEW e \in pending'[d]
       PROVE  /\ readyState'[d][events[e].via] \notin {"none", "CONNECTING"}
              /\ IsOpen(d)' /\ events[e].via = wsRef'[d]
                 => IsOpen(d) /\ events[e].via = wsRef[d] /\ e \in seen'[d]
  <2>1. CASE d = c
    BY <2>1, <1>12
  <2>2. CASE d /= c
    <3>1. /\ readyState'[d] = readyState[d] /\ wsRef'[d] = wsRef[d] /\ seen'[d] = seen[d]
          /\ e \in pending[d] /\ (IsOpen(d)' => IsOpen(d))
      BY <1>3, <1>4, <1>12, <2>2
    <3>2. /\ readyState[d][events[e].via] \notin {"none", "CONNECTING"}
          /\ IsOpen(d) /\ events[e].via = wsRef[d] => e \in seen[d]
      BY <1>h, <3>1 DEF PendingSent
    <3> QED
      BY <3>1, <3>2
  <2> QED
    BY <2>1, <2>2
<1>13. PendingSent'
  BY <1>0, <1>5, <1>11, <1>12, <1>h DEF PendingSent
<1>14. NoticesOf'
  <2> SUFFICES ASSUME NEW d \in Client, NEW k \in DOMAIN toClient'[d]
               PROVE  /\ toClient'[d][k].type /= "join_ack" => toClient'[d][k].id \in Event
                      /\ toClient'[d][k].type = "error" =>
                           /\ events[toClient'[d][k].id].via = wsRef'[d]
                           /\ phase[toClient'[d][k].id] \in {"limbo", "late"}
    BY <1>0, <1>5 DEF NoticesOf
  <2>1. toClient'[d] = toClient[d] /\ wsRef'[d] = wsRef[d]
    BY <1>3, <1>7
  <2> QED
    BY <2>1, <1>h DEF NoticesOf
<1>15. RollbacksReachable'
  <2> SUFFICES ASSUME NEW d \in Client, NEW e \in pending'[d],
                      IsOpen(d)', events[e].via = wsRef'[d], phase[e] /= "done",
                      events[e].action /= "stroke"
               PROVE  Target(e) \in archive[d] \cup disputed[d] \/ e \in Committed
    BY <1>0, <1>5 DEF RollbacksReachable, Target
  <2> QED
    BY <1>11, <1>12, <1>h DEF RollbacksReachable
<1>16. ShownReachable'
  <2>1. \A d \in Client : Excused(d)' = Excused(d)
    BY <1>0, <1>5 DEF Excused, Targets, Target, Unannounced
  <2> QED
    BY <1>0, <2>1, <1>h DEF ShownReachable
<1>17. SeenEvents'
  BY <1>5 DEF FrontendInv, SeenEvents
<1> QED
  BY <1>1, <1>2, <1>p, <1>6, <1>9, <1>10, <1>13, <1>14, <1>15, <1>16, <1>17 DEF FrontendInv

\* A new socket is not open yet, and the old one is left as it was.
LEMMA ConnectOpens ==
  ASSUME ConnInv, ConnInv', SocketsSuffice, SocketsSuffice', NEW c \in Client, connect(c)
  PROVE  /\ IsOpen(c)' <=> IsOpen(c)
         /\ IsOpen(c) => wsRef'[c] = wsRef[c]
         /\ \A k \in Socket : readyState[c][k] \notin {"none", "CONNECTING"}
                                => readyState'[c][k] = readyState[c][k]
<1>1. CASE UNCHANGED <<wsRef, readyState, status>>
  BY <1>1 DEF IsOpen, RefState
<1>2. CASE /\ RefState(c) \notin Live
           /\ wsRef' = [wsRef EXCEPT ![c] = @ + 1]
           /\ readyState' = [readyState EXCEPT ![c][wsRef[c] + 1] = "CONNECTING"]
  <2>1. wsRef'[c] = wsRef[c] + 1 /\ wsRef[c] \in Nat
    BY <1>2 DEF ConnInv, ConnType
  <2>2. wsRef'[c] \in Socket /\ wsRef'[c] /= 0
    <3>1. /\ timers'[c] \in SUBSET Socket /\ Closing(c)' \in SUBSET Socket /\ faults' \in Nat
          /\ faults' <= MaxFaults /\ wsRef'[c] + Slots(c)' <= 1 + 2 * faults'
      BY DEF ConnInv, ConnType, SocketsSuffice, Closing
    <3>2. Cardinality(timers'[c]) \in Nat /\ Cardinality(Closing(c)') \in Nat
      BY <3>1, SocketSets
    <3>3. Slots(c)' \in Nat
      BY <3>2 DEF Slots
    <3>4. wsRef'[c] <= 1 + 2 * MaxFaults
      BY <2>1, <3>1, <3>3, ConnectionAssumption
    <3> QED
      BY <2>1, <3>4, ConnectionAssumption DEF Socket
  <2>3. \A k \in Socket :
          readyState'[c][k] = IF k = wsRef[c] + 1 THEN "CONNECTING" ELSE readyState[c][k]
    BY <1>2 DEF ConnInv, ConnType
  <2>4. readyState[c][wsRef[c] + 1] = "none"
    BY <2>1, <2>2 DEF ConnInv, NewestLive
  <2> QED
    BY <1>2, <2>1, <2>2, <2>3, <2>4 DEF IsOpen, RefState, Live
<1> QED
  BY <1>1, <1>2 DEF connect

SocketStep(c) ==
  \/ Mounts(c) \/ Unmounts(c)
  \/ \E k \in Socket : Opens(c, k) \/ Closes(c, k) \/ TimerFires(c, k)

LEMMA SocketStepKeeps ==
  ASSUME FrontendInv, NEW c \in Client, SocketStep(c)
  PROVE  FrontendInv'
<1>0. /\ ConnInv /\ SocketsSuffice /\ ConnType /\ FrontendType /\ OpenOnly /\ PendingSent
  BY DEF FrontendInv, ConnInv
<1>1. /\ session \in [Client -> {"none", "joined", "read", "acked"}]
      /\ reading \in [Client -> Read] /\ toClient \in [Client -> Seq(JoinAck \cup Notice)]
      /\ pending \in [Client -> SUBSET Nat] /\ seen \in [Client -> SUBSET Nat]
      /\ noRead \in Read /\ <<>> \in Seq(JoinAck \cup Notice)
  BY <1>0, EmptySeq DEF FrontendType, noRead, Read
<1>2. session[c] /= "none" \/ toClient[c] /= <<>> => IsOpen(c)
  BY <1>0 DEF OpenOnly
<1>3. \A e \in pending[c] :
        /\ events[e].via \in Socket
        /\ readyState[c][events[e].via] \notin {"none", "CONNECTING"}
        /\ IsOpen(c) /\ events[e].via = wsRef[c] => e \in seen[c]
  BY <1>0 DEF PendingSent
<1>4. ConnNext(c) => ConnInv' /\ SocketsSuffice'
  BY <1>0, ConnStep, SlotsStep
<1>5. IsOpen(c) => wsRef[c] \in Socket /\ readyState[c][wsRef[c]] = "OPEN"
  BY <1>0, RefIsASocket DEF IsOpen, RefState
<1>6. ASSUME connect(c), ConnNext(c),
             UNCHANGED <<boardRest, pending, session, reading, toClient, seen>>
      PROVE  FrontendInv'
  <2>1. /\ IsOpen(c)' <=> IsOpen(c)
        /\ IsOpen(c) => wsRef'[c] = wsRef[c]
        /\ \A k \in Socket : readyState[c][k] \notin {"none", "CONNECTING"}
                               => readyState'[c][k] = readyState[c][k]
    BY <1>0, <1>4, <1>6, ConnectOpens
  <2>2. \A e \in pending'[c] :
          /\ readyState'[c][events[e].via] \notin {"none", "CONNECTING"}
          /\ IsOpen(c)' /\ events[e].via = wsRef'[c]
             => IsOpen(c) /\ events[e].via = wsRef[c] /\ e \in seen'[c]
    BY <1>3, <1>6, <2>1
  <2>3. session'[c] /= "none" \/ toClient'[c] /= <<>> => IsOpen(c)'
    BY <1>2, <1>6, <2>1
  <2>4. toClient'[c] /= <<>> => wsRef'[c] = wsRef[c]
    BY <1>2, <1>6, <2>1
  <2> QED
    BY <1>1, <1>6, <2>2, <2>3, <2>4, SocketKeeps
<1>7. CASE Mounts(c)
  BY <1>6, <1>7 DEF Mounts, effect, ConnNext
<1>8. ASSUME NEW k \in Socket, TimerFires(c, k) PROVE FrontendInv'
  <2>1. connect(c) /\ ConnNext(c)
    BY <1>8 DEF TimerFires, reconnects, ConnNext
  <2> QED
    BY <1>6, <1>8, <2>1 DEF TimerFires
<1>9. CASE Unmounts(c)
  <2>1. ConnNext(c) /\ UNCHANGED boardRest /\ seen' = seen
    BY <1>9 DEF Unmounts, ConnNext
  <2>2. /\ session' = [session EXCEPT ![c] = "none"] /\ reading' = [reading EXCEPT ![c] = noRead]
        /\ toClient' = [toClient EXCEPT ![c] = <<>>] /\ pending' = [pending EXCEPT ![c] = {}]
    BY <1>9 DEF Unmounts, SocketGone
  <2>3. /\ session' \in [Client -> {"none", "joined", "read", "acked"}]
        /\ reading' \in [Client -> Read] /\ toClient' \in [Client -> Seq(JoinAck \cup Notice)]
        /\ pending' \in [Client -> SUBSET Nat] /\ seen' \in [Client -> SUBSET Nat]
    BY <1>1, <2>1, <2>2
  <2>4. \A d \in Client \ {c} : /\ session'[d] = session[d] /\ reading'[d] = reading[d]
                                /\ toClient'[d] = toClient[d] /\ pending'[d] = pending[d]
                                /\ seen'[d] = seen[d]
    BY <1>1, <2>1, <2>2
  <2>5. session'[c] = "none" /\ reading'[c] = noRead /\ toClient'[c] = <<>> /\ pending'[c] = {}
    BY <1>1, <2>2
  <2> QED
    BY <2>1, <2>3, <2>4, <2>5, SocketKeeps
<1>10. ASSUME NEW k \in Socket, Opens(c, k) PROVE FrontendInv'
  <2>1. ConnNext(c) /\ UNCHANGED <<boardRest, pending, reading, toClient>>
    BY <1>10 DEF Opens, ConnNext
  <2>2. /\ session' = [session EXCEPT ![c] = "joined"] /\ seen' = [seen EXCEPT ![c] = {}]
        /\ readyState[c][k] = "CONNECTING" /\ wsRef' = wsRef
        /\ readyState' = [readyState EXCEPT ![c][k] = "OPEN"]
    BY <1>10 DEF Opens, onopen
  <2>3. k = wsRef[c]
    BY <1>0, <2>2 DEF ConnInv, NewestLive, Live
  <2>4. \A j \in Socket : readyState'[c][j] = IF j = k THEN "OPEN" ELSE readyState[c][j]
    BY <1>0, <2>2 DEF ConnType
  <2>5. IsOpen(c)'
    <3>1. k /= 0
      BY ConnectionAssumption DEF Socket
    <3> QED
      BY <2>2, <2>3, <2>4, <3>1 DEF IsOpen, RefState
  <2>6. /\ session' \in [Client -> {"none", "joined", "read", "acked"}]
        /\ reading' \in [Client -> Read] /\ toClient' \in [Client -> Seq(JoinAck \cup Notice)]
        /\ pending' \in [Client -> SUBSET Nat] /\ seen' \in [Client -> SUBSET Nat]
    BY <1>1, <2>1, <2>2
  <2>7. \A d \in Client \ {c} : /\ session'[d] = session[d] /\ reading'[d] = reading[d]
                                /\ toClient'[d] = toClient[d] /\ pending'[d] = pending[d]
                                /\ seen'[d] = seen[d]
    BY <1>1, <2>1, <2>2
  <2>8. \A e \in pending'[c] : /\ readyState'[c][events[e].via] \notin {"none", "CONNECTING"}
                               /\ events[e].via /= wsRef'[c]
    BY <1>3, <2>1, <2>2, <2>3, <2>4
  <2> QED
    BY <2>1, <2>2, <2>5, <2>6, <2>7, <2>8, SocketKeeps, ZenonT(60)
<1>11. ASSUME NEW k \in Socket, Closes(c, k) PROVE FrontendInv'
  <2>1. ConnNext(c) /\ UNCHANGED <<boardRest, pending, seen>>
    BY <1>11 DEF Closes, ConnNext
  <2>2. /\ readyState' = [readyState EXCEPT ![c][k] = "CLOSED"] /\ wsRef' = wsRef
    BY <1>11 DEF Closes, onclose
  <2>3. \A j \in Socket : readyState'[c][j] = IF j = k THEN "CLOSED" ELSE readyState[c][j]
    BY <1>0, <2>2 DEF ConnType
  <2>4. IsOpen(c)' => k /= wsRef[c] /\ IsOpen(c)
    <3>1. wsRef[c] = 0 \/ wsRef[c] \in Socket
      BY <1>0, RefIsASocket
    <3> QED
      BY <2>2, <2>3, <3>1 DEF IsOpen, RefState
  <2>5. k /= wsRef[c] /\ IsOpen(c) => IsOpen(c)'
    BY <1>5, <2>2, <2>3 DEF IsOpen, RefState
  <2>6. \A e \in pending'[c] :
          /\ readyState'[c][events[e].via] \notin {"none", "CONNECTING"}
          /\ IsOpen(c)' /\ events[e].via = wsRef'[c]
             => IsOpen(c) /\ events[e].via = wsRef[c] /\ e \in seen'[c]
    BY <1>3, <2>1, <2>2, <2>3, <2>4
  <2>7. CASE k = wsRef[c]
    <3>1. /\ session' = [session EXCEPT ![c] = "none"]
          /\ reading' = [reading EXCEPT ![c] = noRead] /\ toClient' = [toClient EXCEPT ![c] = <<>>]
      BY <1>11, <2>7 DEF Closes, SocketGone
    <3>2. /\ session' \in [Client -> {"none", "joined", "read", "acked"}]
          /\ reading' \in [Client -> Read] /\ toClient' \in [Client -> Seq(JoinAck \cup Notice)]
          /\ pending' \in [Client -> SUBSET Nat] /\ seen' \in [Client -> SUBSET Nat]
      BY <1>1, <2>1, <3>1
    <3>3. \A d \in Client \ {c} : /\ session'[d] = session[d] /\ reading'[d] = reading[d]
                                  /\ toClient'[d] = toClient[d] /\ pending'[d] = pending[d]
                                  /\ seen'[d] = seen[d]
      BY <1>1, <2>1, <3>1
    <3>4. session'[c] = "none" /\ reading'[c] = noRead /\ toClient'[c] = <<>>
      BY <1>1, <3>1
    <3> QED
      BY <2>1, <2>6, <3>2, <3>3, <3>4, SocketKeeps
  <2>8. CASE k /= wsRef[c]
    <3>1. UNCHANGED <<session, reading, toClient>>
      BY <1>11, <2>8 DEF Closes
    <3>2. session'[c] /= "none" \/ toClient'[c] /= <<>> => IsOpen(c)'
      BY <1>2, <2>5, <2>8, <3>1
    <3> QED
      BY <1>1, <2>1, <2>2, <2>6, <3>1, <3>2, SocketKeeps
  <2> QED
    BY <2>7, <2>8
<1> QED
  BY <1>7, <1>8, <1>9, <1>10, <1>11 DEF SocketStep

-----------------------------------------------------------------------------
(* The user.                                                               *)

LEMMA ShownIs ==
  ASSUME NEW cur \in Seq(Nat), NEW event \in Edit, NEW known
  PROVE  LET n == applyStrokeEvent(cur, event, known) IN
         /\ n \in Seq(Nat)
         /\ \A y : Has(n, y) => \/ Has(cur, y)
                                \/ /\ y = event.target
                                   /\ event.action = "redo_stroke" => y \in known
                                   /\ event.action /= "undo_stroke"
         /\ \A y : Double(n, y) => Double(cur, y)
<1> DEFINE s == event.target
           n == applyStrokeEvent(cur, event, known)
<1>0. s \in Nat /\ event.action \in {"stroke", "undo_stroke", "redo_stroke"}
  BY DEF Edit, Action
<1>1. CASE event.action = "undo_stroke"
  <2>1. n = Without(cur, s)
    BY <1>1 DEF applyStrokeEvent
  <2> QED
    BY <2>1, WithoutHas
<1>2. CASE event.action /= "undo_stroke"
  <2>1. CASE n = cur
    BY <2>1
  <2>2. CASE n /= cur
    <3>1. n = Append(cur, s) /\ ~Has(cur, s) /\ (event.action = "redo_stroke" => s \in known)
      BY <1>0, <1>2, <2>2 DEF applyStrokeEvent
    <3>2. /\ n \in Seq(Nat) /\ \A y : Has(n, y) <=> Has(cur, y) \/ y = s
          /\ \A y : Double(n, y) <=> Double(cur, y) \/ (y = s /\ Has(cur, y))
      BY <1>0, <3>1, AppendedHas
    <3> HIDE DEF n, s
    <3>3. \A y : Double(n, y) => Double(cur, y)
      BY <3>1, <3>2
    <3>4. \A y : Has(n, y) => \/ Has(cur, y)
                              \/ /\ y = s
                                 /\ event.action = "redo_stroke" => y \in known
                                 /\ event.action /= "undo_stroke"
      BY <1>2, <3>1, <3>2
    <3> QED
      BY <3>2, <3>3, <3>4 DEF n, s
  <2> QED
    BY <2>1, <2>2
<1> QED
  BY <1>1, <1>2

LEMMA RolledBackIs ==
  ASSUME NEW cur \in Seq(Nat), NEW event \in Edit
  PROVE  LET n == rolledBack(cur, event) IN
         /\ n \in Seq(Nat)
         /\ \A y : Has(n, y) => Has(cur, y) \/ (y = event.target /\ event.action = "undo_stroke")
         /\ \A y : Double(n, y) => Double(cur, y)
<1> DEFINE s == event.target
           n == rolledBack(cur, event)
<1>0. s \in Nat
  BY DEF Edit
<1>1. CASE event.action /= "undo_stroke"
  <2>1. n = Without(cur, s)
    BY <1>1 DEF rolledBack
  <2> QED
    BY <2>1, WithoutHas
<1>2. CASE event.action = "undo_stroke" /\ Has(cur, s)
  <2>1. n = cur
    BY <1>2 DEF rolledBack
  <2> QED
    BY <2>1
<1>3. CASE event.action = "undo_stroke" /\ ~Has(cur, s)
  <2>1. n = Append(cur, s)
    BY <1>3 DEF rolledBack
  <2>2. /\ n \in Seq(Nat) /\ \A y : Has(n, y) <=> Has(cur, y) \/ y = s
        /\ \A y : Double(n, y) <=> Double(cur, y) \/ (y = s /\ Has(cur, y))
    BY <1>0, <2>1, AppendedHas
  <2> HIDE DEF n, s
  <2>3. \A y : Double(n, y) => Double(cur, y)
    BY <1>3, <2>2
  <2>4. \A y : Has(n, y) => Has(cur, y) \/ (y = s /\ event.action = "undo_stroke")
    BY <1>3, <2>2
  <2> QED
    BY <2>2, <2>3, <2>4 DEF n, s
<1> QED
  BY <1>1, <1>2, <1>3

LEMMA RedoRolledBackIs ==
  ASSUME NEW ids \in Seq(Nat), NEW event \in Edit
  PROVE  LET n == redoRolledBack(ids, event) IN
         /\ n \in Seq(Nat)
         /\ \A y : Has(n, y) => Has(ids, y) \/ (y = event.target /\ event.action = "redo_stroke")
<1> DEFINE s == event.target
           n == redoRolledBack(ids, event)
<1>0. s \in Nat /\ event.action \in {"stroke", "undo_stroke", "redo_stroke"}
  BY DEF Edit, Action
<1>1. CASE event.action = "undo_stroke"
  <2>1. n = Without(ids, s)
    BY <1>1 DEF redoRolledBack
  <2> QED
    BY <2>1, WithoutHas
<1>2. CASE event.action = "redo_stroke"
  <2>1. n = Append(ids, s)
    BY <1>2 DEF redoRolledBack
  <2> QED
    BY <1>0, <1>2, <2>1, AppendedHas
<1>3. CASE event.action = "stroke"
  <2>1. n = ids
    BY <1>3 DEF redoRolledBack
  <2> QED
    BY <2>1
<1> QED
  BY <1>0, <1>1, <1>2, <1>3

\* What a step may leave alone: the sockets, and the events that were there.
LEMMA SocketsUnchanged ==
  ASSUME ConnInv, SocketsSuffice, UNCHANGED connVars, UNCHANGED faults
  PROVE  /\ ConnInv' /\ SocketsSuffice'
         /\ \A d \in Client : (IsOpen(d)' <=> IsOpen(d)) /\ wsRef'[d] = wsRef[d]
         /\ readyState' = readyState
<1>0. UNCHANGED <<mounted, readyState, wsRef, timers>>
  BY DEF connVars
<1> QED
  BY <1>0 DEF ConnInv, ConnType, NewestLive, SocketsSuffice, Slots, Closing, IsOpen, RefState

\* Target(e) names events, of the new state when it is primed.
LEMMA EventAdded ==
  ASSUME FrontendType, EventsNumbered, NEW event \in Edit, NEW p \in Phase,
         event.id = Len(events) + 1,
         events' = Append(events, event), phase' = Append(phase, p), UNCHANGED board
  PROVE  /\ events' \in Seq(Edit) /\ phase' \in Seq(Phase) /\ Len(phase') = Len(events')
         /\ Event' = Event \cup {event.id} /\ event.id \notin Event
         /\ \A e \in Event : events'[e] = events[e] /\ phase'[e] = phase[e]
                               /\ Target(e)' = Target(e)
         /\ events'[event.id] = event /\ Target(event.id)' = event.target
         /\ Committed' = Committed /\ Committed \subseteq Event
         /\ Targets(Unannounced)' = Targets(Unannounced)
<1> DEFINE L == Len(events)
<1>0. /\ L \in Nat /\ events \in Seq(Edit) /\ phase \in Seq(Phase) /\ Len(phase) = L
      /\ Event = 1..L
  BY DEF FrontendType, Event
<1>1. events' \in Seq(Edit) /\ phase' \in Seq(Phase) /\ Len(phase') = Len(events')
  BY <1>0
<1>2. Event' = 1..(L + 1)
  BY <1>0 DEF Event
<1>3. Event' = Event \cup {event.id} /\ event.id \notin Event
  BY <1>0, <1>2
<1>4. \A e \in Event : events'[e] = events[e] /\ phase'[e] = phase[e]
  BY <1>0
<1>5. events'[event.id] = event
  BY <1>0
<1>6. Committed' = Committed /\ Committed \subseteq Event
  BY DEF Committed, EventsNumbered
<1>7. Unannounced' = Unannounced /\ Unannounced \subseteq Event
  BY <1>4, <1>6 DEF Unannounced
<1>8. Targets(Unannounced)' = Targets(Unannounced)
  BY <1>4, <1>7 DEF Targets, Target
<1> QED
  BY <1>1, <1>3, <1>4, <1>5, <1>6, <1>8 DEF Target

\* An edit of a stroke that the archive has.
LEMMA SubmitKeeps ==
  ASSUME FrontendInv, NEW c \in Client, NEW event \in Edit,
         event.id = Len(events) + 1, event.by = c, event.via = wsRef[c],
         event.action = "stroke" => event.target = event.id,
         archive' \in [Client -> SUBSET Nat],
         \A d \in Client : archive[d] \subseteq archive'[d], event.target \in archive'[c],
         NEW shown \in Seq(Nat), NEW redo \in Seq(Nat),
         \A y : Has(shown, y) => Has(strokes[c], y) \/ y = event.target,
         \A y : Double(shown, y) => Double(strokes[c], y),
         \A y : Has(redo, y) => Has(redoIds[c], y) \/ y = event.target,
         submitStrokeMessage(c, event, shown, redo)
  PROVE  FrontendInv'
<1> DEFINE n == event.id
<1>0. /\ FrontendType /\ ConnInv /\ SocketsSuffice /\ BoardOK(board) /\ EventsNumbered /\ OpenOnly
      /\ ReadsOld /\ DoublesDrawnTwice /\ PendingSent /\ SeenEvents /\ NoticesOf
      /\ RollbacksReachable /\ ShownReachable
  BY DEF FrontendInv
<1>1. /\ events' = Append(events, event)
      /\ UNCHANGED <<connVars, faults, session, reading, toClient, board, clusterVars, disputed>>
  BY DEF submitStrokeMessage, clusterVars
<1>p. PastOK'
  BY <1>1, PastKept DEF FrontendInv
<1>2. PICK p \in {"sent", "unsent"} : phase' = Append(phase, p)
  BY DEF submitStrokeMessage
<1>3. /\ events' \in Seq(Edit) /\ phase' \in Seq(Phase) /\ Len(phase') = Len(events')
      /\ Event' = Event \cup {n} /\ n \notin Event
      /\ \A e \in Event : events'[e] = events[e] /\ phase'[e] = phase[e]
                            /\ Target(e)' = Target(e)
      /\ events'[n] = event /\ Target(n)' = event.target
      /\ Committed' = Committed /\ Committed \subseteq Event
      /\ Targets(Unannounced)' = Targets(Unannounced)
  BY <1>0, <1>1, <1>2, EventAdded DEF Phase
<1>4. /\ ConnInv' /\ SocketsSuffice' /\ readyState' = readyState
      /\ \A d \in Client : (IsOpen(d)' <=> IsOpen(d)) /\ wsRef'[d] = wsRef[d]
  BY <1>0, <1>1, SocketsUnchanged
<1>5. PICK cur \in Seq(Nat), ids \in Seq(Nat) :
        /\ strokes' = [strokes EXCEPT ![c] = cur] /\ redoIds' = [redoIds EXCEPT ![c] = ids]
        /\ \A y : Has(cur, y) \/ Has(ids, y)
                    => Has(strokes[c], y) \/ Has(redoIds[c], y) \/ y = event.target
        /\ \A y : Double(cur, y) => Double(strokes[c], y)
  <2>1. CASE IsOpen(c)
    BY <2>1 DEF submitStrokeMessage
  <2>2. CASE ~IsOpen(c)
    <3>1. /\ strokes' = [strokes EXCEPT ![c] = rolledBack(shown, event)]
          /\ redoIds' = [redoIds EXCEPT ![c] = redoRolledBack(redo, event)]
      BY <2>2 DEF submitStrokeMessage
    <3>2. /\ rolledBack(shown, event) \in Seq(Nat)
          /\ \A y : Has(rolledBack(shown, event), y) => Has(shown, y) \/ y = event.target
          /\ \A y : Double(rolledBack(shown, event), y) => Double(shown, y)
      BY RolledBackIs
    <3>3. /\ redoRolledBack(redo, event) \in Seq(Nat)
          /\ \A y : Has(redoRolledBack(redo, event), y) => Has(redo, y) \/ y = event.target
      BY RedoRolledBackIs
    <3> QED
      BY <3>1, <3>2, <3>3
  <2> QED
    BY <2>1, <2>2
<1>6. /\ pending' \in [Client -> SUBSET Nat] /\ seen' \in [Client -> SUBSET Nat]
      /\ \A d \in Client : \A e \in pending'[d] :
           e \in pending[d] \/ (d = c /\ e = n /\ IsOpen(c) /\ n \in seen'[c])
      /\ \A d \in Client : seen[d] \subseteq seen'[d] /\ seen'[d] \subseteq seen[d] \cup {n}
  <2>0. pending \in [Client -> SUBSET Nat] /\ seen \in [Client -> SUBSET Nat] /\ n \in Nat
    BY <1>0 DEF FrontendType, Edit
  <2>1. CASE IsOpen(c)
    <3>1. pending' = [pending EXCEPT ![c] = @ \cup {n}] /\ seen' = [seen EXCEPT ![c] = @ \cup {n}]
      BY <2>1 DEF submitStrokeMessage
    <3> HIDE DEF n
    <3> QED
      BY <2>0, <2>1, <3>1
  <2>2. CASE ~IsOpen(c)
    <3>1. UNCHANGED <<pending, seen>>
      BY <2>2 DEF submitStrokeMessage
    <3> QED
      BY <2>0, <3>1
  <2> QED
    BY <2>1, <2>2
<1> HIDE DEF n
<1>7. strokes \in [Client -> Seq(Nat)] /\ redoIds \in [Client -> Seq(Nat)]
  BY <1>0 DEF FrontendType
<1>8. FrontendType'
  BY <1>0, <1>1, <1>3, <1>5, <1>6 DEF FrontendType
<1>9. BoardOK(board)'
  BY <1>0, <1>1
<1>10. EventsNumbered'
  <2>1. \A e \in Event' : events'[e].id = e /\ (events'[e].action = "stroke" => Target(e)' = e)
    BY <1>0, <1>3 DEF EventsNumbered, n
  <2>2. \A k \in DOMAIN board.events : /\ board.events[k].id \in Event'
                                       /\ board.events[k] = events'[board.events[k].id]
    BY <1>0, <1>3 DEF EventsNumbered
  <2> QED
    BY <1>1, <2>1, <2>2 DEF EventsNumbered
<1>11. OpenOnly' /\ ReadsOld'
  BY <1>0, <1>1, <1>3, <1>4 DEF OpenOnly, ReadsOld
<1>12. DoublesDrawnTwice'
  <2>1. \A d \in Client, s \in Nat : Double(strokes'[d], s) => DrawnTwice(board.events, s)
    BY <1>0, <1>5, <1>7 DEF DoublesDrawnTwice
  <2> QED
    BY <1>0, <1>1, <2>1 DEF DoublesDrawnTwice
<1>13. PendingSent'
  <2> SUFFICES ASSUME NEW d \in Client, NEW e \in pending'[d]
               PROVE  /\ e \in Event' /\ events'[e].by = d
                      /\ events'[e].via \in Socket
                      /\ readyState[d][events'[e].via] \notin {"none", "CONNECTING"}
                      /\ IsOpen(d) /\ events'[e].via = wsRef[d] => e \in seen'[d]
    BY <1>4 DEF PendingSent
  <2>1. CASE e \in pending[d]
    <3>1. e \in Event /\ events'[e] = events[e]
      BY <1>0, <1>3, <2>1 DEF PendingSent
    <3>2. /\ events[e].by = d /\ events[e].via \in Socket
          /\ readyState[d][events[e].via] \notin {"none", "CONNECTING"}
          /\ IsOpen(d) /\ events[e].via = wsRef[d] => e \in seen[d]
      BY <1>0, <2>1 DEF PendingSent
    <3> QED
      BY <1>3, <1>6, <3>1, <3>2
  <2>2. CASE d = c /\ e = n /\ IsOpen(c) /\ n \in seen'[c]
    <3>1. events'[e].by = d /\ events'[e].via = wsRef[c]
      BY <1>3, <2>2
    <3>2. wsRef[c] \in Socket /\ readyState[c][wsRef[c]] = "OPEN"
      BY <1>0, <2>2, RefIsASocket DEF IsOpen, RefState
    <3> QED
      BY <1>3, <2>2, <3>1, <3>2
  <2> QED
    BY <1>6, <2>1, <2>2
<1>14. NoticesOf'
  <2> SUFFICES ASSUME NEW d \in Client, NEW k \in DOMAIN toClient[d],
                      toClient[d][k].type /= "join_ack"
               PROVE  /\ toClient[d][k].id \in Event'
                      /\ toClient[d][k].type = "error" =>
                           /\ events'[toClient[d][k].id].via = wsRef[d]
                           /\ phase'[toClient[d][k].id] \in {"limbo", "late"}
    BY <1>1, <1>4 DEF NoticesOf
  <2>1. toClient[d][k].id \in Event
    BY <1>0 DEF NoticesOf
  <2>2. toClient[d][k].type = "error" => /\ events[toClient[d][k].id].via = wsRef[d]
                                         /\ phase[toClient[d][k].id] \in {"limbo", "late"}
    BY <1>0 DEF NoticesOf
  <2>3. /\ events'[toClient[d][k].id] = events[toClient[d][k].id]
        /\ phase'[toClient[d][k].id] = phase[toClient[d][k].id]
    BY <1>3, <2>1
  <2> QED
    BY <1>3, <2>1, <2>2, <2>3
<1>15. RollbacksReachable'
  <2> SUFFICES ASSUME NEW d \in Client, NEW e \in pending'[d],
                      IsOpen(d), events'[e].via = wsRef[d], phase'[e] /= "done",
                      events'[e].action /= "stroke"
               PROVE  Target(e)' \in archive'[d] \cup disputed[d] \/ e \in Committed
    BY <1>1, <1>3, <1>4 DEF RollbacksReachable
  <2>1. CASE e \in pending[d]
    <3>1. e \in Event /\ events'[e] = events[e] /\ phase'[e] = phase[e] /\ Target(e)' = Target(e)
      BY <1>0, <1>3, <2>1 DEF PendingSent
    <3>2. Target(e) \in archive[d] \cup disputed[d] \/ e \in Committed
      BY <1>0, <2>1, <3>1 DEF RollbacksReachable
    <3> QED
      BY <3>1, <3>2
  <2>2. CASE d = c /\ e = n
    BY <1>3, <2>2
  <2> QED
    BY <1>6, <2>1, <2>2
<1>16. ShownReachable'
  <2>1. \A d \in Client : Excused(d)' = Excused(d)
    BY <1>1, <1>3 DEF Excused
  <2> SUFFICES ASSUME NEW d \in Client, NEW s \in Nat, Has(strokes'[d], s) \/ Has(redoIds'[d], s)
               PROVE  s \in archive'[d] \cup Excused(d)
    BY <2>1 DEF ShownReachable
  <2>2. CASE d = c
    <3>1. Has(strokes[c], s) \/ Has(redoIds[c], s) \/ s = event.target
      BY <1>5, <1>7, <2>2
    <3> QED
      BY <1>0, <2>2, <3>1 DEF ShownReachable
  <2>3. CASE d /= c
    <3>1. strokes'[d] = strokes[d] /\ redoIds'[d] = redoIds[d]
      BY <1>5, <1>7, <2>3
    <3> QED
      BY <1>0, <3>1 DEF ShownReachable
  <2> QED
    BY <2>2, <2>3
<1>17. SeenEvents'
  BY <1>0, <1>3, <1>6 DEF SeenEvents
<1> QED
  BY <1>4, <1>8, <1>9, <1>p, <1>10, <1>11, <1>12, <1>13, <1>14, <1>15, <1>16, <1>17
  DEF FrontendInv

UserStep(c) == addStroke(c) \/ undoLastStroke(c) \/ redoLastStroke(c)

LEMMA UserStepKeeps ==
  ASSUME FrontendInv, NEW c \in Client, UserStep(c)
  PROVE  FrontendInv'
<1>0. /\ events \in Seq(Edit) /\ Len(events) + 1 \in Nat /\ wsRef[c] \in Nat
      /\ strokes[c] \in Seq(Nat) /\ redoIds[c] \in Seq(Nat)
      /\ archive \in [Client -> SUBSET Nat]
  BY DEF FrontendInv, FrontendType, ConnInv, ConnType
<1>1. ASSUME NEW a \in Action, NEW s \in Nat
      PROVE  LET event == NewEvent(c, a, s) IN
             /\ event \in Edit /\ event.id = Len(events) + 1 /\ event.by = c
             /\ event.via = wsRef[c] /\ event.action = a /\ event.target = s
  BY <1>0, <1>1 DEF NewEvent, Edit
<1>2. ASSUME NEW event \in Edit, NEW known
      PROVE  /\ applyStrokeEvent(strokes[c], event, known) \in Seq(Nat)
             /\ \A y : Has(applyStrokeEvent(strokes[c], event, known), y)
                         => Has(strokes[c], y) \/ y = event.target
             /\ \A y : Double(applyStrokeEvent(strokes[c], event, known), y)
                         => Double(strokes[c], y)
  BY <1>0, <1>2, ShownIs
<1>3. CASE addStroke(c)
  <2> DEFINE event == NewEvent(c, "stroke", Len(events) + 1)
             shown == applyStrokeEvent(strokes[c], event, archive'[c])
  <2>1. /\ event \in Edit /\ event.id = Len(events) + 1 /\ event.by = c
        /\ event.via = wsRef[c] /\ event.action = "stroke" /\ event.target = Len(events) + 1
    BY <1>0, <1>1 DEF Action
  <2>2. /\ archive' = [archive EXCEPT ![c] = @ \cup {event.id}]
        /\ submitStrokeMessage(c, event, shown, <<>>)
    BY <1>3 DEF addStroke
  <2>3. /\ shown \in Seq(Nat) /\ \A y : Has(shown, y) => Has(strokes[c], y) \/ y = event.target
        /\ \A y : Double(shown, y) => Double(strokes[c], y)
    BY <1>2, <2>1
  <2> HIDE DEF event, shown
  <2>4. /\ archive' \in [Client -> SUBSET Nat] /\ \A d \in Client : archive[d] \subseteq archive'[d]
        /\ event.target \in archive'[c]
    BY <1>0, <2>1, <2>2
  <2>5. <<>> \in Seq(Nat) /\ \A y : ~Has(<<>>, y)
    BY EmptySeq DEF Has
  <2> QED
    BY <2>1, <2>2, <2>3, <2>4, <2>5, SubmitKeeps
<1>4. CASE undoLastStroke(c)
  <2>1. PICK k \in OwnVisible(c) :
          LET s == strokes[c][k]
              event == NewEvent(c, "undo_stroke", s)
          IN  /\ s \in archive[c]
              /\ submitStrokeMessage(c, event, applyStrokeEvent(strokes[c], event, archive[c]),
                                     Append(redoIds[c], s))
    BY <1>4 DEF undoLastStroke
  <2> DEFINE s == strokes[c][k]
             event == NewEvent(c, "undo_stroke", s)
             shown == applyStrokeEvent(strokes[c], event, archive[c])
  <2>2. s \in archive[c] /\ submitStrokeMessage(c, event, shown, Append(redoIds[c], s))
    BY <2>1
  <2>3. archive' = archive /\ s \in Nat
    BY <1>0, <1>4, <2>2 DEF undoLastStroke
  <2>4. /\ event \in Edit /\ event.id = Len(events) + 1 /\ event.by = c
        /\ event.via = wsRef[c] /\ event.action = "undo_stroke" /\ event.target = s
    BY <1>1, <2>3 DEF Action
  <2>5. /\ shown \in Seq(Nat) /\ \A y : Has(shown, y) => Has(strokes[c], y) \/ y = event.target
        /\ \A y : Double(shown, y) => Double(strokes[c], y)
    BY <1>2, <2>4
  <2> HIDE DEF event, shown, s
  <2>6. /\ Append(redoIds[c], s) \in Seq(Nat)
        /\ \A y : Has(Append(redoIds[c], s), y) => Has(redoIds[c], y) \/ y = event.target
    BY <1>0, <2>3, <2>4, AppendedHas
  <2> QED
    BY <1>0, <2>2, <2>3, <2>4, <2>5, <2>6, SubmitKeeps
<1>5. CASE redoLastStroke(c)
  <2> DEFINE n == Len(redoIds[c])
             s == redoIds[c][n]
             event == NewEvent(c, "redo_stroke", s)
             shown == applyStrokeEvent(strokes[c], event, archive[c])
             redo == SubSeq(redoIds[c], 1, n - 1)
  <2>1. /\ redoIds[c] /= <<>> /\ event.target \in archive[c] /\ archive' = archive
        /\ submitStrokeMessage(c, event, shown, redo)
    BY <1>5 DEF redoLastStroke
  <2>2. n \in Nat \ {0} /\ s \in Nat
    BY <1>0, <2>1
  <2>3. /\ event \in Edit /\ event.id = Len(events) + 1 /\ event.by = c
        /\ event.via = wsRef[c] /\ event.action = "redo_stroke" /\ event.target = s
    BY <1>1, <2>2 DEF Action
  <2>4. /\ shown \in Seq(Nat) /\ \A y : Has(shown, y) => Has(strokes[c], y) \/ y = event.target
        /\ \A y : Double(shown, y) => Double(strokes[c], y)
    BY <1>2, <2>3
  <2>5. /\ redo \in Seq(Nat) /\ DOMAIN redo \subseteq DOMAIN redoIds[c]
        /\ \A j \in DOMAIN redo : redo[j] = redoIds[c][j]
    <3> DEFINE q == redoIds[c]
    <3>1. q \in Seq(Nat) /\ DOMAIN q = 1..n /\ \A i \in 1..(n - 1) : q[i] \in Nat
      BY <1>0, <2>2, SMTT(60)
    <3> HIDE DEF q, n
    <3>2. /\ SubSeq(q, 1, n - 1) \in Seq(Nat) /\ Len(SubSeq(q, 1, n - 1)) = n - 1
          /\ \A i \in 1..(n - 1) : SubSeq(q, 1, n - 1)[i] = q[i]
      <4>1. 1 \in Int /\ n - 1 \in Int
        BY <2>2
      <4>2. /\ SubSeq(q, 1, n - 1) \in Seq(Nat)
            /\ Len(SubSeq(q, 1, n - 1)) = IF 1 <= n - 1 THEN (n - 1) - 1 + 1 ELSE 0
            /\ \A i \in 1..((n - 1) - 1 + 1) : SubSeq(q, 1, n - 1)[i] = q[1 + i - 1]
        BY <3>1, <4>1, SubSeqProperties
      <4> QED
        BY <2>2, <4>2
    <3>3. DOMAIN SubSeq(q, 1, n - 1) = 1..(n - 1) /\ 1..(n - 1) \subseteq 1..n
      BY <2>2, <3>2
    <3>4. redo = SubSeq(q, 1, n - 1)
      BY DEF q
    <3> QED
      BY <3>1, <3>2, <3>3, <3>4 DEF q
  <2> HIDE DEF event, shown, s, redo, n
  <2>6. \A y : Has(redo, y) => Has(redoIds[c], y) \/ y = event.target
    BY <2>5 DEF Has
  <2> QED
    BY <1>0, <2>1, <2>2, <2>3, <2>4, <2>5, <2>6, SubmitKeeps
<1> QED
  BY <1>3, <1>4, <1>5 DEF UserStep

-----------------------------------------------------------------------------
(* The messages that a client handles.                                     *)

LEMMA ClientKeeps ==
  ASSUME FrontendInv, NEW c \in Client,
         UNCHANGED <<connVars, faults, session, reading, phase, clusterVars, board, events>>,
         strokes' \in [Client -> Seq(Nat)], redoIds' \in [Client -> Seq(Nat)],
         archive' \in [Client -> SUBSET Nat], pending' \in [Client -> SUBSET Nat],
         seen' \in [Client -> SUBSET Nat], disputed' \in [Client -> SUBSET Nat],
         toClient' \in [Client -> Seq(JoinAck \cup Notice)],
         \A d \in Client \ {c} :
           /\ strokes'[d] = strokes[d] /\ redoIds'[d] = redoIds[d] /\ archive'[d] = archive[d]
           /\ pending'[d] = pending[d] /\ seen'[d] = seen[d] /\ disputed'[d] = disputed[d]
           /\ toClient'[d] = toClient[d],
         \A k \in DOMAIN toClient'[c] : \E j \in DOMAIN toClient[c] :
           toClient'[c][k] = toClient[c][j],
         toClient'[c] /= <<>> => toClient[c] /= <<>>,
         pending'[c] \subseteq pending[c],
         seen[c] \subseteq seen'[c], seen'[c] \subseteq Event,
         \A s \in Nat : Double(strokes'[c], s) => DrawnTwice(board.events, s),
         \A e \in pending'[c] :
           IsOpen(c) /\ events[e].via = wsRef[c] /\ phase[e] /= "done" /\ events[e].action /= "stroke"
             => Target(e) \in archive'[c] \cup disputed'[c] \/ e \in Committed,
         \A s \in Nat : Has(strokes'[c], s) \/ Has(redoIds'[c], s)
                          => s \in archive'[c] \cup disputed'[c] \cup Targets(Unannounced)
  PROVE  FrontendInv'
<1>0. /\ FrontendType /\ ConnInv /\ SocketsSuffice /\ BoardOK(board) /\ EventsNumbered /\ OpenOnly
      /\ ReadsOld /\ DoublesDrawnTwice /\ PendingSent /\ SeenEvents /\ NoticesOf
      /\ RollbacksReachable /\ ShownReachable
  BY DEF FrontendInv
<1>1. /\ ConnInv' /\ SocketsSuffice' /\ readyState' = readyState
      /\ \A d \in Client : (IsOpen(d)' <=> IsOpen(d)) /\ wsRef'[d] = wsRef[d]
  BY <1>0, SocketsUnchanged
<1>2. Committed' = Committed /\ Event' = Event /\ Targets(Unannounced)' = Targets(Unannounced)
      /\ \A e : Target(e)' = Target(e)
  BY DEF Committed, Event, Targets, Target, Unannounced
<1>3. FrontendType'
  BY <1>0 DEF FrontendType
<1>4. BoardOK(board)' /\ EventsNumbered'
  BY <1>0, <1>2 DEF EventsNumbered
<1>5. ASSUME NEW d \in Client, NEW k \in DOMAIN toClient'[d]
      PROVE  \E j \in DOMAIN toClient[d] : toClient'[d][k] = toClient[d][j]
  <2>1. CASE d = c
    BY <1>5, <2>1
  <2>2. CASE d /= c
    <3>1. toClient'[d] = toClient[d]
      BY <2>2
    <3> QED
      BY <1>5, <3>1
  <2> QED
    BY <2>1, <2>2
<1>6. OpenOnly'
  <2> SUFFICES ASSUME NEW d \in Client, session[d] /= "none" \/ toClient'[d] /= <<>>
               PROVE  IsOpen(d)
    BY <1>1 DEF OpenOnly
  <2>1. toClient'[d] /= <<>> => toClient[d] /= <<>>
    OBVIOUS
  <2> QED
    BY <1>0, <2>1 DEF OpenOnly
<1>7. ReadsOld'
  <2> SUFFICES ASSUME NEW d \in Client, NEW k \in DOMAIN toClient'[d],
                      toClient'[d][k].type = "join_ack"
               PROVE  toClient'[d][k].of \cup toClient'[d][k].lacks \subseteq Committed
    BY <1>0, <1>2 DEF ReadsOld
  <2>1. PICK j \in DOMAIN toClient[d] : toClient'[d][k] = toClient[d][j]
    BY <1>5
  <2>2. toClient[d][j].type = "join_ack"
          => toClient[d][j].of \cup toClient[d][j].lacks \subseteq Committed
    BY <1>0 DEF ReadsOld
  <2> QED
    BY <2>1, <2>2
<1>8. DoublesDrawnTwice'
  <2> SUFFICES ASSUME NEW d \in Client, NEW s \in Nat
               PROVE  /\ Double(strokes'[d], s) => DrawnTwice(board.events, s)
                      /\ Double(reading[d].strokes, s) => DrawnTwice(board.events, s)
                      /\ \A k \in DOMAIN toClient'[d] :
                           toClient'[d][k].type = "join_ack" /\ Double(toClient'[d][k].strokes, s)
                             => DrawnTwice(board.events, s)
    BY DEF DoublesDrawnTwice
  <2>1. Double(strokes'[d], s) => DrawnTwice(board.events, s)
    BY <1>0 DEF DoublesDrawnTwice
  <2>2. Double(reading[d].strokes, s) => DrawnTwice(board.events, s)
    BY <1>0 DEF DoublesDrawnTwice
  <2>3. ASSUME NEW k \in DOMAIN toClient'[d], toClient'[d][k].type = "join_ack",
               Double(toClient'[d][k].strokes, s)
        PROVE  DrawnTwice(board.events, s)
    <3>1. PICK j \in DOMAIN toClient[d] : toClient'[d][k] = toClient[d][j]
      BY <1>5, <2>3
    <3>2. toClient[d][j].type = "join_ack" /\ Double(toClient[d][j].strokes, s)
            => DrawnTwice(board.events, s)
      BY <1>0 DEF DoublesDrawnTwice
    <3> QED
      BY <2>3, <3>1, <3>2
  <2> QED
    BY <2>1, <2>2, <2>3
<1>9. \A d \in Client : pending'[d] \subseteq pending[d] /\ seen[d] \subseteq seen'[d]
  OBVIOUS
<1>10. PendingSent'
  <2> SUFFICES ASSUME NEW d \in Client, NEW e \in pending'[d]
               PROVE  /\ e \in Event /\ events[e].by = d
                      /\ events[e].via \in Socket
                      /\ readyState[d][events[e].via] \notin {"none", "CONNECTING"}
                      /\ IsOpen(d) /\ events[e].via = wsRef[d] => e \in seen'[d]
    BY <1>1, <1>2 DEF PendingSent
  <2>1. e \in pending[d] /\ seen[d] \subseteq seen'[d]
    BY <1>9
  <2> QED
    BY <1>0, <2>1 DEF PendingSent
<1>11. NoticesOf'
  <2> SUFFICES ASSUME NEW d \in Client, NEW k \in DOMAIN toClient'[d]
               PROVE  /\ toClient'[d][k].type /= "join_ack" => toClient'[d][k].id \in Event
                      /\ toClient'[d][k].type = "error" =>
                           /\ events[toClient'[d][k].id].via = wsRef[d]
                           /\ phase[toClient'[d][k].id] \in {"limbo", "late"}
    BY <1>1, <1>2 DEF NoticesOf
  <2>1. PICK j \in DOMAIN toClient[d] : toClient'[d][k] = toClient[d][j]
    BY <1>5
  <2> QED
    BY <1>0, <2>1 DEF NoticesOf
<1>12. RollbacksReachable'
  <2> SUFFICES ASSUME NEW d \in Client, NEW e \in pending'[d],
                      IsOpen(d), events[e].via = wsRef[d], phase[e] /= "done",
                      events[e].action /= "stroke"
               PROVE  Target(e) \in archive'[d] \cup disputed'[d] \/ e \in Committed
    BY <1>1, <1>2 DEF RollbacksReachable
  <2>1. CASE d = c
    BY <2>1
  <2>2. CASE d /= c
    <3>1. e \in pending[d] /\ archive'[d] = archive[d] /\ disputed'[d] = disputed[d]
      BY <2>2
    <3> QED
      BY <1>0, <3>1 DEF RollbacksReachable
  <2> QED
    BY <2>1, <2>2
<1>13. ShownReachable'
  <2> SUFFICES ASSUME NEW d \in Client, NEW s \in Nat, Has(strokes'[d], s) \/ Has(redoIds'[d], s)
               PROVE  s \in archive'[d] \cup disputed'[d] \cup Targets(Unannounced)
    BY <1>2 DEF ShownReachable, Excused
  <2>1. CASE d = c
    BY <2>1
  <2>2. CASE d /= c
    <3>1. /\ strokes'[d] = strokes[d] /\ redoIds'[d] = redoIds[d]
          /\ archive'[d] = archive[d] /\ disputed'[d] = disputed[d]
      BY <2>2
    <3> QED
      BY <1>0, <3>1 DEF ShownReachable, Excused
  <2> QED
    BY <2>1, <2>2
<1>14. SeenEvents'
  BY <1>0, <1>2 DEF SeenEvents
<1>15. PastOK'
  BY PastKept DEF FrontendInv
<1> QED
  BY <1>1, <1>3, <1>4, <1>15, <1>6, <1>7, <1>8, <1>10, <1>11, <1>12, <1>13, <1>14 DEF FrontendInv

LEMMA TailOf ==
  ASSUME NEW T, NEW q \in Seq(T), q /= <<>>
  PROVE  /\ Tail(q) \in Seq(T) /\ Head(q) \in T /\ 1 \in DOMAIN q /\ Head(q) = q[1]
         /\ \A k \in DOMAIN Tail(q) : \E j \in DOMAIN q : Tail(q)[k] = q[j]
<1>1. Len(q) \in Nat \ {0} /\ DOMAIN q = 1..Len(q)
  OBVIOUS
<1>2. Tail(q) \in Seq(T) /\ Head(q) \in T /\ Head(q) = q[1]
  OBVIOUS
<1>3. Len(Tail(q)) = Len(q) - 1 /\ \A k \in 1..(Len(q) - 1) : Tail(q)[k] = q[k + 1]
  OBVIOUS
<1>4. ASSUME NEW k \in DOMAIN Tail(q) PROVE \E j \in DOMAIN q : Tail(q)[k] = q[j]
  <2>1. k \in 1..(Len(q) - 1)
    BY <1>1, <1>2, <1>3, <1>4
  <2>2. k + 1 \in DOMAIN q
    BY <1>1, <2>1
  <2> QED
    BY <1>3, <2>1, <2>2
<1> QED
  BY <1>1, <1>2, <1>4

MessageStep(c) == handleMessage(c) \/ \E e \in pending[c] : rollbackExpires(c, e)

LEMMA MessageStepKeeps ==
  ASSUME FrontendInv, NEW c \in Client, MessageStep(c)
  PROVE  FrontendInv'
<1>0. /\ ReadsOld /\ DoublesDrawnTwice /\ PendingSent /\ SeenEvents /\ NoticesOf
      /\ RollbacksReachable /\ ShownReachable
  BY DEF FrontendInv
<1>1. /\ strokes \in [Client -> Seq(Nat)] /\ redoIds \in [Client -> Seq(Nat)]
      /\ archive \in [Client -> SUBSET Nat] /\ pending \in [Client -> SUBSET Nat]
      /\ seen \in [Client -> SUBSET Nat] /\ disputed \in [Client -> SUBSET Nat]
      /\ toClient \in [Client -> Seq(JoinAck \cup Notice)]
  BY DEF FrontendInv, FrontendType
<1>2. events \in Seq(Edit) /\ Event \subseteq Nat
      /\ \A e \in Event : events[e] \in Edit /\ Target(e) \in Nat
  <2>1. events \in Seq(Edit) /\ Event = 1..Len(events)
    BY DEF FrontendInv, FrontendType, Event
  <2>2. \A e \in Event : events[e] \in Edit
    BY <2>1
  <2> QED
    BY <2>1, <2>2 DEF Target, Edit
<1>3. \A e \in pending[c] :
        IsOpen(c) /\ events[e].via = wsRef[c] /\ phase[e] /= "done" /\ events[e].action /= "stroke"
          => Target(e) \in archive[c] \cup disputed[c] \/ e \in Committed
  BY <1>0 DEF RollbacksReachable
<1>4. \A s \in Nat : Has(strokes[c], s) \/ Has(redoIds[c], s)
                       => s \in archive[c] \cup disputed[c] \cup Targets(Unannounced)
  BY <1>0 DEF ShownReachable, Excused
<1>5. /\ \A s \in Nat : Double(strokes[c], s) => DrawnTwice(board.events, s)
      /\ seen[c] \subseteq Event
  BY <1>0 DEF DoublesDrawnTwice, SeenEvents
<1>6. ASSUME NEW e \in pending[c], rollbackExpires(c, e) PROVE FrontendInv'
  <2>1. /\ UNCHANGED <<connVars, faults, strokes, redoIds, archive, session, reading, toClient,
                       phase, board, clusterVars, events, seen, disputed>>
        /\ pending' = [pending EXCEPT ![c] = @ \ {e}]
    BY <1>6 DEF rollbackExpires, gatewayVars, clusterVars
  <2>2. pending' \in [Client -> SUBSET Nat] /\ pending'[c] \subseteq pending[c]
        /\ \A d \in Client \ {c} : pending'[d] = pending[d]
    BY <1>1, <2>1
  <2> QED
    BY <1>1, <1>3, <1>4, <1>5, <2>1, <2>2, ClientKeeps
<1>7. CASE handleMessage(c)
  <2> DEFINE m == Head(toClient[c])
  <2>1. /\ IsOpen(c) /\ toClient[c] /= <<>> /\ toClient' = [toClient EXCEPT ![c] = Tail(@)]
        /\ UNCHANGED <<connVars, faults, session, reading, phase, board, clusterVars, events>>
    BY <1>7 DEF handleMessage, clusterVars
  <2>2. /\ m \in JoinAck \cup Notice /\ Tail(toClient[c]) \in Seq(JoinAck \cup Notice)
        /\ 1 \in DOMAIN toClient[c] /\ m = toClient[c][1]
        /\ \A k \in DOMAIN Tail(toClient[c]) : \E j \in DOMAIN toClient[c] :
             Tail(toClient[c])[k] = toClient[c][j]
    BY <1>1, <2>1, TailOf
  <2>3. /\ toClient' \in [Client -> Seq(JoinAck \cup Notice)]
        /\ \A d \in Client \ {c} : toClient'[d] = toClient[d]
        /\ \A k \in DOMAIN toClient'[c] : \E j \in DOMAIN toClient[c] :
             toClient'[c][k] = toClient[c][j]
    BY <1>1, <2>1, <2>2
  <2>4. /\ m.type = "join_ack" => m \in JoinAck
        /\ m.type \in {"stroke_broadcast", "error"} => m \in Notice /\ m.id \in Event
        /\ m.type = "error" => events[m.id].via = wsRef[c] /\ phase[m.id] \in {"limbo", "late"}
    <3>1. m.type = "join_ack" => m \in JoinAck
      BY <2>2 DEF JoinAck, Notice
    <3>2. m.type \in {"stroke_broadcast", "error"} => m \in Notice
      BY <2>2 DEF JoinAck, Notice
    <3>3. /\ m.type /= "join_ack" => m.id \in Event
          /\ m.type = "error" => events[m.id].via = wsRef[c] /\ phase[m.id] \in {"limbo", "late"}
      BY <1>0, <2>2 DEF NoticesOf
    <3> QED
      BY <3>1, <3>2, <3>3
  <2> HIDE DEF m
  <2>5. CASE m.type = "join_ack" /\ onJoinAck(c, m)
    <3>1. /\ strokes' = [strokes EXCEPT ![c] = m.strokes]
          /\ archive' = [archive EXCEPT ![c] = {m.strokes[k] : k \in DOMAIN m.strokes}]
          /\ redoIds' = [redoIds EXCEPT ![c] = <<>>]
          /\ UNCHANGED <<pending, seen>>
      BY <2>5 DEF onJoinAck
    <3>2. /\ m.strokes \in Seq(Nat) /\ m.of \cup m.lacks \subseteq Committed
          /\ \A s \in Nat : Double(m.strokes, s) => DrawnTwice(board.events, s)
      <4>1. m.strokes \in Seq(Nat)
        BY <2>4, <2>5 DEF JoinAck
      <4> QED
        BY <1>0, <2>2, <2>5, <4>1 DEF ReadsOld, DoublesDrawnTwice
    <3>3. PICK es \in SUBSET Event :
            /\ disputed' = [disputed EXCEPT ![c] = Targets(es)]
            /\ \A e \in seen[c] : e \in es \/ e \in m.of
      <4>1. CASE m.confirmed
        <5>1. disputed' = [disputed EXCEPT ![c] = Targets((seen[c] \ m.of) \cup m.lacks)]
          BY <2>5, <4>1 DEF onJoinAck
        <5>2. (seen[c] \ m.of) \cup m.lacks \in SUBSET Event
          <6>1. Committed \subseteq Event
            BY DEF FrontendInv, EventsNumbered, Committed
          <6> QED
            BY <1>5, <3>2, <6>1
        <5> QED
          BY <5>1, <5>2
      <4>2. CASE ~m.confirmed
        <5>1. disputed' = [disputed EXCEPT ![c] = Targets(Event)]
          BY <2>5, <4>2 DEF onJoinAck
        <5> QED
          BY <1>5, <5>1
      <4> QED
        BY <4>1, <4>2
    <3>4. Targets(es) \in SUBSET Nat
      BY <1>2 DEF Targets
    <3>5. /\ strokes' \in [Client -> Seq(Nat)] /\ redoIds' \in [Client -> Seq(Nat)]
          /\ archive' \in [Client -> SUBSET Nat] /\ disputed' \in [Client -> SUBSET Nat]
      <4>1. <<>> \in Seq(Nat) /\ {m.strokes[k] : k \in DOMAIN m.strokes} \in SUBSET Nat
        BY <3>2, EmptySeq
      <4> QED
        BY <1>1, <3>1, <3>2, <3>3, <3>4, <4>1
    <3>6. \A d \in Client \ {c} :
            /\ strokes'[d] = strokes[d] /\ redoIds'[d] = redoIds[d] /\ archive'[d] = archive[d]
            /\ disputed'[d] = disputed[d]
      BY <1>1, <3>1, <3>3
    <3>7. /\ strokes'[c] = m.strokes /\ redoIds'[c] = <<>> /\ disputed'[c] = Targets(es)
          /\ archive'[c] = {m.strokes[k] : k \in DOMAIN m.strokes}
      BY <1>1, <3>1, <3>3
    <3>8. \A s \in Nat : Has(strokes'[c], s) \/ Has(redoIds'[c], s) => s \in archive'[c]
      BY <3>7 DEF Has
    <3>9. \A e \in pending'[c] :
            IsOpen(c) /\ events[e].via = wsRef[c] => Target(e) \in disputed'[c] \/ e \in Committed
      <4> SUFFICES ASSUME NEW e \in pending[c], IsOpen(c), events[e].via = wsRef[c]
                   PROVE  Target(e) \in Targets(es) \/ e \in Committed
        BY <3>1, <3>7
      <4>1. e \in seen[c]
        BY <1>0 DEF PendingSent
      <4> QED
        BY <3>2, <3>3, <4>1 DEF Targets
    <3> QED
      BY <1>1, <1>5, <2>1, <2>3, <3>1, <3>2, <3>5, <3>6, <3>7, <3>8, <3>9, ClientKeeps
  <2>6. CASE m.type = "stroke_broadcast" /\ onBroadcast(c, m)
    <3> DEFINE event == events[m.id]
               s == Target(m.id)
               cur == applyStrokeEvent(strokes[c], event, archive[c])
    <3>1. /\ strokes' = [strokes EXCEPT ![c] = cur]
          /\ archive' = IF event.action = "stroke" /\ ~Has(strokes[c], s)
                        THEN [archive EXCEPT ![c] = @ \cup {s}] ELSE archive
          /\ seen' = [seen EXCEPT ![c] = @ \cup {m.id}]
          /\ disputed' \in {disputed, [disputed EXCEPT ![c] = @ \cup {s}]}
          /\ UNCHANGED <<redoIds, pending>>
      BY <1>1, <2>6 DEF onBroadcast
    <3>2. m.id \in Event /\ m.id \in Nat /\ event \in Edit /\ s \in Nat /\ event.target = s
      BY <1>2, <2>4, <2>6 DEF Target
    <3>3. /\ cur \in Seq(Nat) /\ \A y : Double(cur, y) => Double(strokes[c], y)
          /\ \A y : Has(cur, y) => \/ Has(strokes[c], y)
                                  \/ /\ y = s
                                     /\ event.action = "redo_stroke" => y \in archive[c]
                                     /\ event.action /= "undo_stroke"
      BY <1>1, <3>2, ShownIs
    <3>4. event.action \in {"stroke", "undo_stroke", "redo_stroke"}
      BY <3>2 DEF Edit, Action
    <3> HIDE DEF event, s, cur
    <3>5. /\ archive' \in [Client -> SUBSET Nat] /\ archive[c] \subseteq archive'[c]
          /\ \A d \in Client \ {c} : archive'[d] = archive[d]
          /\ event.action = "stroke" /\ ~Has(strokes[c], s) => s \in archive'[c]
      BY <1>1, <3>1, <3>2
    <3>6. /\ strokes' \in [Client -> Seq(Nat)] /\ strokes'[c] = cur
          /\ seen' \in [Client -> SUBSET Nat] /\ seen'[c] = seen[c] \cup {m.id}
          /\ \A d \in Client \ {c} : strokes'[d] = strokes[d] /\ seen'[d] = seen[d]
      BY <1>1, <3>1, <3>2, <3>3
    <3>7. /\ disputed' \in [Client -> SUBSET Nat] /\ disputed[c] \subseteq disputed'[c]
          /\ \A d \in Client \ {c} : disputed'[d] = disputed[d]
      <4>1. CASE disputed' = disputed
        BY <1>1, <4>1
      <4>2. CASE disputed' = [disputed EXCEPT ![c] = @ \cup {s}]
        BY <1>1, <3>2, <4>2
      <4> QED
        BY <3>1, <4>1, <4>2
    <3>8. \A y \in Nat : Has(strokes'[c], y) \/ Has(redoIds'[c], y)
                           => y \in archive'[c] \cup disputed'[c] \cup Targets(Unannounced)
      <4> SUFFICES ASSUME NEW y \in Nat, Has(cur, y) \/ Has(redoIds[c], y)
                   PROVE  y \in archive'[c] \cup disputed'[c] \cup Targets(Unannounced)
        BY <3>1, <3>6
      <4>1. CASE Has(strokes[c], y) \/ Has(redoIds[c], y)
        BY <1>4, <3>5, <3>7, <4>1
      <4>2. CASE /\ y = s /\ ~Has(strokes[c], y)
                 /\ event.action = "redo_stroke" => y \in archive[c]
                 /\ event.action /= "undo_stroke"
        BY <3>4, <3>5, <4>2
      <4> QED
        BY <3>3, <4>1, <4>2
    <3>9. \A e \in pending'[c] :
            IsOpen(c) /\ events[e].via = wsRef[c] /\ phase[e] /= "done" /\ events[e].action /= "stroke"
              => Target(e) \in archive'[c] \cup disputed'[c] \/ e \in Committed
      BY <1>3, <3>1, <3>5, <3>7
    <3>10. \A y \in Nat : Double(strokes'[c], y) => DrawnTwice(board.events, y)
      BY <1>5, <3>3, <3>6
    <3>11. /\ seen[c] \subseteq seen'[c] /\ seen'[c] \subseteq Event /\ pending' = pending
           /\ redoIds' = redoIds /\ pending \in [Client -> SUBSET Nat]
           /\ redoIds \in [Client -> Seq(Nat)]
      BY <1>1, <1>5, <3>1, <3>2, <3>6
    <3> QED
      BY <2>1, <2>3, <3>5, <3>6, <3>7, <3>8, <3>9, <3>10, <3>11, ClientKeeps
  <2>7. CASE m.type = "error" /\ onWriteFailed(c, m)
    <3> DEFINE event == events[m.id]
               s == Target(m.id)
    <3>1. /\ pending' = [pending EXCEPT ![c] = @ \ {m.id}]
          /\ disputed' \in {disputed, [disputed EXCEPT ![c] = @ \cup {s}]}
          /\ UNCHANGED <<archive, seen>>
      BY <2>7 DEF onWriteFailed
    <3>2. m.id \in Event /\ event \in Edit /\ s \in Nat /\ event.target = s
      BY <1>2, <2>4, <2>7 DEF Target
    <3>3. PICK cur \in Seq(Nat), ids \in Seq(Nat) :
            /\ strokes' = [strokes EXCEPT ![c] = cur] /\ redoIds' = [redoIds EXCEPT ![c] = ids]
            /\ \A y : Has(cur, y) \/ Has(ids, y)
                  => \/ Has(strokes[c], y) \/ Has(redoIds[c], y)
                     \/ m.id \in pending[c] /\ y = s /\ event.action /= "stroke"
            /\ \A y : Double(cur, y) => Double(strokes[c], y)
      <4>1. CASE m.id \in pending[c]
        <5>1. /\ strokes' = [strokes EXCEPT ![c] = rolledBack(strokes[c], event)]
              /\ redoIds' = [redoIds EXCEPT ![c] = redoRolledBack(redoIds[c], event)]
          BY <2>7, <4>1 DEF onWriteFailed
        <5>2. /\ rolledBack(strokes[c], event) \in Seq(Nat)
              /\ \A y : Has(rolledBack(strokes[c], event), y)
                          => Has(strokes[c], y) \/ (y = s /\ event.action = "undo_stroke")
              /\ \A y : Double(rolledBack(strokes[c], event), y) => Double(strokes[c], y)
          BY <1>1, <3>2, RolledBackIs
        <5>3. /\ redoRolledBack(redoIds[c], event) \in Seq(Nat)
              /\ \A y : Has(redoRolledBack(redoIds[c], event), y)
                          => Has(redoIds[c], y) \/ (y = s /\ event.action = "redo_stroke")
          BY <1>1, <3>2, RedoRolledBackIs
        <5> HIDE DEF event, s
        <5> QED
          BY <4>1, <5>1, <5>2, <5>3
      <4>2. CASE m.id \notin pending[c]
        <5>1. /\ strokes' = [strokes EXCEPT ![c] = Without(strokes[c], m.id)]
              /\ redoIds' = redoIds
          BY <2>7, <4>2 DEF onWriteFailed
        <5>2. /\ Without(strokes[c], m.id) \in Seq(Nat)
              /\ \A y : Has(Without(strokes[c], m.id), y) => Has(strokes[c], y)
              /\ \A y : Double(Without(strokes[c], m.id), y) => Double(strokes[c], y)
          BY <1>1, WithoutHas
        <5>3. redoIds[c] \in Seq(Nat) /\ redoIds' = [redoIds EXCEPT ![c] = redoIds[c]]
          BY <1>1, <5>1
        <5> HIDE DEF event, s
        <5> QED
          BY <5>1, <5>2, <5>3
      <4> QED
        BY <4>1, <4>2
    <3> HIDE DEF event, s
    <3>4. /\ disputed' \in [Client -> SUBSET Nat] /\ disputed[c] \subseteq disputed'[c]
          /\ \A d \in Client \ {c} : disputed'[d] = disputed[d]
      <4>1. CASE disputed' = disputed
        BY <1>1, <4>1
      <4>2. CASE disputed' = [disputed EXCEPT ![c] = @ \cup {s}]
        BY <1>1, <3>2, <4>2
      <4> QED
        BY <3>1, <4>1, <4>2
    <3>5. /\ strokes' \in [Client -> Seq(Nat)] /\ strokes'[c] = cur
          /\ redoIds' \in [Client -> Seq(Nat)] /\ redoIds'[c] = ids
          /\ \A d \in Client \ {c} : strokes'[d] = strokes[d] /\ redoIds'[d] = redoIds[d]
      BY <1>1, <3>3
    <3>6. /\ pending' \in [Client -> SUBSET Nat] /\ pending'[c] \subseteq pending[c]
          /\ \A d \in Client \ {c} : pending'[d] = pending[d]
      BY <1>1, <3>1
    <3>7. m.id \in pending[c] /\ event.action /= "stroke"
            => s \in archive[c] \cup disputed[c] \cup Targets(Unannounced)
      <4> SUFFICES ASSUME m.id \in pending[c], event.action /= "stroke"
                   PROVE  s \in archive[c] \cup disputed[c] \cup Targets(Unannounced)
        OBVIOUS
      <4>1. s \in archive[c] \cup disputed[c] \/ m.id \in Committed
        BY <1>3, <2>1, <2>4, <2>7 DEF event, s
      <4>2. m.id \in Committed => s \in Targets(Unannounced)
        BY <2>4, <2>7 DEF Unannounced, Targets, s
      <4> QED
        BY <4>1, <4>2
    <3>8. \A y \in Nat : Has(strokes'[c], y) \/ Has(redoIds'[c], y)
                           => y \in archive'[c] \cup disputed'[c] \cup Targets(Unannounced)
      BY <1>4, <3>1, <3>3, <3>4, <3>5, <3>7
    <3>9. \A e \in pending'[c] :
            IsOpen(c) /\ events[e].via = wsRef[c] /\ phase[e] /= "done" /\ events[e].action /= "stroke"
              => Target(e) \in archive'[c] \cup disputed'[c] \/ e \in Committed
      BY <1>3, <3>1, <3>4, <3>6
    <3>10. \A y \in Nat : Double(strokes'[c], y) => DrawnTwice(board.events, y)
      BY <1>5, <3>3, <3>5
    <3> QED
      BY <1>1, <1>5, <2>1, <2>3, <3>1, <3>4, <3>5, <3>6, <3>8, <3>9, <3>10, ClientKeeps
  <2> QED
    BY <1>7, <2>5, <2>6, <2>7 DEF handleMessage, m
<1> QED
  BY <1>6, <1>7 DEF MessageStep

-----------------------------------------------------------------------------
(* The gateway and the cluster.                                            *)

\* The board stays, or one more event is committed, perhaps not for the first time.
BoardGrows ==
  \/ UNCHANGED <<board, past>> /\ applied' \in past \cup {applied}
  \/ \E e \in Event : writes(e)

LEMMA BoardGrown ==
  ASSUME FrontendInv, BoardGrows, events' = events
  PROVE  /\ BoardOK(board)' /\ EventsNumbered' /\ PastOK' /\ Committed \subseteq Committed'
         /\ \A s \in Nat : DrawnTwice(board.events, s) => DrawnTwice(board'.events, s)
<1>0. BoardOK(board) /\ EventsNumbered /\ PastOK /\ events \in Seq(Edit)
  BY DEF FrontendInv, FrontendType
<1>1. CASE UNCHANGED <<board, past>> /\ applied' \in past \cup {applied}
  <2>1. BoardOK(board)' /\ EventsNumbered' /\ Committed' = Committed
    BY <1>0, <1>1 DEF EventsNumbered, Committed, Event, Target
  <2>2. PastOK'
    BY <1>0, <1>1 DEF PastOK, Begins
  <2> QED
    BY <1>1, <2>1, <2>2
<1>2. ASSUME NEW e \in Event, writes(e)
      PROVE  /\ BoardOK(board)' /\ EventsNumbered' /\ PastOK' /\ Committed \subseteq Committed'
             /\ \A s \in Nat : DrawnTwice(board.events, s) => DrawnTwice(board'.events, s)
  <2>0. /\ board' = applyBoardEvent(board, events[e])
        /\ applied' = board' /\ past' = past \cup {board'}
    BY <1>2 DEF writes
  <2>1. events[e] \in Edit /\ events[e].id = e
    BY <1>0, <1>2 DEF Event, EventsNumbered
  <2>2. BoardOK(board') /\ board'.events = Append(board.events, events[e])
    BY <1>0, <2>0, <2>1, BoardStep
  <2>3. BoardOK(board)'
    BY <2>2 DEF BoardOK, LastUndone, EditsOf, Drawn, DrawnTwice, DrawnAt, Has, Double
  <2> DEFINE L == Len(board.events)
  <2>4. board.events \in Seq(Edit) /\ L \in Nat /\ DOMAIN board.events = 1..L
    BY <1>0 DEF BoardOK
  <2>5. /\ DOMAIN board'.events = 1..(L + 1) /\ board'.events[L + 1] = events[e]
        /\ \A k \in 1..L : board'.events[k] = board.events[k]
    BY <2>1, <2>2, <2>4
  <2>6. \A k : k \in 1..(L + 1) <=> k \in 1..L \/ k = L + 1
    BY <2>4
  <2> HIDE DEF L
  <2>7. EventsNumbered'
    <3>1. \A x \in Event' : events'[x].id = x /\ (events'[x].action = "stroke" => Target(x)' = x)
      BY <1>0 DEF EventsNumbered, Event, Target
    <3>2. \A k \in DOMAIN board'.events :
            board'.events[k].id \in Event /\ board'.events[k] = events[board'.events[k].id]
      <4>1. \A k \in 1..L :
              board.events[k].id \in Event /\ board.events[k] = events[board.events[k].id]
        BY <1>0, <2>4 DEF EventsNumbered
      <4>2. ASSUME NEW k \in DOMAIN board'.events
            PROVE  board'.events[k].id \in Event /\ board'.events[k] = events[board'.events[k].id]
        <5>1. CASE k \in 1..L
          BY <2>5, <4>1, <5>1
        <5>2. CASE k = L + 1
          BY <1>2, <2>1, <2>5, <5>2
        <5> QED
          BY <2>5, <2>6, <4>2, <5>1, <5>2
      <4> QED
        BY <4>2
    <3> QED
      BY <3>1, <3>2 DEF EventsNumbered, Event
  <2>8. Committed \subseteq Committed'
    BY <2>4, <2>5, <2>6 DEF Committed
  <2>9. \A s \in Nat : DrawnTwice(board.events, s) => DrawnTwice(board'.events, s)
    BY <2>1, <2>2, <2>4, EventAppended
  <2>10. PastOK'
    <3>1. ASSUME NEW b \in past PROVE BoardOK(b) /\ Begins(b.events, board'.events)
      <4>1. BoardOK(b) /\ Begins(b.events, board.events)
        BY <1>0 DEF PastOK
      <4>2. /\ b.events \in Seq(Edit) /\ DOMAIN b.events = 1..Len(b.events)
            /\ Len(b.events) \in Nat /\ Len(b.events) <= L
        BY <4>1 DEF BoardOK, Begins, L
      <4>3. \A k \in 1..Len(b.events) : k \in 1..L
        BY <2>4, <4>2
      <4>4. Len(board'.events) = L + 1
        BY <2>2, <2>4 DEF L
      <4> QED
        BY <2>4, <2>5, <4>1, <4>2, <4>3, <4>4 DEF Begins
    <3>2. Begins(board'.events, board'.events)
      BY <2>2, <2>4 DEF Begins
    <3>3. \A b \in past' : BoardOK(b) /\ Begins(b.events, board'.events)
      BY <2>0, <2>2, <3>1, <3>2
    <3>4. \A b \in past' : BoardOK(b)' /\ Begins(b.events, board.events)'
      BY <3>3 DEF Begins
    <3> QED
      BY <2>0, <3>4 DEF PastOK
  <2> QED
    BY <2>3, <2>7, <2>8, <2>9, <2>10
<1> QED
  BY <1>1, <1>2 DEF BoardGrows

\* A message that the gateway may send to d.
Sendable(d, m, es) ==
  /\ m.type = "join_ack" =>
       /\ m.of \cup m.lacks \subseteq Committed
       /\ \A s \in Nat : Double(m.strokes, s) => DrawnTwice(board.events, s)
  /\ m.type /= "join_ack" => m.id \in Event
  /\ m.type = "error" => events[m.id].via = wsRef[d] /\ m.id \in es

LEMMA FaultKeeps ==
  ASSUME ConnInv, SocketsSuffice, UNCHANGED connVars, faults' = faults \/ Fault
  PROVE  /\ ConnInv' /\ SocketsSuffice' /\ readyState' = readyState
         /\ \A d \in Client : (IsOpen(d)' <=> IsOpen(d)) /\ wsRef'[d] = wsRef[d]
<1>0. UNCHANGED <<mounted, readyState, wsRef, timers>>
  BY DEF connVars
<1>1. faults' \in Nat /\ faults <= faults' /\ faults \in Nat /\ faults' <= MaxFaults
  BY FaultCounts DEF ConnInv, ConnType, SocketsSuffice
<1>2. ConnInv'
  BY <1>0, <1>1 DEF ConnInv, ConnType, NewestLive
<1>3. ASSUME NEW d \in Client PROVE wsRef'[d] + Slots(d)' <= 1 + 2 * faults'
  <2>1. wsRef'[d] + Slots(d)' = wsRef[d] + Slots(d)
    BY <1>0 DEF Slots, Closing
  <2>2. timers[d] \in SUBSET Socket /\ Closing(d) \in SUBSET Socket /\ wsRef[d] \in Nat
    BY DEF ConnInv, ConnType, Closing
  <2>3. Cardinality(timers[d]) \in Nat /\ Cardinality(Closing(d)) \in Nat
    BY <2>2, SocketSets
  <2>4. Slots(d) \in Nat
    BY <2>3 DEF Slots
  <2>5. wsRef[d] + Slots(d) <= 1 + 2 * faults
    BY DEF SocketsSuffice
  <2> QED
    BY <1>1, <2>1, <2>2, <2>4, <2>5
<1> QED
  BY <1>0, <1>1, <1>2, <1>3 DEF SocketsSuffice, IsOpen, RefState

LEMMA GatewayKeeps ==
  ASSUME FrontendInv, UNCHANGED gatewayRest, faults' = faults \/ Fault, BoardGrows,
         session' \in [Client -> {"none", "joined", "read", "acked"}],
         reading' \in [Client -> Read], toClient' \in [Client -> Seq(JoinAck \cup Notice)],
         disputed' \in [Client -> SUBSET Nat], phase' \in Seq(Phase), Len(phase') = Len(phase),
         \A e \in Event : /\ phase[e] \in {"limbo", "late"} => phase'[e] \in {"limbo", "late"}
                          /\ phase[e] = "done" => phase'[e] = "done",
         \A d \in Client :
           /\ disputed[d] \subseteq disputed'[d]
           /\ session'[d] /= "none" => session[d] /= "none"
           /\ reading'[d].of \cup reading'[d].lacks \subseteq Committed
           /\ \A s \in Nat : Double(reading'[d].strokes, s) => DrawnTwice(board.events, s)
           /\ toClient'[d] /= <<>> => toClient[d] /= <<>> \/ IsOpen(d)
           /\ \A k \in DOMAIN toClient'[d] :
                \/ \E j \in DOMAIN toClient[d] : toClient'[d][k] = toClient[d][j]
                \/ Sendable(d, toClient'[d][k], {e \in Event : phase'[e] \in {"limbo", "late"}})
  PROVE  FrontendInv'
<1>0. /\ FrontendType /\ ConnInv /\ SocketsSuffice /\ BoardOK(board) /\ EventsNumbered /\ OpenOnly
      /\ ReadsOld /\ DoublesDrawnTwice /\ PendingSent /\ SeenEvents /\ NoticesOf
      /\ RollbacksReachable /\ ShownReachable
  BY DEF FrontendInv
<1>1. /\ UNCHANGED <<connVars, strokes, redoIds, archive, pending, events, seen>>
      /\ Event' = Event /\ \A e : Target(e)' = Target(e)
  BY DEF gatewayRest, clientVars, Event, Target
<1>2. /\ ConnInv' /\ SocketsSuffice' /\ readyState' = readyState
      /\ \A d \in Client : (IsOpen(d)' <=> IsOpen(d)) /\ wsRef'[d] = wsRef[d]
  BY <1>0, <1>1, FaultKeeps
<1>3. /\ BoardOK(board)' /\ EventsNumbered' /\ PastOK' /\ Committed \subseteq Committed'
      /\ \A s \in Nat : DrawnTwice(board.events, s) => DrawnTwice(board'.events, s)
  BY <1>1, BoardGrown
<1>4. FrontendType'
  BY <1>0, <1>1 DEF FrontendType
<1>5. Committed \subseteq Event
  BY <1>0 DEF EventsNumbered, Committed
<1>6. \A d \in Client : Excused(d) \subseteq Excused(d)'
  <2>1. Unannounced \subseteq Unannounced'
    BY <1>3, <1>5 DEF Unannounced
  <2>2. Targets(Unannounced) \subseteq Targets(Unannounced)'
    BY <1>1, <2>1 DEF Targets
  <2> QED
    BY <2>2 DEF Excused
<1>7. ASSUME NEW d \in Client, NEW k \in DOMAIN toClient'[d]
      PROVE  Sendable(d, toClient'[d][k], {e \in Event : phase'[e] \in {"limbo", "late"}})
  <2>1. CASE \E j \in DOMAIN toClient[d] : toClient'[d][k] = toClient[d][j]
    <3>1. PICK j \in DOMAIN toClient[d] : toClient'[d][k] = toClient[d][j]
      BY <2>1
    <3> DEFINE m == toClient[d][j]
    <3>2. m.type = "join_ack" => m.of \cup m.lacks \subseteq Committed
      BY <1>0 DEF ReadsOld
    <3>3. \A s \in Nat : m.type = "join_ack" /\ Double(m.strokes, s) => DrawnTwice(board.events, s)
      BY <1>0 DEF DoublesDrawnTwice
    <3>4. /\ m.type /= "join_ack" => m.id \in Event
          /\ m.type = "error" => /\ events[m.id].via = wsRef[d]
                                 /\ phase[m.id] \in {"limbo", "late"}
      BY <1>0 DEF NoticesOf
    <3>5. "error" /= "join_ack"
      OBVIOUS
    <3> HIDE DEF m
    <3>6. m.type = "error" => m.id \in {e \in Event : phase'[e] \in {"limbo", "late"}}
      BY <3>4, <3>5
    <3>7. Sendable(d, m, {e \in Event : phase'[e] \in {"limbo", "late"}})
      BY <3>2, <3>3, <3>4, <3>6 DEF Sendable
    <3> QED
      BY <3>1, <3>7 DEF m
  <2> QED
    BY <1>7, <2>1
<1>8. OpenOnly'
  BY <1>0, <1>2 DEF OpenOnly
<1>9. ReadsOld'
  BY <1>3, <1>7 DEF ReadsOld, Sendable
<1>10. DoublesDrawnTwice'
  <2>1. \A d \in Client, s \in Nat : Double(strokes[d], s) => DrawnTwice(board.events, s)
    BY <1>0 DEF DoublesDrawnTwice
  <2>2. \A d \in Client : \A k \in DOMAIN toClient'[d] : \A s \in Nat :
          toClient'[d][k].type = "join_ack" /\ Double(toClient'[d][k].strokes, s)
            => DrawnTwice(board.events, s)
    BY <1>7 DEF Sendable
  <2> QED
    BY <1>1, <1>3, <2>1, <2>2 DEF DoublesDrawnTwice
<1>11. PendingSent' /\ SeenEvents'
  BY <1>0, <1>1, <1>2 DEF PendingSent, SeenEvents
<1>12. NoticesOf'
  BY <1>1, <1>2, <1>7 DEF NoticesOf, Sendable
<1>13. RollbacksReachable'
  <2> SUFFICES ASSUME NEW d \in Client, NEW e \in pending[d],
                      IsOpen(d), events[e].via = wsRef[d], phase'[e] /= "done",
                      events[e].action /= "stroke"
               PROVE  Target(e) \in archive[d] \cup disputed'[d] \/ e \in Committed'
    BY <1>1, <1>2 DEF RollbacksReachable
  <2>1. e \in Event
    BY <1>0 DEF PendingSent
  <2>2. Target(e) \in archive[d] \cup disputed[d] \/ e \in Committed
    BY <1>0, <2>1 DEF RollbacksReachable
  <2> QED
    BY <1>3, <2>2
<1>14. ShownReachable'
  BY <1>0, <1>1, <1>6 DEF ShownReachable
<1> QED
  BY <1>2, <1>3, <1>4, <1>8, <1>9, <1>10, <1>11, <1>12, <1>13, <1>14 DEF FrontendInv

\* The handler of e goes on, and tells nobody or everybody whose socket is open.
LEMMA HandlerKeeps ==
  ASSUME FrontendInv, NEW e \in Event, NEW p \in Phase, phase' = [phase EXCEPT ![e] = p],
         phase[e] /= "done", phase[e] \in {"limbo", "late"} => p \in {"limbo", "late"},
         UNCHANGED <<gatewayRest, session, reading>>, faults' = faults \/ Fault, BoardGrows,
         disputed' \in [Client -> SUBSET Nat],
         \A d \in Client : disputed[d] \subseteq disputed'[d],
         DOMAIN toClient' = Client, toClient' = [d \in Client |-> toClient'[d]],
         \A d \in Client :
           \/ toClient'[d] = toClient[d]
           \/ /\ IsOpen(d)
              /\ \/ toClient'[d] = Append(toClient[d], [type |-> "stroke_broadcast", id |-> e])
                 \/ /\ toClient'[d] = Append(toClient[d], [type |-> "error", id |-> e])
                    /\ events[e].via = wsRef[d] /\ p = "limbo"
  PROVE  FrontendInv'
<1>0. /\ FrontendType /\ ReadsOld /\ DoublesDrawnTwice /\ EventsNumbered
  BY DEF FrontendInv
<1>1. /\ session' \in [Client -> {"none", "joined", "read", "acked"}]
      /\ reading' \in [Client -> Read] /\ phase \in Seq(Phase) /\ Event = DOMAIN phase
      /\ toClient \in [Client -> Seq(JoinAck \cup Notice)] /\ Event \subseteq Nat
  BY <1>0 DEF FrontendType, Event
<1>2. /\ phase' \in Seq(Phase) /\ Len(phase') = Len(phase)
      /\ \A x \in Event : phase'[x] = IF x = e THEN p ELSE phase[x]
  BY <1>1
<1>3. ASSUME NEW d \in Client
      PROVE  /\ toClient'[d] \in Seq(JoinAck \cup Notice)
             /\ toClient'[d] /= <<>> => toClient[d] /= <<>> \/ IsOpen(d)
             /\ \A k \in DOMAIN toClient'[d] :
                  \/ \E j \in DOMAIN toClient[d] : toClient'[d][k] = toClient[d][j]
                  \/ Sendable(d, toClient'[d][k], {x \in Event : phase'[x] \in {"limbo", "late"}})
  <2>1. CASE toClient'[d] = toClient[d]
    BY <1>1, <2>1
  <2>2. ASSUME NEW m \in Notice, IsOpen(d), toClient'[d] = Append(toClient[d], m),
               Sendable(d, m, {x \in Event : phase'[x] \in {"limbo", "late"}})
        PROVE  /\ toClient'[d] \in Seq(JoinAck \cup Notice)
               /\ \A k \in DOMAIN toClient'[d] :
                    \/ \E j \in DOMAIN toClient[d] : toClient'[d][k] = toClient[d][j]
                    \/ Sendable(d, toClient'[d][k], {x \in Event : phase'[x] \in {"limbo", "late"}})
    <3> DEFINE q == toClient[d]
    <3>1. q \in Seq(JoinAck \cup Notice) /\ Len(q) \in Nat /\ DOMAIN q = 1..Len(q)
      BY <1>1
    <3>2. /\ Append(q, m) \in Seq(JoinAck \cup Notice) /\ DOMAIN Append(q, m) = 1..(Len(q) + 1)
          /\ Append(q, m)[Len(q) + 1] = m /\ \A j \in 1..Len(q) : Append(q, m)[j] = q[j]
      BY <3>1
    <3>3. \A k : k \in 1..(Len(q) + 1) <=> k \in 1..Len(q) \/ k = Len(q) + 1
      BY <3>1
    <3> HIDE DEF q
    <3> QED
      BY <2>2, <3>1, <3>2, <3>3 DEF q
  <2>3. CASE IsOpen(d) /\ toClient'[d] = Append(toClient[d], [type |-> "stroke_broadcast", id |-> e])
    <3> DEFINE m == [type |-> "stroke_broadcast", id |-> e]
    <3>1. m \in Notice /\ Sendable(d, m, {x \in Event : phase'[x] \in {"limbo", "late"}})
      BY <1>1 DEF Notice, Sendable
    <3> QED
      BY <2>2, <2>3, <3>1
  <2>4. CASE /\ IsOpen(d) /\ toClient'[d] = Append(toClient[d], [type |-> "error", id |-> e])
             /\ events[e].via = wsRef[d] /\ p = "limbo"
    <3> DEFINE m == [type |-> "error", id |-> e]
    <3>0. phase'[e] = "limbo"
      BY <1>2, <2>4
    <3>1. m \in Notice /\ Sendable(d, m, {x \in Event : phase'[x] \in {"limbo", "late"}})
      BY <1>1, <2>4, <3>0 DEF Notice, Sendable
    <3> QED
      BY <2>2, <2>4, <3>1
  <2> QED
    BY <2>1, <2>3, <2>4
<1>4. toClient' \in [Client -> Seq(JoinAck \cup Notice)]
  BY <1>3
<1>5. \A x \in Event : /\ phase[x] \in {"limbo", "late"} => phase'[x] \in {"limbo", "late"}
                       /\ phase[x] = "done" => phase'[x] = "done"
  BY <1>2
<1>6. \A d \in Client :
        /\ session'[d] /= "none" => session[d] /= "none"
        /\ reading'[d].of \cup reading'[d].lacks \subseteq Committed
        /\ \A s \in Nat : Double(reading'[d].strokes, s) => DrawnTwice(board.events, s)
  BY <1>0 DEF ReadsOld, DoublesDrawnTwice
<1> QED
  BY <1>1, <1>2, <1>3, <1>4, <1>5, <1>6, GatewayKeeps

EventStep(e) ==
  \/ refuses(e) \/ commits(e) \/ resubmits(e) \/ answers(e)
  \/ fails(e) \/ commitsLate(e) \/ undelivered(e)

LEMMA EventStepKeeps ==
  ASSUME FrontendInv, NEW e \in Event, EventStep(e)
  PROVE  FrontendInv'
<1>0. /\ toClient \in [Client -> Seq(JoinAck \cup Notice)] /\ disputed \in [Client -> SUBSET Nat]
      /\ events[e] \in Edit /\ events[e].by \in Client /\ Target(e) \in Nat
  <2>1. /\ events \in Seq(Edit) /\ toClient \in [Client -> Seq(JoinAck \cup Notice)]
        /\ disputed \in [Client -> SUBSET Nat]
    BY DEF FrontendInv, FrontendType
  <2>2. events[e] \in Edit
    BY <2>1 DEF Event
  <2> QED
    BY <2>1, <2>2 DEF Edit, Target
<1>1. /\ DOMAIN toClient = Client /\ toClient = [d \in Client |-> toClient[d]]
  BY <1>0
<1>2. CASE undelivered(e)
  <2>1. /\ phase' = [phase EXCEPT ![e] = "done"] /\ phase[e] = "sent"
        /\ UNCHANGED <<gatewayRest, session, reading, faults, board, clusterVars, disputed, toClient>>
    BY <1>2 DEF undelivered, clusterVars
  <2> QED
    BY <1>0, <1>1, <2>1, HandlerKeeps DEF Phase, BoardGrows, clusterVars
<1>3. CASE refuses(e)
  <2>1. /\ phase' = [phase EXCEPT ![e] = "done"] /\ phase[e] = "sent" /\ Fault
        /\ UNCHANGED <<gatewayRest, session, reading, board, clusterVars, toClient>>
        /\ disputed' = [disputed EXCEPT ![events[e].by] = @ \cup {Target(e)}]
    BY <1>3 DEF refuses, clusterVars
  <2>2. disputed' \in [Client -> SUBSET Nat] /\ \A d \in Client : disputed[d] \subseteq disputed'[d]
    BY <1>0, <2>1
  <2> QED
    BY <1>1, <2>1, <2>2, HandlerKeeps DEF Phase, BoardGrows, clusterVars
<1>4. CASE commits(e) \/ commitsLate(e)
  <2>1. PICK p \in {"committed", "late"} :
          /\ phase' = [phase EXCEPT ![e] = p] /\ phase[e] \in {"sent", "limbo"}
          /\ phase[e] = "limbo" => p = "late"
          /\ writes(e)
          /\ UNCHANGED <<gatewayRest, session, reading, faults, disputed, toClient>>
    BY <1>4 DEF commits, commitsLate
  <2>2. BoardGrows
    BY <2>1 DEF BoardGrows
  <2> QED
    BY <1>0, <1>1, <2>1, <2>2, HandlerKeeps DEF Phase
<1>5. CASE resubmits(e)
  <2>1. /\ phase' = [phase EXCEPT ![e] = "sent"] /\ phase[e] = "committed" /\ Fault
        /\ UNCHANGED <<gatewayRest, session, reading, board, clusterVars, disputed, toClient>>
    BY <1>5 DEF resubmits, clusterVars
  <2> QED
    BY <1>0, <1>1, <2>1, HandlerKeeps DEF Phase, BoardGrows, clusterVars
<1>6. CASE answers(e)
  <2>1. /\ phase' = [phase EXCEPT ![e] = "done"] /\ phase[e] = "committed"
        /\ UNCHANGED <<gatewayRest, session, reading, faults, board, clusterVars, disputed>>
        /\ toClient' = [d \in Client |->
             IF IsOpen(d) /\ session[d] /= "none" /\ ~(d = events[e].by /\ SenderOpen(e))
             THEN Append(toClient[d], [type |-> "stroke_broadcast", id |-> e]) ELSE toClient[d]]
    BY <1>6 DEF answers, clusterVars
  <2>2. /\ DOMAIN toClient' = Client /\ toClient' = [d \in Client |-> toClient'[d]]
        /\ \A d \in Client :
             \/ toClient'[d] = toClient[d]
             \/ /\ IsOpen(d)
                /\ toClient'[d] = Append(toClient[d], [type |-> "stroke_broadcast", id |-> e])
    BY <2>1
  <2> QED
    BY <1>0, <2>1, <2>2, HandlerKeeps DEF Phase, BoardGrows, clusterVars
<1>7. CASE fails(e)
  <2> DEFINE m == [type |-> "error", id |-> e]
  <2>1. /\ phase' = [phase EXCEPT ![e] = "limbo"] /\ phase[e] = "sent" /\ Fault
        /\ UNCHANGED <<gatewayRest, session, reading, board, clusterVars, disputed>>
        /\ toClient' = IF SenderOpen(e)
                       THEN [toClient EXCEPT ![events[e].by] = Append(@, m)] ELSE toClient
    BY <1>7 DEF fails, clusterVars
  <2> HIDE DEF m
  <2>2. DOMAIN toClient' = Client /\ toClient' = [d \in Client |-> toClient'[d]]
    BY <1>0, <2>1
  <2>3. ASSUME NEW d \in Client
        PROVE  \/ toClient'[d] = toClient[d]
               \/ /\ IsOpen(d) /\ toClient'[d] = Append(toClient[d], m)
                  /\ events[e].via = wsRef[d]
    BY <1>0, <2>1 DEF SenderOpen
  <2>4. /\ BoardGrows /\ "limbo" \in Phase /\ disputed' \in [Client -> SUBSET Nat]
        /\ \A d \in Client : disputed[d] \subseteq disputed'[d]
    BY <1>0, <2>1 DEF BoardGrows, Phase, clusterVars
  <2>5. \A d \in Client :
          \/ toClient'[d] = toClient[d]
          \/ /\ IsOpen(d)
             /\ toClient'[d] = Append(toClient[d], [type |-> "error", id |-> e])
             /\ events[e].via = wsRef[d]
    BY <2>3 DEF m
  <2> QED
    BY <2>1, <2>2, <2>4, <2>5, HandlerKeeps
<1> QED
  BY <1>2, <1>3, <1>4, <1>5, <1>6, <1>7 DEF EventStep

\* A leader shows no more than the board was at an earlier time, and differs from
\* the board only in the strokes of the events that it has yet to apply.
LEMMA AppliedIs ==
  ASSUME FrontendInv
  PROVE  /\ applied.visible \in Seq(Nat) /\ Unapplied \subseteq Committed
         /\ \A s \in Nat : Double(applied.visible, s) => DrawnTwice(board.events, s)
         /\ \A s \in Nat : Has(applied.visible, s) => Drawn(board.events, s)
         /\ \A s \in Nat : s \notin Targets(Unapplied) =>
              (Has(applied.visible, s) <=> Has(board.visible, s))
<1> DEFINE es == applied.events
           all == board.events
           n == Len(es)
           L == Len(all)
<1>0. BoardOK(applied) /\ Begins(es, all) /\ BoardOK(board) /\ EventsNumbered
  BY DEF FrontendInv, PastOK
<1>1. /\ es \in Seq(Edit) /\ all \in Seq(Edit) /\ n \in Nat /\ L \in Nat /\ n <= L
      /\ DOMAIN es = 1..n /\ DOMAIN all = 1..L /\ \A k \in 1..n : es[k] = all[k]
  BY <1>0 DEF BoardOK, Begins
<1>2. /\ \A k \in 1..n : k \in 1..L
      /\ \A k \in 1..L : k \in 1..n \/ k \in (n + 1)..L
      /\ \A k \in (n + 1)..L : k \in 1..L
  BY <1>1
<1>3. Unapplied = {all[k].id : k \in (n + 1)..L} /\ Committed = {all[k].id : k \in 1..L}
  BY <1>1 DEF Unapplied, Committed
<1>4. applied.visible \in Seq(Nat)
  BY <1>0 DEF BoardOK
<1> HIDE DEF es, all, n, L
<1>5. Unapplied \subseteq Committed
  BY <1>2, <1>3
<1>6. \A s \in Nat : /\ Drawn(es, s) => Drawn(all, s)
                     /\ DrawnTwice(es, s) => DrawnTwice(all, s)
  BY <1>1, <1>2 DEF Drawn, DrawnTwice, DrawnAt
<1>7. ASSUME NEW s \in Nat, s \notin Targets(Unapplied)
      PROVE  Has(applied.visible, s) <=> Has(board.visible, s)
  <2>1. ASSUME NEW k \in (n + 1)..L PROVE all[k].target /= s
    <3>1. k \in DOMAIN all /\ all[k].id \in Unapplied
      BY <1>1, <1>2, <1>3
    <3>2. all[k] = events[all[k].id]
      BY <1>0, <3>1 DEF EventsNumbered, all
    <3>3. Target(all[k].id) = all[k].target
      BY <3>2 DEF Target
    <3>4. all[k].target \in Targets(Unapplied)
      BY <3>1, <3>3 DEF Targets
    <3> QED
      BY <1>7, <3>4
  <2>2. Drawn(all, s) <=> Drawn(es, s)
    BY <1>1, <1>2, <2>1 DEF Drawn
  <2>3. EditsOf(all, s) = EditsOf(es, s) /\ EditsOf(es, s) \subseteq 1..n
    BY <1>1, <1>2, <2>1 DEF EditsOf
  <2>4. LastUndone(all, s) <=> LastUndone(es, s)
    BY <1>1, <2>3 DEF LastUndone
  <2>5. /\ Has(applied.visible, s) <=> Drawn(es, s) /\ ~LastUndone(es, s)
        /\ Has(board.visible, s) <=> Drawn(all, s) /\ ~LastUndone(all, s)
    BY <1>0 DEF BoardOK, es, all
  <2> QED
    BY <2>2, <2>4, <2>5
<1>8. ASSUME NEW s \in Nat
      PROVE  /\ Has(applied.visible, s) => Drawn(es, s)
             /\ Double(applied.visible, s) => DrawnTwice(es, s)
  BY <1>0 DEF BoardOK, es
<1> QED
  BY <1>4, <1>5, <1>6, <1>7, <1>8 DEF all

JoinStep(c) == getStrokes(c) \/ joinAck(c)

LEMMA JoinStepKeeps ==
  ASSUME FrontendInv, NEW c \in Client, JoinStep(c)
  PROVE  FrontendInv'
<1>0. FrontendType /\ BoardOK(board) /\ ReadsOld /\ DoublesDrawnTwice /\ OpenOnly /\ EventsNumbered
  BY DEF FrontendInv
<1>1. /\ session \in [Client -> {"none", "joined", "read", "acked"}]
      /\ reading \in [Client -> Read] /\ toClient \in [Client -> Seq(JoinAck \cup Notice)]
      /\ disputed \in [Client -> SUBSET Nat] /\ phase \in Seq(Phase) /\ noRead \in Read
  BY <1>0, EmptySeq DEF FrontendType, noRead, Read
<1>2. \A d \in Client :
        /\ reading[d].of \cup reading[d].lacks \subseteq Committed
        /\ \A s \in Nat : Double(reading[d].strokes, s) => DrawnTwice(board.events, s)
  BY <1>0 DEF ReadsOld, DoublesDrawnTwice
<1>3. noRead.of \cup noRead.lacks \subseteq Committed /\ \A s \in Nat : ~Double(noRead.strokes, s)
  BY DEF noRead, Double
<1>4. CASE getStrokes(c)
  <2> DEFINE full == [strokes |-> applied.visible, of |-> Committed \ Unapplied,
                      lacks |-> Unapplied, confirmed |-> TRUE]
  <2>1. /\ session[c] = "joined" /\ session' = [session EXCEPT ![c] = "read"]
        /\ faults' = faults \/ Fault
        /\ UNCHANGED <<gatewayRest, toClient, phase, board, clusterVars, disputed>>
    BY <1>4 DEF getStrokes, clusterVars
  <2>2. PICK r : r \in {full, noRead} /\ reading' = [reading EXCEPT ![c] = r]
    BY <1>4 DEF getStrokes
  <2>3. /\ r \in Read /\ r.of \cup r.lacks \subseteq Committed
        /\ \A s \in Nat : Double(r.strokes, s) => DrawnTwice(board.events, s)
    <3>0. Committed \subseteq Nat
      BY <1>0 DEF BoardOK, EventsNumbered, Committed, Event, FrontendType
    <3>1. /\ applied.visible \in Seq(Nat) /\ Unapplied \subseteq Committed
          /\ \A s \in Nat : Double(applied.visible, s) => DrawnTwice(board.events, s)
      BY AppliedIs
    <3>2. /\ full \in Read /\ full.strokes = applied.visible
          /\ full.of = Committed \ Unapplied /\ full.lacks = Unapplied
      BY <3>0, <3>1 DEF Read
    <3>3. CASE r = full
      BY <3>1, <3>2, <3>3
    <3>4. CASE r = noRead
      BY <1>1, <1>3, <3>4
    <3> QED
      BY <2>2, <3>3, <3>4
  <2>4. /\ session' \in [Client -> {"none", "joined", "read", "acked"}]
        /\ reading' \in [Client -> Read]
    BY <1>1, <2>1, <2>2, <2>3
  <2>5. ASSUME NEW d \in Client
        PROVE  /\ session'[d] /= "none" => session[d] /= "none"
               /\ reading'[d].of \cup reading'[d].lacks \subseteq Committed
               /\ \A s \in Nat : Double(reading'[d].strokes, s) => DrawnTwice(board.events, s)
    <3>1. CASE d = c
      BY <1>1, <2>1, <2>2, <2>3, <3>1
    <3>2. CASE d /= c
      BY <1>1, <1>2, <2>1, <2>2, <3>2
    <3> QED
      BY <3>1, <3>2
  <2>6. BoardGrows
    BY <2>1 DEF BoardGrows, clusterVars
  <2> QED
    BY <1>1, <2>1, <2>4, <2>5, <2>6, GatewayKeeps
<1>5. CASE joinAck(c)
  <2> DEFINE m == [type |-> "join_ack", strokes |-> reading[c].strokes,
                   of |-> reading[c].of, lacks |-> reading[c].lacks,
                   confirmed |-> reading[c].confirmed]
             q == toClient[c]
  <2>1. /\ session[c] = "read" /\ session' = [session EXCEPT ![c] = "acked"]
        /\ toClient' = [toClient EXCEPT ![c] = Append(q, m)]
        /\ reading' = [reading EXCEPT ![c] = noRead]
        /\ UNCHANGED <<gatewayRest, faults, phase, board, clusterVars, disputed>>
    BY <1>5 DEF joinAck, clusterVars
  <2>2. IsOpen(c)
    BY <1>0, <2>1 DEF OpenOnly
  <2>3. m \in JoinAck /\ \A es : Sendable(c, m, es)
    <3>1. reading[c] \in Read
      BY <1>1
    <3> QED
      BY <1>2, <3>1 DEF JoinAck, Read, Sendable
  <2> HIDE DEF m
  <2>4. q \in Seq(JoinAck \cup Notice) /\ Len(q) \in Nat /\ DOMAIN q = 1..Len(q)
    BY <1>1
  <2>5. /\ Append(q, m) \in Seq(JoinAck \cup Notice) /\ DOMAIN Append(q, m) = 1..(Len(q) + 1)
        /\ Append(q, m)[Len(q) + 1] = m /\ \A j \in 1..Len(q) : Append(q, m)[j] = q[j]
    BY <2>3, <2>4
  <2>6. \A k : k \in 1..(Len(q) + 1) <=> k \in 1..Len(q) \/ k = Len(q) + 1
    BY <2>4
  <2>7. /\ session' \in [Client -> {"none", "joined", "read", "acked"}]
        /\ reading' \in [Client -> Read] /\ toClient' \in [Client -> Seq(JoinAck \cup Notice)]
    BY <1>1, <2>1, <2>5
  <2>8. ASSUME NEW d \in Client, NEW es
        PROVE  /\ session'[d] /= "none" => session[d] /= "none"
               /\ reading'[d].of \cup reading'[d].lacks \subseteq Committed
               /\ \A s \in Nat : Double(reading'[d].strokes, s) => DrawnTwice(board.events, s)
               /\ toClient'[d] /= <<>> => toClient[d] /= <<>> \/ IsOpen(d)
               /\ \A k \in DOMAIN toClient'[d] :
                    \/ \E j \in DOMAIN toClient[d] : toClient'[d][k] = toClient[d][j]
                    \/ Sendable(d, toClient'[d][k], es)
    <3>1. CASE d = c
      <4>1. toClient'[c] = Append(q, m) /\ reading'[c] = noRead
        BY <1>1, <2>1
      <4>2. \A k \in DOMAIN toClient'[c] :
              \/ \E j \in DOMAIN toClient[c] : toClient'[c][k] = toClient[c][j]
              \/ Sendable(c, toClient'[c][k], es)
        BY <2>3, <2>4, <2>5, <2>6, <4>1
      <4> QED
        BY <1>3, <2>1, <2>2, <3>1, <4>1, <4>2
    <3>2. CASE d /= c
      <4>1. session'[d] = session[d] /\ toClient'[d] = toClient[d] /\ reading'[d] = reading[d]
        BY <1>1, <2>1, <3>2
      <4> QED
        BY <1>2, <4>1
    <3> QED
      BY <3>1, <3>2
  <2>9. BoardGrows
    BY <2>1 DEF BoardGrows, clusterVars
  <2> QED
    BY <1>1, <2>1, <2>7, <2>8, <2>9, GatewayKeeps
<1> QED
  BY <1>4, <1>5 DEF JoinStep

-----------------------------------------------------------------------------
(* The invariant.                                                          *)

\* A change of leader, or nothing at all.
LEMMA GatewayIdle ==
  ASSUME FrontendInv, becomeLeader \/ UNCHANGED vars
  PROVE  FrontendInv'
<1>0. /\ FrontendType /\ ConnInv /\ SocketsSuffice /\ BoardOK(board) /\ EventsNumbered /\ OpenOnly
      /\ ReadsOld /\ DoublesDrawnTwice /\ PendingSent /\ SeenEvents /\ NoticesOf
      /\ RollbacksReachable /\ ShownReachable
  BY DEF FrontendInv
<1>1. /\ UNCHANGED <<gatewayRest, session, reading, toClient, phase, disputed>>
      /\ faults' = faults \/ Fault
  BY DEF vars, becomeLeader, gatewayRest, gatewayVars, clientVars
<1>2. BoardGrows
  BY DEF BoardGrows, vars, becomeLeader, clusterVars
<1>3. /\ session' \in [Client -> {"none", "joined", "read", "acked"}]
      /\ reading' \in [Client -> Read] /\ toClient' \in [Client -> Seq(JoinAck \cup Notice)]
      /\ disputed' \in [Client -> SUBSET Nat] /\ phase' \in Seq(Phase)
  BY <1>0, <1>1 DEF FrontendType
<1>4. \A d \in Client :
        /\ reading[d].of \cup reading[d].lacks \subseteq Committed
        /\ \A s \in Nat : Double(reading[d].strokes, s) => DrawnTwice(board.events, s)
  BY <1>0 DEF ReadsOld, DoublesDrawnTwice
<1> QED
  BY <1>1, <1>2, <1>3, <1>4, GatewayKeeps

LEMMA FrontendStep == FrontendInv /\ [Next]_vars => FrontendInv'
<1> SUFFICES ASSUME FrontendInv, [Next]_vars PROVE FrontendInv'
  OBVIOUS
<1>1. ASSUME NEW c \in Client,
             SocketStep(c) \/ UserStep(c) \/ MessageStep(c) \/ JoinStep(c)
      PROVE  FrontendInv'
  BY <1>1, SocketStepKeeps, UserStepKeeps, MessageStepKeeps, JoinStepKeeps
<1>2. ASSUME NEW e \in Event, EventStep(e) PROVE FrontendInv'
  BY <1>2, EventStepKeeps
<1>3. CASE becomeLeader \/ UNCHANGED vars
  BY <1>3, GatewayIdle
<1>4. CASE Next
  BY <1>1, <1>2, <1>3, <1>4 DEF Next, SocketStep, UserStep, MessageStep, JoinStep, EventStep
<1> QED
  BY <1>3, <1>4

LEMMA FrontendInvHolds == Spec => []FrontendInv
<1>1. Init => FrontendInv
  BY FrontendStart
<1>2. FrontendInv /\ [Next]_vars => FrontendInv'
  BY FrontendStep
<1> QED
  BY <1>1, <1>2, PTL DEF Spec

-----------------------------------------------------------------------------
(* The canvas and the board.  What a client shows of a stroke differs from *)
(* the board by the events it has shown and the cluster does not have, and *)
(* by those the cluster has and the client will still be told of.  A       *)
(* stroke that is not raced has at most one of them for each client.       *)

Strokes == {s \in Event : events[s].action = "stroke"}
By(e) == events[e].by
Undoes(e) == events[e].action = "undo_stroke"
Shown(s) == Has(board.visible, s)

\* e was sent on the newest socket of c.
Own(c, e) == events[e].by = c /\ events[e].via = wsRef[c]

\* What is on its way to c.
At(c, k, type, e) == toClient[c][k].type = type /\ toClient[c][k].id = e
Told(c, e) == \E k \in DOMAIN toClient[c] : At(c, k, "stroke_broadcast", e)
Refused(c, e) == \E k \in DOMAIN toClient[c] : At(c, k, "error", e)
AckAt(c, k) == toClient[c][k].type = "join_ack"
Answers(c) ==
  {r \in {toClient[c][k] : k \in DOMAIN toClient[c]} : r.type = "join_ack"}
    \cup (IF session[c] = "read" THEN {reading[c]} ELSE {})

\* c has handled the join_ack of its socket.
Fresh(c) == session[c] = "acked" /\ \A k \in DOMAIN toClient[c] : ~AckAt(c, k)

Excepted(s) == s \in raced \/ s \in Targets(Unannounced)

SessionOpen == \A c \in Client : IsOpen(c) => session[c] /= "none"

\* An undo or a redo names an earlier stroke of the same user.
EditsOfStrokes ==
  \A e \in Event :
    /\ Target(e) \in Strokes /\ By(Target(e)) = By(e)
    /\ events[e].action /= "stroke" => Target(e) < e

OnlyStrokes(c) ==
  /\ \A s \in Nat : /\ Has(strokes[c], s) \/ s \in archive[c] => s \in Strokes
                    /\ Has(redoIds[c], s) => s \in Strokes /\ By(s) = c
  /\ \A r \in Answers(c) : \A s \in Nat : Has(r.strokes, s) => Drawn(board.events, s)

Sent(e) ==
  /\ events[e].via \in Socket
  /\ readyState[events[e].by][events[e].via] \notin {"none", "CONNECTING"}
  /\ SenderOpen(e) => e \in seen[events[e].by]

Phases ==
  \A e \in Event : /\ phase[e] \in {"committed", "late"} => e \in Committed
                   /\ phase[e] = "unsent" => e \notin Committed
                   /\ phase[e] /= "unsent" => Sent(e)

\* A broadcast follows the commit, and a failure is reported once, to the author.
NoticesTrue(c) ==
  \A e \in Event : \A k \in DOMAIN toClient[c] :
    /\ At(c, k, "stroke_broadcast", e) => phase[e] = "done" /\ e \in Committed
    /\ At(c, k, "error", e) =>
         By(e) = c /\ \A l \in DOMAIN toClient[c] : At(c, l, "error", e) => l = k

\* The author of a stroke that is not raced has heard of an edit before the next.
OneAtATime ==
  \A s \in Strokes \ raced : \A e, f \in Event :
    Target(e) = s /\ Target(f) = s /\ e < f /\ phase[f] /= "unsent" =>
      /\ phase[e] \in {"done", "late", "unsent"}
      /\ \A c \in Client : By(e) = c => ~Told(c, e) /\ ~Refused(c, e)

\* The edits are committed in the order they were made.
LastDecides ==
  \A s \in Strokes \ raced : \A e \in Committed :
    Target(e) = s /\ (\A f \in Committed : Target(f) = s => f <= e) =>
      (Shown(s) <=> ~Undoes(e) /\ Drawn(board.events, s))

\* And broadcast in that order.
InOrder(c) ==
  \A s \in Strokes : \A e \in Event, f \in Committed : \A k \in DOMAIN toClient[c] :
    ~Excepted(s) /\ Target(e) = s /\ Target(f) = s /\ e < f /\ At(c, k, "stroke_broadcast", e) =>
      \/ f \in InFlight
      \/ \E l \in DOMAIN toClient[c] : l > k /\ At(c, l, "stroke_broadcast", f)

\* What a read of the board does not have of s: c has seen it, or will, unless
\* the leader had yet to apply it.
Missed(c, of, s) ==
  \E e \in Committed \ of : Target(e) = s /\ (e \in seen[c] \/ Told(c, e) \/ e \in InFlight)

ReadAgrees(c, r) ==
  r.confirmed => \A s \in Strokes :
    \/ Excepted(s) \/ s \in Targets(r.lacks)
    \/ Has(r.strokes, s) <=> Shown(s)
    \/ Missed(c, r.of, s)

\* c shows e and the cluster does not have it; the cluster has e and will tell c.
Optimistic(c, s, e) ==
  Target(e) = s /\ Own(c, e) /\ e \notin Committed /\ (phase[e] = "sent" \/ Refused(c, e))
Awaited(c, s, e) ==
  Target(e) = s /\ (Told(c, e) \/ (e \in InFlight /\ e \in Committed /\ ~Own(c, e)))

ShowsItsOwn(c, s) ==
  \A e \in Event : Optimistic(c, s, e) => /\ Has(strokes[c], s) <=> ~Undoes(e)
                                          /\ Shown(s) <=> Undoes(e)
ShowsTheBoard(c, s) ==
  (\A e \in Event : ~Optimistic(c, s, e) /\ ~Awaited(c, s, e)) => (Has(strokes[c], s) <=> Shown(s))
ArchiveDrawn(c, s) ==
  s \in archive[c] => Drawn(board.events, s) \/ (Own(c, s) /\ phase[s] \in {"sent", "limbo"})
RedoUndone(c, s) ==
  Has(redoIds[c], s) =>
    /\ ~Has(strokes[c], s) /\ ~Double(redoIds[c], s)
    /\ \A e \in Event : Target(e) = s => ~Told(c, e) /\ (e \in InFlight => Own(c, e))

Agrees(c, s) ==
  ShowsItsOwn(c, s) /\ ShowsTheBoard(c, s) /\ ArchiveDrawn(c, s) /\ RedoUndone(c, s)

CanvasOf(c) ==
  /\ OnlyStrokes(c) /\ NoticesTrue(c) /\ InOrder(c)
  /\ \A r \in Answers(c) : ReadAgrees(c, r)
  /\ Fresh(c) => \A s \in Strokes : Excepted(s) \/ s \in disputed[c] \/ Agrees(c, s)

CanvasInv ==
  /\ SessionOpen /\ EditsOfStrokes /\ Phases /\ OneAtATime /\ LastDecides
  /\ \A c \in Client : CanvasOf(c)

\* The types, event by event and client by client.
LEMMA CanvasTypes ==
  ASSUME FrontendInv
  PROVE  /\ Event \subseteq Nat /\ Len(events) \in Nat /\ Event = 1..Len(events)
         /\ \A e \in Event : /\ events[e] \in Edit /\ By(e) \in Client /\ Target(e) \in Nat
                             /\ events[e].id = e /\ events[e].action \in Action
                             /\ events[e].action = "stroke" => Target(e) = e
                             /\ phase[e] \in Phase
         /\ Committed \subseteq Event /\ Strokes \subseteq Event
         /\ board.events \in Seq(Edit) /\ board.visible \in Seq(Nat)
         /\ \A c \in Client :
              /\ strokes[c] \in Seq(Nat) /\ redoIds[c] \in Seq(Nat) /\ archive[c] \subseteq Nat
              /\ seen[c] \subseteq Event /\ session[c] \in {"none", "joined", "read", "acked"}
              /\ toClient[c] \in Seq(JoinAck \cup Notice) /\ Len(toClient[c]) \in Nat
              /\ DOMAIN toClient[c] = 1..Len(toClient[c])
<1>0. FrontendType /\ EventsNumbered /\ SeenEvents /\ BoardOK(board)
  BY DEF FrontendInv
<1>1. events \in Seq(Edit) /\ Len(events) \in Nat /\ Event = 1..Len(events) /\ Event \subseteq Nat
  BY <1>0 DEF FrontendType, Event
<1>2. \A e \in Event : events[e] \in Edit /\ phase[e] \in Phase
  BY <1>0, <1>1 DEF FrontendType
<1>3. \A e \in Event : By(e) \in Client /\ Target(e) \in Nat /\ events[e].action \in Action
  BY <1>2 DEF By, Target, Edit
<1>4. Committed \subseteq Event /\ Strokes \subseteq Event
  BY <1>0 DEF EventsNumbered, Committed, Strokes
<1>5. ASSUME NEW c \in Client
      PROVE  /\ strokes[c] \in Seq(Nat) /\ redoIds[c] \in Seq(Nat) /\ archive[c] \subseteq Nat
             /\ seen[c] \subseteq Event /\ session[c] \in {"none", "joined", "read", "acked"}
             /\ toClient[c] \in Seq(JoinAck \cup Notice) /\ Len(toClient[c]) \in Nat
             /\ DOMAIN toClient[c] = 1..Len(toClient[c])
  BY <1>0 DEF FrontendType, SeenEvents
<1> QED
  BY <1>0, <1>1, <1>2, <1>3, <1>4, <1>5 DEF EventsNumbered, BoardOK

\* A stroke on the board is a stroke of a user.
LEMMA DrawnByUsers ==
  ASSUME FrontendInv, NEW s \in Nat
  PROVE  /\ Drawn(board.events, s) <=> s \in Strokes /\ s \in Committed
         /\ Shown(s) => Drawn(board.events, s)
<1>0. EventsNumbered /\ BoardOK(board)
  BY DEF FrontendInv
<1>1. ASSUME Drawn(board.events, s) PROVE s \in Strokes /\ s \in Committed
  <2>1. PICK k \in DOMAIN board.events :
          board.events[k].action = "stroke" /\ board.events[k].target = s
    BY <1>1 DEF Drawn
  <2> DEFINE e == board.events[k].id
  <2>2. e \in Event /\ board.events[k] = events[e]
    BY <1>0 DEF EventsNumbered
  <2>3. Target(e) = e
    BY <1>0, <2>1, <2>2 DEF EventsNumbered
  <2>4. e = s
    BY <2>1, <2>2, <2>3 DEF Target
  <2> QED
    BY <2>1, <2>2, <2>4 DEF Strokes, Committed
<1>2. ASSUME s \in Strokes, s \in Committed PROVE Drawn(board.events, s)
  <2>1. PICK k \in DOMAIN board.events : board.events[k].id = s
    BY <1>2 DEF Committed
  <2>2. board.events[k] = events[s] /\ events[s].action = "stroke"
    BY <1>0, <1>2, <2>1 DEF EventsNumbered, Strokes
  <2>3. Target(s) = s
    BY <1>0, <1>2, <2>2 DEF EventsNumbered, Strokes
  <2> QED
    BY <2>2, <2>3 DEF Drawn, Target
<1>3. Shown(s) => Drawn(board.events, s)
  BY <1>0 DEF BoardOK, Shown
<1> QED
  BY <1>1, <1>2, <1>3

\* The property follows: nothing is left that could make a difference.
LEMMA CanvasImplies ==
  ASSUME FrontendInv, CanvasInv
  PROVE  CanvasAgrees
<1> SUFFICES ASSUME NEW c \in Client, Quiet(c), NEW s \in Event, s \notin raced,
                    s \notin Targets(Unannounced), s \notin disputed[c]
             PROVE  Has(strokes[c], s) <=> Has(board.visible, s)
  BY DEF CanvasAgrees
<1>0. CanvasOf(c) /\ Event \subseteq Nat
  BY CanvasTypes DEF CanvasInv
<1>1. CASE s \in Strokes
  <2>1. session[c] = "acked" /\ toClient[c] = <<>> /\ InFlight = {}
    BY DEF Quiet
  <2>2. DOMAIN toClient[c] = {}
    BY <2>1
  <2>3. Fresh(c)
    BY <2>1, <2>2 DEF Fresh
  <2>4. ShowsTheBoard(c, s)
    BY <1>0, <1>1, <2>3 DEF CanvasOf, Excepted, Agrees
  <2>5. \A e \in Event : phase[e] /= "sent"
    BY <2>1 DEF InFlight
  <2>6. \A e \in Event : ~Optimistic(c, s, e) /\ ~Awaited(c, s, e)
    BY <2>1, <2>2, <2>5 DEF Optimistic, Awaited, Told, Refused
  <2> QED
    BY <2>4, <2>6 DEF ShowsTheBoard, Shown
<1>2. CASE s \notin Strokes
  <2>1. ~Has(strokes[c], s)
    BY <1>0, <1>2 DEF CanvasOf, OnlyStrokes
  <2>2. ~Shown(s)
    BY <1>0, <1>2, DrawnByUsers
  <2> QED
    BY <2>1, <2>2 DEF Shown
<1> QED
  BY <1>1, <1>2

LEMMA CanvasStart == Init => CanvasInv
<1> SUFFICES ASSUME Init PROVE CanvasInv
  OBVIOUS
<1>0. Event = {} /\ Strokes = {}
  BY DEF Init, Event, Strokes
<1>1. Committed = {}
  BY DEF Init, Committed, emptyBoard
<1>2. SessionOpen
  BY DEF Init, ConnInit, SessionOpen, IsOpen, RefState
<1>3. EditsOfStrokes /\ Phases /\ OneAtATime /\ LastDecides
  BY <1>0, <1>1 DEF EditsOfStrokes, Phases, OneAtATime, LastDecides
<1>4. ASSUME NEW c \in Client PROVE CanvasOf(c)
  <2>1. /\ strokes[c] = <<>> /\ redoIds[c] = <<>> /\ archive[c] = {} /\ toClient[c] = <<>>
        /\ session[c] \in {"acked", "none"}
    BY DEF Init
  <2>2. DOMAIN <<>> = {} /\ DOMAIN toClient[c] = {}
    BY <2>1
  <2>3. Answers(c) = {}
    BY <2>1, <2>2 DEF Answers
  <2>4. OnlyStrokes(c)
    BY <2>1, <2>2, <2>3 DEF OnlyStrokes, Has
  <2>5. NoticesTrue(c) /\ InOrder(c)
    BY <1>0 DEF NoticesTrue, InOrder
  <2> QED
    BY <1>0, <2>3, <2>4, <2>5 DEF CanvasOf
<1> QED
  BY <1>2, <1>3, <1>4 DEF CanvasInv

-----------------------------------------------------------------------------
(* What a step leaves alone.                                               *)

LEMMA EventsKept ==
  ASSUME UNCHANGED events
  PROVE  /\ Event' = Event /\ Strokes' = Strokes
         /\ \A es : Targets(es)' = Targets(es)
         /\ \A e : /\ Target(e)' = Target(e) /\ By(e)' = By(e)
                   /\ Undoes(e)' <=> Undoes(e)
BY DEF Event, Strokes, Targets, Target, By, Undoes

LEMMA BoardKept ==
  ASSUME UNCHANGED <<events, board, phase>>
  PROVE  /\ Committed' = Committed /\ InFlight' = InFlight
         /\ \A s : (Shown(s)' <=> Shown(s)) /\ (s \in Targets(Unannounced)' <=> s \in Targets(Unannounced))
BY DEF Committed, InFlight, Event, Shown, Targets, Target, Unannounced

\* The notices of a client that stay in their places.
LEMMA NoticesKept ==
  ASSUME NEW c \in Client, toClient'[c] = toClient[c]
  PROVE  /\ \A k, type, e : At(c, k, type, e)' <=> At(c, k, type, e)
         /\ \A e : (Told(c, e)' <=> Told(c, e)) /\ (Refused(c, e)' <=> Refused(c, e))
         /\ \A k : AckAt(c, k)' <=> AckAt(c, k)
BY DEF At, Told, Refused, AckAt

\* A client that nothing reaches.
LEMMA CanvasKept ==
  ASSUME NEW c \in Client, CanvasOf(c), UNCHANGED <<events, phase, board, raced>>,
         session'[c] = session[c], reading'[c] = reading[c], toClient'[c] = toClient[c],
         strokes'[c] = strokes[c], redoIds'[c] = redoIds[c], archive'[c] = archive[c],
         disputed'[c] = disputed[c], seen'[c] = seen[c], wsRef'[c] = wsRef[c]
  PROVE  CanvasOf(c)'
<1>1. /\ Event' = Event /\ Strokes' = Strokes /\ \A es : Targets(es)' = Targets(es)
      /\ \A e : Target(e)' = Target(e) /\ By(e)' = By(e) /\ (Undoes(e)' <=> Undoes(e))
  BY EventsKept
<1>2. /\ Committed' = Committed /\ InFlight' = InFlight
      /\ \A s : Shown(s)' <=> Shown(s)
      /\ \A s : Excepted(s)' <=> Excepted(s)
  BY BoardKept DEF Excepted
<1>3. /\ \A k, type, e : At(c, k, type, e)' <=> At(c, k, type, e)
      /\ \A e : (Told(c, e)' <=> Told(c, e)) /\ (Refused(c, e)' <=> Refused(c, e))
      /\ Answers(c)' = Answers(c) /\ (Fresh(c)' <=> Fresh(c))
      /\ \A e : Own(c, e)' <=> Own(c, e)
  BY NoticesKept DEF Answers, Fresh, Own
<1>4. OnlyStrokes(c)'
  BY <1>1, <1>3 DEF CanvasOf, OnlyStrokes
<1>5. NoticesTrue(c)' /\ InOrder(c)'
  BY <1>1, <1>2, <1>3 DEF CanvasOf, NoticesTrue, InOrder
<1>6. \A r \in Answers(c)' : ReadAgrees(c, r)'
  BY <1>1, <1>2, <1>3 DEF CanvasOf, ReadAgrees, Missed
<1>7. \A s, e : /\ Optimistic(c, s, e)' <=> Optimistic(c, s, e)
                /\ Awaited(c, s, e)' <=> Awaited(c, s, e)
  BY <1>1, <1>2, <1>3 DEF Optimistic, Awaited
<1>8. \A s : Agrees(c, s)' <=> Agrees(c, s)
  BY <1>1, <1>2, <1>3, <1>7 DEF Agrees, ShowsItsOwn, ShowsTheBoard, ArchiveDrawn, RedoUndone
<1> QED
  BY <1>1, <1>2, <1>3, <1>4, <1>5, <1>6, <1>8 DEF CanvasOf

-----------------------------------------------------------------------------
(* The steps of the sockets: a client keeps what it has, or starts anew.   *)

\* A client whose socket is gone, or has just opened.
LEMMA CanvasReset ==
  ASSUME NEW c \in Client, CanvasOf(c), UNCHANGED <<events, board, strokes, redoIds, archive>>,
         session'[c] \notin {"read", "acked"}, toClient'[c] = <<>>
  PROVE  CanvasOf(c)'
<1>0. /\ Event' = Event /\ Strokes' = Strokes /\ \A e : By(e)' = By(e)
  BY EventsKept
<1>1. DOMAIN toClient'[c] = {}
  BY EmptySeq
<1>2. Answers(c)' = {} /\ ~Fresh(c)'
  BY <1>1 DEF Answers, Fresh
<1>3. OnlyStrokes(c)'
  BY <1>0, <1>2 DEF CanvasOf, OnlyStrokes
<1>4. NoticesTrue(c)' /\ InOrder(c)'
  BY <1>1 DEF NoticesTrue, InOrder
<1> QED
  BY <1>2, <1>3, <1>4 DEF CanvasOf

LEMMA SocketCanvas ==
  ASSUME FrontendInv, CanvasInv, NEW c \in Client, UNCHANGED boardRest,
         \A d \in Client \ {c} : /\ session'[d] = session[d] /\ reading'[d] = reading[d]
                                 /\ toClient'[d] = toClient[d] /\ seen'[d] = seen[d]
                                 /\ readyState'[d] = readyState[d] /\ wsRef'[d] = wsRef[d],
         IsOpen(c)' => session'[c] /= "none",
         \A k \in Socket : readyState[c][k] \notin {"none", "CONNECTING"} =>
           /\ readyState'[c][k] \notin {"none", "CONNECTING"}
           /\ IsOpen(c)' /\ wsRef'[c] = k => IsOpen(c) /\ wsRef[c] = k /\ seen'[c] = seen[c],
         \/ session'[c] \notin {"read", "acked"} /\ toClient'[c] = <<>>
         \/ /\ session'[c] = session[c] /\ reading'[c] = reading[c] /\ toClient'[c] = toClient[c]
            /\ seen'[c] = seen[c] /\ wsRef'[c] = wsRef[c]
  PROVE  CanvasInv'
<1>0. /\ UNCHANGED <<strokes, redoIds, archive, phase, board, events, disputed, raced>>
      /\ \A d \in Client : CanvasOf(d)
  BY DEF boardRest, clusterVars, CanvasInv
<1>1. /\ Event' = Event /\ Strokes' = Strokes
      /\ \A e : Target(e)' = Target(e) /\ By(e)' = By(e) /\ (Undoes(e)' <=> Undoes(e))
  BY <1>0, EventsKept
<1>2. /\ Committed' = Committed /\ \A s : Shown(s)' <=> Shown(s)
  BY <1>0, BoardKept
<1>3. ASSUME NEW d \in Client
      PROVE  CanvasOf(d)' /\ \A e : (Told(d, e)' => Told(d, e)) /\ (Refused(d, e)' => Refused(d, e))
  <2>1. CASE session'[d] \notin {"read", "acked"} /\ toClient'[d] = <<>>
    <3>1. DOMAIN toClient'[d] = {}
      BY <2>1, EmptySeq
    <3>2. \A e : ~Told(d, e)' /\ ~Refused(d, e)'
      BY <3>1 DEF Told, Refused
    <3> QED
      BY <1>0, <2>1, <3>2, CanvasReset
  <2>2. CASE /\ session'[d] = session[d] /\ reading'[d] = reading[d] /\ toClient'[d] = toClient[d]
             /\ seen'[d] = seen[d] /\ wsRef'[d] = wsRef[d]
    BY <1>0, <2>2, CanvasKept, NoticesKept
  <2> QED
    BY <2>1, <2>2
<1>4. SessionOpen'
  <2>1. \A d \in Client \ {c} : IsOpen(d)' <=> IsOpen(d)
    BY DEF IsOpen, RefState
  <2> QED
    BY <2>1 DEF CanvasInv, SessionOpen
<1>5. Phases'
  <2> SUFFICES ASSUME NEW e \in Event, phase[e] /= "unsent" PROVE Sent(e)'
    BY <1>0, <1>1, <1>2 DEF CanvasInv, Phases
  <2>1. Sent(e) /\ events[e].by \in Client
    BY CanvasTypes DEF CanvasInv, Phases, By
  <2>2. CASE events[e].by = c
    BY <1>0, <2>1, <2>2 DEF Sent, SenderOpen
  <2>3. CASE events[e].by /= c
    <3>1. /\ readyState'[events[e].by] = readyState[events[e].by]
          /\ wsRef'[events[e].by] = wsRef[events[e].by] /\ seen'[events[e].by] = seen[events[e].by]
      BY <2>1, <2>3
    <3>2. SenderOpen(e)' <=> SenderOpen(e)
      BY <1>0, <3>1 DEF SenderOpen, IsOpen, RefState
    <3> QED
      BY <1>0, <2>1, <3>1, <3>2 DEF Sent
  <2> QED
    BY <2>2, <2>3
<1>6. OneAtATime'
  BY <1>0, <1>1, <1>3 DEF CanvasInv, OneAtATime
<1>7. LastDecides'
  BY <1>0, <1>1, <1>2 DEF CanvasInv, LastDecides
<1>8. EditsOfStrokes'
  BY <1>0, <1>1 DEF CanvasInv, EditsOfStrokes
<1> QED
  BY <1>3, <1>4, <1>5, <1>6, <1>7, <1>8 DEF CanvasInv

LEMMA SocketStepCanvas ==
  ASSUME FrontendInv, FrontendInv', CanvasInv, NEW c \in Client, SocketStep(c)
  PROVE  CanvasInv'
<1>0. /\ ConnInv /\ ConnInv' /\ SocketsSuffice /\ SocketsSuffice' /\ ConnType /\ FrontendType
      /\ OpenOnly /\ SessionOpen
  BY DEF FrontendInv, ConnInv, CanvasInv
<1>1. /\ session \in [Client -> {"none", "joined", "read", "acked"}]
      /\ reading \in [Client -> Read] /\ toClient \in [Client -> Seq(JoinAck \cup Notice)]
      /\ seen \in [Client -> SUBSET Nat]
  BY <1>0 DEF FrontendType
<1>2. /\ session[c] /= "none" \/ toClient[c] /= <<>> => IsOpen(c)
      /\ IsOpen(c) => session[c] /= "none"
  BY <1>0 DEF OpenOnly, SessionOpen
<1>3. ConnNext(c) => \A d \in Client \ {c} : readyState'[d] = readyState[d] /\ wsRef'[d] = wsRef[d]
  BY <1>0, OthersKept
<1>4. ASSUME connect(c), ConnNext(c), UNCHANGED <<boardRest, session, reading, toClient, seen>>
      PROVE  CanvasInv'
  <2>1. /\ IsOpen(c)' <=> IsOpen(c)
        /\ IsOpen(c) => wsRef'[c] = wsRef[c]
        /\ \A k \in Socket : readyState[c][k] \notin {"none", "CONNECTING"}
                               => readyState'[c][k] = readyState[c][k]
    BY <1>0, <1>4, ConnectOpens
  <2>2. CASE IsOpen(c)
    BY <1>2, <1>3, <1>4, <2>1, <2>2, SocketCanvas
  <2>3. CASE ~IsOpen(c)
    BY <1>2, <1>3, <1>4, <2>1, <2>3, SocketCanvas
  <2> QED
    BY <2>2, <2>3
<1>5. CASE Mounts(c)
  BY <1>4, <1>5 DEF Mounts, effect, ConnNext
<1>6. ASSUME NEW k \in Socket, TimerFires(c, k) PROVE CanvasInv'
  <2>1. connect(c) /\ ConnNext(c)
    BY <1>6 DEF TimerFires, reconnects, ConnNext
  <2> QED
    BY <1>4, <1>6, <2>1 DEF TimerFires
<1>7. ASSUME ConnNext(c), SocketGone(c), UNCHANGED <<boardRest, seen>>, ~IsOpen(c)',
             \A k \in Socket : readyState[c][k] \notin {"none", "CONNECTING"}
                                 => readyState'[c][k] \notin {"none", "CONNECTING"}
      PROVE  CanvasInv'
  <2>1. /\ session' = [session EXCEPT ![c] = "none"] /\ reading' = [reading EXCEPT ![c] = noRead]
        /\ toClient' = [toClient EXCEPT ![c] = <<>>]
    BY <1>7 DEF SocketGone
  <2>2. \A d \in Client \ {c} : /\ session'[d] = session[d] /\ reading'[d] = reading[d]
                                /\ toClient'[d] = toClient[d] /\ seen'[d] = seen[d]
    BY <1>1, <1>7, <2>1
  <2>3. session'[c] = "none" /\ toClient'[c] = <<>>
    BY <1>1, <2>1
  <2> QED
    BY <1>3, <1>7, <2>2, <2>3, SocketCanvas
<1>8. CASE Unmounts(c)
  <2>1. ConnNext(c) /\ SocketGone(c) /\ UNCHANGED <<boardRest, seen>>
    BY <1>8 DEF Unmounts, ConnNext
  <2>2. /\ readyState' = IF RefState(c) \in Live
                         THEN [readyState EXCEPT ![c][wsRef[c]] = "CLOSING"] ELSE readyState
        /\ wsRef' = wsRef
    BY <1>8 DEF Unmounts, cleanup
  <2>3. wsRef[c] = 0 \/ wsRef[c] \in Socket
    BY <1>0, RefIsASocket
  <2>4. CASE RefState(c) \in Live
    <3>1. wsRef[c] \in Socket /\ wsRef[c] /= 0
      BY <2>3, <2>4 DEF RefState, Live
    <3>2. \A k \in Socket :
            readyState'[c][k] = IF k = wsRef[c] THEN "CLOSING" ELSE readyState[c][k]
      BY <1>0, <2>2, <2>4 DEF ConnType
    <3>3. ~IsOpen(c)'
      BY <2>2, <3>1, <3>2 DEF IsOpen, RefState
    <3> QED
      BY <1>7, <2>1, <3>2, <3>3
  <2>5. CASE RefState(c) \notin Live
    BY <1>7, <2>1, <2>2, <2>5 DEF IsOpen, RefState, Live
  <2> QED
    BY <2>4, <2>5
<1>9. ASSUME NEW k \in Socket, Opens(c, k) PROVE CanvasInv'
  <2>1. ConnNext(c) /\ UNCHANGED <<boardRest, reading, toClient>>
    BY <1>9 DEF Opens, ConnNext
  <2>2. /\ session' = [session EXCEPT ![c] = "joined"] /\ seen' = [seen EXCEPT ![c] = {}]
        /\ readyState[c][k] = "CONNECTING" /\ wsRef' = wsRef
        /\ readyState' = [readyState EXCEPT ![c][k] = "OPEN"]
    BY <1>9 DEF Opens, onopen
  <2>3. k = wsRef[c] /\ ~IsOpen(c)
    BY <1>0, <2>2 DEF ConnInv, NewestLive, Live, IsOpen, RefState
  <2>4. \A j \in Socket : readyState'[c][j] = IF j = k THEN "OPEN" ELSE readyState[c][j]
    BY <1>0, <2>2 DEF ConnType
  <2>5. \A d \in Client \ {c} : /\ session'[d] = session[d] /\ reading'[d] = reading[d]
                                /\ toClient'[d] = toClient[d] /\ seen'[d] = seen[d]
    BY <1>1, <2>1, <2>2
  <2>6. session'[c] = "joined" /\ toClient'[c] = <<>>
    BY <1>1, <1>2, <2>1, <2>2, <2>3
  <2>7. \A j \in Socket : readyState[c][j] \notin {"none", "CONNECTING"} =>
          readyState'[c][j] \notin {"none", "CONNECTING"} /\ wsRef'[c] /= j
    BY <2>2, <2>3, <2>4
  <2> QED
    BY <1>3, <2>1, <2>5, <2>6, <2>7, SocketCanvas
<1>10. ASSUME NEW k \in Socket, Closes(c, k) PROVE CanvasInv'
  <2>1. ConnNext(c) /\ UNCHANGED <<boardRest, seen>>
    BY <1>10 DEF Closes, ConnNext
  <2>2. readyState' = [readyState EXCEPT ![c][k] = "CLOSED"] /\ wsRef' = wsRef
    BY <1>10 DEF Closes, onclose
  <2>3. \A j \in Socket : readyState'[c][j] = IF j = k THEN "CLOSED" ELSE readyState[c][j]
    BY <1>0, <2>2 DEF ConnType
  <2>4. k /= 0
    BY ConnectionAssumption DEF Socket
  <2>5. wsRef[c] = 0 \/ wsRef[c] \in Socket
    BY <1>0, RefIsASocket
  <2>6. CASE k = wsRef[c]
    <3>1. SocketGone(c)
      BY <1>10, <2>6 DEF Closes
    <3>2. ~IsOpen(c)'
      BY <2>2, <2>3, <2>4, <2>6 DEF IsOpen, RefState
    <3> QED
      BY <1>7, <2>1, <2>3, <3>1, <3>2
  <2>7. CASE k /= wsRef[c]
    <3>1. UNCHANGED <<session, reading, toClient>>
      BY <1>10, <2>7 DEF Closes
    <3>2. IsOpen(c)' <=> IsOpen(c)
      BY <2>2, <2>3, <2>5, <2>7 DEF IsOpen, RefState
    <3> QED
      BY <1>2, <1>3, <2>1, <2>2, <2>3, <3>1, <3>2, SocketCanvas
  <2> QED
    BY <2>6, <2>7
<1> QED
  BY <1>5, <1>6, <1>8, <1>9, <1>10 DEF SocketStep

-----------------------------------------------------------------------------
(* The joins.                                                              *)

\* One more message for c.
LEMMA NoticeAdded ==
  ASSUME FrontendInv, NEW c \in Client, NEW m \in JoinAck \cup Notice,
         toClient'[c] = Append(toClient[c], m)
  PROVE  \E n \in Nat :
           /\ n \notin DOMAIN toClient[c] /\ DOMAIN toClient'[c] = DOMAIN toClient[c] \cup {n}
           /\ \A k \in DOMAIN toClient[c] : k \in Nat /\ n > k
           /\ \A k \in DOMAIN toClient[c] : toClient'[c][k] = toClient[c][k]
           /\ toClient'[c][n] = m
           /\ \A k \in DOMAIN toClient[c] : \A type, e : At(c, k, type, e)' <=> At(c, k, type, e)
           /\ \A type, e : At(c, n, type, e)' <=> m.type = type /\ m.id = e
           /\ \A e : Told(c, e)' <=> Told(c, e) \/ (m.type = "stroke_broadcast" /\ m.id = e)
           /\ \A e : Refused(c, e)' <=> Refused(c, e) \/ (m.type = "error" /\ m.id = e)
           /\ m.type /= "join_ack" =>
                /\ session'[c] = session[c] /\ reading'[c] = reading[c] => Answers(c)' = Answers(c)
                /\ session'[c] = session[c] => (Fresh(c)' <=> Fresh(c))
<1> DEFINE q == Append(toClient[c], m)
<1>1. PICK n \in Nat : n = Len(toClient[c]) + 1
  BY CanvasTypes
<1>2. /\ toClient[c] \in Seq(JoinAck \cup Notice) /\ DOMAIN toClient[c] = 1..(n - 1)
      /\ DOMAIN q = 1..n /\ q[n] = m /\ \A k \in 1..(n - 1) : q[k] = toClient[c][k]
  BY <1>1, CanvasTypes
<1>3. /\ n \notin DOMAIN toClient[c] /\ DOMAIN toClient'[c] = DOMAIN toClient[c] \cup {n}
      /\ \A k \in DOMAIN toClient[c] : k \in Nat /\ n > k
      /\ \A k \in DOMAIN toClient[c] : toClient'[c][k] = toClient[c][k]
      /\ toClient'[c][n] = m
  BY <1>1, <1>2
<1> HIDE DEF q
<1>4. /\ \A k \in DOMAIN toClient[c] : \A type, e : At(c, k, type, e)' <=> At(c, k, type, e)
      /\ \A type, e : At(c, n, type, e)' <=> m.type = type /\ m.id = e
  BY <1>3 DEF At
<1>5. /\ \A e : Told(c, e)' <=> Told(c, e) \/ (m.type = "stroke_broadcast" /\ m.id = e)
      /\ \A e : Refused(c, e)' <=> Refused(c, e) \/ (m.type = "error" /\ m.id = e)
  BY <1>3, <1>4 DEF Told, Refused
<1>6. ASSUME m.type /= "join_ack", session'[c] = session[c], reading'[c] = reading[c]
      PROVE  Answers(c)' = Answers(c)
  BY <1>3, <1>6 DEF Answers
<1>7. ASSUME m.type /= "join_ack", session'[c] = session[c]
      PROVE  Fresh(c)' <=> Fresh(c)
  BY <1>3, <1>7 DEF Fresh, AckAt
<1> QED
  BY <1>3, <1>4, <1>5, <1>6, <1>7

\* What is not about one client, when no event moves on.
LEMMA EventsAsBefore ==
  ASSUME FrontendInv, CanvasInv, UNCHANGED <<events, phase, board, raced, readyState, wsRef>>,
         \A c \in Client : /\ seen[c] \subseteq seen'[c]
                           /\ session[c] /= "none" => session'[c] /= "none"
                           /\ \A e : (Told(c, e)' => Told(c, e)) /\ (Refused(c, e)' => Refused(c, e))
  PROVE  SessionOpen' /\ EditsOfStrokes' /\ Phases' /\ OneAtATime' /\ LastDecides'
<1>1. /\ Event' = Event /\ Strokes' = Strokes
      /\ \A e : Target(e)' = Target(e) /\ By(e)' = By(e) /\ (Undoes(e)' <=> Undoes(e))
  BY EventsKept
<1>2. Committed' = Committed /\ \A s : Shown(s)' <=> Shown(s)
  BY BoardKept
<1>3. SessionOpen'
  BY DEF CanvasInv, SessionOpen, IsOpen, RefState
<1>4. Phases'
  <2> SUFFICES ASSUME NEW e \in Event, phase[e] /= "unsent" PROVE Sent(e)'
    BY <1>1, <1>2 DEF CanvasInv, Phases
  <2>1. Sent(e) /\ events[e].by \in Client
    BY CanvasTypes DEF CanvasInv, Phases, By
  <2>2. SenderOpen(e)' <=> SenderOpen(e)
    BY DEF SenderOpen, IsOpen, RefState
  <2> QED
    BY <2>1, <2>2 DEF Sent
<1>5. OneAtATime'
  BY <1>1 DEF CanvasInv, OneAtATime
<1>6. LastDecides' /\ EditsOfStrokes'
  BY <1>1, <1>2 DEF CanvasInv, LastDecides, EditsOfStrokes
<1> QED
  BY <1>3, <1>4, <1>5, <1>6

LEMMA JoinStepCanvas ==
  ASSUME FrontendInv, CanvasInv, NEW c \in Client, JoinStep(c)
  PROVE  CanvasInv'
<1>0. /\ session \in [Client -> {"none", "joined", "read", "acked"}]
      /\ reading \in [Client -> Read] /\ toClient \in [Client -> Seq(JoinAck \cup Notice)]
      /\ \A d \in Client : CanvasOf(d)
  BY DEF FrontendInv, FrontendType, CanvasInv
<1>1. /\ UNCHANGED <<events, phase, board, raced, readyState, wsRef, strokes, redoIds, archive,
                     disputed, seen>>
  BY DEF JoinStep, getStrokes, joinAck, gatewayRest, connVars, clientVars, clusterVars
<1>2. /\ Event' = Event /\ Strokes' = Strokes /\ \A es : Targets(es)' = Targets(es)
      /\ \A e : Target(e)' = Target(e) /\ By(e)' = By(e) /\ (Undoes(e)' <=> Undoes(e))
  BY <1>1, EventsKept
<1>3. /\ Committed' = Committed /\ InFlight' = InFlight
      /\ \A s : Shown(s)' <=> Shown(s)
      /\ \A s : Excepted(s)' <=> Excepted(s)
  BY <1>1, BoardKept DEF Excepted
<1>4. ASSUME \A d \in Client \ {c} : /\ session'[d] = session[d] /\ reading'[d] = reading[d]
                                     /\ toClient'[d] = toClient[d],
             session'[c] /= "none", ~Fresh(c)',
             \A e : (Told(c, e)' <=> Told(c, e)) /\ (Refused(c, e)' <=> Refused(c, e)),
             \A r \in Answers(c)' : r \in Answers(c) \/ ReadAgrees(c, r),
             \A r \in Answers(c)' : \A s \in Nat :
               r \in Answers(c) \/ (Has(r.strokes, s) => Drawn(board.events, s)),
             NoticesTrue(c)', InOrder(c)'
      PROVE  CanvasInv'
  <2>1. SessionOpen' /\ EditsOfStrokes' /\ Phases' /\ OneAtATime' /\ LastDecides'
    <3>1. ASSUME NEW d \in Client
          PROVE  /\ seen[d] \subseteq seen'[d]
                 /\ session[d] /= "none" => session'[d] /= "none"
                 /\ \A e : (Told(d, e)' => Told(d, e)) /\ (Refused(d, e)' => Refused(d, e))
      BY <1>1, <1>4, NoticesKept
    <3> QED
      BY <1>1, <3>1, EventsAsBefore
  <2>2. ASSUME NEW d \in Client \ {c} PROVE CanvasOf(d)'
    BY <1>0, <1>1, <1>4, CanvasKept
  <2>3. CanvasOf(c)'
    <3>1. OnlyStrokes(c)'
      BY <1>0, <1>1, <1>2, <1>4 DEF CanvasOf, OnlyStrokes
    <3>2. ASSUME NEW r, ReadAgrees(c, r) PROVE ReadAgrees(c, r)'
      BY <1>1, <1>2, <1>3, <1>4, <3>2 DEF ReadAgrees, Missed
    <3> QED
      BY <1>0, <1>4, <3>1, <3>2 DEF CanvasOf
  <2> QED
    BY <2>1, <2>2, <2>3 DEF CanvasInv
<1>5. CASE getStrokes(c)
  <2> DEFINE full == [strokes |-> applied.visible, of |-> Committed \ Unapplied,
                      lacks |-> Unapplied, confirmed |-> TRUE]
  <2>1. session' = [session EXCEPT ![c] = "read"] /\ toClient' = toClient
    BY <1>5 DEF getStrokes
  <2>2. PICK r : r \in {full, noRead} /\ reading' = [reading EXCEPT ![c] = r]
    BY <1>5 DEF getStrokes
  <2>3. ReadAgrees(c, r) /\ \A s \in Nat : Has(r.strokes, s) => Drawn(board.events, s)
    <3>1. CASE r = full
      <4>1. Strokes \subseteq Nat
        BY CanvasTypes
      <4>2. r.strokes = applied.visible /\ r.lacks = Unapplied
        BY <3>1
      <4> QED
        BY <4>1, <4>2, AppliedIs DEF ReadAgrees, Shown
    <3>2. CASE r = noRead
      BY <3>2 DEF ReadAgrees, noRead, Has
    <3> QED
      BY <2>2, <3>1, <3>2
  <2> HIDE DEF full
  <2>4. /\ \A d \in Client \ {c} : session'[d] = session[d] /\ reading'[d] = reading[d]
        /\ session'[c] = "read" /\ reading'[c] = r
    BY <1>0, <2>1, <2>2
  <2>5. /\ \A e : (Told(c, e)' <=> Told(c, e)) /\ (Refused(c, e)' <=> Refused(c, e))
        /\ \A k, type, e : At(c, k, type, e)' <=> At(c, k, type, e)
    BY <2>1, NoticesKept
  <2>6. \A x \in Answers(c)' : x \in Answers(c) \/ x = r
    BY <2>1, <2>4 DEF Answers
  <2>7. NoticesTrue(c)' /\ InOrder(c)'
    BY <1>0, <1>1, <1>2, <1>3, <2>1, <2>5 DEF CanvasOf, NoticesTrue, InOrder
  <2>8. ~Fresh(c)'
    BY <2>4 DEF Fresh
  <2> QED
    BY <1>4, <2>1, <2>3, <2>4, <2>5, <2>6, <2>7, <2>8
<1>6. CASE joinAck(c)
  <2> DEFINE m == [type |-> "join_ack", strokes |-> reading[c].strokes,
                   of |-> reading[c].of, lacks |-> reading[c].lacks,
                   confirmed |-> reading[c].confirmed]
  <2>1. /\ session[c] = "read" /\ session' = [session EXCEPT ![c] = "acked"]
        /\ toClient' = [toClient EXCEPT ![c] = Append(toClient[c], m)]
        /\ reading' = [reading EXCEPT ![c] = noRead]
    BY <1>6 DEF joinAck
  <2>2. /\ m \in JoinAck /\ m.type = "join_ack" /\ m.strokes = reading[c].strokes
        /\ m.of = reading[c].of /\ m.lacks = reading[c].lacks
        /\ m.confirmed = reading[c].confirmed
    <3>1. reading[c] \in Read
      BY <1>0
    <3> QED
      BY <3>1 DEF JoinAck, Read
  <2> HIDE DEF m
  <2>3. /\ \A d \in Client \ {c} : /\ session'[d] = session[d] /\ reading'[d] = reading[d]
                                   /\ toClient'[d] = toClient[d]
        /\ session'[c] = "acked" /\ toClient'[c] = Append(toClient[c], m)
    BY <1>0, <2>1
  <2>4. PICK n \in Nat :
          /\ n \notin DOMAIN toClient[c] /\ DOMAIN toClient'[c] = DOMAIN toClient[c] \cup {n}
          /\ \A k \in DOMAIN toClient[c] : toClient'[c][k] = toClient[c][k]
          /\ toClient'[c][n] = m
          /\ \A k \in DOMAIN toClient[c] : \A type, e : At(c, k, type, e)' <=> At(c, k, type, e)
          /\ \A type, e : At(c, n, type, e)' <=> m.type = type /\ m.id = e
          /\ \A e : Told(c, e)' <=> Told(c, e) \/ (m.type = "stroke_broadcast" /\ m.id = e)
          /\ \A e : Refused(c, e)' <=> Refused(c, e) \/ (m.type = "error" /\ m.id = e)
    BY <2>2, <2>3, NoticeAdded
  <2>5. ~Fresh(c)'
    BY <2>2, <2>4 DEF Fresh, AckAt
  <2>6. \A x \in Answers(c)' : x \in Answers(c) \/ x = m
    BY <2>3, <2>4 DEF Answers
  <2>7. reading[c] \in Answers(c)
    BY <2>1 DEF Answers
  <2>8. ReadAgrees(c, m) /\ \A s \in Nat : Has(m.strokes, s) => Drawn(board.events, s)
    BY <1>0, <2>2, <2>7 DEF CanvasOf, OnlyStrokes, ReadAgrees
  <2>9. \A e : (Told(c, e)' <=> Told(c, e)) /\ (Refused(c, e)' <=> Refused(c, e))
    BY <2>2, <2>4
  <2>10. \A e : ~At(c, n, "stroke_broadcast", e)' /\ ~At(c, n, "error", e)'
    BY <2>2, <2>4
  <2>11. NoticesTrue(c)'
    BY <1>0, <1>1, <1>2, <1>3, <2>4, <2>10 DEF CanvasOf, NoticesTrue
  <2>12. InOrder(c)'
    BY <1>0, <1>1, <1>2, <1>3, <2>4, <2>10 DEF CanvasOf, InOrder
  <2> QED
    BY <1>4, <2>3, <2>5, <2>6, <2>8, <2>9, <2>11, <2>12
<1> QED
  BY <1>5, <1>6 DEF JoinStep

-----------------------------------------------------------------------------
(* One edit at a time.                                                     *)

\* e is being handled, or its author c is still to hear of it.
Busy(c, e) == phase[e] \in {"sent", "committed", "limbo"} \/ Told(c, e) \/ Refused(c, e)

LEMMA BusyWasSent ==
  ASSUME FrontendInv, CanvasInv, NEW c \in Client, NEW e \in Event, Busy(c, e)
  PROVE  phase[e] /= "unsent" /\ Sent(e)
<1>1. Told(c, e) => phase[e] = "done"
  BY DEF CanvasInv, CanvasOf, NoticesTrue, Told
<1>2. Refused(c, e) => phase[e] \in {"limbo", "late"}
  BY DEF FrontendInv, NoticesOf, Refused, At
<1> QED
  BY <1>1, <1>2 DEF Busy, CanvasInv, Phases

LEMMA OneBusy ==
  ASSUME FrontendInv, CanvasInv, NEW c \in Client, NEW s \in Strokes \ raced,
         NEW e \in Event, NEW f \in Event, Target(e) = s, Target(f) = s, e /= f,
         By(s) = c, Busy(c, e), phase[f] /= "unsent"
  PROVE  f < e /\ ~Busy(c, f)
<1>0. /\ OneAtATime /\ By(e) = c /\ By(f) = c /\ e \in Nat /\ f \in Nat
  BY CanvasTypes DEF CanvasInv, EditsOfStrokes
<1>1. phase[e] /= "unsent"
  BY BusyWasSent
<1>2. CASE e < f
  BY <1>0, <1>2 DEF OneAtATime, Busy
<1>3. CASE f < e
  BY <1>0, <1>1, <1>3 DEF OneAtATime, Busy
<1> QED
  BY <1>0, <1>2, <1>3

LEMMA OptimisticIsBusy ==
  ASSUME CanvasInv, NEW c \in Client, NEW s, NEW e \in Event, Optimistic(c, s, e)
  PROVE  Busy(c, e) /\ By(e) = c /\ By(s) = c /\ Target(e) = s
BY DEF Optimistic, Busy, Own, By, CanvasInv, EditsOfStrokes

\* What c has sent on the socket that is open has been shown on it.
LEMMA OwnIsSeen ==
  ASSUME FrontendInv, CanvasInv, NEW c \in Client, NEW e \in Event, Own(c, e), IsOpen(c),
         phase[e] /= "unsent"
  PROVE  e \in seen[c] /\ SenderOpen(e)
BY DEF CanvasInv, Phases, Sent, SenderOpen, Own

\* Fresh clients have a socket open.
LEMMA FreshIsOpen ==
  ASSUME FrontendInv, NEW c \in Client, session[c] /= "none" \/ toClient[c] /= <<>>
  PROVE  IsOpen(c)
BY DEF FrontendInv, OpenOnly

\* A stroke of which nothing changes.
LEMMA AgreesStill ==
  ASSUME NEW c \in Client, NEW s, Agrees(c, s), Event \subseteq Event',
         Has(strokes'[c], s) <=> Has(strokes[c], s), Shown(s)' <=> Shown(s),
         \A e \in Event' : Optimistic(c, s, e)' =>
           e \in Event /\ Optimistic(c, s, e) /\ (Undoes(e)' <=> Undoes(e)),
         \A e \in Event : Optimistic(c, s, e) \/ Awaited(c, s, e) =>
           Optimistic(c, s, e)' \/ Awaited(c, s, e)',
         ArchiveDrawn(c, s)', RedoUndone(c, s)'
  PROVE  Agrees(c, s)'
BY DEF Agrees, ShowsItsOwn, ShowsTheBoard

-----------------------------------------------------------------------------
(* The messages.                                                           *)

LEMMA ShownExactly ==
  ASSUME NEW cur \in Seq(Nat), NEW event \in Edit, NEW known
  PROVE  \A y : Has(applyStrokeEvent(cur, event, known), y) <=>
                  IF y /= event.target THEN Has(cur, y)
                  ELSE /\ event.action /= "undo_stroke"
                       /\ event.action = "redo_stroke" => Has(cur, y) \/ y \in known
<1> DEFINE s == event.target
           n == applyStrokeEvent(cur, event, known)
<1>0. s \in Nat /\ event.action \in {"stroke", "undo_stroke", "redo_stroke"}
  BY DEF Edit, Action
<1>1. CASE event.action = "undo_stroke"
  <2>1. n = Without(cur, s)
    BY <1>1 DEF applyStrokeEvent
  <2> QED
    BY <1>1, <2>1, WithoutHas
<1>2. CASE event.action /= "undo_stroke" /\ n = Append(cur, s)
  <2>1. \A y : Has(n, y) <=> Has(cur, y) \/ y = s
    BY <1>0, <1>2, AppendedHas
  <2>2. event.action = "redo_stroke" => s \in known \/ Has(cur, s)
    <3>1. CASE ~Has(cur, s) /\ s \notin known /\ event.action = "redo_stroke"
      <4>1. n = cur
        BY <3>1 DEF applyStrokeEvent
      <4>2. Has(cur, s)
        BY <2>1, <4>1
      <4> QED
        BY <3>1, <4>2
    <3> QED
      BY <3>1
  <2> HIDE DEF n, s
  <2>3. \A y : Has(n, y) <=>
                 IF y /= s THEN Has(cur, y)
                 ELSE /\ event.action /= "undo_stroke"
                      /\ event.action = "redo_stroke" => Has(cur, y) \/ y \in known
    BY <1>2, <2>1, <2>2
  <2> QED
    BY <2>3 DEF n, s
<1>3. CASE event.action /= "undo_stroke" /\ n /= Append(cur, s)
  <2>1. n = cur /\ (Has(cur, s) \/ (event.action = "redo_stroke" /\ s \notin known))
    BY <1>0, <1>3 DEF applyStrokeEvent
  <2> HIDE DEF n, s
  <2>2. \A y : Has(n, y) <=>
                 IF y /= s THEN Has(cur, y)
                 ELSE /\ event.action /= "undo_stroke"
                      /\ event.action = "redo_stroke" => Has(cur, y) \/ y \in known
    BY <1>3, <2>1
  <2> QED
    BY <2>2 DEF n, s
<1> QED
  BY <1>1, <1>2, <1>3

LEMMA RolledBackExactly ==
  ASSUME NEW cur \in Seq(Nat), NEW event \in Edit
  PROVE  \A y : Has(rolledBack(cur, event), y) <=>
                  IF y /= event.target THEN Has(cur, y) ELSE event.action = "undo_stroke"
<1> DEFINE s == event.target
           n == rolledBack(cur, event)
<1>0. s \in Nat
  BY DEF Edit
<1>1. CASE event.action /= "undo_stroke"
  <2>1. n = Without(cur, s)
    BY <1>1 DEF rolledBack
  <2> QED
    BY <1>1, <2>1, WithoutHas
<1>2. CASE event.action = "undo_stroke" /\ Has(cur, s)
  <2>1. n = cur
    BY <1>2 DEF rolledBack
  <2> QED
    BY <1>2, <2>1
<1>3. CASE event.action = "undo_stroke" /\ ~Has(cur, s)
  <2>1. n = Append(cur, s)
    BY <1>3 DEF rolledBack
  <2> QED
    BY <1>0, <1>3, <2>1, AppendedHas
<1> QED
  BY <1>1, <1>2, <1>3

LEMMA RedoRolledBackExactly ==
  ASSUME NEW ids \in Seq(Nat), NEW event \in Edit
  PROVE  LET n == redoRolledBack(ids, event)
             s == event.target
         IN  /\ \A y : y /= s => (Has(n, y) <=> Has(ids, y)) /\ (Double(n, y) => Double(ids, y))
             /\ event.action = "undo_stroke" => ~Has(n, s)
             /\ event.action = "redo_stroke" => (Double(n, s) => Has(ids, s))
             /\ event.action = "stroke" => n = ids
<1> DEFINE s == event.target
           n == redoRolledBack(ids, event)
<1>0. s \in Nat /\ event.action \in {"stroke", "undo_stroke", "redo_stroke"}
  BY DEF Edit, Action
<1>1. CASE event.action = "undo_stroke"
  <2>1. n = Without(ids, s)
    BY <1>1 DEF redoRolledBack
  <2> QED
    BY <1>1, <2>1, WithoutHas
<1>2. CASE event.action = "redo_stroke"
  <2>1. n = Append(ids, s)
    BY <1>2 DEF redoRolledBack
  <2>2. /\ \A y : Has(n, y) <=> Has(ids, y) \/ y = s
        /\ \A y : Double(n, y) <=> Double(ids, y) \/ (y = s /\ Has(ids, y))
    BY <1>0, <2>1, AppendedHas
  <2>3. Double(ids, s) => Has(ids, s)
    BY DEF Double, Has
  <2> HIDE DEF n, s
  <2> QED
    BY <1>2, <2>2, <2>3 DEF n, s
<1>3. CASE event.action = "stroke"
  <2>1. n = ids
    BY <1>3 DEF redoRolledBack
  <2> QED
    BY <1>3, <2>1
<1> QED
  BY <1>0, <1>1, <1>2, <1>3

\* The first message of c is taken.
LEMMA NoticeTaken ==
  ASSUME FrontendInv, NEW c \in Client, toClient[c] /= <<>>, toClient'[c] = Tail(toClient[c])
  PROVE  /\ 1 \in DOMAIN toClient[c] /\ toClient[c][1] = Head(toClient[c])
         /\ \A k : k \in DOMAIN toClient'[c] <=> k \in Nat \ {0} /\ k + 1 \in DOMAIN toClient[c]
         /\ \A k \in DOMAIN toClient[c] : k \in Nat /\ (k /= 1 => k - 1 \in DOMAIN toClient'[c])
         /\ \A k \in DOMAIN toClient'[c] : toClient'[c][k] = toClient[c][k + 1]
<1> DEFINE q == toClient[c]
<1>1. q \in Seq(JoinAck \cup Notice) /\ q /= <<>>
  BY CanvasTypes
<1>2. Len(q) \in Nat \ {0} /\ DOMAIN q = 1..Len(q) /\ Head(q) = q[1]
  BY <1>1
<1>3. /\ Tail(q) \in Seq(JoinAck \cup Notice) /\ Len(Tail(q)) = Len(q) - 1
      /\ \A k \in 1..(Len(q) - 1) : Tail(q)[k] = q[k + 1]
  BY <1>1
<1>4. DOMAIN Tail(q) = 1..(Len(q) - 1)
  BY <1>2, <1>3
<1> HIDE DEF q
<1>5. /\ \A k : k \in DOMAIN Tail(q) <=> k \in Nat \ {0} /\ k + 1 \in DOMAIN q
      /\ \A k \in DOMAIN q : k \in Nat /\ (k /= 1 => k - 1 \in DOMAIN Tail(q))
      /\ \A k \in DOMAIN Tail(q) : Tail(q)[k] = q[k + 1]
  BY <1>2, <1>3, <1>4
<1> QED
  BY <1>2, <1>5 DEF q

LEMMA NoticesLeft ==
  ASSUME FrontendInv, NEW c \in Client, toClient[c] /= <<>>, toClient'[c] = Tail(toClient[c])
  PROVE  /\ \A k \in DOMAIN toClient'[c] : \A type, e : At(c, k, type, e)' <=> At(c, k + 1, type, e)
         /\ \A e : Told(c, e) <=> Told(c, e)' \/ At(c, 1, "stroke_broadcast", e)
         /\ \A e : Refused(c, e) <=> Refused(c, e)' \/ At(c, 1, "error", e)
<1>1. /\ 1 \in DOMAIN toClient[c]
      /\ \A k : k \in DOMAIN toClient'[c] <=> k \in Nat \ {0} /\ k + 1 \in DOMAIN toClient[c]
      /\ \A k \in DOMAIN toClient[c] : k \in Nat /\ (k /= 1 => k - 1 \in DOMAIN toClient'[c])
      /\ \A k \in DOMAIN toClient'[c] : toClient'[c][k] = toClient[c][k + 1]
  BY NoticeTaken
<1>2. \A k \in DOMAIN toClient'[c] : \A type, e : At(c, k, type, e)' <=> At(c, k + 1, type, e)
  BY <1>1 DEF At
<1>3. ASSUME NEW type, NEW e
      PROVE  (\E k \in DOMAIN toClient[c] : At(c, k, type, e))
               <=> (\E k \in DOMAIN toClient'[c] : At(c, k, type, e)') \/ At(c, 1, type, e)
  <2>1. ASSUME NEW k \in DOMAIN toClient[c], At(c, k, type, e), k /= 1
        PROVE  \E j \in DOMAIN toClient'[c] : At(c, j, type, e)'
    <3>1. k - 1 \in DOMAIN toClient'[c] /\ (k - 1) + 1 = k
      BY <1>1, <2>1
    <3>2. At(c, k - 1, type, e)'
      BY <1>2, <2>1, <3>1
    <3> QED
      BY <3>1, <3>2
  <2>2. ASSUME NEW k \in DOMAIN toClient'[c], At(c, k, type, e)'
        PROVE  \E j \in DOMAIN toClient[c] : At(c, j, type, e)
    BY <1>1, <1>2, <2>2
  <2> QED
    BY <1>1, <2>1, <2>2
<1> QED
  BY <1>2, <1>3 DEF Told, Refused

LEMMA MessageCanvas ==
  ASSUME FrontendInv, CanvasInv, NEW c \in Client,
         toClient[c] /= <<>>, toClient'[c] = Tail(toClient[c]),
         UNCHANGED <<events, phase, board, raced, readyState, wsRef, session, reading>>,
         \A d \in Client \ {c} :
           /\ toClient'[d] = toClient[d] /\ strokes'[d] = strokes[d] /\ redoIds'[d] = redoIds[d]
           /\ archive'[d] = archive[d] /\ disputed'[d] = disputed[d] /\ seen'[d] = seen[d],
         seen[c] \subseteq seen'[c],
         \A e \in Event : At(c, 1, "stroke_broadcast", e) => e \in seen'[c],
         \A s \in Nat : /\ Has(strokes'[c], s) \/ s \in archive'[c] => s \in Strokes
                        /\ Has(redoIds'[c], s) => s \in Strokes /\ By(s) = c,
         Fresh(c)' => \A s \in Strokes : Excepted(s) \/ s \in disputed'[c] \/ Agrees(c, s)'
  PROVE  CanvasInv'
<1>0. /\ \A d \in Client : CanvasOf(d)
      /\ Committed \subseteq Event
  BY CanvasTypes DEF CanvasInv
<1>1. /\ Event' = Event /\ Strokes' = Strokes /\ \A es : Targets(es)' = Targets(es)
      /\ \A e : Target(e)' = Target(e) /\ By(e)' = By(e) /\ (Undoes(e)' <=> Undoes(e))
  BY EventsKept
<1>2. /\ Committed' = Committed /\ InFlight' = InFlight
      /\ \A s : Shown(s)' <=> Shown(s)
      /\ \A s : Excepted(s)' <=> Excepted(s)
  BY BoardKept DEF Excepted
<1>3. /\ \A k \in DOMAIN toClient'[c] : \A type, e : At(c, k, type, e)' <=> At(c, k + 1, type, e)
      /\ \A e : Told(c, e) <=> Told(c, e)' \/ At(c, 1, "stroke_broadcast", e)
      /\ \A e : Refused(c, e) <=> Refused(c, e)' \/ At(c, 1, "error", e)
  BY NoticesLeft
<1>4. /\ \A k : k \in DOMAIN toClient'[c] <=> k \in Nat \ {0} /\ k + 1 \in DOMAIN toClient[c]
      /\ \A k \in DOMAIN toClient[c] : k \in Nat /\ (k /= 1 => k - 1 \in DOMAIN toClient'[c])
      /\ \A k \in DOMAIN toClient'[c] : toClient'[c][k] = toClient[c][k + 1]
  BY NoticeTaken
<1>5. SessionOpen' /\ EditsOfStrokes' /\ Phases' /\ OneAtATime' /\ LastDecides'
  <2>1. ASSUME NEW d \in Client
        PROVE  /\ seen[d] \subseteq seen'[d]
               /\ session[d] /= "none" => session'[d] /= "none"
               /\ \A e : (Told(d, e)' => Told(d, e)) /\ (Refused(d, e)' => Refused(d, e))
    <3>1. CASE d = c
      BY <1>3, <3>1
    <3>2. CASE d /= c
      BY <3>2, NoticesKept
    <3> QED
      BY <3>1, <3>2
  <2> QED
    BY <2>1, EventsAsBefore
<1>6. ASSUME NEW d \in Client \ {c} PROVE CanvasOf(d)'
  BY <1>0, CanvasKept
<1>7. Answers(c)' \subseteq Answers(c)
  BY <1>4 DEF Answers
<1>8. OnlyStrokes(c)'
  BY <1>0, <1>1, <1>7 DEF CanvasOf, OnlyStrokes
<1>9. NoticesTrue(c)'
  <2> SUFFICES ASSUME NEW e \in Event, NEW k \in DOMAIN toClient'[c]
               PROVE  /\ At(c, k, "stroke_broadcast", e)' => phase[e] = "done" /\ e \in Committed
                      /\ At(c, k, "error", e)' =>
                           By(e) = c /\ \A l \in DOMAIN toClient'[c] : At(c, l, "error", e)' => l = k
    BY <1>1, <1>2 DEF NoticesTrue
  <2>1. k + 1 \in DOMAIN toClient[c] /\ k \in Nat
    BY <1>4
  <2>2. /\ At(c, k + 1, "stroke_broadcast", e) => phase[e] = "done" /\ e \in Committed
        /\ At(c, k + 1, "error", e) =>
             By(e) = c /\ \A l \in DOMAIN toClient[c] : At(c, l, "error", e) => l = k + 1
    BY <1>0, <2>1 DEF CanvasOf, NoticesTrue
  <2>3. ASSUME NEW l \in DOMAIN toClient'[c], At(c, l, "error", e)', At(c, k + 1, "error", e)
        PROVE  l = k
    <3>1. l + 1 \in DOMAIN toClient[c] /\ l \in Nat /\ At(c, l + 1, "error", e)
      BY <1>3, <1>4, <2>3
    <3>2. l + 1 = k + 1
      BY <2>2, <2>3, <3>1
    <3> QED
      BY <2>1, <3>1, <3>2
  <2> QED
    BY <1>3, <2>2, <2>3
<1>10. InOrder(c)'
  <2> SUFFICES ASSUME NEW s \in Strokes, NEW e \in Event, NEW f \in Committed,
                      NEW k \in DOMAIN toClient'[c], ~Excepted(s), Target(e) = s, Target(f) = s,
                      e < f, At(c, k, "stroke_broadcast", e)', f \notin InFlight
               PROVE  \E l \in DOMAIN toClient'[c] : l > k /\ At(c, l, "stroke_broadcast", f)'
    BY <1>1, <1>2 DEF InOrder
  <2>1. k + 1 \in DOMAIN toClient[c] /\ k \in Nat \ {0} /\ At(c, k + 1, "stroke_broadcast", e)
    BY <1>3, <1>4
  <2>2. PICK l \in DOMAIN toClient[c] : l > k + 1 /\ At(c, l, "stroke_broadcast", f)
    BY <1>0, <2>1 DEF CanvasOf, InOrder
  <2>3. l \in Nat /\ l /= 1 /\ l - 1 \in DOMAIN toClient'[c] /\ (l - 1) + 1 = l /\ l - 1 > k
    BY <1>4, <2>1, <2>2
  <2>4. At(c, l - 1, "stroke_broadcast", f)'
    BY <1>3, <2>2, <2>3
  <2> QED
    BY <2>3, <2>4
<1>11. ASSUME NEW r \in Answers(c)' PROVE ReadAgrees(c, r)'
  <2> SUFFICES ASSUME r.confirmed, NEW s \in Strokes, ~Excepted(s), s \notin Targets(r.lacks),
                      ~(Has(r.strokes, s) <=> Shown(s))
               PROVE  Missed(c, r.of, s)'
    BY <1>1, <1>2 DEF ReadAgrees
  <2>1. Missed(c, r.of, s)
    BY <1>0, <1>7 DEF CanvasOf, ReadAgrees
  <2>2. PICK e \in Committed \ r.of :
          Target(e) = s /\ (e \in seen[c] \/ Told(c, e) \/ e \in InFlight)
    BY <2>1 DEF Missed
  <2>3. e \in seen'[c] \/ Told(c, e)' \/ e \in InFlight
    BY <1>0, <1>3, <2>2
  <2> QED
    BY <1>1, <1>2, <2>2, <2>3 DEF Missed
<1>12. CanvasOf(c)'
  BY <1>1, <1>2, <1>8, <1>9, <1>10, <1>11 DEF CanvasOf
<1> QED
  BY <1>5, <1>6, <1>12 DEF CanvasInv

\* handleMessage without what it does with the message.
Takes(c) ==
  /\ IsOpen(c) /\ toClient[c] /= <<>> /\ toClient' = [toClient EXCEPT ![c] = Tail(@)]
  /\ UNCHANGED <<events, connVars, session, reading, phase, board, raced>>

LEMMA TakesLeaves ==
  ASSUME FrontendInv, CanvasInv, NEW c \in Client, Takes(c)
  PROVE  /\ UNCHANGED <<events, phase, board, raced, readyState, wsRef, session, reading>>
         /\ toClient'[c] = Tail(toClient[c])
         /\ \A d \in Client \ {c} : toClient'[d] = toClient[d]
         /\ Event' = Event /\ Strokes' = Strokes
         /\ \A e : Target(e)' = Target(e) /\ By(e)' = By(e) /\ (Undoes(e)' <=> Undoes(e))
         /\ Committed' = Committed /\ InFlight' = InFlight
         /\ \A s : (Shown(s)' <=> Shown(s)) /\ (Excepted(s)' <=> Excepted(s))
         /\ \A e : Own(c, e)' <=> Own(c, e)
         /\ \A e : Told(c, e) <=> Told(c, e)' \/ At(c, 1, "stroke_broadcast", e)
         /\ \A e : Refused(c, e) <=> Refused(c, e)' \/ At(c, 1, "error", e)
         /\ Fresh(c)' /\ ~AckAt(c, 1) => Fresh(c)
         /\ Head(toClient[c]) = toClient[c][1] /\ 1 \in DOMAIN toClient[c]
<1>0. toClient \in [Client -> Seq(JoinAck \cup Notice)]
  BY DEF FrontendInv, FrontendType
<1>1. /\ UNCHANGED <<events, phase, board, raced, readyState, wsRef, session, reading>>
      /\ toClient[c] /= <<>> /\ toClient'[c] = Tail(toClient[c])
      /\ \A d \in Client \ {c} : toClient'[d] = toClient[d]
  BY <1>0 DEF Takes, connVars
<1>2. /\ Event' = Event /\ Strokes' = Strokes
      /\ \A e : Target(e)' = Target(e) /\ By(e)' = By(e) /\ (Undoes(e)' <=> Undoes(e))
  BY <1>1, EventsKept
<1>3. /\ Committed' = Committed /\ InFlight' = InFlight
      /\ \A s : (Shown(s)' <=> Shown(s)) /\ (Excepted(s)' <=> Excepted(s))
  BY <1>1, BoardKept DEF Excepted
<1>4. /\ \A e : Told(c, e) <=> Told(c, e)' \/ At(c, 1, "stroke_broadcast", e)
      /\ \A e : Refused(c, e) <=> Refused(c, e)' \/ At(c, 1, "error", e)
  BY <1>1, NoticesLeft
<1>5. /\ Head(toClient[c]) = toClient[c][1] /\ 1 \in DOMAIN toClient[c]
      /\ \A k \in DOMAIN toClient[c] : k \in Nat /\ (k /= 1 => k - 1 \in DOMAIN toClient'[c])
      /\ \A k \in DOMAIN toClient'[c] : toClient'[c][k] = toClient[c][k + 1]
  BY <1>1, NoticeTaken
<1>6. ASSUME Fresh(c)', ~AckAt(c, 1) PROVE Fresh(c)
  <2>1. ASSUME NEW k \in DOMAIN toClient[c], k /= 1 PROVE ~AckAt(c, k)
    <3>1. k - 1 \in DOMAIN toClient'[c] /\ (k - 1) + 1 = k
      BY <1>5, <2>1
    <3>2. ~AckAt(c, k - 1)'
      BY <1>6, <3>1 DEF Fresh
    <3> QED
      BY <1>5, <3>1, <3>2 DEF AckAt
  <2> QED
    BY <1>1, <1>6, <2>1 DEF Fresh
<1>7. \A e : Own(c, e)' <=> Own(c, e)
  BY <1>1 DEF Own
<1> QED
  BY <1>1, <1>2, <1>3, <1>4, <1>5, <1>6, <1>7

\* The board of the read takes the place of the canvas.
LEMMA AckCanvas ==
  ASSUME FrontendInv, CanvasInv, NEW c \in Client, Takes(c), NEW m, m = Head(toClient[c]),
         m.type = "join_ack", onJoinAck(c, m)
  PROVE  CanvasInv'
<1>0. /\ strokes \in [Client -> Seq(Nat)] /\ redoIds \in [Client -> Seq(Nat)]
      /\ archive \in [Client -> SUBSET Nat] /\ disputed \in [Client -> SUBSET Nat]
      /\ Strokes \subseteq Event /\ Event \subseteq Nat /\ IsOpen(c) /\ toClient[c] /= <<>>
      /\ CanvasOf(c)
  BY CanvasTypes DEF FrontendInv, FrontendType, CanvasInv, Takes
<1>1. /\ UNCHANGED <<events, phase, board, raced, readyState, wsRef, session, reading>>
      /\ toClient'[c] = Tail(toClient[c])
      /\ \A d \in Client \ {c} : toClient'[d] = toClient[d]
      /\ Event' = Event /\ Strokes' = Strokes
      /\ \A e : Target(e)' = Target(e)
      /\ Committed' = Committed /\ InFlight' = InFlight
      /\ \A s : (Shown(s)' <=> Shown(s)) /\ (Excepted(s)' <=> Excepted(s))
      /\ \A e : Own(c, e)' <=> Own(c, e)
      /\ \A e : Told(c, e) <=> Told(c, e)' \/ At(c, 1, "stroke_broadcast", e)
      /\ \A e : Refused(c, e) <=> Refused(c, e)' \/ At(c, 1, "error", e)
      /\ m = toClient[c][1] /\ 1 \in DOMAIN toClient[c]
  BY TakesLeaves
<1>2. /\ strokes' = [strokes EXCEPT ![c] = m.strokes]
      /\ archive' = [archive EXCEPT ![c] = {m.strokes[k] : k \in DOMAIN m.strokes}]
      /\ redoIds' = [redoIds EXCEPT ![c] = <<>>]
      /\ disputed' = [disputed EXCEPT ![c] =
                        IF m.confirmed THEN Targets((seen[c] \ m.of) \cup m.lacks)
                        ELSE Targets(Event)]
      /\ seen' = seen
  BY DEF onJoinAck
<1>3. /\ strokes'[c] = m.strokes /\ redoIds'[c] = <<>>
      /\ \A s : s \in archive'[c] <=> Has(m.strokes, s)
      /\ disputed'[c] = IF m.confirmed THEN Targets((seen[c] \ m.of) \cup m.lacks)
                        ELSE Targets(Event)
      /\ \A d \in Client \ {c} :
           /\ strokes'[d] = strokes[d] /\ redoIds'[d] = redoIds[d] /\ archive'[d] = archive[d]
           /\ disputed'[d] = disputed[d]
  BY <1>0, <1>2 DEF Has
<1>4. m \in Answers(c) /\ m.of \cup m.lacks \subseteq Committed
  BY <1>1 DEF Answers, FrontendInv, ReadsOld
<1>5. /\ \A s \in Nat : Has(m.strokes, s) => Drawn(board.events, s)
      /\ ReadAgrees(c, m)
  BY <1>0, <1>4 DEF CanvasOf, OnlyStrokes
<1>6. \A s \in Nat : /\ Has(strokes'[c], s) \/ s \in archive'[c] => s \in Strokes
                     /\ ~Has(redoIds'[c], s)
  BY <1>3, <1>5, DrawnByUsers, EmptySeq DEF Has
<1>7. \A e : ~At(c, 1, "stroke_broadcast", e) /\ ~At(c, 1, "error", e)
  BY <1>1 DEF At
<1>8. ASSUME NEW s \in Strokes, ~Excepted(s), s \notin disputed'[c] PROVE Agrees(c, s)'
  <2>0. s \in Event /\ s \in Nat /\ Target(s) = s
    BY <1>0 DEF FrontendInv, EventsNumbered, Strokes
  <2>1. m.confirmed
    BY <1>3, <1>8, <2>0 DEF Targets
  <2>2. (\A e \in seen[c] \ m.of : Target(e) /= s) /\ s \notin Targets(m.lacks)
    BY <1>3, <1>8, <2>1 DEF Targets
  <2>3. \A e \in Event : Target(e) = s /\ Own(c, e) /\ phase[e] /= "unsent" => e \in m.of
    BY <1>0, <2>2, OwnIsSeen
  <2>4. ASSUME NEW e \in Event, Optimistic(c, s, e)' PROVE FALSE
    <3>1. Target(e) = s /\ Own(c, e) /\ e \notin Committed /\ Busy(c, e)
      BY <1>1, <2>4 DEF Optimistic, Busy
    <3>2. phase[e] /= "unsent"
      BY <3>1, BusyWasSent
    <3> QED
      BY <1>4, <2>3, <3>1, <3>2
  <2>5. ASSUME \A e \in Event : ~Awaited(c, s, e)' PROVE Has(m.strokes, s) <=> Shown(s)
    <3>1. ~Missed(c, m.of, s)
      <4> SUFFICES ASSUME NEW e \in Committed \ m.of, Target(e) = s,
                          e \in seen[c] \/ Told(c, e) \/ e \in InFlight
                   PROVE  FALSE
        BY DEF Missed
      <4>1. e \in Event /\ ~Told(c, e)' /\ ~(e \in InFlight /\ ~Own(c, e))
        BY <1>1, <2>5, CanvasTypes DEF Awaited
      <4>2. e \in InFlight /\ Own(c, e)
        BY <1>1, <1>7, <2>2, <4>1
      <4>3. phase[e] /= "unsent"
        BY <4>2 DEF InFlight
      <4> QED
        BY <2>3, <4>1, <4>2, <4>3
    <3> QED
      BY <1>5, <1>8, <2>1, <2>2, <3>1 DEF ReadAgrees
  <2>6. ShowsItsOwn(c, s)'
    BY <1>1, <2>4 DEF ShowsItsOwn
  <2>7. ShowsTheBoard(c, s)'
    BY <1>1, <1>3, <2>5 DEF ShowsTheBoard
  <2>8. ArchiveDrawn(c, s)' /\ RedoUndone(c, s)'
    BY <1>1, <1>3, <1>5, <1>6, <2>0 DEF ArchiveDrawn, RedoUndone
  <2> QED
    BY <2>6, <2>7, <2>8 DEF Agrees
<1> QED
  BY <1>0, <1>1, <1>2, <1>3, <1>6, <1>7, <1>8, MessageCanvas

\* An event that the cluster has.
LEMMA BroadcastCanvas ==
  ASSUME FrontendInv, CanvasInv, NEW c \in Client, Takes(c), NEW m, m = Head(toClient[c]),
         m.type = "stroke_broadcast", onBroadcast(c, m)
  PROVE  CanvasInv'
<1>0. /\ strokes \in [Client -> Seq(Nat)] /\ redoIds \in [Client -> Seq(Nat)]
      /\ archive \in [Client -> SUBSET Nat] /\ disputed \in [Client -> SUBSET Nat]
      /\ seen \in [Client -> SUBSET Nat]
      /\ Strokes \subseteq Event /\ Event \subseteq Nat /\ toClient[c] /= <<>>
      /\ CanvasOf(c) /\ EditsOfStrokes /\ LastDecides
  BY CanvasTypes DEF FrontendInv, FrontendType, CanvasInv, Takes
<1>1. /\ UNCHANGED <<events, phase, board, raced, readyState, wsRef, session, reading>>
      /\ toClient'[c] = Tail(toClient[c])
      /\ \A d \in Client \ {c} : toClient'[d] = toClient[d]
      /\ Event' = Event /\ Strokes' = Strokes
      /\ \A e : Target(e)' = Target(e) /\ By(e)' = By(e) /\ (Undoes(e)' <=> Undoes(e))
      /\ Committed' = Committed /\ InFlight' = InFlight
      /\ \A s : (Shown(s)' <=> Shown(s)) /\ (Excepted(s)' <=> Excepted(s))
      /\ \A e : Own(c, e)' <=> Own(c, e)
      /\ \A e : Told(c, e) <=> Told(c, e)' \/ At(c, 1, "stroke_broadcast", e)
      /\ \A e : Refused(c, e) <=> Refused(c, e)' \/ At(c, 1, "error", e)
      /\ Fresh(c)' /\ ~AckAt(c, 1) => Fresh(c)
      /\ m = toClient[c][1] /\ 1 \in DOMAIN toClient[c]
  BY TakesLeaves
<1>2. PICK e0 : e0 = m.id
  OBVIOUS
<1>3. PICK s0 : s0 = Target(e0)
  OBVIOUS
<1>4. /\ \A e : At(c, 1, "stroke_broadcast", e) <=> e = e0
      /\ \A e : ~At(c, 1, "error", e)
      /\ ~AckAt(c, 1)
  BY <1>1, <1>2 DEF At, AckAt
<1>5. e0 \in Event /\ e0 \in Nat /\ events[e0] \in Edit /\ s0 \in Strokes /\ s0 \in Nat
  <2>1. e0 \in Event
    BY <1>1, <1>2 DEF FrontendInv, NoticesOf
  <2> QED
    BY <1>0, <1>3, <2>1, CanvasTypes DEF EditsOfStrokes
<1>6. phase[e0] = "done" /\ e0 \in Committed /\ Told(c, e0) /\ Busy(c, e0)
  BY <1>0, <1>1, <1>4, <1>5 DEF CanvasOf, NoticesTrue, Told, Busy
<1> DEFINE cur == applyStrokeEvent(strokes[c], events[e0], archive[c])
<1>7. /\ strokes' = [strokes EXCEPT ![c] = cur]
      /\ archive' = IF events[e0].action = "stroke" /\ ~Has(strokes[c], s0)
                    THEN [archive EXCEPT ![c] = @ \cup {s0}] ELSE archive
      /\ seen' = [seen EXCEPT ![c] = @ \cup {e0}]
      /\ disputed' = IF events[e0].action = "redo_stroke" /\ s0 \notin archive[c]
                     THEN [disputed EXCEPT ![c] = @ \cup {s0}] ELSE disputed
      /\ redoIds' = redoIds
  BY <1>2, <1>3 DEF onBroadcast
<1>8. \A y : Has(cur, y) <=>
               IF y /= s0 THEN Has(strokes[c], y)
               ELSE /\ events[e0].action /= "undo_stroke"
                    /\ events[e0].action = "redo_stroke" => Has(strokes[c], y) \/ y \in archive[c]
  <2>1. strokes[c] \in Seq(Nat)
    BY <1>0
  <2> QED
    BY <1>3, <1>5, <2>1, ShownExactly DEF Target
<1> HIDE DEF cur
<1>9. /\ strokes'[c] = cur /\ redoIds'[c] = redoIds[c]
      /\ archive[c] \subseteq archive'[c] /\ archive'[c] \subseteq archive[c] \cup {s0}
      /\ s0 \in archive'[c] => s0 \in archive[c] \/ events[e0].action = "stroke"
      /\ disputed[c] \subseteq disputed'[c]
      /\ s0 \notin disputed'[c] /\ events[e0].action = "redo_stroke" => s0 \in archive[c]
      /\ seen[c] \subseteq seen'[c] /\ e0 \in seen'[c]
      /\ \A d \in Client \ {c} :
           /\ strokes'[d] = strokes[d] /\ redoIds'[d] = redoIds[d] /\ archive'[d] = archive[d]
           /\ disputed'[d] = disputed[d] /\ seen'[d] = seen[d]
  BY <1>0, <1>7
<1>10. \A s \in Nat : /\ Has(strokes'[c], s) \/ s \in archive'[c] => s \in Strokes
                      /\ Has(redoIds'[c], s) => s \in Strokes /\ By(s) = c
  <2>1. \A s \in Nat : /\ Has(strokes[c], s) \/ s \in archive[c] => s \in Strokes
                       /\ Has(redoIds[c], s) => s \in Strokes /\ By(s) = c
    BY <1>0 DEF CanvasOf, OnlyStrokes
  <2> QED
    BY <1>5, <1>8, <1>9, <2>1
<1>11. ASSUME Fresh(c)', NEW s \in Strokes, ~Excepted(s), s \notin disputed'[c]
       PROVE  Agrees(c, s)'
  <2>0. /\ Agrees(c, s) /\ s \notin raced /\ s \in Event /\ s \in Nat /\ Target(s) = s
        /\ events[s].action = "stroke"
    BY <1>0, <1>1, <1>4, <1>9, <1>11
       DEF CanvasOf, Excepted, FrontendInv, EventsNumbered, Strokes
  <2>1. \A e \in Event : Optimistic(c, s, e)' <=> Optimistic(c, s, e)
    BY <1>1, <1>4 DEF Optimistic
  <2>2. \A e \in Event : Awaited(c, s, e) => Awaited(c, s, e)' \/ e = e0
    BY <1>1, <1>4 DEF Awaited
  <2>3. CASE s /= s0
    <3>1. \A e \in Event : Awaited(c, s, e) => Awaited(c, s, e)'
      BY <1>3, <2>2, <2>3 DEF Awaited
    <3>2. Has(strokes'[c], s) <=> Has(strokes[c], s)
      BY <1>8, <1>9, <2>3
    <3>3. ArchiveDrawn(c, s)'
      BY <1>1, <1>9, <2>0, <2>3 DEF Agrees, ArchiveDrawn
    <3>4. RedoUndone(c, s)'
      BY <1>1, <1>9, <2>0, <3>2 DEF Agrees, RedoUndone
    <3> QED
      BY <1>1, <2>0, <2>1, <3>1, <3>2, <3>3, <3>4, AgreesStill
  <2>4. CASE s = s0
    <3>1. ASSUME NEW f \in Event, f /= e0, Target(f) = s, By(s) = c, phase[f] /= "unsent"
          PROVE  f < e0 /\ ~Busy(c, f)
      BY <1>3, <1>5, <1>6, <2>0, <2>4, <3>1, OneBusy
    <3>2. ASSUME NEW f \in Event, Optimistic(c, s, f) PROVE FALSE
      <4>1. Busy(c, f) /\ By(s) = c /\ Target(f) = s
        BY <3>2, OptimisticIsBusy
      <4>2. phase[f] /= "unsent" /\ f /= e0
        BY <1>6, <3>2, <4>1, BusyWasSent DEF Optimistic
      <4> QED
        BY <3>1, <4>1, <4>2
    <3>3. ASSUME \A e \in Event : ~Awaited(c, s, e)' PROVE Has(cur, s) <=> Shown(s)
      <4>1. ASSUME NEW f \in Committed, Target(f) = s PROVE f <= e0
        <5> SUFFICES ASSUME e0 < f PROVE FALSE
          BY <1>0, <1>5, CanvasTypes
        <5>0. f \in Event /\ ~Told(c, f)' /\ (f \in InFlight => Own(c, f))
          BY <1>1, <3>3, <4>1, CanvasTypes DEF Awaited
        <5>1. f \in InFlight \/ \E l \in DOMAIN toClient[c] : l > 1 /\ At(c, l, "stroke_broadcast", f)
          <6>1. /\ InOrder(c) /\ 1 \in DOMAIN toClient[c] /\ At(c, 1, "stroke_broadcast", e0)
                /\ Target(e0) = s /\ Target(f) = s /\ e0 < f
            BY <1>0, <1>1, <1>3, <1>4, <2>4, <4>1 DEF CanvasOf
          <6>2. e0 \in Event /\ f \in Committed /\ s \in Strokes /\ ~Excepted(s)
            BY <1>5, <1>11
          <6> QED
            BY ONLY <6>1, <6>2 DEF InOrder
        <5>2. f \in InFlight
          <6>1. f /= e0
            BY <1>0, <1>5, <5>0
          <6>2. f \in InFlight \/ Told(c, f)
            BY <5>1 DEF Told
          <6> QED
            BY <1>1, <1>4, <5>0, <6>1, <6>2
        <5>3. Own(c, f) /\ phase[f] /= "unsent"
          BY <5>0, <5>2 DEF InFlight
        <5>4. By(s) = c
          BY <1>0, <4>1, <5>0, <5>3 DEF EditsOfStrokes, Own, By
        <5>5. f < e0
          BY <3>1, <4>1, <5>0, <5>3, <5>4
        <5> QED
          BY <1>0, <1>5, <5>0, <5>5
      <4>2. Shown(s) <=> ~Undoes(e0) /\ Drawn(board.events, s)
        BY <1>0, <1>3, <1>6, <2>0, <2>4, <4>1 DEF LastDecides
      <4>3. events[e0].action \in {"stroke", "undo_stroke", "redo_stroke"}
        BY <1>5 DEF Edit, Action
      <4>4. CASE events[e0].action = "undo_stroke"
        BY <1>8, <2>4, <4>2, <4>4 DEF Undoes
      <4>5. CASE events[e0].action = "stroke"
        <5>1. e0 = s
          BY <1>3, <1>5, <2>4, <4>5 DEF FrontendInv, EventsNumbered
        <5>2. Drawn(board.events, s)
          BY <1>6, <2>0, <5>1, DrawnByUsers
        <5> QED
          BY <1>8, <2>4, <4>2, <4>5, <5>2 DEF Undoes
      <4>6. CASE events[e0].action = "redo_stroke"
        <5>1. s \in archive[c] /\ e0 /= s
          BY <1>9, <1>11, <2>0, <2>4, <4>6
        <5>2. ~(Own(c, s) /\ phase[s] \in {"sent", "limbo"})
          BY <2>0, <3>1, <5>1 DEF Own, By, Busy
        <5>3. Drawn(board.events, s)
          BY <2>0, <5>1, <5>2 DEF Agrees, ArchiveDrawn
        <5> QED
          BY <1>8, <2>4, <4>2, <4>6, <5>1, <5>3 DEF Undoes
      <4> QED
        BY <4>3, <4>4, <4>5, <4>6
    <3>4. ShowsItsOwn(c, s)'
      BY <1>1, <2>1, <3>2 DEF ShowsItsOwn
    <3>5. ShowsTheBoard(c, s)'
      BY <1>1, <1>9, <3>3 DEF ShowsTheBoard
    <3>6. ArchiveDrawn(c, s)'
      <4>1. events[e0].action = "stroke" => Drawn(board.events, s)
        BY <1>3, <1>5, <1>6, <2>0, <2>4, DrawnByUsers DEF FrontendInv, EventsNumbered
      <4> QED
        BY <1>1, <1>9, <2>0, <2>4, <4>1 DEF Agrees, ArchiveDrawn
    <3>7. RedoUndone(c, s)'
      BY <1>3, <1>5, <1>6, <1>9, <2>0, <2>4 DEF Agrees, RedoUndone
    <3> QED
      BY <3>4, <3>5, <3>6, <3>7 DEF Agrees
  <2> QED
    BY <2>3, <2>4
<1>12. Fresh(c)' => \A s \in Strokes : Excepted(s) \/ s \in disputed'[c] \/ Agrees(c, s)'
  BY <1>11
<1>13. \A e \in Event : At(c, 1, "stroke_broadcast", e) => e \in seen'[c]
  BY <1>4, <1>9
<1>14. \A d \in Client \ {c} :
         /\ toClient'[d] = toClient[d] /\ strokes'[d] = strokes[d] /\ redoIds'[d] = redoIds[d]
         /\ archive'[d] = archive[d] /\ disputed'[d] = disputed[d] /\ seen'[d] = seen[d]
  BY <1>1, <1>9
<1> QED
  BY <1>0, <1>1, <1>9, <1>10, <1>12, <1>13, <1>14, MessageCanvas

\* A failure: what c showed is taken back, unless its rollback is gone.
LEMMA ErrorCanvas ==
  ASSUME FrontendInv, CanvasInv, NEW c \in Client, Takes(c), NEW m, m = Head(toClient[c]),
         m.type = "error", onWriteFailed(c, m)
  PROVE  CanvasInv'
<1>0. /\ strokes \in [Client -> Seq(Nat)] /\ redoIds \in [Client -> Seq(Nat)]
      /\ archive \in [Client -> SUBSET Nat] /\ disputed \in [Client -> SUBSET Nat]
      /\ Strokes \subseteq Event /\ Event \subseteq Nat /\ toClient[c] /= <<>>
      /\ CanvasOf(c) /\ EditsOfStrokes
  BY CanvasTypes DEF FrontendInv, FrontendType, CanvasInv, Takes
<1>1. /\ UNCHANGED <<events, phase, board, raced, readyState, wsRef, session, reading>>
      /\ toClient'[c] = Tail(toClient[c])
      /\ \A d \in Client \ {c} : toClient'[d] = toClient[d]
      /\ Event' = Event /\ Strokes' = Strokes
      /\ \A e : Target(e)' = Target(e) /\ By(e)' = By(e) /\ (Undoes(e)' <=> Undoes(e))
      /\ Committed' = Committed /\ InFlight' = InFlight
      /\ \A s : (Shown(s)' <=> Shown(s)) /\ (Excepted(s)' <=> Excepted(s))
      /\ \A e : Own(c, e)' <=> Own(c, e)
      /\ \A e : Told(c, e) <=> Told(c, e)' \/ At(c, 1, "stroke_broadcast", e)
      /\ \A e : Refused(c, e) <=> Refused(c, e)' \/ At(c, 1, "error", e)
      /\ Fresh(c)' /\ ~AckAt(c, 1) => Fresh(c)
      /\ m = toClient[c][1] /\ 1 \in DOMAIN toClient[c]
  BY TakesLeaves
<1>2. PICK e0 : e0 = m.id
  OBVIOUS
<1>3. PICK s0 : s0 = Target(e0)
  OBVIOUS
<1>4. /\ \A e : At(c, 1, "error", e) <=> e = e0
      /\ \A e : ~At(c, 1, "stroke_broadcast", e)
      /\ ~AckAt(c, 1)
  BY <1>1, <1>2 DEF At, AckAt
<1>5. /\ e0 \in Event /\ e0 \in Nat /\ events[e0] \in Edit /\ s0 \in Strokes /\ s0 \in Nat
      /\ events[e0].via = wsRef[c] /\ phase[e0] \in {"limbo", "late"}
      /\ By(s0) = By(e0)
  <2>1. e0 \in Event /\ events[e0].via = wsRef[c] /\ phase[e0] \in {"limbo", "late"}
    BY <1>1, <1>2 DEF FrontendInv, NoticesOf
  <2> QED
    BY <1>0, <1>3, <2>1, CanvasTypes DEF EditsOfStrokes
<1>6. /\ By(e0) = c /\ By(s0) = c /\ Own(c, e0) /\ Refused(c, e0) /\ Busy(c, e0)
      /\ \A k \in DOMAIN toClient[c] : At(c, k, "error", e0) => k = 1
  <2>1. By(e0) = c /\ \A k \in DOMAIN toClient[c] : At(c, k, "error", e0) => k = 1
    BY <1>0, <1>1, <1>4, <1>5 DEF CanvasOf, NoticesTrue
  <2> QED
    BY <1>1, <1>4, <1>5, <2>1 DEF Own, By, Refused, Busy
<1>7. ~Refused(c, e0)'
  <2>1. toClient[c] /= <<>> /\ toClient'[c] = Tail(toClient[c])
    BY <1>0, <1>1
  <2>2. /\ \A k \in DOMAIN toClient'[c] : At(c, k, "error", e0)' <=> At(c, k + 1, "error", e0)
        /\ \A k \in DOMAIN toClient'[c] : k \in Nat \ {0} /\ k + 1 \in DOMAIN toClient[c]
    BY <2>1, NoticesLeft, NoticeTaken
  <2>3. ASSUME NEW k \in DOMAIN toClient'[c], At(c, k, "error", e0)' PROVE FALSE
    <3>1. k + 1 = 1 /\ k \in Nat \ {0}
      BY <1>6, <2>2, <2>3
    <3> QED
      BY <3>1
  <2> QED
    BY <2>3 DEF Refused
<1>8. /\ \A d \in Client \ {c} : /\ strokes'[d] = strokes[d] /\ redoIds'[d] = redoIds[d]
                                 /\ disputed'[d] = disputed[d]
      /\ archive' = archive /\ seen' = seen
      /\ \/ /\ strokes'[c] = rolledBack(strokes[c], events[e0])
            /\ redoIds'[c] = redoRolledBack(redoIds[c], events[e0])
            /\ disputed'[c] = disputed[c] \cup {}
         \/ /\ strokes'[c] = Without(strokes[c], e0) /\ redoIds'[c] = redoIds[c]
            /\ disputed'[c] = disputed[c] \cup {s0}
         \/ /\ strokes'[c] = Without(strokes[c], e0) /\ redoIds'[c] = redoIds[c]
            /\ disputed'[c] = disputed[c] \cup {} /\ s0 = e0
  <2>1. CASE e0 \in pending[c]
    <3>1. /\ strokes' = [strokes EXCEPT ![c] = rolledBack(@, events[e0])]
          /\ redoIds' = [redoIds EXCEPT ![c] = redoRolledBack(@, events[e0])]
          /\ disputed' = disputed /\ archive' = archive /\ seen' = seen
      BY <1>2, <1>3, <2>1 DEF onWriteFailed
    <3> QED
      BY <1>0, <3>1
  <2>2. CASE e0 \notin pending[c]
    <3>1. /\ strokes' = [strokes EXCEPT ![c] = Without(@, e0)] /\ redoIds' = redoIds
          /\ disputed' = IF s0 /= e0 THEN [disputed EXCEPT ![c] = @ \cup {s0}] ELSE disputed
          /\ archive' = archive /\ seen' = seen
      BY <1>2, <1>3, <2>2 DEF onWriteFailed
    <3> QED
      BY <1>0, <3>1
  <2> QED
    BY <2>1, <2>2
<1>9. PICK cur, ids, more :
        /\ strokes'[c] = cur /\ redoIds'[c] = ids /\ disputed'[c] = disputed[c] \cup more
        /\ \A d \in Client \ {c} : /\ strokes'[d] = strokes[d] /\ redoIds'[d] = redoIds[d]
                                   /\ disputed'[d] = disputed[d]
        /\ archive' = archive /\ seen' = seen
        /\ \/ /\ cur = rolledBack(strokes[c], events[e0])
              /\ ids = redoRolledBack(redoIds[c], events[e0])
           \/ /\ cur = Without(strokes[c], e0) /\ ids = redoIds[c]
              /\ s0 \in more \/ s0 = e0
  <2>1. PICK more \in {{}, {s0}} :
          /\ disputed'[c] = disputed[c] \cup more
          /\ \/ /\ strokes'[c] = rolledBack(strokes[c], events[e0])
                /\ redoIds'[c] = redoRolledBack(redoIds[c], events[e0])
             \/ /\ strokes'[c] = Without(strokes[c], e0) /\ redoIds'[c] = redoIds[c]
                /\ s0 \in more \/ s0 = e0
    BY <1>8
  <2> QED
    BY <1>8, <2>1
<1>10. events[e0].action \in {"stroke", "undo_stroke", "redo_stroke"}
       /\ (events[e0].action = "stroke" <=> e0 = s0)
  BY <1>0, <1>3, <1>5 DEF Edit, Action, EditsOfStrokes, FrontendInv, EventsNumbered
<1>11. /\ \A y \in Strokes : y /= s0 => (Has(cur, y) <=> Has(strokes[c], y))
       /\ \A y \in Nat : Has(cur, y) => Has(strokes[c], y) \/ y = s0
       /\ s0 \in more \/ (Has(cur, s0) <=> Undoes(e0))
  <2>0. strokes[c] \in Seq(Nat)
    BY <1>0
  <2>1. CASE cur = rolledBack(strokes[c], events[e0])
    <3>1. \A y : Has(cur, y) <=> IF y /= s0 THEN Has(strokes[c], y)
                                 ELSE events[e0].action = "undo_stroke"
      BY <1>3, <1>5, <2>0, <2>1, RolledBackExactly DEF Target
    <3> QED
      BY <3>1 DEF Undoes
  <2>2. CASE cur = Without(strokes[c], e0) /\ (s0 \in more \/ s0 = e0)
    <3>1. \A y : Has(cur, y) <=> y /= e0 /\ Has(strokes[c], y)
      BY <2>0, <2>2, WithoutHas
    <3>2. \A y \in Strokes : y /= s0 => y /= e0
      BY <1>3 DEF Strokes, FrontendInv, EventsNumbered
    <3> QED
      BY <1>10, <2>2, <3>1, <3>2 DEF Undoes
  <2> QED
    BY <1>9, <2>1, <2>2
<1>12. /\ \A y : y /= s0 => (Has(ids, y) <=> Has(redoIds[c], y))
                            /\ (Double(ids, y) => Double(redoIds[c], y))
       /\ Has(ids, s0) /\ s0 \notin more =>
            \/ events[e0].action = "redo_stroke" /\ (Double(ids, s0) => Has(redoIds[c], s0))
            \/ events[e0].action = "stroke" /\ Has(redoIds[c], s0)
  <2>0. redoIds[c] \in Seq(Nat)
    BY <1>0
  <2>1. CASE ids = redoRolledBack(redoIds[c], events[e0])
    <3>1. /\ \A y : y /= s0 => (Has(ids, y) <=> Has(redoIds[c], y))
                               /\ (Double(ids, y) => Double(redoIds[c], y))
          /\ events[e0].action = "undo_stroke" => ~Has(ids, s0)
          /\ events[e0].action = "redo_stroke" => (Double(ids, s0) => Has(redoIds[c], s0))
          /\ events[e0].action = "stroke" => ids = redoIds[c]
      BY <1>3, <1>5, <2>0, <2>1, RedoRolledBackExactly DEF Target
    <3> QED
      BY <1>10, <3>1
  <2>2. CASE ids = redoIds[c] /\ (s0 \in more \/ s0 = e0)
    BY <1>10, <2>2
  <2> QED
    BY <1>9, <2>1, <2>2
<1>13. \A s \in Nat : /\ Has(strokes'[c], s) \/ s \in archive'[c] => s \in Strokes
                      /\ Has(redoIds'[c], s) => s \in Strokes /\ By(s) = c
  <2>1. \A s \in Nat : /\ Has(strokes[c], s) \/ s \in archive[c] => s \in Strokes
                       /\ Has(redoIds[c], s) => s \in Strokes /\ By(s) = c
    BY <1>0 DEF CanvasOf, OnlyStrokes
  <2> QED
    BY <1>5, <1>6, <1>9, <1>11, <1>12, <2>1
<1>14. ASSUME Fresh(c)', NEW s \in Strokes, ~Excepted(s), s \notin disputed'[c]
       PROVE  Agrees(c, s)'
  <2>0. Agrees(c, s) /\ s \notin raced /\ s \in Event /\ s \in Nat
    BY <1>0, <1>1, <1>4, <1>9, <1>14 DEF CanvasOf, Excepted
  <2>1. \A e \in Event : /\ Optimistic(c, s, e)' => Optimistic(c, s, e)
                         /\ Optimistic(c, s, e) => Optimistic(c, s, e)' \/ e = e0
                         /\ Awaited(c, s, e)' <=> Awaited(c, s, e)
    BY <1>1, <1>4 DEF Optimistic, Awaited
  <2>2. CASE s /= s0
    <3>1. \A e \in Event : Optimistic(c, s, e) => Optimistic(c, s, e)'
      BY <1>3, <2>1, <2>2 DEF Optimistic
    <3>2. Has(strokes'[c], s) <=> Has(strokes[c], s)
      BY <1>9, <1>11, <2>2
    <3>3. ArchiveDrawn(c, s)'
      BY <1>1, <1>9, <2>0 DEF Agrees, ArchiveDrawn
    <3>4. RedoUndone(c, s)'
      BY <1>1, <1>4, <1>9, <1>12, <2>0, <2>2, <3>2 DEF Agrees, RedoUndone
    <3> QED
      BY <1>1, <2>0, <2>1, <3>1, <3>2, <3>3, <3>4, AgreesStill
  <2>3. CASE s = s0
    <3>0. s0 \notin more
      BY <1>9, <1>14, <2>3
    <3>1. ASSUME NEW f \in Event, f /= e0, Target(f) = s, phase[f] /= "unsent" PROVE ~Busy(c, f)
      BY <1>3, <1>5, <1>6, <2>0, <2>3, <3>1, OneBusy
    <3>2. \A f \in Event : Busy(c, f) => phase[f] /= "unsent"
      BY BusyWasSent
    <3>3. e0 \notin Committed
      BY <1>3, <1>5, <1>14, <2>3 DEF Excepted, Targets, Unannounced
    <3>4. Optimistic(c, s, e0)
      BY <1>3, <1>6, <2>3, <3>3 DEF Optimistic
    <3>5. (Has(strokes[c], s) <=> ~Undoes(e0)) /\ (Shown(s) <=> Undoes(e0))
      BY <1>5, <2>0, <3>4 DEF Agrees, ShowsItsOwn
    <3>6. ASSUME NEW f \in Event, Optimistic(c, s, f)' PROVE FALSE
      <4>1. f /= e0
        BY <1>1, <1>5, <1>7, <3>6 DEF Optimistic
      <4>2. Busy(c, f) /\ Target(f) = s
        BY <2>1, <3>6, OptimisticIsBusy
      <4> QED
        BY <3>1, <3>2, <4>1, <4>2
    <3>7. ShowsItsOwn(c, s)'
      BY <1>1, <3>6 DEF ShowsItsOwn
    <3>8. ShowsTheBoard(c, s)'
      BY <1>1, <1>9, <1>11, <2>3, <3>0, <3>5 DEF ShowsTheBoard
    <3>9. ArchiveDrawn(c, s)'
      BY <1>1, <1>9, <2>0 DEF Agrees, ArchiveDrawn
    <3>10. RedoUndone(c, s)'
      <4> SUFFICES ASSUME Has(ids, s)
                   PROVE  /\ ~Has(cur, s) /\ ~Double(ids, s)
                          /\ \A e \in Event : Target(e) = s =>
                               ~Told(c, e)' /\ (e \in InFlight => Own(c, e))
        BY <1>1, <1>9 DEF RedoUndone
      <4>1. ~Undoes(e0) => ~Has(redoIds[c], s)
        BY <2>0, <3>5 DEF Agrees, RedoUndone
      <4>2. events[e0].action = "redo_stroke" /\ ~Double(ids, s) /\ ~Undoes(e0)
        BY <1>12, <2>3, <3>0, <4>1 DEF Undoes
      <4>3. ~Has(cur, s)
        BY <1>11, <2>3, <3>0, <4>2
      <4>4. ASSUME NEW e \in Event, Target(e) = s
            PROVE  ~Told(c, e)' /\ (e \in InFlight => Own(c, e))
        <5>1. CASE e = e0
          <6>1. ~Told(c, e0)
            BY <1>0, <1>5 DEF CanvasOf, NoticesTrue, Told
          <6> QED
            BY <1>1, <1>6, <5>1, <6>1
        <5>2. CASE e /= e0
          <6>1. ~Busy(c, e)
            BY <3>1, <3>2, <4>4, <5>2
          <6> QED
            BY <1>1, <6>1 DEF Busy, InFlight
        <5> QED
          BY <5>1, <5>2
      <4> QED
        BY <4>2, <4>3, <4>4
    <3> QED
      BY <3>7, <3>8, <3>9, <3>10 DEF Agrees
  <2> QED
    BY <2>2, <2>3
<1>15. Fresh(c)' => \A s \in Strokes : Excepted(s) \/ s \in disputed'[c] \/ Agrees(c, s)'
  BY <1>14
<1>16. \A d \in Client \ {c} :
         /\ toClient'[d] = toClient[d] /\ strokes'[d] = strokes[d] /\ redoIds'[d] = redoIds[d]
         /\ archive'[d] = archive[d] /\ disputed'[d] = disputed[d] /\ seen'[d] = seen[d]
  BY <1>1, <1>9
<1>17. seen[c] \subseteq seen'[c] /\ \A e \in Event : At(c, 1, "stroke_broadcast", e) => e \in seen'[c]
  BY <1>4, <1>9
<1> QED
  BY <1>0, <1>1, <1>13, <1>15, <1>16, <1>17, MessageCanvas

LEMMA MessageStepCanvas ==
  ASSUME FrontendInv, CanvasInv, NEW c \in Client, MessageStep(c)
  PROVE  CanvasInv'
<1>1. CASE handleMessage(c)
  <2>1. Takes(c)
    BY <1>1 DEF handleMessage, Takes, clusterVars
  <2>2. PICK m : /\ m = Head(toClient[c])
                 /\ \/ m.type = "join_ack" /\ onJoinAck(c, m)
                    \/ m.type = "stroke_broadcast" /\ onBroadcast(c, m)
                    \/ m.type = "error" /\ onWriteFailed(c, m)
    BY <1>1 DEF handleMessage
  <2> QED
    BY <2>1, <2>2, AckCanvas, BroadcastCanvas, ErrorCanvas
<1>2. ASSUME NEW e \in pending[c], rollbackExpires(c, e) PROVE CanvasInv'
  <2>1. UNCHANGED <<events, phase, board, raced, readyState, wsRef, session, reading, toClient,
                    strokes, redoIds, archive, disputed, seen>>
    BY <1>2 DEF rollbackExpires, gatewayVars, clusterVars, connVars
  <2>2. SessionOpen' /\ EditsOfStrokes' /\ Phases' /\ OneAtATime' /\ LastDecides'
    BY <2>1, NoticesKept, EventsAsBefore
  <2>3. \A d \in Client : CanvasOf(d)'
    BY <2>1, CanvasKept DEF CanvasInv
  <2> QED
    BY <2>2, <2>3 DEF CanvasInv
<1> QED
  BY <1>1, <1>2 DEF MessageStep

-----------------------------------------------------------------------------
(* The edits of the user.                                                  *)

\* The next event of c, and what its canvas and its redo stack are to be.
Submits(c, event, shown, redo) ==
  /\ event \in Edit /\ event.id = Len(events) + 1 /\ event.by = c /\ event.via = wsRef[c]
  /\ \/ event.action = "stroke" /\ event.target = event.id
     \/ /\ event.action \in {"undo_stroke", "redo_stroke"}
        /\ event.target \in Strokes /\ By(event.target) = c /\ event.target \in archive[c]
  /\ archive' \in [Client -> SUBSET Nat]
  /\ \A d \in Client \ {c} : archive'[d] = archive[d]
  /\ archive'[c] = IF event.action = "stroke" THEN archive[c] \cup {event.id} ELSE archive[c]
  /\ shown \in Seq(Nat) /\ redo \in Seq(Nat)
  /\ \A y : Has(shown, y) <=> IF y /= event.target THEN Has(strokes[c], y)
                              ELSE event.action /= "undo_stroke"
  /\ \A y : y /= event.target => (Has(redo, y) => Has(redoIds[c], y))
                                 /\ (Double(redo, y) => Double(redoIds[c], y))
  /\ event.action = "stroke" => ~Has(redo, event.target)
  /\ event.action = "undo_stroke" =>
       Has(strokes[c], event.target) /\ (Double(redo, event.target) => Has(redoIds[c], event.target))
  /\ event.action = "redo_stroke" =>
       /\ Has(redoIds[c], event.target)
       /\ Has(redo, event.target) => Double(redoIds[c], event.target)
  /\ submitStrokeMessage(c, event, shown, redo)

\* The event is the last, and nothing of the others changes.
LEMMA SubmitAdds ==
  ASSUME FrontendInv, CanvasInv, NEW c \in Client, NEW event, NEW shown, NEW redo,
         Submits(c, event, shown, redo), NEW n, n = event.id, NEW t, t = event.target
  PROVE  /\ n \in Nat /\ n \notin Event /\ Event' = Event \cup {n} /\ \A e \in Event : e < n
         /\ n \notin Committed /\ n \notin Strokes
         /\ ~Shown(n) /\ ~Drawn(board.events, n)
         /\ \A e \in Event : /\ events'[e] = events[e] /\ phase'[e] = phase[e]
                             /\ Target(e)' = Target(e) /\ By(e)' = By(e)
                             /\ (Undoes(e)' <=> Undoes(e)) /\ Target(e) \in Strokes
         /\ Target(n)' = t /\ By(n)' = c /\ (Undoes(n)' <=> event.action = "undo_stroke")
         /\ Strokes' = IF event.action = "stroke" THEN Strokes \cup {n} ELSE Strokes
         /\ t \in Strokes' /\ By(t)' = c /\ (event.action /= "stroke" => t \in Strokes /\ By(t) = c)
         /\ event.action = "stroke" => t = n
         /\ Committed' = Committed
         /\ \A s : (Shown(s)' <=> Shown(s)) /\ (Excepted(s) => Excepted(s)')
         /\ UNCHANGED <<readyState, wsRef, session, reading, toClient, board, disputed>>
         /\ phase'[n] \in {"sent", "unsent"} /\ (phase'[n] = "sent" <=> IsOpen(c))
         /\ InFlight' = IF IsOpen(c) THEN InFlight \cup {n} ELSE InFlight
         /\ raced \subseteq raced' /\ (IsOpen(c) /\ t \notin raced' => ~Unsettled(c, t))
         /\ \A d \in Client : seen[d] \subseteq seen'[d]
         /\ IsOpen(c) => n \in seen'[c]
<1>0. /\ FrontendType /\ EventsNumbered /\ Len(events) \in Nat /\ Event = 1..Len(events)
      /\ EditsOfStrokes /\ Committed \subseteq Event /\ Strokes \subseteq Event
      /\ seen \in [Client -> SUBSET Nat]
  BY CanvasTypes DEF FrontendInv, CanvasInv, FrontendType
<1>1. /\ events' = Append(events, event)
      /\ UNCHANGED <<connVars, session, reading, toClient, board, disputed>>
      /\ event \in Edit /\ n = Len(events) + 1 /\ event.by = c
  BY DEF Submits, submitStrokeMessage, clusterVars
<1>2. PICK p \in {"sent", "unsent"} : /\ phase' = Append(phase, p)
                                      /\ p = "sent" <=> IsOpen(c)
  BY DEF Submits, submitStrokeMessage
<1>3. /\ Event' = Event \cup {n} /\ n \notin Event
      /\ \A e \in Event : events'[e] = events[e] /\ phase'[e] = phase[e] /\ Target(e)' = Target(e)
      /\ events'[n] = event /\ Target(n)' = t
      /\ Committed' = Committed /\ Targets(Unannounced)' = Targets(Unannounced)
      /\ Len(phase) = Len(events) /\ phase \in Seq(Phase)
  <2>1. /\ p \in Phase /\ event.id = Len(events) + 1 /\ UNCHANGED board
        /\ Len(phase) = Len(events) /\ phase \in Seq(Phase)
    BY <1>0, <1>1, <1>2 DEF Phase, FrontendType
  <2>2. /\ Event' = Event \cup {event.id} /\ event.id \notin Event
        /\ \A e \in Event : events'[e] = events[e] /\ phase'[e] = phase[e]
                              /\ Target(e)' = Target(e)
        /\ events'[event.id] = event /\ Target(event.id)' = event.target
        /\ Committed' = Committed /\ Targets(Unannounced)' = Targets(Unannounced)
    BY <1>0, <1>1, <1>2, <2>1, EventAdded
  <2> QED
    BY <2>1, <2>2
<1>4. n \in Nat /\ \A e \in Event : e < n
  BY <1>0, <1>1
<1>5. phase'[n] = p
  BY <1>0, <1>1, <1>2, <1>3
<1>6. n \notin Committed /\ n \notin Strokes /\ ~Drawn(board.events, n) /\ ~Shown(n)
  BY <1>0, <1>3, <1>4, DrawnByUsers
<1>7. \A e \in Event : /\ By(e)' = By(e) /\ (Undoes(e)' <=> Undoes(e)) /\ Target(e) \in Strokes
  BY <1>0, <1>3 DEF By, Undoes, EditsOfStrokes
<1>8. By(n)' = c /\ (Undoes(n)' <=> event.action = "undo_stroke")
  BY <1>1, <1>3 DEF By, Undoes
<1>9. Strokes' = IF event.action = "stroke" THEN Strokes \cup {n} ELSE Strokes
  BY <1>3 DEF Strokes
<1>10. /\ event.action = "stroke" => t = n
       /\ event.action /= "stroke" => t \in Strokes /\ By(t) = c
  BY DEF Submits
<1>11. t \in Strokes' /\ By(t)' = c
  BY <1>0, <1>7, <1>8, <1>9, <1>10
<1>12. InFlight' = IF IsOpen(c) THEN InFlight \cup {n} ELSE InFlight
  BY <1>2, <1>3, <1>5 DEF InFlight
<1>13. raced \subseteq raced' /\ (IsOpen(c) /\ t \notin raced' => ~Unsettled(c, t))
  <2>1. CASE IsOpen(c)
    <3>1. raced' = IF Unsettled(c, t) THEN raced \cup {t} ELSE raced
      BY <2>1 DEF Submits, submitStrokeMessage
    <3> QED
      BY <3>1
  <2>2. CASE ~IsOpen(c)
    BY <2>2 DEF Submits, submitStrokeMessage
  <2> QED
    BY <2>1, <2>2
<1>14. \A s : (Shown(s)' <=> Shown(s)) /\ (Excepted(s) => Excepted(s)')
  BY <1>1, <1>3, <1>13 DEF Shown, Excepted
<1>15. \A d \in Client : seen[d] \subseteq seen'[d] /\ (IsOpen(c) => n \in seen'[c])
  <2>1. CASE IsOpen(c)
    <3>1. seen' = [seen EXCEPT ![c] = @ \cup {n}]
      BY <2>1 DEF Submits, submitStrokeMessage
    <3> QED
      BY <1>0, <3>1
  <2>2. CASE ~IsOpen(c)
    BY <2>2 DEF Submits, submitStrokeMessage
  <2> QED
    BY <2>1, <2>2
<1>16. UNCHANGED <<readyState, wsRef>>
  BY <1>1 DEF connVars
<1> QED
  BY <1>1, <1>2, <1>3, <1>4, <1>5, <1>6, <1>7, <1>8, <1>9, <1>10, <1>11, <1>12, <1>13, <1>14, <1>15,
     <1>16

\* What is on its way to the clients stays, and is about earlier events.
LEMMA SubmitNotices ==
  ASSUME FrontendInv, CanvasInv, NEW c \in Client, NEW event, NEW shown, NEW redo,
         Submits(c, event, shown, redo), NEW d \in Client
  PROVE  /\ \A k, type, e : At(d, k, type, e)' <=> At(d, k, type, e)
         /\ \A e : (Told(d, e)' <=> Told(d, e)) /\ (Refused(d, e)' <=> Refused(d, e))
         /\ \A e : Told(d, e) \/ Refused(d, e) => e \in Event
         /\ \A k \in DOMAIN toClient[d] : \A e :
              At(d, k, "stroke_broadcast", e) \/ At(d, k, "error", e) => e \in Event
         /\ Answers(d)' = Answers(d) /\ (Fresh(d)' <=> Fresh(d))
         /\ \A e \in Event : Own(d, e)' <=> Own(d, e)
         /\ Own(d, event.id)' <=> d = c
<1>1. /\ UNCHANGED <<toClient, session, reading, wsRef>>
      /\ \A e \in Event : events'[e] = events[e]
  BY SubmitAdds
<1>2. /\ \A k, type, e : At(d, k, type, e)' <=> At(d, k, type, e)
      /\ \A e : (Told(d, e)' <=> Told(d, e)) /\ (Refused(d, e)' <=> Refused(d, e))
      /\ Answers(d)' = Answers(d) /\ (Fresh(d)' <=> Fresh(d))
  BY <1>1, NoticesKept DEF Answers, Fresh
<1>3. \A k \in DOMAIN toClient[d] : \A e :
        At(d, k, "stroke_broadcast", e) \/ At(d, k, "error", e) => e \in Event
  BY DEF At, FrontendInv, NoticesOf
<1>4. \A e : Told(d, e) \/ Refused(d, e) => e \in Event
  BY <1>3 DEF Told, Refused
<1>5. events'[event.id].by = c /\ events'[event.id].via = wsRef[c]
  <2>1. /\ events' = Append(events, event) /\ event.id = Len(events) + 1
        /\ events \in Seq(Edit) /\ event \in Edit
    BY DEF Submits, submitStrokeMessage, FrontendInv, FrontendType
  <2>2. events'[event.id] = event
    BY <2>1
  <2> QED
    BY <2>2 DEF Submits
<1> QED
  BY <1>1, <1>2, <1>3, <1>4, <1>5 DEF Own

\* An edit that is not raced: its author has heard of all others of the stroke.
LEMMA SubmitIdle ==
  ASSUME FrontendInv, CanvasInv, NEW c \in Client, NEW event, NEW shown, NEW redo,
         Submits(c, event, shown, redo), IsOpen(c), event.target \notin raced',
         NEW e \in Event, Target(e) = event.target
  PROVE  ~Busy(c, e)
<1>1. ~Unsettled(c, event.target)
  BY SubmitAdds
<1>2. ~Told(c, e) /\ ~Refused(c, e)
  BY <1>1 DEF Unsettled, Told, Refused, At
<1>3. phase[e] \notin {"sent", "committed", "limbo"}
  BY <1>1 DEF Unsettled, InFlight
<1> QED
  BY <1>2, <1>3 DEF Busy

LEMMA SubmitOrder ==
  ASSUME FrontendInv, CanvasInv, NEW c \in Client, NEW event, NEW shown, NEW redo,
         Submits(c, event, shown, redo)
  PROVE  SessionOpen' /\ EditsOfStrokes' /\ Phases' /\ OneAtATime' /\ LastDecides'
<1>1. PICK n, t : n = event.id /\ t = event.target
  OBVIOUS
<1>2. /\ n \in Nat /\ n \notin Event /\ Event' = Event \cup {n} /\ \A e \in Event : e < n
      /\ n \notin Committed
      /\ \A e \in Event : /\ events'[e] = events[e] /\ phase'[e] = phase[e]
                          /\ Target(e)' = Target(e) /\ By(e)' = By(e)
                          /\ (Undoes(e)' <=> Undoes(e)) /\ Target(e) \in Strokes
      /\ Target(n)' = t /\ By(n)' = c
      /\ Strokes \subseteq Strokes' /\ t \in Strokes' /\ By(t)' = c
      /\ event.action = "stroke" => t = n
      /\ event.action /= "stroke" => t \in Strokes /\ By(t) = c
      /\ Committed' = Committed /\ Committed \subseteq Event /\ Strokes \subseteq Event
      /\ \A s : Shown(s)' <=> Shown(s)
      /\ UNCHANGED <<readyState, wsRef, session, board>>
      /\ phase'[n] \in {"sent", "unsent"} /\ (phase'[n] = "sent" <=> IsOpen(c))
      /\ raced \subseteq raced'
      /\ \A d \in Client : seen[d] \subseteq seen'[d]
      /\ IsOpen(c) => n \in seen'[c]
  BY <1>1, SubmitAdds, CanvasTypes
<1>3. /\ EditsOfStrokes /\ Phases /\ OneAtATime /\ LastDecides /\ SessionOpen
      /\ \A e \in Event : /\ e \in Nat /\ events[e].by \in Client /\ By(e) \in Client
                          /\ phase[e] \in {"unsent", "sent", "committed", "limbo", "late", "done"}
  BY CanvasTypes DEF CanvasInv, By, Phase
<1>4. \A d \in Client : (IsOpen(d)' <=> IsOpen(d)) /\ wsRef'[d] = wsRef[d]
  BY <1>2 DEF IsOpen, RefState
<1>5. events'[n].by = c /\ events'[n].via = wsRef[c] /\ events'[n].action = event.action
  <2>1. /\ events' = Append(events, event) /\ n = Len(events) + 1
        /\ events \in Seq(Edit) /\ event \in Edit /\ event.by = c /\ event.via = wsRef[c]
    BY <1>1 DEF Submits, submitStrokeMessage, FrontendInv, FrontendType
  <2>2. events'[n] = event
    BY <2>1
  <2> QED
    BY <2>1, <2>2
<1>6. SessionOpen'
  BY <1>2, <1>3, <1>4 DEF SessionOpen
<1>7. EditsOfStrokes'
  <2> SUFFICES ASSUME NEW e \in Event'
               PROVE  /\ Target(e)' \in Strokes' /\ By(Target(e))' = By(e)'
                      /\ events'[e].action /= "stroke" => Target(e)' < e
    BY DEF EditsOfStrokes
  <2>1. CASE e \in Event
    <3>1. /\ Target(e) \in Strokes /\ By(Target(e)) = By(e)
          /\ events[e].action /= "stroke" => Target(e) < e
      BY <1>3, <2>1 DEF EditsOfStrokes
    <3>2. PICK u : u = Target(e)
      OBVIOUS
    <3>3. u \in Event /\ By(u)' = By(u) /\ Target(e)' = u
      BY <1>2, <2>1, <3>1, <3>2
    <3>4. By(Target(e))' = By(u)'
      BY <3>3 DEF By
    <3> QED
      BY <1>2, <2>1, <3>1, <3>2, <3>3, <3>4
  <2>2. CASE e = n
    <3>1. By(Target(e))' = By(t)'
      BY <1>2, <2>2 DEF By
    <3> QED
      BY <1>2, <1>5, <2>2, <3>1
  <2> QED
    BY <1>2, <2>1, <2>2
<1>8. Phases'
  <2> SUFFICES ASSUME NEW e \in Event'
               PROVE  /\ phase'[e] \in {"committed", "late"} => e \in Committed
                      /\ phase'[e] = "unsent" => e \notin Committed
                      /\ phase'[e] /= "unsent" => Sent(e)'
    BY <1>2 DEF Phases
  <2>1. CASE e \in Event
    <3>1. phase[e] /= "unsent" => Sent(e)
      BY <1>3, <2>1 DEF Phases
    <3>2. PICK d \in Client : d = events[e].by
      BY <1>3, <2>1
    <3>3. events'[e] = events[e] /\ (IsOpen(d)' <=> IsOpen(d)) /\ wsRef'[d] = wsRef[d]
      BY <1>2, <1>4, <2>1
    <3>4. SenderOpen(e)' => SenderOpen(e)
      BY <3>2, <3>3 DEF SenderOpen, IsOpen, RefState
    <3>5. Sent(e) => Sent(e)'
      BY <1>2, <3>2, <3>3, <3>4 DEF Sent
    <3> QED
      BY <1>2, <1>3, <2>1, <3>1, <3>5 DEF Phases
  <2>2. CASE e = n
    <3>1. ASSUME IsOpen(c) PROVE Sent(n)'
      <4>1. wsRef[c] \in Socket /\ readyState[c][wsRef[c]] = "OPEN"
        BY <3>1, RefIsASocket DEF FrontendInv, IsOpen, RefState
      <4> QED
        BY <1>2, <1>5, <3>1, <4>1 DEF Sent
    <3> QED
      BY <1>2, <2>2, <3>1
  <2> QED
    BY <1>2, <2>1, <2>2
<1>9. OneAtATime'
  <2> SUFFICES ASSUME NEW s \in Strokes' \ raced', NEW e \in Event', NEW f \in Event',
                      Target(e)' = s, Target(f)' = s, e < f, phase'[f] /= "unsent"
               PROVE  /\ phase'[e] \in {"done", "late", "unsent"}
                      /\ \A d \in Client : By(e)' = d => ~Told(d, e)' /\ ~Refused(d, e)'
    BY DEF OneAtATime
  <2>1. e \in Event /\ s \in Strokes /\ Target(e) = s
    <3>1. e /= n
      BY <1>2, <1>3
    <3> QED
      BY <1>2, <3>1
  <2>2. /\ \A d \in Client : (Told(d, e)' <=> Told(d, e)) /\ (Refused(d, e)' <=> Refused(d, e))
        /\ phase'[e] = phase[e] /\ By(e)' = By(e)
    BY <1>2, <2>1, SubmitNotices
  <2>3. CASE f = n
    <3>1. IsOpen(c) /\ s = t
      BY <1>2, <2>3
    <3>2. ~Busy(c, e)
      BY <1>1, <2>1, <3>1, SubmitIdle
    <3>3. By(e) = c
      BY <1>2, <1>3, <2>1, <3>1 DEF EditsOfStrokes
    <3> QED
      BY <1>3, <2>1, <2>2, <3>2, <3>3 DEF Busy
  <2>4. CASE f \in Event
    <3>1. Target(f) = s /\ phase[f] /= "unsent" /\ s \notin raced
      BY <1>2, <2>4
    <3> QED
      BY <1>3, <2>1, <2>2, <2>4, <3>1 DEF OneAtATime
  <2> QED
    BY <1>2, <2>3, <2>4
<1>10. LastDecides'
  <2> SUFFICES ASSUME NEW s \in Strokes' \ raced', NEW e \in Committed, Target(e)' = s,
                      \A f \in Committed : Target(f)' = s => f <= e
               PROVE  Shown(s) <=> ~Undoes(e)' /\ Drawn(board.events, s)
    BY <1>2 DEF LastDecides
  <2>1. /\ e \in Event /\ s \in Strokes /\ s \notin raced /\ Target(e) = s
        /\ (Undoes(e)' <=> Undoes(e)) /\ \A f \in Committed : Target(f)' = Target(f)
    BY <1>2
  <2> QED
    BY <1>3, <2>1 DEF LastDecides
<1> QED
  BY <1>6, <1>7, <1>8, <1>9, <1>10

\* What is on its way to a client is as true as before.
LEMMA SubmitOnTheWay ==
  ASSUME FrontendInv, CanvasInv, NEW c \in Client, NEW event, NEW shown, NEW redo,
         Submits(c, event, shown, redo), NEW d \in Client
  PROVE  NoticesTrue(d)' /\ InOrder(d)' /\ \A r \in Answers(d)' : ReadAgrees(d, r)'
<1>1. PICK n : n = event.id
  OBVIOUS
<1>2. /\ n \in Nat /\ n \notin Event /\ Event' = Event \cup {n}
      /\ \A e \in Event : /\ events'[e] = events[e] /\ phase'[e] = phase[e]
                          /\ Target(e)' = Target(e) /\ By(e)' = By(e) /\ Target(e) \in Strokes
      /\ Strokes' \subseteq Strokes \cup {n} /\ ~Shown(n) /\ ~Drawn(board.events, n)
      /\ Committed' = Committed /\ Committed \subseteq Event
      /\ \A s : (Shown(s)' <=> Shown(s)) /\ (Excepted(s) => Excepted(s)')
      /\ toClient' = toClient /\ InFlight \subseteq InFlight'
      /\ seen[d] \subseteq seen'[d]
  BY <1>1, SubmitAdds, CanvasTypes
<1>3. /\ \A k, type, e : At(d, k, type, e)' <=> At(d, k, type, e)
      /\ \A e : (Told(d, e)' <=> Told(d, e))
      /\ \A k \in DOMAIN toClient[d] : \A e :
           At(d, k, "stroke_broadcast", e) \/ At(d, k, "error", e) => e \in Event
      /\ Answers(d)' = Answers(d)
  BY SubmitNotices
<1>4. CanvasOf(d)
  BY DEF CanvasInv
<1>5. NoticesTrue(d)'
  <2> SUFFICES ASSUME NEW e \in Event', NEW k \in DOMAIN toClient[d]
               PROVE  /\ At(d, k, "stroke_broadcast", e) => phase'[e] = "done" /\ e \in Committed
                      /\ At(d, k, "error", e) =>
                           By(e)' = d /\ \A l \in DOMAIN toClient[d] : At(d, l, "error", e) => l = k
    BY <1>2, <1>3 DEF NoticesTrue
  <2>1. CASE e \in Event
    BY <1>2, <1>4, <2>1 DEF CanvasOf, NoticesTrue
  <2>2. CASE e \notin Event
    BY <1>3, <2>2
  <2> QED
    BY <2>1, <2>2
<1>6. InOrder(d)'
  <2> SUFFICES ASSUME NEW s \in Strokes', NEW e \in Event', NEW f \in Committed,
                      NEW k \in DOMAIN toClient[d], ~Excepted(s)', Target(e)' = s, Target(f)' = s,
                      e < f, At(d, k, "stroke_broadcast", e)
               PROVE  \/ f \in InFlight'
                      \/ \E l \in DOMAIN toClient[d] : l > k /\ At(d, l, "stroke_broadcast", f)
    BY <1>2, <1>3 DEF InOrder
  <2>1. /\ e \in Event /\ f \in Event /\ s \in Strokes /\ ~Excepted(s)
        /\ Target(e) = s /\ Target(f) = s
    BY <1>2, <1>3
  <2>2. f \in InFlight \/ \E l \in DOMAIN toClient[d] : l > k /\ At(d, l, "stroke_broadcast", f)
    BY <1>4, <2>1 DEF CanvasOf, InOrder
  <2> QED
    BY <1>2, <2>2
<1>7. ASSUME NEW r \in Answers(d) PROVE ReadAgrees(d, r)'
  <2>0. r.lacks \subseteq Event
    BY <1>2, <1>7 DEF FrontendInv, ReadsOld, Answers
  <2> SUFFICES ASSUME r.confirmed, NEW s \in Strokes', ~Excepted(s)', s \notin Targets(r.lacks)'
               PROVE  (Has(r.strokes, s) <=> Shown(s)) \/ Missed(d, r.of, s)'
    BY <1>2 DEF ReadAgrees
  <2>3. s \notin Targets(r.lacks)
    BY <1>2, <2>0 DEF Targets
  <2>1. CASE s \in Strokes
    <3>1. (Has(r.strokes, s) <=> Shown(s)) \/ Missed(d, r.of, s)
      BY <1>2, <1>4, <2>1, <2>3 DEF CanvasOf, ReadAgrees
    <3>2. Missed(d, r.of, s) => Missed(d, r.of, s)'
      BY <1>2, <1>3 DEF Missed
    <3> QED
      BY <3>1, <3>2
  <2>2. CASE s = n
    BY <1>2, <1>4, <2>2 DEF CanvasOf, OnlyStrokes
  <2> QED
    BY <1>2, <2>1, <2>2
<1> QED
  BY <1>3, <1>5, <1>6, <1>7

\* The others do not see it yet.
LEMMA SubmitOthers ==
  ASSUME FrontendInv, CanvasInv, NEW c \in Client, NEW event, NEW shown, NEW redo,
         Submits(c, event, shown, redo), NEW d \in Client \ {c},
         strokes'[d] = strokes[d], redoIds'[d] = redoIds[d]
  PROVE  CanvasOf(d)'
<1>1. PICK n, t : n = event.id /\ t = event.target
  OBVIOUS
<1>2. /\ n \in Nat /\ n \notin Event /\ Event' = Event \cup {n}
      /\ \A e \in Event : /\ events'[e] = events[e] /\ phase'[e] = phase[e]
                          /\ Target(e)' = Target(e) /\ By(e)' = By(e)
                          /\ (Undoes(e)' <=> Undoes(e)) /\ Target(e) \in Strokes
      /\ n \notin Strokes /\ ~Shown(n) /\ ~Drawn(board.events, n)
      /\ Target(n)' = t /\ By(n)' = c /\ By(t)' = c
      /\ Strokes \subseteq Strokes' /\ Strokes' \subseteq Strokes \cup {n}
      /\ Strokes \subseteq Event /\ Event \subseteq Nat
      /\ Committed' = Committed /\ Committed \subseteq Event
      /\ \A s : (Shown(s)' <=> Shown(s)) /\ (Excepted(s) => Excepted(s)')
      /\ board' = board /\ disputed' = disputed
      /\ InFlight \subseteq InFlight' /\ InFlight' \subseteq InFlight \cup {n}
      /\ archive'[d] = archive[d]
  <2>1. archive'[d] = archive[d]
    BY DEF Submits
  <2>2. Strokes \subseteq Event /\ Event \subseteq Nat /\ Committed \subseteq Event
    BY CanvasTypes
  <2> QED
    BY <1>1, <2>1, <2>2, SubmitAdds
<1>3. /\ \A e : (Told(d, e)' <=> Told(d, e)) /\ (Refused(d, e)' <=> Refused(d, e))
      /\ \A e : Told(d, e) \/ Refused(d, e) => e \in Event
      /\ Answers(d)' = Answers(d) /\ (Fresh(d)' <=> Fresh(d))
      /\ \A e \in Event : Own(d, e)' <=> Own(d, e)
      /\ ~Own(d, n)'
  BY <1>1, SubmitNotices
<1>4. CanvasOf(d) /\ \A s \in Nat : /\ Has(strokes[d], s) \/ s \in archive[d] => s \in Strokes
                                    /\ Has(redoIds[d], s) => s \in Strokes /\ By(s) = d
  BY DEF CanvasInv, CanvasOf, OnlyStrokes
<1>5. OnlyStrokes(d)'
  BY <1>2, <1>3, <1>4 DEF CanvasOf, OnlyStrokes
<1>6. ASSUME Fresh(d), NEW s \in Strokes', ~Excepted(s)', s \notin disputed[d]
      PROVE  Agrees(d, s)'
  <2>1. \A e \in Event' : Optimistic(d, s, e)' => e \in Event /\ Optimistic(d, s, e)
    BY <1>2, <1>3 DEF Optimistic
  <2>2. CASE s \in Strokes
    <3>1. Agrees(d, s)
      BY <1>2, <1>4, <1>6, <2>2 DEF CanvasOf
    <3>2. \A e \in Event : Optimistic(d, s, e) \/ Awaited(d, s, e) =>
            Optimistic(d, s, e)' \/ Awaited(d, s, e)'
      BY <1>2, <1>3 DEF Optimistic, Awaited
    <3>3. ArchiveDrawn(d, s)'
      BY <1>2, <1>3, <2>2, <3>1 DEF Agrees, ArchiveDrawn
    <3>4. RedoUndone(d, s)'
      <4> SUFFICES ASSUME Has(redoIds[d], s)
                   PROVE  /\ ~Has(strokes[d], s) /\ ~Double(redoIds[d], s)
                          /\ \A e \in Event' : Target(e)' = s =>
                               ~Told(d, e) /\ (e \in InFlight' => Own(d, e)')
        BY <1>3 DEF RedoUndone
      <4>1. By(s) = d /\ By(s)' = d /\ s /= t
        BY <1>2, <1>4, <2>2
      <4>2. \A e \in Event' : Target(e)' = s => e \in Event /\ Target(e) = s
        BY <1>2, <4>1
      <4>3. RedoUndone(d, s)
        BY <3>1 DEF Agrees
      <4> QED
        BY <1>2, <1>3, <4>2, <4>3 DEF RedoUndone
    <3> QED
      BY <1>2, <2>1, <3>1, <3>2, <3>3, <3>4, AgreesStill
  <2>3. CASE s = n
    <3>1. \A e \in Event' : ~Optimistic(d, s, e)'
      BY <1>2, <2>1, <2>3 DEF Optimistic
    <3>2. ~Has(strokes[d], n) /\ n \notin archive[d] /\ ~Has(redoIds[d], n)
      BY <1>2, <1>4
    <3> QED
      BY <1>2, <2>3, <3>1, <3>2 DEF Agrees, ShowsItsOwn, ShowsTheBoard, ArchiveDrawn, RedoUndone
  <2> QED
    BY <1>2, <2>2, <2>3
<1> QED
  BY <1>2, <1>3, <1>5, <1>6, SubmitOnTheWay DEF CanvasOf

\* The author shows it at once.
LEMMA SubmitAuthor ==
  ASSUME FrontendInv, CanvasInv, NEW c \in Client, NEW event, NEW shown, NEW redo,
         Submits(c, event, shown, redo), IsOpen(c), strokes'[c] = shown, redoIds'[c] = redo,
         NEW s \in Strokes', Fresh(c), ~Excepted(s)', s \notin disputed[c]
  PROVE  Agrees(c, s)'
<1>1. PICK n, t : n = event.id /\ t = event.target
  OBVIOUS
<1>2. /\ n \in Nat /\ n \notin Event /\ Event' = Event \cup {n}
      /\ \A e \in Event : /\ events'[e] = events[e] /\ phase'[e] = phase[e]
                          /\ Target(e)' = Target(e) /\ By(e)' = By(e)
                          /\ (Undoes(e)' <=> Undoes(e)) /\ Target(e) \in Strokes
      /\ n \notin Strokes /\ ~Shown(n) /\ ~Drawn(board.events, n) /\ n \notin Committed
      /\ Target(n)' = t /\ By(n)' = c /\ (Undoes(n)' <=> event.action = "undo_stroke")
      /\ Strokes' = IF event.action = "stroke" THEN Strokes \cup {n} ELSE Strokes
      /\ Strokes \subseteq Event /\ Event \subseteq Nat
      /\ event.action = "stroke" => t = n
      /\ event.action /= "stroke" => t \in Strokes
      /\ Committed' = Committed /\ Committed \subseteq Event
      /\ \A x : (Shown(x)' <=> Shown(x)) /\ (Excepted(x) => Excepted(x)')
      /\ board' = board /\ phase'[n] = "sent" /\ InFlight' = InFlight \cup {n}
  <2>1. Strokes \subseteq Event /\ Event \subseteq Nat /\ Committed \subseteq Event
    BY CanvasTypes
  <2>2. /\ phase'[n] = "sent" /\ InFlight' = InFlight \cup {n}
        /\ n \in Nat /\ n \notin Event /\ Event' = Event \cup {n}
        /\ n \notin Strokes /\ ~Shown(n) /\ ~Drawn(board.events, n) /\ n \notin Committed
    BY <1>1, SubmitAdds
  <2> QED
    BY <1>1, <2>1, <2>2, SubmitAdds
<1>3. /\ \A e : (Told(c, e)' <=> Told(c, e)) /\ (Refused(c, e)' <=> Refused(c, e))
      /\ \A e : Told(c, e) \/ Refused(c, e) => e \in Event
      /\ \A e \in Event : Own(c, e)' <=> Own(c, e)
      /\ Own(c, n)'
  BY <1>1, SubmitNotices
<1>4. /\ event.action \in {"stroke", "undo_stroke", "redo_stroke"}
      /\ archive'[c] = IF event.action = "stroke" THEN archive[c] \cup {n} ELSE archive[c]
      /\ \A y : Has(shown, y) <=> IF y /= t THEN Has(strokes[c], y)
                                  ELSE event.action /= "undo_stroke"
      /\ \A y : y /= t => (Has(redo, y) => Has(redoIds[c], y))
                          /\ (Double(redo, y) => Double(redoIds[c], y))
      /\ event.action = "stroke" => ~Has(redo, t)
      /\ event.action = "undo_stroke" =>
           Has(strokes[c], t) /\ (Double(redo, t) => Has(redoIds[c], t))
      /\ event.action = "redo_stroke" =>
           Has(redoIds[c], t) /\ (Has(redo, t) => Double(redoIds[c], t))
  BY <1>1 DEF Submits
<1>5. /\ s \in Strokes => Agrees(c, s)
      /\ s \notin raced'
  BY <1>2 DEF CanvasInv, CanvasOf, Excepted
<1>6. \A e \in Event : /\ Optimistic(c, s, e)' <=> Optimistic(c, s, e)
                       /\ Awaited(c, s, e)' <=> Awaited(c, s, e)
  BY <1>2, <1>3 DEF Optimistic, Awaited
<1>7. CASE s /= t
  <2>1. s \in Strokes /\ s /= n
    BY <1>2, <1>7
  <2>2. ~Optimistic(c, s, n)'
    BY <1>2, <1>7 DEF Optimistic
  <2>3. ArchiveDrawn(c, s)'
    BY <1>2, <1>3, <1>4, <1>5, <2>1 DEF Agrees, ArchiveDrawn
  <2>4. RedoUndone(c, s)'
    <3> SUFFICES ASSUME Has(redo, s)
                 PROVE  /\ ~Has(shown, s) /\ ~Double(redo, s)
                        /\ \A e \in Event' : Target(e)' = s =>
                             ~Told(c, e) /\ (e \in InFlight' => Own(c, e)')
      BY <1>3 DEF RedoUndone
    <3>1. RedoUndone(c, s) /\ Has(redoIds[c], s)
      BY <1>4, <1>5, <1>7, <2>1 DEF Agrees
    <3>2. \A e \in Event' : Target(e)' = s => e \in Event /\ Target(e) = s
      BY <1>2, <1>7
    <3> QED
      BY <1>2, <1>3, <1>4, <1>7, <3>1, <3>2 DEF RedoUndone
  <2> QED
    BY <1>2, <1>4, <1>5, <1>6, <1>7, <2>1, <2>2, <2>3, <2>4, AgreesStill
<1>8. CASE s = t
  <2>1. \A e \in Event : Target(e) = t => ~Busy(c, e)
    BY <1>1, <1>5, <1>8, SubmitIdle
  <2>2. \A e \in Event : ~Optimistic(c, s, e) /\ ~Awaited(c, s, e)
    BY <1>8, <2>1 DEF Busy, Optimistic, Awaited, InFlight
  <2>3. Optimistic(c, s, n)'
    BY <1>2, <1>3, <1>8 DEF Optimistic
  <2>4. Shown(t) <=> event.action = "undo_stroke"
    <3>1. CASE event.action = "stroke"
      BY <1>2, <3>1
    <3>2. CASE event.action /= "stroke"
      <4>1. Agrees(c, t) /\ (Has(strokes[c], t) <=> Shown(t))
        BY <1>2, <1>5, <1>8, <2>2, <3>2 DEF Agrees, ShowsTheBoard
      <4> QED
        BY <1>4, <3>2, <4>1 DEF Agrees, RedoUndone
    <3> QED
      BY <3>1, <3>2
  <2>5. ShowsItsOwn(c, s)'
    <3> SUFFICES ASSUME NEW e \in Event', Optimistic(c, s, e)'
                 PROVE  (Has(shown, s) <=> ~Undoes(e)') /\ (Shown(s) <=> Undoes(e)')
      BY <1>2 DEF ShowsItsOwn
    <3>1. e = n
      BY <1>2, <1>6, <2>2
    <3> QED
      BY <1>2, <1>4, <1>8, <2>4, <3>1
  <2>6. ShowsTheBoard(c, s)'
    BY <1>2, <2>3 DEF ShowsTheBoard
  <2>7. ArchiveDrawn(c, s)'
    <3>1. CASE event.action = "stroke"
      BY <1>2, <1>3, <1>8, <3>1 DEF ArchiveDrawn
    <3>2. CASE event.action /= "stroke"
      BY <1>2, <1>3, <1>4, <1>5, <1>8, <3>2 DEF Agrees, ArchiveDrawn
    <3> QED
      BY <3>1, <3>2
  <2>8. RedoUndone(c, s)'
    <3> SUFFICES ASSUME Has(redo, t)
                 PROVE  /\ ~Has(shown, t) /\ ~Double(redo, t)
                        /\ \A e \in Event' : Target(e)' = t =>
                             ~Told(c, e) /\ (e \in InFlight' => Own(c, e)')
      BY <1>3, <1>8 DEF RedoUndone
    <3>1. event.action /= "stroke" /\ RedoUndone(c, t)
      BY <1>2, <1>4, <1>5, <1>8 DEF Agrees
    <3>2. event.action = "undo_stroke" /\ ~Has(shown, t) /\ ~Double(redo, t)
      BY <1>4, <3>1 DEF RedoUndone
    <3>3. ASSUME NEW e \in Event', Target(e)' = t
          PROVE  ~Told(c, e) /\ (e \in InFlight' => Own(c, e)')
      <4>1. CASE e = n
        BY <1>2, <1>3, <4>1
      <4>2. CASE e \in Event
        <5>1. ~Busy(c, e)
          BY <1>2, <2>1, <3>3, <4>2
        <5> QED
          BY <1>2, <4>2, <5>1 DEF Busy, InFlight
      <4> QED
        BY <1>2, <4>1, <4>2
    <3> QED
      BY <3>2, <3>3
  <2> QED
    BY <2>5, <2>6, <2>7, <2>8 DEF Agrees
<1> QED
  BY <1>7, <1>8

LEMMA SubmitCanvas ==
  ASSUME FrontendInv, CanvasInv, NEW c \in Client, NEW event, NEW shown, NEW redo,
         Submits(c, event, shown, redo)
  PROVE  CanvasInv'
<1>0. /\ strokes \in [Client -> Seq(Nat)] /\ redoIds \in [Client -> Seq(Nat)]
      /\ event \in Edit /\ shown \in Seq(Nat) /\ redo \in Seq(Nat)
  BY DEF FrontendInv, FrontendType, Submits
<1>1. PICK n, t : n = event.id /\ t = event.target
  OBVIOUS
<1>2. /\ \A d \in Client \ {c} : strokes'[d] = strokes[d] /\ redoIds'[d] = redoIds[d]
      /\ IsOpen(c) => strokes'[c] = shown /\ redoIds'[c] = redo
      /\ ~IsOpen(c) => /\ strokes'[c] = rolledBack(shown, event)
                       /\ redoIds'[c] = redoRolledBack(redo, event)
  <2>1. CASE IsOpen(c)
    <3>1. strokes' = [strokes EXCEPT ![c] = shown] /\ redoIds' = [redoIds EXCEPT ![c] = redo]
      BY <2>1 DEF Submits, submitStrokeMessage
    <3> QED
      BY <1>0, <2>1, <3>1
  <2>2. CASE ~IsOpen(c)
    <3>1. /\ strokes' = [strokes EXCEPT ![c] = rolledBack(shown, event)]
          /\ redoIds' = [redoIds EXCEPT ![c] = redoRolledBack(redo, event)]
      BY <2>2 DEF Submits, submitStrokeMessage
    <3> QED
      BY <1>0, <2>2, <3>1
  <2> QED
    BY <2>1, <2>2
<1>3. \A y : /\ Has(strokes'[c], y) => Has(strokes[c], y) \/ y = t
             /\ Has(redoIds'[c], y) => Has(redoIds[c], y) \/ y = t
             /\ y \in archive'[c] => y \in archive[c] \/ y = t
  <2>1. \A y : /\ Has(shown, y) => Has(strokes[c], y) \/ y = t
               /\ Has(redo, y) => Has(redoIds[c], y) \/ y = t
               /\ y \in archive'[c] => y \in archive[c] \/ y = t
    BY <1>1 DEF Submits
  <2>2. /\ \A y : Has(rolledBack(shown, event), y) => Has(shown, y) \/ y = t
        /\ \A y : Has(redoRolledBack(redo, event), y) => Has(redo, y) \/ y = t
    BY <1>0, <1>1, RolledBackIs, RedoRolledBackIs
  <2> QED
    BY <1>2, <2>1, <2>2
<1>4. /\ \A e \in Event : By(e)' = By(e)
      /\ Strokes \subseteq Strokes' /\ Strokes \subseteq Event /\ t \in Strokes' /\ By(t)' = c
      /\ board' = board /\ disputed' = disputed
  <2>1. Strokes' = IF event.action = "stroke" THEN Strokes \cup {n} ELSE Strokes
    BY <1>1, SubmitAdds
  <2>2. /\ \A e \in Event : By(e)' = By(e)
        /\ t \in Strokes' /\ By(t)' = c /\ board' = board /\ disputed' = disputed
    BY <1>1, SubmitAdds
  <2> QED
    BY <2>1, <2>2, CanvasTypes
<1>5. /\ Answers(c)' = Answers(c) /\ (Fresh(c)' <=> Fresh(c))
  BY SubmitNotices
<1>6. OnlyStrokes(c)'
  <2>1. /\ \A s \in Nat : /\ Has(strokes[c], s) \/ s \in archive[c] => s \in Strokes
                          /\ Has(redoIds[c], s) => s \in Strokes /\ By(s) = c
        /\ \A r \in Answers(c) : \A s \in Nat : Has(r.strokes, s) => Drawn(board.events, s)
    BY DEF CanvasInv, CanvasOf, OnlyStrokes
  <2>2. \A s \in Nat : /\ Has(strokes'[c], s) \/ s \in archive'[c] => s \in Strokes'
                       /\ Has(redoIds'[c], s) => s \in Strokes' /\ By(s)' = c
    BY <1>3, <1>4, <2>1
  <2> QED
    BY <1>4, <1>5, <2>1, <2>2 DEF OnlyStrokes
<1>7. CanvasOf(c)'
  <2>1. ASSUME Fresh(c), NEW s \in Strokes', ~Excepted(s)', s \notin disputed[c]
        PROVE  Agrees(c, s)'
    <3>1. IsOpen(c)
      BY <2>1, FreshIsOpen DEF Fresh
    <3> QED
      BY <1>2, <2>1, <3>1, SubmitAuthor
  <2> QED
    BY <1>4, <1>5, <1>6, <2>1, SubmitOnTheWay DEF CanvasOf
<1>8. \A d \in Client \ {c} : CanvasOf(d)'
  BY <1>2, SubmitOthers
<1> QED
  BY <1>7, <1>8, SubmitOrder DEF CanvasInv

LEMMA UserStepCanvas ==
  ASSUME FrontendInv, CanvasInv, NEW c \in Client, UserStep(c)
  PROVE  CanvasInv'
<1>0. /\ events \in Seq(Edit) /\ Len(events) + 1 \in Nat /\ wsRef[c] \in Nat
      /\ strokes[c] \in Seq(Nat) /\ redoIds[c] \in Seq(Nat)
      /\ archive \in [Client -> SUBSET Nat] /\ archive[c] \subseteq Nat
  BY DEF FrontendInv, FrontendType, ConnInv, ConnType
<1>1. ASSUME NEW a \in Action, NEW s \in Nat
      PROVE  LET event == NewEvent(c, a, s) IN
             /\ event \in Edit /\ event.id = Len(events) + 1 /\ event.by = c
             /\ event.via = wsRef[c] /\ event.action = a /\ event.target = s
  BY <1>0, <1>1 DEF NewEvent, Edit
<1>2. \A s \in Nat : /\ Has(strokes[c], s) => s \in Strokes
                     /\ Has(redoIds[c], s) => s \in Strokes /\ By(s) = c
  BY DEF CanvasInv, CanvasOf, OnlyStrokes
<1>3. CASE addStroke(c)
  <2> DEFINE event == NewEvent(c, "stroke", Len(events) + 1)
             shown == applyStrokeEvent(strokes[c], event, archive'[c])
  <2>1. /\ event \in Edit /\ event.id = Len(events) + 1 /\ event.by = c
        /\ event.via = wsRef[c] /\ event.action = "stroke" /\ event.target = Len(events) + 1
    BY <1>0, <1>1 DEF Action
  <2>2. /\ archive' = [archive EXCEPT ![c] = @ \cup {event.id}]
        /\ submitStrokeMessage(c, event, shown, <<>>)
    BY <1>3 DEF addStroke
  <2>3. /\ shown \in Seq(Nat)
        /\ \A y : Has(shown, y) <=> IF y /= event.target THEN Has(strokes[c], y) ELSE TRUE
    BY <1>0, <2>1, ShownIs, ShownExactly
  <2> HIDE DEF event, shown
  <2>4. /\ archive' \in [Client -> SUBSET Nat] /\ \A d \in Client \ {c} : archive'[d] = archive[d]
        /\ archive'[c] = archive[c] \cup {event.id}
    BY <1>0, <2>1, <2>2
  <2>5. <<>> \in Seq(Nat) /\ \A y : ~Has(<<>>, y) /\ ~Double(<<>>, y)
    BY EmptySeq DEF Has, Double
  <2>6. Submits(c, event, shown, <<>>)
    BY <2>1, <2>2, <2>3, <2>4, <2>5 DEF Submits
  <2> QED
    BY <2>6, SubmitCanvas
<1>4. CASE undoLastStroke(c)
  <2>1. PICK k \in OwnVisible(c) :
          LET s == strokes[c][k]
              event == NewEvent(c, "undo_stroke", s)
          IN  /\ s \in archive[c]
              /\ submitStrokeMessage(c, event, applyStrokeEvent(strokes[c], event, archive[c]),
                                     Append(redoIds[c], s))
    BY <1>4 DEF undoLastStroke
  <2> DEFINE s == strokes[c][k]
             event == NewEvent(c, "undo_stroke", s)
             shown == applyStrokeEvent(strokes[c], event, archive[c])
             redo == Append(redoIds[c], s)
  <2>2. s \in archive[c] /\ submitStrokeMessage(c, event, shown, redo)
    BY <2>1
  <2>3. archive' = archive /\ s \in Nat
    BY <1>0, <1>4, <2>2 DEF undoLastStroke
  <2>4. /\ event \in Edit /\ event.id = Len(events) + 1 /\ event.by = c
        /\ event.via = wsRef[c] /\ event.action = "undo_stroke" /\ event.target = s
    BY <1>1, <2>3 DEF Action
  <2>5. /\ shown \in Seq(Nat)
        /\ \A y : Has(shown, y) <=> IF y /= event.target THEN Has(strokes[c], y) ELSE FALSE
    BY <1>0, <2>4, ShownIs, ShownExactly
  <2>6. Has(strokes[c], s) /\ By(s) = c
    BY DEF OwnVisible, Has, By
  <2>7. /\ redo \in Seq(Nat)
        /\ \A y : Has(redo, y) <=> Has(redoIds[c], y) \/ y = s
        /\ \A y : Double(redo, y) <=> Double(redoIds[c], y) \/ (y = s /\ Has(redoIds[c], y))
    <3>1. PICK z \in Nat : z = s
      BY <2>3
    <3>2. PICK ids \in Seq(Nat) : ids = redoIds[c]
      BY <1>0
    <3>3. /\ Append(ids, z) \in Seq(Nat)
          /\ \A y : Has(Append(ids, z), y) <=> Has(ids, y) \/ y = z
          /\ \A y : Double(Append(ids, z), y) <=> Double(ids, y) \/ (y = z /\ Has(ids, y))
      BY ONLY AppendedHas, z \in Nat, ids \in Seq(Nat)
    <3> QED
      BY <3>1, <3>2, <3>3
  <2>8. Double(redoIds[c], s) => Has(redoIds[c], s)
    BY DEF Double, Has
  <2> HIDE DEF event, shown, s, redo
  <2>9. Submits(c, event, shown, redo)
    BY <1>0, <1>2, <2>2, <2>3, <2>4, <2>5, <2>6, <2>7, <2>8 DEF Submits
  <2> QED
    BY <2>9, SubmitCanvas
<1>5. CASE redoLastStroke(c)
  <2> DEFINE n == Len(redoIds[c])
             s == redoIds[c][n]
             event == NewEvent(c, "redo_stroke", s)
             shown == applyStrokeEvent(strokes[c], event, archive[c])
             redo == SubSeq(redoIds[c], 1, n - 1)
  <2>1. /\ redoIds[c] /= <<>> /\ event.target \in archive[c] /\ archive' = archive
        /\ submitStrokeMessage(c, event, shown, redo)
    BY <1>5 DEF redoLastStroke
  <2>2. n \in Nat \ {0} /\ s \in Nat /\ n \in DOMAIN redoIds[c]
    BY <1>0, <2>1
  <2>3. /\ event \in Edit /\ event.id = Len(events) + 1 /\ event.by = c
        /\ event.via = wsRef[c] /\ event.action = "redo_stroke" /\ event.target = s
    BY <1>1, <2>2 DEF Action
  <2>4. /\ shown \in Seq(Nat)
        /\ \A y : Has(shown, y) <=> IF y /= event.target THEN Has(strokes[c], y) ELSE TRUE
    <3> HIDE DEF event
    <3>1. shown \in Seq(Nat)
      BY <1>0, <2>3, ShownIs
    <3>2. \A y : Has(shown, y) <=>
                   IF y /= event.target THEN Has(strokes[c], y)
                   ELSE /\ event.action /= "undo_stroke"
                        /\ event.action = "redo_stroke" => Has(strokes[c], y) \/ y \in archive[c]
      BY <1>0, <2>3, ShownExactly
    <3> HIDE DEF shown
    <3> QED
      BY <2>1, <2>3, <3>1, <3>2
  <2>5. /\ redo \in Seq(Nat) /\ DOMAIN redo \subseteq DOMAIN redoIds[c]
        /\ \A j \in DOMAIN redo : redo[j] = redoIds[c][j]
        /\ n \notin DOMAIN redo
    <3> DEFINE q == redoIds[c]
    <3>1. q \in Seq(Nat) /\ DOMAIN q = 1..n /\ \A i \in 1..(n - 1) : q[i] \in Nat
      BY <1>0, <2>2, SMTT(60)
    <3> HIDE DEF q, n
    <3>2. /\ SubSeq(q, 1, n - 1) \in Seq(Nat) /\ Len(SubSeq(q, 1, n - 1)) = n - 1
          /\ \A i \in 1..(n - 1) : SubSeq(q, 1, n - 1)[i] = q[i]
      <4>1. 1 \in Int /\ n - 1 \in Int
        BY <2>2
      <4>2. /\ SubSeq(q, 1, n - 1) \in Seq(Nat)
            /\ Len(SubSeq(q, 1, n - 1)) = IF 1 <= n - 1 THEN (n - 1) - 1 + 1 ELSE 0
            /\ \A i \in 1..((n - 1) - 1 + 1) : SubSeq(q, 1, n - 1)[i] = q[1 + i - 1]
        BY <3>1, <4>1, SubSeqProperties
      <4> QED
        BY <2>2, <4>2
    <3>3. DOMAIN SubSeq(q, 1, n - 1) = 1..(n - 1) /\ 1..(n - 1) \subseteq 1..n /\ n \notin 1..(n - 1)
      BY <2>2, <3>2
    <3>4. redo = SubSeq(q, 1, n - 1)
      BY DEF q
    <3> QED
      BY <3>1, <3>2, <3>3, <3>4 DEF q
  <2>6. Has(redoIds[c], s)
    BY <2>2 DEF Has
  <2> HIDE DEF event, shown, redo
  <2>7. \A y : Has(redo, y) => Has(redoIds[c], y)
    BY <2>5 DEF Has
  <2>8. \A y : Double(redo, y) => Double(redoIds[c], y)
    BY <2>5 DEF Double
  <2>9. Has(redo, s) => Double(redoIds[c], s)
    BY <2>2, <2>5 DEF Has, Double
  <2> HIDE DEF s, n
  <2>10. Submits(c, event, shown, redo)
    BY <1>0, <1>2, <2>1, <2>2, <2>3, <2>4, <2>5, <2>6, <2>7, <2>8, <2>9 DEF Submits
  <2> QED
    BY <2>10, SubmitCanvas
<1> QED
  BY <1>3, <1>4, <1>5 DEF UserStep

-----------------------------------------------------------------------------
(* The handlers of the events.                                             *)

\* What a handler may do with e: drop it, commit it (perhaps again, or late), try
\* again, tell the others, or report a failure.
Drops(e) ==
  /\ phase[e] = "sent" /\ phase'[e] = "done" /\ e \notin Committed
  /\ UNCHANGED <<board, toClient>>
  /\ \A d \in Client : IsOpen(d) /\ Own(d, e) => Target(e) \in disputed'[d]
Applies(e) ==
  /\ \/ phase[e] = "sent" /\ phase'[e] = "committed"
     \/ phase[e] = "limbo" /\ phase'[e] = "late"
  /\ board' = applyBoardEvent(board, events[e]) /\ toClient' = toClient
Repeats(e) ==
  phase[e] = "committed" /\ phase'[e] = "sent" /\ UNCHANGED <<board, toClient>>
Tells(e) ==
  /\ phase[e] = "committed" /\ phase'[e] = "done" /\ board' = board
  /\ \A d \in Client : toClient'[d] =
       IF IsOpen(d) /\ session[d] /= "none" /\ ~Own(d, e)
       THEN Append(toClient[d], [type |-> "stroke_broadcast", id |-> e]) ELSE toClient[d]
Reports(e) ==
  /\ phase[e] = "sent" /\ phase'[e] = "limbo" /\ board' = board
  /\ \A d \in Client : toClient'[d] =
       IF IsOpen(d) /\ Own(d, e)
       THEN Append(toClient[d], [type |-> "error", id |-> e]) ELSE toClient[d]

LEMMA EventMoves ==
  ASSUME FrontendInv, NEW e \in Event, EventStep(e)
  PROVE  /\ UNCHANGED <<events, raced, readyState, wsRef, session, reading, seen,
                        strokes, redoIds, archive>>
         /\ \A d \in Client : disputed[d] \subseteq disputed'[d]
         /\ \A f \in Event \ {e} : phase'[f] = phase[f]
         /\ Drops(e) \/ Applies(e) \/ Repeats(e) \/ Tells(e) \/ Reports(e)
<1>0. /\ toClient \in [Client -> Seq(JoinAck \cup Notice)] /\ disputed \in [Client -> SUBSET Nat]
      /\ phase \in Seq(Phase) /\ Len(phase) = Len(events)
      /\ Event = 1..Len(events) /\ events[e].by \in Client
  BY CanvasTypes DEF FrontendInv, FrontendType, By
<1>1. \A p : phase' = [phase EXCEPT ![e] = p] =>
               phase'[e] = p /\ \A f \in Event \ {e} : phase'[f] = phase[f]
  BY <1>0
<1>2. \A d \in Client : IsOpen(d) /\ Own(d, e) <=> d = events[e].by /\ SenderOpen(e)
  BY DEF Own, SenderOpen
<1>3. \A d \in Client : disputed[d] \subseteq disputed'[d]
  <2>1. CASE disputed' = disputed
    BY <2>1
  <2>2. CASE disputed' = [disputed EXCEPT ![events[e].by] = @ \cup {Target(e)}]
    BY <1>0, <2>2
  <2> QED
    BY <2>1, <2>2 DEF EventStep, refuses, commits, resubmits, answers, fails, commitsLate, undelivered
<1>4. CASE undelivered(e)
  <2>1. /\ phase' = [phase EXCEPT ![e] = "done"] /\ phase[e] = "sent" /\ e \notin Committed
        /\ ~SenderOpen(e)
        /\ UNCHANGED <<gatewayRest, faults, session, reading, toClient, board, disputed>>
    BY <1>4 DEF undelivered, clusterVars
  <2> QED
    BY <1>1, <1>2, <1>3, <2>1 DEF Drops, gatewayRest, connVars, clientVars
<1>5. CASE refuses(e)
  <2>1. /\ phase' = [phase EXCEPT ![e] = "done"] /\ phase[e] = "sent" /\ e \notin Committed
        /\ disputed' = [disputed EXCEPT ![events[e].by] = @ \cup {Target(e)}]
        /\ UNCHANGED <<gatewayRest, session, reading, toClient, board>>
    BY <1>5 DEF refuses, clusterVars
  <2>2. Target(e) \in disputed'[events[e].by]
    BY <1>0, <2>1
  <2> QED
    BY <1>1, <1>2, <1>3, <2>1, <2>2 DEF Drops, gatewayRest, connVars, clientVars
<1>6. CASE commits(e) \/ commitsLate(e)
  <2>1. /\ \/ phase' = [phase EXCEPT ![e] = "committed"] /\ phase[e] = "sent"
           \/ phase' = [phase EXCEPT ![e] = "late"] /\ phase[e] = "limbo"
        /\ board' = applyBoardEvent(board, events[e])
        /\ UNCHANGED <<gatewayRest, faults, session, reading, toClient, disputed>>
    BY <1>6 DEF commits, commitsLate, writes
  <2> QED
    BY <1>1, <1>3, <2>1 DEF Applies, gatewayRest, connVars, clientVars
<1>7. CASE resubmits(e)
  <2>1. /\ phase' = [phase EXCEPT ![e] = "sent"] /\ phase[e] = "committed"
        /\ UNCHANGED <<gatewayRest, session, reading, toClient, board, disputed>>
    BY <1>7 DEF resubmits, clusterVars
  <2> QED
    BY <1>1, <1>3, <2>1 DEF Repeats, gatewayRest, connVars, clientVars
<1>8. CASE answers(e)
  <2>1. /\ phase' = [phase EXCEPT ![e] = "done"] /\ phase[e] = "committed"
        /\ toClient' = [d \in Client |->
             IF IsOpen(d) /\ session[d] /= "none" /\ ~(d = events[e].by /\ SenderOpen(e))
             THEN Append(toClient[d], [type |-> "stroke_broadcast", id |-> e]) ELSE toClient[d]]
        /\ UNCHANGED <<gatewayRest, faults, session, reading, board, disputed>>
    BY <1>8 DEF answers, clusterVars
  <2>2. Tells(e)
    BY <1>1, <1>2, <2>1 DEF Tells
  <2> QED
    BY <1>1, <1>3, <2>1, <2>2 DEF gatewayRest, connVars, clientVars
<1>9. CASE fails(e)
  <2> DEFINE m == [type |-> "error", id |-> e]
  <2>1. /\ phase' = [phase EXCEPT ![e] = "limbo"] /\ phase[e] = "sent"
        /\ toClient' = IF SenderOpen(e)
                       THEN [toClient EXCEPT ![events[e].by] = Append(@, m)] ELSE toClient
        /\ UNCHANGED <<gatewayRest, session, reading, board, disputed>>
    BY <1>9 DEF fails, clusterVars
  <2> HIDE DEF m
  <2>2. \A d \in Client : toClient'[d] =
          IF d = events[e].by /\ SenderOpen(e) THEN Append(toClient[d], m) ELSE toClient[d]
    <3>1. CASE SenderOpen(e)
      <4>1. toClient' = [toClient EXCEPT ![events[e].by] = Append(@, m)]
        BY <2>1, <3>1
      <4>2. PICK b \in Client : b = events[e].by
        BY <1>0
      <4>3. toClient' = [toClient EXCEPT ![b] = Append(toClient[b], m)]
        BY <4>1, <4>2
      <4> DEFINE q == Append(toClient[b], m)
      <4> HIDE DEF q
      <4>4. \A d \in Client : toClient'[d] = IF d = b THEN q ELSE toClient[d]
        BY <1>0, <4>3 DEF q
      <4> QED
        BY <3>1, <4>2, <4>4 DEF q
    <3>2. CASE ~SenderOpen(e)
      BY <2>1, <3>2
    <3> QED
      BY <3>1, <3>2
  <2>3. \A d \in Client : toClient'[d] =
          IF IsOpen(d) /\ Own(d, e) THEN Append(toClient[d], m) ELSE toClient[d]
    BY <1>2, <2>2
  <2>4. phase'[e] = "limbo" /\ board' = board
    BY <1>1, <2>1
  <2>5. Reports(e)
    BY <2>1, <2>3, <2>4 DEF Reports, m
  <2> QED
    BY <1>1, <1>3, <2>1, <2>5 DEF gatewayRest, connVars, clientVars
<1> QED
  BY <1>4, <1>5, <1>6, <1>7, <1>8, <1>9 DEF EventStep

\* What is on its way to d then: at most one notice more, of e.
LEMMA EventNotices ==
  ASSUME FrontendInv, NEW e \in Event, EventStep(e), NEW d \in Client
  PROVE  /\ \E n \in Nat :
              /\ DOMAIN toClient[d] \subseteq DOMAIN toClient'[d]
              /\ DOMAIN toClient'[d] \subseteq DOMAIN toClient[d] \cup {n}
              /\ \A k \in DOMAIN toClient[d] : k \in Nat /\ n > k
              /\ \A k \in DOMAIN toClient[d] : \A type, f : At(d, k, type, f)' <=> At(d, k, type, f)
              /\ \A f : At(d, n, "stroke_broadcast", f)' /\ n \in DOMAIN toClient'[d]
                          => f = e /\ Tells(e)
              /\ \A f : At(d, n, "error", f)' /\ n \in DOMAIN toClient'[d]
                          => f = e /\ Reports(e) /\ By(e) = d
              /\ Tells(e) /\ IsOpen(d) /\ session[d] /= "none" /\ ~Own(d, e)
                   => n \in DOMAIN toClient'[d] /\ At(d, n, "stroke_broadcast", e)'
         /\ Answers(d)' = Answers(d) /\ (Fresh(d)' <=> Fresh(d))
         /\ \A f : f /= e => (Told(d, f)' <=> Told(d, f)) /\ (Refused(d, f)' <=> Refused(d, f))
         /\ Told(d, e)' <=> Told(d, e) \/ (Tells(e) /\ IsOpen(d) /\ session[d] /= "none" /\ ~Own(d, e))
         /\ Refused(d, e)' <=> Refused(d, e) \/ (Reports(e) /\ IsOpen(d) /\ Own(d, e))
<1>0. /\ UNCHANGED <<session, reading>>
      /\ Drops(e) \/ Applies(e) \/ Repeats(e) \/ Tells(e) \/ Reports(e)
      /\ e \in Nat
  BY EventMoves, CanvasTypes
<1>1. /\ Tells(e) => phase[e] = "committed"
      /\ Reports(e) => phase[e] = "sent" /\ phase'[e] = "limbo"
      /\ ~(Tells(e) /\ Reports(e))
  BY DEF Tells, Reports
<1>2. CASE toClient'[d] = toClient[d] /\ ~(Tells(e) /\ IsOpen(d) /\ session[d] /= "none" /\ ~Own(d, e))
             /\ ~(Reports(e) /\ IsOpen(d) /\ Own(d, e))
  <2>1. /\ \A k, type, f : At(d, k, type, f)' <=> At(d, k, type, f)
        /\ \A f : (Told(d, f)' <=> Told(d, f)) /\ (Refused(d, f)' <=> Refused(d, f))
        /\ Answers(d)' = Answers(d) /\ (Fresh(d)' <=> Fresh(d))
    BY <1>0, <1>2, NoticesKept DEF Answers, Fresh
  <2>2. PICK n \in Nat : n = Len(toClient[d]) + 1
    BY CanvasTypes
  <2>3. n \notin DOMAIN toClient[d] /\ \A k \in DOMAIN toClient[d] : k \in Nat /\ n > k
    BY <2>2, CanvasTypes
  <2> QED
    BY <1>2, <2>1, <2>3
<1>3. CASE Tells(e) /\ IsOpen(d) /\ session[d] /= "none" /\ ~Own(d, e)
  <2> DEFINE m == [type |-> "stroke_broadcast", id |-> e]
  <2>1. toClient'[d] = Append(toClient[d], m) /\ m \in JoinAck \cup Notice
    BY <1>0, <1>3 DEF Tells, Notice
  <2>2. m.type = "stroke_broadcast" /\ m.id = e
    OBVIOUS
  <2> HIDE DEF m
  <2>3. PICK n \in Nat :
           /\ n \notin DOMAIN toClient[d] /\ DOMAIN toClient'[d] = DOMAIN toClient[d] \cup {n}
           /\ \A k \in DOMAIN toClient[d] : k \in Nat /\ n > k
           /\ \A k \in DOMAIN toClient[d] : \A type, f : At(d, k, type, f)' <=> At(d, k, type, f)
           /\ \A type, f : At(d, n, type, f)' <=> m.type = type /\ m.id = f
           /\ \A f : Told(d, f)' <=> Told(d, f) \/ (m.type = "stroke_broadcast" /\ m.id = f)
           /\ \A f : Refused(d, f)' <=> Refused(d, f) \/ (m.type = "error" /\ m.id = f)
           /\ m.type /= "join_ack" => Answers(d)' = Answers(d) /\ (Fresh(d)' <=> Fresh(d))
    BY <1>0, <2>1, NoticeAdded
  <2> QED
    BY <1>1, <1>3, <2>2, <2>3
<1>4. CASE Reports(e) /\ IsOpen(d) /\ Own(d, e)
  <2> DEFINE m == [type |-> "error", id |-> e]
  <2>1. toClient'[d] = Append(toClient[d], m) /\ m \in JoinAck \cup Notice
    BY <1>0, <1>4 DEF Reports, Notice
  <2>2. m.type = "error" /\ m.id = e /\ By(e) = d
    BY <1>4 DEF Own, By
  <2> HIDE DEF m
  <2>3. PICK n \in Nat :
           /\ n \notin DOMAIN toClient[d] /\ DOMAIN toClient'[d] = DOMAIN toClient[d] \cup {n}
           /\ \A k \in DOMAIN toClient[d] : k \in Nat /\ n > k
           /\ \A k \in DOMAIN toClient[d] : \A type, f : At(d, k, type, f)' <=> At(d, k, type, f)
           /\ \A type, f : At(d, n, type, f)' <=> m.type = type /\ m.id = f
           /\ \A f : Told(d, f)' <=> Told(d, f) \/ (m.type = "stroke_broadcast" /\ m.id = f)
           /\ \A f : Refused(d, f)' <=> Refused(d, f) \/ (m.type = "error" /\ m.id = f)
           /\ m.type /= "join_ack" => Answers(d)' = Answers(d) /\ (Fresh(d)' <=> Fresh(d))
    BY <1>0, <2>1, NoticeAdded
  <2> QED
    BY <1>1, <1>4, <2>2, <2>3
<1>5. toClient'[d] = toClient[d] \/ (Tells(e) /\ IsOpen(d) /\ session[d] /= "none" /\ ~Own(d, e))
        \/ (Reports(e) /\ IsOpen(d) /\ Own(d, e))
  BY <1>0 DEF Drops, Applies, Repeats, Tells, Reports
<1> QED
  BY <1>2, <1>3, <1>4, <1>5

\* What a commit does to the board: it decides what is shown of its stroke, and
\* nothing of the others.
LEMMA EventFrame ==
  ASSUME FrontendInv, CanvasInv, NEW e \in Event, EventStep(e)
  PROVE  /\ Event' = Event /\ Strokes' = Strokes
         /\ \A f : Target(f)' = Target(f) /\ By(f)' = By(f) /\ (Undoes(f)' <=> Undoes(f))
         /\ \A c, f : Own(c, f)' <=> Own(c, f)
         /\ Target(e) \in Strokes
         /\ ~Applies(e) => board' = board /\ Committed' = Committed
         /\ \A f \in Event \ {e} : f \in InFlight' <=> f \in InFlight
         /\ e \in InFlight <=> phase[e] \in {"sent", "committed"}
         /\ e \in InFlight' <=> phase'[e] \in {"sent", "committed"}
<1>0. /\ UNCHANGED <<events, wsRef>> /\ \A f \in Event \ {e} : phase'[f] = phase[f]
      /\ Drops(e) \/ Applies(e) \/ Repeats(e) \/ Tells(e) \/ Reports(e)
  BY EventMoves
<1>1. /\ Event' = Event /\ Strokes' = Strokes
      /\ \A f : Target(f)' = Target(f) /\ By(f)' = By(f) /\ (Undoes(f)' <=> Undoes(f))
  BY <1>0, EventsKept
<1>2. ~Applies(e) => board' = board /\ Committed' = Committed
  BY <1>0 DEF Drops, Repeats, Tells, Reports, Committed
<1>3. \A c, f : Own(c, f)' <=> Own(c, f)
  BY <1>0 DEF Own
<1>4. /\ \A f \in Event \ {e} : f \in InFlight' <=> f \in InFlight
      /\ e \in InFlight <=> phase[e] \in {"sent", "committed"}
      /\ e \in InFlight' <=> phase'[e] \in {"sent", "committed"}
  BY <1>0, <1>1 DEF InFlight
<1> QED
  BY <1>1, <1>2, <1>3, <1>4 DEF CanvasInv, EditsOfStrokes

LEMMA Applied ==
  ASSUME FrontendInv, CanvasInv, NEW e \in Event, EventStep(e), Applies(e),
         NEW t, t = Target(e)
  PROVE  /\ Committed' = Committed \cup {e}
         /\ \A s \in Nat : Drawn(board.events, s) => Drawn(board.events, s)'
         /\ \A s \in Nat : s /= t =>
              (Shown(s)' <=> Shown(s)) /\ (Drawn(board.events, s)' <=> Drawn(board.events, s))
         /\ ~Undoes(e) /\ events[e].action /= "redo_stroke" => Drawn(board.events, t)'
         /\ t \notin raced =>
              /\ \A f \in Committed : Target(f) = t => f <= e
              /\ Shown(t)' <=> ~Undoes(e) /\ Drawn(board.events, t)'
              /\ e \in Committed => (Shown(t)' <=> Shown(t))
<1>0. /\ BoardOK(board) /\ EventsNumbered /\ events[e] \in Edit /\ events[e].id = e
      /\ events[e].target = t /\ t \in Nat /\ t \in Strokes
      /\ OneAtATime /\ Phases /\ LastDecides /\ EditsOfStrokes
      /\ Committed \subseteq Event /\ Event \subseteq Nat
      /\ board' = applyBoardEvent(board, events[e])
      /\ phase[e] \in {"sent", "limbo"} /\ board.events \in Seq(Edit)
  BY CanvasTypes DEF FrontendInv, CanvasInv, EditsOfStrokes, Target, Applies
<1>1. BoardOK(board') /\ board'.events = Append(board.events, events[e])
  BY <1>0, BoardStep
<1>2. Committed' = Committed \cup {e}
  <2> DEFINE L == Len(board.events)
  <2>1. L \in Nat /\ DOMAIN board.events = 1..L
    BY <1>0
  <2>2. /\ DOMAIN board'.events = 1..(L + 1) /\ board'.events[L + 1] = events[e]
        /\ \A k \in 1..L : board'.events[k] = board.events[k]
    BY <1>0, <1>1, <2>1
  <2>3. \A k : k \in 1..(L + 1) <=> k \in 1..L \/ k = L + 1
    BY <2>1
  <2> HIDE DEF L
  <2>4. \A f : f \in Committed' <=> \E k \in 1..(L + 1) : board'.events[k].id = f
    BY <2>2 DEF Committed
  <2>5. \A f : f \in Committed <=> \E k \in 1..L : board.events[k].id = f
    BY <2>1 DEF Committed
  <2>6. \A f : f \in Committed' <=> f \in Committed \/ f = e
    BY <1>0, <2>2, <2>3, <2>4, <2>5
  <2> QED
    BY <2>6
<1>3. ASSUME NEW s \in Nat
      PROVE  /\ Drawn(board'.events, s) <=>
                  Drawn(board.events, s) \/ (events[e].action = "stroke" /\ t = s)
             /\ LastUndone(board'.events, s) <=>
                  IF t = s /\ events[e].action /= "stroke" THEN Undoes(e)
                  ELSE LastUndone(board.events, s)
             /\ Shown(s) <=> Drawn(board.events, s) /\ ~LastUndone(board.events, s)
             /\ Shown(s)' <=> Drawn(board'.events, s) /\ ~LastUndone(board'.events, s)
  <2>1. /\ Drawn(board'.events, s) <=>
             Drawn(board.events, s) \/ (events[e].action = "stroke" /\ t = s)
        /\ LastUndone(board'.events, s) <=>
             IF t = s /\ events[e].action /= "stroke" THEN events[e].action = "undo_stroke"
             ELSE LastUndone(board.events, s)
    BY <1>0, <1>1, EventAppended
  <2>2. /\ Has(board.visible, s) <=> Drawn(board.events, s) /\ ~LastUndone(board.events, s)
        /\ Has(board'.visible, s) <=> Drawn(board'.events, s) /\ ~LastUndone(board'.events, s)
    BY <1>0, <1>1 DEF BoardOK
  <2>3. Shown(s)' <=> Has(board'.visible, s)
    BY DEF Shown, Has
  <2> QED
    BY <2>1, <2>2, <2>3 DEF Shown, Undoes
<1>4. \A s \in Nat : Drawn(board.events, s)' <=> Drawn(board'.events, s)
  BY DEF Drawn
<1>6. ~Undoes(e) /\ events[e].action /= "redo_stroke" => Drawn(board.events, t)'
  BY <1>0, <1>3, <1>4 DEF Undoes, Edit, Action
<1>5. ASSUME t \notin raced
      PROVE  /\ \A f \in Committed : Target(f) = t => f <= e
             /\ Shown(t)' <=> ~Undoes(e) /\ Drawn(board.events, t)'
             /\ e \in Committed => (Shown(t)' <=> Shown(t))
  <2>1. ASSUME NEW f \in Committed, Target(f) = t PROVE f <= e
    <3>1. phase[f] /= "unsent" /\ f \in Event
      BY <1>0, <2>1 DEF Phases
    <3>2. CASE e < f
      <4>1. phase[e] \in {"done", "late", "unsent"}
        BY <1>0, <1>5, <2>1, <3>1, <3>2 DEF OneAtATime
      <4> QED
        BY <1>0, <4>1
    <3> QED
      BY <1>0, <3>1, <3>2
  <2>2. Shown(t)' <=> ~Undoes(e) /\ Drawn(board.events, t)'
    <3>1. CASE events[e].action /= "stroke"
      BY <1>0, <1>3, <1>4, <3>1
    <3>2. CASE events[e].action = "stroke"
      <4>1. t = e /\ ~Undoes(e)
        BY <1>0, <3>2 DEF EventsNumbered, Undoes
      <4>2. ASSUME NEW k \in EditsOf(board.events, t) PROVE FALSE
        <5>1. k \in DOMAIN board.events /\ board.events[k].target = t /\ board.events[k].action /= "stroke"
          BY DEF EditsOf
        <5>2. PICK f : f = board.events[k].id
          OBVIOUS
        <5>3. f \in Event /\ board.events[k] = events[f] /\ f \in Committed
          BY <1>0, <5>1, <5>2 DEF EventsNumbered, Committed
        <5>4. Target(f) = t /\ Target(f) < f
          BY <1>0, <5>1, <5>3 DEF EditsOfStrokes, Target
        <5>5. f <= e
          BY <2>1, <5>3, <5>4
        <5> QED
          BY <1>0, <4>1, <5>3, <5>4, <5>5
      <4>3. ~LastUndone(board.events, t)
        BY <4>2 DEF LastUndone
      <4> QED
        BY <1>0, <1>3, <1>4, <3>2, <4>1, <4>3
    <3> QED
      BY <3>1, <3>2
  <2>3. ASSUME e \in Committed PROVE Shown(t)' <=> Shown(t)
    <3>1. Shown(t) <=> ~Undoes(e) /\ Drawn(board.events, t)
      BY <1>0, <1>5, <2>1, <2>3 DEF LastDecides
    <3>2. events[e].action = "stroke" => Drawn(board.events, t)
      BY <1>0, <2>3, DrawnByUsers DEF EventsNumbered
    <3> QED
      BY <1>0, <1>3, <1>4, <2>2, <3>1, <3>2
  <2> QED
    BY <2>1, <2>2, <2>3
<1> QED
  BY <1>0, <1>2, <1>3, <1>4, <1>5, <1>6

\* The board before and after any of the handlers.
LEMMA EventBoard ==
  ASSUME FrontendInv, CanvasInv, NEW e \in Event, EventStep(e), NEW t, t = Target(e)
  PROVE  /\ Committed \subseteq Committed' /\ Committed' \subseteq Committed \cup {e}
         /\ e \in Committed' => e \in Committed \/ Applies(e)
         /\ \A s \in Nat : Drawn(board.events, s) => Drawn(board.events, s)'
         /\ \A s \in Nat : s /= t =>
              (Shown(s)' <=> Shown(s)) /\ (Drawn(board.events, s)' <=> Drawn(board.events, s))
         /\ ~Applies(e) => (Drawn(board.events, t)' <=> Drawn(board.events, t))
         /\ ~Applies(e) \/ (t \notin raced /\ e \in Committed) => (Shown(t)' <=> Shown(t))
         /\ \A s : Excepted(s) => Excepted(s)'
         /\ phase'[e] = "late" => Excepted(t)'
         /\ Reports(e) /\ e \in Committed => Excepted(t)'
<1>0. /\ Event' = Event /\ \A f : Target(f)' = Target(f)
      /\ ~Applies(e) => board' = board /\ Committed' = Committed
      /\ raced' = raced /\ \A f \in Event \ {e} : phase'[f] = phase[f]
      /\ Drops(e) \/ Applies(e) \/ Repeats(e) \/ Tells(e) \/ Reports(e)
      /\ Committed \subseteq Event
  BY EventFrame, EventMoves, CanvasTypes
<1>1. ~Applies(e) => \A s : (Shown(s)' <=> Shown(s)) /\ (Drawn(board.events, s)' <=> Drawn(board.events, s))
  BY <1>0 DEF Shown, Drawn, Has
<1>2. Applies(e) =>
        /\ Committed' = Committed \cup {e}
        /\ \A s \in Nat : Drawn(board.events, s) => Drawn(board.events, s)'
        /\ \A s \in Nat : s /= t =>
             (Shown(s)' <=> Shown(s)) /\ (Drawn(board.events, s)' <=> Drawn(board.events, s))
        /\ t \notin raced /\ e \in Committed => (Shown(t)' <=> Shown(t))
  BY Applied
<1>3. Unannounced \subseteq Unannounced'
  <2> SUFFICES ASSUME NEW f \in Unannounced PROVE f \in Unannounced'
    OBVIOUS
  <2>1. f \in Committed /\ phase[f] \in {"limbo", "late"}
    BY DEF Unannounced
  <2>2. f \in Committed' /\ phase'[f] \in {"limbo", "late"}
    BY <1>0, <1>2, <2>1 DEF Drops, Applies, Repeats, Tells, Reports
  <2> QED
    BY <2>2 DEF Unannounced
<1>4. \A s : Excepted(s) => Excepted(s)'
  BY <1>0, <1>3 DEF Excepted, Targets
<1>5. phase'[e] = "late" => Applies(e)
  BY <1>0 DEF Drops, Repeats, Tells, Reports
<1>6. e \in Committed' /\ phase'[e] \in {"limbo", "late"} => Excepted(t)'
  <2> SUFFICES ASSUME e \in Committed', phase'[e] \in {"limbo", "late"} PROVE Excepted(t)'
    OBVIOUS
  <2>1. e \in Unannounced'
    BY DEF Unannounced
  <2> QED
    BY <1>0, <2>1 DEF Excepted, Targets
<1>7. Reports(e) => phase'[e] = "limbo" /\ Committed' = Committed
  BY <1>0 DEF Reports, Committed
<1> QED
  BY <1>0, <1>1, <1>2, <1>4, <1>5, <1>6, <1>7

LEMMA EventOrder ==
  ASSUME FrontendInv, CanvasInv, NEW e \in Event, EventStep(e)
  PROVE  SessionOpen' /\ EditsOfStrokes' /\ Phases' /\ OneAtATime' /\ LastDecides'
<1>0. /\ UNCHANGED <<events, raced, readyState, wsRef, session, seen>>
      /\ \A f \in Event \ {e} : phase'[f] = phase[f]
      /\ Drops(e) \/ Applies(e) \/ Repeats(e) \/ Tells(e) \/ Reports(e)
      /\ Event \subseteq Nat /\ Committed \subseteq Event /\ Strokes \subseteq Event
      /\ OneAtATime /\ Phases /\ LastDecides /\ EditsOfStrokes /\ SessionOpen
  BY EventMoves, CanvasTypes DEF CanvasInv
<1>1. /\ Event' = Event /\ Strokes' = Strokes
      /\ \A f : Target(f)' = Target(f) /\ By(f)' = By(f) /\ (Undoes(f)' <=> Undoes(f))
  BY EventFrame
<1>2. PICK t \in Strokes : t = Target(e)
  BY EventFrame
<1>3. /\ Committed \subseteq Committed' /\ Committed' \subseteq Committed \cup {e}
      /\ e \in Committed' => e \in Committed \/ Applies(e)
      /\ \A s \in Nat : s /= t =>
           (Shown(s)' <=> Shown(s)) /\ (Drawn(board.events, s)' <=> Drawn(board.events, s))
      /\ ~Applies(e) => /\ Drawn(board.events, t)' <=> Drawn(board.events, t)
                        /\ Shown(t)' <=> Shown(t)
  BY <1>2, EventBoard
<1>4. Applies(e) => e \in Committed' /\ (t \notin raced =>
                      /\ \A f \in Committed : Target(f) = t => f <= e
                      /\ Shown(t)' <=> ~Undoes(e) /\ Drawn(board.events, t)')
  BY <1>2, Applied
<1>5. /\ phase[e] \in {"sent", "committed", "limbo"} /\ phase'[e] /= "unsent"
      /\ phase'[e] \in {"committed", "late"} => Applies(e)
  BY <1>0 DEF Drops, Applies, Repeats, Tells, Reports
<1>6. SessionOpen'
  BY <1>0 DEF SessionOpen, IsOpen, RefState
<1>7. EditsOfStrokes'
  BY <1>0, <1>1 DEF EditsOfStrokes
<1>8. Phases'
  <2>1. ASSUME NEW f \in Event, phase'[f] /= "unsent" PROVE Sent(f)'
    <3>1. Sent(f)
      BY <1>0, <1>5, <2>1 DEF Phases
    <3>2. SenderOpen(f)' <=> SenderOpen(f)
      BY <1>0 DEF SenderOpen, IsOpen, RefState
    <3> QED
      BY <1>0, <3>1, <3>2 DEF Sent
  <2>2. ASSUME NEW f \in Event
        PROVE  /\ phase'[f] \in {"committed", "late"} => f \in Committed'
               /\ phase'[f] = "unsent" => f \notin Committed'
    BY <1>0, <1>3, <1>4, <1>5 DEF Phases
  <2> QED
    BY <1>1, <2>1, <2>2 DEF Phases
<1>9. OneAtATime'
  <2> SUFFICES ASSUME NEW s \in Strokes \ raced, NEW a \in Event, NEW b \in Event,
                      Target(a) = s, Target(b) = s, a < b, phase'[b] /= "unsent"
               PROVE  /\ phase'[a] \in {"done", "late", "unsent"}
                      /\ \A c \in Client : By(a) = c => ~Told(c, a)' /\ ~Refused(c, a)'
    BY <1>0, <1>1 DEF OneAtATime
  <2>1. /\ phase[a] \in {"done", "late", "unsent"}
        /\ \A c \in Client : By(a) = c => ~Told(c, a) /\ ~Refused(c, a)
    BY <1>0, <1>5 DEF OneAtATime
  <2>2. a /= e
    BY <1>5, <2>1
  <2>3. \A c \in Client : (Told(c, a)' <=> Told(c, a)) /\ (Refused(c, a)' <=> Refused(c, a))
    BY <2>2, EventNotices
  <2> QED
    BY <1>0, <2>1, <2>2, <2>3
<1>10. LastDecides'
  <2> SUFFICES ASSUME NEW s \in Strokes \ raced, NEW a \in Committed', Target(a) = s,
                      \A f \in Committed' : Target(f) = s => f <= a
               PROVE  Shown(s)' <=> ~Undoes(a) /\ Drawn(board.events, s)'
    BY <1>0, <1>1 DEF LastDecides
  <2>1. CASE s = t /\ Applies(e)
    <3>1. e <= a /\ (a \in Committed => a <= e)
      BY <1>2, <1>4, <2>1
    <3>2. a = e
      BY <1>0, <1>3, <3>1
    <3> QED
      BY <1>4, <2>1, <3>2
  <2>2. CASE s /= t \/ ~Applies(e)
    <3>1. a \in Committed
      BY <1>2, <1>3, <2>2
    <3>2. Shown(s) <=> ~Undoes(a) /\ Drawn(board.events, s)
      BY <1>0, <1>3, <3>1 DEF LastDecides
    <3> QED
      BY <1>0, <1>3, <2>2, <3>2
  <2> QED
    BY <2>1, <2>2
<1> QED
  BY <1>6, <1>7, <1>8, <1>9, <1>10

LEMMA EventNoticesTrue ==
  ASSUME FrontendInv, CanvasInv, NEW e \in Event, EventStep(e), NEW d \in Client
  PROVE  OnlyStrokes(d)' /\ NoticesTrue(d)'
<1>0. /\ UNCHANGED <<strokes, redoIds, archive>> /\ \A f \in Event \ {e} : phase'[f] = phase[f]
      /\ Drops(e) \/ Applies(e) \/ Repeats(e) \/ Tells(e) \/ Reports(e)
      /\ Event' = Event /\ Strokes' = Strokes /\ \A f : By(f)' = By(f)
      /\ OnlyStrokes(d) /\ NoticesTrue(d) /\ Phases
      /\ Committed \subseteq Committed'
      /\ \A s \in Nat : Drawn(board.events, s) => Drawn(board.events, s)'
  BY EventMoves, EventFrame, EventBoard DEF CanvasInv, CanvasOf
<1>1. PICK n \in Nat :
        /\ DOMAIN toClient[d] \subseteq DOMAIN toClient'[d]
        /\ DOMAIN toClient'[d] \subseteq DOMAIN toClient[d] \cup {n}
        /\ \A k \in DOMAIN toClient[d] : k \in Nat /\ n > k
        /\ \A k \in DOMAIN toClient[d] : \A type, f : At(d, k, type, f)' <=> At(d, k, type, f)
        /\ \A f : At(d, n, "stroke_broadcast", f)' /\ n \in DOMAIN toClient'[d]
                    => f = e /\ Tells(e)
        /\ \A f : At(d, n, "error", f)' /\ n \in DOMAIN toClient'[d]
                    => f = e /\ Reports(e) /\ By(e) = d
        /\ Tells(e) /\ IsOpen(d) /\ session[d] /= "none" /\ ~Own(d, e)
             => n \in DOMAIN toClient'[d] /\ At(d, n, "stroke_broadcast", e)'
  BY EventNotices
<1>2. Answers(d)' = Answers(d)
  BY EventNotices
<1>3. OnlyStrokes(d)'
  BY <1>0, <1>2 DEF OnlyStrokes
<1>4. phase[e] \in {"sent", "committed", "limbo"} /\ (Reports(e) => phase[e] = "sent")
  BY <1>0 DEF Drops, Applies, Repeats, Tells, Reports
<1>5. \A k \in DOMAIN toClient[d] : At(d, k, "error", e) => phase[e] \in {"limbo", "late"}
  BY DEF FrontendInv, NoticesOf, At
<1>6. Tells(e) => phase'[e] = "done" /\ e \in Committed
  BY <1>0 DEF Tells, Phases
<1>7. NoticesTrue(d)'
  <2> SUFFICES ASSUME NEW f \in Event, NEW k \in DOMAIN toClient'[d]
               PROVE  /\ At(d, k, "stroke_broadcast", f)' => phase'[f] = "done" /\ f \in Committed'
                      /\ At(d, k, "error", f)' =>
                           By(f) = d /\ \A l \in DOMAIN toClient'[d] : At(d, l, "error", f)' => l = k
    BY <1>0 DEF NoticesTrue
  <2>1. At(d, k, "stroke_broadcast", f)' => phase'[f] = "done" /\ f \in Committed'
    <3>1. CASE k \in DOMAIN toClient[d]
      <4>1. At(d, k, "stroke_broadcast", f) => phase[f] = "done" /\ f \in Committed
        BY <1>0, <3>1 DEF NoticesTrue
      <4> QED
        BY <1>0, <1>1, <1>4, <3>1, <4>1
    <3>2. CASE k = n
      BY <1>0, <1>1, <1>6, <3>2
    <3> QED
      BY <1>1, <3>1, <3>2
  <2>2. ASSUME At(d, k, "error", f)'
        PROVE  By(f) = d /\ \A l \in DOMAIN toClient'[d] : At(d, l, "error", f)' => l = k
    <3>1. CASE f /= e
      <4>1. \A l \in DOMAIN toClient'[d] : At(d, l, "error", f)' => l \in DOMAIN toClient[d]
        BY <1>1, <3>1
      <4> QED
        BY <1>0, <1>1, <2>2, <4>1 DEF NoticesTrue
    <3>2. CASE f = e /\ Reports(e)
      <4>1. \A l \in DOMAIN toClient'[d] : At(d, l, "error", e)' => l = n
        BY <1>1, <1>4, <1>5, <3>2
      <4> QED
        BY <1>1, <2>2, <3>2, <4>1
    <3>3. CASE f = e /\ ~Reports(e)
      <4>1. \A l \in DOMAIN toClient'[d] : At(d, l, "error", e)' => l \in DOMAIN toClient[d]
        BY <1>1, <3>3
      <4> QED
        BY <1>0, <1>1, <2>2, <3>3, <4>1 DEF NoticesTrue
    <3> QED
      BY <3>1, <3>2, <3>3
  <2> QED
    BY <2>1, <2>2
<1> QED
  BY <1>3, <1>7

\* An event that the cluster has or gets, and that a handler still had, is either
\* still with the handler, or told to d, or d's own.
LEMMA EventArrives ==
  ASSUME FrontendInv, CanvasInv, NEW e \in Event, EventStep(e), NEW d \in Client, IsOpen(d),
         NEW f \in Committed', NEW s, s = Target(f), ~Excepted(s)',
         f \in InFlight \/ (f = e /\ Applies(e))
  PROVE  \/ f \in InFlight'
         \/ Told(d, f)' /\ ~Own(d, f)
         \/ Own(d, f) /\ f \in seen[d]
<1>0. /\ Drops(e) \/ Applies(e) \/ Repeats(e) \/ Tells(e) \/ Reports(e)
      /\ \A g \in Event \ {e} : g \in InFlight' <=> g \in InFlight
      /\ e \in InFlight' <=> phase'[e] \in {"sent", "committed"}
      /\ e \in Committed' => e \in Committed \/ Applies(e)
      /\ InFlight \subseteq Event
      /\ Applies(e) \/ Repeats(e) \/ Tells(e) \/ Reports(e) \/ Drops(e)
  BY EventMoves, EventFrame, EventBoard DEF InFlight
<1>1. CASE f /= e
  BY <1>0, <1>1
<1>2. CASE f = e
  <2>1. phase'[e] /= "late" /\ ~(Reports(e) /\ e \in Committed)
    BY <1>2, EventBoard
  <2>2. CASE Tells(e)
    <3>1. session[d] /= "none"
      BY DEF CanvasInv, SessionOpen
    <3>2. CASE Own(d, e)
      <4>1. phase[e] /= "unsent"
        BY <2>2 DEF Tells
      <4> QED
        BY <1>2, <3>2, <4>1, OwnIsSeen
    <3>3. CASE ~Own(d, e)
      <4>1. Told(d, e)'
        BY <2>2, <3>1, <3>3, EventNotices
      <4> QED
        BY <1>2, <3>3, <4>1
    <3> QED
      BY <3>2, <3>3
  <2>3. CASE ~Tells(e)
    <3>1. ~Drops(e) /\ (Reports(e) => Applies(e))
      BY <1>0, <1>2, <2>1 DEF Drops, Applies, Reports
    <3>2. phase'[e] \in {"sent", "committed"}
      BY <1>0, <2>1, <2>3, <3>1 DEF Applies, Repeats
    <3> QED
      BY <1>0, <1>2, <3>2
  <2> QED
    BY <2>2, <2>3
<1> QED
  BY <1>1, <1>2

LEMMA EventInOrder ==
  ASSUME FrontendInv, CanvasInv, NEW e \in Event, EventStep(e), NEW d \in Client
  PROVE  InOrder(d)'
<1>0. /\ raced' = raced /\ Strokes' = Strokes /\ Event' = Event
      /\ \A f : Target(f)' = Target(f)
      /\ Drops(e) \/ Applies(e) \/ Repeats(e) \/ Tells(e) \/ Reports(e)
      /\ Committed' \subseteq Committed \cup {e} /\ Committed \subseteq Event
      /\ \A s : Excepted(s) => Excepted(s)'
      /\ \A f \in Event \ {e} : f \in InFlight' <=> f \in InFlight
      /\ InOrder(d) /\ OneAtATime /\ Phases /\ SessionOpen /\ EditsOfStrokes
  BY EventMoves, EventFrame, EventBoard, CanvasTypes DEF CanvasInv, CanvasOf
<1>1. PICK n \in Nat :
        /\ DOMAIN toClient[d] \subseteq DOMAIN toClient'[d]
        /\ DOMAIN toClient'[d] \subseteq DOMAIN toClient[d] \cup {n}
        /\ \A k \in DOMAIN toClient[d] : k \in Nat /\ n > k
        /\ \A k \in DOMAIN toClient[d] : \A type, f : At(d, k, type, f)' <=> At(d, k, type, f)
        /\ \A f : At(d, n, "stroke_broadcast", f)' /\ n \in DOMAIN toClient'[d]
                    => f = e /\ Tells(e)
        /\ \A f : At(d, n, "error", f)' /\ n \in DOMAIN toClient'[d]
                    => f = e /\ Reports(e) /\ By(e) = d
        /\ Tells(e) /\ IsOpen(d) /\ session[d] /= "none" /\ ~Own(d, e)
             => n \in DOMAIN toClient'[d] /\ At(d, n, "stroke_broadcast", e)'
  BY EventNotices
<1>2. phase[e] \in {"sent", "committed", "limbo"}
  BY <1>0 DEF Drops, Applies, Repeats, Tells, Reports
<1> SUFFICES ASSUME NEW s \in Strokes, NEW a \in Event, NEW f \in Committed',
                    NEW k \in DOMAIN toClient'[d], ~Excepted(s)', Target(a) = s, Target(f) = s,
                    a < f, At(d, k, "stroke_broadcast", a)', f \notin InFlight'
             PROVE  \E l \in DOMAIN toClient'[d] : l > k /\ At(d, l, "stroke_broadcast", f)'
  BY <1>0 DEF InOrder
<1>3. ~Excepted(s) /\ s \notin raced /\ f \in Event /\ phase[f] /= "unsent"
  BY <1>0, <1>2 DEF Excepted, Phases
<1>4. /\ phase[a] \in {"done", "late", "unsent"}
      /\ \A c \in Client : By(a) = c => ~Told(c, a)
  BY <1>0, <1>3 DEF OneAtATime
<1>5. a /= e /\ k \in DOMAIN toClient[d] /\ At(d, k, "stroke_broadcast", a) /\ Told(d, a)
  <2>1. a /= e
    BY <1>2, <1>4
  <2>2. k \in DOMAIN toClient[d]
    BY <1>1, <2>1
  <2>3. At(d, k, "stroke_broadcast", a)
    BY <1>1, <2>2
  <2> QED
    BY <2>1, <2>2, <2>3 DEF Told
<1>6. CASE f /= e
  <2>1. f \in Committed /\ f \notin InFlight
    BY <1>0, <1>3, <1>6
  <2>2. PICK l \in DOMAIN toClient[d] : l > k /\ At(d, l, "stroke_broadcast", f)
    BY <1>0, <1>3, <1>5, <2>1 DEF InOrder
  <2>3. l \in DOMAIN toClient'[d] /\ At(d, l, "stroke_broadcast", f)'
    BY <1>1, <2>2
  <2> QED
    BY <2>2, <2>3
<1>7. CASE f = e
  <2>1. toClient[d] /= <<>>
    BY <1>5
  <2>2. IsOpen(d) /\ session[d] /= "none"
    BY <1>0, <2>1, FreshIsOpen DEF SessionOpen
  <2>3. ~Own(d, e)
    <3>1. Own(d, e) => By(e) = d /\ By(a) = d
      BY <1>0, <1>7 DEF Own, By, EditsOfStrokes
    <3> QED
      BY <1>4, <1>5, <3>1
  <2>4. Tells(e)
    <3>1. phase'[e] /= "late" /\ ~(Reports(e) /\ e \in Committed)
          /\ (e \in Committed' => e \in Committed \/ Applies(e))
      BY <1>7, EventBoard
    <3>2. phase'[e] \notin {"sent", "committed"}
      BY <1>7, EventFrame
    <3> QED
      BY <1>0, <1>7, <3>1, <3>2 DEF Drops, Applies, Repeats, Reports
  <2> QED
    BY <1>1, <1>5, <1>7, <2>2, <2>3, <2>4
<1> QED
  BY <1>6, <1>7

LEMMA EventReads ==
  ASSUME FrontendInv, CanvasInv, NEW e \in Event, EventStep(e), NEW d \in Client,
         NEW r \in Answers(d)'
  PROVE  ReadAgrees(d, r)'
<1>0. /\ Answers(d)' = Answers(d) /\ raced' = raced /\ seen' = seen
      /\ Strokes' = Strokes /\ events' = events /\ \A f : Target(f)' = Target(f)
      /\ Committed \subseteq Committed' /\ \A s : Excepted(s) => Excepted(s)'
      /\ \A f : Told(d, f) => Told(d, f)'
      /\ Strokes \subseteq Nat /\ Event \subseteq Nat
      /\ \A x \in Answers(d) : ReadAgrees(d, x)
  BY EventMoves, EventFrame, EventBoard, EventNotices, CanvasTypes DEF CanvasInv, CanvasOf
<1>1. IsOpen(d)
  <2>1. session[d] /= "none" \/ DOMAIN toClient[d] /= {}
    BY <1>0 DEF Answers
  <2>2. toClient[d] = <<>> => DOMAIN toClient[d] = {}
    BY EmptySeq
  <2> QED
    BY <2>1, <2>2, FreshIsOpen
<1>2. r.of \cup r.lacks \subseteq Committed
  BY <1>0 DEF FrontendInv, ReadsOld, Answers
<1> SUFFICES ASSUME r.confirmed, NEW s \in Strokes, ~Excepted(s)', s \notin Targets(r.lacks)',
                    ~(Has(r.strokes, s) <=> Shown(s)')
             PROVE  Missed(d, r.of, s)'
  BY <1>0 DEF ReadAgrees
<1>3. ~Excepted(s) /\ s \notin raced /\ s \notin Targets(r.lacks)
  BY <1>0, EventsKept DEF Excepted
<1>4. CASE Missed(d, r.of, s)
  <2>1. PICK f \in Committed \ r.of :
          Target(f) = s /\ (f \in seen[d] \/ Told(d, f) \/ f \in InFlight)
    BY <1>4 DEF Missed
  <2>2. f \in Committed'
    BY <1>0
  <2>3. f \in InFlight => f \in InFlight' \/ Told(d, f)' \/ f \in seen[d]
    BY <1>1, <2>1, <2>2, EventArrives
  <2> QED
    BY <1>0, <2>1, <2>2, <2>3 DEF Missed
<1>5. CASE ~Missed(d, r.of, s)
  <2>1. Has(r.strokes, s) <=> Shown(s)
    BY <1>0, <1>3, <1>5 DEF ReadAgrees
  <2>2. PICK t : t = Target(e)
    OBVIOUS
  <2>3. /\ s /= t => (Shown(s)' <=> Shown(s))
        /\ ~Applies(e) \/ (t \notin raced /\ e \in Committed) => (Shown(t)' <=> Shown(t))
    BY <1>0, <2>2, EventBoard
  <2>4. s = t /\ Applies(e) /\ e \notin Committed
    BY <1>3, <2>1, <2>3
  <2>5. e \in Committed'
    BY <2>2, <2>4, Applied
  <2>6. e \in InFlight' \/ Told(d, e)' \/ e \in seen[d]
    BY <1>1, <2>2, <2>4, <2>5, EventArrives
  <2> QED
    BY <1>0, <1>2, <2>2, <2>4, <2>5, <2>6 DEF Missed
<1> QED
  BY <1>4, <1>5

\* A fresh client: what is kept of its archive and of its redo stack.
LEMMA EventArchive ==
  ASSUME FrontendInv, CanvasInv, NEW e \in Event, EventStep(e), NEW d \in Client, IsOpen(d),
         NEW s \in Strokes, Agrees(d, s), s \notin disputed'[d]
  PROVE  ArchiveDrawn(d, s)' /\ RedoUndone(d, s)'
<1>0. /\ UNCHANGED <<strokes, redoIds, archive, wsRef>>
      /\ \A f \in Event \ {e} : phase'[f] = phase[f]
      /\ Drops(e) \/ Applies(e) \/ Repeats(e) \/ Tells(e) \/ Reports(e)
      /\ Event' = Event /\ \A f : Target(f)' = Target(f) /\ (Own(d, f)' <=> Own(d, f))
      /\ \A f \in Event \ {e} : f \in InFlight' <=> f \in InFlight
      /\ e \in InFlight <=> phase[e] \in {"sent", "committed"}
      /\ e \in InFlight' <=> phase'[e] \in {"sent", "committed"}
      /\ Strokes \subseteq Event /\ Event \subseteq Nat
      /\ Drawn(board.events, s) => Drawn(board.events, s)'
  BY EventMoves, EventFrame, EventBoard, CanvasTypes
<1>1. ArchiveDrawn(d, s)'
  <2> SUFFICES ASSUME s \in archive[d], ~Drawn(board.events, s)'
               PROVE  Own(d, s) /\ phase'[s] \in {"sent", "limbo"}
    BY <1>0 DEF ArchiveDrawn
  <2>1. Own(d, s) /\ phase[s] \in {"sent", "limbo"}
    BY <1>0 DEF Agrees, ArchiveDrawn
  <2>2. CASE s /= e
    BY <1>0, <2>1, <2>2
  <2>3. CASE s = e
    <3>1. events[e].action = "stroke" /\ Target(e) = e
      BY <2>3, CanvasTypes DEF Strokes
    <3>2. ~Applies(e)
      BY <2>3, <3>1, Applied DEF Undoes
    <3>3. ~Drops(e)
      BY <2>1, <2>3, <3>1 DEF Drops
    <3> QED
      BY <1>0, <2>1, <2>3, <3>2, <3>3 DEF Repeats, Tells, Reports
  <2> QED
    BY <2>2, <2>3
<1>2. RedoUndone(d, s)'
  <2>1. ASSUME Has(redoIds[d], s)
        PROVE  /\ ~Has(strokes[d], s) /\ ~Double(redoIds[d], s)
               /\ \A f \in Event : Target(f) = s => ~Told(d, f) /\ (f \in InFlight => Own(d, f))
    BY <2>1 DEF Agrees, RedoUndone
  <2>2. ASSUME Has(redoIds[d], s), NEW f \in Event, Target(f) = s
        PROVE  ~Told(d, f)' /\ (f \in InFlight' => Own(d, f))
    <3>1. CASE f /= e
      <4>1. Told(d, f)' <=> Told(d, f)
        BY <3>1, EventNotices
      <4> QED
        BY <1>0, <2>1, <2>2, <3>1, <4>1
    <3>2. CASE f = e
      <4>1. Told(d, e)' => Told(d, e) \/ (Tells(e) /\ ~Own(d, e))
        BY EventNotices
      <4>2. ~Told(d, e) /\ (e \in InFlight => Own(d, e))
        BY <2>1, <2>2, <3>2
      <4>3. (Tells(e) => e \in InFlight) /\ (e \in InFlight' => e \in InFlight)
        BY <1>0 DEF Drops, Applies, Repeats, Tells, Reports
      <4> QED
        BY <3>2, <4>1, <4>2, <4>3
    <3> QED
      BY <3>1, <3>2
  <2> QED
    BY <1>0, <2>1, <2>2 DEF RedoUndone, Has, Double
<1> QED
  BY <1>1, <1>2

\* The event of another stroke, or one that changes nothing of the board.
LEMMA EventAgreesStill ==
  ASSUME FrontendInv, CanvasInv, NEW e \in Event, EventStep(e), NEW d \in Client, IsOpen(d),
         NEW s \in Strokes, Agrees(d, s), s \notin disputed'[d], Shown(s)' <=> Shown(s),
         Target(e) = s =>
           /\ Optimistic(d, s, e)' => Optimistic(d, s, e)
           /\ Optimistic(d, s, e) \/ Awaited(d, s, e) => Optimistic(d, s, e)' \/ Awaited(d, s, e)'
  PROVE  Agrees(d, s)'
<1>0. /\ UNCHANGED strokes /\ \A f \in Event \ {e} : phase'[f] = phase[f]
      /\ Event' = Event /\ Committed \subseteq Committed' /\ Committed' \subseteq Committed \cup {e}
      /\ \A f : /\ Target(f)' = Target(f) /\ (Undoes(f)' <=> Undoes(f))
                /\ (Own(d, f)' <=> Own(d, f))
      /\ \A f \in Event \ {e} : f \in InFlight' <=> f \in InFlight
      /\ \A f : f /= e => (Told(d, f)' <=> Told(d, f)) /\ (Refused(d, f)' <=> Refused(d, f))
  BY EventMoves, EventFrame, EventBoard, EventNotices
<1>1. ASSUME NEW f \in Event, f /= e
      PROVE  /\ Optimistic(d, s, f)' <=> Optimistic(d, s, f)
             /\ Awaited(d, s, f)' <=> Awaited(d, s, f)
  BY <1>0, <1>1 DEF Optimistic, Awaited
<1>2. Target(e) /= s => ~Optimistic(d, s, e)' /\ ~Optimistic(d, s, e) /\ ~Awaited(d, s, e)
  BY <1>0 DEF Optimistic, Awaited
<1>3. Has(strokes'[d], s) <=> Has(strokes[d], s)
  BY <1>0
<1>4. ArchiveDrawn(d, s)' /\ RedoUndone(d, s)'
  BY EventArchive
<1> QED
  BY <1>0, <1>1, <1>2, <1>3, <1>4, AgreesStill

\* The first commit of an event: its author showed it before, and the others are
\* still to be told.
LEMMA CommitAgrees ==
  ASSUME FrontendInv, CanvasInv, NEW e \in Event, EventStep(e), NEW d \in Client, IsOpen(d),
         NEW s \in Strokes, Agrees(d, s), s = Target(e), ~Excepted(s)', s \notin disputed'[d],
         Applies(e), e \notin Committed
  PROVE  Agrees(d, s)'
<1>0. /\ UNCHANGED <<strokes, raced>> /\ \A f \in Event \ {e} : phase'[f] = phase[f]
      /\ Event' = Event /\ Committed' = Committed \cup {e}
      /\ \A f : /\ Target(f)' = Target(f) /\ (Undoes(f)' <=> Undoes(f))
                /\ (Own(d, f)' <=> Own(d, f))
      /\ \A f : f /= e => (Refused(d, f)' <=> Refused(d, f))
      /\ e \in InFlight' <=> phase'[e] \in {"sent", "committed"}
      /\ disputed[d] \subseteq disputed'[d] /\ \A x : Excepted(x) => Excepted(x)'
      /\ Strokes \subseteq Event /\ Event \subseteq Nat
  BY EventMoves, EventFrame, EventBoard, EventNotices, Applied, CanvasTypes
<1>1. s \notin raced /\ ~Excepted(s) /\ s \notin disputed[d] /\ s \notin Targets(Unannounced)
  BY <1>0 DEF Excepted
<1>2. phase[e] = "sent" /\ phase'[e] = "committed"
  <2>1. phase'[e] /= "late"
    BY EventBoard
  <2> QED
    BY <2>1 DEF Applies
<1>3. Shown(s)' <=> ~Undoes(e) /\ Drawn(board.events, s)'
  BY <1>1, Applied
<1>4. ASSUME NEW f \in Event PROVE ~Optimistic(d, s, f)'
  <2>1. CASE f = e
    BY <1>0, <2>1 DEF Optimistic
  <2>2. CASE f /= e
    <3>1. Optimistic(d, s, f)' => Optimistic(d, s, f)
      BY <1>0, <2>2 DEF Optimistic
    <3>2. ~Optimistic(d, s, f)
      <4> SUFFICES ASSUME Optimistic(d, s, f) PROVE FALSE
        OBVIOUS
      <4>1. Busy(d, f) /\ By(s) = d /\ Target(f) = s
        BY OptimisticIsBusy
      <4>2. ~Busy(d, e)
        BY <1>1, <1>2, <2>2, <4>1, OneBusy
      <4> QED
        BY <1>2, <4>2 DEF Busy
    <3> QED
      BY <3>1, <3>2
  <2> QED
    BY <2>1, <2>2
<1>5. CASE Own(d, e)
  <2>1. Optimistic(d, s, e)
    BY <1>2, <1>5 DEF Optimistic
  <2>2. Has(strokes[d], s) <=> ~Undoes(e)
    BY <2>1 DEF Agrees, ShowsItsOwn
  <2>3. ~Undoes(e) => Drawn(board.events, s)'
    <3>1. CASE events[e].action /= "redo_stroke"
      BY <3>1, Applied
    <3>2. CASE events[e].action = "redo_stroke" /\ Has(strokes[d], s)
      <4>1. s \in archive[d]
        BY <1>0, <1>1, <3>2 DEF FrontendInv, ShownReachable, Excused
      <4>2. Drawn(board.events, s) \/ phase[s] \in {"sent", "limbo"}
        BY <4>1 DEF Agrees, ArchiveDrawn
      <4>3. Target(s) = s /\ s < e
        BY <1>0, <3>2, CanvasTypes DEF CanvasInv, EditsOfStrokes, Strokes
      <4>4. phase[s] \in {"done", "late", "unsent"}
        BY <1>0, <1>1, <1>2, <4>3 DEF CanvasInv, OneAtATime
      <4>5. Drawn(board.events, s)
        BY <4>2, <4>4
      <4> QED
        BY <1>0, <4>5, EventBoard
    <3> QED
      BY <2>2, <3>1, <3>2
  <2>4. ShowsTheBoard(d, s)'
    BY <1>0, <1>3, <2>2, <2>3 DEF ShowsTheBoard
  <2>5. ShowsItsOwn(d, s)'
    BY <1>0, <1>4 DEF ShowsItsOwn
  <2> QED
    BY <2>4, <2>5, EventArchive DEF Agrees
<1>6. CASE ~Own(d, e)
  <2>1. Awaited(d, s, e)'
    BY <1>0, <1>2, <1>6 DEF Awaited
  <2>2. ShowsTheBoard(d, s)'
    BY <1>0, <2>1 DEF ShowsTheBoard
  <2>3. ShowsItsOwn(d, s)'
    BY <1>0, <1>4 DEF ShowsItsOwn
  <2> QED
    BY <2>2, <2>3, EventArchive DEF Agrees
<1> QED
  BY <1>5, <1>6

LEMMA EventAgrees ==
  ASSUME FrontendInv, CanvasInv, NEW e \in Event, EventStep(e), NEW d \in Client, IsOpen(d),
         NEW s \in Strokes, Agrees(d, s), ~Excepted(s)', s \notin disputed'[d]
  PROVE  Agrees(d, s)'
<1>0. /\ Committed \subseteq Committed' /\ Committed' \subseteq Committed \cup {e}
      /\ ~Applies(e) => Committed' = Committed
      /\ \A f : Target(f)' = Target(f) /\ (Own(d, f)' <=> Own(d, f))
      /\ e \in InFlight <=> phase[e] \in {"sent", "committed"}
      /\ e \in InFlight' <=> phase'[e] \in {"sent", "committed"}
      /\ Drops(e) \/ Applies(e) \/ Repeats(e) \/ Tells(e) \/ Reports(e)
      /\ Strokes \subseteq Nat
  BY EventMoves, EventFrame, EventBoard, CanvasTypes
<1>1. PICK t : t = Target(e)
  OBVIOUS
<1>2. /\ s /= t => (Shown(s)' <=> Shown(s))
      /\ ~Applies(e) \/ (t \notin raced /\ e \in Committed) => (Shown(t)' <=> Shown(t))
      /\ phase'[e] = "late" => Excepted(t)'
      /\ Reports(e) /\ e \in Committed => Excepted(t)'
      /\ Excepted(t) => Excepted(t)'
  BY <1>0, <1>1, EventBoard
<1>3. CASE s /= t
  BY <1>1, <1>2, <1>3, EventAgreesStill
<1>4. CASE s = t /\ Applies(e) /\ e \notin Committed
  BY <1>1, <1>4, CommitAgrees
<1>5. CASE s = t /\ ~(Applies(e) /\ e \notin Committed)
  <2>1. s \notin raced
    BY <1>2, <1>5 DEF Excepted
  <2>2. Shown(s)' <=> Shown(s)
    BY <1>2, <1>5, <2>1
  <2>3. ~Told(d, e)
    <3>1. Told(d, e) => phase[e] = "done"
      BY DEF CanvasInv, CanvasOf, NoticesTrue, Told
    <3>2. phase[e] /= "done"
      BY <1>0 DEF Drops, Applies, Repeats, Tells, Reports
    <3> QED
      BY <3>1, <3>2
  <2>4. session[d] /= "none"
    BY DEF CanvasInv, SessionOpen
  <2>5. /\ Told(d, e)' <=> Told(d, e) \/ (Tells(e) /\ ~Own(d, e))
        /\ Refused(d, e)' <=> Refused(d, e) \/ (Reports(e) /\ Own(d, e))
    BY <2>4, EventNotices
  <2>6. phase[e] = "committed" => e \in Committed
    BY DEF CanvasInv, Phases
  <2>7. /\ Optimistic(d, s, e)' => Optimistic(d, s, e)
        /\ Optimistic(d, s, e) \/ Awaited(d, s, e) => Optimistic(d, s, e)' \/ Awaited(d, s, e)'
    <3>1. CASE Drops(e)
      <4>1. ~Own(d, e) /\ e \notin Committed
        BY <1>1, <1>5, <3>1 DEF Drops
      <4> QED
        BY <1>0, <2>3, <4>1 DEF Optimistic, Awaited
    <3>2. CASE e \in Committed /\ (Repeats(e) \/ Applies(e))
      <4>1. e \in Committed' /\ phase'[e] /= "late"
        BY <1>0, <1>2, <1>5, <3>2
      <4>2. phase'[e] \in {"sent", "committed"}
        BY <3>2, <4>1 DEF Repeats, Applies
      <4> QED
        BY <1>0, <2>3, <3>2, <4>1, <4>2 DEF Optimistic, Awaited
    <3>3. CASE Tells(e)
      <4>1. e \in Committed /\ e \in Committed'
        BY <1>0, <2>6, <3>3 DEF Tells
      <4> QED
        BY <1>0, <2>3, <2>5, <3>3, <4>1 DEF Optimistic, Awaited
    <3>4. CASE Reports(e)
      <4>1. e \notin Committed /\ e \notin Committed' /\ phase[e] = "sent" /\ phase'[e] = "limbo"
        BY <1>0, <1>2, <1>5, <3>4 DEF Reports, Applies
      <4> QED
        BY <1>0, <2>3, <2>5, <3>4, <4>1 DEF Optimistic, Awaited
    <3> QED
      BY <1>0, <1>5, <2>6, <3>1, <3>2, <3>3, <3>4 DEF Repeats
  <2> QED
    BY <2>2, <2>7, EventAgreesStill
<1> QED
  BY <1>3, <1>4, <1>5

LEMMA EventStepCanvas ==
  ASSUME FrontendInv, CanvasInv, NEW e \in Event, EventStep(e)
  PROVE  CanvasInv'
<1>1. SessionOpen' /\ EditsOfStrokes' /\ Phases' /\ OneAtATime' /\ LastDecides'
  BY EventOrder
<1>2. ASSUME NEW d \in Client PROVE CanvasOf(d)'
  <2>1. OnlyStrokes(d)' /\ NoticesTrue(d)' /\ InOrder(d)'
    BY EventNoticesTrue, EventInOrder
  <2>2. \A r \in Answers(d)' : ReadAgrees(d, r)'
    BY EventReads
  <2>3. ASSUME Fresh(d)', NEW s \in Strokes, ~Excepted(s)', s \notin disputed'[d]
        PROVE  Agrees(d, s)'
    <3>1. /\ Fresh(d) /\ disputed[d] \subseteq disputed'[d] /\ (Excepted(s) => Excepted(s)')
      BY <2>3, EventNotices, EventMoves, EventBoard
    <3>2. Agrees(d, s) /\ IsOpen(d)
      <4>1. IsOpen(d)
        BY <3>1, FreshIsOpen DEF Fresh
      <4>2. Agrees(d, s)
        BY <2>3, <3>1 DEF CanvasInv, CanvasOf
      <4> QED
        BY <4>1, <4>2
    <3> QED
      BY <2>3, <3>2, EventAgrees
  <2>4. Strokes' = Strokes
    BY EventFrame
  <2> QED
    BY <2>1, <2>2, <2>3, <2>4 DEF CanvasOf
<1> QED
  BY <1>1, <1>2 DEF CanvasInv

\* A change of leader is not seen before the next read.
LEMMA CanvasIdle ==
  ASSUME FrontendInv, CanvasInv, becomeLeader \/ UNCHANGED vars
  PROVE  CanvasInv'
<1>1. UNCHANGED <<events, phase, board, raced, readyState, wsRef, session, reading, toClient,
                  strokes, redoIds, archive, disputed, seen>>
  BY DEF vars, becomeLeader, gatewayRest, connVars, clientVars, gatewayVars, clusterVars
<1>2. \A c \in Client : \A e : (Told(c, e)' => Told(c, e)) /\ (Refused(c, e)' => Refused(c, e))
  BY <1>1, NoticesKept
<1>3. SessionOpen' /\ EditsOfStrokes' /\ Phases' /\ OneAtATime' /\ LastDecides'
  BY <1>1, <1>2, EventsAsBefore
<1>4. ASSUME NEW c \in Client PROVE CanvasOf(c)'
  BY <1>1, CanvasKept DEF CanvasInv
<1> QED
  BY <1>3, <1>4 DEF CanvasInv

LEMMA CanvasStep == FrontendInv /\ CanvasInv /\ [Next]_vars => CanvasInv'
<1> SUFFICES ASSUME FrontendInv, CanvasInv, [Next]_vars PROVE CanvasInv'
  OBVIOUS
<1>0. FrontendInv'
  BY FrontendStep
<1>1. ASSUME NEW c \in Client,
             SocketStep(c) \/ UserStep(c) \/ MessageStep(c) \/ JoinStep(c)
      PROVE  CanvasInv'
  BY <1>0, <1>1, SocketStepCanvas, UserStepCanvas, MessageStepCanvas, JoinStepCanvas
<1>2. ASSUME NEW e \in Event, EventStep(e) PROVE CanvasInv'
  BY <1>2, EventStepCanvas
<1>3. CASE becomeLeader \/ UNCHANGED vars
  BY <1>3, CanvasIdle
<1>4. CASE Next
  BY <1>1, <1>2, <1>3, <1>4 DEF Next, SocketStep, UserStep, MessageStep, JoinStep, EventStep
<1> QED
  BY <1>3, <1>4

LEMMA CanvasInvHolds == Spec => [](FrontendInv /\ CanvasInv)
<1>1. Init => FrontendInv /\ CanvasInv
  BY FrontendStart, CanvasStart
<1>2. FrontendInv /\ CanvasInv /\ [Next]_vars => (FrontendInv /\ CanvasInv)'
  BY FrontendStep, CanvasStep
<1> QED
  BY <1>1, <1>2, PTL DEF Spec

-----------------------------------------------------------------------------
(* The theorems.                                                          *)

\* applyBoardEvent: the strokes the fold shows are the ones whose last undo or redo,
\* if there is one, is a redo, in whatever order and however often the cluster
\* committed the events.
THEOREM LastEditDecides == Spec => []VisibleByLastEdit
<1>1. FrontendInv => VisibleByLastEdit
  BY FrontendImplies
<1> QED
  BY <1>1, FrontendInvHolds, PTL

\* useBoard: a stroke is on a canvas once unless the cluster committed it twice,
\* after any optimistic drawing, rollback, broadcast and join_ack.
THEOREM CanvasHasNoDoubles == Spec => []NoDoubles
<1>1. FrontendInv => NoDoubles
  BY FrontendImplies
<1> QED
  BY <1>1, FrontendInvHolds, PTL

\* useBoard: undo and redo find every stroke of the canvas and of the redo stack
\* in strokeArchiveRef, but for the strokes a join_ack or a late commit disputes.
THEOREM ArchiveHasEdits == Spec => []EditsReachable
<1>1. FrontendInv => EditsReachable
  BY FrontendImplies
<1> QED
  BY <1>1, FrontendInvHolds, PTL

\* useWebSocket: a page never has two sockets connecting or open, whatever timers
\* and closes a cleaned-up effect has left behind.
THEOREM SocketIsAlone == Spec => []OneLiveSocket
<1>1. FrontendInv => OneLiveSocket
  BY FrontendImplies
<1> QED
  BY <1>1, FrontendInvHolds, PTL

\* useBoard: once everything has settled the canvas of every client shows exactly
\* the strokes of the replicated board, whatever optimistic edits, rollbacks,
\* broadcasts, lost sockets and joins came before.  Excepted are the strokes
\* CanvasAgrees names: edited before the last edit was settled, committed after a
\* reported failure, or disputed, among them those that the leader which served the
\* client's last join had yet to apply.
THEOREM CanvasFollowsTheBoard == Spec => []CanvasAgrees
<1>1. FrontendInv /\ CanvasInv => CanvasAgrees
  BY CanvasImplies
<1> QED
  BY <1>1, CanvasInvHolds, PTL
=============================================================================
