------------------------- MODULE PersistenceProofs -------------------------
(***************************************************************************)
(* What the files of a replica keep, for every cluster, every sequence of  *)
(* handlers and every crash.                                               *)
(*                                                                         *)
(* Votes: the term and the vote on disk only grow in the order Le, and the *)
(* last state a handler has yet to write is the one in memory, so the      *)
(* reply, which waits for that write, promises nothing else.               *)
(*                                                                         *)
(* Entries and the board: after every write that a handler still has to    *)
(* make the files are such that a restart would find what was promised     *)
(* (Point), and after the last one it would find the memory (Match).  The  *)
(* files between the writes are a function D of the number of writes made, *)
(* whose existence each part of a handler extends by its own write.        *)
(***************************************************************************)
EXTENDS Persistence, RaftLogProofs

-----------------------------------------------------------------------------
(* Records and sequences whose elements are of any kind.                   *)

IsNode(n) == {"currentTerm", "votedFor", "log", "commitIndex", "board"} \subseteq DOMAIN n

IsDisk(d) == {"state", "snapshot", "lines", "unfinished"} \subseteq DOMAIN d

IsHandler(h) == {"node", "writes"} \subseteq DOMAIN h

IsSeq(w) == \E S : w \in Seq(S)

LEMMA EmptyIsSeq == IsSeq(<<>>) /\ Len(<<>>) = 0
<1>1. <<>> \in Seq({})
  OBVIOUS
<1> QED
  BY <1>1 DEF IsSeq

LEMMA AppendAny ==
  ASSUME NEW w, NEW x, IsSeq(w)
  PROVE  /\ IsSeq(Append(w, x))
         /\ Len(w) \in Nat
         /\ Len(Append(w, x)) = Len(w) + 1
         /\ \A k \in 1..Len(w) : Append(w, x)[k] = w[k]
         /\ Append(w, x)[Len(w) + 1] = x
<1>1. PICK S : w \in Seq(S)
  BY DEF IsSeq
<1> DEFINE T == S \cup {x}
<1>2. w \in Seq(T) /\ x \in T
  BY <1>1
<1> HIDE DEF T
<1>3. Append(w, x) \in Seq(T)
  BY <1>2
<1> QED
  BY <1>2, <1>3 DEF IsSeq

LEMMA TailAny ==
  ASSUME NEW w, IsSeq(w), w /= <<>>
  PROVE  /\ IsSeq(Tail(w))
         /\ Len(w) \in Nat \ {0}
         /\ Head(w) = w[1]
         /\ Len(Tail(w)) = Len(w) - 1
         /\ \A k \in 1..(Len(w) - 1) : Tail(w)[k] = w[k + 1]
         /\ Tail(w) = <<>> <=> Len(w) = 1
<1>1. PICK S : w \in Seq(S)
  BY DEF IsSeq
<1>2. Tail(w) \in Seq(S) /\ Len(w) \in Nat /\ Len(w) /= 0 /\ Len(Tail(w)) = Len(w) - 1
  BY <1>1
<1>3. \A k \in 1..(Len(w) - 1) : Tail(w)[k] = w[k + 1]
  BY <1>1, <1>2
<1>4. Head(w) = w[1]
  BY <1>1
<1>5. Tail(w) = <<>> <=> Len(Tail(w)) = 0
  <2> DEFINE u == Tail(w)
  <2>1. u \in Seq(S)
    BY <1>2
  <2> HIDE DEF u
  <2>2. u = <<>> <=> Len(u) = 0
    BY <2>1
  <2> QED
    BY <2>2 DEF u
<1> QED
  BY <1>2, <1>3, <1>4, <1>5 DEF IsSeq

-----------------------------------------------------------------------------
(* Terms and votes.                                                        *)

Le(a, b) ==
  \/ a.currentTerm < b.currentTerm
  \/ a.currentTerm = b.currentTerm /\ a.votedFor \in {Nil, b.votedFor}

Same(a, b) == a.currentTerm = b.currentTerm /\ a.votedFor = b.votedFor

IsState(w, k) == w[k].file = "state"

OtherFiles == {"snapshot", "rewrite", "append"}

\* The states that a handler has yet to write, between the one on disk (s) and
\* the memory (n); the last of them is the memory.
Pending(s, w, n) ==
  /\ \A k \in 1..Len(w) : IsState(w, k) \/ w[k].file \in OtherFiles
  /\ \A k \in 1..Len(w) : IsState(w, k) => /\ w[k].value.currentTerm \in Nat
                                            /\ Le(s, w[k].value)
                                            /\ Le(w[k].value, n)
  /\ \A j, k \in 1..Len(w) : j < k /\ IsState(w, j) /\ IsState(w, k)
                               => Le(w[j].value, w[k].value)
  /\ \/ Same(s, n) /\ \A k \in 1..Len(w) : ~IsState(w, k)
     \/ \E k \in 1..Len(w) : /\ IsState(w, k) /\ Same(w[k].value, n)
                             /\ \A j \in (k + 1)..Len(w) : ~IsState(w, j)

VotesOK(s, w, n) ==
  /\ IsSeq(w) /\ IsNode(n)
  /\ n.currentTerm \in Nat /\ s.currentTerm \in Nat
  /\ Le(s, n)
  /\ Pending(s, w, n)

LEMMA LeTransitive ==
  ASSUME NEW a, NEW b, NEW c, a.currentTerm \in Nat, b.currentTerm \in Nat,
         c.currentTerm \in Nat, Le(a, b), Le(b, c)
  PROVE  Le(a, c)
  BY DEF Le

\* A write of another file, of a memory with the same term and vote.
LEMMA OtherIssued ==
  ASSUME NEW s, NEW w, NEW n, NEW x, NEW m, VotesOK(s, w, n), x.file \in OtherFiles,
         IsNode(m), Same(n, m)
  PROVE  VotesOK(s, Append(w, x), m)
<1> DEFINE v == Append(w, x)
<1>1. /\ IsSeq(v) /\ Len(w) \in Nat /\ Len(v) = Len(w) + 1
      /\ \A k \in 1..Len(w) : v[k] = w[k]
      /\ v[Len(w) + 1] = x
  BY AppendAny DEF VotesOK
<1> HIDE DEF v
<1>2. /\ \A k \in 1..Len(w) : IsState(v, k) <=> IsState(w, k)
      /\ ~IsState(v, Len(w) + 1)
  BY <1>1 DEF IsState, OtherFiles
<1>3. \A a : Le(a, n) <=> Le(a, m)
  BY DEF Le, Same
<1>4. \A a : Same(a, n) <=> Same(a, m)
  BY DEF Same
<1>5. \A k \in 1..Len(v) : IsState(v, k) => k \in 1..Len(w) /\ IsState(w, k) /\ v[k] = w[k]
  BY <1>1, <1>2
<1>6. Pending(s, v, m)
  <2>0. \A k \in 1..Len(v) : IsState(v, k) \/ v[k].file \in OtherFiles
    BY <1>1, <1>2 DEF VotesOK, Pending
  <2>1. \A k \in 1..Len(v) : IsState(v, k) => /\ v[k].value.currentTerm \in Nat
                                               /\ Le(s, v[k].value) /\ Le(v[k].value, m)
    BY <1>5, <1>3 DEF VotesOK, Pending
  <2>2. \A j, k \in 1..Len(v) : j < k /\ IsState(v, j) /\ IsState(v, k)
                                 => Le(v[j].value, v[k].value)
    BY <1>5 DEF VotesOK, Pending
  <2>3. CASE Same(s, n) /\ \A k \in 1..Len(w) : ~IsState(w, k)
    BY <2>0, <2>1, <2>2, <2>3, <1>4, <1>5 DEF Pending
  <2>4. ASSUME NEW k \in 1..Len(w), IsState(w, k), Same(w[k].value, n),
               \A j \in (k + 1)..Len(w) : ~IsState(w, j)
        PROVE  Pending(s, v, m)
    <3>1. k \in 1..Len(v) /\ IsState(v, k) /\ Same(v[k].value, m)
      BY <2>4, <1>1, <1>2, <1>4
    <3>2. \A j \in (k + 1)..Len(v) : ~IsState(v, j)
      BY <2>4, <1>1, <1>5
    <3> QED
      BY <2>0, <2>1, <2>2, <3>1, <3>2 DEF Pending
  <2> QED
    BY <2>3, <2>4 DEF VotesOK, Pending
<1>7. m.currentTerm = n.currentTerm
  BY DEF Same
<1> QED
  BY <1>1, <1>3, <1>6, <1>7 DEF VotesOK, v

\* A write of a state that is not before the memory.
LEMMA StateIssued ==
  ASSUME NEW s, NEW w, NEW n, NEW m, VotesOK(s, w, n), IsNode(m),
         m.currentTerm \in Nat, Le(n, m)
  PROVE  VotesOK(s, Append(w, saveState(m)), m)
<1> DEFINE x == saveState(m)
           v == Append(w, x)
<1>1. /\ IsSeq(v) /\ Len(w) \in Nat /\ Len(v) = Len(w) + 1
      /\ \A k \in 1..Len(w) : v[k] = w[k]
      /\ v[Len(w) + 1] = x
  BY AppendAny DEF VotesOK
<1>2. x.file = "state" /\ Same(x.value, m) /\ x.value.currentTerm \in Nat
  BY DEF saveState, Same
<1> HIDE DEF v, x
<1>3. /\ \A k \in 1..Len(w) : IsState(v, k) <=> IsState(w, k)
      /\ IsState(v, Len(w) + 1)
  BY <1>1, <1>2 DEF IsState
<1>4. \A k \in 1..Len(w) : IsState(w, k) => Le(w[k].value, m)
  BY LeTransitive DEF VotesOK, Pending
<1>5. Le(s, m)
  BY LeTransitive DEF VotesOK
<1>6. /\ \A a : Le(a, m) => Le(a, x.value)
      /\ Le(x.value, m)
  BY <1>2 DEF Le, Same
<1>7. \A k \in 1..Len(v) : \/ (k \in 1..Len(w) /\ v[k] = w[k])
                           \/ (k = Len(w) + 1 /\ v[k] = x)
  BY <1>1
<1>8. Pending(s, v, m)
  <2>0. \A k \in 1..Len(v) : IsState(v, k) \/ v[k].file \in OtherFiles
    BY <1>3, <1>7 DEF VotesOK, Pending
  <2>1. \A k \in 1..Len(v) : IsState(v, k) => /\ v[k].value.currentTerm \in Nat
                                               /\ Le(s, v[k].value) /\ Le(v[k].value, m)
    BY <1>2, <1>3, <1>4, <1>5, <1>6, <1>7 DEF VotesOK, Pending
  <2>2. ASSUME NEW j \in 1..Len(v), NEW k \in 1..Len(v), j < k, IsState(v, j), IsState(v, k)
        PROVE  Le(v[j].value, v[k].value)
    <3>1. j \in 1..Len(w) /\ v[j] = w[j] /\ IsState(w, j)
      BY <2>2, <1>1, <1>3
    <3>2. CASE k \in 1..Len(w)
      BY <2>2, <3>1, <3>2, <1>1, <1>3 DEF VotesOK, Pending
    <3>3. CASE k = Len(w) + 1
      BY <3>1, <3>3, <1>1, <1>4, <1>6
    <3> QED
      BY <3>2, <3>3, <1>1
  <2>3. /\ Len(w) + 1 \in 1..Len(v) /\ IsState(v, Len(w) + 1)
        /\ Same(v[Len(w) + 1].value, m)
        /\ \A j \in (Len(w) + 2)..Len(v) : ~IsState(v, j)
    BY <1>1, <1>2, <1>3
  <2>4. \E k \in 1..Len(v) : /\ IsState(v, k) /\ Same(v[k].value, m)
                             /\ \A j \in (k + 1)..Len(v) : ~IsState(v, j)
    <3>1. \A j \in ((Len(w) + 1) + 1)..Len(v) : ~IsState(v, j)
      BY <2>3, <1>1
    <3> QED
      BY <2>3, <3>1
  <2> QED
    BY <2>0, <2>1, <2>2, <2>4 DEF Pending
<1> QED
  BY <1>1, <1>5, <1>8 DEF VotesOK, v, x
-----------------------------------------------------------------------------
(* The parts of a handler, one by one.                                     *)

HandlerOK(s, h) == IsHandler(h) /\ VotesOK(s, h.writes, h.node)

LEMMA IssueOnlyIs ==
  ASSUME NEW h, NEW x, IsHandler(h), NEW g, g = Issue(h, x)
  PROVE  IsHandler(g) /\ g.node = h.node /\ g.writes = Append(h.writes, x)
  BY DEF IsHandler, Issue

LEMMA LogIssued ==
  ASSUME NEW s, NEW h, NEW l, NEW x, HandlerOK(s, h), x.file \in OtherFiles
  PROVE  HandlerOK(s, Issue([h EXCEPT !.node.log = l], x))
<1> DEFINE f == [h EXCEPT !.node.log = l]
           g == Issue(f, x)
<1>0. IsHandler(f) /\ IsNode(f.node) /\ Same(h.node, f.node) /\ f.writes = h.writes
  BY DEF HandlerOK, VotesOK, IsHandler, IsNode, Same
<1> HIDE DEF f
<1>1. IsHandler(g) /\ IsNode(g.node) /\ Same(h.node, g.node) /\ g.writes = Append(h.writes, x)
  BY <1>0, IssueOnlyIs
<1> HIDE DEF g
<1>2. VotesOK(s, Append(h.writes, x), g.node)
  BY <1>1, OtherIssued DEF HandlerOK
<1>3. HandlerOK(s, g)
  BY <1>1, <1>2 DEF HandlerOK
<1> QED
  BY <1>3 DEF f, g

LEMMA IssuedOther ==
  ASSUME NEW s, NEW h, NEW x, HandlerOK(s, h), x.file \in OtherFiles
  PROVE  HandlerOK(s, Issue(h, x)) /\ Issue(h, x).node = h.node
<1> DEFINE g == Issue(h, x)
<1>1. IsHandler(g) /\ g.node = h.node /\ g.writes = Append(h.writes, x)
  BY IssueOnlyIs DEF HandlerOK
<1> HIDE DEF g
<1>2. VotesOK(s, Append(h.writes, x), h.node)
  BY OtherIssued DEF HandlerOK, VotesOK, Same
<1>3. HandlerOK(s, g) /\ g.node = h.node
  BY <1>1, <1>2 DEF HandlerOK
<1> QED
  BY <1>3 DEF g

LEMMA IssuedState ==
  ASSUME NEW s, NEW h, NEW n, HandlerOK(s, h), IsNode(n), n.currentTerm \in Nat,
         Le(h.node, n)
  PROVE  /\ HandlerOK(s, Issue([h EXCEPT !.node = n], saveState(n)))
         /\ Issue([h EXCEPT !.node = n], saveState(n)).node = n
<1> DEFINE x == saveState(n)
           g == Issue([h EXCEPT !.node = n], x)
<1> HIDE DEF x
<1>1. IsHandler(g) /\ g.node = n /\ g.writes = Append(h.writes, x)
  BY DEF HandlerOK, IsHandler, Issue
<1> HIDE DEF g
<1>2. VotesOK(s, Append(h.writes, x), n)
  BY StateIssued DEF HandlerOK, x
<1>3. HandlerOK(s, g) /\ g.node = n
  BY <1>1, <1>2 DEF HandlerOK
<1> QED
  BY <1>3 DEF g, x

LEMMA SnapshotVotes ==
  ASSUME NEW s, NEW h, HandlerOK(s, h)
  PROVE  HandlerOK(s, maybeSnapshot(h))
<1> DEFINE n == h.node
           term == getTermAt(n.log, n.commitIndex)
           compacted == compact(n.log, n.commitIndex, term)
           sn == [lastIncludedIndex |-> n.commitIndex, lastIncludedTerm |-> term,
                  boards |-> n.board]
           g == Issue([h EXCEPT !.node.log = compacted], saveSnapshot(sn))
<1>1. takeSnapshot(h) = Issue(g, rewriteLog(compacted))
  BY DEF takeSnapshot
<1>2. saveSnapshot(sn).file \in OtherFiles /\ rewriteLog(compacted).file \in OtherFiles
  BY DEF saveSnapshot, rewriteLog, OtherFiles
<1> HIDE DEF n, term, compacted, sn
<1>3. HandlerOK(s, g)
  BY <1>2, LogIssued
<1> HIDE DEF g
<1>4. HandlerOK(s, takeSnapshot(h))
  BY <1>1, <1>2, <1>3, IssuedOther
<1> QED
  BY <1>4 DEF maybeSnapshot

LEMMA CommitVotes ==
  ASSUME NEW s, NEW h, NEW index, HandlerOK(s, h)
  PROVE  HandlerOK(s, CommitTo(h, index))
<1> DEFINE n == h.node
           board == n.board \o Applied(n.log, n.commitIndex + 1, index)
           committed == [n EXCEPT !.commitIndex = index, !.board = board]
<1>1. CommitTo(h, index)
        = maybeSnapshot(Issue([h EXCEPT !.node = committed], saveState(committed)))
  BY DEF CommitTo
<1>2. IsNode(n) /\ n.currentTerm \in Nat
  BY DEF HandlerOK, VotesOK
<1> HIDE DEF n, board
<1>3. IsNode(committed) /\ Same(n, committed)
  BY <1>2 DEF IsNode, Same
<1> HIDE DEF committed
<1>4. Le(h.node, committed) /\ committed.currentTerm \in Nat
  BY <1>2, <1>3 DEF Le, Same, n
<1>5. HandlerOK(s, Issue([h EXCEPT !.node = committed], saveState(committed)))
  BY <1>3, <1>4, IssuedState
<1> QED
  BY <1>1, <1>5, SnapshotVotes

LEMMA AdoptVotes ==
  ASSUME NEW s, NEW h, NEW term \in Nat, HandlerOK(s, h)
  PROVE  /\ HandlerOK(s, AdoptTerm(h, term))
         /\ term <= AdoptTerm(h, term).node.currentTerm
<1>0. IsNode(h.node) /\ h.node.currentTerm \in Nat /\ IsHandler(h)
  BY DEF HandlerOK, VotesOK
<1>1. CASE term <= h.node.currentTerm
  BY <1>1 DEF AdoptTerm
<1>2. CASE ~ (term <= h.node.currentTerm)
  <2> DEFINE n == [h.node EXCEPT !.currentTerm = term, !.votedFor = Nil]
  <2>1. IsNode(n) /\ n.currentTerm = term
    BY <1>0 DEF IsNode
  <2>2. AdoptTerm(h, term) = Issue([h EXCEPT !.node = n], saveState(n))
    BY <1>2 DEF AdoptTerm
  <2> HIDE DEF n
  <2>3. Le(h.node, n)
    BY <1>0, <1>2, <2>1 DEF Le
  <2>4. /\ HandlerOK(s, Issue([h EXCEPT !.node = n], saveState(n)))
        /\ Issue([h EXCEPT !.node = n], saveState(n)).node = n
    BY <2>1, <2>3, IssuedState
  <2> QED
    BY <2>1, <2>2, <2>4
<1> QED
  BY <1>1, <1>2

\* An entry is taken with writes of the log file alone.
LEMMA TakeVotes ==
  ASSUME NEW s, NEW h, NEW e, HandlerOK(s, h)
  PROVE  HandlerOK(s, TakeEntry(h, e))
<1> DEFINE l == h.node.log
           cut == IF Conflicts(l, e) THEN truncateFrom(l, e.index) ELSE l
           g == IF cut = l THEN h ELSE Issue([h EXCEPT !.node.log = cut], rewriteLog(cut))
<1>1. TakeEntry(h, e) = IF hasEntry(cut, e.index) THEN g
                        ELSE Issue([g EXCEPT !.node.log = append(@, e)], appendLog(e))
  BY DEF TakeEntry
<1>2. rewriteLog(cut).file \in OtherFiles /\ appendLog(e).file \in OtherFiles
  BY DEF rewriteLog, appendLog, OtherFiles
<1> HIDE DEF cut, l
<1>3. HandlerOK(s, g)
  BY <1>2, LogIssued
<1> HIDE DEF g
<1>4. HandlerOK(s, Issue([g EXCEPT !.node.log = append(g.node.log, e)], appendLog(e)))
  BY <1>2, <1>3, LogIssued
<1>5. [g EXCEPT !.node.log = append(@, e)] = [g EXCEPT !.node.log = append(g.node.log, e)]
  BY <1>3 DEF HandlerOK, IsHandler, VotesOK, IsNode
<1> QED
  BY <1>1, <1>3, <1>4, <1>5

LEMMA InstallVotes ==
  ASSUME NEW s, NEW h, NEW sn, HandlerOK(s, h)
  PROVE  HandlerOK(s, applySnapshot(h, sn))
<1> DEFINE l == installSnapshot(h.node.log, sn.lastIncludedIndex, sn.lastIncludedTerm)
           n == [h.node EXCEPT !.log = l, !.board = sn.boards,
                               !.commitIndex = sn.lastIncludedIndex]
           g == Issue([h EXCEPT !.node = n], rewriteLog(l))
           f == Issue(g, saveSnapshot(sn))
<1>0. IsNode(h.node) /\ h.node.currentTerm \in Nat /\ IsHandler(h)
  BY DEF HandlerOK, VotesOK
<1>1. applySnapshot(h, sn) = Issue(f, saveState(n))
  BY DEF applySnapshot
<1>2. rewriteLog(l).file \in OtherFiles /\ saveSnapshot(sn).file \in OtherFiles
  BY DEF rewriteLog, saveSnapshot, OtherFiles
<1> HIDE DEF l
<1>3. IsNode(n) /\ Same(h.node, n)
  BY <1>0 DEF IsNode, Same
<1> HIDE DEF n
<1>4. IsHandler(g) /\ g.node = n /\ g.writes = Append(h.writes, rewriteLog(l))
  BY <1>0 DEF IsHandler, Issue
<1> HIDE DEF g
<1>5. HandlerOK(s, g)
  <2>1. VotesOK(s, Append(h.writes, rewriteLog(l)), n)
    BY <1>2, <1>3, OtherIssued DEF HandlerOK
  <2> QED
    BY <2>1, <1>4 DEF HandlerOK
<1>6. HandlerOK(s, f) /\ f.node = n
  BY <1>2, <1>4, <1>5, IssuedOther
<1> DEFINE e == Issue(f, saveState(n))
<1>7. IsHandler(e) /\ e.node = n /\ e.writes = Append(f.writes, saveState(n))
  <2> HIDE DEF f
  <2> QED
    BY <1>6, IssueOnlyIs DEF HandlerOK
<1> HIDE DEF f, e
<1>8. VotesOK(s, Append(f.writes, saveState(n)), n)
  <2>1. Le(n, n) /\ n.currentTerm \in Nat
    BY <1>0, <1>3 DEF Le, Same
  <2> QED
    BY <1>3, <1>6, <2>1, StateIssued DEF HandlerOK
<1>9. HandlerOK(s, e)
  BY <1>7, <1>8 DEF HandlerOK
<1> QED
  BY <1>1, <1>9 DEF e

\* A vote is granted only where none, or the same one, was granted in the term.
LEMMA GrantVotes ==
  ASSUME NEW s, NEW h, NEW c, HandlerOK(s, h), h.node.votedFor \in {Nil, c}
  PROVE  HandlerOK(s, GrantVote(h, c))
<1> DEFINE n == [h.node EXCEPT !.votedFor = c]
<1>0. IsNode(h.node) /\ h.node.currentTerm \in Nat
  BY DEF HandlerOK, VotesOK
<1>1. GrantVote(h, c) = Issue([h EXCEPT !.node = n], saveState(n))
  BY DEF GrantVote
<1>2. IsNode(n) /\ n.currentTerm = h.node.currentTerm /\ n.votedFor = c
  BY <1>0 DEF IsNode, Same
<1> HIDE DEF n
<1>3. Le(h.node, n)
  BY <1>2 DEF Le
<1> QED
  BY <1>0, <1>1, <1>2, <1>3, IssuedState
-----------------------------------------------------------------------------
(* The specification.                                                      *)

VotesInv ==
  /\ IsDisk(disk)
  /\ disk.state.currentTerm \in Nat
  /\ promised.currentTerm \in Nat
  /\ Le(promised, disk.state)
  /\ status = "up" => VotesOK(disk.state, writes, node)

\* A handler, or the constructor, that runs until its first write.
LEMMA RunVotes ==
  ASSUME VotesInv, NEW h, HandlerOK(disk.state, h), Run(h), status' = "up"
  PROVE  VotesInv'
<1>1. node' = h.node /\ writes' = h.writes /\ disk' = disk
  BY DEF Run
<1>2. VotesOK(disk.state, h.writes, h.node)
  BY DEF HandlerOK
<1>3. VotesOK(disk.state, writes, node)'
  BY <1>1, <1>2
<1>4. CASE h.writes /= <<>>
  <2>1. promised' = promised
    BY <1>4 DEF Run
  <2> QED
    BY <1>1, <1>3, <2>1 DEF VotesInv
<1>5. CASE h.writes = <<>>
  <2>1. promised' = h.node
    BY <1>5 DEF Run
  <2>2. Same(disk.state, h.node)
    BY <1>2, <1>5, EmptyIsSeq DEF VotesOK, Pending
  <2>3. Le(h.node, disk.state) /\ h.node.currentTerm \in Nat
    BY <1>2, <2>2 DEF Le, Same, VotesOK
  <2> QED
    BY <1>1, <1>3, <2>1, <2>3 DEF VotesInv
<1> QED
  BY <1>4, <1>5

\* A handler starts with nothing left to write.
LEMMA StartVotes ==
  ASSUME VotesInv, Idle
  PROVE  HandlerOK(disk.state, Start)
<1>1. IsHandler(Start) /\ Start.node = node /\ Start.writes = writes
  BY DEF Start, IsHandler, Idle
<1> QED
  BY <1>1 DEF HandlerOK, VotesInv, Idle

LEMMA VotesStart == Init => VotesInv
<1> SUFFICES ASSUME Init PROVE VotesInv
  OBVIOUS
<1>1. /\ IsDisk(disk) /\ disk.state.currentTerm = 0 /\ disk.state.votedFor = Nil
      /\ writes = <<>> /\ promised = node
  BY DEF Init, emptyDisk, IsDisk
<1>2. IsNode(node) /\ Same(disk.state, node)
  BY DEF Init, Loaded, IsNode, Same
<1>3. VotesOK(disk.state, writes, node)
  BY <1>1, <1>2, EmptyIsSeq DEF VotesOK, Pending, Le, Same
<1> QED
  BY <1>1, <1>2, <1>3 DEF VotesInv, Le, Same

LEMMA WriteVotes ==
  ASSUME VotesInv, Write
  PROVE  VotesInv'
<1> DEFINE s == disk.state
           w == writes
           v == Tail(writes)
<1>1. /\ status = "up" /\ w /= <<>> /\ disk' = Written(disk, Head(w)) /\ writes' = v
      /\ node' = node /\ status' = status
      /\ promised' = IF v = <<>> THEN node ELSE promised
  BY DEF Write
<1>2. VotesOK(s, w, node)
  BY <1>1 DEF VotesInv
<1>3. /\ IsSeq(v) /\ Len(w) \in Nat \ {0} /\ Head(w) = w[1] /\ Len(v) = Len(w) - 1
      /\ \A k \in 1..(Len(w) - 1) : v[k] = w[k + 1]
      /\ v = <<>> <=> Len(w) = 1
  BY <1>1, <1>2, TailAny DEF VotesOK
<1>4. /\ IsDisk(disk')
      /\ IsState(w, 1) => disk'.state = w[1].value
      /\ ~IsState(w, 1) => disk'.state = s
  <2>1. IsDisk(disk) /\ disk' = Written(disk, w[1])
    BY <1>1, <1>3 DEF VotesInv
  <2>2. CASE IsState(w, 1)
    BY <2>1, <2>2 DEF Written, IsState, IsDisk
  <2>3. CASE ~IsState(w, 1)
    <3>0. w[1].file \in OtherFiles
      BY <2>3, <1>2, <1>3 DEF IsState, VotesOK, Pending
    <3>1. CASE w[1].file = "snapshot"
      BY <2>1, <2>3, <3>1 DEF Written, IsState, IsDisk
    <3>2. CASE w[1].file = "rewrite"
      BY <2>1, <2>3, <3>2 DEF Written, IsState, IsDisk
    <3>3. CASE w[1].file = "append"
      BY <2>1, <2>3, <3>3 DEF Written, IsState, IsDisk
    <3> QED
      BY <3>0, <3>1, <3>2, <3>3 DEF OtherFiles
  <2> QED
    BY <2>2, <2>3
<1>5. disk'.state.currentTerm \in Nat /\ Le(s, disk'.state) /\ Le(disk'.state, node)
  BY <1>2, <1>3, <1>4 DEF VotesOK, Pending, Le
<1>6. \A k \in 1..Len(v) :
        k + 1 \in 1..Len(w) /\ v[k] = w[k + 1] /\ (IsState(v, k) <=> IsState(w, k + 1))
  BY <1>3 DEF IsState
<1>7. Pending(disk'.state, v, node)
  <2>0. \A k \in 1..Len(v) : IsState(v, k) \/ v[k].file \in OtherFiles
    BY <1>2, <1>6 DEF VotesOK, Pending
  <2>1. ASSUME NEW k \in 1..Len(v), IsState(v, k)
        PROVE  /\ v[k].value.currentTerm \in Nat
               /\ Le(disk'.state, v[k].value) /\ Le(v[k].value, node)
    <3>1. k + 1 \in 1..Len(w) /\ IsState(w, k + 1) /\ v[k] = w[k + 1] /\ 1 < k + 1 /\ 1 \in 1..Len(w)
      BY <2>1, <1>3, <1>6
    <3>2. CASE IsState(w, 1)
      BY <3>1, <3>2, <1>2, <1>4 DEF VotesOK, Pending
    <3>3. CASE ~IsState(w, 1)
      BY <3>1, <3>3, <1>2, <1>4 DEF VotesOK, Pending
    <3> QED
      BY <3>2, <3>3
  <2>2. ASSUME NEW j \in 1..Len(v), NEW k \in 1..Len(v), j < k, IsState(v, j), IsState(v, k)
        PROVE  Le(v[j].value, v[k].value)
    <3>1. j + 1 < k + 1
      BY <2>2
    <3> QED
      BY <2>2, <3>1, <1>2, <1>6 DEF VotesOK, Pending
  <2>3. CASE Same(s, node) /\ \A k \in 1..Len(w) : ~IsState(w, k)
    <3>1. disk'.state = s /\ \A k \in 1..Len(v) : ~IsState(v, k)
      BY <2>3, <1>3, <1>4, <1>6
    <3> QED
      BY <2>0, <2>1, <2>2, <2>3, <3>1 DEF Pending
  <2>4. ASSUME NEW k \in 1..Len(w), IsState(w, k), Same(w[k].value, node),
               \A j \in (k + 1)..Len(w) : ~IsState(w, j)
        PROVE  Pending(disk'.state, v, node)
    <3>1. CASE k = 1
      <4>1. Same(disk'.state, node) /\ \A j \in 1..Len(v) : ~IsState(v, j)
        BY <2>4, <3>1, <1>3, <1>4, <1>6
      <4> QED
        BY <2>0, <2>1, <2>2, <4>1 DEF Pending
    <3>2. CASE k > 1
      <4>1. k - 1 \in 1..Len(v) /\ IsState(v, k - 1) /\ v[k - 1] = w[k]
        BY <2>4, <3>2, <1>3, <1>6
      <4>2. \A j \in ((k - 1) + 1)..Len(v) : ~IsState(v, j)
        BY <2>4, <3>2, <1>3, <1>6
      <4> QED
        BY <2>0, <2>1, <2>2, <2>4, <4>1, <4>2 DEF Pending
    <3> QED
      BY <3>1, <3>2
  <2> QED
    BY <2>3, <2>4, <1>2 DEF VotesOK, Pending
<1>8. VotesOK(disk'.state, v, node)
  BY <1>2, <1>3, <1>5, <1>7 DEF VotesOK
<1>9. VotesOK(disk.state, writes, node)'
  BY <1>1, <1>8
<1>10. promised'.currentTerm \in Nat /\ Le(promised', disk'.state)
  <2>1. CASE v /= <<>>
    <3>1. promised' = promised
      BY <2>1, <1>1
    <3>2. Le(promised, s) /\ promised.currentTerm \in Nat /\ s.currentTerm \in Nat
      BY DEF VotesInv
    <3> QED
      BY <3>1, <3>2, <1>5, LeTransitive
  <2>2. CASE v = <<>>
    <3>1. promised' = node /\ Len(v) = 0
      BY <2>2, <1>1, <1>3
    <3>2. Same(disk'.state, node)
      BY <3>1, <1>7 DEF Pending
    <3> QED
      BY <3>1, <3>2, <1>2 DEF VotesOK, Le, Same
  <2> QED
    BY <2>1, <2>2
<1> QED
  BY <1>1, <1>4, <1>5, <1>9, <1>10 DEF VotesInv

LEMMA CrashVotes ==
  ASSUME VotesInv, Crash
  PROVE  VotesInv'
<1>1. status' = "down" /\ promised' = promised
  BY DEF Crash
<1>2. IsDisk(disk') /\ disk'.state = disk.state
  <2>1. CASE disk' = disk
    BY <2>1 DEF VotesInv
  <2>2. CASE disk' \in CutAppends(disk, Head(writes))
    <3>1. PICK line : disk' = [disk EXCEPT !.lines = Append(Before(disk), line), !.unfinished = TRUE]
      BY <2>2 DEF CutAppends
    <3> QED
      BY <3>1 DEF VotesInv, IsDisk
  <2> QED
    BY <2>1, <2>2 DEF Crash
<1> QED
  BY <1>1, <1>2 DEF VotesInv

LEMMA RestartVotes ==
  ASSUME VotesInv, Restart
  PROVE  VotesInv'
<1>1. CASE status' = "failed"
  <2>1. disk' = disk /\ promised' = promised
    BY <1>1 DEF Restart, Run
  <2> QED
    BY <1>1, <2>1 DEF VotesInv
<1>2. CASE status' = "up"
  <2> DEFINE h == [node |-> Loaded(disk), writes |-> <<>>]
  <2>1. Run(maybeSnapshot(h))
    BY <1>2 DEF Restart
  <2>2. IsHandler(h) /\ IsNode(h.node) /\ Same(disk.state, h.node) /\ h.writes = <<>>
    BY DEF IsHandler, Loaded, IsNode, Same
  <2> HIDE DEF h
  <2>3. HandlerOK(disk.state, h)
    BY <2>2, EmptyIsSeq DEF VotesInv, HandlerOK, VotesOK, Pending, Le, Same
  <2>4. HandlerOK(disk.state, maybeSnapshot(h))
    BY <2>3, SnapshotVotes
  <2> QED
    BY <1>2, <2>1, <2>4, RunVotes DEF h
<1> QED
  BY <1>1, <1>2 DEF Restart

LEMMA HandlerVotes ==
  ASSUME VotesInv, NEW term \in 1..MaxTerm,
         \/ \E es \in Batches, c \in 0..Len(Chosen) : handleAppendEntries(term, es, c)
         \/ \E candidate \in Candidate, upToDate \in BOOLEAN :
              handleRequestVote(term, candidate, upToDate)
         \/ \E index \in 1..Len(Chosen) : handleInstallSnapshot(term, index)
  PROVE  VotesInv'
<1> DEFINE s == disk.state
           adopted == AdoptTerm(Start, term)
<1>1. Idle /\ status' = "up" /\ term \in Nat
  <2>1. Idle /\ status' = status
    BY DEF handleAppendEntries, handleRequestVote, handleInstallSnapshot
  <2> QED
    BY <2>1, PersistenceAssumption DEF Idle
<1>2. HandlerOK(s, adopted) /\ term <= adopted.node.currentTerm
  BY <1>1, StartVotes, AdoptVotes
<1>3. ASSUME NEW es \in Batches, NEW c \in 0..Len(Chosen), handleAppendEntries(term, es, c)
      PROVE  VotesInv'
  <2> DEFINE taken == IF es = <<>> THEN adopted ELSE TakeEntry(adopted, es[1])
             commit == Min({c, getLastIndex(taken.node.log)})
  <2>1. Run(IF c > node.commitIndex THEN CommitTo(taken, commit) ELSE taken)
    BY <1>3 DEF handleAppendEntries
  <2> HIDE DEF adopted
  <2>2. HandlerOK(s, taken)
    BY <1>2, TakeVotes
  <2> HIDE DEF taken, commit
  <2>3. HandlerOK(s, CommitTo(taken, commit))
    BY <2>2, CommitVotes
  <2> QED
    BY <1>1, <2>1, <2>2, <2>3, RunVotes
<1>4. ASSUME NEW candidate \in Candidate, NEW upToDate \in BOOLEAN,
             handleRequestVote(term, candidate, upToDate)
      PROVE  VotesInv'
  <2> DEFINE canVote == /\ term >= adopted.node.currentTerm
                        /\ adopted.node.votedFor \in {Nil, candidate}
                        /\ upToDate
  <2>1. Run(IF canVote THEN GrantVote(adopted, candidate) ELSE adopted)
    BY <1>4 DEF handleRequestVote
  <2> HIDE DEF adopted
  <2>2. canVote => HandlerOK(s, GrantVote(adopted, candidate))
    BY <1>2, GrantVotes
  <2> HIDE DEF canVote
  <2> QED
    BY <1>1, <1>2, <2>1, <2>2, RunVotes
<1>5. ASSUME NEW index \in 1..Len(Chosen), handleInstallSnapshot(term, index)
      PROVE  VotesInv'
  <2> DEFINE sn == [lastIncludedIndex |-> index, lastIncludedTerm |-> Chosen[index],
                    boards |-> BoardAt(index)]
  <2>1. Run(IF index <= node.commitIndex THEN adopted ELSE applySnapshot(adopted, sn))
    BY <1>5 DEF handleInstallSnapshot
  <2> HIDE DEF adopted, sn
  <2>2. HandlerOK(s, applySnapshot(adopted, sn))
    BY <1>2, InstallVotes
  <2> QED
    BY <1>1, <1>2, <2>1, <2>2, RunVotes
<1> QED
  BY <1>3, <1>4, <1>5

LEMMA VotesStep == VotesInv /\ [Next]_vars => VotesInv'
<1>1. ASSUME VotesInv, UNCHANGED vars PROVE VotesInv'
  BY <1>1 DEF VotesInv, vars
<1> QED
  BY <1>1, HandlerVotes, WriteVotes, CrashVotes, RestartVotes DEF Next

\* A term and a vote that a reply went out with are on disk in every later state,
\* for every cluster, every order of handlers and every crash: persistState runs
\* before handleRequestVote and the other handlers reply.
THEOREM VotesSurvive == Spec => []VotesDurable
<1>1. VotesInv => VotesDurable
  BY DEF VotesInv, VotesDurable, Le
<1> QED
  BY <1>1, VotesStart, VotesStep, PTL DEF Spec
-----------------------------------------------------------------------------
(* Entries, and the two filters.                                           *)

Entries == {Entry(n, t) : n \in 1..Len(Chosen), t \in 1..MaxTerm}

\* Entries one after the other behind the index b.
Numbered(es, b) == es \in Seq(Entries) /\ \A k \in 1..Len(es) : es[k].index = b + k

\* What is left of a sequence without its first m elements.
IsRest(r, es, m) == Len(r) = Len(es) - m /\ \A k \in 1..Len(r) : r[k] = es[m + k]

LEMMA EntryIs ==
  ASSUME NEW e \in Entries
  PROVE  /\ e.index \in 1..Len(Chosen) /\ e.term \in 1..MaxTerm
         /\ e.index \in Nat /\ e.term \in Nat /\ e.term >= 1
         /\ e = Entry(e.index, e.term)
         /\ e /= Torn
<1>1. PICK n \in 1..Len(Chosen), t \in 1..MaxTerm : e = Entry(n, t)
  BY DEF Entries
<1>2. e.index = n /\ e.term = t
  BY <1>1 DEF Entry
<1>3. Len(Chosen) \in Nat /\ MaxTerm \in Nat
  BY PersistenceAssumption
<1> QED
  BY <1>1, <1>2, <1>3, TornAssumption

LEMMA RestNumbered ==
  ASSUME NEW es, NEW b \in Nat, Numbered(es, b), NEW m \in 0..Len(es), NEW r,
         r \in Seq(Entries), IsRest(r, es, m)
  PROVE  Numbered(r, b + m)
<1>1. es \in Seq(Entries) /\ Len(es) \in Nat /\ Len(r) \in Nat
  BY DEF Numbered
<1>2. ASSUME NEW k \in 1..Len(r) PROVE r[k].index = (b + m) + k
  <2>1. m + k \in 1..Len(es) /\ r[k] = es[m + k]
    BY <1>1 DEF IsRest
  <2>2. es[m + k].index = b + (m + k)
    BY <2>1 DEF Numbered
  <2> QED
    BY <1>1, <2>1, <2>2
<1> QED
  BY <1>2 DEF Numbered

LEMMA RestsEqual ==
  ASSUME NEW S, NEW es \in Seq(S), NEW m \in 0..Len(es), NEW r \in Seq(S), NEW q \in Seq(S),
         IsRest(r, es, m), IsRest(q, es, m)
  PROVE  r = q
  BY SeqEqual DEF IsRest

LEMMA SubSeqIsRest ==
  ASSUME NEW S, NEW es \in Seq(S), NEW m \in 0..Len(es)
  PROVE  /\ SubSeq(es, m + 1, Len(es)) \in Seq(S)
         /\ IsRest(SubSeq(es, m + 1, Len(es)), es, m)
<1>1. Len(es) \in Nat /\ m \in Nat /\ m + 1 \in Nat /\ m + 1 >= 1
  BY LenProperties
<1> DEFINE r == SubSeq(es, m + 1, Len(es))
<1>2. r \in Seq(S) /\ Len(r) = Len(es) - m
  BY <1>1, StretchType
<1>3. \A k \in 1..Len(r) : r[k] = es[m + k]
  BY <1>1, <1>2
<1> QED
  BY <1>2, <1>3 DEF IsRest

\* The positions whose index lies behind i.
LEMMA BehindPositions ==
  ASSUME NEW es, NEW b \in Nat, Numbered(es, b), NEW i \in Nat, b <= i, i <= b + Len(es)
  PROVE  {k \in 1..Len(es) : es[k].index > i} = ((i - b) + 1)..Len(es)
<1>1. Len(es) \in Nat
  BY DEF Numbered
<1>2. \A k \in 1..Len(es) : es[k].index > i <=> k >= (i - b) + 1
  BY <1>1 DEF Numbered
<1> QED
  BY <1>1, <1>2

\* The filter of the constructor and of installSnapshot, on a log that reaches the
\* boundary or ends before it.
LEMMA AfterIs ==
  ASSUME NEW es, NEW b \in Nat, Numbered(es, b), NEW i \in Nat, b <= i
  PROVE  /\ EntriesAfter(es, i) \in Seq(Entries)
         /\ IF i <= b + Len(es) THEN IsRest(EntriesAfter(es, i), es, i - b)
                                ELSE EntriesAfter(es, i) = <<>>
<1> DEFINE kept == {k \in 1..Len(es) : es[k].index > i}
           r == EntriesAfter(es, i)
<1>1. Len(es) \in Nat /\ es \in Seq(Entries)
  BY DEF Numbered
<1>2. r = Filtered(es, kept)
  BY DEF EntriesAfter
<1>3. CASE i > b + Len(es)
  <2>1. \A k \in 1..Len(es) : es[k].index = b + k /\ ~(b + k > i)
    BY <1>1, <1>3 DEF Numbered
  <2>2. kept = {}
    BY <2>1
  <2>3. kept = (Len(es) + 1)..Len(es) /\ Len(es) \in 0..Len(es)
    BY <1>1, <2>2
  <2> HIDE DEF kept, r
  <2>4. r \in Seq(Entries) /\ Len(r) = Len(es) - Len(es)
    BY <1>1, <1>2, <2>3, FilteredRest
  <2>5. r \in Seq(Entries) /\ r = <<>>
    BY <1>1, <2>4, EmptySeq
  <2> QED
    BY <1>1, <1>3, <2>5 DEF r
<1>4. CASE i <= b + Len(es)
  <2> DEFINE m == i - b
  <2>1. m \in 0..Len(es) /\ kept = (m + 1)..Len(es)
    BY <1>1, <1>4, BehindPositions
  <2> HIDE DEF kept, m, r
  <2>2. /\ r = [j \in 1..(Len(es) - m) |-> es[m + j]]
        /\ r \in Seq(Entries) /\ Len(r) = Len(es) - m
    <3>1. Filtered(es, kept) = [j \in 1..(Len(es) - m) |-> es[m + j]]
      BY <1>1, <2>1, FilteredRest, ZenonT(60)
    <3>2. Filtered(es, kept) \in Seq(Entries) /\ Len(Filtered(es, kept)) = Len(es) - m
      BY <1>1, <2>1, FilteredRest
    <3> QED
      BY <1>2, <3>1, <3>2
  <2>3. IsRest(r, es, m)
    BY <2>2 DEF IsRest
  <2> QED
    BY <1>4, <2>2, <2>3 DEF r, m
<1> QED
  BY <1>1, <1>3, <1>4
-----------------------------------------------------------------------------
(* The files, and the log that the constructor makes of them.              *)

IsLog(l) == {"entries", "lastIncludedIndex", "lastIncludedTerm"} \subseteq DOMAIN l

LogOK(l) ==
  /\ IsLog(l)
  /\ l.lastIncludedIndex \in Nat
  /\ Numbered(l.entries, l.lastIncludedIndex)

\* The lines that parse follow an index that the snapshot covers, and reach it.
Behind(d, b) ==
  /\ b \in 0..d.snapshot.lastIncludedIndex
  /\ Numbered(loadLog(d), b)
  /\ d.snapshot.lastIncludedIndex <= b + Len(loadLog(d))

FilesOK(d) ==
  /\ IsDisk(d)
  /\ d.snapshot.lastIncludedIndex \in Nat
  /\ d.lines \in Seq(Entries \cup {Torn})
  /\ \A k \in 1..Len(d.lines) : d.lines[k] = Torn => k = Len(d.lines) /\ d.unfinished
  /\ \E b \in Nat : Behind(d, b)

LEMMA LogFields ==
  ASSUME NEW l, LogOK(l)
  PROVE  /\ l.lastIncludedIndex \in Nat
         /\ l.entries \in Seq(Entries)
         /\ Len(l.entries) \in Nat
         /\ getLastIndex(l) = l.lastIncludedIndex + Len(l.entries)
         /\ getLastIndex(l) \in Nat
  BY DEF LogOK, Numbered, getLastIndex

LEMMA LoadedLog ==
  ASSUME NEW d
  PROVE  /\ IsLog(Loaded(d).log)
         /\ Loaded(d).log.entries = EntriesAfter(loadLog(d), d.snapshot.lastIncludedIndex)
         /\ Loaded(d).log.lastIncludedIndex = d.snapshot.lastIncludedIndex
         /\ Loaded(d).log.lastIncludedTerm = d.snapshot.lastIncludedTerm
  BY DEF Loaded, IsLog

LEMMA LoadedBehind ==
  ASSUME NEW d, FilesOK(d), NEW b \in Nat, Behind(d, b)
  PROVE  /\ Loaded(d).log.entries \in Seq(Entries)
         /\ IsRest(Loaded(d).log.entries, loadLog(d), d.snapshot.lastIncludedIndex - b)
         /\ d.snapshot.lastIncludedIndex - b \in 0..Len(loadLog(d))
         /\ LogOK(Loaded(d).log)
<1> DEFINE i == d.snapshot.lastIncludedIndex
           es == loadLog(d)
           r == Loaded(d).log.entries
<1>1. i \in Nat /\ Numbered(es, b) /\ b <= i /\ i <= b + Len(es)
  BY DEF FilesOK, Behind
<1>2. r = EntriesAfter(es, i) /\ Loaded(d).log.lastIncludedIndex = i /\ IsLog(Loaded(d).log)
  BY LoadedLog
<1>3. Len(es) \in Nat
  BY <1>1 DEF Numbered
<1> HIDE DEF i, es, r
<1>4. r \in Seq(Entries) /\ IsRest(r, es, i - b) /\ i - b \in 0..Len(es)
  BY <1>1, <1>2, <1>3, AfterIs
<1>5. Numbered(r, b + (i - b)) /\ b + (i - b) = i
  BY <1>1, <1>4, RestNumbered
<1> QED
  BY <1>1, <1>2, <1>4, <1>5 DEF LogOK, i, es, r

LEMMA LoadedOK ==
  ASSUME NEW d, FilesOK(d)
  PROVE  LogOK(Loaded(d).log) /\ Loaded(d).log.lastIncludedIndex = d.snapshot.lastIncludedIndex
  BY LoadedBehind, LoadedLog DEF FilesOK

LEMMA Whole ==
  ASSUME NEW d, d.lines \in Seq(Entries)
  PROVE  loadLog(d) = d.lines
<1>1. d.lines /= <<>> => d.lines[Len(d.lines)] \in Entries
  <2>1. d.lines /= <<>> => Len(d.lines) \in 1..Len(d.lines)
    <3> DEFINE s == d.lines
    <3>1. s \in Seq(Entries)
      OBVIOUS
    <3> HIDE DEF s
    <3>2. s /= <<>> => Len(s) \in 1..Len(s)
      BY <3>1
    <3> QED
      BY <3>2 DEF s
  <2> QED
    BY <2>1, ElementOfSeq
<1> QED
  BY <1>1, EntryIs DEF loadLog, Last

\* Where the last line is finished every line is an entry.
LEMMA Finished ==
  ASSUME NEW d, FilesOK(d), ~d.unfinished
  PROVE  d.lines \in Seq(Entries) /\ loadLog(d) = d.lines
<1>1. \A k \in 1..Len(d.lines) : d.lines[k] \in Entries
  <2> TAKE k \in 1..Len(d.lines)
  <2>1. d.lines[k] \in Entries \cup {Torn} /\ d.lines[k] /= Torn
    BY ElementOfSeq DEF FilesOK
  <2> QED
    BY <2>1
<1>2. d.lines \in Seq(Entries)
  <2> DEFINE s == d.lines
  <2>1. s \in Seq(Entries \cup {Torn})
    BY DEF FilesOK
  <2>2. \A k \in 1..Len(s) : s[k] \in Entries
    BY <1>1
  <2> HIDE DEF s
  <2>3. s \in Seq(Entries)
    BY <2>1, <2>2
  <2> QED
    BY <2>3 DEF s
<1> QED
  BY <1>2, Whole

\* Files with the same lines and the same snapshot.
LEMMA StateFiles ==
  ASSUME NEW d, FilesOK(d), NEW e, IsDisk(e), e.lines = d.lines, e.snapshot = d.snapshot,
         d.unfinished => e.unfinished
  PROVE  FilesOK(e) /\ Loaded(e).log = Loaded(d).log
<1>1. loadLog(e) = loadLog(d)
  BY DEF loadLog
<1> QED
  BY <1>1 DEF FilesOK, Behind, Loaded

\* Files with a log of their own, that starts behind the snapshot.
LEMMA RewriteFiles ==
  ASSUME NEW e, IsDisk(e), e.snapshot.lastIncludedIndex \in Nat,
         Numbered(e.lines, e.snapshot.lastIncludedIndex)
  PROVE  FilesOK(e) /\ Loaded(e).log.entries = e.lines
<1> DEFINE i == e.snapshot.lastIncludedIndex
           es == e.lines
<1>1. i \in Nat /\ Numbered(es, i) /\ es \in Seq(Entries) /\ Len(es) \in Nat
  BY DEF Numbered
<1>2. loadLog(e) = es
  BY <1>1, Whole
<1>3. Behind(e, i)
  BY <1>1, <1>2 DEF Behind
<1>4. \A k \in 1..Len(es) : es[k] /= Torn
  BY <1>1, ElementOfSeq, EntryIs
<1>5. es \in Seq(Entries \cup {Torn})
  BY <1>1, SeqMonotonic
<1>6. FilesOK(e)
  BY <1>1, <1>3, <1>4, <1>5 DEF FilesOK
<1> DEFINE r == Loaded(e).log.entries
<1>7. r \in Seq(Entries) /\ IsRest(r, es, i - i)
  BY <1>1, <1>2, <1>3, <1>6, LoadedBehind
<1> HIDE DEF r, i, es
<1>8. r = es
  <2>1. Len(r) = Len(es) /\ \A k \in 1..Len(r) : r[k] = es[k]
    BY <1>1, <1>7 DEF IsRest
  <2> QED
    BY <1>1, <1>7, <2>1, SeqEqual
<1> QED
  BY <1>6, <1>8 DEF r, es

\* Files whose snapshot has moved on over entries that the log has.
LEMMA SnapshotFiles ==
  ASSUME NEW d, FilesOK(d), NEW e, IsDisk(e), e.lines = d.lines, e.unfinished = d.unfinished,
         e.snapshot.lastIncludedIndex \in Nat,
         d.snapshot.lastIncludedIndex <= e.snapshot.lastIncludedIndex,
         e.snapshot.lastIncludedIndex <= getLastIndex(Loaded(d).log)
  PROVE  /\ FilesOK(e)
         /\ IsRest(Loaded(e).log.entries, Loaded(d).log.entries,
                   e.snapshot.lastIncludedIndex - d.snapshot.lastIncludedIndex)
<1> DEFINE i == d.snapshot.lastIncludedIndex
           j == e.snapshot.lastIncludedIndex
           es == loadLog(d)
           r == Loaded(d).log.entries
           q == Loaded(e).log.entries
<1>1. PICK b \in Nat : Behind(d, b)
  BY DEF FilesOK
<1>2. /\ i \in Nat /\ j \in Nat /\ i <= j /\ b <= i /\ i <= b + Len(es)
      /\ Numbered(es, b) /\ Len(es) \in Nat
  BY <1>1 DEF FilesOK, Behind, Numbered
<1>3. r \in Seq(Entries) /\ IsRest(r, es, i - b) /\ Len(r) \in Nat
  BY <1>1, LoadedBehind
<1>4. j <= i + Len(r)
  BY LoadedLog DEF getLastIndex
<1>5. loadLog(e) = es
  BY DEF loadLog
<1>6. Behind(e, b)
  <2> HIDE DEF i, j, es, r
  <2>1. b \in 0..j /\ j <= b + Len(es)
    BY <1>2, <1>3, <1>4 DEF IsRest
  <2> QED
    BY <1>2, <1>5, <2>1 DEF Behind, j
<1>7. FilesOK(e)
  BY <1>6 DEF FilesOK
<1>8. IsRest(q, es, j - b) /\ q \in Seq(Entries)
  BY <1>5, <1>6, <1>7, LoadedBehind
<1> HIDE DEF i, j, es, r, q
<1>9. IsRest(q, r, j - i)
  <2>1. Len(q) = Len(r) - (j - i)
    BY <1>2, <1>3, <1>8 DEF IsRest
  <2>2. ASSUME NEW k \in 1..Len(q) PROVE q[k] = r[(j - i) + k]
    <3>1. q[k] = es[(j - b) + k]
      BY <1>8 DEF IsRest
    <3>2. (j - i) + k \in 1..Len(r)
      BY <1>2, <1>3, <1>8, <2>1
    <3>3. r[(j - i) + k] = es[(i - b) + ((j - i) + k)]
      BY <1>3, <3>2 DEF IsRest
    <3>4. (i - b) + ((j - i) + k) = (j - b) + k
      BY <1>2, <1>8
    <3> QED
      BY <3>1, <3>3, <3>4
  <2> QED
    BY <2>1, <2>2 DEF IsRest
<1> QED
  BY <1>7, <1>9 DEF i, j, r, q

\* Files with one more entry.
LEMMA AppendFiles ==
  ASSUME NEW d, FilesOK(d), ~d.unfinished, NEW x \in Entries,
         x.index = getLastIndex(Loaded(d).log) + 1,
         NEW e, IsDisk(e), e.lines = Append(d.lines, x), e.snapshot = d.snapshot
  PROVE  FilesOK(e) /\ Loaded(e).log.entries = Append(Loaded(d).log.entries, x)
<1> DEFINE i == d.snapshot.lastIncludedIndex
           es == d.lines
           fs == Append(es, x)
           r == Loaded(d).log.entries
           q == Loaded(e).log.entries
<1>1. PICK b \in Nat : Behind(d, b)
  BY DEF FilesOK
<1>2. loadLog(d) = es /\ es \in Seq(Entries) /\ Len(es) \in Nat
  BY Finished
<1>3. i \in Nat /\ b <= i /\ i <= b + Len(es) /\ Numbered(es, b)
  BY <1>1, <1>2 DEF FilesOK, Behind
<1>4. r \in Seq(Entries) /\ IsRest(r, es, i - b) /\ Len(r) \in Nat
  BY <1>1, <1>2, LoadedBehind
<1>5. x.index = i + Len(r) + 1
  BY LoadedLog, <1>3, <1>4 DEF getLastIndex
<1>6. e.lines = fs /\ e.snapshot.lastIncludedIndex = i
  OBVIOUS
<1> HIDE DEF es, r
<1>7. /\ fs \in Seq(Entries) /\ Len(fs) = Len(es) + 1
      /\ \A k \in 1..Len(es) : fs[k] = es[k]
      /\ fs[Len(es) + 1] = x
  BY <1>2
<1> HIDE DEF i, q
<1>8. Numbered(fs, b)
  <2>1. Len(es) + 1 = (i - b) + Len(r) + 1
    BY <1>2, <1>3, <1>4 DEF IsRest
  <2>2. x.index = b + (Len(es) + 1)
    BY <2>1, <1>2, <1>3, <1>4, <1>5
  <2> HIDE DEF fs
  <2>3. \A k \in 1..Len(fs) : fs[k].index = b + k
    <3>1. \A k \in 1..Len(es) : es[k].index = b + k
      BY <1>3 DEF Numbered
    <3>2. \A k \in 1..Len(fs) : k \in 1..Len(es) \/ k = Len(es) + 1
      BY <1>2, <1>7
    <3> QED
      BY <1>7, <2>2, <3>1, <3>2
  <2> QED
    BY <1>7, <2>3 DEF Numbered
<1> HIDE DEF fs
<1>9. loadLog(e) = fs
  BY <1>6, <1>7, Whole
<1>10. Behind(e, b)
  BY <1>2, <1>3, <1>6, <1>7, <1>8, <1>9 DEF Behind
<1>11. FilesOK(e)
  <2>1. \A k \in 1..Len(fs) : fs[k] /= Torn
    BY <1>7, ElementOfSeq, EntryIs
  <2>2. fs \in Seq(Entries \cup {Torn})
    BY <1>7, SeqMonotonic
  <2> QED
    BY <1>3, <1>6, <1>10, <2>1, <2>2 DEF FilesOK
<1>12. q \in Seq(Entries) /\ IsRest(q, fs, i - b)
  BY <1>6, <1>9, <1>10, <1>11, LoadedBehind DEF q
<1>13. q = Append(r, x)
  <2>1. /\ Append(r, x) \in Seq(Entries) /\ Len(Append(r, x)) = Len(r) + 1
        /\ \A k \in 1..Len(r) : Append(r, x)[k] = r[k]
        /\ Append(r, x)[Len(r) + 1] = x
    BY <1>4
  <2>2. Len(q) = Len(r) + 1 /\ Len(es) = (i - b) + Len(r)
    BY <1>2, <1>3, <1>4, <1>7, <1>12 DEF IsRest
  <2>3. ASSUME NEW k \in 1..Len(r) PROVE q[k] = r[k]
    <3>1. r[k] = es[(i - b) + k] /\ q[k] = fs[(i - b) + k]
      BY <1>4, <1>12, <2>2, SMTT(60) DEF IsRest
    <3>2. (i - b) + k \in 1..Len(es)
      BY <1>2, <1>3, <1>4, <2>2
    <3> QED
      BY <1>7, <3>1, <3>2
  <2>4. q[Len(r) + 1] = x
    <3>1. q[Len(r) + 1] = fs[(i - b) + (Len(r) + 1)]
      BY <1>4, <1>12, <2>2 DEF IsRest
    <3>2. (i - b) + (Len(r) + 1) = Len(es) + 1
      BY <1>3, <1>4, <2>2
    <3> QED
      BY <1>7, <3>1, <3>2
  <2>5. \A k \in 1..Len(q) : q[k] = Append(r, x)[k]
    BY <1>4, <2>1, <2>2, <2>3, <2>4
  <2> QED
    BY <1>12, <2>1, <2>2, <2>5, SeqEqual
<1> QED
  BY <1>11, <1>13 DEF q, r

\* Files whose last line was cut short.
LEMMA TornFiles ==
  ASSUME NEW d, FilesOK(d), ~d.unfinished, NEW e, IsDisk(e),
         e.lines = Append(d.lines, Torn), e.unfinished, e.snapshot = d.snapshot
  PROVE  FilesOK(e) /\ Loaded(e).log = Loaded(d).log
<1> DEFINE es == d.lines
           fs == Append(es, Torn)
<1>1. es \in Seq(Entries) /\ loadLog(d) = es /\ Len(es) \in Nat
  BY Finished
<1>2. es \in Seq(Entries \cup {Torn})
  BY <1>1, SeqMonotonic
<1>3. e.lines = fs
  OBVIOUS
<1> HIDE DEF es
<1>4. /\ fs \in Seq(Entries \cup {Torn}) /\ Len(fs) = Len(es) + 1 /\ fs /= <<>>
      /\ \A k \in 1..Len(es) : fs[k] = es[k]
      /\ fs[Len(es) + 1] = Torn
  BY <1>1, <1>2
<1> HIDE DEF fs
<1>5. loadLog(e) = es
  <2>1. loadLog(e) = SubSeq(fs, 1, Len(es))
    BY <1>1, <1>3, <1>4 DEF loadLog, Last, Front
  <2>2. /\ SubSeq(fs, 1, Len(es)) \in Seq(Entries \cup {Torn})
        /\ Len(SubSeq(fs, 1, Len(es))) = Len(es)
        /\ \A k \in 1..Len(es) : SubSeq(fs, 1, Len(es))[k] = fs[k]
    BY <1>1, <1>4
  <2> QED
    BY <1>2, <1>4, <2>1, <2>2, SeqEqual
<1>6. \A k \in 1..Len(fs) : fs[k] = Torn => k = Len(fs)
  BY <1>1, <1>4, ElementOfSeq, EntryIs
<1>7. FilesOK(e)
  BY <1>1, <1>3, <1>4, <1>5, <1>6 DEF FilesOK, Behind
<1>8. Loaded(e).log = Loaded(d).log
  BY <1>1, <1>5 DEF Loaded
<1> QED
  BY <1>7, <1>8
-----------------------------------------------------------------------------
(* What a restart would find, against the memory (n) and what was promised *)
(* (p).                                                                    *)

Commit(d) == Max({d.state.commitIndex, d.snapshot.lastIncludedIndex})

NodeOK(n) ==
  /\ IsNode(n) /\ LogOK(n.log)
  /\ n.commitIndex \in Nat /\ n.commitIndex <= Len(Chosen)
  /\ n.log.lastIncludedIndex <= n.commitIndex
  /\ Agrees(n.log, n.commitIndex)
  /\ n.board = BoardAt(n.commitIndex)

DiskOK(d) ==
  /\ FilesOK(d)
  /\ d.state.commitIndex \in Nat
  /\ Commit(d) <= Len(Chosen)
  /\ d.snapshot.boards = BoardAt(d.snapshot.lastIncludedIndex)
  /\ Agrees(Loaded(d).log, Commit(d))

\* The entries of the log p are in the log l, but for those the log m has not.
Kept(l, p, m) ==
  \A i \in (l.lastIncludedIndex + 1)..getLastIndex(p) :
    \/ i <= getLastIndex(l) /\ getEntry(l, i).term = getEntry(p, i).term
    \/ getTermAt(m, i) /= getEntry(p, i).term

Point(d, p, n) ==
  /\ DiskOK(d)
  /\ p.commitIndex <= Commit(d)
  /\ p.log.lastIncludedIndex <= d.snapshot.lastIncludedIndex
  /\ Kept(Loaded(d).log, p.log, n.log)

\* A restart would find the memory.
Match(d, n) ==
  /\ Loaded(d).log.entries = n.log.entries
  /\ d.snapshot.lastIncludedIndex = n.log.lastIncludedIndex
  /\ Commit(d) = n.commitIndex

LEMMA CommitIs ==
  ASSUME NEW d, d.state.commitIndex \in Nat, d.snapshot.lastIncludedIndex \in Nat
  PROVE  Commit(d) = IF d.state.commitIndex >= d.snapshot.lastIncludedIndex
                     THEN d.state.commitIndex ELSE d.snapshot.lastIncludedIndex
<1> DEFINE a == d.state.commitIndex
           b == d.snapshot.lastIncludedIndex
<1>1. a \in Nat /\ b \in Nat /\ Commit(d) = Max({a, b})
  BY DEF Commit
<1> HIDE DEF a, b
<1>2. {a, b} \subseteq 0..(a + b) /\ {a, b} /= {} /\ a + b \in Nat
  BY <1>1
<1>3. Max({a, b}) \in {a, b} /\ \A y \in {a, b} : y <= Max({a, b})
  BY <1>2, MaxInSet
<1>4. Max({a, b}) = IF a >= b THEN a ELSE b
  BY <1>1, <1>3
<1> QED
  BY <1>1, <1>4 DEF a, b

LEMMA SameAgrees ==
  ASSUME NEW l, NEW k, NEW c, l.entries = k.entries,
         l.lastIncludedIndex = k.lastIncludedIndex, Agrees(k, c)
  PROVE  Agrees(l, c)
  BY DEF Agrees, getLastIndex, getEntry

\* The fields that a write leaves.
LEMMA WrittenState ==
  ASSUME NEW d, IsDisk(d), NEW x, x.file = "state"
  PROVE  /\ IsDisk(Written(d, x)) /\ Written(d, x).state = x.value
         /\ Written(d, x).snapshot = d.snapshot /\ Written(d, x).lines = d.lines
         /\ Written(d, x).unfinished = d.unfinished
  BY DEF Written, IsDisk

LEMMA WrittenSnapshot ==
  ASSUME NEW d, IsDisk(d), NEW x, x.file = "snapshot"
  PROVE  /\ IsDisk(Written(d, x)) /\ Written(d, x).state = d.state
         /\ Written(d, x).snapshot = x.value /\ Written(d, x).lines = d.lines
         /\ Written(d, x).unfinished = d.unfinished
  BY DEF Written, IsDisk

LEMMA WrittenLog ==
  ASSUME NEW d, IsDisk(d), NEW x, x.file = "rewrite"
  PROVE  /\ IsDisk(Written(d, x)) /\ Written(d, x).state = d.state
         /\ Written(d, x).snapshot = d.snapshot /\ Written(d, x).lines = x.value
  BY DEF Written, IsDisk

LEMMA WrittenEntry ==
  ASSUME NEW d, IsDisk(d), ~d.unfinished, NEW x, x.file = "append"
  PROVE  /\ IsDisk(Written(d, x)) /\ Written(d, x).state = d.state
         /\ Written(d, x).snapshot = d.snapshot /\ Written(d, x).lines = Append(d.lines, x.value)
  BY DEF Written, IsDisk, Before

-----------------------------------------------------------------------------
(* The files after each write that is still to come.                       *)

Path(D, d, w) == D[0] = d /\ \A k \in 1..Len(w) : D[k] = Written(D[k - 1], w[k])

\* None of the first k writes is an append behind an unfinished line.
Clean(D, w, k) == \A j \in 1..k : ~(w[j].file = "append" /\ D[j - 1].unfinished)

Plain(w) == \A k \in 1..Len(w) : w[k].file /= "snapshot"

Stage(D, d, w, p, n) ==
  /\ Path(D, d, w)
  /\ \A k \in 0..Len(w) : Clean(D, w, k) => Point(D[k], p, n)
  /\ Clean(D, w, Len(w)) => Match(D[Len(w)], n)

\* One more write, of another memory.
LEMMA Extend ==
  ASSUME NEW D, NEW d, NEW w, NEW p, NEW n, NEW x, NEW m,
         IsSeq(w), Stage(D, d, w, p, n),
         \A e : Point(e, p, n) => Point(e, p, m),
         \A e : Point(e, p, m) /\ Match(e, n) /\ ~(x.file = "append" /\ e.unfinished)
                  => Point(Written(e, x), p, m) /\ Match(Written(e, x), m)
  PROVE  \E C : Stage(C, d, Append(w, x), p, m)
<1> DEFINE v == Append(w, x)
           N == Len(w)
           C == [k \in 0..(N + 1) |-> IF k <= N THEN D[k] ELSE Written(D[N], x)]
<1>1. /\ N \in Nat /\ Len(v) = N + 1
      /\ \A k \in 1..N : v[k] = w[k]
      /\ v[N + 1] = x
  BY AppendAny
<1> HIDE DEF v, N
<1>2. (\A k \in 0..N : C[k] = D[k]) /\ C[N + 1] = Written(D[N], x)
  BY <1>1
<1> HIDE DEF C
<1>3. Path(C, d, v)
  <2>1. C[0] = d
    BY <1>1, <1>2 DEF Stage, Path
  <2>2. ASSUME NEW k \in 1..Len(v) PROVE C[k] = Written(C[k - 1], v[k])
    <3>1. CASE k \in 1..N
      BY <3>1, <1>1, <1>2 DEF Stage, Path, N
    <3>2. CASE k = N + 1
      BY <3>2, <1>1, <1>2
    <3> QED
      BY <3>1, <3>2, <1>1
  <2> QED
    BY <2>1, <2>2 DEF Path
<1>4. \A k \in 0..N : Clean(C, v, k) => Clean(D, w, k)
  BY <1>1, <1>2 DEF Clean
<1>5. \A k \in 0..N : Clean(C, v, k) => Point(C[k], p, m)
  BY <1>2, <1>4 DEF Stage, N
<1>6. Clean(C, v, N + 1) => Point(C[N + 1], p, m) /\ Match(C[N + 1], m)
  <2> SUFFICES ASSUME Clean(C, v, N + 1) PROVE Point(C[N + 1], p, m) /\ Match(C[N + 1], m)
    OBVIOUS
  <2>1. Clean(C, v, N) /\ ~(x.file = "append" /\ D[N].unfinished)
    BY <1>1, <1>2 DEF Clean
  <2>2. Match(D[N], n)
    BY <1>1, <1>4, <2>1 DEF Stage, N
  <2>3. Point(D[N], p, m)
    BY <1>1, <1>2, <1>5, <2>1
  <2> QED
    BY <1>2, <2>1, <2>2, <2>3
<1>7. \A k \in 0..Len(v) : Clean(C, v, k) => Point(C[k], p, m)
  BY <1>1, <1>5, <1>6
<1>8. Stage(C, d, v, p, m)
  BY <1>1, <1>3, <1>6, <1>7 DEF Stage
<1> QED
  BY <1>8 DEF v

Good(h, d, p) ==
  /\ IsHandler(h) /\ IsSeq(h.writes) /\ Plain(h.writes)
  /\ NodeOK(h.node)
  /\ \E D : Stage(D, d, h.writes, p, h.node)

\* The state is saved, of a memory that has the same log.
LEMMA GoodState ==
  ASSUME NEW h, NEW d, NEW p, Good(h, d, p), NEW m, NodeOK(m), m.log = h.node.log,
         h.node.commitIndex <= m.commitIndex, p.commitIndex \in Nat
  PROVE  /\ Good(Issue([h EXCEPT !.node = m], saveState(m)), d, p)
         /\ Issue([h EXCEPT !.node = m], saveState(m)).node = m
<1> DEFINE x == saveState(m)
           g == Issue([h EXCEPT !.node = m], x)
           n == h.node
<1>1. x.file = "state" /\ x.value.commitIndex = m.commitIndex
  BY DEF saveState
<1>2. /\ LogOK(m.log) /\ m.commitIndex \in Nat /\ m.commitIndex <= Len(Chosen)
      /\ m.log.lastIncludedIndex <= m.commitIndex /\ Agrees(m.log, m.commitIndex)
      /\ n.log = m.log /\ n.commitIndex \in Nat /\ n.commitIndex <= m.commitIndex
  BY DEF NodeOK, Good
<1> HIDE DEF x
<1>3. IsHandler(g) /\ g.node = m /\ g.writes = Append(h.writes, x)
  BY DEF Good, IsHandler, Issue
<1> HIDE DEF g, n
<1>4. \A e : Point(e, p, n) => Point(e, p, m)
  BY <1>2 DEF Point
<1>5. ASSUME NEW e, Point(e, p, m), Match(e, n)
      PROVE  Point(Written(e, x), p, m) /\ Match(Written(e, x), m)
  <2> DEFINE f == Written(e, x)
             i == e.snapshot.lastIncludedIndex
  <2>1. FilesOK(e) /\ IsDisk(e) /\ i \in Nat /\ e.snapshot.boards = BoardAt(i)
    BY <1>5 DEF Point, DiskOK, FilesOK
  <2>2. /\ IsDisk(f) /\ f.state = x.value /\ f.snapshot = e.snapshot /\ f.lines = e.lines
        /\ f.unfinished = e.unfinished
    BY <1>1, <2>1, WrittenState
  <2> HIDE DEF f
  <2>3. FilesOK(f) /\ Loaded(f).log = Loaded(e).log
    BY <2>1, <2>2, StateFiles
  <2>4. /\ Loaded(e).log.entries = m.log.entries /\ i = m.log.lastIncludedIndex
        /\ Commit(e) = n.commitIndex
        /\ Loaded(e).log.lastIncludedIndex = i
    BY <1>2, <1>5, LoadedLog DEF Match
  <2>5. Commit(f) = m.commitIndex
    BY <1>1, <1>2, <2>1, <2>2, <2>4, CommitIs
  <2>6. Agrees(Loaded(f).log, m.commitIndex)
    BY <1>2, <2>3, <2>4, SameAgrees
  <2>7. DiskOK(f)
    BY <1>1, <1>2, <2>1, <2>2, <2>3, <2>5, <2>6 DEF DiskOK
  <2>8. p.commitIndex <= m.commitIndex
    BY <1>2, <1>5, <2>4 DEF Point
  <2>9. Point(f, p, m) /\ Match(f, m)
    BY <1>5, <2>2, <2>3, <2>4, <2>5, <2>7, <2>8 DEF Point, Match
  <2> QED
    BY <2>9 DEF f
<1>6. PICK D : Stage(D, d, h.writes, p, n)
  BY DEF Good, n
<1>7. \E C : Stage(C, d, Append(h.writes, x), p, m)
  BY <1>4, <1>5, <1>6, Extend DEF Good
<1>8. IsSeq(Append(h.writes, x)) /\ Plain(Append(h.writes, x))
  BY <1>1, AppendAny DEF Good, Plain
<1>9. Good(g, d, p)
  BY <1>3, <1>7, <1>8 DEF Good
<1> QED
  BY <1>3, <1>9 DEF g, x
-----------------------------------------------------------------------------
(* The parts of a handler, again.                                          *)

LEMMA AdoptGood ==
  ASSUME NEW h, NEW d, NEW p, Good(h, d, p), p.commitIndex \in Nat, NEW term
  PROVE  /\ Good(AdoptTerm(h, term), d, p)
         /\ AdoptTerm(h, term).node.log = h.node.log
         /\ AdoptTerm(h, term).node.commitIndex = h.node.commitIndex
<1>1. CASE term <= h.node.currentTerm
  BY <1>1 DEF AdoptTerm
<1>2. CASE ~(term <= h.node.currentTerm)
  <2> DEFINE m == [h.node EXCEPT !.currentTerm = term, !.votedFor = Nil]
             g == Issue([h EXCEPT !.node = m], saveState(m))
  <2>1. AdoptTerm(h, term) = g
    BY <1>2 DEF AdoptTerm
  <2>2. NodeOK(h.node)
    BY DEF Good
  <2>3. /\ IsNode(m) /\ m.log = h.node.log /\ m.commitIndex = h.node.commitIndex
        /\ m.board = h.node.board
    BY <2>2 DEF NodeOK, IsNode
  <2> HIDE DEF m
  <2>4. NodeOK(m) /\ h.node.commitIndex <= m.commitIndex
    BY <2>2, <2>3 DEF NodeOK
  <2>5. Good(g, d, p) /\ g.node = m
    BY <2>3, <2>4, GoodState
  <2> HIDE DEF g
  <2> QED
    BY <2>1, <2>3, <2>5
<1> QED
  BY <1>1, <1>2

LEMMA GrantGood ==
  ASSUME NEW h, NEW d, NEW p, Good(h, d, p), p.commitIndex \in Nat, NEW c
  PROVE  Good(GrantVote(h, c), d, p)
<1> DEFINE m == [h.node EXCEPT !.votedFor = c]
           g == Issue([h EXCEPT !.node = m], saveState(m))
<1>1. GrantVote(h, c) = g
  BY DEF GrantVote
<1>2. NodeOK(h.node)
  BY DEF Good
<1>3. /\ IsNode(m) /\ m.log = h.node.log /\ m.commitIndex = h.node.commitIndex
      /\ m.board = h.node.board
  BY <1>2 DEF NodeOK, IsNode
<1> HIDE DEF m
<1>4. NodeOK(m) /\ h.node.commitIndex <= m.commitIndex
  BY <1>2, <1>3 DEF NodeOK
<1>5. Good(g, d, p)
  BY <1>3, <1>4, GoodState
<1> QED
  BY <1>1, <1>5

\* The strokes that are applied are the ones the cluster agrees on.
Strokes == Nat \X (1..MaxTerm)

LEMMA BoardIs ==
  ASSUME NEW c \in Nat, c <= Len(Chosen)
  PROVE  /\ BoardAt(c) \in Seq(Strokes)
         /\ Len(BoardAt(c)) = c
         /\ \A k \in 1..c : BoardAt(c)[k] = <<k, Chosen[k]>>
<1>1. \A k \in 1..c : <<k, Chosen[k]>> \in Strokes
  <2> TAKE k \in 1..c
  <2>1. k \in 1..Len(Chosen) /\ k \in Nat
    BY PersistenceAssumption
  <2>2. Chosen[k] \in 1..MaxTerm
    BY <2>1, PersistenceAssumption, ElementOfSeq
  <2> QED
    BY <2>1, <2>2 DEF Strokes
<1>2. BoardAt(c) = [k \in 1..c |-> <<k, Chosen[k]>>]
  BY DEF BoardAt
<1> DEFINE s == BoardAt(c)
           v(k) == <<k, Chosen[k]>>
<1>3. s = [k \in 1..c |-> v(k)] /\ \A k \in 1..c : v(k) \in Strokes
  BY <1>1, <1>2
<1> HIDE DEF s, v
<1>4. s \in Seq(Strokes) /\ Len(s) = c /\ \A k \in 1..c : s[k] = v(k)
  BY <1>3
<1> QED
  BY <1>4 DEF s, v

LEMMA AppliedIs ==
  ASSUME NEW l, l.lastIncludedIndex \in Nat, getLastIndex(l) \in Nat, NEW a \in Nat, NEW c \in Nat,
         l.lastIncludedIndex <= a, a <= c, c <= Len(Chosen), Agrees(l, c)
  PROVE  BoardAt(a) \o Applied(l, a + 1, c) = BoardAt(c)
<1> DEFINE last == Min({c, getLastIndex(l)})
           ap == Applied(l, a + 1, c)
           x == BoardAt(a)
           y == BoardAt(c)
           v(k) == <<a + k, Chosen[a + k]>>
<1>1. last = c
  BY MinOfTwo DEF Agrees
<1>2. ap = [k \in 1..(last - (a + 1) + 1) |-> getEntry(l, (a + 1) + k - 1).stroke]
  BY DEF Applied
<1>3. last - (a + 1) + 1 = c - a /\ c - a \in Nat
  BY <1>1
<1>4. ASSUME NEW k \in 1..(c - a) PROVE getEntry(l, (a + 1) + k - 1).stroke = v(k)
  <2>1. (a + 1) + k - 1 = a + k /\ a + k \in (l.lastIncludedIndex + 1)..c
    BY <1>3
  <2> QED
    BY <2>1 DEF Agrees, Entry
<1> HIDE DEF ap, last
<1>5. ap = [k \in 1..(c - a) |-> v(k)]
  BY <1>2, <1>3, <1>4
<1>6. a <= Len(Chosen)
  BY PersistenceAssumption
<1>7. /\ x \in Seq(Strokes) /\ Len(x) = a /\ \A k \in 1..a : x[k] = <<k, Chosen[k]>>
      /\ y \in Seq(Strokes) /\ Len(y) = c /\ \A k \in 1..c : y[k] = <<k, Chosen[k]>>
  BY <1>6, BoardIs
<1> HIDE DEF x, y
<1>8. \A k \in 1..(c - a) : v(k) \in Strokes
  <2> TAKE k \in 1..(c - a)
  <2>1. a + k \in 1..c
    BY <1>3
  <2>2. y[a + k] = v(k)
    BY <1>7, <2>1
  <2> HIDE DEF v
  <2> QED
    BY <1>7, <2>1, <2>2, ElementOfSeq
<1> HIDE DEF v
<1>9. ap \in Seq(Strokes) /\ Len(ap) = c - a
  <2> DEFINE N == c - a
  <2>1. N \in Nat /\ ap = [k \in 1..N |-> v(k)] /\ \A k \in 1..N : v(k) \in Strokes
    BY <1>3, <1>5, <1>8
  <2> HIDE DEF N
  <2>2. ap \in Seq(Strokes) /\ Len(ap) = N
    BY <2>1
  <2> QED
    BY <2>2 DEF N
<1>10. /\ x \o ap \in Seq(Strokes) /\ Len(x \o ap) = Len(x) + Len(ap)
       /\ \A k \in 1..(Len(x) + Len(ap)) :
            (x \o ap)[k] = IF k <= Len(x) THEN x[k] ELSE ap[k - Len(x)]
  <2>1. x \in Seq(Strokes) /\ ap \in Seq(Strokes)
    BY <1>7, <1>9
  <2> QED
    BY <2>1, ConcatProperties
<1>13. Len(x \o ap) = c
  BY <1>3, <1>7, <1>9, <1>10
<1>11. ASSUME NEW k \in 1..c PROVE (x \o ap)[k] = y[k]
  <2>1. CASE k <= a
    <3>1. k \in 1..a
      BY <2>1
    <3>2. (x \o ap)[k] = x[k]
      BY <2>1, <1>3, <1>7, <1>9, <1>10
    <3> QED
      BY <3>1, <3>2, <1>7
  <2>2. CASE k > a
    <3>1. k - a \in 1..(c - a) /\ a + (k - a) = k
      BY <2>2
    <3>2. (x \o ap)[k] = ap[k - a]
      BY <2>2, <1>3, <1>7, <1>9, <1>10, SMTT(60)
    <3>3. ap[k - a] = v(k - a)
      BY <3>1, <1>5
    <3> QED
      BY <3>1, <3>2, <3>3, <1>7 DEF v
  <2>3. k <= a \/ k > a
    OBVIOUS
  <2> QED
    BY <2>1, <2>2, <2>3
<1>12. x \o ap = y
  <2>1. x \o ap \in Seq(Strokes) /\ Len(x \o ap) = Len(y) /\ y \in Seq(Strokes) /\ Len(y) = c
    BY <1>7, <1>10, <1>13
  <2> DEFINE z == x \o ap
  <2> HIDE DEF z
  <2>2. z \in Seq(Strokes) /\ Len(z) = Len(y) /\ \A k \in 1..Len(z) : z[k] = y[k]
    BY <1>11, <2>1 DEF z
  <2> QED
    BY <2>1, <2>2, SeqEqual DEF z
<1> QED
  BY <1>12 DEF ap, x, y

\* Where the cluster has committed what the log holds, the commit index moves on.
LEMMA CommitGood ==
  ASSUME NEW h, NEW d, NEW p, Good(h, d, p), p.commitIndex \in Nat,
         NEW c \in Nat, h.node.commitIndex <= c, c <= Len(Chosen), Agrees(h.node.log, c)
  PROVE  \E g : CommitTo(h, c) = maybeSnapshot(g) /\ Good(g, d, p)
<1> DEFINE n == h.node
           l == n.log
           b == n.board
           i == n.commitIndex
           m == [n EXCEPT !.commitIndex = c, !.board = b \o Applied(l, i + 1, c)]
           g == Issue([h EXCEPT !.node = m], saveState(m))
<1>1. CommitTo(h, c) = maybeSnapshot(g)
  BY DEF CommitTo, Good, NodeOK, IsNode
<1>2. /\ LogOK(l) /\ i \in Nat /\ b = BoardAt(i) /\ i <= c
      /\ l.lastIncludedIndex <= i /\ l.lastIncludedIndex \in Nat
      /\ getLastIndex(l) \in Nat /\ Agrees(l, c)
  BY LogFields DEF Good, NodeOK
<1>4. IsNode(m) /\ m.log = l /\ m.commitIndex = c /\ m.board = b \o Applied(l, i + 1, c)
  BY DEF Good, NodeOK, IsNode
<1> HIDE DEF m, l, b, i
<1>3. b \o Applied(l, i + 1, c) = BoardAt(c)
  BY <1>2, AppliedIs
<1>5. NodeOK(m)
  BY <1>2, <1>3, <1>4 DEF NodeOK
<1>6. Good(g, d, p)
  BY <1>2, <1>4, <1>5, GoodState DEF l, i
<1> QED
  BY <1>1, <1>6
-----------------------------------------------------------------------------
(* Logs that grow and logs that are cut.                                   *)

LEMMA EntryAt ==
  ASSUME NEW l, LogOK(l), NEW i \in (l.lastIncludedIndex + 1)..getLastIndex(l)
  PROVE  /\ getEntry(l, i) \in Entries /\ getEntry(l, i).index = i
         /\ getEntry(l, i).term \in Nat /\ getEntry(l, i).term >= 1
         /\ getTermAt(l, i) = getEntry(l, i).term
         /\ hasEntry(l, i)
<1> DEFINE b == l.lastIncludedIndex
           es == l.entries
           k == i - b
<1>1. /\ b \in Nat /\ es \in Seq(Entries) /\ Len(es) \in Nat
      /\ i \in (b + 1)..(b + Len(es)) /\ getLastIndex(l) = b + Len(es)
      /\ \A j \in 1..Len(es) : es[j].index = b + j
  BY LogFields DEF LogOK, Numbered
<1> HIDE DEF es, b
<1>2. k \in 1..Len(es) /\ i \in Int /\ b + k = i /\ i > b /\ i <= b + Len(es)
  BY <1>1
<1>3. getEntry(l, i) = es[k] /\ es[k].index = i
  BY <1>1, <1>2 DEF getEntry, b, es
<1> HIDE DEF k, es
<1>4. es[k] \in Entries
  BY <1>1, <1>2, ElementOfSeq
<1>5. hasEntry(l, i)
  BY <1>1, <1>2 DEF hasEntry, b
<1>6. getTermAt(l, i) = getEntry(l, i).term
  BY <1>1, <1>2, <1>5 DEF getTermAt, b
<1> QED
  BY <1>3, <1>4, <1>5, <1>6, EntryIs

\* Outside its entries and its boundary a log has no term.
LEMMA NoTermAt ==
  ASSUME NEW l, LogOK(l), NEW i \in Int, i < l.lastIncludedIndex \/ i > getLastIndex(l)
  PROVE  getTermAt(l, i) = 0 /\ ~hasEntry(l, i)
  BY LogFields DEF getTermAt, hasEntry

LEMMA LongerLog ==
  ASSUME NEW l, LogOK(l), NEW x \in Entries, x.index = getLastIndex(l) + 1,
         NEW k, IsLog(k), k.lastIncludedIndex = l.lastIncludedIndex,
         k.entries = Append(l.entries, x)
  PROVE  /\ LogOK(k)
         /\ getLastIndex(k) = getLastIndex(l) + 1
         /\ \A i \in (l.lastIncludedIndex + 1)..getLastIndex(l) : getEntry(k, i) = getEntry(l, i)
         /\ getEntry(k, x.index) = x
         /\ \A c \in Nat : Agrees(l, c) => Agrees(k, c)
<1> DEFINE b == l.lastIncludedIndex
           es == l.entries
           fs == Append(es, x)
<1>1. /\ b \in Nat /\ es \in Seq(Entries) /\ Len(es) \in Nat
      /\ getLastIndex(l) = b + Len(es) /\ x.index = b + Len(es) + 1
      /\ \A j \in 1..Len(es) : es[j].index = b + j
  BY LogFields DEF LogOK, Numbered
<1> HIDE DEF es
<1>2. /\ fs \in Seq(Entries) /\ Len(fs) = Len(es) + 1
      /\ \A j \in 1..Len(es) : fs[j] = es[j]
      /\ fs[Len(es) + 1] = x
  BY <1>1
<1>3. k.entries = fs /\ k.lastIncludedIndex = b
  BY DEF es
<1> HIDE DEF fs, b
<1>4. Numbered(fs, b)
  <2>1. \A j \in 1..Len(fs) : j \in 1..Len(es) \/ j = Len(es) + 1
    BY <1>1, <1>2
  <2>2. fs[Len(es) + 1].index = b + (Len(es) + 1)
    BY <1>1, <1>2
  <2>3. \A j \in 1..Len(fs) : fs[j].index = b + j
    BY <1>1, <1>2, <2>1, <2>2
  <2> QED
    BY <1>2, <2>3 DEF Numbered
<1>5. LogOK(k) /\ getLastIndex(k) = getLastIndex(l) + 1
  <2>1. LogOK(k)
    BY <1>1, <1>3, <1>4 DEF LogOK
  <2>2. getLastIndex(k) = b + Len(fs)
    BY <1>3 DEF getLastIndex
  <2>3. b + Len(fs) = (b + Len(es)) + 1
    BY <1>1, <1>2
  <2> QED
    BY <1>1, <2>1, <2>2, <2>3
<1>6. \A i \in (b + 1)..(b + Len(es)) : getEntry(k, i) = getEntry(l, i)
  <2> TAKE i \in (b + 1)..(b + Len(es))
  <2>1. i - b \in 1..Len(es)
    BY <1>1
  <2> QED
    BY <1>2, <1>3, <2>1 DEF getEntry, b, es
<1>7. getEntry(k, x.index) = x
  <2>1. x.index - b = Len(es) + 1
    BY <1>1
  <2> QED
    BY <1>2, <1>3, <2>1 DEF getEntry
<1>8. ASSUME NEW c \in Nat, Agrees(l, c) PROVE Agrees(k, c)
  <2>1. c <= getLastIndex(l) /\ \A i \in (b + 1)..c : i \in (b + 1)..(b + Len(es))
    BY <1>1, <1>8 DEF Agrees
  <2> QED
    BY <1>1, <1>3, <1>5, <1>6, <1>8, <2>1 DEF Agrees, b
<1> QED
  BY <1>1, <1>5, <1>6, <1>7, <1>8 DEF b

LEMMA ShorterLog ==
  ASSUME NEW l, LogOK(l), NEW n \in Nat, hasEntry(l, n),
         NEW m \in Nat, n = l.lastIncludedIndex + m + 1,
         NEW k, IsLog(k), k.lastIncludedIndex = l.lastIncludedIndex,
         k.entries = SubSeq(l.entries, 1, m)
  PROVE  /\ LogOK(k)
         /\ getLastIndex(k) = n - 1
         /\ \A i \in (l.lastIncludedIndex + 1)..(n - 1) : getEntry(k, i) = getEntry(l, i)
         /\ \A c \in Nat : Agrees(l, c) /\ c < n => Agrees(k, c)
<1> DEFINE b == l.lastIncludedIndex
           es == l.entries
           fs == SubSeq(es, 1, m)
<1>1. /\ b \in Nat /\ es \in Seq(Entries) /\ Len(es) \in Nat
      /\ getLastIndex(l) = b + Len(es)
      /\ \A j \in 1..Len(es) : es[j].index = b + j
  BY LogFields DEF LogOK, Numbered
<1>0. m <= Len(es) /\ n = b + m + 1
  BY <1>1 DEF hasEntry
<1>2. k.entries = fs /\ k.lastIncludedIndex = b
  OBVIOUS
<1> HIDE DEF es
<1>3. fs \in Seq(Entries) /\ Len(fs) = m /\ \A j \in 1..m : fs[j] = es[j]
  <2>1. fs \in Seq(Entries) /\ Len(fs) = m
    BY <1>0, <1>1, StretchType
  <2> QED
    BY <1>0, <1>1, <2>1
<1> HIDE DEF fs, b
<1>4. Numbered(fs, b)
  <2>1. \A j \in 1..m : j \in 1..Len(es)
    BY <1>0, <1>1
  <2>2. \A j \in 1..Len(fs) : fs[j].index = b + j
    BY <1>1, <1>3, <2>1
  <2> QED
    BY <1>3, <2>2 DEF Numbered
<1>5. LogOK(k) /\ getLastIndex(k) = n - 1
  <2>1. getLastIndex(k) = b + m
    BY <1>2, <1>3 DEF getLastIndex
  <2>2. b + m = n - 1
    BY <1>0, <1>1
  <2>3. LogOK(k)
    BY <1>1, <1>2, <1>4 DEF LogOK
  <2> QED
    BY <2>1, <2>2, <2>3
<1>6. \A i \in (b + 1)..(n - 1) : getEntry(k, i) = getEntry(l, i)
  <2> TAKE i \in (b + 1)..(n - 1)
  <2>1. i - b \in 1..m
    BY <1>0, <1>1
  <2>2. getEntry(k, i) = fs[i - b] /\ getEntry(l, i) = es[i - b]
    BY <1>2 DEF getEntry, b, es
  <2> QED
    BY <1>3, <2>1, <2>2
<1>7. ASSUME NEW c \in Nat, Agrees(l, c), c < n PROVE Agrees(k, c)
  <2>1. c <= n - 1 /\ \A i \in (b + 1)..c : i \in (b + 1)..(n - 1)
    BY <1>1, <1>7
  <2> QED
    BY <1>1, <1>2, <1>5, <1>6, <1>7, <2>1 DEF Agrees, b
<1> QED
  BY <1>5, <1>6, <1>7 DEF b

\* The log p is kept in l, whatever the memory holds, where every term is the same.
LEMMA KeptAll ==
  ASSUME NEW l, NEW p, NEW m, Kept(l, p, p), LogOK(l), LogOK(p),
         p.lastIncludedIndex <= l.lastIncludedIndex
  PROVE  Kept(l, p, m)
<1>1. ASSUME NEW i \in (l.lastIncludedIndex + 1)..getLastIndex(p)
      PROVE  i <= getLastIndex(l) /\ getEntry(l, i).term = getEntry(p, i).term
  <2>1. i \in (p.lastIncludedIndex + 1)..getLastIndex(p)
    BY LogFields
  <2>2. getTermAt(p, i) = getEntry(p, i).term
    BY <2>1, EntryAt
  <2> QED
    BY <2>2 DEF Kept
<1> QED
  BY <1>1 DEF Kept

\* Two logs with the same entries behind the same boundary.
LEMMA KeptSame ==
  ASSUME NEW l, NEW k, NEW p, NEW m, k.entries = l.entries,
         k.lastIncludedIndex = l.lastIncludedIndex, Kept(l, p, m)
  PROVE  Kept(k, p, m)
  BY DEF Kept, getLastIndex, getEntry

\* Files that a restart would read the same log from.
LEMMA SamePoint ==
  ASSUME NEW e, NEW p, NEW n, Point(e, p, n), NEW f, FilesOK(f), f.state = e.state,
         f.snapshot = e.snapshot, Loaded(f).log.entries = Loaded(e).log.entries
  PROVE  Point(f, p, n) /\ (Match(e, n) => Match(f, n))
<1>1. Commit(f) = Commit(e)
  BY DEF Commit
<1>2. Loaded(f).log.lastIncludedIndex = Loaded(e).log.lastIncludedIndex
  BY LoadedLog
<1>3. DiskOK(f)
  BY <1>1, <1>2, SameAgrees DEF Point, DiskOK
<1>4. Kept(Loaded(f).log, p.log, n.log)
  BY <1>2, KeptSame DEF Point
<1> QED
  BY <1>1, <1>3, <1>4 DEF Point, Match

LEMMA MatchPoint ==
  ASSUME NEW d, DiskOK(d), NEW n, Match(d, n), LogOK(n.log), n.commitIndex \in Nat
  PROVE  Point(d, n, n)
<1>1. Loaded(d).log.lastIncludedIndex = n.log.lastIncludedIndex
  BY LoadedLog DEF Match
<1>2. getLastIndex(Loaded(d).log) = getLastIndex(n.log)
  BY <1>1 DEF Match, getLastIndex
<1>3. Kept(Loaded(d).log, n.log, n.log)
  BY <1>1, <1>2, LogFields DEF Kept, Match, getEntry
<1>4. n.commitIndex <= Commit(d) /\ n.log.lastIncludedIndex <= d.snapshot.lastIncludedIndex
  BY LogFields DEF Match
<1> QED
  BY <1>3, <1>4 DEF Point
\* Before the memory changes, what was promised is what the memory holds.
LEMMA PointAny ==
  ASSUME NEW e, NEW p, NEW n, NEW m, LogOK(p.log), n.log = p.log, Point(e, p, n)
  PROVE  Point(e, p, m)
  BY KeptAll, LoadedOK DEF Point, DiskOK

\* The log is rewritten without the entries from a conflict on.
LEMMA CutGood ==
  ASSUME NEW h, NEW d, NEW p, Good(h, d, p), LogOK(p.log), p.log = h.node.log,
         NEW i \in Nat, hasEntry(h.node.log, i), h.node.commitIndex < i,
         NEW k, k = truncateFrom(h.node.log, i),
         NEW g, g = Issue([h EXCEPT !.node.log = k], rewriteLog(k))
  PROVE  /\ Good(g, d, p)
         /\ g.node.log = k /\ g.node.commitIndex = h.node.commitIndex
         /\ LogOK(k) /\ k.lastIncludedIndex = h.node.log.lastIncludedIndex
         /\ getLastIndex(k) = i - 1
<1> DEFINE n == h.node
           l == n.log
           b == l.lastIncludedIndex
           m == [n EXCEPT !.log = k]
           x == rewriteLog(k)
<1>1. /\ IsHandler(h) /\ IsNode(n) /\ LogOK(l) /\ IsLog(l) /\ NodeOK(n)
      /\ n.commitIndex \in Nat /\ n.commitIndex <= Len(Chosen)
      /\ b <= n.commitIndex /\ b \in Nat
      /\ Agrees(l, n.commitIndex) /\ n.board = BoardAt(n.commitIndex)
  BY LogFields DEF Good, NodeOK, LogOK
<1>2. /\ IsLog(k) /\ k.lastIncludedIndex = b
      /\ k.entries = SubSeq(l.entries, 1, i - b - 1)
  BY <1>1 DEF truncateFrom, IsLog
<1>3. /\ LogOK(k) /\ getLastIndex(k) = i - 1
      /\ \A j \in (b + 1)..(i - 1) : getEntry(k, j) = getEntry(l, j)
      /\ Agrees(k, n.commitIndex)
  <2> DEFINE c == i - b - 1
  <2>1. hasEntry(l, i) /\ n.commitIndex < i
    OBVIOUS
  <2> HIDE DEF n, l
  <2>4. k.entries = SubSeq(l.entries, 1, c)
    BY <1>2
  <2> DEFINE a == n.commitIndex
  <2>5. a \in Nat /\ b \in Nat /\ b <= a /\ a < i
    BY <1>1, <2>1
  <2> HIDE DEF a, b
  <2>3. c \in Nat /\ i = b + c + 1
    BY <2>5
  <2> HIDE DEF c
  <2>2. /\ LogOK(k) /\ getLastIndex(k) = i - 1
        /\ \A j \in (b + 1)..(i - 1) : getEntry(k, j) = getEntry(l, j)
        /\ \A u \in Nat : Agrees(l, u) /\ u < i => Agrees(k, u)
    <3>1. LogOK(l) /\ hasEntry(l, i) /\ IsLog(k) /\ c \in Nat
      BY <1>1, <1>2, <2>1, <2>3
    <3>2. i = l.lastIncludedIndex + c + 1 /\ k.lastIncludedIndex = l.lastIncludedIndex
      BY <1>2, <2>3 DEF b
    <3> QED
      BY <3>1, <3>2, <2>4, ShorterLog, SMTT(60) DEF b
  <2> QED
    BY <1>1, <2>1, <2>2
<1>4. /\ IsNode(m) /\ m.log = k /\ m.commitIndex = n.commitIndex /\ m.board = n.board
  BY <1>1 DEF IsNode
<1>5. g = Issue([h EXCEPT !.node = m], x)
  BY <1>1 DEF IsHandler
<1>6. x.file = "rewrite" /\ x.value = k.entries
  BY DEF rewriteLog
<1> HIDE DEF m, x
<1>7. IsHandler(g) /\ g.node = m /\ g.writes = Append(h.writes, x)
  BY <1>1, <1>5 DEF IsHandler, Issue
<1>8. NodeOK(m)
  BY <1>1, <1>2, <1>3, <1>4 DEF NodeOK
<1>9. \A e : Point(e, p, n) => Point(e, p, m)
  BY PointAny
<1> HIDE DEF n, l, b
<1>10. ASSUME NEW e, Point(e, p, m), Match(e, n)
       PROVE  Point(Written(e, x), p, m) /\ Match(Written(e, x), m)
  <2> DEFINE f == Written(e, x)
             q == Loaded(f).log
  <2>1. FilesOK(e) /\ IsDisk(e) /\ e.snapshot.lastIncludedIndex = b /\ DiskOK(e)
        /\ Commit(e) = n.commitIndex
    BY <1>10 DEF Point, DiskOK, FilesOK, Match, b, l
  <2>2. /\ IsDisk(f) /\ f.state = e.state /\ f.snapshot = e.snapshot
        /\ f.lines = k.entries
    <3>1. x.file = "rewrite" /\ x.value = k.entries /\ IsDisk(e)
      BY <1>6, <2>1
    <3> QED
      BY <3>1, WrittenLog, SMTT(60)
  <2> HIDE DEF f
  <2>3. Numbered(f.lines, f.snapshot.lastIncludedIndex)
    BY <1>2, <1>3, <2>1, <2>2 DEF LogOK
  <2>4. FilesOK(f) /\ q.entries = k.entries
    BY <1>1, <2>1, <2>2, <2>3, RewriteFiles
  <2>5. q.lastIncludedIndex = b
    BY <2>1, <2>2, LoadedLog
  <2>6. Commit(f) = n.commitIndex
    BY <2>1, <2>2 DEF Commit
  <2> HIDE DEF q
  <2>7. Agrees(q, n.commitIndex)
    BY <1>2, <1>3, <2>4, <2>5, SameAgrees
  <2>8. DiskOK(f)
    BY <1>1, <2>1, <2>2, <2>4, <2>6, <2>7 DEF DiskOK, q
  <2>9. Kept(k, p.log, m.log)
    <3> SUFFICES ASSUME NEW j \in (k.lastIncludedIndex + 1)..getLastIndex(p.log)
                 PROVE  \/ j <= getLastIndex(k) /\ getEntry(k, j).term = getEntry(p.log, j).term
                        \/ getTermAt(m.log, j) /= getEntry(p.log, j).term
      BY DEF Kept
    <3>1. /\ p.log = l /\ j \in (b + 1)..getLastIndex(l) /\ j \in Int /\ j > b
      BY <1>1, <1>2, LogFields DEF l, n
    <3>2. CASE j < i
      BY <3>1, <3>2, <1>1, <1>3
    <3>3. CASE j >= i
      <4>1. getTermAt(k, j) = 0
        BY <3>1, <3>3, <1>3, NoTermAt
      <4>2. getEntry(l, j).term >= 1 /\ getEntry(l, j).term \in Nat
        BY <1>1, <3>1, EntryAt DEF b
      <4> QED
        BY <1>4, <3>1, <4>1, <4>2
    <3> QED
      BY <3>1, <3>2, <3>3
  <2>10. Kept(q, p.log, m.log)
    BY <1>2, <2>4, <2>5, <2>9, KeptSame
  <2>11. p.commitIndex <= Commit(f) /\ p.log.lastIncludedIndex <= f.snapshot.lastIncludedIndex
    BY <1>10, <2>1, <2>2, <2>6 DEF Point
  <2>12. Point(f, p, m)
    BY <2>8, <2>10, <2>11 DEF Point, q
  <2>13. Match(f, m)
    BY <1>2, <1>4, <2>1, <2>2, <2>4, <2>6 DEF Match, q
  <2> QED
    BY <2>12, <2>13 DEF f
<1>11. PICK D : Stage(D, d, h.writes, p, n)
  BY DEF Good, n
<1>12. \E C : Stage(C, d, Append(h.writes, x), p, m)
  BY <1>9, <1>10, <1>11, Extend DEF Good, n
<1>13. IsSeq(Append(h.writes, x)) /\ Plain(Append(h.writes, x))
  BY <1>6, AppendAny DEF Good, Plain
<1>14. Good(g, d, p)
  BY <1>7, <1>8, <1>12, <1>13 DEF Good
<1> QED
  BY <1>2, <1>3, <1>4, <1>7, <1>14 DEF n, b, l

\* An entry is appended that the log has promised no other one for.
LEMMA AppendGood ==
  ASSUME NEW h, NEW d, NEW p, Good(h, d, p), LogOK(p.log),
         NEW x \in Entries, x.index = getLastIndex(h.node.log) + 1,
         \/ x.index > getLastIndex(p.log)
         \/ hasEntry(p.log, x.index) /\ getEntry(p.log, x.index).term /= x.term,
         NEW g, g = Issue([h EXCEPT !.node.log = append(@, x)], appendLog(x))
  PROVE  Good(g, d, p) /\ g.node.commitIndex = h.node.commitIndex
<1> DEFINE n == h.node
           l == n.log
           b == l.lastIncludedIndex
           k == append(l, x)
           m == [n EXCEPT !.log = k]
           w == appendLog(x)
<1>1. /\ IsHandler(h) /\ IsNode(n) /\ LogOK(l) /\ IsLog(l)
      /\ n.commitIndex \in Nat /\ n.commitIndex <= Len(Chosen)
      /\ b <= n.commitIndex /\ b \in Nat /\ getLastIndex(l) \in Nat
      /\ Agrees(l, n.commitIndex) /\ n.board = BoardAt(n.commitIndex)
  BY LogFields DEF Good, NodeOK, LogOK
<1>2. /\ IsLog(k) /\ k.lastIncludedIndex = b /\ k.entries = Append(l.entries, x)
  BY <1>1 DEF append, IsLog
<1>3. g = Issue([h EXCEPT !.node = m], w)
  BY <1>1 DEF IsHandler, IsNode
<1> HIDE DEF k
<1>4. /\ LogOK(k) /\ getLastIndex(k) = getLastIndex(l) + 1
      /\ \A i \in (b + 1)..getLastIndex(l) : getEntry(k, i) = getEntry(l, i)
      /\ getEntry(k, x.index) = x
      /\ Agrees(k, n.commitIndex)
  <2>1. x.index = getLastIndex(l) + 1
    OBVIOUS
  <2> HIDE DEF n, l
  <2> QED
    BY <1>1, <1>2, <2>1, LongerLog
<1>5. /\ IsNode(m) /\ m.log = k /\ m.commitIndex = n.commitIndex /\ m.board = n.board
  BY <1>1 DEF IsNode
<1>6. w.file = "append" /\ w.value = x
  BY DEF appendLog
<1> HIDE DEF m, w
<1>7. IsHandler(g) /\ g.node = m /\ g.writes = Append(h.writes, w)
  BY <1>1, <1>3 DEF IsHandler, Issue
<1>8. NodeOK(m)
  BY <1>1, <1>2, <1>4, <1>5 DEF NodeOK
<1> DEFINE a == getLastIndex(l)
<1>9. x.index \in Nat /\ x.index = a + 1 /\ a \in Nat
  BY <1>1, EntryIs
<1> HIDE DEF n, l, b, a
\* The other terms of the memory stay.
<1>10. ASSUME NEW i \in Int, i /= x.index PROVE getTermAt(k, i) = getTermAt(l, i)
  <2>1. CASE i = b
    BY <2>1, <1>2 DEF getTermAt, b, append, k
  <2>2. CASE i > b /\ i <= a
    <3>1. i \in (b + 1)..a /\ i \in (b + 1)..(a + 1)
      BY <2>2, <1>1, <1>9
    <3>2. getTermAt(l, i) = getEntry(l, i).term /\ getTermAt(k, i) = getEntry(k, i).term
      BY <3>1, <1>1, <1>2, <1>4, EntryAt DEF a, b
    <3> QED
      BY <3>1, <3>2, <1>4 DEF a
  <2>3. CASE i < b \/ i > a
    <3>1. i < b \/ i > a + 1
      BY <2>3, <1>9, <1>10
    <3>2. getTermAt(l, i) = 0 /\ getTermAt(k, i) = 0
      BY <2>3, <3>1, <1>1, <1>2, <1>4, NoTermAt DEF a, b
    <3> QED
      BY <3>2
  <2> QED
    BY <2>1, <2>2, <2>3, <1>1, <1>9
<1>11. getTermAt(k, x.index) = x.term
  <2>1. x.index \in (b + 1)..(a + 1)
    <3>1. b <= a
      <4>1. b \in Nat /\ Len(l.entries) \in Nat /\ a = b + Len(l.entries)
        BY <1>1, LogFields DEF a, b
      <4> QED
        BY <4>1
    <3> QED
      BY <3>1, <1>1, <1>9
  <2> QED
    BY <2>1, <1>2, <1>4, EntryAt DEF a, b
<1>12. ASSUME NEW e, Point(e, p, n) PROVE Point(e, p, m)
  <2> DEFINE q == Loaded(e).log
  <2>1. Kept(q, p.log, l) /\ LogOK(q) /\ p.log.lastIncludedIndex <= q.lastIncludedIndex
    BY <1>12, LoadedOK DEF Point, DiskOK, l
  <2> HIDE DEF q
  <2>2. Kept(q, p.log, k)
    <3> SUFFICES ASSUME NEW i \in (q.lastIncludedIndex + 1)..getLastIndex(p.log),
                        ~(i <= getLastIndex(q) /\ getEntry(q, i).term = getEntry(p.log, i).term)
                 PROVE  getTermAt(k, i) /= getEntry(p.log, i).term
      BY DEF Kept
    <3>1. i \in Int /\ i <= getLastIndex(p.log)
      BY <2>1, LogFields
    <3>2. getTermAt(l, i) /= getEntry(p.log, i).term
      BY <2>1 DEF Kept
    <3>3. CASE i /= x.index
      BY <3>1, <3>2, <3>3, <1>10
    <3>4. CASE i = x.index
      <4>1. getEntry(p.log, i).term /= x.term
        BY <3>1, <3>4, <1>9, LogFields
      <4> QED
        BY <3>4, <4>1, <1>11
    <3> QED
      BY <3>3, <3>4
  <2> QED
    BY <1>5, <1>12, <2>2 DEF Point, q
<1>13. ASSUME NEW e, Point(e, p, m), Match(e, n), ~e.unfinished
       PROVE  Point(Written(e, w), p, m) /\ Match(Written(e, w), m)
  <2> DEFINE f == Written(e, w)
             q == Loaded(f).log
             r == Loaded(e).log
  <2>1. FilesOK(e) /\ IsDisk(e) /\ e.snapshot.lastIncludedIndex = b /\ DiskOK(e)
        /\ Commit(e) = n.commitIndex /\ r.entries = l.entries
    BY <1>13 DEF Point, DiskOK, FilesOK, Match, b, l
  <2>2. /\ IsDisk(f) /\ f.state = e.state /\ f.snapshot = e.snapshot
        /\ f.lines = Append(e.lines, x)
    <3>1. w.file = "append" /\ w.value = x /\ ~e.unfinished /\ IsDisk(e)
      BY <1>6, <1>13, <2>1
    <3> QED
      BY <3>1, WrittenEntry, SMTT(60)
  <2>3. r.lastIncludedIndex = b /\ q.lastIncludedIndex = b /\ IsLog(r) /\ IsLog(q)
    BY <2>1, <2>2, LoadedLog
  <2>4. getLastIndex(r) = a
    BY <2>1, <2>3 DEF getLastIndex, a, b
  <2> HIDE DEF f
  <2>5. FilesOK(f) /\ q.entries = Append(r.entries, x)
    BY <1>9, <1>13, <2>1, <2>2, <2>4, AppendFiles
  <2>6. LogOK(r)
    BY <2>1, LoadedOK
  <2>7. Commit(f) = n.commitIndex /\ Agrees(r, n.commitIndex)
    BY <2>1, <2>2 DEF Commit, DiskOK
  <2>8. Kept(r, p.log, m.log)
    BY <1>13 DEF Point
  <2>12. p.commitIndex <= Commit(f) /\ p.log.lastIncludedIndex <= f.snapshot.lastIncludedIndex
    BY <1>13, <2>1, <2>2, <2>7 DEF Point
  <2> HIDE DEF q, r
  <2>9. /\ getLastIndex(q) = a + 1 /\ Agrees(q, n.commitIndex)
        /\ \A i \in (b + 1)..a : getEntry(q, i) = getEntry(r, i)
    BY <1>1, <1>9, <2>3, <2>4, <2>5, <2>6, <2>7, LongerLog
  <2>10. DiskOK(f)
    BY <1>1, <2>1, <2>2, <2>5, <2>7, <2>9 DEF DiskOK, q
  <2>11. Kept(q, p.log, m.log)
    <3> SUFFICES ASSUME NEW i \in (q.lastIncludedIndex + 1)..getLastIndex(p.log),
                        getTermAt(m.log, i) = getEntry(p.log, i).term
                 PROVE  i <= getLastIndex(q) /\ getEntry(q, i).term = getEntry(p.log, i).term
      BY DEF Kept
    <3>1. i <= a /\ getEntry(r, i).term = getEntry(p.log, i).term
      BY <2>3, <2>4, <2>8 DEF Kept
    <3>2. i \in (b + 1)..a
      BY <3>1, <2>3, <1>1, <1>9, LogFields
    <3> QED
      BY <3>1, <3>2, <1>9, <2>9
  <2>13. Point(f, p, m)
    BY <2>10, <2>11, <2>12 DEF Point, q
  <2>14. Match(f, m)
    BY <1>2, <1>5, <2>1, <2>2, <2>5, <2>7 DEF Match, q, b, l
  <2> QED
    BY <2>13, <2>14 DEF f
<1>14. PICK D : Stage(D, d, h.writes, p, n)
  BY DEF Good, n
<1>15. \E C : Stage(C, d, Append(h.writes, w), p, m)
  BY <1>6, <1>12, <1>13, <1>14, Extend DEF Good, n
<1>16. IsSeq(Append(h.writes, w)) /\ Plain(Append(h.writes, w))
  BY <1>6, AppendAny DEF Good, Plain
<1>17. Good(g, d, p)
  BY <1>7, <1>8, <1>15, <1>16 DEF Good
<1> QED
  BY <1>5, <1>7, <1>17 DEF n
\* The entry loop, for an entry that no committed one contradicts.
LEMMA TakeGood ==
  ASSUME NEW h, NEW d, NEW p, Good(h, d, p), LogOK(p.log), p.log = h.node.log,
         NEW e \in Entries,
         e.index \in (h.node.log.lastIncludedIndex + 1)..(getLastIndex(h.node.log) + 1),
         e.index <= h.node.commitIndex => e.term = Chosen[e.index]
  PROVE  /\ Good(TakeEntry(h, e), d, p)
         /\ TakeEntry(h, e).node.commitIndex = h.node.commitIndex
<1> DEFINE l == h.node.log
           c == h.node.commitIndex
           i == e.index
           cut == IF Conflicts(l, e) THEN truncateFrom(l, i) ELSE l
           g == IF cut = l THEN h ELSE Issue([h EXCEPT !.node.log = cut], rewriteLog(cut))
           f == Issue([g EXCEPT !.node.log = append(@, e)], appendLog(e))
<1>1. TakeEntry(h, e) = IF hasEntry(cut, i) THEN g ELSE f
  BY DEF TakeEntry
<1>2. /\ LogOK(l) /\ Agrees(l, c) /\ c \in Nat /\ i \in Nat
      /\ i \in (l.lastIncludedIndex + 1)..(getLastIndex(l) + 1)
      /\ l.lastIncludedIndex \in Nat /\ getLastIndex(l) \in Nat
      /\ i <= c => e.term = Chosen[i]
  BY EntryIs, LogFields DEF Good, NodeOK
<1>3. CASE ~Conflicts(l, e)
  <2>1. cut = l /\ g = h
    BY <1>3
  <2>2. CASE hasEntry(l, i)
    BY <1>1, <2>1, <2>2
  <2>3. CASE ~hasEntry(l, i)
    <3>1. i = getLastIndex(l) + 1
      <4> HIDE DEF l, i
      <4> QED
        BY <1>2, <2>3 DEF hasEntry
    <3>2. i > getLastIndex(p.log)
      BY <1>2, <3>1
    <3>3. Good(f, d, p) /\ f.node.commitIndex = c
      BY <2>1, <3>1, <3>2, AppendGood
    <3> QED
      BY <1>1, <2>1, <2>3, <3>3
  <2> QED
    BY <2>2, <2>3
<1>4. CASE Conflicts(l, e)
  <2>1. hasEntry(l, i) /\ getEntry(l, i).term /= e.term
    BY <1>4 DEF Conflicts
  <2>2. c < i
    <3> SUFFICES ASSUME i <= c PROVE FALSE
      BY <1>2
    <3>1. getEntry(l, i) = Entry(i, Chosen[i])
      <4> HIDE DEF l, i, c
      <4>1. i \in (l.lastIncludedIndex + 1)..c
        BY <1>2
      <4> QED
        BY <1>2, <4>1 DEF Agrees
    <3>2. getEntry(l, i).term = Chosen[i]
      BY <3>1 DEF Entry
    <3> QED
      BY <1>2, <2>1, <3>2
  <2>3. cut = truncateFrom(l, i)
    BY <1>4
  <2> DEFINE q == Issue([h EXCEPT !.node.log = cut], rewriteLog(cut))
  <2> HIDE DEF cut
  <2>4. /\ Good(q, d, p) /\ q.node.log = cut /\ q.node.commitIndex = c
        /\ LogOK(cut) /\ cut.lastIncludedIndex = l.lastIncludedIndex
        /\ getLastIndex(cut) = i - 1
    <3>1. hasEntry(h.node.log, i) /\ h.node.commitIndex < i /\ cut = truncateFrom(h.node.log, i)
      BY <2>1, <2>2, <2>3
    <3> HIDE DEF i, l, c
    <3> QED
      BY <1>2, <3>1, CutGood DEF l, c
  <2>5. cut /= l /\ ~hasEntry(cut, i) /\ i = getLastIndex(cut) + 1
    <3> HIDE DEF l, i
    <3>1. i <= getLastIndex(l)
      BY <2>1 DEF hasEntry
    <3> QED
      BY <1>2, <2>4, <3>1 DEF hasEntry
  <2>6. g = q
    BY <2>5
  <2> HIDE DEF g, q
  <2>7. Good(f, d, p) /\ f.node.commitIndex = g.node.commitIndex
    <3>1. hasEntry(p.log, i) /\ getEntry(p.log, i).term /= e.term
      BY <2>1
    <3>2. i = getLastIndex(g.node.log) + 1
      BY <2>4, <2>5, <2>6
    <3> QED
      BY <2>4, <2>6, <3>1, <3>2, AppendGood
  <2> HIDE DEF f
  <2> QED
    BY <1>1, <2>4, <2>5, <2>6, <2>7
<1> QED
  BY <1>3, <1>4
-----------------------------------------------------------------------------
(* What a handler leaves to write.  Between the rewritten log and the      *)
(* snapshot of an installation the files promise nothing.                  *)

Exempt(w, k) == k + 2 <= Len(w) /\ w[k + 1].file = "snapshot" /\ w[k + 2].file = "state"

Left(D, d, w, p, n) ==
  /\ Path(D, d, w)
  /\ \A k \in 0..Len(w) : Clean(D, w, k) => Exempt(w, k) \/ Point(D[k], p, n)
  /\ Clean(D, w, Len(w)) => Match(D[Len(w)], n)
  /\ \A k \in 1..Len(w) : Exempt(w, k) => w[k].file = "rewrite"

Done(h, d, p) ==
  /\ IsHandler(h) /\ IsSeq(h.writes)
  /\ NodeOK(h.node)
  /\ \E D : Left(D, d, h.writes, p, h.node)

LEMMA GoodDone ==
  ASSUME NEW h, NEW d, NEW p, Good(h, d, p)
  PROVE  Done(h, d, p)
<1> DEFINE w == h.writes
<1>1. IsSeq(w) /\ Plain(w) /\ Len(w) \in Nat
  BY AppendAny DEF Good
<1> HIDE DEF w
<1>2. \A k \in 0..Len(w) : ~Exempt(w, k)
  <2> SUFFICES ASSUME NEW k \in 0..Len(w), Exempt(w, k) PROVE FALSE
    OBVIOUS
  <2>1. k + 1 \in 1..Len(w) /\ w[k + 1].file = "snapshot"
    BY <1>1 DEF Exempt
  <2> QED
    BY <1>1, <2>1 DEF Plain
<1>3. PICK D : Stage(D, d, w, p, h.node)
  BY DEF Good, w
<1>4. Left(D, d, w, p, h.node)
  BY <1>2, <1>3 DEF Stage, Left
<1> QED
  BY <1>4 DEF Good, Done, w
\* A log without the entries up to an index.
LEMMA RestLog ==
  ASSUME NEW l, LogOK(l), NEW c \in Nat, l.lastIncludedIndex <= c, c <= getLastIndex(l),
         NEW k, IsLog(k), k.lastIncludedIndex = c, k.entries \in Seq(Entries),
         IsRest(k.entries, l.entries, c - l.lastIncludedIndex)
  PROVE  /\ LogOK(k)
         /\ getLastIndex(k) = getLastIndex(l)
         /\ \A i \in (c + 1)..getLastIndex(l) : getEntry(k, i) = getEntry(l, i)
<1> DEFINE b == l.lastIncludedIndex
           es == l.entries
           fs == k.entries
           m == c - b
<1>1. /\ b \in Nat /\ Len(es) \in Nat /\ getLastIndex(l) = b + Len(es)
      /\ Numbered(es, b) /\ fs \in Seq(Entries) /\ Len(fs) \in Nat /\ IsRest(fs, es, m)
      /\ b <= c
  BY LogFields DEF LogOK
<1>2. c <= b + Len(es)
  BY <1>1
<1> HIDE DEF b, es, fs
<1>3. m \in 0..Len(es) /\ b + m = c
  BY <1>1, <1>2
<1> HIDE DEF m
<1>4. Numbered(fs, c)
  BY <1>1, <1>3, RestNumbered
<1>5. LogOK(k)
  BY <1>4 DEF LogOK, fs
<1>6. Len(fs) = Len(es) - m /\ \A j \in 1..Len(fs) : fs[j] = es[m + j]
  BY <1>1 DEF IsRest
<1>7. getLastIndex(k) = b + Len(es)
  <2>1. getLastIndex(k) = c + Len(fs)
    BY DEF getLastIndex, fs
  <2>3. /\ Len(fs) = Len(es) - m /\ b + m = c /\ m \in Int
        /\ Len(es) \in Nat /\ Len(fs) \in Nat /\ b \in Nat
    BY <1>1, <1>3, <1>6
  <2>2. c + Len(fs) = b + Len(es)
    BY <2>3
  <2> QED
    BY <2>1, <2>2
<1>8. ASSUME NEW i \in (c + 1)..(b + Len(es)) PROVE getEntry(k, i) = getEntry(l, i)
  <2>1. i - c \in 1..Len(fs) /\ m + (i - c) = i - b
    BY <1>1, <1>3, <1>6
  <2>2. getEntry(k, i) = fs[i - c] /\ getEntry(l, i) = es[i - b]
    BY DEF getEntry, b, es, fs
  <2> QED
    BY <1>6, <2>1, <2>2
<1> QED
  BY <1>1, <1>5, <1>7, <1>8

LEMMA CompactIs ==
  ASSUME NEW l, LogOK(l), NEW c \in Nat, l.lastIncludedIndex < c, c <= getLastIndex(l), NEW t,
         NEW k, k = compact(l, c, t)
  PROVE  /\ IsLog(k) /\ k.lastIncludedIndex = c /\ k.lastIncludedTerm = t
         /\ k.entries \in Seq(Entries)
         /\ IsRest(k.entries, l.entries, c - l.lastIncludedIndex)
<1> DEFINE b == l.lastIncludedIndex
           es == l.entries
           m == c - b
<1>1. b \in Nat /\ es \in Seq(Entries) /\ Len(es) \in Nat /\ b < c
  BY LogFields
<1>2. c <= b + Len(es)
  BY LogFields
<1> HIDE DEF b, es
<1>3. m \in 0..Len(es) /\ ~(c <= b) /\ ~(c + 1 <= b) /\ (c + 1) - b = m + 1
  BY <1>1, <1>2
<1> HIDE DEF m
<1>4. k = [entries |-> getEntriesFrom(l, c + 1), lastIncludedIndex |-> c, lastIncludedTerm |-> t]
  BY <1>3 DEF compact, b
<1>5. getEntriesFrom(l, c + 1) = SubSeq(es, m + 1, Len(es))
  <2>1. getEntriesFrom(l, c + 1) = IF c + 1 <= b THEN es ELSE SubSeq(es, (c + 1) - b, Len(es))
    BY DEF getEntriesFrom, b, es
  <2> QED
    BY <1>3, <2>1
<1> DEFINE r == SubSeq(es, m + 1, Len(es))
<1>6. r \in Seq(Entries) /\ IsRest(r, es, m)
  BY <1>1, <1>3, SubSeqIsRest
<1>7. k = [entries |-> r, lastIncludedIndex |-> c, lastIncludedTerm |-> t]
  BY <1>4, <1>5
<1> HIDE DEF r
<1> QED
  BY <1>6, <1>7 DEF IsLog, m, b, es

\* maybeSnapshot saves the snapshot and then compacts the log.
LEMMA SnapshotDone ==
  ASSUME NEW h, NEW d, NEW p, Good(h, d, p), LogOK(p.log)
  PROVE  Done(maybeSnapshot(h), d, p)
<1> DEFINE n == h.node
           l == n.log
           b == l.lastIncludedIndex
           c == n.commitIndex
           t == getTermAt(l, c)
           k == compact(l, c, t)
           m == [n EXCEPT !.log = k]
           sn == [lastIncludedIndex |-> c, lastIncludedTerm |-> t, boards |-> n.board]
           x == saveSnapshot(sn)
           y == rewriteLog(k)
           g == [h EXCEPT !.node.log = k]
           f == Issue(g, x)
           e == Issue(f, y)
<1>1. CASE c - b < SnapshotThreshold
  BY <1>1, GoodDone DEF maybeSnapshot
<1>2. CASE ~(c - b < SnapshotThreshold)
  <2>1. maybeSnapshot(h) = e
    BY <1>2 DEF maybeSnapshot, takeSnapshot
  <2>2. /\ IsHandler(h) /\ IsNode(n) /\ LogOK(l)
        /\ c \in Nat /\ c <= Len(Chosen) /\ b <= c /\ b \in Nat
        /\ Agrees(l, c) /\ n.board = BoardAt(c)
        /\ c <= getLastIndex(l) /\ getLastIndex(l) \in Nat
    BY LogFields DEF Good, NodeOK, Agrees
  <2>3. b < c
    <3> HIDE DEF b, c
    <3> QED
      BY <1>2, <2>2, PersistenceAssumption
  <2>4. /\ IsHandler(e) /\ e.node = m
        /\ e.writes = Append(Append(h.writes, x), y)
        /\ IsNode(m) /\ m.log = k /\ m.commitIndex = c /\ m.board = n.board
    <3>1. IsHandler(g) /\ g.node = m /\ g.writes = h.writes
      BY <2>2 DEF IsHandler
    <3>2. IsNode(m) /\ m.log = k /\ m.commitIndex = c /\ m.board = n.board
      BY <2>2 DEF IsNode
    <3> HIDE DEF g, m, x, y, k
    <3>3. IsHandler(f) /\ f.node = m /\ f.writes = Append(h.writes, x)
      BY <3>1 DEF IsHandler, Issue
    <3> HIDE DEF f
    <3>4. IsHandler(e) /\ e.node = m /\ e.writes = Append(f.writes, y)
      BY <3>3 DEF IsHandler, Issue
    <3> QED
      BY <3>2, <3>3, <3>4
  <2>5. /\ x.file = "snapshot" /\ x.value = sn /\ y.file = "rewrite" /\ y.value = k.entries
        /\ sn.lastIncludedIndex = c /\ sn.boards = BoardAt(c)
    BY <2>2 DEF saveSnapshot, rewriteLog
  <2> HIDE DEF t, k
  <2>6. /\ IsLog(k) /\ k.lastIncludedIndex = c /\ k.entries \in Seq(Entries)
        /\ IsRest(k.entries, l.entries, c - b)
    <3> HIDE DEF l, c
    <3> QED
      BY <2>2, <2>3, CompactIs DEF k
  <2>7. /\ LogOK(k) /\ getLastIndex(k) = getLastIndex(l)
        /\ \A i \in (c + 1)..getLastIndex(l) : getEntry(k, i) = getEntry(l, i)
    <3> HIDE DEF l, c, b
    <3>1. b <= c /\ b = l.lastIncludedIndex
      BY <2>2 DEF b
    <3> QED
      BY <2>2, <2>6, <3>1, RestLog
  <2>8. Agrees(k, c)
    BY <2>2, <2>6, <2>7 DEF Agrees
  <2> HIDE DEF m, x, y, sn, e, f, g
  <2>9. NodeOK(m)
    BY <2>2, <2>4, <2>6, <2>7, <2>8 DEF NodeOK
  <2>10. PICK D : Stage(D, d, h.writes, p, n)
    BY DEF Good
  <2>11. IsSeq(h.writes) /\ Plain(h.writes)
    BY DEF Good
  <2> HIDE DEF n, l, c, b
  <2>12. getTermAt(k, c) = t
    BY <2>2, <2>3, <2>6, CompactIs DEF k, b, getTermAt
  <2>13. ASSUME NEW q, Point(q, p, n) PROVE Point(q, p, m)
    <3> DEFINE r == Loaded(q).log
    <3>1. Kept(r, p.log, l) /\ LogOK(r) /\ p.log.lastIncludedIndex <= r.lastIncludedIndex
      BY <2>13, LoadedOK DEF Point, DiskOK, l
    <3> HIDE DEF r
    <3>2. Kept(r, p.log, k)
      <4> SUFFICES ASSUME NEW i \in (r.lastIncludedIndex + 1)..getLastIndex(p.log),
                          getTermAt(l, i) /= getEntry(p.log, i).term
                   PROVE  getTermAt(k, i) /= getEntry(p.log, i).term
        BY <3>1 DEF Kept
      <4>1. i \in Int /\ i \in (p.log.lastIncludedIndex + 1)..getLastIndex(p.log)
        BY <3>1, LogFields
      <4>2. CASE i < c
        <5>1. getTermAt(k, i) = 0
          BY <4>1, <4>2, <2>6, <2>7, NoTermAt
        <5> QED
          BY <4>1, <5>1, EntryAt
      <4>3. CASE i = c
        BY <4>3, <2>12 DEF t
      <4>4. CASE i > c
        <5>1. CASE i <= getLastIndex(l)
          <6>1. i \in (c + 1)..getLastIndex(l) /\ i \in (b + 1)..getLastIndex(l)
            BY <4>1, <4>4, <5>1, <2>2
          <6>2. getTermAt(k, i) = getEntry(k, i).term /\ getTermAt(l, i) = getEntry(l, i).term
            BY <6>1, <2>2, <2>6, <2>7, EntryAt DEF b
          <6> QED
            BY <6>1, <6>2, <2>7
        <5>2. CASE i > getLastIndex(l)
          <6>1. getTermAt(k, i) = 0 /\ getTermAt(l, i) = 0
            BY <4>1, <5>2, <2>2, <2>7, NoTermAt
          <6> QED
            BY <6>1
        <5> QED
          BY <4>1, <5>1, <5>2, <2>2
      <4> QED
        BY <4>1, <4>2, <4>3, <4>4, <2>2
    <3> QED
      BY <2>4, <2>13, <3>2 DEF Point, r
  <2>14. ASSUME NEW q, Point(q, p, m), Match(q, n)
         PROVE  Point(Written(q, x), p, m) /\ Match(Written(q, x), m)
    <3> DEFINE w == Written(q, x)
               r == Loaded(q).log
               s == Loaded(w).log
    <3>1. /\ FilesOK(q) /\ IsDisk(q) /\ DiskOK(q) /\ r.entries = l.entries
          /\ q.snapshot.lastIncludedIndex = b /\ Commit(q) = c /\ q.state.commitIndex \in Nat
      BY <2>14 DEF Point, DiskOK, FilesOK, Match, b, l, c
    <3>2. /\ IsDisk(w) /\ w.state = q.state /\ w.snapshot = sn /\ w.lines = q.lines
          /\ w.unfinished = q.unfinished
      BY <2>5, <3>1, WrittenSnapshot
    <3>3. /\ r.lastIncludedIndex = b /\ s.lastIncludedIndex = c /\ IsLog(r) /\ IsLog(s)
          /\ LogOK(r)
      BY <2>5, <3>1, <3>2, LoadedLog, LoadedOK
    <3>4. getLastIndex(r) = getLastIndex(l)
      BY <3>1, <3>3 DEF getLastIndex, b
    <3>5. Kept(r, p.log, m.log) /\ p.commitIndex <= c /\ p.log.lastIncludedIndex <= b
      BY <2>14, <3>1 DEF Point
    <3> HIDE DEF w
    <3>6. FilesOK(w) /\ IsRest(s.entries, r.entries, c - b)
      BY <2>2, <2>5, <3>1, <3>2, <3>4, SnapshotFiles
    <3>7. LogOK(s) /\ s.entries \in Seq(Entries)
      BY <3>6, LoadedOK, LogFields
    <3> HIDE DEF r, s
    <3>8. s.entries = k.entries
      <4> DEFINE j == c - b
      <4>1. j \in 0..Len(l.entries) /\ l.entries \in Seq(Entries)
        <5>1. /\ Len(l.entries) \in Nat /\ l.entries \in Seq(Entries)
              /\ getLastIndex(l) = b + Len(l.entries)
          BY <2>2, LogFields DEF b
        <5> QED
          BY <2>2, <5>1
      <4>2. IsRest(s.entries, l.entries, j) /\ IsRest(k.entries, l.entries, j)
        BY <2>6, <3>1, <3>6
      <4> HIDE DEF j
      <4> QED
        BY <2>6, <3>7, <4>1, <4>2, RestsEqual
    <3>9. /\ getLastIndex(s) = getLastIndex(r)
          /\ \A i \in (c + 1)..getLastIndex(r) : getEntry(s, i) = getEntry(r, i)
      BY <2>2, <3>3, <3>4, <3>6, <3>7, RestLog
    <3>10. Commit(w) = c
      <4>1. q.state.commitIndex <= c
        BY <2>2, <3>1, CommitIs
      <4> QED
        BY <2>2, <2>5, <3>1, <3>2, <4>1, CommitIs
    <3>11. Agrees(s, c)
      BY <2>2, <3>3, <3>4, <3>9 DEF Agrees
    <3>12. DiskOK(w)
      BY <2>2, <2>5, <3>1, <3>2, <3>6, <3>10, <3>11 DEF DiskOK, s
    <3>13. Kept(s, p.log, m.log)
      <4> SUFFICES ASSUME NEW i \in (s.lastIncludedIndex + 1)..getLastIndex(p.log),
                          getTermAt(m.log, i) = getEntry(p.log, i).term
                   PROVE  i <= getLastIndex(s) /\ getEntry(s, i).term = getEntry(p.log, i).term
        BY DEF Kept
      <4>1. i \in (r.lastIncludedIndex + 1)..getLastIndex(p.log)
        BY <2>2, <3>3, LogFields
      <4>2. i <= getLastIndex(r) /\ getEntry(r, i).term = getEntry(p.log, i).term
        BY <3>5, <4>1 DEF Kept
      <4>3. i \in (c + 1)..getLastIndex(r)
        BY <2>2, <3>3, <3>4, <4>2
      <4> QED
        BY <3>9, <4>2, <4>3
    <3>14. p.log.lastIncludedIndex <= c
      BY <2>2, <3>5, LogFields
    <3>15. Point(w, p, m)
      BY <2>5, <3>2, <3>5, <3>10, <3>12, <3>13, <3>14 DEF Point, s
    <3>16. Match(w, m)
      BY <2>4, <2>5, <2>6, <3>2, <3>8, <3>10 DEF Match, s
    <3> QED
      BY <3>15, <3>16 DEF w
  <2>15. PICK C : Stage(C, d, Append(h.writes, x), p, m)
    BY <2>10, <2>11, <2>13, <2>14, Extend
  <2>16. ASSUME NEW q, Point(q, p, m), Match(q, m)
         PROVE  Point(Written(q, y), p, m) /\ Match(Written(q, y), m)
    <3> DEFINE w == Written(q, y)
    <3>1. IsDisk(q) /\ q.snapshot.lastIncludedIndex = c /\ Loaded(q).log.entries = k.entries
      BY <2>4, <2>6, <2>16 DEF Point, DiskOK, FilesOK, Match
    <3>5. y.file = "rewrite" /\ y.value = k.entries
      BY <2>5
    <3>2. /\ IsDisk(w) /\ w.state = q.state /\ w.snapshot = q.snapshot
          /\ w.lines = k.entries
      BY <3>1, <3>5, WrittenLog
    <3> HIDE DEF w
    <3>3. Numbered(w.lines, w.snapshot.lastIncludedIndex)
      BY <2>6, <2>7, <3>1, <3>2 DEF LogOK
    <3>4. FilesOK(w) /\ Loaded(w).log.entries = Loaded(q).log.entries
      BY <2>2, <3>1, <3>2, <3>3, RewriteFiles
    <3> QED
      BY <2>16, <3>2, <3>4, SamePoint DEF w
  <2>17. IsSeq(Append(h.writes, x))
    BY <2>11, AppendAny
  <2> DEFINE v == Append(h.writes, x)
             u == Append(v, y)
             N == Len(h.writes)
  <2>18. /\ IsSeq(u) /\ N \in Nat /\ Len(u) = N + 2
         /\ \A j \in 1..N : u[j] = h.writes[j]
         /\ u[N + 1] = x /\ u[N + 2] = y
    <3>1. IsSeq(v) /\ N \in Nat /\ Len(v) = N + 1 /\ (\A j \in 1..N : v[j] = h.writes[j]) /\ v[N + 1] = x
      BY <2>11, AppendAny
    <3> HIDE DEF v, N
    <3>2. IsSeq(u) /\ Len(u) = Len(v) + 1 /\ (\A j \in 1..Len(v) : u[j] = v[j]) /\ u[Len(v) + 1] = y
      BY <3>1, AppendAny
    <3> HIDE DEF u
    <3>3. N + 1 + 1 = N + 2 /\ N + 1 \in 1..(N + 1) /\ \A j \in 1..N : j \in 1..(N + 1)
      BY <3>1
    <3> QED
      BY <3>1, <3>2, <3>3
  <2>19. PICK B : Stage(B, d, u, p, m)
    BY <2>15, <2>16, <2>17, Extend
  <2> HIDE DEF v, u
  <2>20. \A j \in 0..Len(u) : ~Exempt(u, j)
    <3> SUFFICES ASSUME NEW j \in 0..Len(u), Exempt(u, j) PROVE FALSE
      OBVIOUS
    <3>1. j + 2 <= N + 2 /\ u[j + 1].file = "snapshot" /\ u[j + 2].file = "state"
      BY <2>18 DEF Exempt
    <3> HIDE DEF N
    <3>2. CASE j = N
      BY <3>1, <3>2, <2>5, <2>18
    <3>3. CASE j < N
      <4>1. j + 1 \in 1..N
        BY <3>3, <2>18
      <4> QED
        BY <3>1, <4>1, <2>11, <2>18 DEF Plain, N
    <3> QED
      BY <3>1, <3>2, <3>3, <2>18
  <2>21. Left(B, d, u, p, m)
    BY <2>19, <2>20, <2>18 DEF Stage, Left
  <2> QED
    BY <2>1, <2>4, <2>9, <2>18, <2>21 DEF Done, u, v
<1> QED
  BY <1>1, <1>2
\* applySnapshot rewrites the log, saves the snapshot and then the state.
LEMMA InstallDone ==
  ASSUME NEW h, NEW d, NEW p, Good(h, d, p), LogOK(p.log), p.log = h.node.log,
         p.commitIndex = h.node.commitIndex,
         NEW i \in 1..Len(Chosen), h.node.commitIndex < i, NEW t,
         NEW sn, sn = [lastIncludedIndex |-> i, lastIncludedTerm |-> t, boards |-> BoardAt(i)]
  PROVE  Done(applySnapshot(h, sn), d, p)
<1> DEFINE n == h.node
           l == n.log
           b == l.lastIncludedIndex
           k == installSnapshot(l, i, t)
           m == [n EXCEPT !.log = k, !.board = sn.boards, !.commitIndex = sn.lastIncludedIndex]
           x == rewriteLog(k)
           y == saveSnapshot(sn)
           z == saveState(m)
           g == Issue([h EXCEPT !.node = m], x)
           f == Issue(g, y)
           e == Issue(f, z)
           v == Append(h.writes, x)
           u == Append(v, y)
           w == Append(u, z)
           N == Len(h.writes)
<1>1. applySnapshot(h, sn) = e
  BY DEF applySnapshot
<1>2. /\ IsHandler(h) /\ IsNode(n) /\ LogOK(l) /\ NodeOK(n)
      /\ n.commitIndex \in Nat /\ n.commitIndex < i /\ b <= n.commitIndex /\ b \in Nat
      /\ getLastIndex(l) \in Nat /\ i \in Nat /\ i <= Len(Chosen) /\ b < i
      /\ p.commitIndex = n.commitIndex /\ p.log = l
  <2>1. /\ IsHandler(h) /\ NodeOK(n) /\ LogOK(l) /\ b \in Nat /\ getLastIndex(l) \in Nat
    BY LogFields DEF Good, NodeOK
  <2>2. n.commitIndex \in Nat /\ n.commitIndex < i /\ b <= n.commitIndex /\ IsNode(n)
    BY <2>1 DEF NodeOK
  <2> DEFINE c == n.commitIndex
  <2>3. i \in Nat /\ i <= Len(Chosen)
    BY PersistenceAssumption
  <2>4. b < i
    <3> HIDE DEF b, c
    <3> QED
      BY <2>1, <2>2, <2>3 DEF c
  <2> QED
    BY <2>1, <2>2, <2>3, <2>4
<1>3. sn.lastIncludedIndex = i /\ sn.boards = BoardAt(i)
  OBVIOUS
<1>4. /\ IsNode(m) /\ m.log = k /\ m.commitIndex = i /\ m.board = BoardAt(i)
  BY <1>2 DEF IsNode
<1>5. /\ x.file = "rewrite" /\ x.value = k.entries
      /\ y.file = "snapshot" /\ y.value = sn
      /\ z.file = "state" /\ z.value.commitIndex = i
  BY <1>4 DEF rewriteLog, saveSnapshot, saveState
<1>6. IsHandler(e) /\ e.node = m /\ e.writes = w
  <2> HIDE DEF m, x, y, z
  <2>1. IsHandler(g) /\ g.node = m /\ g.writes = v
    BY <1>2 DEF IsHandler, Issue
  <2> HIDE DEF g, v
  <2>2. IsHandler(f) /\ f.node = m /\ f.writes = u
    BY <2>1, IssueOnlyIs
  <2> HIDE DEF f, u
  <2> QED
    BY <2>2, IssueOnlyIs
<1>7. /\ IsLog(k) /\ k.lastIncludedIndex = i /\ k.entries = EntriesAfter(l.entries, i)
  BY DEF installSnapshot, IsLog
<1> HIDE DEF m, x, y, z, e, f, g, k
\* The log that is left agrees with the old one behind the snapshot.
<1>8. /\ LogOK(k)
      /\ \A j \in (i + 1)..getLastIndex(l) :
           j <= getLastIndex(k) /\ getEntry(k, j) = getEntry(l, j)
  <2> DEFINE es == l.entries
  <2>1. /\ Numbered(es, b) /\ b \in Nat /\ i \in Nat /\ b <= i
        /\ getLastIndex(l) = b + Len(es) /\ Len(es) \in Nat
    <3>1. getLastIndex(l) = b + Len(es) /\ Len(es) \in Nat
      BY <1>2, LogFields
    <3>2. Numbered(es, b)
      BY <1>2 DEF LogOK
    <3> HIDE DEF l, es, b
    <3> QED
      BY <1>2, <3>1, <3>2
  <2> HIDE DEF l, es, b
  <2>2. /\ EntriesAfter(es, i) \in Seq(Entries)
        /\ IF i <= b + Len(es) THEN IsRest(EntriesAfter(es, i), es, i - b)
                               ELSE EntriesAfter(es, i) = <<>>
    BY <2>1, AfterIs
  <2>3. k.entries = EntriesAfter(es, i)
    BY <1>7 DEF es
  <2>4. CASE i <= getLastIndex(l)
    <3>1. k.entries \in Seq(Entries) /\ IsRest(k.entries, l.entries, i - l.lastIncludedIndex)
      BY <2>1, <2>2, <2>3, <2>4 DEF es, b
    <3>2. /\ LogOK(k) /\ getLastIndex(k) = getLastIndex(l)
          /\ \A j \in (i + 1)..getLastIndex(l) : getEntry(k, j) = getEntry(l, j)
      <4>1. l.lastIncludedIndex <= i
        BY <2>1 DEF b
      <4> QED
        BY <1>2, <1>7, <2>4, <3>1, <4>1, RestLog
    <3> QED
      BY <1>2, <3>2
  <2>5. CASE i > getLastIndex(l)
    <3>1. k.entries = <<>>
      BY <2>1, <2>2, <2>3, <2>5
    <3>2. LogOK(k)
      BY <1>2, <1>7, <3>1 DEF LogOK, Numbered
    <3>3. (i + 1)..getLastIndex(l) = {}
      BY <1>2, <2>5
    <3> QED
      BY <3>2, <3>3
  <2> QED
    BY <1>2, <2>4, <2>5
<1>9. Agrees(k, i)
  <2>1. i <= getLastIndex(k)
    BY <1>2, <1>7, <1>8, LogFields
  <2>2. (k.lastIncludedIndex + 1)..i = {}
    BY <1>2, <1>7
  <2> QED
    BY <2>1, <2>2 DEF Agrees
<1>10. NodeOK(m)
  BY <1>2, <1>4, <1>7, <1>8, <1>9 DEF NodeOK
<1> HIDE DEF n, l, b
\* The snapshot, behind the rewritten log.
<1>11. ASSUME NEW q, Point(q, p, n), Match(q, n),
              NEW r, IsDisk(r), r.snapshot = sn, r.lines = k.entries,
              r.state.commitIndex \in {q.state.commitIndex, i}
       PROVE  FilesOK(r) /\ Point(r, p, m) /\ Match(r, m) /\ Loaded(r).log.entries = k.entries
  <2> DEFINE s == Loaded(r).log
  <2>1. FilesOK(r) /\ s.entries = k.entries
    BY <1>2, <1>3, <1>7, <1>8, <1>11, RewriteFiles DEF LogOK
  <2>2. s.lastIncludedIndex = i /\ k.lastIncludedIndex = i
    BY <1>3, <1>7, <1>11, LoadedLog
  <2> HIDE DEF s
  <2>3. /\ q.state.commitIndex \in Nat /\ q.snapshot.lastIncludedIndex \in Nat
        /\ Commit(q) = n.commitIndex
    BY <1>11 DEF Point, DiskOK, FilesOK, Match
  <2>4. q.state.commitIndex < i
    <3>1. q.state.commitIndex <= n.commitIndex
      BY <2>3, CommitIs
    <3> QED
      BY <1>2, <2>3, <3>1
  <2>5. Commit(r) = i /\ r.state.commitIndex \in Nat
    <3>1. r.state.commitIndex \in Nat /\ r.state.commitIndex <= i /\ r.snapshot.lastIncludedIndex = i
      BY <1>2, <1>3, <1>11, <2>3, <2>4
    <3> QED
      BY <1>2, <3>1, CommitIs
  <2>6. Agrees(s, i)
    BY <1>9, <2>1, <2>2, SameAgrees
  <2>7. DiskOK(r)
    BY <1>2, <1>3, <1>11, <2>1, <2>5, <2>6 DEF DiskOK, s
  <2>8. Kept(k, p.log, m.log)
    <3>1. \A j \in (i + 1)..getLastIndex(l) : j <= getLastIndex(k) /\ getEntry(k, j) = getEntry(l, j)
      BY <1>8
    <3> QED
      BY <1>2, <2>2, <3>1 DEF Kept
  <2>9. Kept(s, p.log, m.log)
    BY <2>1, <2>2, <2>8, KeptSame
  <2>10. p.commitIndex <= i /\ p.log.lastIncludedIndex <= i
    BY <1>2 DEF b
  <2> QED
    BY <1>3, <1>4, <1>7, <1>11, <2>1, <2>5, <2>7, <2>9, <2>10 DEF Point, Match, s
<1>12. \A q : Point(q, p, n) => Point(q, p, m)
  BY <1>2, PointAny DEF l
<1>13. PICK D : Stage(D, d, h.writes, p, n)
  BY DEF Good, n
<1>14. IsSeq(h.writes) /\ Plain(h.writes)
  BY DEF Good
<1>15. /\ IsSeq(w) /\ N \in Nat /\ Len(w) = N + 3
       /\ \A j \in 1..N : w[j] = h.writes[j]
       /\ w[N + 1] = x /\ w[N + 2] = y /\ w[N + 3] = z
  <2>1. /\ IsSeq(v) /\ N \in Nat /\ Len(v) = N + 1
        /\ (\A j \in 1..N : v[j] = h.writes[j]) /\ v[N + 1] = x
    BY <1>14, AppendAny
  <2> HIDE DEF v, N
  <2>2. /\ IsSeq(u) /\ Len(u) = Len(v) + 1
        /\ (\A j \in 1..Len(v) : u[j] = v[j]) /\ u[Len(v) + 1] = y
    BY <2>1, AppendAny
  <2> HIDE DEF u
  <2>3. /\ IsSeq(w) /\ Len(w) = Len(u) + 1
        /\ (\A j \in 1..Len(u) : w[j] = u[j]) /\ w[Len(u) + 1] = z
    BY <2>2, AppendAny
  <2> HIDE DEF w
  <2>4. Len(u) = N + 2 /\ Len(w) = N + 3 /\ w[N + 3] = z
    BY <2>1, <2>2, <2>3
  <2>5. u[N + 2] = y /\ w[N + 2] = u[N + 2]
    <3>1. N + 2 = Len(v) + 1 /\ N + 2 \in 1..Len(u)
      BY <2>1, <2>4
    <3> QED
      BY <2>2, <2>3, <3>1
  <2>6. w[N + 1] = x
    <3>1. N + 1 \in 1..Len(v) /\ N + 1 \in 1..Len(u)
      BY <2>1, <2>4
    <3> QED
      BY <2>1, <2>2, <2>3, <3>1
  <2>7. \A j \in 1..N : w[j] = h.writes[j]
    <3> TAKE j \in 1..N
    <3>1. j \in 1..Len(v) /\ j \in 1..Len(u)
      BY <2>1, <2>4
    <3> QED
      BY <2>1, <2>2, <2>3, <3>1
  <2> QED
    BY <2>1, <2>3, <2>4, <2>5, <2>6, <2>7
<1> HIDE DEF v, u, w
<1> DEFINE q == D[N]
           r1 == Written(q, x)
           r2 == Written(r1, y)
           r3 == Written(r2, z)
           C == [j \in 0..(N + 3) |->
                   IF j <= N THEN D[j]
                   ELSE IF j = N + 1 THEN r1 ELSE IF j = N + 2 THEN r2 ELSE r3]
<1>16. /\ \A j \in 0..N : C[j] = D[j]
       /\ C[N + 1] = r1 /\ C[N + 2] = r2 /\ C[N + 3] = r3
       /\ C[N] = q
  BY <1>15
<1> HIDE DEF C
<1>17. Path(C, d, w)
  <2>1. C[0] = d
    BY <1>13, <1>15, <1>16 DEF Stage, Path
  <2>2. ASSUME NEW j \in 1..Len(w) PROVE C[j] = Written(C[j - 1], w[j])
    <3>1. CASE j \in 1..N
      <4>1. D[j] = Written(D[j - 1], h.writes[j])
        BY <3>1, <1>13 DEF Stage, Path
      <4>2. j \in 0..N /\ j - 1 \in 0..N
        BY <3>1, <1>15
      <4> QED
        BY <3>1, <4>1, <4>2, <1>15, <1>16
    <3>2. CASE j = N + 1
      <4>1. j - 1 = N
        BY <3>2, <1>15
      <4> QED
        BY <3>2, <4>1, <1>15, <1>16
    <3>3. CASE j = N + 2
      <4>1. j - 1 = N + 1
        BY <3>3, <1>15
      <4> HIDE DEF r1
      <4> QED
        BY <3>3, <4>1, <1>15, <1>16
    <3>4. CASE j = N + 3
      <4>1. j - 1 = N + 2
        BY <3>4, <1>15
      <4> HIDE DEF r2
      <4> QED
        BY <3>4, <4>1, <1>15, <1>16
    <3>5. j \in 1..N \/ j = N + 1 \/ j = N + 2 \/ j = N + 3
      <4> HIDE DEF N
      <4> QED
        BY <1>15
    <3> QED
      BY <3>1, <3>2, <3>3, <3>4, <3>5
  <2> QED
    BY <2>1, <2>2 DEF Path
<1>18. \A j \in 0..N : Clean(C, w, j) => Clean(D, h.writes, j)
  <2> SUFFICES ASSUME NEW j \in 0..N, Clean(C, w, j), NEW a \in 1..j
               PROVE  ~(h.writes[a].file = "append" /\ D[a - 1].unfinished)
    BY DEF Clean
  <2>1. a \in 1..N /\ a - 1 \in 0..N
    BY <1>15
  <2> QED
    BY <2>1, <1>15, <1>16 DEF Clean
<1>19. \A j \in 0..N : Clean(C, w, j) => Point(C[j], p, m)
  BY <1>12, <1>13, <1>16, <1>18 DEF Stage, N
<1>20. ASSUME \E j \in N..(N + 3) : Clean(C, w, j)
       PROVE  Point(q, p, n) /\ Match(q, n)
  <2>1. PICK j \in N..(N + 3) : Clean(C, w, j)
    BY <1>20
  <2>2. Clean(C, w, N)
    BY <2>1, <1>15 DEF Clean
  <2>3. Clean(D, h.writes, N)
    BY <2>2, <1>15, <1>18
  <2>4. N \in 0..Len(h.writes) /\ N = Len(h.writes)
    BY <1>15
  <2> QED
    BY <2>3, <2>4, <1>13 DEF Stage
<1>21. ASSUME Point(q, p, n), Match(q, n)
       PROVE  /\ Point(r2, p, m) /\ Point(r3, p, m) /\ Match(r3, m)
  <2>1. IsDisk(q)
    BY <1>21 DEF Point, DiskOK, FilesOK
  <2>6. x.file = "rewrite" /\ x.value = k.entries
    BY <1>5
  <2> HIDE DEF q
  <2>2. IsDisk(r1) /\ r1.lines = k.entries /\ r1.state = q.state
    BY <2>1, <2>6, WrittenLog
  <2> HIDE DEF r1
  <2>3. /\ IsDisk(r2) /\ r2.snapshot = sn /\ r2.lines = k.entries /\ r2.state = q.state
    BY <1>5, <2>2, WrittenSnapshot
  <2> HIDE DEF r2
  <2>4. /\ IsDisk(r3) /\ r3.snapshot = sn /\ r3.lines = k.entries /\ r3.state.commitIndex = i
    BY <1>5, <2>3, WrittenState
  <2> HIDE DEF r3
  <2>5. Point(r2, p, m)
    BY <1>11, <1>21, <2>3
  <2> QED
    BY <1>11, <1>21, <2>4, <2>5
<1> HIDE DEF q, r1, r2, r3
<1>22. Exempt(w, N + 1)
  BY <1>5, <1>15 DEF Exempt
<1>23. ASSUME NEW j \in 0..Len(w), Clean(C, w, j)
       PROVE  Exempt(w, j) \/ Point(C[j], p, m)
  <2>1. CASE j \in 0..N
    BY <2>1, <1>19, <1>23
  <2>2. CASE j = N + 1
    BY <2>2, <1>22
  <2>3. CASE j = N + 2
    <3>1. j \in N..(N + 3)
      BY <2>3, <1>15
    <3> QED
      BY <2>3, <3>1, <1>16, <1>20, <1>21, <1>23
  <2>4. CASE j = N + 3
    <3>1. j \in N..(N + 3)
      BY <2>4, <1>15
    <3> QED
      BY <2>4, <3>1, <1>16, <1>20, <1>21, <1>23
  <2>5. j \in 0..N \/ j = N + 1 \/ j = N + 2 \/ j = N + 3
    <3> HIDE DEF N
    <3> QED
      BY <1>15
  <2> QED
    BY <2>1, <2>2, <2>3, <2>4, <2>5
<1>24. Clean(C, w, Len(w)) => Match(C[Len(w)], m)
  <2>1. N + 3 \in N..(N + 3)
    BY <1>15
  <2> QED
    BY <2>1, <1>15, <1>16, <1>20, <1>21
<1>25. ASSUME NEW j \in 1..Len(w), Exempt(w, j)
       PROVE  w[j].file = "rewrite"
  <2>1. j + 2 <= N + 3 /\ w[j + 1].file = "snapshot"
    BY <1>15, <1>25 DEF Exempt
  <2>2. CASE j < N
    <3>1. j + 1 \in 1..N
      BY <2>2, <1>15
    <3> QED
      BY <2>1, <3>1, <1>14, <1>15 DEF Plain, N
  <2>3. CASE j = N
    BY <2>1, <2>3, <1>5, <1>15
  <2>4. CASE j = N + 1
    BY <2>4, <1>5, <1>15
  <2>5. j < N \/ j = N \/ j = N + 1
    BY <2>1, <1>15
  <2> QED
    BY <2>2, <2>3, <2>4, <2>5
<1>26. Left(C, d, w, p, m)
  BY <1>17, <1>23, <1>24, <1>25 DEF Left
<1> QED
  BY <1>1, <1>6, <1>10, <1>15, <1>26 DEF Done
-----------------------------------------------------------------------------
(* The specification, again.                                               *)

DurInv ==
  ~glued /\ ~cutShort =>
    /\ NodeOK(promised)
    /\ status = "up" =>
         /\ NodeOK(node) /\ IsSeq(writes)
         /\ \E D : Left(D, disk, writes, promised, node)
    /\ status /= "up" => Point(disk, promised, node)
    /\ Idle => promised = node

\* What a restart would find now.
LEMMA FirstPoint ==
  ASSUME NEW D, NEW d, NEW w, NEW p, NEW n, IsSeq(w), Left(D, d, w, p, n), ~Exempt(w, 0)
  PROVE  Point(d, p, n)
<1>1. Len(w) \in Nat
  BY AppendAny
<1>2. Clean(D, w, 0) /\ 0 \in 0..Len(w) /\ D[0] = d
  BY <1>1 DEF Clean, Left, Path
<1> QED
  BY <1>2 DEF Left

\* After the last write the memory is what was promised.
LEMMA LastPoint ==
  ASSUME NEW D, NEW d, NEW w, NEW p, NEW n, w = <<>>, Left(D, d, w, p, n), NodeOK(n)
  PROVE  Left(D, d, w, n, n)
<1>1. Len(w) = 0
  BY EmptyIsSeq
<1>2. Clean(D, w, 0) /\ ~Exempt(w, 0) /\ D[0] = d
  BY <1>1 DEF Clean, Exempt, Left, Path
<1>3. Point(D[0], p, n) /\ Match(D[0], n)
  BY <1>1, <1>2 DEF Left
<1>4. Point(D[0], n, n)
  BY <1>3, MatchPoint DEF Point, NodeOK
<1> QED
  BY <1>1, <1>4 DEF Left

LEMMA RunDone ==
  ASSUME NEW h, Done(h, disk, promised), NodeOK(promised), Run(h), status' = "up"
  PROVE  DurInv'
<1>1. node' = h.node /\ writes' = h.writes /\ disk' = disk
  BY DEF Run
<1>2. PICK D : Left(D, disk, h.writes, promised, h.node)
  BY DEF Done
<1>3. NodeOK(h.node) /\ IsSeq(h.writes)
  BY DEF Done
<1>4. CASE h.writes = <<>>
  <2>1. promised' = h.node
    BY <1>4 DEF Run
  <2>2. Left(D, disk, h.writes, h.node, h.node)
    BY <1>2, <1>3, <1>4, LastPoint
  <2>3. NodeOK(promised') /\ NodeOK(node') /\ IsSeq(writes')
    BY <1>1, <1>3, <2>1
  <2>4. \E C : Left(C, disk', writes', promised', node')
    BY <1>1, <2>1, <2>2
  <2> QED
    BY <1>1, <2>1, <2>3, <2>4 DEF DurInv
<1>5. CASE h.writes /= <<>>
  <2>1. promised' = promised
    BY <1>5 DEF Run
  <2>2. NodeOK(promised') /\ NodeOK(node') /\ IsSeq(writes')
    BY <1>1, <1>3, <2>1
  <2>3. \E C : Left(C, disk', writes', promised', node')
    BY <1>1, <1>2, <2>1
  <2>4. ~Idle'
    BY <1>1, <1>5 DEF Idle
  <2> QED
    BY <2>2, <2>3, <2>4 DEF DurInv
<1> QED
  BY <1>4, <1>5

\* A handler starts from what was promised.
LEMMA StartGood ==
  ASSUME DurInv, Idle, ~glued, ~cutShort
  PROVE  /\ Good(Start, disk, promised) /\ NodeOK(promised) /\ LogOK(promised.log)
         /\ promised.commitIndex \in Nat /\ promised = node
         /\ Start.node = node
<1>1. /\ status = "up" /\ writes = <<>> /\ promised = node /\ NodeOK(node)
      /\ \E D : Left(D, disk, writes, promised, node)
  BY DEF DurInv, Idle
<1>2. Start.node = node /\ Start.writes = writes /\ IsHandler(Start)
  BY <1>1 DEF Start, IsHandler
<1>3. PICK D : Left(D, disk, writes, promised, node)
  BY <1>1
<1>4. Len(writes) = 0 /\ IsSeq(writes)
  BY <1>1, EmptyIsSeq
<1>5. Stage(D, disk, writes, promised, node)
  BY <1>3, <1>4 DEF Left, Stage, Exempt
<1>6. Plain(writes)
  BY <1>4 DEF Plain
<1> QED
  BY <1>1, <1>2, <1>4, <1>5, <1>6 DEF Good, NodeOK

\* The constructor finds what was promised.
LEMMA LoadedGood ==
  ASSUME NEW d, DiskOK(d), NEW p, LogOK(p.log), p.commitIndex <= Commit(d),
         p.log.lastIncludedIndex <= d.snapshot.lastIncludedIndex,
         NEW h, h = [node |-> Loaded(d), writes |-> <<>>]
  PROVE  Good(h, d, p)
<1> DEFINE n == Loaded(d)
           l == n.log
           b == d.snapshot.lastIncludedIndex
           c == Commit(d)
<1>1. IsHandler(h) /\ h.node = n /\ h.writes = <<>>
  BY DEF IsHandler
<1>2. /\ FilesOK(d) /\ LogOK(l) /\ l.lastIncludedIndex = b /\ b \in Nat
      /\ getLastIndex(l) \in Nat /\ Agrees(l, c) /\ c <= Len(Chosen)
      /\ d.snapshot.boards = BoardAt(b)
  BY LoadedOK, LogFields DEF DiskOK, FilesOK
<1>3. c \in Nat /\ b <= c
  BY <1>2, CommitIs DEF DiskOK
<1>4. /\ IsNode(n) /\ n.commitIndex = c
      /\ n.board = d.snapshot.boards \o Applied(l, b + 1, c)
  BY DEF Loaded, IsNode, Commit
<1> HIDE DEF n, l, b, c
<1>5. BoardAt(b) \o Applied(l, b + 1, c) = BoardAt(c)
  <2>1. l.lastIncludedIndex <= b /\ l.lastIncludedIndex \in Nat
    BY <1>2
  <2> QED
    BY <1>2, <1>3, <2>1, AppliedIs
<1>6. NodeOK(n)
  BY <1>2, <1>3, <1>4, <1>5 DEF NodeOK, l
<1>7. Match(d, n)
  BY <1>2, <1>4 DEF Match, l, n, b, c
<1>8. Kept(l, p.log, l)
  <2> SUFFICES ASSUME NEW i \in (l.lastIncludedIndex + 1)..getLastIndex(p.log),
                      getTermAt(l, i) = getEntry(p.log, i).term
               PROVE  i <= getLastIndex(l) /\ getEntry(l, i).term = getEntry(p.log, i).term
    BY DEF Kept
  <2>1. i \in Int /\ i \in (p.log.lastIncludedIndex + 1)..getLastIndex(p.log)
    <3>1. p.log.lastIncludedIndex \in Nat /\ getLastIndex(p.log) \in Nat
      BY LogFields
    <3>2. p.log.lastIncludedIndex <= l.lastIncludedIndex /\ l.lastIncludedIndex \in Nat
      BY <1>2 DEF b
    <3> QED
      BY <3>1, <3>2
  <2>2. getEntry(p.log, i).term >= 1
    BY <2>1, EntryAt
  <2>3. i <= getLastIndex(l)
    BY <1>2, <2>1, <2>2, NoTermAt
  <2>4. i \in (l.lastIncludedIndex + 1)..getLastIndex(l)
    BY <1>2, <2>3
  <2> QED
    BY <1>2, <2>3, <2>4, EntryAt
<1>9. Point(d, p, n)
  BY <1>8 DEF Point, l, n
<1> DEFINE D == [k \in {0} |-> d]
<1>10. Stage(D, d, h.writes, p, n)
  <2>1. Len(h.writes) = 0 /\ D[0] = d
    BY <1>1, EmptyIsSeq
  <2> HIDE DEF D
  <2> QED
    BY <1>7, <1>9, <2>1 DEF Stage, Path
<1>11. IsSeq(h.writes) /\ Plain(h.writes)
  BY <1>1, EmptyIsSeq DEF Plain
<1> QED
  BY <1>1, <1>6, <1>10, <1>11 DEF Good

LEMMA EmptyDisk == DiskOK(emptyDisk) /\ Match(emptyDisk, Loaded(emptyDisk))
<1> DEFINE d == emptyDisk
<1>1. /\ IsDisk(d) /\ d.lines = <<>> /\ d.snapshot.lastIncludedIndex = 0
      /\ d.snapshot.boards = <<>> /\ d.state.commitIndex = 0 /\ ~d.unfinished
  BY DEF emptyDisk, noSnapshot, IsDisk
<1> HIDE DEF d
<1>2. Numbered(d.lines, 0)
  BY <1>1 DEF Numbered
<1>3. FilesOK(d)
  BY <1>1, <1>2, RewriteFiles
<1>4. Commit(d) = 0
  BY <1>1, CommitIs
<1>5. BoardAt(0) = <<>>
  <2>1. BoardAt(0) \in Seq(Strokes) /\ Len(BoardAt(0)) = 0
    BY BoardIs, PersistenceAssumption
  <2> DEFINE s == BoardAt(0)
  <2> HIDE DEF s
  <2>2. s \in Seq(Strokes) /\ Len(s) = 0 => s = <<>>
    OBVIOUS
  <2> QED
    BY <2>1, <2>2 DEF s
<1>6. Agrees(Loaded(d).log, 0)
  <2>1. LogOK(Loaded(d).log)
    BY <1>3, LoadedOK
  <2>2. 0 <= getLastIndex(Loaded(d).log) /\ Loaded(d).log.lastIncludedIndex \in Nat
    BY <2>1, LogFields
  <2> QED
    BY <2>2 DEF Agrees
<1>7. 0 <= Len(Chosen)
  BY PersistenceAssumption
<1>8. DiskOK(d)
  BY <1>1, <1>3, <1>4, <1>5, <1>6, <1>7 DEF DiskOK
<1>9. Match(d, Loaded(d))
  BY LoadedLog DEF Match, Loaded, Commit
<1> QED
  BY <1>8, <1>9 DEF d

LEMMA DurStart == Init => DurInv
<1> SUFFICES ASSUME Init PROVE DurInv
  OBVIOUS
<1> DEFINE h == [node |-> Loaded(disk), writes |-> <<>>]
<1>1. disk = emptyDisk /\ node = Loaded(disk) /\ writes = <<>> /\ promised = node
      /\ status = "up"
  BY DEF Init
<1>2. DiskOK(disk) /\ Match(disk, node)
  BY <1>1, EmptyDisk
<1>3. LogOK(node.log) /\ node.commitIndex = Commit(disk)
      /\ node.log.lastIncludedIndex = disk.snapshot.lastIncludedIndex
  BY <1>1, <1>2, LoadedOK DEF DiskOK, Match
<1>4. disk.snapshot.lastIncludedIndex \in Nat /\ Commit(disk) \in Nat
  <2>1. disk.snapshot.lastIncludedIndex \in Nat /\ disk.state.commitIndex \in Nat
    BY <1>2 DEF DiskOK, FilesOK
  <2> QED
    BY <2>1, CommitIs
<1>5. Good(h, disk, node)
  <2>1. node.commitIndex <= Commit(disk)
        /\ node.log.lastIncludedIndex <= disk.snapshot.lastIncludedIndex
    BY <1>3, <1>4
  <2> QED
    BY <1>2, <1>3, <2>1, LoadedGood
<1>6. h.node = node /\ h.writes = writes
  BY <1>1
<1> HIDE DEF h
<1>7. Done(h, disk, node)
  BY <1>5, GoodDone
<1> QED
  BY <1>1, <1>6, <1>7 DEF DurInv, Done
LEMMA HandlerDur ==
  ASSUME DurInv, NEW term \in 1..MaxTerm,
         \/ \E es \in Batches, c \in 0..Len(Chosen) : handleAppendEntries(term, es, c)
         \/ \E candidate \in Candidate, upToDate \in BOOLEAN :
              handleRequestVote(term, candidate, upToDate)
         \/ \E index \in 1..Len(Chosen) : handleInstallSnapshot(term, index)
  PROVE  DurInv'
<1> DEFINE adopted == AdoptTerm(Start, term)
           p == promised
<1>1. Idle /\ status' = "up" /\ glued' = glued /\ cutShort' = cutShort
  BY DEF handleAppendEntries, handleRequestVote, handleInstallSnapshot, Idle, Run
<1> SUFFICES ASSUME ~glued, ~cutShort PROVE DurInv'
  BY <1>1 DEF DurInv
<1>2. /\ Good(Start, disk, p) /\ NodeOK(p) /\ LogOK(p.log) /\ p.commitIndex \in Nat
      /\ p = node /\ Start.node = node
  BY <1>1, StartGood
<1>3. /\ Good(adopted, disk, p) /\ adopted.node.log = node.log
      /\ adopted.node.commitIndex = node.commitIndex
  BY <1>2, AdoptGood
<1>4. ASSUME NEW es \in Batches, NEW c \in 0..Len(Chosen), handleAppendEntries(term, es, c)
      PROVE  DurInv'
  <2> DEFINE taken == IF es = <<>> THEN adopted ELSE TakeEntry(adopted, es[1])
             commit == Min({c, getLastIndex(taken.node.log)})
             h == IF c > node.commitIndex THEN CommitTo(taken, commit) ELSE taken
  <2>1. /\ Run(h)
        /\ c > node.commitIndex => Agrees(taken.node.log, commit)
        /\ es /= <<>> =>
             /\ es[1].index \in (node.log.lastIncludedIndex + 1)..(getLastIndex(node.log) + 1)
             /\ es[1].index <= node.commitIndex => es[1].term = Chosen[es[1].index]
    BY <1>4 DEF handleAppendEntries
  <2> HIDE DEF adopted, p
  <2>2. Good(taken, disk, p) /\ taken.node.commitIndex = node.commitIndex
    <3>1. CASE es = <<>>
      BY <3>1, <1>3
    <3>2. CASE es /= <<>>
      <4>1. es[1] \in Entries
        BY <3>2 DEF Batches, Entries
      <4>2. Good(TakeEntry(adopted, es[1]), disk, p)
            /\ TakeEntry(adopted, es[1]).node.commitIndex = adopted.node.commitIndex
        BY <1>2, <1>3, <2>1, <3>2, <4>1, TakeGood
      <4> QED
        BY <1>3, <3>2, <4>2
    <3> QED
      BY <3>1, <3>2
  <2> HIDE DEF taken
  <2>3. Done(h, disk, p)
    <3>1. CASE c > node.commitIndex
      <4>1. /\ NodeOK(taken.node) /\ getLastIndex(taken.node.log) \in Nat
            /\ node.commitIndex \in Nat /\ node.commitIndex <= getLastIndex(taken.node.log)
        BY <2>2, LogFields DEF Good, NodeOK, Agrees
      <4>2. c \in Nat /\ c <= Len(Chosen) /\ Len(Chosen) \in Nat
        BY PersistenceAssumption
      <4>3. /\ commit \in Nat /\ commit \in {c, getLastIndex(taken.node.log)} /\ commit <= c
        BY <4>1, <4>2, MinOfTwo
      <4> HIDE DEF commit
      <4>4. node.commitIndex <= commit /\ commit <= Len(Chosen)
        BY <3>1, <4>1, <4>2, <4>3
      <4>5. Agrees(taken.node.log, commit)
        BY <2>1, <3>1
      <4>6. PICK g : CommitTo(taken, commit) = maybeSnapshot(g) /\ Good(g, disk, p)
        BY <1>2, <2>2, <4>3, <4>4, <4>5, CommitGood
      <4>7. Done(maybeSnapshot(g), disk, p)
        BY <1>2, <4>6, SnapshotDone
      <4> QED
        BY <3>1, <4>6, <4>7
    <3>2. CASE ~(c > node.commitIndex)
      BY <2>2, <3>2, GoodDone
    <3> QED
      BY <3>1, <3>2
  <2> HIDE DEF h
  <2> QED
    BY <1>1, <1>2, <2>1, <2>3, RunDone DEF p
<1>5. ASSUME NEW candidate \in Candidate, NEW upToDate \in BOOLEAN,
             handleRequestVote(term, candidate, upToDate)
      PROVE  DurInv'
  <2> DEFINE canVote == /\ term >= adopted.node.currentTerm
                        /\ adopted.node.votedFor \in {Nil, candidate}
                        /\ upToDate
             h == IF canVote THEN GrantVote(adopted, candidate) ELSE adopted
  <2>1. Run(h)
    BY <1>5 DEF handleRequestVote
  <2> HIDE DEF adopted, canVote, p
  <2>2. Good(GrantVote(adopted, candidate), disk, p)
    BY <1>2, <1>3, GrantGood
  <2>3. Done(h, disk, p)
    BY <1>3, <2>2, GoodDone
  <2> HIDE DEF h
  <2> QED
    BY <1>1, <1>2, <2>1, <2>3, RunDone DEF p
<1>6. ASSUME NEW index \in 1..Len(Chosen), handleInstallSnapshot(term, index)
      PROVE  DurInv'
  <2> DEFINE sn == [lastIncludedIndex |-> index, lastIncludedTerm |-> Chosen[index],
                    boards |-> BoardAt(index)]
             h == IF index <= node.commitIndex THEN adopted ELSE applySnapshot(adopted, sn)
  <2>1. Run(h)
    BY <1>6 DEF handleInstallSnapshot
  <2> HIDE DEF adopted, p
  <2>2. Done(h, disk, p)
    <3>1. CASE index <= node.commitIndex
      BY <1>3, <3>1, GoodDone
    <3>2. CASE ~(index <= node.commitIndex)
      <4>1. adopted.node.commitIndex < index
        <5>1. node.commitIndex \in Nat /\ index \in Nat
          BY <1>2, PersistenceAssumption DEF NodeOK
        <5> QED
          BY <1>3, <3>2, <5>1
      <4>2. p.log = adopted.node.log /\ p.commitIndex = adopted.node.commitIndex
        BY <1>2, <1>3
      <4>3. Done(applySnapshot(adopted, sn), disk, p)
        BY <1>2, <1>3, <4>1, <4>2, InstallDone
      <4> QED
        BY <3>2, <4>3
    <3> QED
      BY <3>1, <3>2
  <2> HIDE DEF h
  <2> QED
    BY <1>1, <1>2, <2>1, <2>2, RunDone DEF p
<1> QED
  BY <1>4, <1>5, <1>6

LEMMA WriteDur ==
  ASSUME DurInv, Write
  PROVE  DurInv'
<1> DEFINE w == writes
           v == Tail(writes)
           p == promised
           n == node
<1>1. /\ status = "up" /\ w /= <<>> /\ disk' = Written(disk, Head(w)) /\ writes' = v
      /\ node' = n /\ status' = "up" /\ cutShort' = cutShort
      /\ promised' = IF v = <<>> THEN n ELSE p
  BY DEF Write
<1> SUFFICES ASSUME ~glued', ~cutShort' PROVE DurInv'
  BY DEF DurInv
<1>2. ~glued /\ ~cutShort /\ ~(Head(w).file = "append" /\ disk.unfinished)
  <2>1. /\ glued' = (glued \/ (Head(w).file = "append" /\ disk.unfinished))
        /\ cutShort' = cutShort
    BY DEF Write
  <2> QED
    BY <2>1, Zenon
<1>3. NodeOK(p) /\ NodeOK(n) /\ IsSeq(w)
  BY <1>1, <1>2 DEF DurInv
<1>4. PICK D : Left(D, disk, w, p, n)
  BY <1>1, <1>2 DEF DurInv
<1>5. /\ IsSeq(v) /\ Len(w) \in Nat \ {0} /\ Head(w) = w[1] /\ Len(v) = Len(w) - 1
      /\ \A k \in 1..(Len(w) - 1) : v[k] = w[k + 1]
      /\ v = <<>> <=> Len(w) = 1
  BY <1>1, <1>3, TailAny
<1> DEFINE C == [k \in 0..Len(v) |-> D[k + 1]]
<1>6. /\ \A k \in 0..Len(v) : C[k] = D[k + 1]
      /\ Len(v) \in Nat
  BY <1>5
<1> HIDE DEF C, v, w
<1>7. /\ \A k \in 1..Len(v) : v[k] = w[k + 1] /\ C[k - 1] = D[k] /\ k + 1 \in 1..Len(w)
      /\ \A k \in 0..Len(v) : k + 1 \in 1..Len(w) /\ k + 1 \in 0..Len(w)
      /\ D[1] = disk' /\ D[0] = disk
  <2>1. D[1] = Written(D[0], w[1]) /\ D[0] = disk
    BY <1>4, <1>5 DEF Left, Path
  <2>2. \A k \in 1..Len(v) : v[k] = w[k + 1] /\ k + 1 \in 1..Len(w)
    BY <1>5
  <2>3. \A k \in 1..Len(v) : C[k - 1] = D[k]
    <3> TAKE k \in 1..Len(v)
    <3>1. k - 1 \in 0..Len(v) /\ (k - 1) + 1 = k
      BY <1>6
    <3> QED
      BY <1>6, <3>1
  <2>4. \A k \in 0..Len(v) : k + 1 \in 1..Len(w) /\ k + 1 \in 0..Len(w)
    BY <1>5
  <2> QED
    BY <1>1, <1>5, <2>1, <2>2, <2>3, <2>4
<1>8. \A k \in 0..Len(v) : Clean(C, v, k) => Clean(D, w, k + 1)
  <2> SUFFICES ASSUME NEW k \in 0..Len(v), Clean(C, v, k), NEW j \in 1..(k + 1)
               PROVE  ~(w[j].file = "append" /\ D[j - 1].unfinished)
    BY DEF Clean
  <2>1. CASE j = 1
    BY <2>1, <1>2, <1>5, <1>7
  <2>2. CASE j > 1
    <3>1. j - 1 \in 1..k /\ j - 1 \in 1..Len(v) /\ (j - 1) + 1 = j
      BY <2>2, <1>6
    <3>2. ~(v[j - 1].file = "append" /\ C[(j - 1) - 1].unfinished)
      BY <3>1 DEF Clean
    <3>3. v[j - 1] = w[j] /\ C[(j - 1) - 1] = D[j - 1]
      BY <3>1, <1>7
    <3> QED
      BY <3>2, <3>3
  <2> QED
    BY <2>1, <2>2, <1>6
<1>9. \A k \in 0..Len(v) : Exempt(w, k + 1) <=> Exempt(v, k)
  <2> TAKE k \in 0..Len(v)
  <2>1. (k + 1) + 2 <= Len(w) <=> k + 2 <= Len(v)
    BY <1>5
  <2>2. k + 2 <= Len(v) => /\ v[k + 1] = w[(k + 1) + 1]
                           /\ v[k + 2] = w[(k + 1) + 2]
    <3> SUFFICES ASSUME k + 2 <= Len(v) PROVE v[k + 1] = w[(k + 1) + 1] /\ v[k + 2] = w[(k + 1) + 2]
      OBVIOUS
    <3>1. k + 1 \in 1..Len(v) /\ k + 2 \in 1..Len(v) /\ (k + 2) + 1 = (k + 1) + 2
      BY <1>6
    <3> QED
      BY <3>1, <1>7
  <2> QED
    BY <2>1, <2>2 DEF Exempt
<1>10. Left(C, disk', v, p, n)
  <2>1. Path(C, disk', v)
    <3>1. C[0] = disk'
      BY <1>6, <1>7
    <3>2. \A k \in 1..Len(v) : C[k] = Written(C[k - 1], v[k])
      <4> TAKE k \in 1..Len(v)
      <4>1. C[k] = D[k + 1] /\ D[k + 1] = Written(D[(k + 1) - 1], w[k + 1]) /\ (k + 1) - 1 = k
        BY <1>4, <1>6, <1>7 DEF Left, Path
      <4> QED
        BY <4>1, <1>7
    <3> QED
      BY <3>1, <3>2 DEF Path
  <2>2. \A k \in 0..Len(v) : Clean(C, v, k) => Exempt(v, k) \/ Point(C[k], p, n)
    BY <1>4, <1>6, <1>7, <1>8, <1>9 DEF Left
  <2>3. Clean(C, v, Len(v)) => Match(C[Len(v)], n)
    <3>1. Len(v) \in 0..Len(v) /\ Len(v) + 1 = Len(w)
      BY <1>5, <1>6
    <3> QED
      BY <1>4, <1>6, <1>8, <3>1 DEF Left
  <2>4. \A k \in 1..Len(v) : Exempt(v, k) => v[k].file = "rewrite"
    <3> TAKE k \in 1..Len(v)
    <3>1. k \in 0..Len(v) /\ k + 1 \in 1..Len(w) /\ v[k] = w[k + 1]
      BY <1>7
    <3> QED
      BY <1>4, <1>9, <3>1 DEF Left
  <2> QED
    BY <2>1, <2>2, <2>3, <2>4 DEF Left
<1>11. CASE v = <<>>
  <2>1. Left(C, disk', v, n, n)
    BY <1>3, <1>10, <1>11, LastPoint
  <2>2. promised' = n
    BY <1>1, <1>11
  <2>3. \E B : Left(B, disk', writes', promised', node')
    BY <1>1, <2>1, <2>2
  <2>4. NodeOK(promised') /\ NodeOK(node') /\ IsSeq(writes')
    BY <1>1, <1>3, <1>5, <2>2
  <2> QED
    BY <1>1, <2>2, <2>3, <2>4 DEF DurInv
<1>12. CASE v /= <<>>
  <2>1. promised' = p /\ ~Idle'
    BY <1>1, <1>12 DEF Idle
  <2>2. \E B : Left(B, disk', writes', promised', node')
    BY <1>1, <1>10, <2>1
  <2>3. NodeOK(promised') /\ NodeOK(node') /\ IsSeq(writes')
    BY <1>1, <1>3, <1>5, <2>1
  <2> QED
    BY <1>1, <2>1, <2>2, <2>3 DEF DurInv
<1> QED
  BY <1>11, <1>12

LEMMA CrashDur ==
  ASSUME DurInv, Crash
  PROVE  DurInv'
<1> DEFINE w == writes
           p == promised
           n == node
           e == disk'
<1>1. /\ status = "up" /\ status' = "down" /\ node' = n /\ promised' = p
  BY DEF Crash
<1> SUFFICES ASSUME ~glued', ~cutShort' PROVE DurInv'
  BY DEF DurInv
<1>2. ~glued /\ ~cutShort /\ ~Installing
  <2>1. /\ cutShort' = (cutShort \/ Installing)
        /\ glued' = glued \/ glued' = (glued \/ disk.unfinished)
    BY DEF Crash
  <2>2. ~Installing /\ ~cutShort
    BY <2>1, Zenon
  <2>3. ~glued
    BY <2>1, Zenon
  <2> QED
    BY <2>2, <2>3
<1>3. NodeOK(p) /\ NodeOK(n) /\ IsSeq(w)
  BY <1>1, <1>2 DEF DurInv
<1>4. PICK D : Left(D, disk, w, p, n)
  BY <1>1, <1>2 DEF DurInv
<1>5. Point(disk, p, n)
  <2>1. ~Exempt(w, 0)
    <3>1. Len(w) \in Nat /\ (0 + 2 <= Len(w) <=> Len(w) >= 2) /\ 0 + 1 = 1 /\ 0 + 2 = 2
      BY <1>3, AppendAny
    <3> QED
      BY <1>2, <3>1 DEF Exempt, Installing
  <2> QED
    BY <1>3, <1>4, <2>1, FirstPoint
<1>6. Point(disk', p, n)
  <2>1. CASE disk' = disk
    BY <1>5, <2>1
  <2>2. CASE ~(disk' = disk)
    <3>1. /\ w /= <<>> /\ Head(w).file = "append" /\ disk' \in CutAppends(disk, Head(w))
          /\ ~disk.unfinished
      BY <2>2 DEF Crash
    <3>2. /\ Len(w) \in Nat \ {0} /\ Head(w) = w[1]
      BY <1>3, <3>1, TailAny
    <3>3. FilesOK(disk) /\ IsDisk(disk)
      BY <1>5 DEF Point, DiskOK, FilesOK
    <3> HIDE DEF w
    <3>4. PICK line \in {Torn, w[1].value} :
             disk' = [disk EXCEPT !.lines = Append(disk.lines, line), !.unfinished = TRUE]
      BY <3>1, <3>2 DEF CutAppends, Before
    <3>5. /\ IsDisk(e) /\ e.state = disk.state /\ e.snapshot = disk.snapshot
          /\ e.lines = Append(disk.lines, line) /\ e.unfinished
      BY <3>3, <3>4 DEF IsDisk
    <3> HIDE DEF e
    <3>6. CASE line = Torn
      <4>1. FilesOK(e) /\ Loaded(e).log = Loaded(disk).log
        BY <3>1, <3>3, <3>5, <3>6, TornFiles
      <4>2. Point(e, p, n)
        BY <1>5, <3>5, <4>1, SamePoint
      <4> QED
        BY <4>2 DEF e
    <3>7. CASE line = w[1].value
      <4> DEFINE f == D[1]
      <4>1. f = Written(disk, w[1]) /\ 1 \in 1..Len(w) /\ 1 \in 0..Len(w)
        BY <1>4, <3>2 DEF Left, Path, w
      <4>2. Clean(D, w, 1)
        <5>1. D[0] = disk
          BY <1>4 DEF Left, Path, w
        <5> QED
          BY <3>1, <5>1 DEF Clean
      <4>3. ~Exempt(w, 1)
        BY <1>4, <3>1, <3>2, <4>1 DEF Left, w
      <4>4. Point(f, p, n)
        BY <1>4, <4>1, <4>2, <4>3 DEF Left, w
      <4>5. /\ IsDisk(f) /\ f.state = disk.state /\ f.snapshot = disk.snapshot
            /\ f.lines = Append(disk.lines, w[1].value) /\ f.unfinished = FALSE
        <5>1. w[1].file = "append" /\ ~disk.unfinished /\ IsDisk(disk)
          BY <3>1, <3>2, <3>3
        <5> DEFINE r == Written(disk, w[1])
        <5>2. /\ IsDisk(r) /\ r.state = disk.state /\ r.snapshot = disk.snapshot
              /\ r.lines = Append(disk.lines, w[1].value) /\ r.unfinished = FALSE
          BY <5>1 DEF Written, IsDisk, Before
        <5>3. f = r
          BY <4>1
        <5> HIDE DEF f, r
        <5> QED
          BY <5>2, <5>3
      <4>6. FilesOK(f)
        BY <4>4 DEF Point, DiskOK
      <4> HIDE DEF f
      <4>7. FilesOK(e) /\ Loaded(e).log = Loaded(f).log
        BY <3>5, <3>7, <4>5, <4>6, StateFiles
      <4>8. Point(e, p, n)
        BY <3>5, <4>4, <4>5, <4>7, SamePoint
      <4> QED
        BY <4>8 DEF e
    <3> QED
      BY <3>4, <3>6, <3>7
  <2> QED
    BY <2>1, <2>2
<1> QED
  BY <1>1, <1>3, <1>6 DEF DurInv, Idle

LEMMA RestartDur ==
  ASSUME DurInv, Restart
  PROVE  DurInv'
<1>1. status = "down" /\ glued' = glued /\ cutShort' = cutShort
  BY DEF Restart, Run
<1> SUFFICES ASSUME ~glued, ~cutShort PROVE DurInv'
  BY <1>1 DEF DurInv
<1>2. NodeOK(promised) /\ Point(disk, promised, node)
  BY <1>1 DEF DurInv
<1>3. CASE status' = "failed"
  <2>1. node' = node /\ disk' = disk /\ promised' = promised
    BY <1>3 DEF Restart
  <2> QED
    BY <1>2, <1>3, <2>1 DEF DurInv, Idle
<1>4. CASE status' = "up"
  <2> DEFINE h == [node |-> Loaded(disk), writes |-> <<>>]
  <2>1. Run(maybeSnapshot(h))
    BY <1>4 DEF Restart
  <2>2. Good(h, disk, promised)
    BY <1>2, LoadedGood DEF Point, NodeOK
  <2> HIDE DEF h
  <2>3. Done(maybeSnapshot(h), disk, promised)
    BY <1>2, <2>2, SnapshotDone DEF NodeOK
  <2> QED
    BY <1>2, <1>4, <2>1, <2>3, RunDone
<1> QED
  BY <1>3, <1>4 DEF Restart

LEMMA DurStep == DurInv /\ [Next]_vars => DurInv'
<1>1. ASSUME DurInv, UNCHANGED vars PROVE DurInv'
  BY <1>1 DEF DurInv, vars, Idle
<1> QED
  BY <1>1, HandlerDur, WriteDur, CrashDur, RestartDur DEF Next

\* At every moment, but between the two files of an installation, a restart
\* would find files that keep what was promised.
LEMMA PointNow ==
  ASSUME DurInv, ~glued, ~cutShort, ~Installing
  PROVE  Point(disk, promised, node) /\ NodeOK(promised)
<1>1. CASE status = "up"
  <2>1. PICK D : Left(D, disk, writes, promised, node)
    BY <1>1 DEF DurInv
  <2>2. IsSeq(writes) /\ NodeOK(promised)
    BY <1>1 DEF DurInv
  <2>3. ~Exempt(writes, 0)
    <3>1. Len(writes) \in Nat /\ (0 + 2 <= Len(writes) <=> Len(writes) >= 2) /\ 0 + 1 = 1 /\ 0 + 2 = 2
      BY <2>2, AppendAny
    <3> QED
      BY <3>1 DEF Exempt, Installing
  <2> QED
    BY <2>1, <2>2, <2>3, FirstPoint
<1>2. CASE status /= "up"
  BY <1>2 DEF DurInv
<1> QED
  BY <1>1, <1>2

\* Whatever the handlers, their order and the crashes, an acknowledged entry that
\* no handler has truncated since is in the log or the snapshot that a restart
\* reads, and the log can be read: the WAL is written before handleAppendEntries
\* replies, and compacted after the snapshot is saved.
THEOREM EntriesSurvive == Spec => []EntriesDurable
<1>1. ASSUME DurInv PROVE EntriesDurable
  <2> DEFINE p == promised.log
             l == Loaded(disk).log
  <2> SUFFICES ASSUME ~glued, ~cutShort, ~Installing
               PROVE  /\ Readable(disk)
                      /\ \A n \in 1..getLastIndex(p) :
                           \/ n <= l.lastIncludedIndex
                           \/ hasEntry(l, n) /\ getTermAt(l, n) = getTermAt(p, n)
                           \/ getTermAt(node.log, n) /= getTermAt(p, n)
    BY DEF EntriesDurable
  <2>1. /\ FilesOK(disk) /\ Kept(l, p, node.log) /\ LogOK(p)
        /\ p.lastIncludedIndex <= disk.snapshot.lastIncludedIndex
    BY <1>1, PointNow DEF Point, DiskOK, NodeOK
  <2>2. LogOK(l) /\ l.lastIncludedIndex = disk.snapshot.lastIncludedIndex
    BY <2>1, LoadedOK
  <2>3. Readable(disk)
    <3> DEFINE N == Len(disk.lines)
    <3>1. N \in Nat
      BY <2>1 DEF FilesOK
    <3>2. \A k \in 1..N : disk.lines[k] = Torn => k = N
      BY <2>1 DEF FilesOK
    <3> HIDE DEF N
    <3>3. \A k \in 1..(N - 1) : k \in 1..N /\ k /= N
      BY <3>1
    <3> QED
      BY <3>2, <3>3 DEF Readable, N
  <2> HIDE DEF p, l
  <2>4. ASSUME NEW n \in 1..getLastIndex(p), ~(n <= l.lastIncludedIndex),
               getTermAt(node.log, n) = getTermAt(p, n)
        PROVE  hasEntry(l, n) /\ getTermAt(l, n) = getTermAt(p, n)
    <3>1. /\ p.lastIncludedIndex \in Nat /\ getLastIndex(p) \in Nat
          /\ l.lastIncludedIndex \in Nat /\ p.lastIncludedIndex <= l.lastIncludedIndex
      BY <2>1, <2>2, LogFields
    <3>2. /\ n \in (p.lastIncludedIndex + 1)..getLastIndex(p)
          /\ n \in (l.lastIncludedIndex + 1)..getLastIndex(p)
      BY <2>4, <3>1
    <3>3. getTermAt(p, n) = getEntry(p, n).term
      BY <2>1, <3>2, EntryAt
    <3>4. n <= getLastIndex(l) /\ getEntry(l, n).term = getEntry(p, n).term
      BY <2>1, <2>4, <3>2, <3>3 DEF Kept
    <3>5. n \in (l.lastIncludedIndex + 1)..getLastIndex(l)
      BY <2>2, <3>1, <3>2, <3>4, LogFields
    <3> QED
      BY <2>2, <3>3, <3>4, <3>5, EntryAt
  <2> QED
    BY <2>3, <2>4
<1> QED
  BY <1>1, DurStart, DurStep, PTL DEF Spec

\* With the same exceptions the board that a restart builds continues the one
\* that stood when the last reply went out: state.json is saved when the commit
\* index moves, and a snapshot is saved before the log behind it is compacted.
THEOREM BoardSurvives == Spec => []BoardDurable
<1>1. ASSUME DurInv PROVE BoardDurable
  <2> SUFFICES ASSUME ~glued, ~cutShort, ~Installing
               PROVE  IsPrefix(promised.board, Loaded(disk).board)
    BY DEF BoardDurable
  <2> DEFINE h == [node |-> Loaded(disk), writes |-> <<>>]
             a == promised.commitIndex
             c == Commit(disk)
             s == promised.board
             t == Loaded(disk).board
  <2>1. Point(disk, promised, node) /\ NodeOK(promised)
    BY <1>1, PointNow
  <2>2. Good(h, disk, promised)
    BY <2>1, LoadedGood DEF Point, NodeOK
  <2>3. h.node = Loaded(disk)
    OBVIOUS
  <2> HIDE DEF h
  <2>4. NodeOK(Loaded(disk)) /\ Loaded(disk).commitIndex = c
    BY <2>2, <2>3 DEF Good, Loaded, Commit
  <2>5. /\ a \in Nat /\ c \in Nat /\ a <= c /\ c <= Len(Chosen) /\ a <= Len(Chosen)
        /\ s = BoardAt(a) /\ t = BoardAt(c)
    BY <2>1, <2>4 DEF Point, NodeOK
  <2> HIDE DEF a, c, s, t
  <2>6. /\ s \in Seq(Strokes) /\ Len(s) = a /\ \A k \in 1..a : s[k] = <<k, Chosen[k]>>
        /\ t \in Seq(Strokes) /\ Len(t) = c /\ \A k \in 1..c : t[k] = <<k, Chosen[k]>>
    BY <2>5, BoardIs
  <2>7. \A k \in 1..a : s[k] = t[k]
    <3> TAKE k \in 1..a
    <3>1. k \in 1..c
      BY <2>5
    <3> QED
      BY <2>6, <3>1
  <2>8. SubSeq(s, 1, a) = SubSeq(t, 1, a)
    <3>1. /\ SubSeq(s, 1, a) \in Seq(Strokes) /\ Len(SubSeq(s, 1, a)) = a
          /\ SubSeq(t, 1, a) \in Seq(Strokes) /\ Len(SubSeq(t, 1, a)) = a
      <4>1. a >= 1 \/ a = 0
        BY <2>5
      <4> QED
        BY <2>5, <2>6, <4>1, StretchType
    <3>2. \A k \in 1..a : SubSeq(s, 1, a)[k] = s[k] /\ SubSeq(t, 1, a)[k] = t[k]
      BY <2>5, <2>6
    <3> QED
      BY <2>7, <3>1, <3>2, SeqEqual
  <2>9. IsPrefix(s, t)
    BY <2>5, <2>6, <2>8 DEF IsPrefix
  <2> QED
    BY <2>9 DEF s, t
<1> QED
  BY <1>1, DurStart, DurStep, PTL DEF Spec
=============================================================================
