---------------------------- MODULE Persistence ----------------------------
(***************************************************************************)
(* The files of one replica (replica/src/persistence.ts) and the order in  *)
(* which its handlers write them.  RaftNode takes a handler's changes to   *)
(* disk as one step; here the process may crash between two of its writes, *)
(* and in the middle of an append.                                         *)
(*                                                                         *)
(* state.json and snapshot.json, and the log when it is rewritten, are     *)
(* replaced by rename, so a crash leaves the old file or the new one.  An  *)
(* append that is cut short leaves an unfinished last line in log.jsonl.   *)
(* Every write is fsynced before the next one starts.                      *)
(*                                                                         *)
(* The rest of the cluster is the source of the inputs: Chosen[n] is the   *)
(* term of the entry the cluster commits at index n, and a leader commits  *)
(* or snapshots nothing else.                                              *)
(***************************************************************************)
EXTENDS RaftLog, SequencesExt

CONSTANTS
  Candidate,         \* who may ask for a vote
  Nil,               \* the code's null
  Torn,              \* a line that does not parse
  Chosen,            \* the terms of the entries the cluster commits
  SnapshotThreshold, \* RAFT_TIMING.snapshotThresholdEntries
  \* Bounds of the model, not of the code:
  MaxTerm, MaxCrashes, MaxTorn, MaxInstalls

ASSUME PersistenceAssumption ==
  /\ Nil \notin Candidate
  /\ MaxTerm \in Nat
  /\ Chosen \in Seq(1..MaxTerm)
  /\ SnapshotThreshold \in Nat \ {0}
  /\ {MaxCrashes, MaxTorn, MaxInstalls} \subseteq Nat

VARIABLES
  node,     \* the memory of the process
  writes,   \* what the handler in progress still has to write, in order
  disk,     \* the three files
  status,   \* "up", "down", or "failed": the constructor has thrown
  budget,
  \* What happened, for the properties:
  promised, \* the memory as it was when the last handler replied
  glued,    \* has an append been made, or cut short, behind an unfinished line?
  cutShort  \* has a crash come between the two files of an installation?

vars == <<node, writes, disk, status, budget, promised, glued, cutShort>>

\* The entry of a term at an index; two leaders of different terms may have
\* proposed different ones there.
Entry(index, term) == [index |-> index, term |-> term, stroke |-> <<index, term>>]

ASSUME TornAssumption ==
  \A n \in 1..Len(Chosen), t \in 1..MaxTerm : Torn /= Entry(n, t)

\* The board the cluster agrees on up to an index.
BoardAt(index) == [n \in 1..index |-> <<n, Chosen[n]>>]

Agrees(l, upto) ==
  /\ upto <= getLastIndex(l)
  /\ \A n \in (l.lastIncludedIndex + 1)..upto : getEntry(l, n) = Entry(n, Chosen[n])

-----------------------------------------------------------------------------
(* The writes.                                                             *)

saveState(n) == [file |-> "state", value |-> [currentTerm |-> n.currentTerm,
                                              votedFor |-> n.votedFor,
                                              commitIndex |-> n.commitIndex]]
saveSnapshot(sn) == [file |-> "snapshot", value |-> sn]
rewriteLog(l) == [file |-> "rewrite", value |-> l.entries]
appendLog(e) == [file |-> "append", value |-> e]

noSnapshot == [lastIncludedIndex |-> 0, lastIncludedTerm |-> 0, boards |-> <<>>]

emptyDisk == [state |-> [currentTerm |-> 0, votedFor |-> Nil, commitIndex |-> 0],
              snapshot |-> noSnapshot, lines |-> <<>>, unfinished |-> FALSE]

\* What an append is written behind: an unfinished line becomes one line with it.
Before(d) == IF d.unfinished THEN Front(d.lines) ELSE d.lines

Written(d, w) ==
  CASE w.file = "state"    -> [d EXCEPT !.state = w.value]
    [] w.file = "snapshot" -> [d EXCEPT !.snapshot = w.value]
    [] w.file = "rewrite"  -> [d EXCEPT !.lines = w.value, !.unfinished = FALSE]
    [] w.file = "append"   -> [d EXCEPT !.lines = Append(Before(d), IF d.unfinished THEN Torn ELSE w.value),
                                        !.unfinished = FALSE]

\* An append cut short: somewhere in the entry, or right before its newline.
CutAppends(d, w) ==
  {[d EXCEPT !.lines = Append(Before(d), line), !.unfinished = TRUE] :
     line \in IF d.unfinished THEN {Torn} ELSE {Torn, w.value}}

\* loadLog throws when a line other than the last does not parse.
Readable(d) == \A k \in 1..(Len(d.lines) - 1) : d.lines[k] /= Torn

\* Mutant: the last line is always taken for a torn one.
loadLog_DropLast(d) == IF d.lines = <<>> THEN <<>> ELSE Front(d.lines)

loadLog(d) ==
  IF d.lines /= <<>> /\ Last(d.lines) = Torn THEN Front(d.lines) ELSE d.lines

-----------------------------------------------------------------------------
(* A handler in progress, as the memory it leaves and the writes it makes. *)

Issue(h, w) == [h EXCEPT !.writes = Append(@, w)]

\* applyCommitted skips an index that has no entry.
Applied(l, from, to) ==
  LET last == Min({to, getLastIndex(l)})
  IN  [k \in 1..(last - from + 1) |-> getEntry(l, from + k - 1).stroke]

\* Mutant: the log is compacted before the snapshot is saved.
takeSnapshot_CompactFirst(h) ==
  LET n == h.node
      term == getTermAt(n.log, n.commitIndex)
      compacted == compact(n.log, n.commitIndex, term)
  IN  Issue(Issue([h EXCEPT !.node.log = compacted], rewriteLog(compacted)),
            saveSnapshot([lastIncludedIndex |-> n.commitIndex, lastIncludedTerm |-> term,
                          boards |-> n.board]))

takeSnapshot(h) ==
  LET n == h.node
      term == getTermAt(n.log, n.commitIndex)
      compacted == compact(n.log, n.commitIndex, term)
  IN  Issue(Issue([h EXCEPT !.node.log = compacted],
                  saveSnapshot([lastIncludedIndex |-> n.commitIndex,
                                lastIncludedTerm |-> term, boards |-> n.board])),
            rewriteLog(compacted))

maybeSnapshot(h) ==
  IF h.node.commitIndex - h.node.log.lastIncludedIndex < SnapshotThreshold THEN h
  ELSE takeSnapshot(h)

CommitTo(h, index) ==
  LET n == h.node
      committed == [n EXCEPT !.commitIndex = index,
                             !.board = @ \o Applied(n.log, n.commitIndex + 1, index)]
  IN  maybeSnapshot(Issue([h EXCEPT !.node = committed], saveState(committed)))

\* becomeFollower, where it adopts a newer term.
AdoptTerm(h, term) ==
  IF term <= h.node.currentTerm THEN h
  ELSE LET n == [h.node EXCEPT !.currentTerm = term, !.votedFor = Nil]
       IN  Issue([h EXCEPT !.node = n], saveState(n))

\* The entry loop: truncateFrom at a conflict, append what is missing.
TakeEntry(h, e) ==
  LET l == h.node.log
      cut == IF Conflicts(l, e) THEN truncateFrom(l, e.index) ELSE l
      truncated == IF cut = l THEN h
                   ELSE Issue([h EXCEPT !.node.log = cut], rewriteLog(cut))
  IN  IF hasEntry(cut, e.index) THEN truncated
      ELSE Issue([truncated EXCEPT !.node.log = append(@, e)], appendLog(e))

applySnapshot(h, sn) ==
  LET l == installSnapshot(h.node.log, sn.lastIncludedIndex, sn.lastIncludedTerm)
      n == [h.node EXCEPT !.log = l, !.board = sn.boards,
                          !.commitIndex = sn.lastIncludedIndex]
  IN  Issue(Issue(Issue([h EXCEPT !.node = n], rewriteLog(l)), saveSnapshot(sn)),
            saveState(n))

\* Mutant: the vote is granted without persistState.
GrantVote_Volatile(h, candidate) == [h EXCEPT !.node.votedFor = candidate]

GrantVote(h, candidate) ==
  LET n == [h.node EXCEPT !.votedFor = candidate]
  IN  Issue([h EXCEPT !.node = n], saveState(n))

\* The constructor, from what is on disk.
Loaded(d) ==
  LET sn == d.snapshot
      l == [entries           |-> EntriesAfter(loadLog(d), sn.lastIncludedIndex),
            lastIncludedIndex |-> sn.lastIncludedIndex,
            lastIncludedTerm  |-> sn.lastIncludedTerm]
      commitIndex == Max({d.state.commitIndex, sn.lastIncludedIndex})
  IN  [currentTerm |-> d.state.currentTerm, votedFor |-> d.state.votedFor, log |-> l,
       commitIndex |-> commitIndex,
       board |-> sn.boards \o Applied(l, sn.lastIncludedIndex + 1, commitIndex)]

-----------------------------------------------------------------------------
(* Handlers, writes and crashes.                                           *)

Start == [node |-> node, writes |-> <<>>]

Run(h) ==
  /\ node' = h.node
  /\ writes' = h.writes
  /\ promised' = IF h.writes = <<>> THEN h.node ELSE promised
  /\ UNCHANGED <<disk, glued, cutShort>>

Idle == status = "up" /\ writes = <<>>

\* applySnapshot has rewritten the log and not yet saved the snapshot.
Installing == /\ Len(writes) >= 2
              /\ writes[1].file = "snapshot" /\ writes[2].file = "state"

\* A leader of a term sends one entry or none (es), and its commit index.  A call
\* that the consistency check refuses does what one without either does.
handleAppendEntries(term, es, leaderCommit) ==
  LET l == node.log
      adopted == AdoptTerm(Start, term)
      taken == IF es = <<>> THEN adopted ELSE TakeEntry(adopted, es[1])
      commit == Min({leaderCommit, getLastIndex(taken.node.log)})
  IN
  /\ Idle
  /\ term >= node.currentTerm
  /\ es /= <<>> => /\ es[1].index \in (l.lastIncludedIndex + 1)..(getLastIndex(l) + 1)
                   /\ es[1].index <= Len(Chosen)
                   /\ es[1].term <= term
                   /\ es[1].index <= node.commitIndex => es[1].term = Chosen[es[1].index]
  /\ leaderCommit > node.commitIndex => Agrees(taken.node.log, commit)
  /\ Run(IF leaderCommit > node.commitIndex THEN CommitTo(taken, commit) ELSE taken)
  /\ UNCHANGED <<status, budget>>

\* upToDate is isLogUpToDate, for the log the candidate may have.
handleRequestVote(term, candidate, upToDate) ==
  LET adopted == AdoptTerm(Start, term)
      canVote == /\ term >= adopted.node.currentTerm
                 /\ adopted.node.votedFor \in {Nil, candidate}
                 /\ upToDate
  IN
  /\ Idle
  /\ Run(IF canVote THEN GrantVote(adopted, candidate) ELSE adopted)
  /\ UNCHANGED <<status, budget>>

handleInstallSnapshot(term, index) ==
  LET adopted == AdoptTerm(Start, term)
      sn == [lastIncludedIndex |-> index, lastIncludedTerm |-> Chosen[index],
             boards |-> BoardAt(index)]
  IN
  /\ Idle
  /\ term >= node.currentTerm
  /\ budget.install > 0
  /\ Run(IF index <= node.commitIndex THEN adopted ELSE applySnapshot(adopted, sn))
  /\ budget' = [budget EXCEPT !.install = @ - 1]
  /\ UNCHANGED status

\* The next write is made and fsynced; after the last one the handler replies.
Write ==
  /\ status = "up" /\ writes /= <<>>
  /\ disk' = Written(disk, Head(writes))
  /\ writes' = Tail(writes)
  /\ glued' = (glued \/ (Head(writes).file = "append" /\ disk.unfinished))
  /\ promised' = IF writes' = <<>> THEN node ELSE promised
  /\ UNCHANGED <<node, status, budget, cutShort>>

\* In the middle of an append only when a torn write is still allowed.
Crash ==
  /\ status = "up" /\ budget.crash > 0
  /\ status' = "down"
  /\ writes' = <<>>
  /\ cutShort' = (cutShort \/ Installing)
  /\ \/ /\ UNCHANGED <<disk, glued>>
        /\ budget' = [budget EXCEPT !.crash = @ - 1]
     \/ /\ writes /= <<>> /\ Head(writes).file = "append" /\ budget.torn > 0
        /\ disk' \in CutAppends(disk, Head(writes))
        /\ glued' = (glued \/ disk.unfinished)
        /\ budget' = [budget EXCEPT !.crash = @ - 1, !.torn = @ - 1]
  /\ UNCHANGED <<node, promised>>

\* The constructor may itself take a snapshot.
Restart ==
  /\ status = "down"
  /\ \/ /\ ~Readable(disk)
        /\ status' = "failed"
        /\ UNCHANGED <<node, writes, disk, promised, glued, cutShort>>
     \/ /\ Readable(disk)
        /\ status' = "up"
        /\ Run(maybeSnapshot([node |-> Loaded(disk), writes |-> <<>>]))
  /\ UNCHANGED budget

Init ==
  /\ node = Loaded(emptyDisk)
  /\ writes = <<>>
  /\ disk = emptyDisk
  /\ status = "up"
  /\ budget = [crash |-> MaxCrashes, torn |-> MaxTorn, install |-> MaxInstalls]
  /\ promised = node
  /\ glued = FALSE /\ cutShort = FALSE

Batches == {<<>>} \cup {<<Entry(n, t)>> : n \in 1..Len(Chosen), t \in 1..MaxTerm}

Next ==
  \/ \E term \in 1..MaxTerm :
       \/ \E es \in Batches, c \in 0..Len(Chosen) : handleAppendEntries(term, es, c)
       \/ \E candidate \in Candidate, upToDate \in BOOLEAN :
            handleRequestVote(term, candidate, upToDate)
       \/ \E index \in 1..Len(Chosen) : handleInstallSnapshot(term, index)
  \/ Write
  \/ Crash
  \/ Restart

Spec == Init /\ [][Next]_vars

-----------------------------------------------------------------------------
(* What a restart at this very moment would find.                          *)

\* A term and a vote that a reply went out with are never forgotten, whatever
\* crash comes: persistState runs before the reply.
VotesDurable ==
  LET s == disk.state IN
  /\ s.currentTerm >= promised.currentTerm
  /\ s.currentTerm = promised.currentTerm /\ promised.votedFor /= Nil
       => s.votedFor = promised.votedFor

\* An entry that a reply acknowledged, and that no later handler has truncated,
\* is in the log or in the snapshot a restart reads, unless an append was made
\* behind a torn line or a crash came between the two files of an installation.
EntriesDurable ==
  ~glued /\ ~cutShort /\ ~Installing =>
    /\ Readable(disk)
    /\ LET l == Loaded(disk).log IN
       \A n \in 1..getLastIndex(promised.log) :
         \/ n <= l.lastIncludedIndex
         \/ hasEntry(l, n) /\ getTermAt(l, n) = getTermAt(promised.log, n)
         \/ getTermAt(node.log, n) /= getTermAt(promised.log, n)

\* The strokes on the board when the last reply went out are on the board a
\* restart builds, with the same exceptions: a crash between saveSnapshot and
\* the compaction loses nothing.
BoardDurable ==
  ~glued /\ ~cutShort /\ ~Installing => IsPrefix(promised.board, Loaded(disk).board)

\* persistence.ts: "Only the last line can be a torn write".
OnlyLastLineTorn == Readable(disk)

\* persistence.ts: "committed entries are never truncated, so a persisted
\* commitIndex is always <= log length", so also the one of a restarted node.
PersistedCommitWithinLog == Idle => node.commitIndex <= getLastIndex(node.log)
=============================================================================
