# A TLA+ verification of QuorumCanvas

QuorumCanvas is a shared drawing board. Browsers connect to a gateway over
WebSockets; the gateway writes every stroke to a cluster of replicas that run
their own implementation of Raft, and broadcasts a stroke once the cluster has
committed it. The modules here model the replicas, their files, the gateway and
the board of a browser from the source; TLC checks them on small instances and
TLAPS proves the invariants named below for every instance.

## 1. The system

| part | source | state it keeps | operations |
|---|---|---|---|
| replicated log | `replica/src/raftLog.ts` | entries after a snapshot boundary, index and term of the boundary | append, truncateFrom, compact, installSnapshot, getters |
| Raft node | `replica/src/raftNode.ts` | term, vote, state, leader, log, commit index, board, nextIndex / matchIndex, calls in flight | elections, replication, heartbeats, snapshots, client writes, ReadIndex reads, catch-up |
| RPC transport | `replica/src/rpcClient.ts`, `rpcHandlers.ts` | calls in flight | post with a timeout, routing to handlers |
| durable storage | `replica/src/persistence.ts` | `state.json`, `log.jsonl`, `snapshot.json` | save (atomic rename), append, rewrite, load |
| timers, lifecycle | `replica/src/electionTimer.ts`, `index.ts` | the election timer, the heartbeat interval | arm, reset, stop; start, readiness, shutdown |
| board derivation | `applyBoardEvent`, `boardManager.addStroke` | events, undone ids, visible strokes of a board | stroke, undo, redo |
| gateway sessions | `gateway/src/wsServer.ts`, `messageHandler.ts`, `boardManager.ts` | registered sockets per user, rate-limit window per socket | connect, join, stroke, close, broadcast |
| cluster client | `gateway/src/remoteRaftClient.ts` | the leader last heard of | submitStroke, getStrokes |
| frontend | `frontend/src/hooks/*` | strokes, users, redo stack, pending rollbacks, reconnection timer | draw, undo, redo, message handling, reconnect |
| reporting, configuration | `metrics.ts`, `clusterStatus.ts`, `config.ts`, `security.ts` | none | read-only or pure |

How they meet: the frontend sends `join` and `stroke` messages; the gateway calls
`/client-write` and `/board-state` of the replicas, trying the leader it knows,
then the others, following one redirection each; a replica answers after the
majority of its peers has the entry. Replicas call each other with
`/request-vote`, `/append-entries`, `/heartbeat`, `/install-snapshot` and
`/sync-log`. A replica's handlers write to disk before they answer.

Every process is one Node.js thread, so a handler, or the code between two
awaits, is one step. What is hard is what happens at the awaits: answers that
come after the term, the state or the log has changed; calls shared between a
heartbeat and several writes; timeouts whose request still arrives; crashes
between two disk writes; a join whose read races with the broadcasts; strokes
that a browser shows before the cluster has them. The correctness of each part:

* log: what is committed is never changed, and the entry loop does what the
  position arithmetic promises around the snapshot boundary;
* node: one leader per term, logs that match, boards that agree and only grow,
  acknowledged writes kept by later leaders, reads that are not stale, somebody
  always able to start an election, and to its clients all of it one board;
* storage: votes, acknowledged entries and the board are there after any crash;
* gateway: only committed strokes are shown, no stroke is missed between a join
  and the broadcasts, presence is complete, every stroke is answered;
* board derivation: a stroke shows exactly when its last undo or redo says so,
  whatever order and number the events were committed in;
* frontend: what is on the canvas agrees with the board once everything settles,
  undo and redo find their strokes, and a page that stays is connected again.

PROJECT.json lists the hazards at their lines with the properties aimed at them.

## 2. Modules

| module | what it is |
|---|---|
| `RaftLog` | the operations of class RaftLog; `MergeEntries`, the closed form of the entry loop that handleAppendEntries and requestCatchUp share |
| `MCRaftLog` | one log driven through all of them, with the loop as the code writes it (`MergeStep`) as the reference |
| `RaftNode` | the cluster: one action per handler, per answer, per failed call, per timer |
| `ReplicatedBoard` | what the cluster promises: one board that only grows, shown in prefixes, and writes acknowledged once they are on it |
| `MCRaft` | RaftNode for TLC: symmetry, `LedSpec` and `ApartSpec`, which start after a first election, and the refinement mapping to ReplicatedBoard |
| `Partition` | the scenario of `scripts/test-network-partition.sh` on RaftNode, with the fairness of a healed network |
| `Persistence`, `MCPersistence` | the files of one follower: a handler is a list of disk writes, with a crash between any two or inside an append |
| `Gateway`, `MCGateway` | the sockets of its boards, the handlers at their awaits, and RemoteRaftClient |
| `Board` | applyBoardEvent: what a board shows, from its events |
| `Connection` | useWebSocket: the sockets of a page, its reconnection timers, mounting and unmounting |
| `Frontend` | useBoard over Connection and Board, with the gateway and the cluster as its environment |
| `RaftLogProofs`, `MCRaftLogProofs` | what every operation on a log returns; the entry loop, and what a log keeps |
| `RaftTypeProofs`, `RaftElectionProofs` | RaftNode: its types, with the operations on a store, and its elections |
| `RaftRecoveryProofs` | RaftNode: restarts, calls that wait, reads |
| `PersistenceProofs` | what the files keep |
| `GatewayProofs` | the invariants of the gateway, and that its rounds end |
| `FrontendProofs` | Board, Connection and Frontend |

**RaftNode.** The record `store[i]` is the replica's log, commit index, board
events and saved snapshot; the operators on it (`CommitTo`, `takeSnapshot`,
`applySnapshot`, `updateCommitIndex`) are the private methods of the same names,
and include the trailing `maybeSnapshot`. `requests` and `replies` are the RPCs on
the wire. `Promise.allSettled` is the set of peers whose call has not settled:
`votesPending` for an election, `rounds` for heartbeat rounds, `writes` for client
writes, `reads` for ReadIndex. `replicating[i][p]` is the call of the guarded
per-peer driver, under the code's name. A call that fails removes its answer; its request may stay
behind as `late` and be delivered afterwards. A replica that crashes loses what is
not persisted and the calls it awaited. The board is the sequence of applied
events: what undo and redo make of it is the module Board.
Strokes are model values, each submitted once; `leaderAddr` is a replica.

The log keeps the index each entry carries beside its position, because the code
reads by position and filters by the carried index (`Filtered`: installSnapshot,
handleSyncLog, the constructor), and the two differ once a stale catch-up answer has
left a gap. `Recover` is the constructor with its filter (`reloaded`). A gap alone loses
nothing there: a carried index is never below its position. Only a log that is out of
order could: a leader writes behind a gap, numbering by position, and a later snapshot
renumbers what is left. `AllBehind` says that this has not happened; it is the
precondition of `RestartRebuildsBoard` and the guard of `Restart`, so what a replica
does after losing entries in this way is not modelled.

`MergeEntries` is a closed form that supposes batches of growing indices, which
every sender builds unless it wrote behind such a gap; the run `raft_log` compares it
with the loop on batches with gaps too, and `TheLoopIsMergeEntries` proves them equal
for any. `handleHeartbeat` is only reached from
`confirmLeadership`, since the interval calls `sendHeartbeats`, which sends
AppendEntries.

**Persistence.** RaftNode takes the disk writes of a handler as one step with it.
Persistence opens that step: `AdoptTerm`, `TakeEntry`, `CommitTo`, `takeSnapshot`,
`applySnapshot` and `GrantVote` compute the memory a handler leaves and the writes
it issues, in the order of the code; `Write` makes the next one, `Crash` may come
between, and the handler has replied once none is left (`promised` is the memory
at that moment). The cluster around it is the sequence `Chosen` of entries it
commits: a leader commits and snapshots nothing else, though leaders of other
terms may propose other entries for the same index. An append that follows a line
left unfinished is written on it (`glued`), also when that append is itself cut
short behind a line that was complete but for its newline. A line that does not
parse is not an entry: `Torn` stands for it, and `TornAssumption` says no more. Leaders write
through the same methods; their side of the disk is not a separate module.

**Gateway.** `task` holds the handler that is awaiting: `handleJoin` of a socket,
`handleStroke` of a stroke, with the position of RemoteRaftClient in its targets,
the redirection it follows and its attempt. A peer's answer is served in one step
and arrives in another, so a read can be older than a broadcast that precedes its
join_ack. The cluster keeps only what RaftNode is to guarantee: success means
committed, failure or silence may still be committed later, and a confirmed read
returns what the leader had applied when it was served. (The run `lost_write` shows
where the replicas break the first of these.) That is not always all that is
committed: a leader that has just been elected has applied what it knew to be
committed as a follower, and commits nothing of former terms until its next write
(`raftNode.ts:838-841`). `becomeLeader` makes any set of committed strokes `lagging`,
the next commit clears it, and `readBoardState` answers without it. `NoStrokeMissed`
excepts what lagged when the socket's read was served (`lacked`), and no more.

The model has several boards, and a user is a user of one of them: the boardId and
userId that a URL or a message names. `handleJoin` registers the socket as the user of
its message, `onClose` leaves as the user of its URL, and the two need not be the same.
A socket whose join named another user stays registered as that user after it has
closed; `NoLeakedSockets` excepts it (section 5), and says that every socket that
joined as its URL's user is given back. A socket sends one join. The per-socket count behind the rate limit
is a free choice; a stroke is refused by it or not. A closing socket is taken as
closed at once; a refused token, a bad message or an invalid stroke is answered and
changes nothing, so it has no action.

**ReplicatedBoard.** The mapping takes the longest board any replica has shown as
the board, what each replica has applied as what it shows, and the answers of
handleClientWrite as the acknowledgements. A step of RaftNode in which a leader
commits, applies and answers its writers is one `Show` step with its
acknowledgements; terms, logs, votes and calls are hidden.

**Partition.** While the first leader is cut off nothing of its is delivered and its
calls fail; the others elect and write. Once healed everything is delivered and
nobody's timer expires (a heartbeat every 150 ms against at least 500 ms). The
script heals after 4 s and an RPC fails after 2 s, so every call has settled by then.

**Connection and Frontend.** A client is one instance of the two hooks, with a user
of its own. Connection keeps every socket the instance has opened and every timer
that was set, because `wsRef` and `reconnectTimerRef` remember only the last: a close
that ends after the cleanup sets a timer nobody clears. The effect may be cleaned up
and run again on the same instance, as StrictMode does and a change of the board in
the URL. Frontend takes a handler and the render after it as one step, so
`setStrokes` and the refs change together. (React may batch several handlers into a
render; the updaters then run in order and leave the same state.) The opening of a
socket includes the join it sends and its registration at the gateway, which comes
before anything else on that socket. The gateway is reduced to what Gateway shows of
it: a read that is served before its join_ack goes out, handlers side by side, a
write that is tried again after it was committed, one reported as failed that is
committed later, a new leader that serves reads from an earlier state of the board
(`becomeLeader` takes `applied` back to one of the boards in `past`) until an event
commits (`writes`). `events`, `seen`, `disputed` and `raced` only record what happened,
for the properties.

`CanvasAgrees` is about a client that has joined and has nothing on its way. It excepts
what the code does not promise to repair before the next join, each by a history
variable that names the stroke concerned: strokes edited while an earlier edit of
them was under way (`raced`), strokes reported as failed but committed
(`Unannounced`), and `disputed`: refused by the rate limit or by validation; failed
after the 20 s of the rollback; redone but not in the client's archive; shown before
a join_ack of an older read, or of no read at all, replaced the board; or lacking in
the last join_ack because the leader that served it had not applied them. Section 5
lists them. Everything else on every canvas must agree.

## 3. Runs

Three replicas in every run of `MCRaft`; `First` is the leader of term 1 in LedSpec. Symmetry is
over replicas (other than First) and strokes. Deadlock is not an error in these
instances, because the bounds let a behaviour end.

| run | instance | what is checked |
|---|---|---|
| `raft_log` | indices to 3, terms to 3, every batch of up to 3 entries with or without gaps | `MergeIsTheLoop`, `AbortChangesNothing`, `CommittedTermsKept` |
| `election` | new cluster, 2 elections, 1 crash, 1 late request, 2 heartbeat rounds, no writes | `ElectionSafety`, `PeerVoteKept`, `NeverStuck`, `TermsAndVotesAdvance` |
| `replication` | LedSpec, 2 strokes, 1 more election, 1 heartbeat round, batches of 1, snapshot at every commit | `TypeOK`, `BoardsAgree`, `LogMatching`, `AckedWritesKept`, `OneCallPerPeer`, `CommitWithinLog`, `RestartRebuildsBoard`, and the refinement `ImplementsOneBoard` |
| `recovery` | ApartSpec, 2 strokes with 2 tries each, 1 crash, 1 late request, 1 catch-up under one leader, or 1 read and 1 more election without retries; snapshot at every commit | `NoOrphanWait`, `RestartRebuildsBoard`, `BoardsGrow`, `ReadNotSuperseded`, `ReadsSeeAcked` |
| `persistence` | 3 entries chosen, 2 terms, 3 crashes, 2 torn appends, 1 installed snapshot | `VotesDurable`, `EntriesDurable`, `BoardDurable` |
| `gateway` | 2 tabs of one user, 1 of another on the same board, a user of a second board, limit of one user, 1 stroke, 2 closes, 2 attempts, one peer, a redirection to an address that is not in the list, 1 change of leader or 1 join that names another user | `TypeOK`, `NoLeakedSockets`, `ShownIsCommitted`, `NoStrokeMissed`, `PresenceComplete`, `RoundsEnd` |
| `canvas` | 2 clients, one of which draws, 3 strokes, undos and redos, one at a time at the gateway, 1 fault of any kind (a lost socket, an unmounted page, a refusal, a failed or repeated write, a read nobody confirms, a new leader that lags) | `VisibleByLastEdit`, `CanvasAgrees`, `NoDoubles`, `EditsReachable`, `OneLiveSocket`, `ComesBack` |
| `heartbeat_commit` | as `replication` plus a read, larger batches, no snapshot | `BoardsAgree` is violated |
| `lost_write` | LedSpec, 2 strokes, 2 more elections | `VisibleOnMajority` is violated |
| `torn_append` | 2 crashes, 1 torn append | `OnlyLastLineTorn` is violated |
| `snapshot_crash` | 2 crashes, 1 installed snapshot | `PersistedCommitWithinLog` is violated |
| `partition` | 2 strokes, 2 elections, the first leader cut off and back | `CatchesUp` is violated |

Why the bounds are enough for what the runs ask: three replicas are the smallest
cluster in which a majority can leave one behind; one change of leader with two
strokes gives conflicting entries at one index, the shortest overwritten log;
a threshold of 1 compacts at every commit, so every boundary case of the log
appears; batches of 1 make a follower need several calls. In `persistence` three
entries with a threshold of 2 give appends behind a compacted log, and the second
and third crash follow a restart: two torn appends may meet on one line.
Two tabs and one other user are the least that tells "the last tab has left" from
"a tab has left", and their joins change `currentLeader` under the round of a stroke.
Three events are a stroke, its undo and its redo, and
the onlooker may join between any two steps of theirs; one fault breaks each of them
in turn. The bounds are constants named `Max...`; none of them is in the code. `recovery`
starts with a budget for crashes, late calls and catch-ups or with one for reads and an
election (`ApartInit`), and `ReadsApart` leaves the retries to the first and,
after an election, a second write to clusters that have acknowledged one. In the second
two strokes and one more election are what it takes for the read of one leader
to be under way while another acknowledges a write of its own, beside one the first has
acknowledged; what becomes of a write that failed its only attempt is in
`replication`. `FewAtOnce` in MCGateway takes one at a time of a redirection or a
change of leader (with no closes), a join that names another user (with one close) and
a failed read of a join; the theorems of section 4 have them all together.

What the bounds hide is as important. `BoardsAgree` and `AckedWritesKept` hold in
`replication`, where no read sends a `/heartbeat`, nobody catches up and no replica
is elected twice; section 5 says what happens outside. `BoardsGrow` is checked
under one leader with a crash and a catch-up, and over a read and a change of leader
without them. `recovery` has no heartbeat
rounds; that none of those is left waiting is `NobodyWaitsForNothing` below. With one event at a time at the gateway
no broadcast overtakes another in `canvas` (see section 5); with one fault, two of them
never meet, and an undo reaches the cluster before its stroke only when the stroke
was reported as failed and committed late.

**Fairness.** `ComesBack` rests on the browser: a socket that is connecting opens or
fails, a close that has begun ends, a timer fires (weak fairness of each). That the
connection is not lost again for ever is the bound on faults. `CatchesUp` rests on a
network that heals and then delivers everything, and on the heartbeat interval; its
premise asks for a leader that stays. `Gateway` needs none: `RoundsEnd` is the action
property that every step of a handler lowers a rank, and its `Fairness` (a request
is answered or aborted after `RPC_TIMEOUT`, the delay between two rounds ends) says
why the steps come. RaftNode states no fairness: `NeverStuck` is the safety half of
"an election is always possible" (a replica that does not lead has an armed timer
or a vote call that will settle).

## 4. Proofs

Each theorem is of the whole specification and for every value of the constants,
the bounds included. The assumptions are on the constants alone:

* RaftNode: a finite set of at least two replicas, any strokes, threshold, batch
  size and number of retries (`NodeAssumption`, `TuningAssumption`,
  `BoundAssumption`, `NilAssumption`);
* Persistence: `Chosen` is any sequence of entries, of any terms, and the threshold
  is positive (`PersistenceAssumption`); a line that does not parse is not an entry
  (`TornAssumption`);
* Gateway: every socket has a user, and there are a peer, a place and an attempt at
  least (`GatewayAssumption`);
* Connection, Frontend: nothing but that the bounds are numbers and that authors are
  clients.

| theorem | statement |
|---|---|
| `TypeCorrect` | RaftNode: `Spec => []TypeOK` |
| `CommitWithinLogCorrect` | the commit index is between the snapshot boundary and the end of the log, one board event per committed index |
| `OneCallPerPeerCorrect` | one replication call per peer in flight |
| `ElectionSafe` | at most one leader per term |
| `PeerVotesKept` | a vote for another replica is not followed by one for a third in that term |
| `TermsAndVotesOnlyAdvance` | no step takes a term back, or such a vote within its term |
| `NeverStuckCorrect` | a replica that does not lead has an armed timer or a vote call that will settle |
| `RestartKeepsBoard` | `RestartRebuildsBoard`: the constructor finds on disk the board and the commit index the replica has, as long as every entry carries an index behind the snapshot's |
| `NobodyWaitsForNothing` | `NoOrphanWait`: whoever waits for a peer has a call to it in flight |
| `ReadsAreConfirmed` | `ReadNotSuperseded`: a read is served by a leader nobody had superseded when it began |
| `VotesSurvive` | `VotesDurable`: what a reply said of term and vote is on disk from then on |
| `EntriesSurvive` | `EntriesDurable`: an acknowledged entry is read again at every restart, unless truncated since |
| `BoardSurvives` | `BoardDurable`: a restart continues the board of the last reply |
| `TheLoopIsMergeEntries` | `MergeIsTheLoop`: the closed form computes what the entry loop of the code computes |
| `AbortIsHarmless` | `AbortChangesNothing`: a return in the middle of the loop leaves the log as it was |
| `CommittedTermsStay` | `CommittedTermsKept`: no operation changes the term at a committed index |
| `GatewayTypeCorrect` | Gateway: `Spec => []TypeOK` |
| `SocketsReleased` | `NoLeakedSockets`: a socket that joined as its URL's user is registered only while it is open |
| `ShownStrokesAreCommitted` | `ShownIsCommitted`: only committed strokes are shown |
| `NoAcceptedStrokeMissed` | `NoStrokeMissed`: a socket that joined has every accepted stroke of the others, except what the leader that answered had not applied |
| `PresenceAnnounced` | `PresenceComplete`: users who came while a socket was registered are announced to it |
| `HandlersProgress` | `RoundsEnd`: every step of a handler lowers its rank |
| `LastEditDecides` | `VisibleByLastEdit`: the fold shows a stroke as its last undo or redo says |
| `CanvasHasNoDoubles` | `NoDoubles`: a stroke is on a canvas once, unless the cluster has it twice |
| `ArchiveHasEdits` | `EditsReachable`: undo and redo find their strokes |
| `SocketIsAlone` | `OneLiveSocket`: a page has one live socket |
| `CanvasFollowsTheBoard` | `CanvasAgrees`: once all is quiet every canvas shows the strokes of the board, except those named in section 2 |

*The type invariant of RaftNode is not inductive alone.* An answer is read against
the call that waits for it, and `applyCommitted` indexes the log up to the commit
index. So `TypeInv` adds `StoreInv` (boundary ≤ commit index ≤ last index, and the
lengths of the boards) and the discipline of the calls (`OneCallPerPeer`,
`HeartbeatCalls`). `RaftLogProofs` proves once what every log operation returns,
`RaftTypeProofs` that every operation on a store keeps `StoreOK`, then has one step
per action.

*Election safety needs more than one vote per term, and has less.* The usual
argument, that nobody votes twice in a term, is false here: `becomeFollower` clears
`votedFor` also when a candidate steps down for a leader of its own term, and it may
then vote again in that term. `ElectionInv` says what is left: a vote for another
replica is kept (`PeerVotes`, `PeerVoteKept`), a candidate keeps its vote for itself
while it stands (`SelfVotes`), a leader its own for the whole term (`Mandates`),
counted votes were granted (`CountedVotes`) and a leader's messages come from
somebody elected. Two majorities meet in a replica; whichever of these covers its
two votes, the two candidates are the same.

*Restart.* The board is a function of the disk: event `n` is that of the saved
snapshot up to the boundary and that of the log behind it (`Derived`), and fewer
entries than the threshold are committed behind the boundary, since every commit
ends in `maybeSnapshot` (`Compacted`). Every operation on a store keeps both, so
restarting, which rebuilds the one from the other, changes neither board nor commit
index. Under `AllBehind` the filter of the constructor keeps every entry, which is the
only use the proof has for it. `NoOrphanWait` is inductive over `TypeInv`: a peer leaves every `waits` set in
the step that settles its call, or the driver starts the next one in that step.

*Reads.* If a later term had a leader when a read began, a majority voted in it and
has terms above the read's. `ReadInv` keeps that majority, `Q`, until the read ends:
its members refuse the heartbeats of the read, so none of them is among the
acknowledgements, now or on the way (`MovedOn`). The acknowledgements and the reader
would be a second majority, which has a member in `Q`. That a majority voted comes
from `ElectionInv`, that its terms stay above from `TermsAndVotesAdvance`.

*Files.* For the votes, terms and votes only grow in an order (`Le`), and the last
`state.json` a handler has yet to write is the memory (`VotesInv`). For entries and
board, one state of the disk is not enough: what is there in the middle of a handler
depends on the writes already queued. `DurInv` says that there is a path `D` of
disks, one after each write that is left (`Left`), such that a crash after any of them
loses nothing that was promised (`Point`: the files are readable, and log and board
continue the promised ones) and such that the last matches the memory (`Match`). A
handler is composed of operations; each is shown to extend the path by its own
writes, a crash picks a point of it, and a restart turns the point into a new match.
One point of a path is exempt (`Exempt`): between the rewritten log and the snapshot
of an installation, where the run `snapshot_crash` shows the loss. The exceptions
`glued` and `cutShort` are those of the two violation runs. The attempt to prove this
corrected the model: with a second torn append TLC refuted `EntriesDurable`, since an
append cut short behind an unfinished line was not counted as glued. The filter of
the constructor (`EntriesAfter`) looks at carried indices, for logs of any numbering.

*The entry loop.* The reference is the loop as the code writes it, entry by entry, as
a recursive function over the position in the batch (`MergeLoop`). The closed form cuts
the log once and appends once, so the proof follows the loop through its two phases:
while it only skips entries it has, the log is unchanged; once it has cut or appended, the
log ends before every entry that is left, since the indices of a batch grow, and the
rest of the batch is appended as it is. A committed conflict is met in the first phase,
which is why a return there leaves the log alone. The induction over the position is a
least counterexample in Nat, and the theorems hold for batches of any length, with gaps.

*Gateway.* `GatewayInv` follows a stroke through the awaits: a board that was read, or
an answer that has come, holds only committed strokes (`AnswersCommitted`); a socket
is registered from the start of its join to its end (`JoinOrder`), so an accepted
stroke has reached it as a broadcast, or its read is yet to be served, or the stroke
is in the answer or in what its leader lacked (`Told`); and a user someone is owed has been announced or has a
first join on its way (`Announced`), also when the socket of that join has closed.
`HandlersProgress` is about a rank of attempts, peers and redirections left.

*Frontend.* The fold needs more than what is visible: `BoardOK` ties `undone` to the
last edit of each stroke, drawn or not, and doubles to events committed twice. What
`filter` leaves (`Without`, a recursive function) is proved by taking the least
counterexample in Nat, without an induction theorem. For sockets, the newest is the
only one that can be live (`NewestLive`), and there are never more of them than the
faults account for (`SocketsSuffice`), so no action needs a number outside `Socket`.
`FrontendInv` adds what hangs on them: a rollback is kept for an event whose socket
was opened (`PendingSent`), an error comes only on the socket of its event
(`NoticesOf`), a read is of a board that was (`ReadsOld`), and a rollback that may
still be called for finds its stroke in the archive (`RollbacksReachable`).

*The canvas.* `CanvasAgrees` speaks of the moment when nothing is on its way, so it says
nothing of the steps that lead there. `CanvasInv` says at every moment what a canvas
and the board may differ by. For a client that has handled its join_ack (`Fresh`) and
a stroke that is not excepted there are two ways: the client shows an event of its own
that the cluster does not have (`Optimistic`), and then canvas and board differ exactly
by that event; or the cluster has an event the client will be told of (`Awaited`), and
then nothing is claimed. With neither, they agree. What makes this inductive:

* there is at most one such event per stroke: an edit is made after its author has
  heard of the one before (`OneAtATime`, which is what `raced` excepts);
* so the edits of a stroke are committed in their order, the last one decides what the
  board shows (`LastDecides`), and they are broadcast in it (`InOrder`): a broadcast may
  be applied to the canvas without looking at the board;
* what a leader has applied is a beginning of the board (`PastOK`), so it shows the same
  strokes but for those of the events it lacks (`AppliedIs`);
* a read differs from the board only by events the client has seen, is still to be
  told of, or that the leader lacked (`ReadAgrees`, `Missed`), so that a join_ack starts a canvas that agrees, and
  what it loses is in `disputed`;
* a redo is shown only where the stroke is known: what is in the archive is on the board
  or still being submitted (`ArchiveDrawn`), and no other client's event of a stroke
  on the redo stack is coming (`RedoUndone`), so a rollback restores what was there.

There is a lemma for every handler. The four groups of steps that reach the canvas are a
submission (`SubmitCanvas`), a message (`AckCanvas`, `BroadcastCanvas`, `ErrorCanvas`), a
step of a socket (`SocketStepCanvas`) and a move of an event at the gateway or the
cluster (`EventStepCanvas`); for the last, `EventMoves` sums up the seven handlers in
five kinds of move. `CanvasInv` was checked by TLC on the instance of `canvas` before it
was proved, together with its parts.

*Only model-checked.* `BoardsAgree`, `LogMatching`, `AckedWritesKept`, `ReadsSeeAcked`,
`BoardsGrow` and with them `ImplementsOneBoard` cannot be theorems of `Spec`: they are
false outside their bounds (section 5, points 1 and 2, and `requestCatchUp`); their
runs say under which bounds they hold. Every other invariant and action property of
the runs is a theorem. `ComesBack` and `CatchesUp` are liveness under fairness, which the
provers do not reach, as is ENABLED.

## 5. Where the code and its documents disagree

Each of the first five has a run whose counterexample shows it.

1. *`heartbeat_commit`* (`raftNode.ts:361`): `handleHeartbeat` commits up to the
   leader's commit index without comparing logs, so a follower applies a stale
   entry the leader never had.
2. *`lost_write`* (`raftNode.ts:710`): after its await `handleClientWrite` asks only
   whether the node leads *now* and counts `matchIndex` at its index. A leader that
   was deposed with a call in flight (a call may take 2 s, an election 0.5–0.8 s),
   lost the entry and was elected again counts another entry and answers success.
3. *`torn_append`* (`persistence.ts:119`): the next append after a torn one is
   written on the same line. That entry is lost at the next restart or, once
   another line follows, `loadLog` throws and the replica does not start.
4. *`snapshot_crash`* (`raftNode.ts:565`): the log is rewritten before the snapshot
   is saved, so a crash in between loses committed entries on that replica.
5. *`partition`* (`raftNode.ts:448`): a refused AppendEntries sets nextIndex to the
   follower's number of entries plus one. A former leader that wrote while it was cut
   off holds as many entries as the new leader, or more, with the conflict before the
   last of them: it refuses the same prevLogIndex at every heartbeat and is not
   repaired while that leader stays. Catch-up runs once, at the start of a process.

Met while modelling, without a run of their own:

* `requestCatchUp` (`raftNode.ts:787`) commits up to the target's commit index
  although its own earlier entries were never compared: the same effect as 1.
* the answer to `syncLog` is merged without asking again whether the node is still a
  follower (asked at `raftNode.ts:734` only): a node elected meanwhile merges it too.
* `applySnapshot` (`raftNode.ts:564`) keeps every entry behind the new boundary without
  comparing the term at the boundary, so entries of a stale suffix may stay behind it.
* `becomeFollower` (`raftNode.ts:118`) clears `votedFor` in the same term, see section 4.
* `leaderAddr` (`raftNode.ts:37`) is not cleared with `leaderId`, so catch-up and
  redirections can go to a former leader or to the node itself.
* `getStrokes` (`remoteRaftClient.ts:79`) returns `[]` when no peer confirms the
  read, and the client shows an empty board, although the comment at line 84 speaks
  of not "treating an unconfirmed read as an empty board".
* the constructor of RaftLog (`raftLog.ts:20`) filters by the index an entry carries,
  everything else reads by position: after a stale catch-up answer, writes of a leader
  behind the gap, and two more snapshots, a restart may drop entries (`AllBehind`).
* a client that joins while a new leader lags behind what was committed
  (`raftNode.ts:838-841`) gets a join_ack without strokes that were acknowledged and
  broadcast before. `src/README.md:187-188` calls the lag "self-healing"; the leader's
  is, with its next write, but nothing sends the strokes to that client until it joins
  again.
* `handleJoin` registers a socket under the board and user of the message
  (`messageHandler.ts:31`, `43`), the close event leaves as those of the URL
  (`wsServer.ts:80`). A socket whose join names others stays registered under them when
  it has closed, with its user's place among `maxUsersPerBoard`. The project's own
  frontend sends the ones of its URL.
* the user limit (`wsServer.ts:58`) is checked at connection and used up at join.
* a join whose socket closes while it waits is announced after it has left
  (`messageHandler.ts:53`).
* two messages of a socket are handled side by side (`wsServer.ts:71`), so the
  broadcast of an undo can overtake that of its stroke: `applyStrokeEvent`
  (`useBoard.ts:23`), unlike `applyBoardEvent`, does not remember the undo, and the
  stroke stays on the other canvases.
* the redo of a stroke undone before a client joined does nothing on that client
  (`useBoard.ts:32`).
* a join_ack of a read that is older than a broadcast, or than the author's own
  stroke, takes it off the canvas until the next join (`useBoard.ts:100`).
* a stroke refused by the rate limit or by validation stays on its author's canvas
  (`useBoard.ts:113`); the report of a failure after 20 s takes an undo or redo back
  no more (`useBoard.ts:57`).
* `onclose` sets a timer also when the page was left (`useWebSocket.ts:68`), so a
  socket of a page that is gone is opened again; and the late close of an old socket
  shows "disconnected" while the new one is open.
* Canvas redraws only when there are fewer strokes than before (`Canvas.tsx:47`): a
  join_ack with as many or more leaves the old pixels.

## 6. Plan

Done: `RaftLog`, `RaftNode`, `Persistence`, `Gateway`, `Board`, `Connection`, `Frontend`,
`ReplicatedBoard` with the refinement, `Partition`, their runs, and the proofs of section 4.

Left: what RaftNode keeps of `LogMatching` and `BoardsAgree` where no heartbeat of a read
and no catch-up commits, that is, a specification without these two, and the argument
over `ElectionSafe` and the stores.

## 7. Not modelled

* `stop()`, signals and the readiness gate of a replica: they matter between the
  signal and the end of the process, when the cluster treats the replica as crashed.
* metrics, logging and cluster status: they only read.
* parsing of the configuration and validation of single messages: pure, without
  state; what they decide is a choice in the models.
* painting (`Canvas`, `useDrawing`), pages and forms of the frontend, the lengths of
  its backoff; `LocalRaftClient` and `boardManager.addStroke`, which repeat
  `applyBoardEvent` for development without replicas.
