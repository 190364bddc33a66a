------------------------------ MODULE Frontend ------------------------------
(***************************************************************************)
(* The board of a client (frontend/src/hooks/useBoard.ts) over the sockets *)
(* of Connection: strokes are shown before the cluster has them and taken  *)
(* back when it refuses, other clients' events arrive as broadcasts, and a *)
(* join_ack replaces the board.                                            *)
(*                                                                         *)
(* The gateway and the cluster are as Gateway and RaftNode show them: the  *)
(* join of a socket registers it, reads the board and answers later; the   *)
(* handlers of two messages run side by side, so events are committed and  *)
(* broadcast in any order; a write that got no answer is submitted again,  *)
(* and one that is reported as failed may be committed afterwards.         *)
(*                                                                         *)
(* Every client has a user of its own.  An event is its number: the id of  *)
(* a stroke is the number of the event that drew it.                       *)
(***************************************************************************)
EXTENDS Connection, Board

CONSTANTS
  \* Bounds of the model, not of the code:
  Author,          \* clients whose users draw; the others look on
  MaxEvents,       \* strokes, undos and redos
  MaxInFlight      \* of them, those the gateway is handling

ASSUME FrontendAssumption ==
  /\ Author \subseteq Client
  /\ {MaxEvents, MaxInFlight} \subseteq Nat

VARIABLES
  \* useBoard, of each client:
  strokes,    \* the ids on its canvas
  redoIds,    \* redoStrokeIds
  archive,    \* the keys of strokeArchiveRef
  pending,    \* events whose rollback is kept, the keys of pendingRollbackRef
  \* The gateway:
  session,    \* of the client's socket: none, joined, read, acked
  reading,    \* the board that the read of its join returned
  toClient,   \* messages sent to its socket
  phase,      \* of the handler of each event
  \* The cluster:
  board,
  applied,    \* the board as its leader has applied it, behind after a failover
  past,       \* the boards there have been, that of every replica among them
  \* What happened, for the properties:
  events,     \* every event of a user
  seen,       \* events shown to the client since its socket opened
  disputed,   \* strokes the client may see differently until it joins again
  raced       \* strokes edited again before the last edit was settled

clientVars == <<strokes, redoIds, archive, pending>>
gatewayVars == <<session, reading, toClient, phase>>
clusterVars == <<board, applied, past>>
vars == <<connVars, faults, clientVars, gatewayVars, clusterVars, events, seen, disputed, raced>>

Event == DOMAIN events
Target(e) == events[e].target
Targets(es) == {Target(e) : e \in es}
InFlight == {e \in Event : phase[e] \in {"sent", "committed"}}
noRead == [strokes |-> <<>>, of |-> {}, lacks |-> {}, confirmed |-> FALSE]

\* The events on the replicated board.
Committed == {board.events[k].id : k \in DOMAIN board.events}

\* Those that its leader has yet to apply.
Unapplied ==
  {board.events[k].id : k \in (Len(applied.events) + 1)..Len(board.events)}

-----------------------------------------------------------------------------
(* What an event does to a canvas; known is the archive.                   *)

\* Mutant: a stroke that is there already is drawn again.
applyStrokeEvent_Again(current, event, known) ==
  LET s == event.target IN
  CASE event.action = "undo_stroke" -> Without(current, s)
    [] event.action = "redo_stroke" ->
         IF Has(current, s) \/ s \notin known THEN current ELSE Append(current, s)
    [] OTHER -> Append(current, s)

applyStrokeEvent(current, event, known) ==
  LET s == event.target IN
  CASE event.action = "undo_stroke" -> Without(current, s)
    [] event.action = "redo_stroke" ->
         IF Has(current, s) \/ s \notin known THEN current ELSE Append(current, s)
    [] OTHER -> IF Has(current, s) THEN current ELSE Append(current, s)

\* Mutant: the rollback of an undo does not bring the stroke back.
rolledBack_Undone(current, event) == Without(current, event.target)

\* The rollbacks that addStroke, undoLastStroke and redoLastStroke hand over.
rolledBack(current, event) ==
  LET s == event.target IN
  IF event.action /= "undo_stroke" THEN Without(current, s)
  ELSE IF Has(current, s) THEN current ELSE Append(current, s)

redoRolledBack(ids, event) ==
  LET s == event.target IN
  CASE event.action = "undo_stroke" -> Without(ids, s)
    [] event.action = "redo_stroke" -> Append(ids, s)
    [] OTHER -> ids

-----------------------------------------------------------------------------
(* The user.                                                               *)

\* An event of s is not done with, or its own author has yet to hear of it.
Unsettled(c, s) ==
  \/ \E e \in Event : Target(e) = s /\ (e \in InFlight \/ phase[e] = "limbo")
  \/ \E k \in DOMAIN toClient[c] :
       toClient[c][k].type /= "join_ack" /\ Target(toClient[c][k].id) = s

\* submitStrokeMessage: event is the next one of c, shown and redo are what its
\* canvas and its redo stack are now.  A socket that is not open takes nothing,
\* and the change is taken back at once.
submitStrokeMessage(c, event, shown, redo) ==
  /\ mounted[c] /\ c \in Author /\ event.id <= MaxEvents
  /\ Cardinality(InFlight) < MaxInFlight
  /\ events' = Append(events, event)
  /\ \/ /\ IsOpen(c)
        /\ strokes' = [strokes EXCEPT ![c] = shown]
        /\ redoIds' = [redoIds EXCEPT ![c] = redo]
        /\ pending' = [pending EXCEPT ![c] = @ \cup {event.id}]
        /\ phase' = Append(phase, "sent")
        /\ seen' = [seen EXCEPT ![c] = @ \cup {event.id}]
        /\ raced' = IF Unsettled(c, event.target) THEN raced \cup {event.target} ELSE raced
     \/ /\ ~IsOpen(c)
        /\ strokes' = [strokes EXCEPT ![c] = rolledBack(shown, event)]
        /\ redoIds' = [redoIds EXCEPT ![c] = redoRolledBack(redo, event)]
        /\ phase' = Append(phase, "unsent")
        /\ UNCHANGED <<pending, seen, raced>>
  /\ UNCHANGED <<connVars, faults, session, reading, toClient, clusterVars, disputed>>

NewEvent(c, action, target) ==
  [id |-> Len(events) + 1, action |-> action, target |-> target, by |-> c, via |-> wsRef[c]]

addStroke(c) ==
  LET event == NewEvent(c, "stroke", Len(events) + 1) IN
  /\ archive' = [archive EXCEPT ![c] = @ \cup {event.id}]
  /\ submitStrokeMessage(c, event, applyStrokeEvent(strokes[c], event, archive'[c]), <<>>)

\* ownVisibleStrokeIds, as places on the canvas.
OwnVisible(c) == {k \in DOMAIN strokes[c] : events[strokes[c][k]].by = c}

\* The last of them.  What the archive does not have is not undone or redone.
undoLastStroke(c) ==
  /\ \E k \in OwnVisible(c) :
       LET s == strokes[c][k]
           event == NewEvent(c, "undo_stroke", s)
       IN  /\ \A l \in OwnVisible(c) : l <= k
           /\ s \in archive[c]
           /\ submitStrokeMessage(c, event, applyStrokeEvent(strokes[c], event, archive[c]),
                                  Append(redoIds[c], s))
  /\ UNCHANGED archive

redoLastStroke(c) ==
  /\ redoIds[c] /= <<>>
  /\ LET n == Len(redoIds[c])
         event == NewEvent(c, "redo_stroke", redoIds[c][n])
     IN  /\ event.target \in archive[c]
         /\ submitStrokeMessage(c, event, applyStrokeEvent(strokes[c], event, archive[c]),
                                SubSeq(redoIds[c], 1, n - 1))
  /\ UNCHANGED archive

\* The 20 s of a rollback are over.  Only an error looks at it: a timer that fires
\* sooner, or that no error follows, changes nothing else.
rollbackExpires(c, e) ==
  /\ e \in pending[c]
  /\ \E k \in DOMAIN toClient[c] : toClient[c][k] = [type |-> "error", id |-> e]
  /\ pending' = [pending EXCEPT ![c] = @ \ {e}]
  /\ UNCHANGED <<connVars, faults, strokes, redoIds, archive, gatewayVars, clusterVars,
                 events, seen, disputed, raced>>

-----------------------------------------------------------------------------
(* handleMessage.                                                          *)

\* Mutant: the archive is emptied, not filled from the strokes.
onJoinAck_NoArchive(c, m) ==
  /\ strokes' = [strokes EXCEPT ![c] = m.strokes]
  /\ archive' = [archive EXCEPT ![c] = {}]
  /\ redoIds' = [redoIds EXCEPT ![c] = <<>>]
  /\ disputed' = [disputed EXCEPT ![c] =
                    IF m.confirmed THEN Targets((seen[c] \ m.of) \cup m.lacks)
                    ELSE Targets(Event)]
  /\ UNCHANGED <<pending, seen>>

\* The read that no peer confirmed shows nothing of the board.  Of a confirmed
\* one, what the client had shown and the read does not have is lost, and what
\* the leader had yet to apply is missing.
onJoinAck(c, m) ==
  /\ strokes' = [strokes EXCEPT ![c] = m.strokes]
  /\ archive' = [archive EXCEPT ![c] = {m.strokes[k] : k \in DOMAIN m.strokes}]
  /\ redoIds' = [redoIds EXCEPT ![c] = <<>>]
  /\ disputed' = [disputed EXCEPT ![c] =
                    IF m.confirmed THEN Targets((seen[c] \ m.of) \cup m.lacks)
                    ELSE Targets(Event)]
  /\ UNCHANGED <<pending, seen>>

onBroadcast(c, m) ==
  LET s == Target(m.id)
      unknown == events[m.id].action = "redo_stroke" /\ s \notin archive[c]
  IN
  /\ strokes' = [strokes EXCEPT ![c] = applyStrokeEvent(@, events[m.id], archive[c])]
  /\ archive' = IF events[m.id].action = "stroke" /\ ~Has(strokes[c], s)
                THEN [archive EXCEPT ![c] = @ \cup {s}] ELSE archive
  /\ seen' = [seen EXCEPT ![c] = @ \cup {m.id}]
  /\ disputed' = IF unknown THEN [disputed EXCEPT ![c] = @ \cup {s}] ELSE disputed
  /\ UNCHANGED <<redoIds, pending>>

\* RAFT_WRITE_FAILED: runPendingRollback.
onWriteFailed(c, m) ==
  LET s == Target(m.id) IN
  /\ IF m.id \in pending[c]
     THEN /\ strokes' = [strokes EXCEPT ![c] = rolledBack(@, events[m.id])]
          /\ redoIds' = [redoIds EXCEPT ![c] = redoRolledBack(@, events[m.id])]
     ELSE /\ strokes' = [strokes EXCEPT ![c] = Without(@, m.id)]
          /\ UNCHANGED redoIds
  /\ disputed' = IF m.id \notin pending[c] /\ s /= m.id
                 THEN [disputed EXCEPT ![c] = @ \cup {s}] ELSE disputed
  /\ pending' = [pending EXCEPT ![c] = @ \ {m.id}]
  /\ UNCHANGED <<archive, seen>>

\* A message that comes while the socket is open.
handleMessage(c) ==
  /\ IsOpen(c) /\ toClient[c] /= <<>>
  /\ toClient' = [toClient EXCEPT ![c] = Tail(@)]
  /\ UNCHANGED events
  /\ LET m == Head(toClient[c]) IN
     \/ m.type = "join_ack" /\ onJoinAck(c, m)
     \/ m.type = "stroke_broadcast" /\ onBroadcast(c, m)
     \/ m.type = "error" /\ onWriteFailed(c, m)
  /\ UNCHANGED <<connVars, faults, session, reading, phase, clusterVars, raced>>

-----------------------------------------------------------------------------
(* The gateway and the cluster.                                            *)

gatewayRest == <<connVars, clientVars, events, seen, raced>>

\* Another replica is elected.  It has every event, but shows only those it knew
\* to be committed until a write of its own commits.
becomeLeader ==
  /\ Fault
  /\ applied' \in past \ {board}
  /\ UNCHANGED <<gatewayRest, session, reading, toClient, phase, board, past, disputed>>

\* A leader confirms the read and returns what it has applied, or no peer does.
getStrokes(c) ==
  /\ session[c] = "joined"
  /\ session' = [session EXCEPT ![c] = "read"]
  /\ \/ /\ reading' = [reading EXCEPT ![c] =
                         [strokes |-> applied.visible, of |-> Committed \ Unapplied,
                          lacks |-> Unapplied, confirmed |-> TRUE]]
        /\ UNCHANGED faults
     \/ /\ Fault
        /\ reading' = [reading EXCEPT ![c] = noRead]
  /\ UNCHANGED <<gatewayRest, toClient, phase, clusterVars, disputed>>

joinAck(c) ==
  /\ session[c] = "read"
  /\ session' = [session EXCEPT ![c] = "acked"]
  /\ toClient' = [toClient EXCEPT ![c] =
                    Append(@, [type |-> "join_ack", strokes |-> reading[c].strokes,
                               of |-> reading[c].of, lacks |-> reading[c].lacks,
                               confirmed |-> reading[c].confirmed])]
  /\ reading' = [reading EXCEPT ![c] = noRead]
  /\ UNCHANGED <<gatewayRest, faults, phase, clusterVars, disputed>>

\* The socket that sent e is still the client's.
SenderOpen(e) == IsOpen(events[e].by) /\ wsRef[events[e].by] = events[e].via

\* The message went down with its socket.
undelivered(e) ==
  /\ phase[e] = "sent" /\ ~SenderOpen(e) /\ e \notin Committed
  /\ phase' = [phase EXCEPT ![e] = "done"]
  /\ UNCHANGED <<gatewayRest, faults, session, reading, toClient, clusterVars, disputed>>

\* The rate limit, or a check of the message, refuses the event.
refuses(e) ==
  /\ phase[e] = "sent" /\ Fault /\ e \notin Committed
  /\ phase' = [phase EXCEPT ![e] = "done"]
  /\ disputed' = [disputed EXCEPT ![events[e].by] = @ \cup {Target(e)}]
  /\ UNCHANGED <<gatewayRest, session, reading, toClient, clusterVars>>

\* The entry of e commits, and with it everything before it: the leader applies
\* all of the board.
writes(e) ==
  /\ board' = applyBoardEvent(board, events[e])
  /\ applied' = board'
  /\ past' = past \cup {board'}

commits(e) ==
  /\ phase[e] = "sent"
  /\ phase' = [phase EXCEPT ![e] = "committed"]
  /\ writes(e)
  /\ UNCHANGED <<gatewayRest, faults, session, reading, toClient, disputed>>

\* The answer is lost: submitStroke tries again.
resubmits(e) ==
  /\ phase[e] = "committed" /\ Fault
  /\ phase' = [phase EXCEPT ![e] = "sent"]
  /\ UNCHANGED <<gatewayRest, session, reading, toClient, clusterVars, disputed>>

\* stroke_broadcast to every registered socket but the sender's.
answers(e) ==
  /\ phase[e] = "committed"
  /\ phase' = [phase EXCEPT ![e] = "done"]
  /\ toClient' = [d \in Client |->
       IF IsOpen(d) /\ session[d] /= "none" /\ ~(d = events[e].by /\ SenderOpen(e))
       THEN Append(toClient[d], [type |-> "stroke_broadcast", id |-> e]) ELSE toClient[d]]
  /\ UNCHANGED <<gatewayRest, faults, session, reading, clusterVars, disputed>>

\* No attempt succeeded: RAFT_WRITE_FAILED to the sender.  The cluster may have
\* the event, or still commit it; nobody is told.
fails(e) ==
  LET c == events[e].by IN
  /\ phase[e] = "sent" /\ Fault
  /\ phase' = [phase EXCEPT ![e] = "limbo"]
  /\ toClient' = IF SenderOpen(e)
                 THEN [toClient EXCEPT ![c] = Append(@, [type |-> "error", id |-> e])]
                 ELSE toClient
  /\ UNCHANGED <<gatewayRest, session, reading, clusterVars, disputed>>

commitsLate(e) ==
  /\ phase[e] = "limbo"
  /\ phase' = [phase EXCEPT ![e] = "late"]
  /\ writes(e)
  /\ UNCHANGED <<gatewayRest, faults, session, reading, toClient, disputed>>

-----------------------------------------------------------------------------
(* The sockets of Connection, with what hangs on them.                     *)

boardRest == <<strokes, redoIds, archive, phase, clusterVars, events, disputed, raced>>

SocketGone(c) ==
  /\ session' = [session EXCEPT ![c] = "none"]
  /\ reading' = [reading EXCEPT ![c] = noRead]
  /\ toClient' = [toClient EXCEPT ![c] = <<>>]

Mounts(c) == effect(c) /\ UNCHANGED <<boardRest, pending, session, reading, toClient, seen>>

\* The cleanups of both hooks: the rollbacks are forgotten.
Unmounts(c) ==
  /\ cleanup(c) /\ SocketGone(c)
  /\ pending' = [pending EXCEPT ![c] = {}]
  /\ UNCHANGED <<boardRest, seen>>

\* The join that onopen sends comes before anything else on the socket: it is
\* registered, and its read begins.
Opens(c, k) ==
  /\ onopen(c, k)
  /\ session' = [session EXCEPT ![c] = "joined"]
  /\ seen' = [seen EXCEPT ![c] = {}]
  /\ UNCHANGED <<boardRest, pending, reading, toClient>>

Closes(c, k) ==
  /\ onclose(c, k)
  /\ IF k = wsRef[c] THEN SocketGone(c) ELSE UNCHANGED <<session, reading, toClient>>
  /\ UNCHANGED <<boardRest, pending, seen>>

TimerFires(c, k) ==
  reconnects(c, k) /\ UNCHANGED <<boardRest, pending, session, reading, toClient, seen>>

-----------------------------------------------------------------------------

\* The authors have joined the empty board; the others come later.
Init ==
  /\ ConnInit(Author)
  /\ session = [c \in Client |-> IF c \in Author THEN "acked" ELSE "none"]
  /\ strokes = [c \in Client |-> <<>>] /\ redoIds = [c \in Client |-> <<>>]
  /\ archive = [c \in Client |-> {}] /\ pending = [c \in Client |-> {}]
  /\ reading = [c \in Client |-> noRead] /\ toClient = [c \in Client |-> <<>>]
  /\ phase = <<>> /\ events = <<>>
  /\ board = emptyBoard /\ applied = emptyBoard /\ past = {emptyBoard}
  /\ seen = [c \in Client |-> {}] /\ disputed = [c \in Client |-> {}] /\ raced = {}

Next ==
  \/ becomeLeader
  \/ \E c \in Client :
       \/ Mounts(c) \/ Unmounts(c)
       \/ \E k \in Socket : Opens(c, k) \/ Closes(c, k) \/ TimerFires(c, k)
       \/ addStroke(c) \/ undoLastStroke(c) \/ redoLastStroke(c)
       \/ \E e \in pending[c] : rollbackExpires(c, e)
       \/ handleMessage(c) \/ getStrokes(c) \/ joinAck(c)
  \/ \E e \in Event : \/ refuses(e) \/ commits(e) \/ resubmits(e) \/ answers(e)
                      \/ fails(e) \/ commitsLate(e) \/ undelivered(e)

\* A browser opens or fails a socket, ends the close it began, and fires timers.
Fairness ==
  \A c \in Client :
    /\ WF_vars(\E k \in Socket :
         Opens(c, k) \/ (readyState[c][k] /= "OPEN" /\ Closes(c, k)))
    /\ WF_vars(\E k \in Socket : TimerFires(c, k))

Spec == Init /\ [][Next]_vars /\ Fairness

-----------------------------------------------------------------------------
(* Properties.                                                             *)

\* Folding the events one by one, in whatever order the cluster committed them
\* and however often, an undo before its stroke included, shows a stroke exactly
\* when it was drawn and its last undo or redo is not an undo.
VisibleByLastEdit ==
  \A s \in Event : Has(board.visible, s) <=> OnBoard(board.events, s)

\* The client has joined, nothing is on its way to it and no handler is running.
Quiet(c) ==
  /\ mounted[c] /\ IsOpen(c) /\ session[c] = "acked" /\ toClient[c] = <<>>
  /\ InFlight = {}

\* Committed, but reported as failed.
Unannounced == {e \in Committed : phase[e] \in {"limbo", "late"}}

\* When everything has settled every canvas shows the strokes of the replicated
\* board, after optimistic changes, rollbacks, missed broadcasts and a new join.
\* Excepted are strokes edited while an earlier edit was under way, strokes
\* reported as failed that were committed, and those in disputed: refused by the
\* gateway and not taken back (until the next join), failed after the 20 s of the
\* rollback, redone but unknown to the client, shown before a join_ack of an
\* older read replaced the board, or missing from the last join_ack because its
\* read was served by a new leader that had yet to apply the newest commits.
CanvasAgrees ==
  \A c \in Client : Quiet(c) =>
    \A s \in Event \ (raced \cup Targets(Unannounced) \cup disputed[c]) :
      Has(strokes[c], s) <=> Has(board.visible, s)

Times(seq, x) == Cardinality({k \in DOMAIN seq : seq[k] = x})

\* A stroke is on a canvas once, also when its author gets its own broadcast after
\* a reconnection, unless the cluster has it twice.
NoDoubles ==
  \A c \in Client : \A s \in Event :
    Times(strokes[c], s) > 1 => Times(board.events, events[s]) > 1

\* Undo and redo find what they need: every stroke on the canvas or on the redo
\* stack is in the archive.  Excepted are edits that a join_ack crossed.
EditsReachable ==
  \A c \in Client : \A s \in Event \ (disputed[c] \cup Targets(Unannounced)) :
    Has(strokes[c], s) \/ Has(redoIds[c], s) => s \in archive[c]
=============================================================================
