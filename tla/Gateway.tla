------------------------------ MODULE Gateway ------------------------------
(***************************************************************************)
(* The gateway (gateway/src): the sockets of its boards, the messages they *)
(* send and receive, and the client of the Raft cluster that carries their *)
(* strokes (RemoteRaftClient).  One Node.js thread: a step runs from one   *)
(* await to the next, and everything else happens in between.              *)
(*                                                                         *)
(* The cluster is what RaftNode shows of it: a write answered with success *)
(* is committed, one that failed or got no answer may be committed later,  *)
(* and a confirmed read returns the strokes its leader has applied.  Those *)
(* are all that are committed, unless the leader has been elected since    *)
(* the last commit: then it lacks what it had not learned to be committed  *)
(* as a follower, until it commits an entry of its own term.               *)
(*                                                                         *)
(* A user is a user of one board, the boardId and userId of a URL or of a  *)
(* join message; the two need not be the same.  A socket sends one join.   *)
(*                                                                         *)
(* Every stroke is a drawing; invalid messages, which are answered with an *)
(* error and change nothing, are left out.                                 *)
(***************************************************************************)
EXTENDS Naturals, Sequences, FiniteSets

CONSTANTS
  Conn,                 \* sockets; a reconnecting client has a new one
  User,
  BoardOf,              \* the board of each user
  UserOf,               \* the user in the URL of each socket
  Stroke,
  Nil,
  NumPeers,             \* the peers are 1..NumPeers, in the order of the list
  Hint,                 \* addresses replicas name, which the list need not have
  maxUsersPerBoard,
  MAX_WRITE_ATTEMPTS,
  \* Bounds of the model, not of the code:
  MaxHints,             \* redirections the cluster answers with
  MaxCloses,            \* sockets that are closed
  MaxReadFailures,      \* requests of joins that fail
  MaxFailovers,         \* changes of the leader that answers
  MaxMisnamed           \* joins that name another user than the URL

Peer == 1..NumPeers
Address == Peer \cup Hint

ASSUME GatewayAssumption ==
  /\ UserOf \in [Conn -> User]
  /\ Conn \cap Stroke = {}
  /\ Nil \notin Conn \cup Address \cup User
  /\ {NumPeers, maxUsersPerBoard, MAX_WRITE_ATTEMPTS} \subseteq Nat \ {0}
  /\ {MaxHints, MaxCloses, MaxReadFailures, MaxFailovers, MaxMisnamed} \subseteq Nat

VARIABLES
  conn,          \* "new", "open", "closed"
  users,         \* Board.users: the registered sockets of each user
  currentLeader, \* RemoteRaftClient.currentLeader
  task,          \* handleJoin of a socket, handleStroke of a stroke
  outcome,       \* what became of each stroke
  got,           \* what each open socket was sent
  \* The cluster:
  committed,     \* strokes on the replicated board
  limbo,         \* strokes some leader may still commit
  lagging,       \* committed strokes that the leader has not applied
  spent,         \* of the bounds
  \* What happened, for the properties:
  owed,          \* users that joined while the socket was registered
  lacked         \* what lagged when the read of a socket's join was served

clientVars == <<currentLeader, task>>
clusterVars == <<committed, limbo, lagging>>
vars == <<conn, users, clientVars, outcome, got, clusterVars, spent, owed, lacked>>

Task == Conn \cup Stroke

Handler ==
  [phase : {"idle", "call", "answered", "delay", "done"}, conn : Conn \cup {Nil},
   user : User \cup {Nil}, existing : BOOLEAN, attempt : 0..(MAX_WRITE_ATTEMPTS - 1),
   at : Address \cup {Nil}, hinted : BOOLEAN, rest : Seq(Peer),
   strokes : SUBSET Stroke]

\* The handler of a stroke keeps its socket, that of a join the user it names.  At
\* an await: the request to "at" is on its way (call), the peer has done it and
\* answered (answered), or the next round waits for its timer (delay).
noTask == [phase |-> "idle", conn |-> Nil, user |-> Nil, existing |-> FALSE, attempt |-> 0,
           at |-> Nil, hinted |-> FALSE, rest |-> <<>>, strokes |-> {}]

Client == [ack : {"none", "read", "empty"}, strokes : SUBSET Stroke, seen : SUBSET User]

nothingGot == [ack |-> "none", strokes |-> {}, seen |-> {}]

-----------------------------------------------------------------------------
(* BoardManager.                                                           *)

hasUser(u) == users[u] /= {}
getUserCount(b) == Cardinality({u \in User : BoardOf[u] = b /\ hasUser(u)})
joinBoard(u, c) == [users EXCEPT ![u] = @ \cup {c}]

\* Mutant: the last socket of a user stays.
leaveBoard_KeepLast(u, c) ==
  IF users[u] = {c} THEN users ELSE [users EXCEPT ![u] = @ \ {c}]

leaveBoard(u, c) == [users EXCEPT ![u] = @ \ {c}]

\* Mutant: the other sockets of the same user are passed over too.
Receivers_OtherUsers(b, c) ==
  {d \in UNION {users[u] : u \in {v \in User : BoardOf[v] = b} \ {UserOf[c]}} :
     conn[d] = "open"}

\* Who broadcast to a board reaches when it excludes c.
Receivers(b, c) ==
  {d \in UNION {users[u] : u \in {v \in User : BoardOf[v] = b}} :
     d /= c /\ conn[d] = "open"}

\* What user_joined and user_left make of a client's list of users.
Joined(g, u, ds) ==
  [d \in Conn |-> IF d \in ds THEN [g[d] EXCEPT !.seen = @ \cup {u}] ELSE g[d]]
Left(g, u, ds) ==
  [d \in Conn |-> IF d \in ds THEN [g[d] EXCEPT !.seen = @ \ {u}] ELSE g[d]]

-----------------------------------------------------------------------------
(* RemoteRaftClient.                                                       *)

peers == [p \in Peer |-> p]

\* peers.filter(p => p !== currentLeader): the leader may be a hint, not a peer.
OtherPeers ==
  IF currentLeader \in Peer
  THEN [k \in 1..(NumPeers - 1) |-> IF k < currentLeader THEN k ELSE k + 1]
  ELSE peers

\* Mutant: a leader that is not known is tried first all the same.
Targets_NoCheck == <<currentLeader>> \o OtherPeers

\* The known leader first, then the peers in order.
Targets == IF currentLeader = Nil THEN peers ELSE <<currentLeader>> \o OtherPeers

Call(t, peer) == [t EXCEPT !.phase = "call", !.at = peer, !.strokes = {}]

\* One round over the targets.
Round(t) == Call([t EXCEPT !.hinted = FALSE, !.rest = Tail(Targets)], Head(Targets))

Finished(t) == [noTask EXCEPT !.phase = "done", !.conn = t.conn, !.user = t.user]

\* Mutant: the attempts are not counted.
NextRound_Forever(t) == [t EXCEPT !.phase = "delay"]

\* The targets are used up: give up, or wait for another round.
NextRound(t) ==
  IF t.attempt = MAX_WRITE_ATTEMPTS - 1 THEN Finished(t)
  ELSE [t EXCEPT !.phase = "delay", !.attempt = @ + 1]

Exhausted(t) == t.rest = <<>>
NextTarget(t) ==
  Call([t EXCEPT !.hinted = FALSE, !.rest = Tail(@)], Head(t.rest))

\* A hint, the address of the leader, is followed once.
FollowHint(t, hint) == Call([t EXCEPT !.hinted = TRUE], hint)

-----------------------------------------------------------------------------
(* The end of a handler.                                                   *)

\* handleJoin after its await: join_ack, and user_joined unless the user was
\* there before.  "read" is an answer of the cluster, "empty" the [] that
\* getStrokes returns when no peer confirms.
FinishJoin(c, kind, strokes) ==
  LET acked == IF conn[c] = "open"
               THEN [got EXCEPT ![c].ack = kind, ![c].strokes = @ \cup strokes]
               ELSE got
      u == task[c].user
  IN  /\ task' = [task EXCEPT ![c] = Finished(@)]
      /\ got' = IF task[c].existing THEN acked
                ELSE Joined(acked, u, Receivers(BoardOf[u], c))
      /\ UNCHANGED outcome

\* The stroke's board, which validateStroke makes that of the sender's URL.
StrokeBoard(s) == BoardOf[UserOf[task[s].conn]]

\* handleStroke after a successful submitStroke: stroke_broadcast.
FinishStroke(s) ==
  /\ task' = [task EXCEPT ![s] = Finished(@)]
  /\ outcome' = [outcome EXCEPT ![s] = "accepted"]
  /\ got' = [d \in Conn |-> IF d \in Receivers(StrokeBoard(s), task[s].conn)
                            THEN [got[d] EXCEPT !.strokes = @ \cup {s}]
                            ELSE got[d]]

\* A target did not do it: the next one, another round, or the end.
MoveOn(t) ==
  \/ /\ ~Exhausted(task[t])
     /\ task' = [task EXCEPT ![t] = NextTarget(@)]
     /\ UNCHANGED <<outcome, got>>
  \/ /\ Exhausted(task[t]) /\ t \in Conn
     /\ FinishJoin(t, "empty", {})
  \/ /\ Exhausted(task[t]) /\ t \in Stroke
     /\ task' = [task EXCEPT ![t] = NextRound(@)]
     /\ outcome' = IF task'[t].phase = "done" THEN [outcome EXCEPT ![t] = "failed"]
                   ELSE outcome
     /\ UNCHANGED got

-----------------------------------------------------------------------------
(* Sockets.                                                                *)

\* The connection handler, for a socket with a valid token and URL.
connection(c) ==
  LET full == /\ ~hasUser(UserOf[c])
              /\ getUserCount(BoardOf[UserOf[c]]) >= maxUsersPerBoard
  IN
  /\ conn[c] = "new"
  /\ conn' = [conn EXCEPT ![c] = IF full THEN "closed" ELSE "open"]
  /\ UNCHANGED <<users, clientVars, outcome, got, clusterVars, spent, owed, lacked>>

\* The client or the network ends it: the close event, which leaves as the user
\* of the URL.
onClose(c) ==
  LET u == UserOf[c]
      fullyDisconnected == hasUser(u) /\ users'[u] = {}
      told == IF fullyDisconnected THEN Left(got, u, Receivers(BoardOf[u], c)) ELSE got
      forgiven == IF fullyDisconnected THEN [d \in Conn |-> owed[d] \ {u}] ELSE owed
  IN
  /\ conn[c] = "open"
  /\ spent.closes < MaxCloses
  /\ spent' = [spent EXCEPT !.closes = @ + 1]
  /\ conn' = [conn EXCEPT ![c] = "closed"]
  /\ users' = leaveBoard(u, c)
  /\ got' = [told EXCEPT ![c] = nothingGot]
  /\ owed' = [forgiven EXCEPT ![c] = {}]
  /\ UNCHANGED <<clientVars, outcome, clusterVars, lacked>>

-----------------------------------------------------------------------------
(* Messages.                                                               *)

\* Mutant: whether the user is new is asked after joining.
AlreadyThere_Late(u) == TRUE

AlreadyThere(u) == hasUser(u)

\* The message names the user it joins as, which need not be the user of the URL.
handleJoin(c, u) ==
  LET misnamed == u /= UserOf[c] IN
  /\ conn[c] = "open" /\ task[c] = noTask
  /\ misnamed => spent.misnamed < MaxMisnamed
  /\ spent' = [spent EXCEPT !.misnamed = IF misnamed THEN @ + 1 ELSE @]
  /\ users' = joinBoard(u, c)
  /\ task' = [task EXCEPT ![c] =
                Round([@ EXCEPT !.user = u, !.existing = AlreadyThere(u)])]
  /\ owed' = [d \in Conn |-> IF ~hasUser(u) /\ d \in Receivers(BoardOf[u], c)
                             THEN owed[d] \cup {u} ELSE owed[d]]
  /\ UNCHANGED <<conn, currentLeader, outcome, got, clusterVars, lacked>>

\* The rate limit, then submitStroke.  How many strokes the socket has sent in
\* its window is not kept: it may have used the window up or not.  A client
\* sends its join first.
handleStroke(c, s) ==
  /\ conn[c] = "open" /\ task[c] /= noTask /\ task[s] = noTask
  /\ \/ /\ task' = [task EXCEPT ![s] = Finished([@ EXCEPT !.conn = c])]
        /\ outcome' = [outcome EXCEPT ![s] = "limited"]
     \/ /\ task' = [task EXCEPT ![s] = Round([@ EXCEPT !.conn = c])]
        /\ UNCHANGED outcome
  /\ UNCHANGED <<conn, users, currentLeader, got, clusterVars, spent, owed, lacked>>

\* Success comes back.
replies(t) ==
  LET k == task[t] IN
  /\ k.phase = "answered"
  /\ \/ /\ t \in Conn
        /\ currentLeader' = k.at
        /\ FinishJoin(t, "read", k.strokes)
     \/ /\ t \in Stroke
        /\ currentLeader' = IF k.hinted THEN currentLeader ELSE k.at
        /\ FinishStroke(t)
  /\ UNCHANGED <<conn, users, clusterVars, spent, owed, lacked>>

\* A peer that does not lead, or could not commit, says so, with or without the
\* address of the leader; what it could not commit may be in its log.
refused(t, hint) ==
  LET k == task[t] IN
  /\ k.phase = "call"
  /\ \/ /\ hint /= Nil /\ ~k.hinted
        /\ currentLeader' = hint
        /\ task' = [task EXCEPT ![t] = FollowHint(@, hint)]
        /\ UNCHANGED <<outcome, got>>
     \/ /\ hint = Nil \/ k.hinted
        /\ MoveOn(t)
        /\ UNCHANGED currentLeader
  /\ limbo' = limbo \cup ({t} \cap Stroke)
  /\ hint /= Nil => spent.hints < MaxHints
  /\ t \in Conn => spent.reads < MaxReadFailures
  /\ spent' = [spent EXCEPT !.hints = IF hint = Nil THEN @ ELSE @ + 1,
                            !.reads = IF t \in Conn THEN @ + 1 ELSE @]
  /\ UNCHANGED <<conn, users, committed, lagging, owed, lacked>>

\* Mutant: a write that got no answer is taken for done.
throws_AsSuccess(t) ==
  /\ task[t].phase \in {"call", "answered"} /\ t \in Stroke
  /\ FinishStroke(t)
  /\ UNCHANGED <<conn, users, currentLeader, clusterVars, spent, owed, lacked>>

\* The request fails or is aborted after RPC_TIMEOUT; the peer may have it.
throws(t) ==
  /\ task[t].phase \in {"call", "answered"}
  /\ t \in Conn => spent.reads < MaxReadFailures
  /\ MoveOn(t)
  /\ limbo' = limbo \cup ({t} \cap Stroke)
  /\ spent' = IF t \in Conn THEN [spent EXCEPT !.reads = @ + 1] ELSE spent
  /\ UNCHANGED <<conn, users, currentLeader, committed, lagging, owed, lacked>>

\* The timer between two rounds.
retries(s) ==
  /\ task[s].phase = "delay"
  /\ task' = [task EXCEPT ![s] = Round(@)]
  /\ UNCHANGED <<conn, users, currentLeader, outcome, got, clusterVars, spent, owed, lacked>>

-----------------------------------------------------------------------------
(* The cluster.                                                            *)

\* The leader commits the write, the whole log before it included, and answers.
handleClientWrite(s) ==
  /\ task[s].phase = "call"
  /\ task' = [task EXCEPT ![s].phase = "answered"]
  /\ committed' = committed \cup {s}
  /\ lagging' = {}
  /\ UNCHANGED <<conn, users, currentLeader, outcome, got, limbo, spent, owed, lacked>>

\* The leader confirms that it leads and answers with what it has applied.
readBoardState(c) ==
  /\ task[c].phase = "call"
  /\ task' = [task EXCEPT ![c].phase = "answered",
       ![c].strokes = {s \in committed \ lagging : StrokeBoard(s) = BoardOf[task[c].user]}]
  /\ lacked' = [lacked EXCEPT ![c] = lagging]
  /\ UNCHANGED <<conn, users, currentLeader, outcome, got, clusterVars, spent, owed>>

\* What a leader has in its log is committed after all.
commitsLate(s) ==
  /\ s \in limbo
  /\ committed' = committed \cup {s}
  /\ limbo' = limbo \ {s}
  /\ lagging' = {}
  /\ UNCHANGED <<conn, users, clientVars, outcome, got, spent, owed, lacked>>

\* Another leader is elected, whose commit index is what it had as a follower.  In
\* the code it lacks the end of the log; here it may lack any committed strokes.  One
\* that lacks what the leader before it lacked changes nothing.
becomeLeader ==
  /\ spent.failovers < MaxFailovers
  /\ spent' = [spent EXCEPT !.failovers = @ + 1]
  /\ lagging' \in (SUBSET committed) \ {lagging}
  /\ UNCHANGED <<conn, users, clientVars, outcome, got, committed, limbo, owed, lacked>>

Init ==
  /\ conn = [c \in Conn |-> "new"]
  /\ users = [u \in User |-> {}]
  /\ currentLeader = Nil
  /\ task = [t \in Task |-> noTask]
  /\ outcome = [s \in Stroke |-> "none"]
  /\ got = [c \in Conn |-> nothingGot]
  /\ committed = {} /\ limbo = {} /\ lagging = {}
  /\ spent = [hints |-> 0, closes |-> 0, reads |-> 0, failovers |-> 0, misnamed |-> 0]
  /\ owed = [c \in Conn |-> {}]
  /\ lacked = [c \in Conn |-> {}]

Next ==
  \/ \E c \in Conn : \/ connection(c) \/ onClose(c) \/ readBoardState(c)
                     \/ \E u \in User : handleJoin(c, u)
                     \/ \E s \in Stroke : handleStroke(c, s)
  \/ \E t \in Task : \/ replies(t) \/ throws(t)
                     \/ \E hint \in Hint \cup {Nil} : refused(t, hint)
  \/ \E s \in Stroke : handleClientWrite(s) \/ retries(s) \/ commitsLate(s)
  \/ becomeLeader

\* What the gateway itself guarantees: a request is answered or aborted by its
\* timer, and the timer between two rounds fires.  Nothing is asked of the peers.
Fairness == /\ \A t \in Task : WF_vars(replies(t) \/ throws(t))
            /\ \A s \in Stroke : WF_vars(retries(s))

Spec == Init /\ [][Next]_vars /\ Fairness

-----------------------------------------------------------------------------
(* Properties.                                                             *)

TypeOK ==
  /\ conn \in [Conn -> {"new", "open", "closed"}]
  /\ users \in [User -> SUBSET Conn]
  /\ currentLeader \in Address \cup {Nil}
  /\ task \in [Task -> Handler]
  /\ \A t \in Task : task[t].phase \in {"call", "answered"} => task[t].at \in Address
  /\ \A c \in Conn : task[c].phase /= "idle" => task[c].user \in User
  /\ outcome \in [Stroke -> {"none", "accepted", "failed", "limited"}]
  /\ got \in [Conn -> Client]
  /\ committed \subseteq Stroke /\ limbo \subseteq Stroke /\ lagging \subseteq committed
  /\ spent \in [hints : 0..MaxHints, closes : 0..MaxCloses, reads : 0..MaxReadFailures,
               failovers : 0..MaxFailovers, misnamed : 0..MaxMisnamed]
  /\ owed \in [Conn -> SUBSET User]
  /\ lacked \in [Conn -> SUBSET Stroke]

\* A socket that joined as the user of its URL is not registered once it is closed,
\* whatever was still awaited for it when it closed: the board would keep its user,
\* and its place among maxUsersPerBoard.  The close event leaves as that user, so a
\* socket whose join named another one stays registered as the other for good.
NoLeakedSockets ==
  \A u \in User : \A c \in users[u] :
    task[c].user = u /\ (conn[c] = "open" \/ UserOf[c] /= u)

\* A stroke is broadcast only when the cluster has committed it, over retries,
\* redirections and late answers; and what a join_ack shows is committed.
ShownIsCommitted == \A c \in Conn : got[c].strokes \subseteq committed

\* No stroke falls between a join's read and the broadcasts: a socket that got
\* its join_ack from the cluster has been sent every accepted stroke of the board it
\* joined that came over another socket, those of the same user's other tabs
\* included.  The exception is what the leader that answered the join had not applied
\* at that moment: nothing sends it to the socket later.
NoStrokeMissed ==
  \A c \in Conn, s \in Stroke :
    /\ conn[c] = "open" /\ got[c].ack = "read"
    /\ outcome[s] = "accepted" /\ StrokeBoard(s) = BoardOf[task[c].user]
    => s \in got[c].strokes \/ task[s].conn = c \/ s \in lacked[c]

\* A user who came while the socket was registered and has not left with every
\* tab is in the client's list of users, once the joins that name that user are done.
PresenceComplete ==
  \A d \in Conn : conn[d] = "open" =>
    \A u \in owed[d] :
      (\A c \in Conn : task[c].user = u => task[c].phase = "done")
        => u \in got[d].seen

\* Of what a handler may still do before it gives up: rounds, targets of this
\* round, a hint to follow, an answer to wait for.
Rank(t) ==
  LET perRound == 4 * (NumPeers + 1)
      ofRound == IF t.phase = "delay" THEN perRound
                 ELSE 4 * Len(t.rest) + (IF t.hinted THEN 0 ELSE 2)
                        + (IF t.phase = "call" THEN 1 ELSE 0)
  IN  (MAX_WRITE_ATTEMPTS - t.attempt) * (perRound + 1) + ofRound

\* Every handler ends: each of its steps leaves it less to do, whatever the peers
\* answer, wherever they redirect it and however currentLeader changes meanwhile.
\* As every await ends with an answer or a timer, the message is settled.
RoundsEnd ==
  [][\A t \in Task : task[t].phase \notin {"idle", "done"} /\ task'[t] /= task[t]
       => task'[t].phase = "done" \/ Rank(task'[t]) < Rank(task[t])]_vars
=============================================================================
