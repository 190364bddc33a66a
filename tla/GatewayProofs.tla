--------------------------- MODULE GatewayProofs ---------------------------
(***************************************************************************)
(* Proofs about the gateway, for any number of sockets, users, strokes,    *)
(* peers, hints and attempts: the type invariant, the bound on what a      *)
(* handler may still do, and the three promises to the clients, that       *)
(* nothing uncommitted is shown, that no accepted stroke is missed and     *)
(* that no user who joined is missing from the list.                       *)
(***************************************************************************)
EXTENDS Gateway, SequenceTheorems, TLAPS

-----------------------------------------------------------------------------
(* The client of the cluster.                                              *)

\* The peers that are tried after the leader.
LEMMA OtherPeersType ==
  ASSUME currentLeader \in Address \cup {Nil}
  PROVE  OtherPeers \in Seq(Peer) /\ Len(OtherPeers) <= NumPeers
<1>1. NumPeers \in Nat \ {0}
  BY GatewayAssumption
<1>2. CASE currentLeader \in Peer
  <2> DEFINE f == [k \in 1..(NumPeers - 1) |-> IF k < currentLeader THEN k ELSE k + 1]
  <2>1. f \in [1..(NumPeers - 1) -> Peer] /\ NumPeers - 1 \in Nat
    BY <1>1, <1>2 DEF Peer
  <2>2. f \in Seq(Peer) /\ Len(f) = NumPeers - 1
    BY <2>1
  <2> QED
    BY <1>1, <1>2, <2>2 DEF OtherPeers
<1>3. CASE currentLeader \notin Peer
  <2>1. peers \in [1..NumPeers -> Peer]
    BY DEF peers, Peer
  <2>2. peers \in Seq(Peer) /\ Len(peers) = NumPeers
    BY <1>1, <2>1
  <2> QED
    BY <1>1, <1>3, <2>2 DEF OtherPeers
<1> QED
  BY <1>2, <1>3

\* A round has a first target, and at most NumPeers more.
LEMMA TargetsType ==
  ASSUME currentLeader \in Address \cup {Nil}
  PROVE  /\ Head(Targets) \in Address
         /\ Tail(Targets) \in Seq(Peer)
         /\ Len(Tail(Targets)) <= NumPeers
<1>1. NumPeers \in Nat \ {0}
  BY GatewayAssumption
<1>2. CASE currentLeader = Nil
  <2>1. peers \in [1..NumPeers -> Peer] /\ Peer \subseteq Address
    BY DEF peers, Peer, Address
  <2>2. peers \in Seq(Peer) /\ Len(peers) = NumPeers /\ peers /= <<>>
    BY <1>1, <2>1
  <2>3. Targets = peers
    BY <1>2 DEF Targets
  <2> QED
    BY <1>1, <2>1, <2>2, <2>3, HeadTailProperties
<1>3. CASE currentLeader /= Nil
  <2>1. currentLeader \in Address
    BY <1>3
  <2>2. OtherPeers \in Seq(Peer) /\ Len(OtherPeers) <= NumPeers
    BY OtherPeersType
  <2>3. Peer \subseteq Address
    BY DEF Address
  <2>4. OtherPeers \in Seq(Address)
    BY <2>2, <2>3
  <2>5. Targets = <<currentLeader>> \o OtherPeers
    BY <1>3 DEF Targets
  <2>6. Head(Targets) = currentLeader /\ Tail(Targets) = OtherPeers
    BY <2>1, <2>4, <2>5
  <2> QED
    BY <2>1, <2>2, <2>6
<1> QED
  BY <1>2, <1>3

\* The records the handlers go through are records of a handler.
LEMMA JoiningType ==
  ASSUME NEW t \in Handler, NEW u \in User, NEW b \in BOOLEAN
  PROVE  LET k == [t EXCEPT !.user = u, !.existing = b] IN
         k \in Handler /\ k.existing = b /\ k.user = u /\ k.conn = t.conn
BY DEF Handler

LEMMA ConnType ==
  ASSUME NEW t \in Handler, NEW c \in Conn
  PROVE  /\ [t EXCEPT !.conn = c] \in Handler /\ [t EXCEPT !.conn = c].conn = c
         /\ [t EXCEPT !.conn = c].user = t.user
BY DEF Handler

LEMMA AnsweredType ==
  ASSUME NEW t \in Handler, NEW ss \in SUBSET Stroke
  PROVE  LET k == [t EXCEPT !.phase = "answered", !.strokes = ss] IN
         /\ k \in Handler /\ k.phase = "answered" /\ k.strokes = ss
         /\ k.at = t.at /\ k.rest = t.rest /\ k.hinted = t.hinted
         /\ k.attempt = t.attempt /\ k.conn = t.conn /\ k.existing = t.existing
         /\ k.user = t.user
BY DEF Handler

\* The same for a write, whose answer carries nothing.
LEMMA WrittenType ==
  ASSUME NEW t \in Handler
  PROVE  LET k == [t EXCEPT !.phase = "answered"] IN
         /\ k \in Handler /\ k.phase = "answered" /\ k.strokes = t.strokes
         /\ k.at = t.at /\ k.rest = t.rest /\ k.hinted = t.hinted
         /\ k.attempt = t.attempt /\ k.conn = t.conn /\ k.existing = t.existing
         /\ k.user = t.user
BY DEF Handler

LEMMA NoTaskType == noTask \in Handler
BY GatewayAssumption, EmptySeq DEF noTask, Handler

LEMMA CallType ==
  ASSUME NEW t \in Handler, NEW peer \in Address
  PROVE  /\ Call(t, peer) \in Handler
         /\ Call(t, peer).phase = "call" /\ Call(t, peer).at = peer
         /\ Call(t, peer).strokes = {} /\ Call(t, peer).rest = t.rest
         /\ Call(t, peer).hinted = t.hinted /\ Call(t, peer).attempt = t.attempt
         /\ Call(t, peer).conn = t.conn /\ Call(t, peer).existing = t.existing
         /\ Call(t, peer).user = t.user
BY DEF Call, Handler

LEMMA RoundType ==
  ASSUME NEW t \in Handler, currentLeader \in Address \cup {Nil}
  PROVE  /\ Round(t) \in Handler
         /\ Round(t).phase = "call" /\ Round(t).at \in Address
         /\ Round(t).strokes = {} /\ Len(Round(t).rest) <= NumPeers
         /\ Round(t).hinted = FALSE /\ Round(t).attempt = t.attempt
         /\ Round(t).conn = t.conn /\ Round(t).existing = t.existing
         /\ Round(t).user = t.user
<1> DEFINE u == [t EXCEPT !.hinted = FALSE, !.rest = Tail(Targets)]
<1>1. Head(Targets) \in Address /\ Tail(Targets) \in Seq(Peer)
      /\ Len(Tail(Targets)) <= NumPeers
  BY TargetsType
<1>2. u \in Handler /\ u.rest = Tail(Targets) /\ u.hinted = FALSE
      /\ u.attempt = t.attempt /\ u.conn = t.conn /\ u.existing = t.existing
      /\ u.user = t.user
  BY <1>1 DEF Handler
<1>3. Round(t) = Call(u, Head(Targets))
  BY DEF Round
<1> HIDE DEF u
<1> QED
  BY <1>1, <1>2, <1>3, CallType

LEMMA NextTargetType ==
  ASSUME NEW t \in Handler, ~Exhausted(t)
  PROVE  /\ NextTarget(t) \in Handler
         /\ NextTarget(t).phase = "call" /\ NextTarget(t).at \in Address
         /\ NextTarget(t).strokes = {} /\ Len(NextTarget(t).rest) + 1 = Len(t.rest)
         /\ NextTarget(t).hinted = FALSE /\ NextTarget(t).attempt = t.attempt
         /\ NextTarget(t).conn = t.conn /\ NextTarget(t).existing = t.existing
         /\ NextTarget(t).user = t.user
<1> DEFINE u == [t EXCEPT !.hinted = FALSE, !.rest = Tail(@)]
<1>1. t.rest \in Seq(Peer) /\ t.rest /= <<>>
  BY DEF Handler, Exhausted
<1>2. Head(t.rest) \in Address /\ Tail(t.rest) \in Seq(Peer)
      /\ Len(Tail(t.rest)) + 1 = Len(t.rest)
  BY <1>1 DEF Address
<1>3. u \in Handler /\ u.rest = Tail(t.rest) /\ u.hinted = FALSE
      /\ u.attempt = t.attempt /\ u.conn = t.conn /\ u.existing = t.existing
      /\ u.user = t.user
  BY <1>2 DEF Handler
<1>4. NextTarget(t) = Call(u, Head(t.rest))
  BY DEF NextTarget
<1> HIDE DEF u
<1>5. /\ NextTarget(t) \in Handler /\ NextTarget(t).phase = "call"
      /\ NextTarget(t).at = Head(t.rest) /\ NextTarget(t).strokes = {}
      /\ NextTarget(t).rest = u.rest /\ NextTarget(t).hinted = u.hinted
      /\ NextTarget(t).attempt = u.attempt /\ NextTarget(t).conn = u.conn
      /\ NextTarget(t).existing = u.existing /\ NextTarget(t).user = u.user
  BY <1>2, <1>3, <1>4, CallType
<1> QED
  BY <1>2, <1>3, <1>5

LEMMA FollowHintType ==
  ASSUME NEW t \in Handler, NEW hint \in Address
  PROVE  /\ FollowHint(t, hint) \in Handler
         /\ FollowHint(t, hint).phase = "call" /\ FollowHint(t, hint).at \in Address
         /\ FollowHint(t, hint).strokes = {} /\ FollowHint(t, hint).rest = t.rest
         /\ FollowHint(t, hint).hinted = TRUE /\ FollowHint(t, hint).attempt = t.attempt
         /\ FollowHint(t, hint).conn = t.conn /\ FollowHint(t, hint).existing = t.existing
         /\ FollowHint(t, hint).user = t.user
<1> DEFINE u == [t EXCEPT !.hinted = TRUE]
<1>1. u \in Handler /\ u.rest = t.rest /\ u.hinted = TRUE
      /\ u.attempt = t.attempt /\ u.conn = t.conn /\ u.existing = t.existing
      /\ u.user = t.user
  BY DEF Handler
<1> QED
  BY <1>1, CallType DEF FollowHint

LEMMA FinishedType ==
  ASSUME NEW t \in Handler
  PROVE  /\ Finished(t) \in Handler /\ Finished(t).phase = "done"
         /\ Finished(t).strokes = {} /\ Finished(t).conn = t.conn
         /\ Finished(t).user = t.user
BY NoTaskType DEF Finished, Handler, noTask

LEMMA NextRoundType ==
  ASSUME NEW t \in Handler
  PROVE  /\ NextRound(t) \in Handler /\ NextRound(t).phase \in {"delay", "done"}
         /\ NextRound(t).conn = t.conn /\ NextRound(t).user = t.user
         /\ NextRound(t).phase = "delay" => NextRound(t).attempt = t.attempt + 1
<1>1. CASE t.attempt = MAX_WRITE_ATTEMPTS - 1
  BY <1>1, FinishedType DEF NextRound
<1>2. CASE t.attempt /= MAX_WRITE_ATTEMPTS - 1
  <2> DEFINE u == [t EXCEPT !.phase = "delay", !.attempt = @ + 1]
  <2>1. t.attempt + 1 \in 0..(MAX_WRITE_ATTEMPTS - 1)
    BY <1>2, GatewayAssumption DEF Handler
  <2>2. /\ u \in Handler /\ u.phase = "delay" /\ u.conn = t.conn /\ u.user = t.user
        /\ u.attempt = t.attempt + 1
    BY <2>1 DEF Handler
  <2> QED
    BY <1>2, <2>2 DEF NextRound
<1> QED
  BY <1>1, <1>2

-----------------------------------------------------------------------------
(* What the handlers send.                                                 *)

LEMMA LeftEffect ==
  ASSUME NEW g \in [Conn -> Client], NEW u \in User, NEW ds
  PROVE  /\ Left(g, u, ds) \in [Conn -> Client]
         /\ \A d \in Conn :
              /\ Left(g, u, ds)[d].ack = g[d].ack
              /\ Left(g, u, ds)[d].strokes = g[d].strokes
              /\ Left(g, u, ds)[d].seen = IF d \in ds THEN g[d].seen \ {u}
                                         ELSE g[d].seen
BY DEF Left, Client

\* What FinishJoin makes of the clients: the socket itself gets the join_ack if it
\* is still open, and the others user_joined.
Welcomed(c, kind, strokes) ==
  /\ got' \in [Conn -> Client]
  /\ \A d \in Conn :
       /\ got'[d].ack = IF d = c /\ conn[c] = "open" THEN kind ELSE got[d].ack
       /\ got'[d].strokes = IF d = c /\ conn[c] = "open" THEN got[d].strokes \cup strokes
                            ELSE got[d].strokes
       /\ got'[d].seen = IF /\ ~task[c].existing
                            /\ d \in Receivers(BoardOf[task[c].user], c)
                         THEN got[d].seen \cup {task[c].user} ELSE got[d].seen

LEMMA FinishJoinEffect ==
  ASSUME TypeOK, NEW c \in Conn, NEW kind \in {"read", "empty"},
         NEW strokes \in SUBSET Stroke, FinishJoin(c, kind, strokes),
         task[c].user \in User
  PROVE  Welcomed(c, kind, strokes)
<1> DEFINE acked == IF conn[c] = "open"
                    THEN [got EXCEPT ![c].ack = kind, ![c].strokes = @ \cup strokes]
                    ELSE got
<1>1. acked \in [Conn -> Client] /\ \A d \in Conn :
        /\ acked[d].ack = IF d = c /\ conn[c] = "open" THEN kind ELSE got[d].ack
        /\ acked[d].strokes = IF d = c /\ conn[c] = "open" THEN got[d].strokes \cup strokes
                              ELSE got[d].strokes
        /\ acked[d].seen = got[d].seen
  BY ZenonT(60) DEF TypeOK, Client
<1> DEFINE u == task[c].user
           ds == Receivers(BoardOf[u], c)
<1>2. got' = IF task[c].existing THEN acked ELSE Joined(acked, u, ds)
  BY DEF FinishJoin
<1>3. u \in User
  OBVIOUS
<1> HIDE DEF acked
<1>4. CASE task[c].existing
  BY <1>1, <1>2, <1>4 DEF Welcomed
<1>5. CASE ~task[c].existing
  <2>1. /\ got' \in [Conn -> Client]
        /\ \A d \in Conn :
             /\ got'[d].ack = acked[d].ack
             /\ got'[d].strokes = acked[d].strokes
             /\ got'[d].seen = IF d \in ds THEN acked[d].seen \cup {u} ELSE acked[d].seen
    <3>1. acked \in [Conn -> Client] /\ got' = Joined(acked, u, ds)
      BY <1>1, <1>2, <1>5
    <3> HIDE DEF u, ds
    <3> QED
      BY <1>3, <3>1 DEF Joined, Client
  <2> QED
    BY <1>1, <1>5, <2>1 DEF Welcomed
<1> QED
  BY <1>4, <1>5

LEMMA FinishStrokeEffect ==
  ASSUME TypeOK, NEW s \in Stroke, FinishStroke(s)
  PROVE  /\ got' \in [Conn -> Client]
         /\ \A d \in Conn :
              /\ got'[d].ack = got[d].ack /\ got'[d].seen = got[d].seen
              /\ got'[d].strokes = IF d \in Receivers(StrokeBoard(s), task[s].conn)
                                   THEN got[d].strokes \cup {s} ELSE got[d].strokes
BY DEF TypeOK, Client, FinishStroke

-----------------------------------------------------------------------------
(* Types.                                                                  *)

SpentOK ==
  spent \in [hints : 0..MaxHints, closes : 0..MaxCloses, reads : 0..MaxReadFailures,
            failovers : 0..MaxFailovers, misnamed : 0..MaxMisnamed]

\* The record of one handler is replaced by another.
LEMMA TaskReplaced ==
  ASSUME TypeOK, NEW t \in Task, NEW k \in Handler, task' = [task EXCEPT ![t] = k],
         k.phase \in {"call", "answered"} => k.at \in Address,
         t \in Conn /\ k.phase /= "idle" => k.user \in User
  PROVE  /\ task' \in [Task -> Handler]
         /\ task'[t] = k /\ \A r \in Task \ {t} : task'[r] = task[r]
         /\ \A r \in Task : task'[r].phase \in {"call", "answered"} => task'[r].at \in Address
         /\ \A r \in Conn : task'[r].phase /= "idle" => task'[r].user \in User
BY DEF TypeOK

LEMMA MoveOnType ==
  ASSUME TypeOK, NEW t \in Task, MoveOn(t), task[t].phase /= "idle"
  PROVE  /\ task' \in [Task -> Handler]
         /\ \A r \in Task : task'[r].phase \in {"call", "answered"} => task'[r].at \in Address
         /\ \A r \in Conn : task'[r].phase /= "idle" => task'[r].user \in User
         /\ got' \in [Conn -> Client]
         /\ outcome' \in [Stroke -> {"none", "accepted", "failed", "limited"}]
<1> USE DEF TypeOK
<1>0. task[t] \in Handler /\ (t \in Conn => task[t].user \in User)
  OBVIOUS
<1>1. CASE /\ ~Exhausted(task[t])
           /\ task' = [task EXCEPT ![t] = NextTarget(@)]
           /\ UNCHANGED <<outcome, got>>
  BY <1>0, <1>1, NextTargetType, TaskReplaced
<1>2. CASE Exhausted(task[t]) /\ t \in Conn /\ FinishJoin(t, "empty", {})
  <2>1. task' = [task EXCEPT ![t] = Finished(@)] /\ outcome' = outcome
    BY <1>2 DEF FinishJoin
  <2>2. got' \in [Conn -> Client]
    BY <1>0, <1>2, FinishJoinEffect DEF Welcomed
  <2> QED
    BY <1>0, <2>1, <2>2, FinishedType, TaskReplaced
<1>3. CASE /\ Exhausted(task[t]) /\ t \in Stroke
           /\ task' = [task EXCEPT ![t] = NextRound(@)]
           /\ outcome' = IF task'[t].phase = "done" THEN [outcome EXCEPT ![t] = "failed"]
                         ELSE outcome
           /\ UNCHANGED got
  BY <1>0, <1>3, NextRoundType, TaskReplaced
<1> QED
  BY <1>1, <1>2, <1>3 DEF MoveOn

LEMMA TypeStep ==
  ASSUME TypeOK, [Next]_vars
  PROVE  TypeOK'
<1> USE DEF TypeOK, SpentOK
<1>1. ASSUME NEW c \in Conn, connection(c) PROVE TypeOK'
  BY <1>1 DEF connection, clientVars, clusterVars
<1>2. ASSUME NEW c \in Conn, onClose(c) PROVE TypeOK'
  <2>1. UserOf[c] \in User /\ MaxCloses \in Nat
    BY GatewayAssumption
  <2>2. nothingGot \in Client
    BY DEF nothingGot, Client
  <2> DEFINE l == Left(got, UserOf[c], Receivers(BoardOf[UserOf[c]], c))
  <2>3. l \in [Conn -> Client]
    BY <2>1, LeftEffect
  <2>4. got' \in [Conn -> Client]
    BY <1>2, <2>2, <2>3 DEF onClose
  <2>5. users' \in [User -> SUBSET Conn]
    BY <1>2, <2>1 DEF onClose, leaveBoard
  <2>6. owed' \in [Conn -> SUBSET User]
    BY <1>2, <2>1 DEF onClose
  <2>7. SpentOK'
    BY <1>2, <2>1 DEF onClose
  <2>8. conn' \in [Conn -> {"new", "open", "closed"}]
    BY <1>2 DEF onClose
  <2> QED
    BY <1>2, <2>4, <2>5, <2>6, <2>7, <2>8 DEF onClose, clientVars, clusterVars
<1>3. ASSUME NEW c \in Conn, NEW u \in User, handleJoin(c, u) PROVE TypeOK'
  <2> DEFINE k == [task[c] EXCEPT !.user = u, !.existing = AlreadyThere(u)]
  <2>1. c \in Task /\ AlreadyThere(u) \in BOOLEAN /\ task[c] \in Handler
    BY DEF Task, AlreadyThere, hasUser
  <2>2. k \in Handler /\ k.user = u
    BY <2>1 DEF Handler
  <2>3. task' = [task EXCEPT ![c] = Round(k)]
    BY <1>3, <2>1 DEF handleJoin
  <2> HIDE DEF k
  <2>4. Round(k) \in Handler /\ Round(k).at \in Address /\ Round(k).user = u
    BY <2>2, RoundType
  <2>5. /\ task' \in [Task -> Handler]
        /\ \A r \in Task : task'[r].phase \in {"call", "answered"} => task'[r].at \in Address
        /\ \A r \in Conn : task'[r].phase /= "idle" => task'[r].user \in User
    BY <2>1, <2>3, <2>4, TaskReplaced
  <2>6. users' \in [User -> SUBSET Conn] /\ owed' \in [Conn -> SUBSET User]
    BY <1>3 DEF handleJoin, joinBoard
  <2>7. SpentOK'
    BY <1>3, GatewayAssumption DEF handleJoin
  <2> QED
    BY <1>3, <2>5, <2>6, <2>7 DEF handleJoin, clusterVars
<1>4. ASSUME NEW c \in Conn, NEW s \in Stroke, handleStroke(c, s) PROVE TypeOK'
  <2> DEFINE k == [task[s] EXCEPT !.conn = c]
  <2>1. s \in Task /\ s \notin Conn
    BY GatewayAssumption DEF Task
  <2>2. k \in Handler
    BY <2>1, ConnType
  <2>3. \/ task' = [task EXCEPT ![s] = Finished(k)] \/ task' = [task EXCEPT ![s] = Round(k)]
    BY <1>4, <2>1 DEF handleStroke
  <2> HIDE DEF k
  <2>4. /\ task' \in [Task -> Handler]
        /\ \A r \in Task : task'[r].phase \in {"call", "answered"} => task'[r].at \in Address
        /\ \A r \in Conn : task'[r].phase /= "idle" => task'[r].user \in User
    <3>1. CASE task' = [task EXCEPT ![s] = Finished(k)]
      BY <2>1, <2>2, <3>1, FinishedType, TaskReplaced
    <3>2. CASE task' = [task EXCEPT ![s] = Round(k)]
      BY <2>1, <2>2, <3>2, RoundType, TaskReplaced
    <3> QED
      BY <2>3, <3>1, <3>2
  <2>5. outcome' \in [Stroke -> {"none", "accepted", "failed", "limited"}]
    BY <1>4 DEF handleStroke
  <2> QED
    BY <1>4, <2>4, <2>5 DEF handleStroke, clusterVars
<1>5. ASSUME NEW s \in Stroke, handleClientWrite(s) PROVE TypeOK'
  <2> DEFINE k == [task[s] EXCEPT !.phase = "answered"]
  <2>1. s \in Task /\ s \notin Conn /\ task[s] \in Handler /\ task[s].at \in Address
    BY <1>5, GatewayAssumption DEF Task, handleClientWrite
  <2>2. task' = [task EXCEPT ![s] = k]
    BY <1>5 DEF handleClientWrite
  <2>3. k \in Handler /\ k.at = task[s].at
    BY <2>1, WrittenType
  <2> HIDE DEF k
  <2>4. /\ task' \in [Task -> Handler]
        /\ \A r \in Task : task'[r].phase \in {"call", "answered"} => task'[r].at \in Address
        /\ \A r \in Conn : task'[r].phase /= "idle" => task'[r].user \in User
    BY <2>1, <2>2, <2>3, TaskReplaced
  <2> QED
    BY <1>5, <2>4 DEF handleClientWrite
<1>6. ASSUME NEW c \in Conn, readBoardState(c) PROVE TypeOK'
  <2> DEFINE ss == {s \in committed \ lagging : StrokeBoard(s) = BoardOf[task[c].user]}
             k == [task[c] EXCEPT !.phase = "answered", !.strokes = ss]
  <2>1. /\ c \in Task /\ task[c] \in Handler /\ task[c].at \in Address
        /\ task[c].user \in User /\ ss \in SUBSET Stroke
    BY <1>6 DEF Task, readBoardState
  <2>2. task' = [task EXCEPT ![c] = k]
    BY <1>6 DEF readBoardState
  <2> HIDE DEF ss
  <2>3. k \in Handler /\ k.at = task[c].at /\ k.user = task[c].user
    BY <2>1, AnsweredType, ZenonT(60)
  <2> HIDE DEF k
  <2>4. /\ task' \in [Task -> Handler]
        /\ \A r \in Task : task'[r].phase \in {"call", "answered"} => task'[r].at \in Address
        /\ \A r \in Conn : task'[r].phase /= "idle" => task'[r].user \in User
    BY <2>1, <2>2, <2>3, TaskReplaced
  <2>5. lacked' \in [Conn -> SUBSET Stroke]
    BY <1>6 DEF readBoardState
  <2> QED
    BY <1>6, <2>4, <2>5 DEF readBoardState, clusterVars
<1>7. CASE becomeLeader
  <2>1. SpentOK'
    BY <1>7, GatewayAssumption DEF becomeLeader
  <2> QED
    BY <1>7, <2>1 DEF becomeLeader, clientVars
<1>8. ASSUME NEW t \in Task, replies(t) PROVE TypeOK'
  <2>1. /\ task[t] \in Handler /\ task[t].at \in Address /\ task[t].strokes \in SUBSET Stroke
        /\ t \in Conn => task[t].user \in User
    BY <1>8 DEF replies, Handler
  <2>2. CASE t \in Conn /\ currentLeader' = task[t].at /\ FinishJoin(t, "read", task[t].strokes)
    <3>1. got' \in [Conn -> Client]
      BY <2>1, <2>2, FinishJoinEffect DEF Welcomed
    <3>2. task' = [task EXCEPT ![t] = Finished(@)] /\ outcome' = outcome
      BY <2>2 DEF FinishJoin
    <3>3. /\ task' \in [Task -> Handler]
          /\ \A r \in Task : task'[r].phase \in {"call", "answered"} => task'[r].at \in Address
          /\ \A r \in Conn : task'[r].phase /= "idle" => task'[r].user \in User
      BY <2>1, <3>2, FinishedType, TaskReplaced
    <3> QED
      BY <1>8, <2>1, <2>2, <3>1, <3>2, <3>3 DEF replies, clusterVars
  <2>3. CASE /\ t \in Stroke
             /\ currentLeader' = IF task[t].hinted THEN currentLeader ELSE task[t].at
             /\ FinishStroke(t)
    <3>1. got' \in [Conn -> Client]
      BY <2>3, FinishStrokeEffect
    <3>2. /\ task' = [task EXCEPT ![t] = Finished(@)]
          /\ outcome' \in [Stroke -> {"none", "accepted", "failed", "limited"}]
      BY <2>3 DEF FinishStroke
    <3>3. /\ task' \in [Task -> Handler]
          /\ \A r \in Task : task'[r].phase \in {"call", "answered"} => task'[r].at \in Address
          /\ \A r \in Conn : task'[r].phase /= "idle" => task'[r].user \in User
      BY <2>1, <3>2, FinishedType, TaskReplaced
    <3> QED
      BY <1>8, <2>1, <2>3, <3>1, <3>2, <3>3 DEF replies, clusterVars
  <2> QED
    BY <1>8, <2>2, <2>3 DEF replies
<1>9. ASSUME NEW t \in Task, throws(t) PROVE TypeOK'
  <2>1. MoveOn(t) /\ task[t].phase /= "idle"
    BY <1>9 DEF throws
  <2>2. limbo' \subseteq Stroke
    BY <1>9 DEF throws
  <2>3. SpentOK'
    BY <1>9, GatewayAssumption DEF throws
  <2> QED
    BY <1>9, <2>1, <2>2, <2>3, MoveOnType DEF throws
<1>10. ASSUME NEW t \in Task, NEW hint \in Hint \cup {Nil}, refused(t, hint) PROVE TypeOK'
  <2>1. limbo' \subseteq Stroke
    BY <1>10 DEF refused
  <2>2. SpentOK'
    <3>1. spent' = [spent EXCEPT !.hints = IF hint = Nil THEN @ ELSE @ + 1,
                                 !.reads = IF t \in Conn THEN @ + 1 ELSE @]
      BY <1>10 DEF refused
    <3>2. /\ hint /= Nil => spent.hints + 1 \in 0..MaxHints
          /\ t \in Conn => spent.reads + 1 \in 0..MaxReadFailures
      BY <1>10, GatewayAssumption DEF refused
    <3> QED
      BY <3>1, <3>2
  <2>3. CASE MoveOn(t) /\ UNCHANGED currentLeader
    BY <1>10, <2>1, <2>2, <2>3, MoveOnType DEF refused
  <2>4. CASE /\ hint /= Nil /\ currentLeader' = hint
             /\ task' = [task EXCEPT ![t] = FollowHint(@, hint)]
             /\ UNCHANGED <<outcome, got>>
    <3>1. /\ task[t] \in Handler /\ hint \in Address
          /\ t \in Conn => task[t].user \in User
      BY <1>10, <2>4 DEF Address, refused
    <3>2. /\ task' \in [Task -> Handler]
          /\ \A r \in Task : task'[r].phase \in {"call", "answered"} => task'[r].at \in Address
          /\ \A r \in Conn : task'[r].phase /= "idle" => task'[r].user \in User
      <4> DEFINE k == FollowHint(task[t], hint)
      <4>1. k \in Handler /\ k.at \in Address /\ k.user = task[t].user
        BY <3>1, FollowHintType
      <4>2. task' = [task EXCEPT ![t] = k]
        BY <2>4
      <4> HIDE DEF k
      <4> QED
        BY <3>1, <4>1, <4>2, TaskReplaced
    <3> QED
      BY <1>10, <2>1, <2>2, <2>4, <3>1, <3>2 DEF refused
  <2> QED
    BY <1>10, <2>3, <2>4 DEF refused
<1>11. ASSUME NEW s \in Stroke, retries(s) PROVE TypeOK'
  <2>1. s \in Task /\ s \notin Conn /\ task[s] \in Handler
    BY GatewayAssumption DEF Task
  <2>2. /\ task' \in [Task -> Handler]
        /\ \A r \in Task : task'[r].phase \in {"call", "answered"} => task'[r].at \in Address
        /\ \A r \in Conn : task'[r].phase /= "idle" => task'[r].user \in User
    BY <1>11, <2>1, RoundType, TaskReplaced DEF retries
  <2> QED
    BY <1>11, <2>2 DEF retries, clusterVars
<1>12. ASSUME NEW s \in Stroke, commitsLate(s) PROVE TypeOK'
  BY <1>12 DEF commitsLate, clientVars
<1>13. CASE UNCHANGED vars
  BY <1>13 DEF vars, clientVars, clusterVars
<1> QED
  BY <1>1, <1>2, <1>3, <1>4, <1>5, <1>8, <1>9, <1>10, <1>11, <1>12, <1>13, <1>6, <1>7
     DEF Next

LEMMA InitType == Init => TypeOK
<1> SUFFICES ASSUME Init PROVE TypeOK
  OBVIOUS
<1>1. task \in [Task -> Handler] /\ \A t \in Task : task[t].phase = "idle"
  BY NoTaskType DEF Init, noTask
<1>2. Conn \subseteq Task
  BY DEF Task
<1>3. got \in [Conn -> Client]
  BY DEF Init, Client, nothingGot
<1>4. spent \in [hints : 0..MaxHints, closes : 0..MaxCloses, reads : 0..MaxReadFailures,
                 failovers : 0..MaxFailovers, misnamed : 0..MaxMisnamed]
  BY GatewayAssumption DEF Init
<1> QED
  BY <1>1, <1>2, <1>3, <1>4 DEF Init, TypeOK

\* Whatever the peers answer, the sockets, the handlers and the bookkeeping keep
\* their types; a request on its way always has an address, so that a round never
\* runs past its targets, and the attempts never pass MAX_WRITE_ATTEMPTS.
THEOREM GatewayTypeCorrect == Spec => []TypeOK
BY InitType, TypeStep, PTL DEF Spec

-----------------------------------------------------------------------------
(* The promises to the clients, and what they rest on.                     *)

Open(c) == conn[c] = "open"

\* What is on its way back to a handler is committed.
AnswersCommitted ==
  /\ \A c \in Conn : task[c].strokes \subseteq committed
  /\ \A s \in Stroke : task[s].phase = "answered" => s \in committed

\* An accepted stroke is settled.
AcceptedSettled ==
  \A s \in Stroke : outcome[s] = "accepted" => s \in committed /\ task[s].phase = "done"

\* A socket joins once, is registered from its join to its end, and is sent the
\* join_ack when the join is done.
JoinOrder ==
  \A c \in Conn :
    /\ conn[c] = "new" => task[c].phase = "idle"
    /\ task[c].phase = "idle" => task[c].user = Nil
    /\ Open(c) /\ task[c].phase /= "idle" => c \in users[task[c].user]
    /\ task[c].phase /= "delay"
    /\ got[c].ack /= "none" => task[c].phase = "done"

\* An accepted stroke has reached a socket that joined its board, or will with the
\* answer to its join, or the leader of that answer lacked it.
Told ==
  \A c \in Conn, s \in Stroke :
    /\ Open(c) /\ outcome[s] = "accepted" /\ task[s].conn /= c
    /\ StrokeBoard(s) = BoardOf[task[c].user]
    => \/ s \in got[c].strokes
       \/ task[c].phase \in {"idle", "call"}
       \/ task[c].phase = "answered" /\ s \in task[c].strokes
       \/ got[c].ack = "empty"
       \/ s \in lacked[c]

\* A user who came has been announced to a socket, or a join that will announce
\* him is under way.
Announced ==
  \A d \in Conn :
    /\ ~Open(d) => owed[d] = {}
    /\ \A u \in owed[d] :
         /\ task[d].user \in User \ {u} /\ BoardOf[task[d].user] = BoardOf[u]
         /\ d \in users[task[d].user]
         /\ \/ u \in got[d].seen
            \/ \E c \in Conn : /\ task[c].user = u /\ ~task[c].existing
                               /\ task[c].phase \in {"call", "answered"}

GatewayInv ==
  /\ TypeOK /\ NoLeakedSockets /\ ShownIsCommitted
  /\ AnswersCommitted /\ AcceptedSettled /\ JoinOrder /\ Told /\ Announced

\* broadcast reaches the open sockets that have joined.
LEMMA ReceiversAre ==
  ASSUME TypeOK, NoLeakedSockets, NEW b, NEW c, NEW d \in Conn
  PROVE  d \in Receivers(b, c) <=>
           /\ d /= c /\ Open(d) /\ task[d].user \in User
           /\ BoardOf[task[d].user] = b /\ d \in users[task[d].user]
BY DEF TypeOK, NoLeakedSockets, Receivers, Open

LEMMA PlacesKept ==
  ASSUME TypeOK, NoLeakedSockets, UNCHANGED <<conn, users>>,
         \A e \in Conn : task'[e].user = task[e].user
  PROVE  NoLeakedSockets'
BY DEF TypeOK, NoLeakedSockets

\* The properties follow from the invariant.
LEMMA InvImplies ==
  ASSUME GatewayInv
  PROVE  NoStrokeMissed /\ PresenceComplete
<1>1. NoStrokeMissed
  BY DEF GatewayInv, NoStrokeMissed, Told, JoinOrder, Open
<1>2. PresenceComplete
  BY DEF GatewayInv, PresenceComplete, Announced
<1> QED
  BY <1>1, <1>2

LEMMA InitInv == Init => GatewayInv
<1> SUFFICES ASSUME Init PROVE GatewayInv
  OBVIOUS
<1>1. TypeOK
  BY InitType
<1>2. /\ \A t \in Task : task[t] = noTask
      /\ Conn \subseteq Task /\ Stroke \subseteq Task
  BY DEF Init, Task
<1>3. NoLeakedSockets /\ ShownIsCommitted /\ AcceptedSettled
  BY <1>2 DEF Init, nothingGot, NoLeakedSockets, ShownIsCommitted, AcceptedSettled
<1>4. AnswersCommitted /\ Told
  <2>1. \A s \in Stroke : outcome[s] /= "accepted"
    BY DEF Init
  <2> QED
    BY <1>2, <2>1 DEF noTask, AnswersCommitted, Told
<1>5. JoinOrder /\ Announced
  BY <1>2 DEF Init, noTask, nothingGot, JoinOrder, Announced, Open
<1> QED
  BY <1>1, <1>3, <1>4, <1>5 DEF GatewayInv

\* Nothing is taken from the lists of users, and the announcing joins go on.
LEMMA AnnouncedKeeps ==
  ASSUME Announced, UNCHANGED <<conn, users, owed>>,
         \A d \in Conn : got[d].seen \subseteq got'[d].seen,
         \A e \in Conn : task'[e].user = task[e].user,
         \A e \in Conn : task[e].phase \in {"call", "answered"}
           => /\ task'[e].phase \in {"call", "answered"}
              /\ task'[e].existing = task[e].existing
  PROVE  Announced'
<1> SUFFICES ASSUME NEW d \in Conn
             PROVE  /\ ~Open(d)' => owed'[d] = {}
                    /\ \A u \in owed'[d] :
                         /\ task'[d].user \in User \ {u}
                         /\ BoardOf[task'[d].user] = BoardOf[u]
                         /\ d \in users'[task'[d].user]
                         /\ \/ u \in got'[d].seen
                            \/ \E e \in Conn : /\ task'[e].user = u /\ ~task'[e].existing
                                               /\ task'[e].phase \in {"call", "answered"}
  BY DEF Announced
<1>1. ~Open(d)' => owed'[d] = {}
  BY DEF Announced, Open
<1>2. ASSUME NEW u \in owed'[d]
      PROVE  /\ task'[d].user \in User \ {u} /\ BoardOf[task'[d].user] = BoardOf[u]
             /\ d \in users'[task'[d].user]
             /\ \/ u \in got'[d].seen
                \/ \E e \in Conn : /\ task'[e].user = u /\ ~task'[e].existing
                                   /\ task'[e].phase \in {"call", "answered"}
  BY <1>2 DEF Announced
<1> QED
  BY <1>1, <1>2

\* A handler goes on to its next request, or to the wait between two rounds.
LEMMA CarryOnKeeps ==
  ASSUME GatewayInv, TypeOK', NEW t \in Task, NEW k \in Handler,
         task' = [task EXCEPT ![t] = k],
         UNCHANGED <<conn, users, outcome, got, committed, owed, lacked>>,
         task[t].phase \in {"call", "answered", "delay"},
         k.phase = "call" \/ (k.phase = "delay" /\ t \in Stroke),
         t \in Conn => k.strokes = {},
         k.conn = task[t].conn, k.existing = task[t].existing, k.user = task[t].user
  PROVE  GatewayInv'
<1>1. task'[t] = k /\ \A r \in Task \ {t} : task'[r] = task[r]
  BY DEF GatewayInv, TypeOK
<1>2. Conn \subseteq Task /\ Stroke \subseteq Task /\ Conn \cap Stroke = {}
  BY GatewayAssumption DEF Task
<1>3. NoLeakedSockets' /\ ShownIsCommitted'
  BY <1>1, <1>2, PlacesKept DEF GatewayInv, ShownIsCommitted
<1>4. AnswersCommitted' /\ AcceptedSettled'
  BY <1>1, <1>2 DEF GatewayInv, AnswersCommitted, AcceptedSettled
<1>5. JoinOrder'
  BY <1>1, <1>2 DEF GatewayInv, JoinOrder, Open
<1>6. Told'
  BY <1>1, <1>2 DEF GatewayInv, Told, Open, StrokeBoard
<1>7. Announced'
  BY <1>1, <1>2 DEF GatewayInv, Announced, JoinOrder, Open
<1> QED
  BY <1>3, <1>4, <1>5, <1>6, <1>7 DEF GatewayInv

\* A join ends, with the strokes of its answer or with none.
LEMMA FinishJoinKeeps ==
  ASSUME GatewayInv, TypeOK', NEW c \in Conn,
         NEW kind \in {"read", "empty"}, NEW strokes \in SUBSET Stroke,
         FinishJoin(c, kind, strokes),
         UNCHANGED <<conn, users, committed, owed, lacked>>,
         task[c].phase \in {"call", "answered"},
         strokes \subseteq committed,
         kind = "read" => task[c].phase = "answered" /\ strokes = task[c].strokes
  PROVE  GatewayInv'
<1>0. TypeOK /\ NoLeakedSockets
  BY DEF GatewayInv
<1>1. Conn \subseteq Task /\ Stroke \subseteq Task /\ Conn \cap Stroke = {}
  BY GatewayAssumption DEF Task
<1>2. /\ task'[c] \in Handler /\ task'[c].phase = "done" /\ task'[c].strokes = {}
      /\ task'[c].user = task[c].user /\ task[c].user \in User
      /\ \A r \in Task \ {c} : task'[r] = task[r]
      /\ outcome' = outcome
  BY <1>0, <1>1, FinishedType DEF TypeOK, FinishJoin
<1>3. Welcomed(c, kind, strokes)
  BY <1>0, <1>2, FinishJoinEffect
<1>4. NoLeakedSockets'
  BY <1>0, <1>1, <1>2, PlacesKept
<1>5. ShownIsCommitted'
  BY <1>3 DEF GatewayInv, ShownIsCommitted, Welcomed
<1>6. AnswersCommitted' /\ AcceptedSettled'
  BY <1>1, <1>2 DEF GatewayInv, AnswersCommitted, AcceptedSettled
<1>7. JoinOrder'
  BY <1>1, <1>2, <1>3, ZenonT(60) DEF GatewayInv, JoinOrder, Open, Welcomed
<1>8. Told'
  <2> SUFFICES ASSUME NEW d \in Conn, NEW s \in Stroke,
                      Open(d)', outcome'[s] = "accepted", task'[s].conn /= d,
                      StrokeBoard(s)' = BoardOf[task'[d].user]
               PROVE  \/ s \in got'[d].strokes
                      \/ task'[d].phase \in {"idle", "call"}
                      \/ task'[d].phase = "answered" /\ s \in task'[d].strokes
                      \/ got'[d].ack = "empty"
                      \/ s \in lacked'[d]
    BY DEF Told, StrokeBoard
  <2>1. Open(d) /\ outcome[s] = "accepted" /\ task[s].conn /= d
    BY <1>1, <1>2 DEF Open
  <2>0. StrokeBoard(s) = BoardOf[task[d].user]
    BY <1>1, <1>2 DEF StrokeBoard
  <2>2. \/ s \in got[d].strokes
        \/ task[d].phase \in {"idle", "call"}
        \/ task[d].phase = "answered" /\ s \in task[d].strokes
        \/ got[d].ack = "empty"
        \/ s \in lacked[d]
    BY <2>1, <2>0 DEF GatewayInv, Told
  <2>3. CASE d = c /\ kind = "empty"
    BY <1>3, <2>1, <2>3 DEF Welcomed, Open
  <2>4. CASE d = c /\ kind = "read"
    <3>1. got[d].ack = "none"
      BY <2>4, <1>0 DEF GatewayInv, JoinOrder, TypeOK, Client
    <3>2. s \in got[d].strokes \/ s \in strokes \/ s \in lacked'[d]
      BY <2>2, <2>4, <3>1
    <3> QED
      BY <1>3, <2>1, <2>4, <3>2 DEF Welcomed, Open
  <2>5. CASE d /= c
    BY <1>1, <1>2, <1>3, <2>2, <2>5 DEF Welcomed
  <2> QED
    BY <2>3, <2>4, <2>5
<1>9. Announced'
  <2> SUFFICES ASSUME NEW d \in Conn
               PROVE  /\ ~Open(d)' => owed'[d] = {}
                      /\ \A u \in owed'[d] :
                           /\ task'[d].user \in User \ {u}
                           /\ BoardOf[task'[d].user] = BoardOf[u]
                           /\ d \in users'[task'[d].user]
                           /\ \/ u \in got'[d].seen
                              \/ \E e \in Conn : /\ task'[e].user = u /\ ~task'[e].existing
                                                 /\ task'[e].phase \in {"call", "answered"}
    BY DEF Announced
  <2>1. ~Open(d)' => owed'[d] = {}
    BY DEF GatewayInv, Announced, Open
  <2>2. ASSUME NEW u \in owed'[d]
        PROVE  /\ task'[d].user \in User \ {u} /\ BoardOf[task'[d].user] = BoardOf[u]
               /\ d \in users'[task'[d].user]
               /\ \/ u \in got'[d].seen
                  \/ \E e \in Conn : /\ task'[e].user = u /\ ~task'[e].existing
                                     /\ task'[e].phase \in {"call", "answered"}
    <3>1. /\ Open(d) /\ task[d].user \in User \ {u} /\ BoardOf[task[d].user] = BoardOf[u]
          /\ d \in users[task[d].user]
          /\ \/ u \in got[d].seen
             \/ \E e \in Conn : /\ task[e].user = u /\ ~task[e].existing
                                /\ task[e].phase \in {"call", "answered"}
      BY <2>2 DEF GatewayInv, Announced
    <3>2. got[d].seen \subseteq got'[d].seen
      BY <1>3 DEF Welcomed
    <3>3. task[c].user = u /\ ~task[c].existing => u \in got'[d].seen
      <4>1. task[c].user = u => d \in Receivers(BoardOf[u], c)
        BY <1>0, <3>1, ReceiversAre
      <4> QED
        BY <1>3, <4>1 DEF Welcomed
    <3> QED
      BY <1>1, <1>2, <3>1, <3>2, <3>3
  <2> QED
    BY <2>1, <2>2
<1> QED
  BY <1>4, <1>5, <1>6, <1>7, <1>8, <1>9 DEF GatewayInv

\* A stroke is given up: only its own handler learns of it.
LEMMA GiveUpKeeps ==
  ASSUME GatewayInv, TypeOK', NEW s \in Stroke, NEW k \in Handler,
         NEW why \in {"failed", "limited"}, k.phase = "done",
         task' = [task EXCEPT ![s] = k], outcome' = [outcome EXCEPT ![s] = why],
         UNCHANGED <<conn, users, got, committed, owed, lacked>>
  PROVE  GatewayInv'
<1>1. Conn \subseteq Task /\ Stroke \subseteq Task /\ Conn \cap Stroke = {}
  BY GatewayAssumption DEF Task
<1>2. /\ task'[s] = k /\ \A r \in Task \ {s} : task'[r] = task[r]
      /\ outcome'[s] = why /\ \A r \in Stroke \ {s} : outcome'[r] = outcome[r]
  BY <1>1 DEF GatewayInv, TypeOK
<1>3. NoLeakedSockets' /\ ShownIsCommitted'
  BY <1>1, <1>2, PlacesKept DEF GatewayInv, ShownIsCommitted
<1>4. AnswersCommitted' /\ AcceptedSettled'
  BY <1>1, <1>2 DEF GatewayInv, AnswersCommitted, AcceptedSettled
<1>5. JoinOrder' /\ Told'
  <2>1. /\ \A d \in Conn : task'[d] = task[d]
        /\ \A r \in Stroke : outcome'[r] = "accepted" => task'[r] = task[r]
    BY <1>1, <1>2
  <2>2. JoinOrder'
    BY <2>1 DEF GatewayInv, JoinOrder, Open
  <2>3. Told'
    BY <1>2, <2>1 DEF GatewayInv, Told, Open, StrokeBoard
  <2> QED
    BY <2>2, <2>3
<1>6. Announced'
  BY <1>1, <1>2 DEF GatewayInv, Announced, Open
<1> QED
  BY <1>3, <1>4, <1>5, <1>6 DEF GatewayInv

LEMMA MoveOnKeeps ==
  ASSUME GatewayInv, TypeOK', NEW t \in Task, MoveOn(t),
         task[t].phase \in {"call", "answered"},
         UNCHANGED <<conn, users, committed, owed, lacked>>
  PROVE  GatewayInv'
<1>1. TypeOK /\ task[t] \in Handler
  BY DEF GatewayInv, TypeOK
<1>2. CASE /\ ~Exhausted(task[t])
           /\ task' = [task EXCEPT ![t] = NextTarget(@)]
           /\ UNCHANGED <<outcome, got>>
  <2> DEFINE k == NextTarget(task[t])
  <2>1. /\ k \in Handler /\ k.phase = "call" /\ k.strokes = {}
        /\ k.conn = task[t].conn /\ k.existing = task[t].existing /\ k.user = task[t].user
    BY <1>1, <1>2, NextTargetType
  <2>2. task' = [task EXCEPT ![t] = k]
    BY <1>2
  <2> HIDE DEF k
  <2> QED
    BY <1>2, <2>1, <2>2, CarryOnKeeps
<1>3. CASE Exhausted(task[t]) /\ t \in Conn /\ FinishJoin(t, "empty", {})
  BY <1>3, FinishJoinKeeps
<1>4. CASE /\ Exhausted(task[t]) /\ t \in Stroke
           /\ task' = [task EXCEPT ![t] = NextRound(@)]
           /\ outcome' = IF task'[t].phase = "done" THEN [outcome EXCEPT ![t] = "failed"]
                         ELSE outcome
           /\ UNCHANGED got
  <2> DEFINE k == NextRound(task[t])
  <2>1. /\ k \in Handler /\ k.phase \in {"delay", "done"} /\ k.conn = task[t].conn
        /\ k.user = task[t].user
        /\ k.phase = "delay" => k.existing = task[t].existing
    <3>1. k.phase = "delay" => k = [task[t] EXCEPT !.phase = "delay", !.attempt = @ + 1]
      BY <1>1, FinishedType DEF NextRound
    <3>2. k.phase = "delay" => k.existing = task[t].existing
      BY <1>1, <3>1 DEF Handler
    <3> QED
      BY <1>1, <3>2, NextRoundType
  <2>2. task' = [task EXCEPT ![t] = k] /\ task'[t] = k
    BY <1>1, <1>4 DEF TypeOK
  <2>3. t \notin Conn
    BY <1>4, GatewayAssumption
  <2> HIDE DEF k
  <2>4. CASE k.phase = "delay"
    BY <1>4, <2>1, <2>2, <2>3, <2>4, CarryOnKeeps
  <2>5. CASE k.phase = "done"
    BY <1>4, <2>1, <2>2, <2>5, GiveUpKeeps
  <2> QED
    BY <2>1, <2>4, <2>5
<1> QED
  BY <1>2, <1>3, <1>4 DEF MoveOn

LEMMA ConnectionKeeps ==
  ASSUME GatewayInv, TypeOK', NEW c \in Conn, connection(c)
  PROVE  GatewayInv'
<1>1. /\ conn[c] = "new" /\ \A d \in Conn \ {c} : conn'[d] = conn[d]
      /\ UNCHANGED <<users, task, outcome, got, committed, owed, lacked>>
  BY DEF GatewayInv, TypeOK, connection, clientVars, clusterVars
<1>2. task[c].phase = "idle" /\ owed[c] = {} /\ \A u \in User : c \notin users[u]
  BY <1>1, GatewayAssumption DEF GatewayInv, JoinOrder, Announced, NoLeakedSockets, Open
<1>3. NoLeakedSockets'
  BY <1>1, <1>2 DEF GatewayInv, NoLeakedSockets, TypeOK
<1>4. ShownIsCommitted' /\ AnswersCommitted' /\ AcceptedSettled'
  BY <1>1 DEF GatewayInv, ShownIsCommitted, AnswersCommitted, AcceptedSettled
<1>5. JoinOrder'
  BY <1>1, <1>2 DEF GatewayInv, JoinOrder, Open
<1>6. Told'
  BY <1>1, <1>2 DEF GatewayInv, Told, Open, StrokeBoard
<1>7. Announced'
  BY <1>1, <1>2 DEF GatewayInv, Announced, Open
<1> QED
  BY <1>3, <1>4, <1>5, <1>6, <1>7 DEF GatewayInv

LEMMA OnCloseKeeps ==
  ASSUME GatewayInv, TypeOK', NEW c \in Conn, onClose(c)
  PROVE  GatewayInv'
<1> DEFINE u == UserOf[c]
           gone == hasUser(u) /\ users'[u] = {}
<1>0. TypeOK /\ NoLeakedSockets /\ u \in User /\ \A d \in Conn : UserOf[d] \in User
  BY GatewayAssumption DEF GatewayInv
<1>1. /\ conn[c] = "open" /\ conn'[c] = "closed" /\ \A d \in Conn \ {c} : conn'[d] = conn[d]
      /\ UNCHANGED <<task, outcome, committed, lacked>>
  BY <1>0 DEF TypeOK, onClose, clientVars, clusterVars
<1>2. \A v \in User : users'[v] = IF v = u THEN users[v] \ {c} ELSE users[v]
  BY <1>0 DEF TypeOK, onClose, leaveBoard
<1>3. got'[c] = nothingGot /\ \A d \in Conn \ {c} :
        /\ got'[d].ack = got[d].ack /\ got'[d].strokes = got[d].strokes
        /\ got'[d].seen = got[d].seen \/ (gone /\ got'[d].seen = got[d].seen \ {u})
  <2> DEFINE told == IF gone THEN Left(got, u, Receivers(BoardOf[u], c)) ELSE got
  <2>1. told \in [Conn -> Client] /\ \A d \in Conn :
          /\ told[d].ack = got[d].ack /\ told[d].strokes = got[d].strokes
          /\ told[d].seen = got[d].seen \/ (gone /\ told[d].seen = got[d].seen \ {u})
    <3> HIDE DEF u, gone
    <3>1. CASE gone
      <4> DEFINE l == Left(got, u, Receivers(BoardOf[u], c))
      <4>1. l \in [Conn -> Client] /\ \A d \in Conn :
              /\ l[d].ack = got[d].ack /\ l[d].strokes = got[d].strokes
              /\ l[d].seen = got[d].seen \/ l[d].seen = got[d].seen \ {u}
        <5>1. got \in [Conn -> Client] /\ u \in User
          BY <1>0 DEF TypeOK
        <5>2. l = [d \in Conn |-> IF d \in Receivers(BoardOf[u], c)
                                 THEN [got[d] EXCEPT !.seen = @ \ {u}] ELSE got[d]]
          BY DEF Left
        <5> HIDE DEF l
        <5> QED
          BY <5>1, <5>2 DEF Client
      <4> QED
        BY <3>1, <4>1
    <3>2. CASE ~gone
      BY <1>0, <3>2 DEF TypeOK
    <3> QED
      BY <3>1, <3>2
  <2>2. got' = [told EXCEPT ![c] = nothingGot]
    BY DEF onClose
  <2> HIDE DEF told, gone, u
  <2> QED
    BY <2>1, <2>2
<1>4. /\ owed'[c] = {}
      /\ \A d \in Conn \ {c} : owed'[d] = IF gone THEN owed[d] \ {u} ELSE owed[d]
  BY <1>0 DEF TypeOK, onClose
<1> HIDE DEF gone
<1>5. NoLeakedSockets'
  BY <1>0, <1>1, <1>2 DEF NoLeakedSockets, TypeOK
<1>6. ShownIsCommitted' /\ AnswersCommitted' /\ AcceptedSettled'
  BY <1>1, <1>3
     DEF GatewayInv, nothingGot, ShownIsCommitted, AnswersCommitted, AcceptedSettled
<1>7. JoinOrder'
  <2> SUFFICES ASSUME NEW d \in Conn
               PROVE  /\ conn'[d] = "new" => task'[d].phase = "idle"
                      /\ task'[d].phase = "idle" => task'[d].user = Nil
                      /\ Open(d)' /\ task'[d].phase /= "idle" => d \in users'[task'[d].user]
                      /\ task'[d].phase /= "delay"
                      /\ got'[d].ack /= "none" => task'[d].phase = "done"
    BY DEF JoinOrder
  <2>1. CASE d = c
    BY <1>1, <1>3, <2>1 DEF GatewayInv, JoinOrder, Open, nothingGot
  <2>2. CASE d /= c
    <3>1. task[d].phase /= "idle" => task[d].user \in User
      BY <1>0 DEF TypeOK
    <3>2. /\ task'[d] = task[d] /\ conn'[d] = conn[d] /\ got'[d].ack = got[d].ack
      BY <1>1, <1>3, <2>2
    <3>3. /\ conn[d] = "new" => task[d].phase = "idle"
          /\ task[d].phase = "idle" => task[d].user = Nil
          /\ Open(d) /\ task[d].phase /= "idle" => d \in users[task[d].user]
          /\ task[d].phase /= "delay"
          /\ got[d].ack /= "none" => task[d].phase = "done"
      BY DEF GatewayInv, JoinOrder
    <3>4. Open(d)' => Open(d)
      BY <3>2 DEF Open
    <3>5. Open(d)' /\ task'[d].phase /= "idle" => d \in users'[task'[d].user]
      BY <1>2, <2>2, <3>1, <3>2, <3>3, <3>4
    <3> QED
      BY <3>2, <3>3, <3>5
  <2> QED
    BY <2>1, <2>2
<1>8. Told'
  <2> SUFFICES ASSUME NEW d \in Conn, NEW s \in Stroke,
                      Open(d)', outcome'[s] = "accepted", task'[s].conn /= d,
                      StrokeBoard(s)' = BoardOf[task'[d].user]
               PROVE  \/ s \in got'[d].strokes
                      \/ task'[d].phase \in {"idle", "call"}
                      \/ task'[d].phase = "answered" /\ s \in task'[d].strokes
                      \/ got'[d].ack = "empty"
                      \/ s \in lacked'[d]
    BY DEF Told, StrokeBoard
  <2>1. d /= c /\ Open(d)
    BY <1>1 DEF Open
  <2>2. StrokeBoard(s) = BoardOf[task[d].user]
    BY <1>1 DEF StrokeBoard
  <2> QED
    BY <1>1, <1>3, <2>1, <2>2 DEF GatewayInv, Told
<1>9. Announced'
  <2>1. ASSUME NEW d \in Conn, ~Open(d)' PROVE owed'[d] = {}
    <3>1. d /= c => ~Open(d) /\ owed[d] = {}
      BY <1>1, <2>1 DEF GatewayInv, Announced, Open
    <3> QED
      BY <1>4, <3>1
  <2>2. ASSUME NEW d \in Conn, NEW v \in owed'[d]
        PROVE  /\ task'[d].user \in User \ {v} /\ BoardOf[task'[d].user] = BoardOf[v]
               /\ d \in users'[task'[d].user]
               /\ \/ v \in got'[d].seen
                  \/ \E e \in Conn : /\ task'[e].user = v /\ ~task'[e].existing
                                     /\ task'[e].phase \in {"call", "answered"}
    <3>1. d /= c /\ v \in owed[d] /\ (gone => v /= u)
      BY <1>4, <2>2
    <3>2. /\ task[d].user \in User \ {v} /\ BoardOf[task[d].user] = BoardOf[v]
          /\ d \in users[task[d].user]
          /\ \/ v \in got[d].seen
             \/ \E e \in Conn : /\ task[e].user = v /\ ~task[e].existing
                                /\ task[e].phase \in {"call", "answered"}
      BY <3>1 DEF GatewayInv, Announced
    <3>3. v \in got[d].seen => v \in got'[d].seen
      BY <1>3, <3>1
    <3> QED
      BY <1>0, <1>1, <1>2, <3>1, <3>2, <3>3
  <2> QED
    BY <2>1, <2>2 DEF Announced
<1> QED
  BY <1>5, <1>6, <1>7, <1>8, <1>9 DEF GatewayInv

LEMMA HandleJoinKeeps ==
  ASSUME GatewayInv, TypeOK', NEW c \in Conn, NEW u \in User, handleJoin(c, u)
  PROVE  GatewayInv'
<1> DEFINE k == [noTask EXCEPT !.user = u, !.existing = AlreadyThere(u)]
<1>0. /\ TypeOK /\ NoLeakedSockets
      /\ Conn \subseteq Task /\ Stroke \subseteq Task /\ Conn \cap Stroke = {}
  BY GatewayAssumption DEF GatewayInv, Task
<1>1. /\ Open(c) /\ task[c].phase = "idle" /\ \A r \in Task \ {c} : task'[r] = task[r]
      /\ UNCHANGED <<conn, outcome, got, committed, lacked>>
  BY <1>0 DEF TypeOK, handleJoin, Open, noTask, clusterVars
<1>2. /\ task'[c].phase = "call" /\ task'[c].strokes = {}
      /\ task'[c].existing = AlreadyThere(u) /\ task'[c].user = u
      /\ task[c].user = Nil
  <2>1. AlreadyThere(u) \in BOOLEAN /\ task[c] = noTask
    BY DEF AlreadyThere, hasUser, handleJoin
  <2>2. k \in Handler /\ k.existing = AlreadyThere(u) /\ k.user = u
    BY <2>1, NoTaskType DEF Handler
  <2>3. task'[c] = Round(k)
    BY <1>0 DEF handleJoin, TypeOK
  <2>4. currentLeader \in Address \cup {Nil}
    BY <1>0 DEF TypeOK
  <2> HIDE DEF k
  <2>5. /\ Round(k).phase = "call" /\ Round(k).strokes = {}
        /\ Round(k).existing = k.existing /\ Round(k).user = k.user
    BY <2>2, <2>4, RoundType
  <2>6. task[c].user = Nil
    BY <2>1 DEF noTask
  <2> QED
    BY <2>2, <2>3, <2>5, <2>6
<1>3. \A v \in User : users'[v] = IF v = u THEN users[v] \cup {c} ELSE users[v]
  BY <1>0 DEF TypeOK, handleJoin, joinBoard
<1>4. \A d \in Conn : owed'[d] = IF ~hasUser(u) /\ d \in Receivers(BoardOf[u], c)
                                THEN owed[d] \cup {u} ELSE owed[d]
  BY DEF handleJoin
<1>5. NoLeakedSockets'
  <2> SUFFICES ASSUME NEW v \in User, NEW d \in users'[v]
               PROVE  task'[d].user = v /\ (conn'[d] = "open" \/ UserOf[d] /= v)
    BY DEF NoLeakedSockets
  <2>1. d \in users[v] \/ (v = u /\ d = c)
    BY <1>3
  <2>2. d \in users[v] => d \in Conn /\ d /= c
    BY <1>0, <1>2, GatewayAssumption DEF NoLeakedSockets, TypeOK
  <2> QED
    BY <1>0, <1>1, <1>2, <2>1, <2>2 DEF NoLeakedSockets, Open
<1>6. ShownIsCommitted' /\ AnswersCommitted' /\ AcceptedSettled'
  BY <1>0, <1>1, <1>2
     DEF GatewayInv, ShownIsCommitted, AnswersCommitted, AcceptedSettled
<1>7. JoinOrder'
  <2> SUFFICES ASSUME NEW d \in Conn
               PROVE  /\ conn'[d] = "new" => task'[d].phase = "idle"
                      /\ task'[d].phase = "idle" => task'[d].user = Nil
                      /\ Open(d)' /\ task'[d].phase /= "idle" => d \in users'[task'[d].user]
                      /\ task'[d].phase /= "delay"
                      /\ got'[d].ack /= "none" => task'[d].phase = "done"
    BY DEF JoinOrder
  <2>2. CASE d = c
    BY <1>0, <1>1, <1>2, <1>3, <2>2 DEF GatewayInv, JoinOrder, Open
  <2>3. CASE d /= c
    BY <1>0, <1>1, <1>3, <2>3 DEF GatewayInv, JoinOrder, Open, TypeOK
  <2> QED
    BY <2>2, <2>3
<1>8. Told'
  BY <1>0, <1>1, <1>2 DEF GatewayInv, Told, Open, StrokeBoard
<1>9. Announced'
  <2>1. ASSUME NEW d \in Conn, ~Open(d)' PROVE owed'[d] = {}
    <3>1. ~Open(d) /\ d \notin Receivers(BoardOf[u], c)
      BY <1>0, <1>1, <2>1, ReceiversAre DEF Open
    <3> QED
      BY <1>4, <3>1 DEF GatewayInv, Announced
  <2>2. ASSUME NEW d \in Conn, NEW v \in owed'[d]
        PROVE  /\ task'[d].user \in User \ {v} /\ BoardOf[task'[d].user] = BoardOf[v]
               /\ d \in users'[task'[d].user]
               /\ \/ v \in got'[d].seen
                  \/ \E e \in Conn : /\ task'[e].user = v /\ ~task'[e].existing
                                     /\ task'[e].phase \in {"call", "answered"}
    <3>1. CASE v \in owed[d]
      <4>1. /\ task[d].user \in User \ {v} /\ BoardOf[task[d].user] = BoardOf[v]
            /\ d \in users[task[d].user]
            /\ \/ v \in got[d].seen
               \/ \E e \in Conn : /\ task[e].user = v /\ ~task[e].existing
                                  /\ task[e].phase \in {"call", "answered"}
        BY <3>1 DEF GatewayInv, Announced
      <4>2. d /= c
        BY <1>2, <4>1, GatewayAssumption
      <4>3. task'[d] = task[d] /\ d \in users'[task'[d].user]
        BY <1>0, <1>1, <1>3, <4>1, <4>2
      <4>4. ASSUME NEW e \in Conn, task[e].phase \in {"call", "answered"}
            PROVE  task'[e] = task[e]
        BY <1>0, <1>1, <4>4
      <4> QED
        BY <1>1, <4>1, <4>3, <4>4
    <3>2. CASE v \notin owed[d]
      <4>1. v = u /\ ~hasUser(u) /\ d \in Receivers(BoardOf[u], c)
        BY <1>4, <2>2, <3>2
      <4>2. /\ d /= c /\ task[d].user \in User \ {u} /\ BoardOf[task[d].user] = BoardOf[u]
            /\ d \in users[task[d].user]
        BY <1>0, <4>1, ReceiversAre DEF hasUser
      <4>3. ~task'[c].existing
        BY <1>2, <4>1 DEF AlreadyThere
      <4> QED
        BY <1>0, <1>1, <1>2, <1>3, <4>1, <4>2, <4>3
    <3> QED
      BY <3>1, <3>2
  <2> QED
    BY <2>1, <2>2 DEF Announced
<1> QED
  BY <1>5, <1>6, <1>7, <1>8, <1>9 DEF GatewayInv

LEMMA HandleStrokeKeeps ==
  ASSUME GatewayInv, TypeOK', NEW c \in Conn, NEW s \in Stroke, handleStroke(c, s)
  PROVE  GatewayInv'
<1> DEFINE k == [noTask EXCEPT !.conn = c]
<1>0. /\ TypeOK /\ currentLeader \in Address \cup {Nil}
      /\ Conn \subseteq Task /\ Stroke \subseteq Task /\ Conn \cap Stroke = {}
  BY GatewayAssumption DEF GatewayInv, Task, TypeOK
<1>1. /\ k \in Handler /\ task[s].phase = "idle"
      /\ UNCHANGED <<conn, users, got, committed, owed, lacked>>
  <2>1. k \in Handler
    BY NoTaskType, ConnType
  <2> QED
    BY <2>1 DEF handleStroke, clusterVars, noTask
<1>2. CASE /\ task' = [task EXCEPT ![s] = Finished([@ EXCEPT !.conn = c])]
           /\ outcome' = [outcome EXCEPT ![s] = "limited"]
  <2>1. task' = [task EXCEPT ![s] = Finished(k)]
    BY <1>0, <1>2 DEF handleStroke
  <2> HIDE DEF k
  <2>2. Finished(k) \in Handler /\ Finished(k).phase = "done"
    BY <1>1, FinishedType
  <2> QED
    BY <1>1, <1>2, <2>1, <2>2, GiveUpKeeps
<1>3. CASE /\ task' = [task EXCEPT ![s] = Round([@ EXCEPT !.conn = c])]
           /\ UNCHANGED outcome
  <2>1. task'[s] = Round(k) /\ \A r \in Task \ {s} : task'[r] = task[r]
    BY <1>0, <1>3 DEF handleStroke, TypeOK
  <2> HIDE DEF k
  <2>2. task'[s].phase = "call"
    BY <1>0, <1>1, <2>1, RoundType
  <2>3. outcome[s] /= "accepted"
    BY <1>1 DEF GatewayInv, AcceptedSettled
  <2>4. NoLeakedSockets' /\ ShownIsCommitted'
    BY <1>0, <1>1, <2>1, PlacesKept DEF GatewayInv, ShownIsCommitted
  <2>5. AnswersCommitted' /\ AcceptedSettled'
    BY <1>0, <1>1, <1>3, <2>1, <2>2, <2>3 DEF GatewayInv, AnswersCommitted, AcceptedSettled
  <2>6. JoinOrder' /\ Told'
    BY <1>0, <1>1, <1>3, <2>1, <2>3 DEF GatewayInv, JoinOrder, Told, Open, StrokeBoard
  <2>7. Announced'
    BY <1>0, <1>1, <2>1 DEF GatewayInv, Announced, Open
  <2> QED
    BY <2>4, <2>5, <2>6, <2>7 DEF GatewayInv
<1> QED
  BY <1>2, <1>3 DEF handleStroke

LEMMA ReadKeeps ==
  ASSUME GatewayInv, TypeOK', NEW c \in Conn, readBoardState(c)
  PROVE  GatewayInv'
<1> DEFINE ss == {s \in committed \ lagging : StrokeBoard(s) = BoardOf[task[c].user]}
<1>0. /\ TypeOK /\ ss \in SUBSET Stroke /\ ss \subseteq committed /\ task[c] \in Handler
      /\ Conn \subseteq Task /\ Stroke \subseteq Task /\ Conn \cap Stroke = {}
  BY GatewayAssumption DEF GatewayInv, Task, TypeOK
<1>1. /\ task[c].phase = "call" /\ UNCHANGED <<conn, users, outcome, got, committed, owed>>
      /\ lacked'[c] = lagging /\ \A d \in Conn \ {c} : lacked'[d] = lacked[d]
  BY <1>0 DEF readBoardState, clusterVars, TypeOK
<1>2. /\ task'[c] = [task[c] EXCEPT !.phase = "answered", !.strokes = ss]
      /\ \A r \in Task \ {c} : task'[r] = task[r]
  BY <1>0 DEF readBoardState, TypeOK
<1>3. \A s \in committed \ lagging : StrokeBoard(s) = BoardOf[task[c].user] => s \in ss
  OBVIOUS
<1> HIDE DEF ss
<1>4. /\ task'[c].phase = "answered" /\ task'[c].strokes = ss /\ task'[c].user = task[c].user
      /\ task'[c].conn = task[c].conn /\ task'[c].existing = task[c].existing
  BY <1>0, <1>2 DEF Handler
<1>5. NoLeakedSockets' /\ ShownIsCommitted'
  BY <1>0, <1>1, <1>2, <1>4, PlacesKept DEF GatewayInv, ShownIsCommitted
<1>6. AnswersCommitted' /\ AcceptedSettled'
  BY <1>0, <1>1, <1>2, <1>4 DEF GatewayInv, AnswersCommitted, AcceptedSettled
<1>7. JoinOrder'
  <2> SUFFICES ASSUME NEW d \in Conn
               PROVE  /\ conn'[d] = "new" => task'[d].phase = "idle"
                      /\ task'[d].phase = "idle" => task'[d].user = Nil
                      /\ Open(d)' /\ task'[d].phase /= "idle" => d \in users'[task'[d].user]
                      /\ task'[d].phase /= "delay"
                      /\ got'[d].ack /= "none" => task'[d].phase = "done"
    BY DEF JoinOrder
  <2>1. /\ conn[d] = "new" => task[d].phase = "idle"
        /\ task[d].phase = "idle" => task[d].user = Nil
        /\ Open(d) /\ task[d].phase /= "idle" => d \in users[task[d].user]
        /\ task[d].phase /= "delay"
        /\ got[d].ack /= "none" => task[d].phase = "done"
    BY DEF GatewayInv, JoinOrder
  <2>2. CASE d = c
    BY <1>1, <1>4, <2>1, <2>2 DEF Open
  <2>3. CASE d /= c
    BY <1>0, <1>1, <1>2, <2>1, <2>3 DEF Open
  <2> QED
    BY <2>2, <2>3
<1>8. Told'
  <2> SUFFICES ASSUME NEW d \in Conn, NEW r \in Stroke,
                      Open(d)', outcome'[r] = "accepted", task'[r].conn /= d,
                      StrokeBoard(r)' = BoardOf[task'[d].user]
               PROVE  \/ r \in got'[d].strokes
                      \/ task'[d].phase \in {"idle", "call"}
                      \/ task'[d].phase = "answered" /\ r \in task'[d].strokes
                      \/ got'[d].ack = "empty"
                      \/ r \in lacked'[d]
    BY DEF Told, StrokeBoard
  <2>1. /\ Open(d) /\ outcome[r] = "accepted" /\ task[r].conn /= d /\ r \in committed
        /\ StrokeBoard(r) = BoardOf[task[d].user]
    BY <1>0, <1>1, <1>2, <1>4 DEF GatewayInv, AcceptedSettled, Open, StrokeBoard
  <2>2. CASE d = c
    BY <1>1, <1>3, <1>4, <2>1, <2>2
  <2>3. CASE d /= c
    BY <1>0, <1>1, <1>2, <2>1, <2>3 DEF GatewayInv, Told
  <2> QED
    BY <2>2, <2>3
<1>9. Announced'
  BY <1>0, <1>1, <1>2, <1>4, AnnouncedKeeps DEF GatewayInv
<1> QED
  BY <1>5, <1>6, <1>7, <1>8, <1>9 DEF GatewayInv

LEMMA WriteKeeps ==
  ASSUME GatewayInv, TypeOK', NEW s \in Stroke, handleClientWrite(s)
  PROVE  GatewayInv'
<1>0. /\ TypeOK /\ task[s] \in Handler
      /\ Conn \subseteq Task /\ Stroke \subseteq Task /\ Conn \cap Stroke = {}
  BY GatewayAssumption DEF GatewayInv, Task, TypeOK
<1>1. /\ task[s].phase = "call" /\ committed' = committed \cup {s}
      /\ UNCHANGED <<conn, users, outcome, got, owed, lacked>>
  BY DEF handleClientWrite
<1>2. /\ task'[s] = [task[s] EXCEPT !.phase = "answered"]
      /\ \A r \in Task \ {s} : task'[r] = task[r]
  BY <1>0 DEF handleClientWrite, TypeOK
<1>3. task'[s].phase = "answered" /\ task'[s].conn = task[s].conn
  BY <1>0, <1>2 DEF Handler
<1>4. NoLeakedSockets' /\ ShownIsCommitted'
  BY <1>0, <1>1, <1>2, PlacesKept DEF GatewayInv, ShownIsCommitted
<1>5. AnswersCommitted' /\ AcceptedSettled'
  BY <1>0, <1>1, <1>2, <1>3 DEF GatewayInv, AnswersCommitted, AcceptedSettled
<1>6. JoinOrder'
  BY <1>0, <1>1, <1>2 DEF GatewayInv, JoinOrder, Open
<1>7. Told'
  <2>1. /\ \A d \in Conn : task'[d] = task[d]
        /\ \A r \in Stroke : task'[r].conn = task[r].conn
    BY <1>0, <1>2, <1>3
  <2> QED
    BY <1>1, <2>1 DEF GatewayInv, Told, Open, StrokeBoard
<1>8. Announced'
  BY <1>0, <1>1, <1>2, AnnouncedKeeps DEF GatewayInv
<1> QED
  BY <1>4, <1>5, <1>6, <1>7, <1>8 DEF GatewayInv

\* A stroke is accepted: every socket that has joined, but its own, is sent it.
LEMMA FinishStrokeKeeps ==
  ASSUME GatewayInv, TypeOK', NEW s \in Stroke, FinishStroke(s),
         task[s].phase = "answered", UNCHANGED <<conn, users, committed, owed, lacked>>
  PROVE  GatewayInv'
<1>0. /\ TypeOK /\ NoLeakedSockets /\ task[s] \in Handler
      /\ Conn \subseteq Task /\ Stroke \subseteq Task /\ Conn \cap Stroke = {}
  BY GatewayAssumption DEF GatewayInv, Task, TypeOK
<1>1. /\ task'[s] = Finished(task[s]) /\ \A r \in Task \ {s} : task'[r] = task[r]
      /\ outcome'[s] = "accepted" /\ \A r \in Stroke \ {s} : outcome'[r] = outcome[r]
  BY <1>0 DEF FinishStroke, TypeOK
<1>2. task'[s].phase = "done" /\ task'[s].conn = task[s].conn
  BY <1>0, <1>1, FinishedType
<1>3. \A d \in Conn :
        /\ got'[d].ack = got[d].ack /\ got'[d].seen = got[d].seen
        /\ got'[d].strokes = IF d \in Receivers(StrokeBoard(s), task[s].conn)
                             THEN got[d].strokes \cup {s} ELSE got[d].strokes
  BY <1>0, FinishStrokeEffect
<1>4. s \in committed
  BY DEF GatewayInv, AnswersCommitted
<1>5. NoLeakedSockets' /\ ShownIsCommitted'
  <2>1. NoLeakedSockets'
    BY <1>0, <1>1, PlacesKept
  <2>2. ShownIsCommitted'
    BY <1>3, <1>4 DEF GatewayInv, ShownIsCommitted
  <2> QED
    BY <2>1, <2>2
<1>6. AnswersCommitted' /\ AcceptedSettled'
  BY <1>0, <1>1, <1>2, <1>4 DEF GatewayInv, AnswersCommitted, AcceptedSettled
<1>7. JoinOrder'
  BY <1>0, <1>1, <1>3 DEF GatewayInv, JoinOrder, Open
<1>8. Told'
  <2> SUFFICES ASSUME NEW d \in Conn, NEW r \in Stroke,
                      Open(d)', outcome'[r] = "accepted", task'[r].conn /= d,
                      StrokeBoard(r)' = BoardOf[task'[d].user]
               PROVE  \/ r \in got'[d].strokes
                      \/ task'[d].phase \in {"idle", "call"}
                      \/ task'[d].phase = "answered" /\ r \in task'[d].strokes
                      \/ got'[d].ack = "empty"
                      \/ r \in lacked'[d]
    BY DEF Told, StrokeBoard
  <2>1. /\ Open(d) /\ task'[d] = task[d] /\ task'[r].conn = task[r].conn
        /\ StrokeBoard(r) = BoardOf[task[d].user]
    BY <1>0, <1>1, <1>2 DEF Open, StrokeBoard
  <2>2. CASE r = s
    <3>1. task[d].phase /= "idle" => d \in Receivers(StrokeBoard(s), task[s].conn)
      BY <1>0, <1>2, <2>1, <2>2, ReceiversAre DEF GatewayInv, JoinOrder, TypeOK
    <3> QED
      BY <1>3, <2>1, <2>2, <3>1
  <2>3. CASE r /= s
    <3>1. outcome[r] = "accepted" /\ task[r].conn /= d
      BY <1>0, <1>1, <2>3
    <3>2. got[d].strokes \subseteq got'[d].strokes /\ got'[d].ack = got[d].ack
      BY <1>3
    <3>3. \/ r \in got[d].strokes
          \/ task[d].phase \in {"idle", "call"}
          \/ task[d].phase = "answered" /\ r \in task[d].strokes
          \/ got[d].ack = "empty"
          \/ r \in lacked[d]
      BY <2>1, <3>1 DEF GatewayInv, Told
    <3> QED
      BY <2>1, <3>2, <3>3
  <2> QED
    BY <2>2, <2>3
<1>9. Announced'
  BY <1>0, <1>1, <1>3, AnnouncedKeeps DEF GatewayInv
<1> QED
  BY <1>5, <1>6, <1>7, <1>8, <1>9 DEF GatewayInv

LEMMA GatewayStep ==
  ASSUME GatewayInv, [Next]_vars
  PROVE  GatewayInv'
<1>0. TypeOK /\ TypeOK'
  BY TypeStep DEF GatewayInv
<1>1. ASSUME NEW t \in Task, replies(t) PROVE GatewayInv'
  <2>1. task[t] \in Handler /\ task[t].strokes \in SUBSET Stroke /\ task[t].phase = "answered"
    BY <1>0, <1>1 DEF TypeOK, Handler, replies
  <2>2. UNCHANGED <<conn, users, committed, owed, lacked>>
    BY <1>1 DEF replies, clusterVars
  <2>3. CASE t \in Conn /\ FinishJoin(t, "read", task[t].strokes)
    <3>1. task[t].strokes \subseteq committed
      BY <2>3 DEF GatewayInv, AnswersCommitted
    <3> QED
      BY <1>0, <2>1, <2>2, <2>3, <3>1, FinishJoinKeeps
  <2>4. CASE t \in Stroke /\ FinishStroke(t)
    BY <1>0, <2>1, <2>2, <2>4, FinishStrokeKeeps
  <2> QED
    BY <1>1, <2>3, <2>4 DEF replies
<1>2. ASSUME NEW t \in Task, throws(t) PROVE GatewayInv'
  BY <1>0, <1>2, MoveOnKeeps DEF throws
<1>3. ASSUME NEW t \in Task, NEW hint \in Hint \cup {Nil}, refused(t, hint) PROVE GatewayInv'
  <2>1. task[t].phase = "call" /\ UNCHANGED <<conn, users, committed, owed, lacked>>
    BY <1>3 DEF refused
  <2>2. CASE MoveOn(t)
    BY <1>0, <2>1, <2>2, MoveOnKeeps
  <2>3. CASE /\ hint /= Nil
             /\ task' = [task EXCEPT ![t] = FollowHint(@, hint)]
             /\ UNCHANGED <<outcome, got>>
    <3> DEFINE k == FollowHint(task[t], hint)
    <3>1. /\ k \in Handler /\ k.phase = "call" /\ k.strokes = {}
          /\ k.conn = task[t].conn /\ k.existing = task[t].existing /\ k.user = task[t].user
      <4>1. hint \in Address /\ task[t] \in Handler
        BY <1>0, <2>3 DEF Address, TypeOK
      <4> QED
        BY <4>1, FollowHintType
    <3>2. task' = [task EXCEPT ![t] = k]
      BY <2>3
    <3> HIDE DEF k
    <3> QED
      BY <1>0, <2>1, <2>3, <3>1, <3>2, CarryOnKeeps
  <2> QED
    BY <1>3, <2>2, <2>3 DEF refused
<1>4. ASSUME NEW s \in Stroke, retries(s) PROVE GatewayInv'
  <2> DEFINE k == Round(task[s])
  <2>1. s \in Task /\ task[s] \in Handler /\ currentLeader \in Address \cup {Nil}
    BY <1>0 DEF Task, TypeOK
  <2>2. /\ k \in Handler /\ k.phase = "call" /\ k.strokes = {}
        /\ k.conn = task[s].conn /\ k.existing = task[s].existing /\ k.user = task[s].user
    BY <2>1, RoundType
  <2>3. /\ task[s].phase = "delay" /\ task' = [task EXCEPT ![s] = k]
        /\ UNCHANGED <<conn, users, outcome, got, committed, owed, lacked>>
    BY <1>4 DEF retries, clusterVars
  <2> HIDE DEF k
  <2> QED
    BY <1>0, <2>1, <2>2, <2>3, CarryOnKeeps
<1>5. ASSUME NEW s \in Stroke, commitsLate(s) PROVE GatewayInv'
  <2>1. /\ committed \subseteq committed'
        /\ UNCHANGED <<conn, users, task, outcome, got, owed, lacked>>
    BY <1>5 DEF commitsLate, clientVars
  <2>2. NoLeakedSockets' /\ ShownIsCommitted' /\ AnswersCommitted' /\ AcceptedSettled'
    BY <2>1 DEF GatewayInv, NoLeakedSockets, ShownIsCommitted, AnswersCommitted, AcceptedSettled
  <2>3. JoinOrder' /\ Told' /\ Announced'
    BY <2>1 DEF GatewayInv, JoinOrder, Told, Announced, Open, StrokeBoard
  <2> QED
    BY <1>0, <2>2, <2>3 DEF GatewayInv
<1>6. CASE becomeLeader
  <2>1. UNCHANGED <<conn, users, task, outcome, got, committed, owed, lacked>>
    BY <1>6 DEF becomeLeader, clientVars
  <2>2. NoLeakedSockets' /\ ShownIsCommitted' /\ AnswersCommitted' /\ AcceptedSettled'
    BY <2>1 DEF GatewayInv, NoLeakedSockets, ShownIsCommitted, AnswersCommitted, AcceptedSettled
  <2>3. JoinOrder' /\ Told' /\ Announced'
    BY <2>1 DEF GatewayInv, JoinOrder, Told, Announced, Open, StrokeBoard
  <2> QED
    BY <1>0, <2>2, <2>3 DEF GatewayInv
<1>7. CASE UNCHANGED vars
  <2>1. UNCHANGED <<conn, users, task, outcome, got, committed, owed, lacked>>
    BY <1>7 DEF vars, clientVars, clusterVars
  <2>2. NoLeakedSockets' /\ ShownIsCommitted' /\ AnswersCommitted' /\ AcceptedSettled'
    BY <2>1 DEF GatewayInv, NoLeakedSockets, ShownIsCommitted, AnswersCommitted, AcceptedSettled
  <2>3. JoinOrder' /\ Told' /\ Announced'
    BY <2>1 DEF GatewayInv, JoinOrder, Told, Announced, Open, StrokeBoard
  <2> QED
    BY <1>0, <2>2, <2>3 DEF GatewayInv
<1> QED
  BY <1>0, <1>1, <1>2, <1>3, <1>4, <1>5, <1>6, <1>7, ConnectionKeeps, OnCloseKeeps,
     HandleJoinKeeps, HandleStrokeKeeps, ReadKeeps, WriteKeeps DEF Next

LEMMA GatewaySafe == Spec => []GatewayInv
BY InitInv, GatewayStep, PTL DEF Spec

\* A socket that joined as the user of its URL and closes, be it in the middle of its
\* join, before or after the cluster has answered, is registered nowhere afterwards:
\* no place of maxUsersPerBoard and no user in the lists is kept by it.  Whatever a
\* socket joined as, it is registered under that user only; one that joined as
\* another than the user of its URL is not released by the close event.
THEOREM SocketsReleased == Spec => []NoLeakedSockets
BY GatewaySafe, PTL DEF GatewayInv

\* No client is shown a stroke that the cluster has not committed, over retries,
\* redirections, timeouts and answers that come after the timeout.
THEOREM ShownStrokesAreCommitted == Spec => []ShownIsCommitted
BY GatewaySafe, PTL DEF GatewayInv

\* A socket whose join was answered by the cluster has every accepted stroke that
\* other sockets drew on the board it joined, except those the answering leader had
\* not applied: joinBoard registers the socket before the read is sent, so that what
\* the read is too early for comes as a broadcast.  Changes of the leader are
\* anywhere, and what a leader lacks is any set of committed strokes.
THEOREM NoAcceptedStrokeMissed == Spec => []NoStrokeMissed
BY GatewaySafe, InvImplies, PTL

\* A user who joined is in the list of every socket that was there before, as
\* long as one of the user's sockets stays, even when the socket that announces
\* the user has closed before its join ended.
THEOREM PresenceAnnounced == Spec => []PresenceComplete
BY GatewaySafe, InvImplies, PTL

-----------------------------------------------------------------------------
(* Every handler ends.                                                     *)

\* The two parts of a handler's rank: the rounds after this one, and this one.
LaterRounds(k) == (MAX_WRITE_ATTEMPTS - k.attempt) * (4 * (NumPeers + 1) + 1)

ThisRound(k) ==
  IF k.phase = "delay" THEN 4 * (NumPeers + 1)
  ELSE 4 * Len(k.rest) + (IF k.hinted THEN 0 ELSE 2) + (IF k.phase = "call" THEN 1 ELSE 0)

LEMMA ThisRoundIs ==
  ASSUME NEW k \in Handler
  PROVE  /\ Len(k.rest) \in Nat /\ NumPeers \in Nat
         /\ k.phase = "delay" => ThisRound(k) = 4 * (NumPeers + 1)
         /\ k.phase = "call" /\ ~k.hinted => ThisRound(k) = 4 * Len(k.rest) + 3
         /\ k.phase = "call" /\ k.hinted => ThisRound(k) = 4 * Len(k.rest) + 1
         /\ k.phase \notin {"delay", "call"} /\ ~k.hinted => ThisRound(k) = 4 * Len(k.rest) + 2
         /\ k.phase \notin {"delay", "call"} /\ k.hinted => ThisRound(k) = 4 * Len(k.rest)
<1>1. Len(k.rest) \in Nat /\ NumPeers \in Nat
  BY GatewayAssumption DEF Handler
<1>2. CASE k.phase = "delay"
  BY <1>1, <1>2 DEF ThisRound
<1>3. CASE k.phase = "call" /\ ~k.hinted
  <2>1. ThisRound(k) = 4 * Len(k.rest) + 2 + 1
    BY <1>3, Zenon DEF ThisRound
  <2> QED
    BY <1>1, <1>3, <2>1
<1>4. CASE k.phase = "call" /\ k.hinted
  <2>1. ThisRound(k) = 4 * Len(k.rest) + 0 + 1
    BY <1>4, Zenon DEF ThisRound
  <2> QED
    BY <1>1, <1>4, <2>1
<1>5. CASE k.phase \notin {"delay", "call"} /\ ~k.hinted
  <2>1. ThisRound(k) = 4 * Len(k.rest) + 2 + 0
    BY <1>5, Zenon DEF ThisRound
  <2> QED
    BY <1>1, <1>5, <2>1
<1>6. CASE k.phase \notin {"delay", "call"} /\ k.hinted
  <2>1. ThisRound(k) = 4 * Len(k.rest) + 0 + 0
    BY <1>6, Zenon DEF ThisRound
  <2> QED
    BY <1>1, <1>6, <2>1
<1> QED
  BY <1>1, <1>2, <1>3, <1>4, <1>5, <1>6

LEMMA RankParts ==
  ASSUME NEW k \in Handler
  PROVE  /\ Rank(k) = LaterRounds(k) + ThisRound(k)
         /\ LaterRounds(k) \in Int /\ ThisRound(k) \in Nat
<1>1. /\ NumPeers \in Nat /\ MAX_WRITE_ATTEMPTS \in Nat
      /\ k.attempt \in Int /\ Len(k.rest) \in Nat /\ k.hinted \in BOOLEAN
  BY GatewayAssumption DEF Handler
<1>2. Rank(k) = LaterRounds(k) + ThisRound(k)
  BY DEF Rank, LaterRounds, ThisRound
<1>3. LaterRounds(k) \in Int
  BY <1>1 DEF LaterRounds
<1>4. ThisRound(k) \in Nat
  BY <1>1, ThisRoundIs
<1> QED
  BY <1>2, <1>3, <1>4

\* Another attempt costs more than a round.
LEMMA AttemptCosts ==
  ASSUME NEW j \in Handler, NEW k \in Handler, k.attempt = j.attempt + 1
  PROVE  LaterRounds(k) + 4 * (NumPeers + 1) + 1 = LaterRounds(j)
<1> DEFINE K == 4 * (NumPeers + 1) + 1
           M == MAX_WRITE_ATTEMPTS
<1>1. K \in Int /\ M \in Int /\ j.attempt \in Int
  BY GatewayAssumption DEF Handler
<1>2. LaterRounds(j) = (M - j.attempt) * K /\ LaterRounds(k) = (M - (j.attempt + 1)) * K
  BY DEF LaterRounds
<1>3. NumPeers \in Int /\ K = 4 * (NumPeers + 1) + 1
  BY GatewayAssumption
<1> HIDE DEF K, M
<1>4. \A m, a \in Int : (m - (a + 1)) * K + K = (m - a) * K
  BY <1>1
<1>5. (M - (j.attempt + 1)) * K + K = (M - j.attempt) * K
  BY <1>1, <1>4
<1>6. (M - (j.attempt + 1)) * K \in Int
  BY <1>1
<1> QED
  BY <1>1, <1>2, <1>3, <1>5, <1>6

\* Each way a handler goes on leaves it less to do.
LEMMA RankFalls ==
  ASSUME TypeOK, NEW j \in Handler, NEW k \in Handler,
         \/ /\ k.attempt = j.attempt /\ ThisRound(k) < ThisRound(j)
         \/ /\ k.attempt = j.attempt + 1 /\ k.phase = "delay"
  PROVE  Rank(k) < Rank(j)
<1>1. /\ Rank(k) = LaterRounds(k) + ThisRound(k) /\ Rank(j) = LaterRounds(j) + ThisRound(j)
      /\ LaterRounds(k) \in Int /\ ThisRound(k) \in Nat
      /\ LaterRounds(j) \in Int /\ ThisRound(j) \in Nat
  BY RankParts
<1>2. CASE k.attempt = j.attempt /\ ThisRound(k) < ThisRound(j)
  <2>1. LaterRounds(k) = LaterRounds(j)
    BY <1>2 DEF LaterRounds
  <2> QED
    BY <1>1, <1>2, <2>1
<1>3. CASE k.attempt = j.attempt + 1 /\ k.phase = "delay"
  <2>1. LaterRounds(k) + 4 * (NumPeers + 1) + 1 = LaterRounds(j)
    BY <1>3, AttemptCosts
  <2>2. ThisRound(k) = 4 * (NumPeers + 1) /\ NumPeers \in Nat
    BY <1>3, GatewayAssumption DEF ThisRound
  <2> QED
    BY <1>1, <2>1, <2>2
<1> QED
  BY <1>2, <1>3

LEMMA MoveOnFalls ==
  ASSUME TypeOK, NEW t \in Task, MoveOn(t), task[t].phase \in {"call", "answered"}
  PROVE  task'[t].phase = "done" \/ Rank(task'[t]) < Rank(task[t])
<1>0. /\ task[t] \in Handler /\ task[t].rest \in Seq(Peer) /\ task[t].hinted \in BOOLEAN
      /\ t \in DOMAIN task
  BY DEF TypeOK, Handler
<1>1. CASE ~Exhausted(task[t]) /\ task' = [task EXCEPT ![t] = NextTarget(@)]
  <2> DEFINE k == NextTarget(task[t])
  <2>1. /\ k \in Handler /\ k.phase = "call" /\ Len(k.rest) + 1 = Len(task[t].rest)
        /\ k.hinted = FALSE /\ k.attempt = task[t].attempt
    BY <1>0, <1>1, NextTargetType
  <2>2. task'[t] = k
    BY <1>0, <1>1
  <2> HIDE DEF k
  <2>3. Len(task[t].rest) \in Nat /\ Len(k.rest) \in Nat
    BY <1>0, <2>1 DEF Handler
  <2>4. ThisRound(k) = 4 * Len(k.rest) + 3
    BY <2>1, ThisRoundIs
  <2>5. ThisRound(task[t]) >= 4 * Len(task[t].rest) /\ ThisRound(task[t]) \in Nat
    BY <1>0, <2>3, ThisRoundIs
  <2>6. ThisRound(k) < ThisRound(task[t])
    BY <2>1, <2>3, <2>4, <2>5
  <2> QED
    BY <1>0, <2>1, <2>2, <2>6, RankFalls
<1>2. CASE t \in Conn /\ FinishJoin(t, "empty", {})
  BY <1>0, <1>2, FinishedType DEF FinishJoin
<1>3. CASE task' = [task EXCEPT ![t] = NextRound(@)]
  <2> DEFINE k == NextRound(task[t])
  <2>1. /\ k \in Handler /\ k.phase \in {"delay", "done"}
        /\ k.phase = "delay" => k.attempt = task[t].attempt + 1
    BY <1>0, NextRoundType
  <2>2. task'[t] = k
    BY <1>0, <1>3
  <2> HIDE DEF k
  <2> QED
    BY <1>0, <2>1, <2>2, RankFalls
<1> QED
  BY <1>1, <1>2, <1>3 DEF MoveOn

LEMMA RankStep ==
  ASSUME TypeOK, Next, NEW t \in Task,
         task[t].phase \notin {"idle", "done"}, task'[t] /= task[t]
  PROVE  task'[t].phase = "done" \/ Rank(task'[t]) < Rank(task[t])
<1>0. /\ task[t] \in Handler /\ task[t].rest \in Seq(Peer) /\ task[t].hinted \in BOOLEAN
      /\ DOMAIN task = Task /\ Conn \subseteq Task /\ Stroke \subseteq Task
      /\ currentLeader \in Address \cup {Nil}
      /\ NumPeers \in Nat /\ Len(task[t].rest) \in Nat
  BY GatewayAssumption DEF TypeOK, Handler, Task
<1>1. ASSUME NEW c \in Conn, connection(c) \/ onClose(c) PROVE FALSE
  BY <1>1 DEF connection, onClose, clientVars
<1>2. ASSUME NEW c \in Conn, NEW u \in User, handleJoin(c, u) PROVE FALSE
  BY <1>0, <1>2 DEF handleJoin, noTask
<1>3. ASSUME NEW c \in Conn, NEW s \in Stroke, handleStroke(c, s) PROVE FALSE
  BY <1>0, <1>3 DEF handleStroke, noTask
<1>4. ASSUME NEW k \in Handler, task'[t] = k, task[t].phase = "call", k.phase = "answered",
             k.attempt = task[t].attempt, k.rest = task[t].rest, k.hinted = task[t].hinted
      PROVE  Rank(task'[t]) < Rank(task[t])
  <2>1. ThisRound(k) < ThisRound(task[t])
    BY <1>0, <1>4, ThisRoundIs
  <2> QED
    BY <1>0, <1>4, <2>1, RankFalls
<1>5. ASSUME NEW s \in Stroke, handleClientWrite(s) PROVE Rank(task'[t]) < Rank(task[t])
  <2> DEFINE k == [task[s] EXCEPT !.phase = "answered"]
  <2>1. s = t /\ task[s] \in Handler /\ task[s].phase = "call" /\ task'[t] = k
    BY <1>0, <1>5 DEF handleClientWrite
  <2>2. /\ k \in Handler /\ k.phase = "answered" /\ k.attempt = task[s].attempt
        /\ k.rest = task[s].rest /\ k.hinted = task[s].hinted
    BY <2>1 DEF Handler
  <2> HIDE DEF k
  <2> QED
    BY <1>4, <2>1, <2>2
<1>6. ASSUME NEW c \in Conn, readBoardState(c) PROVE Rank(task'[t]) < Rank(task[t])
  <2> DEFINE ss == {s \in committed \ lagging : StrokeBoard(s) = BoardOf[task[c].user]}
             k == [task[c] EXCEPT !.phase = "answered", !.strokes = ss]
  <2>1. c = t /\ task[c] \in Handler /\ task[c].phase = "call" /\ task'[t] = k
    BY <1>0, <1>6 DEF readBoardState
  <2>2. ss \in SUBSET Stroke
    BY DEF TypeOK
  <2> HIDE DEF ss
  <2>3. /\ k \in Handler /\ k.phase = "answered" /\ k.attempt = task[c].attempt
        /\ k.rest = task[c].rest /\ k.hinted = task[c].hinted
    BY <2>1, <2>2 DEF Handler
  <2> HIDE DEF k
  <2> QED
    BY <1>4, <2>1, <2>3
<1>7. CASE becomeLeader
  BY <1>7 DEF becomeLeader, clientVars
<1>8. ASSUME NEW r \in Task, replies(r) PROVE task'[t].phase = "done"
  <2>1. task' = [task EXCEPT ![r] = Finished(@)]
    BY <1>8 DEF replies, FinishJoin, FinishStroke
  <2> QED
    BY <1>0, <2>1, FinishedType
<1>9. ASSUME NEW r \in Task, MoveOn(r), task[r].phase \in {"call", "answered"}
      PROVE  task'[t].phase = "done" \/ Rank(task'[t]) < Rank(task[t])
  <2>1. r = t
    BY <1>0, <1>9 DEF MoveOn, FinishJoin
  <2> QED
    BY <1>9, <2>1, MoveOnFalls
<1>10. ASSUME NEW r \in Task, throws(r)
      PROVE  task'[t].phase = "done" \/ Rank(task'[t]) < Rank(task[t])
  BY <1>9, <1>10 DEF throws
<1>11. ASSUME NEW r \in Task, NEW hint \in Hint \cup {Nil}, refused(r, hint)
      PROVE  task'[t].phase = "done" \/ Rank(task'[t]) < Rank(task[t])
  <2>1. CASE MoveOn(r)
    BY <1>9, <1>11, <2>1 DEF refused
  <2>2. CASE hint /= Nil /\ ~task[r].hinted /\ task' = [task EXCEPT ![r] = FollowHint(@, hint)]
    <3> DEFINE k == FollowHint(task[t], hint)
    <3>1. r = t /\ task'[t] = k /\ task[t].phase = "call" /\ hint \in Address
      BY <1>0, <1>11, <2>2 DEF refused, Address
    <3>2. /\ k \in Handler /\ k.phase = "call" /\ k.attempt = task[t].attempt
          /\ k.rest = task[t].rest /\ k.hinted = TRUE
      BY <1>0, <3>1, FollowHintType
    <3> HIDE DEF k
    <3>3. ThisRound(k) < ThisRound(task[t])
      BY <1>0, <2>2, <3>1, <3>2, ThisRoundIs
    <3> QED
      BY <1>0, <3>1, <3>2, <3>3, RankFalls
  <2> QED
    BY <1>11, <2>1, <2>2 DEF refused
<1>12. ASSUME NEW s \in Stroke, retries(s) PROVE Rank(task'[t]) < Rank(task[t])
  <2> DEFINE k == Round(task[t])
  <2>1. s = t /\ task'[t] = k /\ task[t].phase = "delay"
    BY <1>0, <1>12 DEF retries
  <2>2. /\ k \in Handler /\ k.phase = "call" /\ k.attempt = task[t].attempt
        /\ Len(k.rest) <= NumPeers /\ k.hinted = FALSE
    BY <1>0, RoundType
  <2> HIDE DEF k
  <2>3. Len(k.rest) \in Nat
    BY <2>2 DEF Handler
  <2>4. ThisRound(k) < ThisRound(task[t])
    BY <1>0, <2>1, <2>2, <2>3, ThisRoundIs
  <2> QED
    BY <1>0, <2>1, <2>2, <2>4, RankFalls
<1>13. ASSUME NEW s \in Stroke, commitsLate(s) PROVE FALSE
  BY <1>13 DEF commitsLate, clientVars
<1> QED
  BY <1>1, <1>2, <1>3, <1>8, <1>10, <1>11, <1>12, <1>13, <1>5, <1>6, <1>7 DEF Next

\* Every step of a handler leaves it less to do until it is done, whatever the
\* peers answer, wherever they redirect it and however the other handlers change
\* currentLeader meanwhile: submitStroke and getStrokes cannot go round forever.
THEOREM HandlersProgress == Spec => RoundsEnd
<1>1. ASSUME TypeOK, Next
      PROVE  \A t \in Task : task[t].phase \notin {"idle", "done"} /\ task'[t] /= task[t]
               => task'[t].phase = "done" \/ Rank(task'[t]) < Rank(task[t])
  BY <1>1, RankStep
<1>2. Spec => []TypeOK
  BY GatewayTypeCorrect
<1> QED
  BY <1>1, <1>2, PTL DEF Spec, RoundsEnd
=============================================================================
