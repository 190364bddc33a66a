-------------------------- MODULE ReplicatedBoard --------------------------
(***************************************************************************)
(* What the cluster promises its clients, without logs, terms or leaders:  *)
(* there is one board, a sequence of strokes that only grows.  A replica   *)
(* shows a prefix of it that only grows.  A write is acknowledged only     *)
(* once its stroke is on the board, and so for good.                       *)
(***************************************************************************)
EXTENDS Sequences, SequencesExt

CONSTANTS Replica, Stroke

VARIABLES
  submitted,     \* strokes clients have asked for
  board,         \* the strokes that are there to stay
  shown,         \* what each replica shows
  acknowledged   \* strokes whose writers were told "success"

boardVars == <<submitted, board, shown, acknowledged>>

Init ==
  /\ submitted = {}
  /\ board = <<>>
  /\ shown = [i \in Replica |-> <<>>]
  /\ acknowledged = {}

Submit(s) ==
  /\ s \notin submitted
  /\ submitted' = submitted \cup {s}
  /\ UNCHANGED <<board, shown, acknowledged>>

\* A step may answer writers, those of strokes it puts on the board included.
Acknowledge ==
  /\ acknowledged \subseteq acknowledged'
  /\ acknowledged' \subseteq ToSet(board')

\* A replica shows more of the board, or more than any has shown so far.
Show(i) ==
  /\ IsStrictPrefix(shown[i], shown'[i])
  /\ shown' = [shown EXCEPT ![i] = shown'[i]]
  /\ \/ IsPrefix(shown'[i], board) /\ UNCHANGED board
     \/ /\ IsStrictPrefix(board, shown'[i])
        /\ ToSet(shown'[i]) \subseteq submitted
        /\ board' = shown'[i]
  /\ Acknowledge
  /\ UNCHANGED submitted

Answer == Acknowledge /\ UNCHANGED <<submitted, board, shown>>

Next == (\E s \in Stroke : Submit(s)) \/ (\E i \in Replica : Show(i)) \/ Answer

Spec == Init /\ [][Next]_boardVars
=============================================================================
