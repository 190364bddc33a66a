------------------------------- MODULE Board -------------------------------
(***************************************************************************)
(* What a board shows, derived from its committed events                   *)
(* (raftNode.applyBoardEvent).  Undo and redo delete nothing: they are     *)
(* events of their own, appended like strokes, that name a stroke.         *)
(*                                                                         *)
(* A stroke is its id; the target of a stroke event is that id.            *)
(***************************************************************************)
EXTENDS Naturals, Sequences

Action == {"stroke", "undo_stroke", "redo_stroke"}

\* events: boardEvents, undone: undoneStrokeIds, visible: boardStrokes.
emptyBoard == [events |-> <<>>, undone |-> {}, visible |-> <<>>]

Has(seq, x) == \E k \in DOMAIN seq : seq[k] = x

\* seq.filter(y => y !== x)
Without(seq, x) ==
  LET kept[k \in 0..Len(seq)] ==
        IF k = 0 THEN <<>>
        ELSE IF seq[k] = x THEN kept[k - 1] ELSE Append(kept[k - 1], seq[k])
  IN  kept[Len(seq)]

Drawn(events, s) ==
  \E k \in DOMAIN events : events[k].action = "stroke" /\ events[k].target = s

\* Mutant: a stroke is shown although its undo came first.
applyBoardEvent_Blind(b, e) ==
  [events |-> Append(b.events, e),
   undone |-> {},
   visible |->
     CASE e.action = "undo_stroke" -> Without(b.visible, e.target)
       [] e.action = "redo_stroke" ->
            IF Has(b.visible, e.target) \/ ~Drawn(b.events, e.target) THEN b.visible
            ELSE Append(b.visible, e.target)
       [] OTHER -> Append(b.visible, e.target)]

applyBoardEvent(b, e) ==
  [events |-> Append(b.events, e),
   undone |-> CASE e.action = "undo_stroke" -> b.undone \cup {e.target}
                [] e.action = "redo_stroke" -> b.undone \ {e.target}
                [] OTHER -> b.undone,
   visible |->
     CASE e.action = "undo_stroke" -> Without(b.visible, e.target)
       [] e.action = "redo_stroke" ->
            IF Has(b.visible, e.target) \/ ~Drawn(b.events, e.target) THEN b.visible
            ELSE Append(b.visible, e.target)
       [] OTHER -> IF e.target \in b.undone THEN b.visible
                   ELSE Append(b.visible, e.target)]

\* What the events alone say: a stroke is on the board when it was drawn and the
\* last undo or redo of it, if there is one, is a redo.
OnBoard(events, s) ==
  LET Edits == {k \in DOMAIN events : events[k].target = s /\ events[k].action /= "stroke"}
  IN  /\ Drawn(events, s)
      /\ \A k \in Edits : events[k].action = "undo_stroke"
                            => \E l \in Edits : l > k
=============================================================================
