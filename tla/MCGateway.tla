----------------------------- MODULE MCGateway -----------------------------
(* Gateway for TLC: a user with two tabs and a user with one on a board, and *)
(* a user of another board, whom a join may name.                            *)
EXTENDS Gateway, TLC

CONSTANTS c1, c2, c3, u1, u2, u3, b1, b2

MCBoardOf == [u \in User |-> IF u = u3 THEN b2 ELSE b1]

MCUserOf == [c \in Conn |-> IF c = c3 THEN u2 ELSE u1]

\* The two tabs are alike.
TabSymmetry == Permutations({c1, c2})

\* One at a time: a redirection or a change of leader (with no closes), a join that
\* names another user (with one close), a failed read of a join.
FewAtOnce ==
  /\ spent.hints + spent.reads + spent.failovers + spent.misnamed <= 1
  /\ spent.hints + spent.failovers > 0 => spent.closes = 0
  /\ spent.misnamed > 0 => spent.closes <= 1
=============================================================================
