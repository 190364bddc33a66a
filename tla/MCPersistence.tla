--------------------------- MODULE MCPersistence ---------------------------
(* Persistence for TLC: the cluster commits an entry of term 1, then two of *)
(* term 2; a leader of term 1 may have proposed others for those.           *)
EXTENDS Persistence, TLC

MCChosen == <<1, 2, 2>>
Symmetry == Permutations(Candidate)
=============================================================================
