--------------------------- MODULE MCCarrayField ----------------------------
(* Values that overwrite each other in part, or not at all. *)
EXTENDS CarrayField, TLC

CONSTANTS x, y, z

MCValues == {<<>>, <<x>>, <<y, z>>}

\* bound: what junk makes longer is not made longer again
Short ==
  /\ \A f \in Fields : field[f].bufferSize <= 3
  /\ \A i \in 1..Len(data) : Len(data[i]) <= 2

Symmetry == Permutations(Fields)
=============================================================================
