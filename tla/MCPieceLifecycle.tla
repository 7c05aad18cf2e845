-------------------------- MODULE MCPieceLifecycle --------------------------
(* Instances of PieceLifecycle for TLC. *)
EXTENDS PieceLifecycle, TLC

CONSTANTS plain, drafty, light, dark

\* The drafty document uses a token that only the dark kit holds.
NeedsDark == {<<drafty, light>>}

\* One slide and two.
Uneven == [doc \in Docs |-> IF doc = plain THEN 1 ELSE 2]

Symmetry == Permutations(Pieces) \cup Permutations(Exports)
=============================================================================
