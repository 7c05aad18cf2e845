---------------------------- MODULE MCExperiments ----------------------------
(* Instances of Experiments for TLC. *)
EXTENDS Experiments, TLC

CONSTANTS e1, e2, saves, hand

\* Two points of each experiment; the order of one of them may not fit.
Declares == 1 :> e1 @@ 2 :> e1 @@ 3 :> e2 @@ 4 :> e2

EverySaves == [e \in Experiments |-> saves]
AllButOnePair == (Experiments \X Keys) \ {<<e2, 2>>}
OnePoint == {<<hand, 1>>}
FirstNeedsTwo == [e \in Experiments |-> IF e = e1 THEN 2 ELSE 1]

Symmetry == Permutations(Orders \ ByHand)
=============================================================================
