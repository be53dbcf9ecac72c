------------------------------ MODULE MCEngine ------------------------------
(* Values for model-checking Engine: Commands of one kind; symmetry, which   *)
(* no liveness run uses.                                                     *)
EXTENDS Engine, TLC

CONSTANT g1

MCGvkOf == [c \in Cmds |-> g1]

MCSymmetry == Permutations(Cmds) \cup Permutations(Workers)
=============================================================================
