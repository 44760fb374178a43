----------------------------- MODULE MCStorage ------------------------------
(* A store with room for two bytes and values of one and two. *)
EXTENDS Storage, TLC

CONSTANTS small, large

MCSize == (small :> 1) @@ (large :> 2)

MCSymmetry == Permutations(Id) \cup Permutations(Key)
=============================================================================
