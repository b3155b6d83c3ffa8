------------------------------ MODULE MCAmlNN ------------------------------
(***************************************************************************)
(* For model checking AmlNN with several models: no model is treated       *)
(* differently from another, so states that differ by a permutation of the *)
(* models only need not be told apart.                                     *)
(***************************************************************************)
EXTENDS AmlNN, TLC

ModelSymmetry == Permutations(Models)
=============================================================================
