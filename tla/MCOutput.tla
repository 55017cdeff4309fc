------------------------------- MODULE MCOutput -------------------------------
(***************************************************************************)
(* Printing on two cores, which are interchangeable.                       *)
(***************************************************************************)
EXTENDS Output, TLC

MCSymmetry == Permutations(Cores)
=============================================================================
