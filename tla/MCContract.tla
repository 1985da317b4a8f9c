----------------------------- MODULE MCContract -----------------------------
EXTENDS ContractInv, TLC

(* The addresses of the structs are interchangeable. *)
Symmetry == Permutations(Block)
=============================================================================
