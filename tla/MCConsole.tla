----------------------------- MODULE MCConsole ------------------------------
EXTENDS Console

(* Threads are interchangeable. *)
Symmetry == Permutations(Printer)
=============================================================================
