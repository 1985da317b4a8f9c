------------------------------ MODULE MCSystem ------------------------------
EXTENDS System

CONSTANTS b1, b2, b3, b4

(* The addresses of the structs are interchangeable: one order stands for  *)
(* all of them.                                                            *)
MCInit == SysInit /\ kern.active = b1 /\ kern.heap = <<b2, b3, b4>>
MCSpec == MCInit /\ [][SysNext]_sysvars /\ SysFairness
=============================================================================
