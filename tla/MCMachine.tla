----------------------------- MODULE MCMachine ------------------------------
EXTENDS Machine, Timer

(* The addresses of the structs are interchangeable: one order is enough. *)
CONSTANT b1
MCInit == MachineInit /\ kern.active = b1
MCSpec == MCInit /\ [][MachineNext]_mvars /\ MachineFairness
=============================================================================
