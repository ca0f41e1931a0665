------------------------------ MODULE MCAtomSim ------------------------------
(* A program for AtomSim: a loop that may leave to an EBREAK. *)
EXTENDS AtomSim

Program == 0 .. 2
Loops == [p \in Program |-> CASE p = 0 -> {1} [] p = 1 -> {0, 2} [] OTHER -> {0}]
=============================================================================
