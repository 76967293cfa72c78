------------------------ MODULE MCSupervisorController ------------------------
(* Instantiates SupervisorController for TLC: the forced blocks are          *)
(* interchangeable, every reading of them is the same to the code.           *)
EXTENDS SupervisorController, TLC

Symmetry == Permutations(Forced)
=============================================================================
