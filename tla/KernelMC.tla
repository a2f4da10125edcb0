------------------------------ MODULE KernelMC ------------------------------
(***************************************************************************)
(* Instances of Kernel for TLC.                                            *)
(***************************************************************************)
EXTENDS Kernel, TLC

\* The addresses other than those of first_process and idle are alike.
Symmetry == Permutations(Addr \ {BOOT, IDLE})
=============================================================================
