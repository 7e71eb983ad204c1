------------------------------- MODULE MCProc -------------------------------
(***************************************************************************)
(* Small instances of Proc for TLC.                                        *)
(***************************************************************************)
EXTENDS ProcInv, TLC

CpuSymmetry == Permutations(CPU)

=============================================================================
