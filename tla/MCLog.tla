------------------------------- MODULE MCLog --------------------------------
(***************************************************************************)
(* Small instances of Log for TLC.                                         *)
(***************************************************************************)
EXTENDS Log, TLC

LogSymmetry == Permutations(Thread) \cup Permutations(Block)

=============================================================================
