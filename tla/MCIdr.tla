-------------------------------- MODULE MCIdr --------------------------------
(***************************************************************************)
(* Four nodes, so that a node in between two siblings can be released,     *)
(* and two processes.                                                      *)
(***************************************************************************)
EXTENDS Idr, TLC

Symmetry == Permutations(Nodes) \cup Permutations(Procs)
=============================================================================
