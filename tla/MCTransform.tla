----------------------------- MODULE MCTransform -----------------------------
(* Three nodes and inputs of up to four records. *)
EXTENDS Transform

CONSTANTS n1, n2, n3

NodesVal == {n1, n2, n3}
==============================================================================
