---------------------------- MODULE MCIndexTree ----------------------------
(* Finite instances of IndexTree. *)
EXTENDS IndexTree

UniformSize == [k \in Keys |-> 1]

\* Every key takes more than half a node.
LongKeys == [k \in Keys |-> 3]

=============================================================================
