--------------------------- MODULE MCKvCheckpoint ---------------------------
(***************************************************************************)
(* Model-checking instance of KvCheckpoint.                                *)
(***************************************************************************)
EXTENDS KvCheckpoint, TLC

CONSTANTS c0, c1, c2

\* An injective stand-in for xxh3_64.
MCHash(c) == <<c>>

\* Contents other than the blank page are interchangeable.
Symmetry == Permutations({c1, c2})
=============================================================================
