------------------------- MODULE MCJournaledMemory -------------------------
(***************************************************************************)
(* Model-checking instance of JournaledMemory: a record that overlaps      *)
(* itself when it is written at neighbouring slots.                        *)
(***************************************************************************)
EXTENDS JournaledMemory

MCRecords == {<<7, 7>>}
=============================================================================
