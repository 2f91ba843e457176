-------------------------- MODULE MCTableRegistry --------------------------
(* Finite instances of TableRegistry. *)
EXTENDS TableRegistry

ColumnChanges == {-1, 1}
NoMigration == {}
ThreePages == <<3, 1, 2>>

=============================================================================
