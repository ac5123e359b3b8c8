------------------------- MODULE MCOwnershipRepair -------------------------
(* Small instances of OwnershipRepair for TLC.                             *)
EXTENDS OwnershipRepair, TLC

CONSTANTS table, serial, counter, a1, a2

\* A table with a serial column, and a sequence of its own.
SerialColumn == serial :> table

\* The table's row comes before its sequence's.
TableFirst == {<<table, serial, counter>>}

\* CREATE TABLE makes the sequence of a serial column before the table.
SequenceFirst == {<<serial, table>>}

=============================================================================
