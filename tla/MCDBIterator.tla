---------------------------- MODULE MCDBIterator ----------------------------
(* DBIterator over a memtable and two tables of one or two entries a block. *)
EXTENDS DBIterator

MCKeys == 0 .. 1
MCTables == 2 .. 3
=============================================================================
