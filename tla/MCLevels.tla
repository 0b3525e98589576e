------------------------------ MODULE MCLevels ------------------------------
(* Level trees small enough for TLC, with the keys in byte order. *)
EXTENDS Levels

(* BytewiseComparator. *)
ByteRank == [k \in Keys |-> k]

Setup(depth, mem_level, trigger, size, seqs, dels, snaps) ==
    [num_levels |-> depth, max_mem_level |-> mem_level, l0_trigger |-> trigger,
     output_size |-> size, max_seq |-> seqs, max_deletes |-> dels, max_snapshots |-> snaps]

(* Four levels, snapshots, compactions with one output; and level 0 with   *)
(* several files, compactions that cut their output after each entry.      *)
Databases == {Setup(4, 2, 1, 9, 3, 3, 2), Setup(3, 1, 2, 1, 4, 1, 0)}

(* A cut after each entry, and a snapshot to keep two entries of a key. *)
CutUnderSnapshot == {Setup(4, 2, 1, 1, 3, 3, 1)}
=============================================================================
