---------------------------- MODULE MCWritePath ----------------------------
(***************************************************************************)
(* WritePath for TLC: small sets of calls, and the symmetry of the write   *)
(* calls that have the same options.                                       *)
(***************************************************************************)
EXTENDS WritePath, TLC

Symmetry == Permutations(SyncWriters) \cup Permutations(Writers \ SyncWriters)
=============================================================================
