----------------------------- MODULE MCOpenFiles -----------------------------
(* OpenFiles with two threads and two iterators. *)
EXTENDS OpenFiles, TLC

(* A block that fits twice and one that is larger than the cache. *)
MCBlockSize == (0 :> 1) @@ (1 :> 3)

Perms == Permutations(Threads) \cup Permutations(Readers)
=============================================================================
