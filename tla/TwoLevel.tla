------------------------------ MODULE TwoLevel ------------------------------
(***************************************************************************)
(* TwoLevelIterator (src/src/two_level_iter/two_level_iter.rs), which both *)
(* TableIterator (an index block over data blocks) and LevelIterator (the  *)
(* files of a level over their tables) are: an index iterator and, for the *)
(* index entry it is on, a data iterator that is loaded when it is needed  *)
(* and kept while the index entry stays the same.                          *)
(*                                                                         *)
(* A table is a sequence of blocks, a block a sequence of entries in key   *)
(* order, neither empty: flush() writes no empty block.  An iterator is    *)
(* [index, handle, data, err]: the block the index iterator is on, the     *)
(* block data_iter was made from, its place in it, and whether status is   *)
(* an error; 0 stands for an iterator that is not valid, or not there.     *)
(***************************************************************************)
EXTENDS Integers, Sequences

NewTwoLevel == [index |-> 0, handle |-> 0, data |-> 0, err |-> FALSE]

\* Mutant: a block that cannot be loaded is passed over.
InitDataBlockSilent(t, broken) ==
    IF t.index = 0 \/ (broken /\ t.handle # t.index) THEN [t EXCEPT !.handle = 0, !.data = 0]
    ELSE IF t.handle = t.index THEN t
    ELSE [t EXCEPT !.handle = t.index, !.data = 0]

\* init_data_block: `broken' says that block_function fails, which drops data_iter.
InitDataBlock(t, broken) ==
    IF t.index = 0 THEN [t EXCEPT !.handle = 0, !.data = 0]
    ELSE IF t.handle = t.index THEN t
    ELSE IF broken THEN [t EXCEPT !.handle = 0, !.data = 0, !.err = TRUE]
    ELSE [t EXCEPT !.handle = t.index, !.data = 0]

\* The data iterator, if there is one, is moved to place p.
Place(t, p) == IF t.handle = 0 THEN t ELSE [t EXCEPT !.data = p]
AtFirst(t) == Place(t, 1)
AtLast(t, blocks) == Place(t, IF t.handle = 0 THEN 0 ELSE Len(blocks[t.handle]))

IndexNext(t, blocks) == [t EXCEPT !.index = IF @ = Len(blocks) THEN 0 ELSE @ + 1]
IndexPrev(t) == [t EXCEPT !.index = @ - 1]

\* skip_empty_data_blocks_forward and _backward.  One round is enough: the block it
\* moves to is not empty, cannot be loaded (an error ends the loop), or is not there.
SkipForward(t, blocks, broken) ==
    IF t.data # 0 \/ t.err THEN t
    ELSE IF t.index = 0 THEN [t EXCEPT !.handle = 0]
    ELSE AtFirst(InitDataBlock(IndexNext(t, blocks), broken))

SkipBackward(t, blocks, broken) ==
    IF t.data # 0 \/ t.err THEN t
    ELSE IF t.index = 0 THEN [t EXCEPT !.handle = 0]
    ELSE AtLast(InitDataBlock(IndexPrev(t), broken), blocks)

TwoLevelFirst(t, blocks, broken) ==
    LET u == [t EXCEPT !.index = IF blocks = <<>> THEN 0 ELSE 1]
    IN SkipForward(AtFirst(InitDataBlock(u, broken)), blocks, broken)

TwoLevelLast(t, blocks, broken) ==
    LET u == [t EXCEPT !.index = Len(blocks)]
    IN SkipBackward(AtLast(InitDataBlock(u, broken), blocks), blocks, broken)

\* seek(): `reaching' are the blocks whose index key is at or after the target,
\* `reached' the entries that are.  The first of each is the binary searches' answer.
FirstSuch(S) == IF S = {} THEN 0 ELSE CHOOSE i \in S : \A j \in S : i <= j

TwoLevelSeek(t, blocks, broken, reaching, reached) ==
    LET u == InitDataBlock([t EXCEPT !.index = FirstSuch(reaching)], broken)
        p == IF u.handle = 0 THEN 0
             ELSE FirstSuch({i \in DOMAIN blocks[u.handle] : blocks[u.handle][i] \in reached})
    IN SkipForward(Place(u, p), blocks, broken)

TwoLevelNext(t, blocks, broken) ==
    SkipForward([t EXCEPT !.data = IF @ = Len(blocks[t.handle]) THEN 0 ELSE @ + 1],
                blocks, broken)

TwoLevelPrev(t, blocks, broken) == SkipBackward([t EXCEPT !.data = @ - 1], blocks, broken)

\* The entry the iterator is on, 0 when valid() is false.
EntryOf(t, blocks) == IF t.data = 0 THEN 0 ELSE blocks[t.handle][t.data]

=============================================================================
