------------------------------- MODULE Table -------------------------------
(***************************************************************************)
(* A table file: TableFileBuilder and the point lookup of Table            *)
(* (table/table.rs), over prefix-compressed blocks with restart points and *)
(* their iterator (block/block.rs), the separators of the index            *)
(* (format/dbformat.rs, comparator/comparator.rs) and the filter block     *)
(* (filter_block/filter_block.rs).                                         *)
(*                                                                         *)
(* An internal key is a sequence of bytes, the user key and one byte more  *)
(* for the tag.  Values are left out: whether an add fills its block, and  *)
(* how many bytes a block takes in the file once it is compressed, is free.*)
(* Places in a block are counted in entries.                               *)
(***************************************************************************)
EXTENDS Integers, Sequences, SequencesExt, FiniteSetsExt

CONSTANTS UserKeys,         \* user keys, sequences over 0 .. MaxByte
          Versions,         \* the sequence numbers of entries, and of lookups
          MaxByte,          \* 0xff in the code
          MaxSequence,      \* MAX_SEQUENCE_NUMBER
          RestartInterval,  \* Options::block_restart_interval
          FilterBase,       \* FILTER_BASE, 2048 in the code
          BlockBytes,       \* what a block may take in the file
          MaxEntries        \* bound: entries of a table

ASSUME TableAssumption ==
    /\ Versions \subseteq Nat /\ MaxByte \in Nat /\ MaxEntries \in Nat
    /\ UserKeys \subseteq Seq(0 .. MaxByte)
    /\ MaxSequence \in Nat /\ \A s \in Versions : s < MaxSequence
    /\ RestartInterval \in Nat \ {0} /\ FilterBase \in Nat \ {0}
    /\ BlockBytes \subseteq Nat \ {0}

VARIABLES added,    \* history: the keys added, in order
          table,    \* the builder; once it is closed, the file
          closed,   \* finish() has been called
          it,       \* a BlockIter over data block it.block of the file
          at        \* history: the entry it should be on, 0 for none

vars == <<added, table, closed, it, at>>

----------------------------------------------------------------------------
(* Comparators *)

SharedLen(a, b) ==
    Max({n \in 0 .. Min({Len(a), Len(b)}) : SubSeq(a, 1, n) = SubSeq(b, 1, n)})

UserLess(a, b) ==
    LET i == SharedLen(a, b) + 1
    IN  i <= Len(b) /\ (i <= Len(a) => a[i] < b[i])

(* User key ascending, tag descending. *)
ILess(a, b) ==
    \/ UserLess(Front(a), Front(b))
    \/ Front(a) = Front(b) /\ Last(a) > Last(b)

(* A shorter user key after u stands for every version of it. *)
Shortened(key, u) ==
    IF Len(u) < Len(key) - 1 /\ UserLess(Front(key), u) THEN Append(u, MaxSequence) ELSE key

Bumped(u, i) == Append(SubSeq(u, 1, i - 1), u[i] + 1)

FindShortestSeparator(start, limit) ==
    LET us == Front(start)
        ul == Front(limit)
        i == SharedLen(us, ul) + 1
    IN  IF /\ i <= Len(us) /\ i <= Len(ul)
           /\ us[i] < MaxByte /\ us[i] + 1 < ul[i]
        THEN Shortened(start, Bumped(us, i)) ELSE start

FindShortSuccessor(key) ==
    LET us == Front(key)
        low == {i \in 1 .. Len(us) : us[i] # MaxByte}
    IN  IF low = {} THEN key ELSE Shortened(key, Bumped(us, Min(low)))

----------------------------------------------------------------------------
(* BlockBuilder: an entry is what it shares with the key before it and the *)
(* rest of its key.                                                        *)

EmptyBlock == [entries |-> <<>>, restarts |-> <<1>>, counter |-> 0, last_key |-> <<>>]

(* Mutant: a restart point still shares a prefix. *)
BlockAddKeepsPrefix(b, key, interval) ==
    LET shared == SharedLen(b.last_key, key)
        restart == b.counter >= interval
    IN  [entries |-> Append(b.entries, [shared |-> shared,
                                        delta |-> SubSeq(key, shared + 1, Len(key))]),
         restarts |-> IF restart THEN Append(b.restarts, Len(b.entries) + 1) ELSE b.restarts,
         counter |-> IF restart THEN 1 ELSE b.counter + 1,
         last_key |-> key]

BlockAdd(b, key, interval) ==
    LET restart == b.counter >= interval
        shared == IF restart THEN 0 ELSE SharedLen(b.last_key, key)
    IN  [entries |-> Append(b.entries, [shared |-> shared,
                                        delta |-> SubSeq(key, shared + 1, Len(key))]),
         restarts |-> IF restart THEN Append(b.restarts, Len(b.entries) + 1) ELSE b.restarts,
         counter |-> IF restart THEN 1 ELSE b.counter + 1,
         last_key |-> key]

----------------------------------------------------------------------------
(* BlockIter over a block b: current_offset, next_entry_offset,            *)
(* restart_index, the key put together so far, valid, and whether status   *)
(* is an error.                                                            *)

NewIter(b) ==
    [cur |-> Len(b.entries) + 1, next |-> Len(b.entries) + 1, restart |-> Len(b.restarts) + 1,
     key |-> <<>>, valid |-> FALSE, err |-> FALSE]

PastEnd(b, i) ==
    [i EXCEPT !.cur = Len(b.entries) + 1, !.next = Len(b.entries) + 1, !.valid = FALSE]

ParseNextEntry(b, i) ==
    IF i.next > Len(b.entries) THEN PastEnd(b, i)
    ELSE LET e == b.entries[i.next]
         IN  IF e.shared > Len(i.key) THEN [PastEnd(b, i) EXCEPT !.err = TRUE]
             ELSE [i EXCEPT !.cur = i.next, !.next = i.next + 1, !.valid = TRUE,
                            !.key = SubSeq(i.key, 1, e.shared) \o e.delta]

SeekToRestartPoint(b, i, r) ==
    [i EXCEPT !.cur = b.restarts[r], !.next = b.restarts[r], !.restart = r,
              !.key = <<>>, !.valid = FALSE]

(* The first n calls of parse_next_entry from i. *)
Parses(b, i) ==
    LET after[n \in 0 .. Len(b.entries) + 1] ==
            IF n = 0 THEN i ELSE ParseNextEntry(b, after[n - 1])
    IN  after

(* Parse until one of those in stops, or the end. *)
ParseUntil(after, stops) == after[Min({n \in DOMAIN after \ {0} : ~after[n].valid} \cup stops)]

SeekToFirst(b, i) == ParseNextEntry(b, SeekToRestartPoint(b, i, 1))

SeekToLast(b, i) ==
    LET after == Parses(b, SeekToRestartPoint(b, i, Len(b.restarts)))
    IN  ParseUntil(after, {n \in DOMAIN after \ {0} : after[n].next > Len(b.entries)})

(* The binary search over restart points, whose keys are stored whole, and *)
(* the scan from the one it ends at.                                       *)
Seek(b, i, target) ==
    LET search[left \in 1 .. Len(b.restarts), right \in 0 .. Len(b.restarts)] ==
            LET mid == left + (right - left + 1) \div 2
            IN  IF left >= right THEN left
                ELSE IF ILess(b.entries[b.restarts[mid]].delta, target) THEN search[mid, right]
                ELSE search[left, mid - 1]
        after == Parses(b, SeekToRestartPoint(b, i, search[1, Len(b.restarts)]))
    IN  ParseUntil(after, {n \in DOMAIN after \ {0} : ~ILess(after[n].key, target)})

BlockNext(b, i) ==
    LET j == ParseNextEntry(b, i)
    IN  [j EXCEPT !.restart =
            Max({@} \cup {r \in @ .. Len(b.restarts) : b.restarts[r] <= j.cur})]

(* Back to a restart point before the entry, then forward to the one       *)
(* before it.                                                              *)
BlockPrev(b, i) ==
    LET before == {r \in 1 .. i.restart : b.restarts[r] < i.cur}
        after == Parses(b, SeekToRestartPoint(b, i, Max(before)))
    IN  IF before = {} THEN [PastEnd(b, i) EXCEPT !.restart = 1]
        ELSE ParseUntil(after, {n \in DOMAIN after \ {0} : after[n].next >= i.cur})

----------------------------------------------------------------------------
(* FilterBlockBuilder, FilterBlockReader.  A filter is the set of user     *)
(* keys it was made of.                                                    *)

(* Mutant: the filter of the range the offset is in is closed too. *)
StartBlockEarly(t) ==
    LET i == t.offset \div FilterBase + 1
        n == Len(t.filters)
    IN  IF i <= n THEN t
        ELSE [t EXCEPT !.filters = [j \in 1 .. i |-> IF j <= n THEN @[j]
                                                     ELSE IF j = n + 1 THEN t.keys ELSE {}],
                       !.keys = {}]

(* generate_filter until there is one for each range before the offset. *)
StartBlock(t) ==
    LET i == t.offset \div FilterBase
        n == Len(t.filters)
    IN  IF i <= n THEN t
        ELSE [t EXCEPT !.filters = [j \in 1 .. i |-> IF j <= n THEN @[j]
                                                     ELSE IF j = n + 1 THEN t.keys ELSE {}],
                       !.keys = {}]

FinishFilter(t) ==
    IF t.keys = {} THEN t ELSE [t EXCEPT !.filters = Append(@, t.keys), !.keys = {}]

(* `policy' is what becomes of an absent key: the policy's key_may_match   *)
(* tells, or it lets the key pass, or no filter was loaded.                *)
KeyMayMatch(t, offset, user_key, policy) ==
    LET i == offset \div FilterBase + 1
    IN  policy # "none" /\ i <= Len(t.filters) =>
            t.filters[i] # {} /\ (user_key \in t.filters[i] \/ policy = "passes")

----------------------------------------------------------------------------
(* TableFileBuilder.  Entry n of the index is for data block n. *)

Init ==
    /\ added = <<>> /\ closed = FALSE /\ at = 0
    /\ table = [data |-> EmptyBlock, index |-> EmptyBlock, blocks |-> <<>>, last_key |-> <<>>,
                pending |-> FALSE, offset |-> 0, filters |-> <<>>, keys |-> {}]
    /\ it = [block |-> 0, i |-> NewIter(EmptyBlock)]

AddIndexEntry(t, key) ==
    IF t.pending THEN [t EXCEPT !.index = BlockAdd(@, key, 1), !.pending = FALSE] ELSE t

(* flush() and write_block(), n bytes. *)
Flush(t, n) ==
    StartBlock([t EXCEPT !.blocks = Append(@, [offset |-> t.offset, data |-> t.data]),
                         !.data = EmptyBlock, !.pending = TRUE, !.offset = @ + n])

AddEntry(key) ==
    /\ ~closed /\ Len(added) < MaxEntries
    /\ added # <<>> => ILess(Last(added), key)
    /\ added' = Append(added, key)
    /\ LET indexed == AddIndexEntry(table, FindShortestSeparator(table.last_key, key))
           t == [indexed EXCEPT !.keys = @ \cup {Front(key)}, !.last_key = key,
                                !.data = BlockAdd(@, key, RestartInterval)]
       IN  table' = t \/ \E n \in BlockBytes : table' = Flush(t, n)
    /\ UNCHANGED <<closed, it, at>>

Finish ==
    /\ ~closed
    /\ \E n \in BlockBytes :
          LET t == FinishFilter(IF table.data = EmptyBlock THEN table ELSE Flush(table, n))
          IN  table' = AddIndexEntry(t, FindShortSuccessor(t.last_key))
    /\ closed' = TRUE
    /\ UNCHANGED <<added, it, at>>

----------------------------------------------------------------------------
(* Reading *)

NotFound == 0

(* Table::internal_get_full: the tag of the entry it returns. *)
InternalGet(user_key, s, policy) ==
    LET target == Append(user_key, s)
        handle == Seek(table.index, NewIter(table.index), target)
        block == table.blocks[handle.cur]
        found == Seek(block.data, NewIter(block.data), target)
    IN  IF \/ ~handle.valid
           \/ ~KeyMayMatch(table, block.offset, user_key, policy)
           \/ ~found.valid
           \/ Front(found.key) # user_key
        THEN NotFound ELSE Last(found.key)

Keys(n) ==
    LET before == FoldFunction(LAMBDA b, sum : sum + Len(b.data.entries), 0,
                               SubSeq(table.blocks, 1, n - 1))
    IN  SubSeq(added, before + 1, before + Len(table.blocks[n].data.entries))

OpenBlock(n) ==
    /\ closed /\ it.block = 0
    /\ it' = [block |-> n, i |-> NewIter(table.blocks[n].data)]
    /\ UNCHANGED <<added, table, closed, at>>

(* The calls a TwoLevelIterator makes of its data iterator. *)
Moved(i, pos) ==
    /\ it' = [it EXCEPT !.i = i]
    /\ at' = pos
    /\ UNCHANGED <<added, table, closed>>

CursorCall ==
    /\ it.block # 0
    /\ LET b == table.blocks[it.block].data
           n == Len(b.entries)
           keys == Keys(it.block)
           From(target) == {j \in 1 .. n : ~ILess(keys[j], target)}
       IN  \/ Moved(SeekToFirst(b, it.i), 1)
           \/ Moved(SeekToLast(b, it.i), n)
           \/ \E u \in UserKeys, s \in Versions :
                 Moved(Seek(b, it.i, Append(u, s)),
                       IF From(Append(u, s)) = {} THEN 0 ELSE Min(From(Append(u, s))))
           \/ it.i.valid /\ Moved(BlockNext(b, it.i), IF at = n THEN 0 ELSE at + 1)
           \/ it.i.valid /\ Moved(BlockPrev(b, it.i), at - 1)

Next ==
    \/ \E u \in UserKeys, s \in Versions : AddEntry(Append(u, s))
    \/ Finish
    \/ \E n \in DOMAIN table.blocks : OpenBlock(n)
    \/ CursorCall

Spec == Init /\ [][Next]_vars

----------------------------------------------------------------------------
(* What a lookup at s should find: the newest version no newer than s. *)
Visible(user_key, s) ==
    LET S == {Last(added[i]) : i \in {j \in DOMAIN added :
                                        Front(added[j]) = user_key /\ Last(added[j]) <= s}}
    IN  IF S = {} THEN NotFound ELSE Max(S)

(* internal_get reads one block only, the one the index seek names, and    *)
(* only if the filter of the block's offset lets the key pass.  It is      *)
(* exact all the same, wherever blocks were cut, between versions of a key *)
(* included, whatever separators stand in the index, and however many      *)
(* filters a block skips or shares.                                        *)
LookupExact ==
    closed /\ it.block = 0 =>
        \A u \in UserKeys, s \in Versions, policy \in {"tells", "passes", "none"} :
            InternalGet(u, s, policy) = Visible(u, s)

(* After any calls a BlockIter is on the entry a cursor over the keys of   *)
(* the block would be on, with the whole key, though seek() and prev()     *)
(* leave restart_index behind and keys are put together from prefixes.     *)
CursorExact ==
    it.block # 0 =>
        /\ ~it.i.err
        /\ it.i.valid <=> at # 0
        /\ at # 0 => it.i.cur = at /\ it.i.key = Keys(it.block)[at]
=============================================================================
