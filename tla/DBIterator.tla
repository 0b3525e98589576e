----------------------------- MODULE DBIterator -----------------------------
(***************************************************************************)
(* The iterator a user of the store holds (src/src/db_iter/db_iter.rs): a  *)
(* DBIter, which folds the versions of a user key into the one its         *)
(* snapshot sees, over a MergingIterator                                   *)
(* (src/src/merging_iter/merging_iter.rs), which merges the memtables and  *)
(* the tables.  Both can turn round at any entry, and a writer inserts     *)
(* into the memtable child between any two steps of a call.                *)
(*                                                                         *)
(* An entry is named by its sequence number.  Child 1 is the active        *)
(* memtable, whose cursor does what SkipList shows; the others are         *)
(* TwoLevel iterators over tables, whose blocks may fail to load.  An      *)
(* entry can be in two tables: a crash between the two MANIFEST edits of   *)
(* an open replays a log twice.                                            *)
(***************************************************************************)
EXTENDS TwoLevel, FiniteSets, SequencesExt

CONSTANTS Keys,         \* user keys; 0 is the empty key, and a cleared saved_key
          Tables,       \* the child iterators other than 1: 2 .. n
          BlockSizes,   \* how many entries a block may hold
          Written,      \* entries written before the iterator is made
          MaxSeq,       \* bound: entries in all
          Breakable     \* the tables whose reads may fail

ASSUME IterConstants ==
    /\ Keys \subseteq Nat /\ 0 \in Keys
    /\ Tables \subseteq Nat \ {0, 1} /\ IsFiniteSet(Tables) /\ BlockSizes \subseteq Nat \ {0}
    /\ Written \in Nat /\ MaxSeq \in Nat /\ Written <= MaxSeq /\ Breakable \subseteq Tables

VARIABLES
    log,        \* entry -> [key, del]: its user key, and whether it is a deletion
    mem,        \* the entries in the memtable
    tables,     \* table -> [blocks, tight]: its blocks, and whether its index keys
                \* are the last keys of the blocks, or as large as they may be
    broken,     \* the tables that cannot be read just now
    sequence,   \* DBIter.sequence, the snapshot
    m,          \* the MergingIterator: [pos, current, dir]
    it,         \* the DBIter: [dir, valid, saved_key, saved_value] and the
                \* locals of its loops: skipping, and whether value_type is Deletion
    pc,         \* which loop of a call runs, "idle" between calls
    call,       \* the call that runs
    seen        \* what valid()/key()/value() answered after the last call

store == <<log, mem, tables, broken, sequence>>
vars == <<store, m, it, pc, call, seen>>

Children == {1} \cup Tables
Entries == 1 .. Len(log)
Key(e) == log[e].key

\* InternalKeyComparator: user key ascending, sequence number descending.
Precedes(d, e) == Key(d) < Key(e) \/ (Key(d) = Key(e) /\ d > e)

(***************************************************************************)
(* The child iterators.  The memtable's is the entry it is on, 0 when it   *)
(* is not valid.                                                           *)
(***************************************************************************)
FirstOf(S) == IF S = {} THEN 0 ELSE CHOOSE e \in S : \A d \in S \ {e} : Precedes(e, d)
LastOf(S) == IF S = {} THEN 0 ELSE CHOOSE e \in S : \A d \in S \ {e} : Precedes(d, e)

AtOrAfter(e, k, s) == Key(e) > k \/ (Key(e) = k /\ e <= s)

\* Whether the index key of block b is at or after <<k, s>>.  find_shortest_separator
\* and find_short_successor may put any user key between the block's last and the next
\* block's first in its place.
IndexReaches(table, b, k, s) ==
    LET bs == table.blocks
    IN \/ AtOrAfter(Last(bs[b]), k, s)
       \/ ~table.tight /\ (b < Len(bs) => k < Key(bs[b + 1][1]))

ChildFirst(c, p) ==
    IF c = 1 THEN FirstOf(mem) ELSE TwoLevelFirst(p, tables[c].blocks, c \in broken)
ChildLast(c, p) ==
    IF c = 1 THEN LastOf(mem) ELSE TwoLevelLast(p, tables[c].blocks, c \in broken)
ChildSeek(c, p, k, s) ==
    IF c = 1 THEN FirstOf({e \in mem : AtOrAfter(e, k, s)})
    ELSE LET bs == tables[c].blocks
         IN TwoLevelSeek(p, bs, c \in broken,
                         {b \in DOMAIN bs : IndexReaches(tables[c], b, k, s)},
                         {e \in UNION {Range(bs[b]) : b \in DOMAIN bs} : AtOrAfter(e, k, s)})
ChildNext(c, p) ==
    IF c = 1 THEN FirstOf({d \in mem : Precedes(p, d)})
    ELSE TwoLevelNext(p, tables[c].blocks, c \in broken)
ChildPrev(c, p) ==
    IF c = 1 THEN LastOf({d \in mem : Precedes(d, p)})
    ELSE TwoLevelPrev(p, tables[c].blocks, c \in broken)

\* The entry a child is on.
On(pos, c) == IF c = 1 THEN pos[1] ELSE EntryOf(pos[c], tables[c].blocks)

(***************************************************************************)
(* MergingIterator.  On equal keys the first child wins in both searches.  *)
(***************************************************************************)
Valid(pos) == {c \in Children : On(pos, c) # 0}
Lowest(S) == IF S = {} THEN 0 ELSE CHOOSE c \in S : \A d \in S : c <= d

FindSmallest(pos) ==
    Lowest({c \in Valid(pos) : \A d \in Valid(pos) : ~Precedes(On(pos, d), On(pos, c))})
FindLargest(pos) ==
    Lowest({c \in Valid(pos) : \A d \in Valid(pos) : ~Precedes(On(pos, c), On(pos, d))})

GoForward(pos) == [pos |-> pos, current |-> FindSmallest(pos), dir |-> "forward"]
GoReverse(pos) == [pos |-> pos, current |-> FindLargest(pos), dir |-> "reverse"]

MergeValid(i) == i.current # 0 /\ On(i.pos, i.current) # 0
Cur(i) == On(i.pos, i.current)

MergeFirst(i) == GoForward([c \in Children |-> ChildFirst(c, i.pos[c])])
MergeLast(i) == GoReverse([c \in Children |-> ChildLast(c, i.pos[c])])
MergeSeek(i, k, s) == GoForward([c \in Children |-> ChildSeek(c, i.pos[c], k, s)])

\* What next() and prev() do first after the other direction: every other child
\* seeks the current key.
SeekOthers(i) ==
    LET e == Cur(i)
    IN [i EXCEPT !.pos = [c \in Children |->
            IF c = i.current THEN @[c] ELSE ChildSeek(c, @[c], Key(e), e)]]

\* next(): after a reverse step the others are moved past the current key, a child
\* that holds the same key included.
MergeNext(i) ==
    LET others == SeekOthers(i).pos
        past == IF i.dir = "forward" THEN i.pos
                ELSE [c \in Children |->
                        IF c # i.current /\ On(others, c) = Cur(i)
                          THEN ChildNext(c, others[c]) ELSE others[c]]
    IN GoForward([past EXCEPT ![i.current] = ChildNext(i.current, @)])

\* prev(), from where SeekOthers has left the other children after a forward step:
\* a writer can insert between a child's seek() and its prev().
MergePrev(i) ==
    LET before == IF i.dir = "reverse" THEN i.pos
                  ELSE [c \in Children |->
                          IF c = i.current THEN i.pos[c]
                          ELSE IF On(i.pos, c) # 0 THEN ChildPrev(c, i.pos[c])
                          ELSE ChildLast(c, i.pos[c])]
    IN GoReverse([before EXCEPT ![i.current] = ChildPrev(i.current, @)])

\* status(): any child's error.
Failed(i) == \E c \in Tables : i.pos[c].err

(***************************************************************************)
(* DBIter.                                                                 *)
(***************************************************************************)
End == <<>>

\* valid(), key() and value(): a reverse iterator answers from its saved entry.
Shown(i, t) ==
    IF ~t.valid THEN End
    ELSE IF t.dir = "forward" THEN <<Key(Cur(i)), Cur(i)>>
    ELSE <<t.saved_key, t.saved_value>>

\* A call goes on in loop p, or returns; the locals of its loops are dropped.
Enter(p, i, t) == pc' = p /\ m' = i /\ it' = t /\ UNCHANGED <<store, seen>>
Finish(i, t) ==
    /\ pc' = "idle" /\ call' = <<>>
    /\ m' = i
    /\ it' = [t EXCEPT !.skipping = FALSE, !.deleted = TRUE]
    /\ seen' = Shown(i, t)
    /\ UNCHANGED store

\* Mutant: iter.valid() is not asked.
AheadUnchecked(i, t) == Enter("forward", i, t)

\* The end of seek_to_first(), seek() and a next() that turned: go on to
\* find_next_user_entry, or return, when there is nothing ahead.
Ahead(i, t) ==
    IF MergeValid(i) THEN Enter("forward", i, t)
    ELSE Enter("nothing", i, [t EXCEPT !.valid = FALSE])

NothingAhead == pc = "nothing" /\ Finish(m, it)

SeekToFirst ==
    /\ pc = "idle"
    /\ call' = <<"first">>
    /\ Ahead(MergeFirst(m),
             [it EXCEPT !.dir = "forward", !.saved_value = 0, !.skipping = FALSE])

\* seek(): the target, at the snapshot's sequence, is left in saved_key.
Seek(t) ==
    /\ pc = "idle"
    /\ call' = <<"seek", t>>
    /\ Ahead(MergeSeek(m, t, sequence),
             [it EXCEPT !.dir = "forward", !.saved_value = 0, !.saved_key = t,
                        !.skipping = FALSE])

SeekToLast ==
    /\ pc = "idle"
    /\ call' = <<"last">>
    /\ Enter("reverse", MergeLast(m),
             [it EXCEPT !.dir = "reverse", !.saved_value = 0, !.deleted = TRUE])

\* next() going forward: skip the current key.
StepOn ==
    /\ pc = "idle" /\ it.valid /\ it.dir = "forward"
    /\ call' = <<"next">>
    /\ Enter("forward", m, [it EXCEPT !.saved_key = Key(Cur(m)), !.skipping = TRUE])

\* next() after a reverse step: the inner iterator is before the entries of
\* saved_key, or before everything.
TurnForward ==
    /\ pc = "idle" /\ it.valid /\ it.dir = "reverse"
    /\ call' = <<"next">>
    /\ Ahead(IF MergeValid(m) THEN MergeNext(m) ELSE MergeFirst(m),
             [it EXCEPT !.dir = "forward", !.skipping = TRUE])

\* prev() going backward.
StepBack ==
    /\ pc = "idle" /\ it.valid /\ it.dir = "reverse"
    /\ call' = <<"prev">>
    /\ Enter("reverse", m, [it EXCEPT !.deleted = TRUE])

\* prev() after a forward step, and its loop: back until the user key changes.
TurnBack ==
    /\ pc = "idle" /\ it.valid /\ it.dir = "forward"
    /\ call' = <<"prev">>
    /\ Enter("turn", SeekOthers(m), [it EXCEPT !.saved_key = Key(Cur(m))])

BackOverKey ==
    /\ pc = "turn"
    /\ LET i == MergePrev(m)
       IN IF ~MergeValid(i)
            THEN Finish(i, [it EXCEPT !.valid = FALSE, !.saved_key = 0,
                                            !.saved_value = 0])
          ELSE IF Key(Cur(i)) < it.saved_key
            THEN Enter("reverse", i, [it EXCEPT !.dir = "reverse", !.deleted = TRUE])
                 /\ UNCHANGED call
          ELSE Enter("turn", i, it) /\ UNCHANGED call

\* Mutant: the key just left is not skipped.
ShadowedBelow(e) == it.skipping /\ Key(e) < it.saved_key

\* One round of find_next_user_entry.
Shadowed(e) == it.skipping /\ Key(e) <= it.saved_key

FindNextUserEntry ==
    /\ pc = "forward"
    /\ LET e == Cur(m)
           visible == e <= sequence
           hide == [it EXCEPT !.saved_key = Key(e), !.skipping = TRUE]
           t == IF visible /\ log[e].del THEN hide ELSE it
           i == MergeNext(m)
       IN IF visible /\ ~log[e].del /\ ~Shadowed(e)
            THEN Finish(m, [it EXCEPT !.valid = TRUE, !.saved_key = 0])
          ELSE IF MergeValid(i) THEN Enter("forward", i, t) /\ UNCHANGED call
          ELSE Finish(i, [t EXCEPT !.valid = FALSE, !.saved_key = 0])

\* find_prev_user_entry: a round keeps the entry it is on, the newest visible one so
\* far of its user key, until an earlier user key shows; the last round leaves.
KeepEntry(e) ==
    IF e > sequence THEN it
    ELSE IF log[e].del
      THEN [it EXCEPT !.deleted = TRUE, !.saved_key = 0, !.saved_value = 0]
    ELSE [it EXCEPT !.deleted = FALSE, !.saved_key = Key(e), !.saved_value = e]

LeaveReverse(t) ==
    IF t.deleted THEN [t EXCEPT !.valid = FALSE, !.saved_key = 0, !.saved_value = 0,
                                !.dir = "forward"]
    ELSE [t EXCEPT !.valid = TRUE]

FindPrevUserEntry ==
    /\ pc = "reverse"
    /\ LET e == Cur(m)
           i == MergePrev(m)
       IN IF ~MergeValid(m)
               \/ (e <= sequence /\ ~it.deleted /\ Key(e) < it.saved_key)
            THEN Finish(m, LeaveReverse(it))
          ELSE IF MergeValid(i) THEN Enter("reverse", i, KeepEntry(e)) /\ UNCHANGED call
          ELSE Finish(i, LeaveReverse(KeepEntry(e)))

\* A writer's insert into the active memtable, at any moment.
MemTableAdd(k, d) ==
    /\ Len(log) < MaxSeq
    /\ log' = Append(log, [key |-> k, del |-> d])
    /\ mem' = mem \cup {Len(log) + 1}
    /\ UNCHANGED <<tables, broken, sequence, m, it, pc, call, seen>>

\* Reads of a table begin to fail, or work again.
BreakOrMend(c) ==
    /\ broken' = (broken \cup {c}) \ (broken \cap {c})
    /\ UNCHANGED <<log, mem, tables, sequence, m, it, pc, call, seen>>

-----------------------------------------------------------------------------

\* The children an entry can be in: the memtable, a table, or two tables.
Homes == {h \in SUBSET Children : Cardinality(h) = 1 \/ (Cardinality(h) = 2 /\ 1 \notin h)}

\* A newer entry of a key is at or above every copy of an older one.
NewerAbove(homes) ==
    \A d, e \in Entries : d < e /\ Key(d) = Key(e) =>
        \A c \in homes[d] : \E b \in homes[e] : b <= c

\* TableFileBuilder: the entries in order, n to a block.
Build(S, n) ==
    LET sorted == SetToSortSeq(S, Precedes)
    IN [b \in 1 .. (Cardinality(S) + n - 1) \div n |->
            SubSeq(sorted, (b - 1) * n + 1, IF b * n < Cardinality(S) THEN b * n ELSE Cardinality(S))]

Init ==
    /\ log \in [1 .. Written -> [key : Keys, del : BOOLEAN]]
    /\ \E homes \in {h \in [1 .. Written -> Homes] : NewerAbove(h)},
          n \in BlockSizes, tight \in BOOLEAN :
         /\ mem = {e \in Entries : 1 \in homes[e]}
         /\ tables = [c \in Tables |-> [blocks |-> Build({e \in Entries : c \in homes[e]}, n),
                                        tight |-> tight]]
    /\ broken = {}
    /\ sequence \in 0 .. Written
    /\ m = [pos |-> [c \in Children |-> IF c = 1 THEN 0 ELSE NewTwoLevel],
            current |-> 0, dir |-> "forward"]
    /\ it = [dir |-> "forward", valid |-> FALSE, saved_key |-> 0, saved_value |-> 0,
             skipping |-> FALSE, deleted |-> TRUE]
    /\ pc = "idle" /\ call = <<>>
    /\ seen = End

InCall == NothingAhead \/ FindNextUserEntry \/ FindPrevUserEntry \/ BackOverKey

Next ==
    \/ SeekToFirst \/ SeekToLast \/ (\E t \in Keys : Seek(t))
    \/ StepOn \/ TurnForward \/ StepBack \/ TurnBack
    \/ InCall
    \/ \E k \in Keys, d \in BOOLEAN : MemTableAdd(k, d)
    \/ \E c \in Breakable : BreakOrMend(c)

Spec == Init /\ [][Next]_vars

-----------------------------------------------------------------------------

\* What the snapshot shows: the newest entry of each key at or below `sequence',
\* unless it is a deletion.
Visible ==
    {<<Key(e), e>> : e \in {e \in Entries :
        /\ e <= sequence /\ ~log[e].del
        /\ \A d \in Entries : d <= sequence /\ Key(d) = Key(e) => d <= e}}

\* Every call moves the iterator as a cursor over the snapshot's entries would move,
\* whatever was written since and whichever way the last call went, until status()
\* reports an error: what a failed read hides is never passed off as the truth.
Abstract == INSTANCE Cursor WITH Targets <- Keys, elems <- Visible,
                                 at <- seen
ImplementsCursor ==
    Abstract!Init /\ [][Failed(m)' \/ Abstract!Next]_<<Visible, seen, call>>

\* The assert!s of next(), prev() and find_next_user_entry: a loop never steps an
\* inner iterator that is not valid, and a forward iterator's inner iterator is on
\* the entry it shows, ready to go forward, even after a failed read.
AssertsHold ==
    /\ pc \in {"forward", "turn"} => MergeValid(m)
    /\ pc = "idle" /\ it.valid /\ it.dir = "forward" => MergeValid(m) /\ m.dir = "forward"

=============================================================================
