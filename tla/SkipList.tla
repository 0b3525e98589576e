------------------------------ MODULE SkipList ------------------------------
(***************************************************************************)
(* The memtable's skip list (src/src/skiplist/skiplist.rs): one writer     *)
(* links nodes in, level by level, while readers walk the same links       *)
(* without a lock.  Each load or store of a link is one step; the stores   *)
(* are releases and the loads acquires, and no link is ever taken out, so  *)
(* a reader sees a node as its writer published it.                        *)
(*                                                                         *)
(* A node is named by its key, an internal key, which is never inserted    *)
(* twice (the debug_assert of insert_key_ptr).  random_height is any       *)
(* height.                                                                 *)
(***************************************************************************)
EXTENDS Integers

CONSTANTS Keys,         \* the keys, in their order
          MaxHeight,    \* MAX_HEIGHT
          Readers       \* the cursors and iterators that walk the list

ASSUME SkipListAssumption == Keys \subseteq Nat \ {0} /\ MaxHeight \in Nat \ {0}

Head == 0
Nil == -1
Nodes == Keys \cup {Head}
Levels == 0 .. MaxHeight - 1

VARIABLES
    next,       \* level -> node -> the node it links to, or Nil
    tall,       \* key -> the height of its node, 0 before it is allocated
    height,     \* SkipList.height
    w,          \* the writer: [pc, key, x, level, prev, h, i]
    rd          \* reader -> [op, target, x, level, at]

vars == <<next, tall, height, w, rd>>

\* The keys linked at level l: those of every finished insert, and the writer's own
\* once it has stored the link at that level.
Linked(l) == {k \in Keys : tall[k] > l /\ ~(w.pc = "link" /\ w.key = k /\ w.i <= l)}

(***************************************************************************)
(* The walk that all searches share: from x at a level, go on or go down.  *)
(***************************************************************************)
GoesOn(n, op, target) == n # Nil /\ (op = "last" \/ n < target)

(***************************************************************************)
(* The writer: insert_key_ptr.                                             *)
(***************************************************************************)
Insert(k) ==
    /\ w.pc = "idle" /\ tall[k] = 0
    /\ w' = [w EXCEPT !.pc = "search", !.key = k, !.x = Head, !.level = height - 1]
    /\ UNCHANGED <<next, tall, height, rd>>

\* A round of find_greater_or_equal(key, Some(prev)).
Search ==
    /\ w.pc = "search"
    /\ LET n == next[w.level][w.x]
       IN w' = IF GoesOn(n, "seek", w.key) THEN [w EXCEPT !.x = n]
               ELSE [w EXCEPT !.prev[w.level] = w.x,
                              !.level = IF w.level = 0 THEN 0 ELSE w.level - 1,
                              !.pc = IF w.level = 0 THEN "raise" ELSE "search"]
    /\ UNCHANGED <<next, tall, height, rd>>

\* Mutant: the node has one link fewer than it will be linked by.
RaiseShort(h) ==
    /\ w.pc = "raise"
    /\ w' = [w EXCEPT !.pc = "link", !.h = h, !.i = 0,
                      !.prev = [l \in Levels |->
                                  IF height <= l /\ l < h THEN Head ELSE w.prev[l]]]
    /\ height' = IF h > height THEN h ELSE height
    /\ tall' = [tall EXCEPT ![w.key] = IF h > 1 THEN h - 1 ELSE h]
    /\ UNCHANGED <<next, rd>>

\* The height is drawn and raised, the node allocated.
Raise(h) ==
    /\ w.pc = "raise"
    /\ w' = [w EXCEPT !.pc = "link", !.h = h, !.i = 0,
                      !.prev = [l \in Levels |->
                                  IF height <= l /\ l < h THEN Head ELSE w.prev[l]]]
    /\ height' = IF h > height THEN h ELSE height
    /\ tall' = [tall EXCEPT ![w.key] = h]
    /\ UNCHANGED <<next, rd>>

\* Mutant: the new node is published before its own link is set.
LinkEmpty ==
    /\ w.pc = "link"
    /\ next' = [next EXCEPT ![w.i][w.prev[w.i]] = w.key]
    /\ w' = [w EXCEPT !.i = w.i + 1, !.pc = IF w.i + 1 = w.h THEN "idle" ELSE "link"]
    /\ UNCHANGED <<tall, height, rd>>

\* One round of the loop that links it: set_next_no_barrier on the node, which no
\* reader sees at this level yet, and set_next on its predecessor.
Link ==
    /\ w.pc = "link"
    /\ next' = [next EXCEPT ![w.i][w.key] = next[w.i][w.prev[w.i]],
                            ![w.i][w.prev[w.i]] = w.key]
    /\ w' = [w EXCEPT !.i = w.i + 1, !.pc = IF w.i + 1 = w.h THEN "idle" ELSE "link"]
    /\ UNCHANGED <<tall, height, rd>>

(***************************************************************************)
(* A reader: SkipListCursor and SkipListIter.                              *)
(***************************************************************************)
Begin(r, op, target, x, level) ==
    /\ rd[r].op = "idle"
    /\ rd' = [rd EXCEPT ![r].op = op, ![r].target = target, ![r].x = x, ![r].level = level]
    /\ UNCHANGED <<next, tall, height, w>>

SeekToFirst(r) == Begin(r, "first", Head, Head, 0)
SeekToLast(r) == Begin(r, "last", Head, Head, height - 1)
Seek(r, t) == Begin(r, "seek", t, Head, height - 1)
NextNode(r) == rd[r].at # Nil /\ Begin(r, "next", Head, rd[r].at, 0)
PrevNode(r) == rd[r].at # Nil /\ Begin(r, "prev", rd[r].at, Head, height - 1)

\* What a search ends with: the node after x, or x itself unless that is the head.
Found(op, x, n) == IF op \in {"first", "next", "seek"} THEN n ELSE IF x = Head THEN Nil ELSE x

\* A round of find_greater_or_equal, find_less_than or find_last, or the one load of
\* seek_to_first() and next().
Walk(r) ==
    /\ rd[r].op # "idle"
    /\ LET c == rd[r]
           n == next[c.level][c.x]
       IN rd' = [rd EXCEPT ![r] =
                    IF c.op \in {"seek", "prev", "last"} /\ GoesOn(n, c.op, c.target)
                      THEN [c EXCEPT !.x = n]
                    ELSE IF c.level > 0 THEN [c EXCEPT !.level = c.level - 1]
                    ELSE [c EXCEPT !.op = "idle", !.at = Found(c.op, c.x, n)]]
    /\ UNCHANGED <<next, tall, height, w>>

-----------------------------------------------------------------------------

Init ==
    /\ next = [l \in Levels |-> [n \in Nodes |-> Nil]]
    /\ tall = [k \in Keys |-> 0]
    /\ height = 1
    /\ w = [pc |-> "idle", key |-> Head, x |-> Head, level |-> 0,
            prev |-> [l \in Levels |-> Head], h |-> 0, i |-> 0]
    /\ rd = [r \in Readers |-> [op |-> "idle", target |-> Head, x |-> Head, level |-> 0,
                                at |-> Nil]]

WriterStep == (\E k \in Keys : Insert(k)) \/ Search \/ (\E h \in 1 .. MaxHeight : Raise(h)) \/ Link

ReaderStep(r) ==
    SeekToFirst(r) \/ SeekToLast(r) \/ (\E t \in Keys : Seek(r, t)) \/ NextNode(r) \/ PrevNode(r) \/ Walk(r)

Next == WriterStep \/ \E r \in Readers : ReaderStep(r)

Spec == Init /\ [][Next]_vars

-----------------------------------------------------------------------------

Ops == {"idle", "first", "last", "seek", "next", "prev"}

TypeOK ==
    /\ next \in [Levels -> [Nodes -> Nodes \cup {Nil}]]
    /\ tall \in [Keys -> 0 .. MaxHeight]
    /\ height \in 1 .. MaxHeight
    /\ w \in [pc : {"idle", "search", "raise", "link"}, key : Nodes, x : Nodes,
              level : Levels, prev : [Levels -> Nodes], h : 0 .. MaxHeight,
              i : 0 .. MaxHeight]
    /\ rd \in [Readers -> [op : Ops, target : Nodes, x : Nodes, level : Levels,
                           at : Keys \cup {Nil}]]

\* "Level invariant": next[level] of a node is only read below the node's height
\* (invariant 3 in the module's documentation; beyond it is undefined behaviour).
LevelInvariant ==
    /\ w.pc = "search" => w.x = Head \/ tall[w.x] > w.level
    /\ \A r \in Readers : rd[r].op # "idle" => rd[r].x = Head \/ tall[rd[r].x] > rd[r].level

\* The answer a search owes when it returns: the least key at or after, or the
\* greatest before, among the keys in the list.
IsLeast(n, S) == IF S = {} THEN n = Nil ELSE n \in S /\ \A k \in S : n <= k
IsGreatest(n, S) == IF S = {} THEN n = Nil ELSE n \in S /\ \A k \in S : k <= n

Right(c, n) ==
    LET in == Linked(0)
    IN CASE c.op = "first" -> IsLeast(n, in)
         [] c.op = "last" -> IsGreatest(n, in)
         [] c.op = "seek" -> IsLeast(n, {k \in in : k >= c.target})
         [] c.op = "next" -> IsLeast(n, {k \in in : k > c.x})
         [] c.op = "prev" -> IsGreatest(n, {k \in in : k < c.target})

\* A search answers as if it had looked at the whole list at the moment it returns,
\* however many inserts ran, or half ran, under it: no reader misses an entry that
\* was in the list, and none is sent to an entry out of order.
SearchExact ==
    [][\A r \in Readers :
         rd[r].op # "idle" /\ rd'[r].op = "idle" => Right(rd[r], rd'[r].at)]_vars

\* Every level is a sorted chain through exactly the keys linked at it, at every
\* moment of an insert.
Chained ==
    \A l \in Levels : \A n \in Linked(l) \cup {Head} :
        IsLeast(next[l][n], {k \in Linked(l) : k > n})

=============================================================================
