--------------------------- MODULE SkipListProofs ---------------------------
(***************************************************************************)
(* Proofs about SkipList, for any set of keys, any maximal height and any  *)
(* number of readers.                                                      *)
(*                                                                         *)
(* The searches are right because every level is a sorted chain at every   *)
(* moment (Chained) and because a walk stands on a node that is linked at  *)
(* its level (ReaderInv); Chained survives a store because the writer's    *)
(* prev array holds, at each level still to be linked, the node the new    *)
(* one must follow (WriterInv).  None of the three is inductive alone.     *)
(***************************************************************************)
EXTENDS SkipList, TLAPS

\* prev[l] is where the key in hand goes at level l.
Pred(l) ==
    /\ w.prev[l] \in Linked(l) \cup {Head}
    /\ w.prev[l] < w.key
    /\ next[l][w.prev[l]] = Nil \/ next[l][w.prev[l]] > w.key

WriterInv ==
    /\ \A k \in Keys : tall[k] <= height
    /\ w.pc # "idle" => w.key \in Keys
    /\ w.pc \in {"search", "raise"} => tall[w.key] = 0
    /\ w.pc = "search" =>
         /\ w.level < height
         /\ w.x \in Linked(w.level) \cup {Head} /\ w.x < w.key
         /\ \A l \in Levels : w.level < l /\ l < height => Pred(l)
    /\ w.pc = "raise" => \A l \in Levels : l < height => Pred(l)
    /\ w.pc = "link" =>
         /\ tall[w.key] = w.h /\ w.i < w.h
         /\ \A l \in Levels : w.i <= l /\ l < w.h => Pred(l)

ReaderOK(c) ==
    /\ c.at \in Linked(0) \cup {Nil}
    /\ c.op # "idle" => c.x \in Linked(c.level) \cup {Head}
    /\ c.op \in {"seek", "prev"} => c.x < c.target
    /\ c.op \in {"first", "next"} => c.level = 0
    /\ c.op = "first" => c.x = Head

ReaderInv == \A r \in Readers : ReaderOK(rd[r])

Inv == TypeOK /\ Chained /\ WriterInv /\ ReaderInv

-----------------------------------------------------------------------------

LEMMA Constants ==
    /\ \A k \in Keys : k \in Int /\ k > 0
    /\ MaxHeight \in Int /\ MaxHeight > 0
  BY SkipListAssumption DEF SkipListAssumption

USE Constants DEF Head, Nil, Nodes, Levels

\* A level's keys are keys, and a key is linked at every level below one it is
\* linked at.
LEMMA LinkedKeys == ASSUME NEW l PROVE Linked(l) \subseteq Keys
  BY DEF Linked

LEMMA LinkedBelow ==
    ASSUME TypeOK, NEW l \in Levels, NEW j \in Levels, j <= l
    PROVE  Linked(l) \subseteq Linked(j)
<1>1. tall \in [Keys -> 0 .. MaxHeight] /\ w.i \in 0 .. MaxHeight
  BY DEF TypeOK
<1>2. ASSUME NEW k \in Linked(l) PROVE k \in Linked(j)
  <2>1. k \in Keys /\ tall[k] > l /\ ~(w.pc = "link" /\ w.key = k /\ w.i <= l)
    BY <1>2 DEF Linked
  <2>2. tall[k] > j /\ ~(w.pc = "link" /\ w.key = k /\ w.i <= j)
    BY <1>1, <2>1
  <2> QED
    BY <2>1, <2>2 DEF Linked
<1> QED
  BY <1>2

\* What Chained says of one link: it leads to Nil past the last key, and otherwise to
\* a key that is linked, is greater, and has no linked key before it.
LEMMA ChainLink ==
    ASSUME TypeOK, Chained, NEW l \in Levels, NEW n \in Linked(l) \cup {Head}
    PROVE  \/ next[l][n] = Nil /\ \A k \in Linked(l) : k <= n
           \/ /\ next[l][n] \in Linked(l) /\ next[l][n] > n
              /\ \A k \in Linked(l) : k > n => next[l][n] <= k
<1> DEFINE S == {k \in Linked(l) : k > n}
<1>1. IsLeast(next[l][n], S)
  BY ZenonT(30), SMTT(30) DEF Chained
<1>2. (\A k \in Linked(l) : k \in Int) /\ n \in Int
  BY LinkedKeys
<1>3. CASE S = {}
  BY <1>1, <1>2, <1>3 DEF IsLeast
<1>4. CASE S # {}
  BY <1>1, <1>2, <1>4 DEF IsLeast
<1> QED
  BY <1>3, <1>4

\* The converse.
LEMMA LinkChains ==
    ASSUME NEW n \in Int, NEW L \in SUBSET Keys, NEW m \in Int,
           \/ m = Nil /\ \A k \in L : k <= n
           \/ m \in L /\ m > n /\ \A k \in L : k > n => m <= k
    PROVE  IsLeast(m, {k \in L : k > n})
  BY DEF IsLeast

\* Only Link changes what is linked, and it adds one key at one level.
LEMMA LinkedSame ==
    ASSUME Inv,
           (\E k \in Keys : Insert(k)) \/ Search \/ (\E h \in 1 .. MaxHeight : Raise(h)),
           NEW l \in Levels
    PROVE  Linked(l)' = Linked(l)
<1>1. ASSUME NEW k \in Keys, Insert(k) PROVE Linked(l)' = Linked(l)
  BY Zenon, <1>1 DEF Insert, Linked, Inv, TypeOK
<1>2. CASE Search
  BY <1>2 DEF Search, Linked, Inv, TypeOK
<1>3. ASSUME NEW h \in 1 .. MaxHeight, Raise(h) PROVE Linked(l)' = Linked(l)
  <2>1. tall[w.key] = 0 /\ w.key \in Keys /\ w.pc = "raise"
    BY Zenon, <1>3 DEF Inv, WriterInv, Raise
  <2>2. /\ w'.pc = "link" /\ w'.key = w.key /\ w'.i = 0
        /\ \A k \in Keys : k # w.key => tall'[k] = tall[k]
    BY Zenon, <1>3 DEF Inv, TypeOK, Raise
  <2>3. \A k \in Keys : k # w.key => (k \in Linked(l)' <=> k \in Linked(l))
    BY <2>1, <2>2 DEF Linked
  <2>4. w.key \notin Linked(l)
    BY <2>1 DEF Linked
  <2>5. w.key \notin Linked(l)'
    BY <2>2 DEF Linked
  <2> QED
    BY <2>3, <2>4, <2>5 DEF Linked
<1> QED
  BY <1>1, <1>2, <1>3

LEMMA LinkAdds ==
    ASSUME Inv, Link, NEW l \in Levels
    PROVE  Linked(l)' = IF l = w.i THEN Linked(l) \cup {w.key} ELSE Linked(l)
<1> USE DEF Link
<1>1. w.key \in Keys /\ tall[w.key] = w.h /\ w.i < w.h
  BY DEF Inv, WriterInv
<1>2. /\ w'.key = w.key /\ w'.i = w.i + 1 /\ UNCHANGED tall
      /\ w'.pc = IF w.i + 1 = w.h THEN "idle" ELSE "link"
  BY DEF Inv, TypeOK
<1>3. tall \in [Keys -> 0 .. MaxHeight] /\ w.i \in 0 .. MaxHeight /\ w.h \in 0 .. MaxHeight
  BY DEF Inv, TypeOK
<1>4. \A k \in Keys : k # w.key => (k \in Linked(l)' <=> k \in Linked(l))
  BY <1>2 DEF Linked
<1>5. w.key \in Linked(l)' <=> w.h > l /\ ~(w.i + 1 # w.h /\ w.i + 1 <= l)
  BY <1>1, <1>2 DEF Linked
<1>6. w.key \in Linked(l) <=> w.h > l /\ ~(w.i <= l)
  BY <1>1 DEF Linked
<1> QED
  BY <1>1, <1>3, <1>4, <1>5, <1>6 DEF Linked

-----------------------------------------------------------------------------

LEMMA InitInv == Init => Inv
<1> SUFFICES ASSUME Init PROVE Inv
  OBVIOUS
<1> USE DEF Init
<1>1. TypeOK
  BY DEF TypeOK, Ops
<1>2. \A l \in Levels : Linked(l) = {}
  BY DEF Linked
<1>3. Chained
  BY <1>2 DEF Chained, IsLeast
<1>4. WriterInv
  BY DEF WriterInv
<1>5. ReaderInv
  BY DEF ReaderInv, ReaderOK
<1> QED
  BY <1>1, <1>3, <1>4, <1>5 DEF Inv

\* A step of a reader leaves the list and the writer alone.
LEMMA ReaderKeeps ==
    ASSUME Inv, UNCHANGED <<next, tall, height, w>>
    PROVE  Chained' /\ WriterInv'
<1>1. \A l : Linked(l)' = Linked(l)
  BY DEF Linked
<1>2. Chained'
  BY Zenon, <1>1 DEF Chained, Inv
<1>3. WriterInv'
  BY <1>1 DEF WriterInv, Pred, Inv
<1> QED
  BY <1>2, <1>3

\* A step of the writer moves no reader, and takes nothing out of the list.
LEMMA WriterKeeps ==
    ASSUME Inv, UNCHANGED rd, \A l \in Levels : Linked(l) \subseteq Linked(l)'
    PROVE  ReaderInv'
<1>1. \A r \in Readers : rd[r].level \in Levels
  BY DEF Inv, TypeOK
<1>2. 0 \in Levels
  OBVIOUS
<1> QED
  BY <1>1, <1>2 DEF ReaderInv, ReaderOK, Inv

LEMMA BeginInv ==
    ASSUME Inv, NEW r \in Readers, NEW op \in Ops \ {"idle"}, NEW target \in Nodes,
           NEW x \in Nodes, NEW level \in Levels, Begin(r, op, target, x, level),
           x \in Linked(level) \cup {Head},
           op \in {"seek", "prev"} => x < target,
           op \in {"first", "next"} => level = 0,
           op = "first" => x = Head
    PROVE  Inv'
<1> USE DEF Begin
<1>1. TypeOK'
  <2>1. rd[r] \in [op : Ops, target : Nodes, x : Nodes, level : Levels, at : Keys \cup {Nil}]
    BY DEF Inv, TypeOK
  <2>2. [rd[r] EXCEPT !.op = op, !.target = target, !.x = x, !.level = level]
          \in [op : Ops, target : Nodes, x : Nodes, level : Levels, at : Keys \cup {Nil}]
    BY Zenon, <2>1
  <2> QED
    BY ZenonT(30), <2>2 DEF Inv, TypeOK
<1>2. Chained' /\ WriterInv'
  BY ReaderKeeps
<1>3. \A l : Linked(l)' = Linked(l)
  BY DEF Linked
<1>4. ASSUME NEW q \in Readers PROVE ReaderOK(rd[q])'
  <2>1. CASE q # r
    <3>1. rd'[q] = rd[q]
      BY <2>1 DEF Inv, TypeOK
    <3> QED
      BY <3>1, <1>3 DEF ReaderOK, Inv, ReaderInv
  <2>2. CASE q = r
    <3>1. /\ rd'[q].op = op /\ rd'[q].target = target /\ rd'[q].x = x
          /\ rd'[q].level = level /\ rd'[q].at = rd[q].at
      BY <2>2 DEF Inv, TypeOK
    <3> QED
      BY <3>1, <1>3 DEF ReaderOK, Inv, ReaderInv
  <2> QED
    BY <2>1, <2>2
<1> QED
  BY Zenon, <1>1, <1>2, <1>4 DEF Inv, ReaderInv

\* A step that leaves the links, and what is linked, as they are.
LEMMA ChainKeeps ==
    ASSUME Inv, UNCHANGED next, \A l \in Levels : Linked(l)' = Linked(l)
    PROVE  Chained'
  BY Zenon DEF Chained, Inv

\* The type of w.
Writer == [pc : {"idle", "search", "raise", "link"}, key : Nodes, x : Nodes,
           level : Levels, prev : [Levels -> Nodes], h : 0 .. MaxHeight, i : 0 .. MaxHeight]

LEMMA InsertInv == ASSUME Inv, NEW k \in Keys, Insert(k) PROVE Inv'
<1>1. TypeOK'
  <2>1. height - 1 \in Levels
    BY DEF Inv, TypeOK
  <2>2. [w EXCEPT !.pc = "search", !.key = k, !.x = Head, !.level = height - 1] \in Writer
    BY Zenon, <2>1 DEF Inv, TypeOK, Writer
  <2> QED
    BY Zenon, <2>2 DEF Inv, TypeOK, Insert, Writer
<1>2. \A l \in Levels : Linked(l)' = Linked(l)
  BY LinkedSame
<1>3. Chained' /\ ReaderInv'
  BY <1>2, ChainKeeps, WriterKeeps DEF Insert
<1>4. WriterInv'
  <2>1. /\ w'.pc = "search" /\ w'.key = k /\ w'.x = Head /\ w'.level = height - 1
        /\ height \in 1 .. MaxHeight /\ UNCHANGED <<tall, height>> /\ tall[k] = 0
    BY DEF Inv, TypeOK, Insert
  <2> QED
    BY <2>1 DEF WriterInv, Inv
<1> QED
  BY <1>1, <1>3, <1>4 DEF Inv

\* What a round of the writer's search finds.
LEMMA SearchFinds ==
    ASSUME Inv, w.pc = "search"
    PROVE  LET n == next[w.level][w.x]
           IN n = Nil \/ (n \in Linked(w.level) /\ n \in Keys /\ n # w.key)
<1>1. w.level \in Levels /\ w.x \in Linked(w.level) \cup {Head} /\ tall[w.key] = 0
  BY DEF Inv, TypeOK, WriterInv
<1>2. w.key \notin Linked(w.level)
  BY <1>1 DEF Linked
<1> QED
  BY <1>1, <1>2, ChainLink, LinkedKeys DEF Inv

LEMMA SearchInv == ASSUME Inv, Search PROVE Inv'
<1> DEFINE n == next[w.level][w.x]
<1>0. PICK lv \in Levels : lv = w.level
  BY DEF Inv, TypeOK
<1>1. /\ w.pc = "search" /\ w.level \in Levels /\ w.level < height /\ w.key \in Keys
      /\ w.x \in Linked(w.level) \cup {Head} /\ w.x < w.key /\ height \in 1 .. MaxHeight
  BY DEF Search, Inv, TypeOK, WriterInv
<1>2. n = Nil \/ (n \in Linked(w.level) /\ n \in Keys /\ n # w.key)
  BY <1>1, SearchFinds
<1>3. \A l \in Levels : Linked(l)' = Linked(l)
  BY LinkedSame
<1>4. Chained' /\ ReaderInv'
  BY <1>3, ChainKeeps, WriterKeeps DEF Search
<1>5. UNCHANGED <<next, tall, height, rd>>
  BY DEF Search
<1>6. CASE GoesOn(n, "seek", w.key)
  <2>1. w' = [w EXCEPT !.x = n] /\ n \in Linked(w.level) /\ n \in Keys /\ n < w.key
    BY <1>2, <1>6 DEF Search, GoesOn
  <2>2. TypeOK'
    BY Zenon, <1>5, <2>1 DEF TypeOK, Inv
  <2>3. /\ w'.pc = w.pc /\ w'.key = w.key /\ w'.x = n /\ w'.level = w.level /\ w'.prev = w.prev
    BY <2>1 DEF TypeOK, Inv
  <2>4. \A l \in Levels : Pred(l) => Pred(l)'
    BY <1>3, <1>5, <2>3 DEF Pred
  <2>5. WriterInv'
    BY <1>1, <1>3, <1>5, <2>1, <2>3, <2>4 DEF WriterInv, Inv
  <2> QED
    BY <1>4, <2>2, <2>5 DEF Inv
<1>7. CASE ~GoesOn(n, "seek", w.key)
  <2>1. n = Nil \/ n > w.key
    BY <1>1, <1>2, <1>7 DEF GoesOn
  <2>2. w' = [w EXCEPT !.prev[w.level] = w.x,
                       !.level = IF w.level = 0 THEN 0 ELSE w.level - 1,
                       !.pc = IF w.level = 0 THEN "raise" ELSE "search"]
    BY <1>7 DEF Search
  <2>3. TypeOK'
    <3>1. w \in Writer /\ w.x \in Nodes
      BY DEF TypeOK, Inv, Writer
    <3>2. (IF w.level = 0 THEN 0 ELSE w.level - 1) \in Levels
      BY <1>1
    <3>3. [w.prev EXCEPT ![w.level] = w.x] \in [Levels -> Nodes]
      BY <3>1 DEF Writer
    <3>4. w' \in Writer
      BY Zenon, <3>1, <3>2, <3>3, <2>2 DEF Writer
    <3> QED
      BY Zenon, <1>5, <3>4 DEF TypeOK, Inv, Writer
  <2>4. /\ w'.pc = (IF w.level = 0 THEN "raise" ELSE "search") /\ w'.key = w.key /\ w'.x = w.x
        /\ w'.level = IF w.level = 0 THEN 0 ELSE w.level - 1
        /\ \A l \in Levels : w'.prev[l] = IF l = w.level THEN w.x ELSE w.prev[l]
    BY <1>1, <2>2 DEF TypeOK, Inv
  <2>5. Pred(lv)'
    BY <1>0, <1>1, <1>3, <1>5, <2>1, <2>4 DEF Pred
  <2>6. \A l \in Levels : l # lv /\ Pred(l) => Pred(l)'
    BY <1>0, <1>3, <1>5, <2>4 DEF Pred
  <2>7. \A l \in Levels : lv <= l /\ l < height => Pred(l)'
    <3>1. \A l \in Levels : lv < l /\ l < height => Pred(l)
      BY <1>0, <1>1 DEF WriterInv, Inv
    <3> QED
      BY <1>1, <2>5, <2>6, <3>1
  <2>8. lv # 0 => w.x \in Linked(lv - 1)' \cup {Head}
    <3>1. lv # 0 => lv - 1 \in Levels /\ lv - 1 <= lv
      OBVIOUS
    <3>2. lv # 0 => Linked(lv) \subseteq Linked(lv - 1)
      BY <3>1, LinkedBelow DEF Inv
    <3> QED
      BY <1>0, <1>1, <1>3, <3>1, <3>2
  <2>9. WriterInv'
    <3>1. CASE lv = 0
      BY <3>1, <1>0, <1>1, <1>5, <2>4, <2>7 DEF WriterInv, Inv
    <3>2. CASE lv # 0
      <4>1. w'.pc = "search" /\ w'.level = lv - 1 /\ w'.x = w.x /\ w'.key = w.key
        BY <3>2, <1>0, <2>4
      <4>2. \A l \in Levels : lv - 1 < l /\ l < height => Pred(l)'
        BY <2>7
      <4>3. (w.x \in Linked(w.level) \cup {Head})'
        BY <4>1, <2>8, <3>2
      <4>4. w'.level < height
        BY <4>1, <1>0, <1>1
      <4> QED
        BY <4>1, <4>2, <4>3, <4>4, <1>1, <1>5 DEF WriterInv, Inv
    <3> QED
      BY <3>1, <3>2
  <2> QED
    BY <1>4, <2>3, <2>9 DEF Inv
<1> QED
  BY <1>6, <1>7

LEMMA RaiseInv == ASSUME Inv, NEW h \in 1 .. MaxHeight, Raise(h) PROVE Inv'
<1>1. w.pc = "raise" /\ w.key \in Keys /\ tall[w.key] = 0 /\ height \in 1 .. MaxHeight
  BY DEF Raise, Inv, TypeOK, WriterInv
<1>2. \A l \in Levels : Linked(l)' = Linked(l)
  BY LinkedSame
<1>3. Chained' /\ ReaderInv'
  BY <1>2, ChainKeeps, WriterKeeps DEF Raise
<1>4. TypeOK'
  <2>1. w \in Writer
    BY DEF TypeOK, Inv, Writer
  <2>2. [l \in Levels |-> IF height <= l /\ l < h THEN Head ELSE w.prev[l]] \in [Levels -> Nodes]
    BY <2>1 DEF Writer
  <2>3. h \in 0 .. MaxHeight /\ 0 \in 0 .. MaxHeight
    OBVIOUS
  <2>5. w' \in Writer
    BY Zenon, <2>1, <2>2, <2>3 DEF Raise, Writer
  <2>4. height' \in 1 .. MaxHeight /\ tall' \in [Keys -> 0 .. MaxHeight]
    BY SMTT(30), Z3T(30), <1>1 DEF Raise, TypeOK, Inv
  <2> QED
    BY Zenon, <2>5, <2>4 DEF Raise, TypeOK, Inv, Writer
<1>5. /\ w'.pc = "link" /\ w'.key = w.key /\ w'.h = h /\ w'.i = 0 /\ UNCHANGED next
      /\ \A l \in Levels : w'.prev[l] = IF height <= l /\ l < h THEN Head ELSE w.prev[l]
      /\ height' = IF h > height THEN h ELSE height
  BY DEF Raise, TypeOK, Inv
<1>6. \A k \in Keys : tall'[k] = IF k = w.key THEN h ELSE tall[k]
  BY DEF Raise, TypeOK, Inv
<1>7. ASSUME NEW l \in Levels, l < h PROVE Pred(l)'
  <2>1. CASE l < height
    <3>1. Pred(l)
      BY <1>1, <2>1 DEF WriterInv, Inv
    <3> QED
      BY <3>1, <2>1, <1>1, <1>2, <1>5 DEF Pred
  <2>2. CASE height <= l
    <3>1. Linked(l) = {}
      BY <2>2, <1>1 DEF Linked, WriterInv, TypeOK, Inv
    <3>2. next[l][Head] = Nil
      BY <3>1, ChainLink DEF Inv
    <3> QED
      BY <1>1, <1>5, <1>7, <2>2, <3>2 DEF Pred
  <2> QED
    BY <2>1, <2>2, <1>1
<1>8. \A k \in Keys : tall'[k] <= height'
  <2>0. tall \in [Keys -> 0 .. MaxHeight]
    BY DEF TypeOK, Inv
  <2>1. \A k \in Keys : tall[k] \in 0 .. MaxHeight
    BY Zenon, <2>0
  <2>2. \A k \in Keys : tall[k] <= height
    BY Zenon DEF WriterInv, Inv
  <2> QED
    BY <2>1, <2>2, <1>1, <1>5, <1>6
<1>9. WriterInv'
  BY <1>1, <1>5, <1>6, <1>7, <1>8 DEF WriterInv
<1> QED
  BY <1>3, <1>4, <1>9 DEF Inv

LEMMA LinkInv == ASSUME Inv, Link PROVE Inv'
<1>0. PICK i \in Levels, p \in Nodes : i = w.i /\ p = w.prev[i]
  BY DEF Link, Inv, TypeOK, WriterInv
<1>1. /\ w.pc = "link" /\ w.key \in Keys /\ tall[w.key] = w.h /\ i < w.h
      /\ \A l \in Levels : i <= l /\ l < w.h => Pred(l)
  BY <1>0 DEF Link, Inv, WriterInv
<1>2. /\ p \in Linked(i) \cup {Head} /\ p < w.key
      /\ next[i][p] = Nil \/ next[i][p] > w.key
  BY <1>0, <1>1 DEF Pred
<1>3. w.h \in 0 .. MaxHeight /\ UNCHANGED <<tall, height, rd>>
  BY DEF Link, Inv, TypeOK
<1>4. /\ w'.key = w.key /\ w'.h = w.h /\ w'.i = i + 1 /\ w'.prev = w.prev
      /\ w'.pc = IF i + 1 = w.h THEN "idle" ELSE "link"
  BY <1>0 DEF Link, Inv, TypeOK
<1>5. \A l \in Levels : l # i => next'[l] = next[l]
  BY <1>0 DEF Link, Inv, TypeOK
<1>6. \A n \in Nodes : next'[i][n] = IF n = p THEN w.key
                                    ELSE IF n = w.key THEN next[i][p] ELSE next[i][n]
  BY SMTT(30), Z3T(30), <1>0, <1>1 DEF Link, Inv, TypeOK
<1>7. \A l \in Levels : Linked(l)' = IF l = i THEN Linked(l) \cup {w.key} ELSE Linked(l)
  BY <1>0, LinkAdds
<1>8. TypeOK'
  <2>1. w \in Writer
    BY DEF TypeOK, Inv, Writer
  <2>2. i + 1 \in 0 .. MaxHeight
    OBVIOUS
  <2>3. w' \in Writer
    BY Zenon, <1>0, <2>1, <2>2 DEF Link, Writer
  <2>4. next' \in [Levels -> [Nodes -> Nodes \cup {Nil}]]
    <3>1. next \in [Levels -> [Nodes -> Nodes \cup {Nil}]] /\ w.key \in Nodes
      BY Zenon, <1>1 DEF Inv, TypeOK
    <3>2. [next[i] EXCEPT ![w.key] = next[i][p], ![p] = w.key] \in [Nodes -> Nodes \cup {Nil}]
      BY <3>1
    <3>3. next' = [next EXCEPT ![i] = [next[i] EXCEPT ![w.key] = next[i][p], ![p] = w.key]]
      BY Zenon, <1>0, <3>1 DEF Link
    <3> QED
      BY Zenon, <3>1, <3>2, <3>3
  <2> QED
    BY Zenon, <1>3, <2>3, <2>4 DEF TypeOK, Inv, Writer
<1>9. ReaderInv'
  BY <1>3, <1>7, WriterKeeps
<1>10. ASSUME NEW n \in Linked(i) \cup {w.key, Head}
       PROVE  IsLeast(next'[i][n], {k \in Linked(i) \cup {w.key} : k > n})
  <2> DEFINE L == Linked(i) \cup {w.key}
  <2>1. L \subseteq Keys /\ n \in Int /\ n \in Nodes
    BY <1>1, LinkedKeys
  <2>2. \/ next[i][p] = Nil /\ \A k \in Linked(i) : k <= p
        \/ /\ next[i][p] \in Linked(i) /\ next[i][p] > p
           /\ \A k \in Linked(i) : k > p => next[i][p] <= k
    BY <1>2, ChainLink DEF Inv
  <2>0. /\ \A k \in Linked(i) : k \in Int /\ k > 0
        /\ w.key \in Int /\ w.key > 0 /\ p \in Int /\ p >= 0
    BY <1>1, LinkedKeys
  <2>3. CASE n = p
    <3>1. next'[i][n] = w.key
      BY <1>6, <2>3
    <3>2. ASSUME NEW k \in Linked(i), k > p PROVE w.key <= k
      <4>1. next[i][p] \in Linked(i) /\ next[i][p] <= k
        BY <2>0, <2>2, <3>2
      <4>2. next[i][p] > w.key /\ next[i][p] \in Int
        <5>1. next[i][p] \in Int /\ next[i][p] # Nil
          BY <2>0, <4>1
        <5> QED
          BY <1>2, <5>1
      <4> QED
        BY <2>0, <4>1, <4>2
    <3>3. w.key \in L /\ w.key > n
      BY <1>2, <2>0, <2>3
    <3>4. \A k \in L : k > n => w.key <= k
      BY <2>0, <2>3, <3>2
    <3> QED
      BY <2>0, <2>1, <3>1, <3>3, <3>4, LinkChains
  <2>4. CASE n = w.key
    <3>1. next'[i][n] = next[i][p]
      BY <1>2, <1>6, <2>0, <2>1, <2>4
    <3>2. \/ next[i][p] = Nil /\ \A k \in L : k <= n
          \/ /\ next[i][p] \in L /\ next[i][p] > n
             /\ \A k \in L : k > n => next[i][p] <= k
      BY <1>2, <2>0, <2>2, <2>4
    <3>3. next[i][p] \in Int
      BY <2>0, <2>2
    <3> QED
      BY ZenonT(30), SMTT(30), <2>1, <3>1, <3>2, <3>3, LinkChains
  <2>5. CASE n # p /\ n # w.key
    <3>1. next'[i][n] = next[i][n]
      BY <1>6, <2>1, <2>5
    <3>2. \/ next[i][n] = Nil /\ \A k \in Linked(i) : k <= n
          \/ /\ next[i][n] \in Linked(i) /\ next[i][n] > n
             /\ \A k \in Linked(i) : k > n => next[i][n] <= k
      BY <2>5, ChainLink DEF Inv
    <3>3. n < p => next[i][n] # Nil /\ next[i][n] <= p
      BY <1>2, <2>0, <2>1, <3>2
    <3>4. n > p => n > w.key
      <4> SUFFICES ASSUME n > p PROVE n > w.key
        OBVIOUS
      <4>1. n \in Linked(i)
        BY <2>0, <2>5
      <4>2. next[i][p] \in Linked(i) /\ next[i][p] <= n
        BY <2>0, <2>2, <4>1
      <4>3. next[i][p] > w.key /\ next[i][p] \in Int
        <5>1. next[i][p] \in Int /\ next[i][p] # Nil
          BY <2>0, <4>2
        <5> QED
          BY <1>2, <5>1
      <4> QED
        BY <2>0, <2>1, <4>2, <4>3
    <3>5. \/ next[i][n] = Nil /\ \A k \in L : k <= n
          \/ /\ next[i][n] \in L /\ next[i][n] > n
             /\ \A k \in L : k > n => next[i][n] <= k
      <4>1. CASE n < p
        <5>1. next[i][n] \in Linked(i) /\ next[i][n] > n /\ next[i][n] <= p
          BY <3>2, <3>3, <4>1
        <5>2. next[i][n] <= w.key
          <6>1. next[i][n] \in Int /\ next[i][n] # Nil
            BY <2>0, <5>1
          <6> QED
            BY <1>2, <2>0, <5>1, <6>1
        <5>3. \A k \in L : k > n => next[i][n] <= k
          <6>1. next[i][n] # Nil
            BY <2>0, <5>1
          <6> QED
            BY <3>2, <5>2, <6>1
        <5> QED
          BY <5>1, <5>3
      <4>2. CASE n > p
        <5>1. w.key < n /\ ~(w.key > n) /\ w.key <= n
          BY <2>0, <2>1, <3>4, <4>2
        <5>2. CASE next[i][n] = Nil
          BY <2>0, <3>2, <5>1, <5>2
        <5>3. CASE next[i][n] # Nil
          BY <3>2, <5>1, <5>3
        <5> QED
          BY <5>2, <5>3
      <4> QED
        BY <4>1, <4>2, <2>0, <2>1, <2>5
    <3>6. next[i][n] \in Int
      BY <2>0, <3>2
    <3> QED
      BY ZenonT(30), SMTT(30), <2>1, <3>1, <3>5, <3>6, LinkChains
  <2> QED
    BY <2>3, <2>4, <2>5
<1>11. Chained'
  <2>1. ASSUME NEW l \in Levels, l # i, NEW n \in Linked(l) \cup {Head}
        PROVE  IsLeast(next'[l][n], {k \in Linked(l) : k > n})
    BY <2>1, <1>5 DEF Chained, Inv
  <2> QED
    BY Zenon, <1>7, <1>10, <2>1 DEF Chained
<1>12. WriterInv'
  <2>1. ASSUME NEW l \in Levels, i < l, l < w.h PROVE Pred(l)'
    <3>1. Pred(l)
      BY <1>1, <2>1
    <3> QED
      BY <3>1, <2>1, <1>4, <1>5, <1>7 DEF Pred
  <2> QED
    BY <2>1, <1>1, <1>3, <1>4 DEF WriterInv, Inv
<1> QED
  BY <1>8, <1>9, <1>11, <1>12 DEF Inv

-----------------------------------------------------------------------------

\* The type of a reader.
Reader == [op : Ops, target : Nodes, x : Nodes, level : Levels, at : Keys \cup {Nil}]

\* What a round of a reader's search finds.
LEMMA WalkFinds ==
    ASSUME Inv, NEW r \in Readers, rd[r].op # "idle"
    PROVE  LET c == rd[r]
               n == next[c.level][c.x]
           IN /\ c \in Reader
              /\ \/ n = Nil /\ \A k \in Linked(c.level) : k <= c.x
                 \/ /\ n \in Linked(c.level) /\ n > c.x
                    /\ \A k \in Linked(c.level) : k > c.x => n <= k
<1>1. rd[r] \in Reader
  BY DEF Inv, TypeOK, Reader
<1>2. rd[r].level \in Levels /\ rd[r].x \in Linked(rd[r].level) \cup {Head}
  BY <1>1 DEF Inv, ReaderInv, ReaderOK, Reader
<1> QED
  BY <1>1, <1>2, ChainLink DEF Inv

LEMMA WalkInv == ASSUME Inv, NEW r \in Readers, Walk(r) PROVE Inv'
<1> DEFINE c == rd[r]
           n == next[c.level][c.x]
           d == IF c.op \in {"seek", "prev", "last"} /\ GoesOn(n, c.op, c.target)
                  THEN [c EXCEPT !.x = n]
                ELSE IF c.level > 0 THEN [c EXCEPT !.level = c.level - 1]
                ELSE [c EXCEPT !.op = "idle", !.at = Found(c.op, c.x, n)]
<1>1. c.op # "idle" /\ rd' = [rd EXCEPT ![r] = d] /\ UNCHANGED <<next, tall, height, w>>
  BY SMTT(30), Z3T(30) DEF Walk
<1>2. c \in Reader /\ (n = Nil \/ n \in Linked(c.level))
  BY <1>1, WalkFinds
<1>3. ReaderOK(c)
  BY ZenonT(30), SMTT(30) DEF Inv, ReaderInv
<1>4. d \in Reader /\ ReaderOK(d)
  <2>1. CASE c.op \in {"seek", "prev", "last"} /\ GoesOn(n, c.op, c.target)
    <3>1. n \in Linked(c.level) /\ n \in Nodes /\ (c.op = "last" \/ n < c.target)
      BY <1>2, <2>1, LinkedKeys DEF GoesOn
    <3>2. d = [c EXCEPT !.x = n]
      BY SMTT(30), Z3T(30), <2>1
    <3>3. d \in Reader
      BY <1>2, <3>1, <3>2 DEF Reader
    <3>4. d.op = c.op /\ d.x = n /\ d.level = c.level /\ d.target = c.target /\ d.at = c.at
      BY Zenon, <1>2, <3>2 DEF Reader
    <3> HIDE DEF d, n, c
    <3>5. ReaderOK(d)
      BY <1>3, <2>1, <3>1, <3>4 DEF ReaderOK
    <3> QED
      BY <3>3, <3>5
  <2>2. CASE ~(c.op \in {"seek", "prev", "last"} /\ GoesOn(n, c.op, c.target)) /\ c.level > 0
    <3>1. d = [c EXCEPT !.level = c.level - 1]
      BY <2>2
    <3>2. c.level - 1 \in Levels /\ c.level \in Levels /\ c.level - 1 <= c.level
      BY <1>2, <2>2 DEF Reader
    <3>3. Linked(c.level) \subseteq Linked(c.level - 1)
      BY SMTT(30), Z3T(30), <3>2, LinkedBelow DEF Inv
    <3>4. d \in Reader
      BY <1>2, <3>1, <3>2 DEF Reader
    <3>5. /\ d.op = c.op /\ d.x = c.x /\ d.level = c.level - 1 /\ d.target = c.target
          /\ d.at = c.at
      BY Zenon, <1>2, <3>1 DEF Reader
    <3>6. c.op \notin {"first", "next"}
      BY <1>3, <2>2, <3>2 DEF ReaderOK
    <3> HIDE DEF d, n, c
    <3>7. ReaderOK(d)
      BY <1>3, <3>3, <3>5, <3>6 DEF ReaderOK
    <3> QED
      BY <3>4, <3>7
  <2>3. CASE ~(c.op \in {"seek", "prev", "last"} /\ GoesOn(n, c.op, c.target)) /\ ~(c.level > 0)
    <3>1. d = [c EXCEPT !.op = "idle", !.at = Found(c.op, c.x, n)]
      BY <2>3
    <3>2. c.level = 0
      BY <1>2, <2>3 DEF Reader
    <3>3. c.x \in Linked(0) \cup {Head} /\ (n = Nil \/ n \in Linked(0))
      BY <1>1, <1>2, <1>3, <3>2 DEF ReaderOK
    <3>4. Found(c.op, c.x, n) \in Linked(0) \cup {Nil}
      BY <3>3 DEF Found
    <3>5. d \in Reader
      BY Zenon, <1>2, <3>1, <3>4, LinkedKeys DEF Reader, Ops
    <3>6. d.op = "idle" /\ d.at = Found(c.op, c.x, n)
      BY Zenon, <1>2, <3>1 DEF Reader
    <3> HIDE DEF d, n, c
    <3>7. ReaderOK(d)
      BY <3>4, <3>6 DEF ReaderOK
    <3> QED
      BY <3>5, <3>7
  <2> QED
    BY <2>1, <2>2, <2>3
<1>5. \A l : Linked(l)' = Linked(l)
  BY <1>1 DEF Linked
<1>6. rd \in [Readers -> Reader]
  BY DEF Inv, TypeOK, Reader
<1> HIDE DEF d
<1>7. TypeOK'
  BY Zenon, <1>1, <1>4, <1>6 DEF Inv, TypeOK, Reader
<1>8. ASSUME NEW q \in Readers PROVE ReaderOK(rd[q])'
  <2>1. rd'[q] = IF q = r THEN d ELSE rd[q]
    BY <1>1, <1>6
  <2>2. ReaderOK(rd'[q])
    BY <1>4, <2>1 DEF Inv, ReaderInv
  <2> QED
    BY <1>5, <2>2 DEF ReaderOK
<1> QED
  BY <1>1, <1>7, <1>8, ReaderKeeps DEF Inv, ReaderInv

LEMMA ReaderStepInv == ASSUME Inv, NEW r \in Readers, ReaderStep(r) PROVE Inv'
<1>1. height - 1 \in Levels /\ 0 \in Levels /\ Head \in Nodes
  BY DEF Inv, TypeOK
<1>2. rd[r].at # Nil => rd[r].at \in Keys /\ rd[r].at \in Linked(0)
  BY DEF Inv, TypeOK, ReaderInv, ReaderOK
<1>3. CASE SeekToFirst(r)
  BY <1>1, <1>3, BeginInv DEF SeekToFirst, Ops
<1>4. CASE SeekToLast(r)
  BY <1>1, <1>4, BeginInv DEF SeekToLast, Ops
<1>5. ASSUME NEW t \in Keys, Seek(r, t) PROVE Inv'
  BY <1>1, <1>5, BeginInv DEF Seek, Ops
<1>6. CASE NextNode(r)
  BY <1>1, <1>2, <1>6, BeginInv DEF NextNode, Ops
<1>7. CASE PrevNode(r)
  BY <1>1, <1>2, <1>7, BeginInv DEF PrevNode, Ops
<1> QED
  BY <1>3, <1>4, <1>5, <1>6, <1>7, WalkInv DEF ReaderStep

LEMMA NextInv == Inv /\ [Next]_vars => Inv'
<1> SUFFICES ASSUME Inv, [Next]_vars PROVE Inv'
  OBVIOUS
<1>1. CASE UNCHANGED vars
  <2>1. UNCHANGED <<next, tall, height, w, rd>>
    BY <1>1 DEF vars
  <2>2. \A l \in Levels : Linked(l) \subseteq Linked(l)'
    BY <2>1 DEF Linked
  <2>3. TypeOK'
    BY Zenon, <2>1 DEF Inv, TypeOK
  <2> QED
    BY <2>1, <2>2, <2>3, ReaderKeeps, WriterKeeps DEF Inv
<1>2. CASE WriterStep
  BY <1>2, InsertInv, SearchInv, RaiseInv, LinkInv DEF WriterStep
<1>3. ASSUME NEW r \in Readers, ReaderStep(r) PROVE Inv'
  BY <1>3, ReaderStepInv
<1> QED
  BY <1>1, <1>2, <1>3 DEF Next

\* The inductive invariant: the chains, the writer's place in them and the readers'
\* places in them hold together at every step of insert_key_ptr and of the searches.
THEOREM InvHolds == Spec => []Inv
  BY InitInv, NextInv, PTL DEF Spec

\* The links, heights, prev array and cursors stay in their ranges.
THEOREM TypeCorrect == Spec => []TypeOK
  BY InvHolds, PTL DEF Inv

\* At every moment of an insert, each level is a sorted chain through exactly the
\* keys linked at it.
THEOREM AlwaysChained == Spec => []Chained
  BY InvHolds, PTL DEF Inv

\* The undefined behaviour the module's third invariant speaks of cannot happen: no
\* search loads a link above the height of the node it stands on.
THEOREM LinksInBounds == Spec => []LevelInvariant
<1>1. Inv => LevelInvariant
  <2> SUFFICES ASSUME Inv PROVE LevelInvariant
    OBVIOUS
  <2>1. ASSUME w.pc = "search" PROVE w.x = Head \/ tall[w.x] > w.level
    BY <2>1 DEF Inv, WriterInv, Linked
  <2>2. ASSUME NEW r \in Readers, rd[r].op # "idle"
        PROVE  rd[r].x = Head \/ tall[rd[r].x] > rd[r].level
    BY <2>2 DEF Inv, ReaderInv, ReaderOK, Linked
  <2> QED
    BY <2>1, <2>2 DEF LevelInvariant
<1> QED
  BY <1>1, InvHolds, PTL

\* A search that ends gives the right answer for the list as it is.
LEMMA WalkRight ==
    ASSUME Inv, NEW r \in Readers, Walk(r), rd'[r].op = "idle"
    PROVE  Right(rd[r], rd'[r].at)
<1> DEFINE c == rd[r]
           n == next[c.level][c.x]
           stops == ~(c.op \in {"seek", "prev", "last"} /\ GoesOn(n, c.op, c.target))
<1>1. c.op # "idle" /\ c \in Reader /\ ReaderOK(c)
  BY WalkFinds DEF Walk, Inv, ReaderInv
<1>2. rd'[r] = IF ~stops THEN [c EXCEPT !.x = n]
               ELSE IF c.level > 0 THEN [c EXCEPT !.level = c.level - 1]
               ELSE [c EXCEPT !.op = "idle", !.at = Found(c.op, c.x, n)]
  BY DEF Walk, Inv, TypeOK
<1>3. stops /\ c.level = 0 /\ rd'[r].at = Found(c.op, c.x, n)
  BY SMTT(30), Z3T(30), <1>1, <1>2 DEF Reader
<1>4. \/ n = Nil /\ \A k \in Linked(0) : k <= c.x
      \/ n \in Linked(0) /\ n > c.x /\ \A k \in Linked(0) : k > c.x => n <= k
  BY <1>1, <1>3, WalkFinds
<1>5. /\ \A k \in Linked(0) : k \in Int /\ k > 0
      /\ c.x \in Int /\ c.target \in Int /\ c.x \in Linked(0) \cup {Head}
  BY <1>1, <1>3, LinkedKeys DEF ReaderOK, Reader
<1>6. CASE c.op = "first"
  <2>1. c.x = 0 /\ Found(c.op, c.x, n) = n
    BY <1>1, <1>6 DEF ReaderOK, Found
  <2> HIDE DEF c, n
  <2>2. IsLeast(n, Linked(0))
    BY <1>4, <1>5, <2>1 DEF IsLeast
  <2> QED
    BY <1>3, <1>6, <2>1, <2>2 DEF Right, c
<1>7. CASE c.op = "next"
  <2>1. Found(c.op, c.x, n) = n
    BY <1>7 DEF Found
  <2> HIDE DEF c, n
  <2>2. IsLeast(n, {k \in Linked(0) : k > c.x})
    BY <1>4, <1>5 DEF IsLeast
  <2> QED
    BY <1>3, <1>7, <2>1, <2>2 DEF Right, c
<1>8. CASE c.op = "seek"
  <2>1. c.x < c.target /\ Found(c.op, c.x, n) = n /\ (n = Nil \/ ~(n < c.target))
    BY <1>1, <1>3, <1>8 DEF ReaderOK, Found, GoesOn
  <2> HIDE DEF c, n
  <2>2. IsLeast(n, {k \in Linked(0) : k >= c.target})
    BY <1>4, <1>5, <2>1 DEF IsLeast
  <2> QED
    BY <1>3, <1>8, <2>1, <2>2 DEF Right, c
<1>9. CASE c.op = "last"
  <2>1. n = Nil /\ Found(c.op, c.x, n) = IF c.x = Head THEN Nil ELSE c.x
    BY <1>3, <1>9 DEF Found, GoesOn
  <2> HIDE DEF c, n
  <2>2. IsGreatest(Found(c.op, c.x, n), Linked(0))
    BY <1>4, <1>5, <2>1 DEF IsGreatest
  <2> QED
    BY <1>3, <1>9, <2>1, <2>2 DEF Right, c
<1>10. CASE c.op = "prev"
  <2>1. /\ c.x < c.target /\ (n = Nil \/ ~(n < c.target))
        /\ Found(c.op, c.x, n) = IF c.x = Head THEN Nil ELSE c.x
    BY <1>1, <1>3, <1>10 DEF ReaderOK, Found, GoesOn
  <2> HIDE DEF c, n
  <2>2. IsGreatest(Found(c.op, c.x, n), {k \in Linked(0) : k < c.target})
    BY <1>4, <1>5, <2>1 DEF IsGreatest
  <2> QED
    BY <1>3, <1>10, <2>1, <2>2 DEF Right, c
<1> QED
  BY SMTT(30), Z3T(30), <1>1, <1>6, <1>7, <1>8, <1>9, <1>10 DEF Reader, Ops

\* A lock-free search answers as if the whole list had stood still at the moment it
\* returns, whatever inserts overlap it.
THEOREM SearchesExact == Spec => SearchExact
<1>1. ASSUME Inv, [Next]_vars, NEW r \in Readers, rd[r].op # "idle", rd'[r].op = "idle"
      PROVE  Right(rd[r], rd'[r].at)
  <2>1. rd'[r] # rd[r]
    BY <1>1
  <2>2. ~UNCHANGED vars /\ ~WriterStep
    BY Zenon, <2>1 DEF vars, WriterStep, Insert, Search, Raise, Link
  <2>3. PICK q \in Readers : ReaderStep(q)
    BY <1>1, <2>2 DEF Next
  <2>4. q = r
    <3>1. ASSUME q # r PROVE rd'[r] = rd[r]
      <4>1. DOMAIN rd = Readers
        BY <1>1 DEF Inv, TypeOK
      <4>2. \A op, target, x, level : Begin(q, op, target, x, level) => rd'[r] = rd[r]
        BY <3>1, <4>1 DEF Begin
      <4>3. Walk(q) => rd'[r] = rd[r]
        BY <3>1, <4>1 DEF Walk
      <4> QED
        BY <2>3, <4>2, <4>3 DEF ReaderStep, SeekToFirst, SeekToLast, Seek, NextNode, PrevNode
    <3> QED
      BY <2>1, <3>1
  <2>5. Walk(r)
    BY Zenon, <1>1, <2>3, <2>4
       DEF ReaderStep, SeekToFirst, SeekToLast, Seek, NextNode, PrevNode, Begin
  <2> QED
    BY <1>1, <2>5, WalkRight
<1>2. Inv /\ [Next]_vars =>
        [\A r \in Readers :
           rd[r].op # "idle" /\ rd'[r].op = "idle" => Right(rd[r], rd'[r].at)]_vars
  BY <1>1
<1> QED
  BY <1>2, InvHolds, PTL DEF Spec, SearchExact

=============================================================================
