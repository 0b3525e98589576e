---------------------------- MODULE LevelsProofs ----------------------------
(***************************************************************************)
(* Proofs about Levels, for any number of keys, levels, writes and         *)
(* snapshots and any sizes of files and levels.                            *)
(*                                                                         *)
(* TreeInv is the inductive invariant behind LevelsSorted: what is stored  *)
(* was written, and the compaction under way, if any, holds all of the     *)
(* next level that its range meets and all of level 0 that shares a key    *)
(* with it.  Seen adds what makes reads right: levels are in the order of  *)
(* age, no two files of a sorted level share a user key, and scans see the *)
(* newest versions.  A merge that cuts its output between two versions of  *)
(* a key breaks Seen (the levels_split run shows how), so the theorems     *)
(* about reads say when that does not happen: UncutKeys, or no snapshots.  *)
(***************************************************************************)
EXTENDS Levels, WellFoundedInduction, TLAPS

(* The Comparator orders keys as their bytes do, which get_user_range takes *)
(* for granted and BytewiseComparator, the default, does.                  *)
Bytewise == \A j, k \in Keys : j < k => Rank[j] < Rank[k]

(* An entry. *)
Entry == [key : Keys, seq : Nat, kind : {"put", "del"}]

(* A set of entries with one for a sequence number, and finitely many. *)
Proper(es) ==
    /\ es \subseteq Entry
    /\ \A d, e \in es : d.seq = e.seq => d = e
    /\ \E n \in Nat : \A e \in es : e.seq <= n

(* A nonempty set of such entries. *)
Table(f, es) == f # {} /\ f \subseteq es

(* No user key has entries in both. *)
Apart(f, g) == \A d \in f, e \in g : d.key # e.key

(* The writes, the memtables and the snapshots. *)
StoreTypes ==
    /\ setup \in Setups
    /\ Proper(log) /\ last_sequence \in Nat
    /\ \A e \in log : e.seq <= last_sequence
    /\ snapshots \subseteq 0 .. last_sequence
    /\ mem \subseteq log /\ imm \subseteq log

(* The files. *)
TreeTypes ==
    /\ DOMAIN l0 \subseteq Nat /\ \E n \in Nat : \A i \in DOMAIN l0 : i <= n
    /\ \A i \in DOMAIN l0 : Table(l0[i], log)
    /\ levels \in [Deep -> SUBSET SUBSET log]
    /\ \A l \in Deep : \A f \in levels[l] : Table(f, log)

Types == StoreTypes /\ TreeTypes

(* The file due for a seek compaction is in the tree. *)
FileDue ==
    \/ file_to_compact = NoFile
    \/ \E l \in 0 .. NumLevels - 1 : \E f \in Files(l) : file_to_compact = <<l, f>>

(* c has all of level c.level + 1 that its range meets, and of level 0 all *)
(* that has a key in common with its inputs.                               *)
Inputs(c) ==
    /\ c.level \in 0 .. NumLevels - 2 /\ c.in0 \subseteq Files(c.level) /\ c.in0 # {}
    /\ c.in1 = {f \in levels[c.level + 1] : Touches(f, UserRange(c.in0)[1], UserRange(c.in0)[2])}
    /\ c.level = 0 => \A f \in c.in0 : \A g \in Range(l0) \ c.in0 : Apart(f, g)

(* The compaction under way, and while it merges its smallest_snapshot. *)
CompactionInv ==
    \/ compaction = NoCompaction
    \/ compaction.stage = "picked" /\ Inputs(compaction)
    \/ /\ compaction.stage = "merging" /\ Inputs(compaction)
       /\ compaction.smallest_snapshot \in Nat
       /\ \A s \in ReadPoints : compaction.smallest_snapshot <= s

TreeInv == Types /\ FileDue /\ CompactionInv /\ LevelsSorted
-----------------------------------------------------------------------------
(* Numbers. *)

(* The least-number principle. *)
LEMMA Least == ASSUME NEW T, T \subseteq Nat, T # {} PROVE \E x \in T : \A y \in T : x <= y
<1> DEFINE R == OpToRel(<, Nat)
<1>1. IsWellFoundedOn(R, Nat)
  BY Zenon, NatLessThanWellFounded
<1>2. \A x \in Nat, y \in Nat : y < x => <<y, x>> \in R
  BY DEF OpToRel
<1> HIDE DEF R
<1>3. PICK x \in T : \A y \in T : ~(<<y, x>> \in R)
  BY Zenon, <1>1, WFMin
<1>4. \A y \in T : ~(y < x)
  BY Zenon, <1>2, <1>3
<1>5. \A y \in T : x <= y
  BY <1>4
<1> QED BY Zenon, <1>5

(* A bounded set of numbers has a greatest. *)
LEMMA Greatest ==
  ASSUME NEW T, T \subseteq Nat, T # {}, NEW n \in Nat, \A y \in T : y <= n
  PROVE  \E x \in T : \A y \in T : y <= x
<1> DEFINE U == {n - y : y \in T}
<1>1. \A y \in T : n - y \in Nat
  OBVIOUS
<1>2. PICK u \in U : \A v \in U : u <= v
  BY Zenon, <1>1, Least
<1>3. PICK x \in T : u = n - x
  BY Zenon, <1>2
<1>4. \A y \in T : n - x <= n - y
  BY Zenon, <1>2, <1>3
<1> QED BY <1>4

(* Min of a set of numbers is its least element. *)
LEMMA MinIs ==
  ASSUME NEW T, T \subseteq Nat, T # {}
  PROVE  Min(T) \in T /\ \A y \in T : Min(T) <= y
<1>1. \E x \in T : \A y \in T : x <= y
  BY Zenon, Least
<1> QED BY Zenon, <1>1 DEF Min

(* The greatest element of a bounded set of numbers is Max of it. *)
LEMMA MaxIs ==
  ASSUME NEW T, T \subseteq Nat, T # {}, NEW n \in Nat, \A y \in T : y <= n
  PROVE  Max(T) \in T /\ \A y \in T : y <= Max(T)
<1>1. \E x \in T : \A y \in T : y <= x
  BY Zenon, Greatest
<1>2. \E x \in T : \A y \in T : x >= y
  BY <1>1
<1>3. Max(T) \in T /\ \A y \in T : Max(T) >= y
  BY Zenon, <1>2 DEF Max
<1> QED BY <1>3
-----------------------------------------------------------------------------
(* The order of entries. *)

(* Keys and their ranks are numbers from 1 to NumKeys. *)
LEMMA RankType ==
  /\ NumKeys \in Nat
  /\ \A k \in Keys : /\ Rank[k] \in Keys /\ Rank[k] \in Nat /\ Rank[k] <= NumKeys
                     /\ k \in Nat /\ k # None /\ k <= NumKeys
BY LevelsAssumption DEF Keys, None

(* The fields of an entry. *)
LEMMA EntryType == \A e \in Entry : e.key \in Keys /\ e.seq \in Nat /\ Rank[e.key] \in Nat
BY RankType DEF Entry

(* A part of a proper set of entries is proper. *)
LEMMA ProperPart ==
  ASSUME NEW es, Proper(es), NEW f, f \subseteq es
  PROVE  Proper(f)
BY Zenon DEF Proper

(* The fields of an entry of a proper set. *)
LEMMA ProperType ==
  ASSUME NEW es, Proper(es), NEW e \in es
  PROVE  e \in Entry /\ e.key \in Keys /\ e.seq \in Nat /\ Rank[e.key] \in Nat
BY Zenon, EntryType DEF Proper

(* The order of internal keys is transitive. *)
LEMMA PrecedesTransitive ==
  ASSUME NEW c \in Entry, NEW d \in Entry, NEW e \in Entry, Precedes(c, d), Precedes(d, e)
  PROVE  Precedes(c, e)
<1>1. PICK kc \in Keys, kd \in Keys, ke \in Keys, sc \in Nat, sd \in Nat, se \in Nat :
         c.key = kc /\ d.key = kd /\ e.key = ke /\ c.seq = sc /\ d.seq = sd /\ e.seq = se
  BY Zenon, EntryType
<1>2. PICK rc \in Nat, rd \in Nat, re \in Nat : Rank[kc] = rc /\ Rank[kd] = rd /\ Rank[ke] = re
  BY Zenon, RankType
<1> QED BY <1>1, <1>2 DEF Precedes, ILess

(* It is strict, follows the user keys, and puts newer versions first. *)
LEMMA PrecedesIrreflexive ==
  ASSUME NEW d \in Entry, NEW e \in Entry, Precedes(d, e)
  PROVE  ~Precedes(e, d) /\ d # e /\ Rank[d.key] <= Rank[e.key] /\ (d.key = e.key => d.seq > e.seq)
<1>1. PICK kd \in Keys, ke \in Keys, sd \in Nat, se \in Nat :
         d.key = kd /\ e.key = ke /\ d.seq = sd /\ e.seq = se
  BY Zenon, EntryType
<1>2. PICK rd \in Nat, re \in Nat : Rank[kd] = rd /\ Rank[ke] = re
  BY Zenon, RankType
<1>3. rd < re \/ (kd = ke /\ sd > se)
  BY Zenon, <1>1, <1>2 DEF Precedes, ILess
<1>4. ~Precedes(e, d) <=> ~(re < rd) /\ ~(ke = kd /\ se > sd)
  BY Zenon, <1>1, <1>2 DEF Precedes, ILess
<1> QED BY <1>1, <1>2, <1>3, <1>4

(* Two entries with different sequence numbers are ordered. *)
LEMMA PrecedesTotal ==
  ASSUME NEW es, Proper(es), NEW d \in es, NEW e \in es
  PROVE  d = e \/ Precedes(d, e) \/ Precedes(e, d)
<1>1. PICK kd \in Keys, ke \in Keys, sd \in Nat, se \in Nat :
         d.key = kd /\ e.key = ke /\ d.seq = sd /\ e.seq = se
  BY Zenon, ProperType
<1>2. PICK rd \in Nat, re \in Nat : Rank[kd] = rd /\ Rank[ke] = re
  BY Zenon, RankType
<1>3. sd = se => d = e
  BY Zenon, <1>1 DEF Proper
<1>4. rd = re => kd = ke
  BY Zenon, <1>2, LevelsAssumption
<1>5. rd < re \/ re < rd \/ (kd = ke /\ sd > se) \/ (ke = kd /\ se > sd) \/ sd = se
  BY <1>4
<1> QED BY Zenon, <1>1, <1>2, <1>3, <1>5 DEF Precedes, ILess

(* Every table has a smallest and a largest entry. *)
LEMMA SmallestIs ==
  ASSUME NEW f, Proper(f), f # {}
  PROVE  Smallest(f) \in f /\ \A d \in f : d = Smallest(f) \/ Precedes(Smallest(f), d)
<1> DEFINE T == {Rank[e.key] : e \in f}
<1>1. T \subseteq Nat /\ T # {}
  BY Zenon, ProperType
<1>2. PICK r \in T : \A y \in T : r <= y
  BY Zenon, <1>1, Least
<1>3. PICK a \in f : r = Rank[a.key]
  BY Zenon, <1>2
<1>4. \A d \in f : Rank[a.key] <= Rank[d.key]
  BY Zenon, <1>2, <1>3
<1> DEFINE U == {e.seq : e \in {d \in f : d.key = a.key}}
<1>5. U \subseteq Nat /\ U # {}
  BY Zenon, ProperType
<1>6. PICK n \in Nat : \A e \in f : e.seq <= n
  BY Zenon DEF Proper
<1>7. PICK s \in U : \A y \in U : y <= s
  <2>1. \A y \in U : y <= n
    BY Zenon, <1>6
  <2> HIDE DEF U
  <2> QED BY Zenon, <1>5, <2>1, Greatest
<1>8. PICK b \in f : b.key = a.key /\ b.seq = s
  BY Zenon, <1>7
<1>9. \A d \in f : d = b \/ Precedes(b, d)
  <2> TAKE d \in f
  <2>1. Rank[b.key] <= Rank[d.key] /\ Rank[b.key] \in Nat /\ Rank[d.key] \in Nat /\ b.seq \in Nat /\ d.seq \in Nat
    BY Zenon, <1>4, <1>8, ProperType
  <2>2. d.key = b.key => d.seq <= b.seq
    BY Zenon, <1>7, <1>8
  <2>3. Precedes(d, b) => ~(Rank[b.key] <= Rank[d.key]) \/ (d.key = b.key /\ ~(d.seq <= b.seq))
    BY <2>1 DEF Precedes, ILess
  <2> QED BY Zenon, <2>1, <2>2, <2>3, PrecedesTotal
<1> QED BY Zenon, <1>9 DEF Smallest

(* The same for the largest entry. *)
LEMMA LargestIs ==
  ASSUME NEW f, Proper(f), f # {}
  PROVE  Largest(f) \in f /\ \A d \in f : d = Largest(f) \/ Precedes(d, Largest(f))
<1> DEFINE T == {Rank[e.key] : e \in f}
<1>1. T \subseteq Nat /\ T # {} /\ \A y \in T : y <= NumKeys
  BY Zenon, ProperType, RankType
<1>2. PICK r \in T : \A y \in T : y <= r
  BY Zenon, <1>1, Greatest, RankType
<1>3. PICK a \in f : r = Rank[a.key]
  BY Zenon, <1>2
<1>4. \A d \in f : Rank[d.key] <= Rank[a.key]
  BY Zenon, <1>2, <1>3
<1> DEFINE U == {e.seq : e \in {d \in f : d.key = a.key}}
<1>5. U \subseteq Nat /\ U # {}
  BY Zenon, ProperType
<1>7. PICK s \in U : \A y \in U : s <= y
  BY Zenon, <1>5, Least
<1>8. PICK b \in f : b.key = a.key /\ b.seq = s
  BY Zenon, <1>7
<1>9. \A d \in f : d = b \/ Precedes(d, b)
  <2> TAKE d \in f
  <2>1. Rank[d.key] <= Rank[b.key] /\ Rank[b.key] \in Nat /\ Rank[d.key] \in Nat /\ b.seq \in Nat /\ d.seq \in Nat
    BY Zenon, <1>4, <1>8, ProperType
  <2>2. d.key = b.key => b.seq <= d.seq
    BY Zenon, <1>7, <1>8
  <2>3. Precedes(b, d) => ~(Rank[d.key] <= Rank[b.key]) \/ (d.key = b.key /\ ~(b.seq <= d.seq))
    BY <2>1 DEF Precedes, ILess
  <2> QED BY Zenon, <2>1, <2>2, <2>3, PrecedesTotal
<1> QED BY Zenon, <1>9 DEF Largest

(* The ends of a table, and the keys between them. *)
LEMMA Ends ==
  ASSUME NEW es, Proper(es), NEW f, Table(f, es)
  PROVE  /\ Smallest(f) \in f /\ Largest(f) \in f /\ Lo(f) \in Keys /\ Hi(f) \in Keys /\ Proper(f)
         /\ \A e \in f : /\ e \in Entry /\ e.key \in Keys /\ Rank[Lo(f)] <= Rank[e.key] /\ Rank[e.key] <= Rank[Hi(f)]
                         /\ e = Smallest(f) \/ Precedes(Smallest(f), e)
                         /\ e = Largest(f) \/ Precedes(e, Largest(f))
<1>1. Proper(f) /\ f # {}
  BY Zenon, ProperPart DEF Table
<1>2. /\ Smallest(f) \in f /\ \A d \in f : d = Smallest(f) \/ Precedes(Smallest(f), d)
      /\ Largest(f) \in f /\ \A d \in f : d = Largest(f) \/ Precedes(d, Largest(f))
  BY Zenon, <1>1, SmallestIs, LargestIs
<1>3. \A e \in f : e \in Entry /\ e.key \in Keys /\ Rank[e.key] \in Nat
  BY Zenon, <1>1, ProperType
<1>4. \A e \in f : Rank[e.key] <= Rank[e.key]
  BY <1>3
<1>5. \A e \in f : Rank[Smallest(f).key] <= Rank[e.key] /\ Rank[e.key] <= Rank[Largest(f).key]
  BY Zenon, <1>2, <1>3, <1>4, PrecedesIrreflexive
<1> QED BY Zenon, <1>1, <1>2, <1>3, <1>5 DEF Lo, Hi

(* f lies before g in the order of entries. *)
Left(f, g) == \A d \in f, e \in g : Precedes(d, e)

(* Comparing the end points of two files compares all of their entries. *)
LEMMA LeftIs ==
  ASSUME NEW es, Proper(es), NEW f, NEW g, Table(f, es), Table(g, es)
  PROVE  Precedes(Largest(f), Smallest(g)) <=> Left(f, g)
<1>1. /\ Largest(f) \in f /\ Smallest(g) \in g /\ Smallest(g) \in Entry /\ Largest(f) \in Entry
      /\ \A e \in f : e \in Entry /\ (e = Largest(f) \/ Precedes(e, Largest(f)))
      /\ \A e \in g : e \in Entry /\ (e = Smallest(g) \/ Precedes(Smallest(g), e))
  BY Zenon, Ends
<1>2. Left(f, g) => Precedes(Largest(f), Smallest(g))
  BY Zenon, <1>1 DEF Left
<1>3. ASSUME Precedes(Largest(f), Smallest(g)), NEW d \in f, NEW e \in g
      PROVE  Precedes(d, e)
  <2>1. Precedes(d, Smallest(g))
    BY Zenon, <1>1, <1>3, PrecedesTransitive
  <2> QED BY Zenon, <1>1, <2>1, PrecedesTransitive
<1> QED BY Zenon, <1>2, <1>3 DEF Left

(* A smaller rank. *)
LEMMA RankLeft ==
  ASSUME NEW es, Proper(es), NEW f, NEW g, Table(f, es), Table(g, es), NEW b \in Keys
  PROVE  /\ Rank[Hi(f)] < Rank[b] /\ Rank[b] <= Rank[Lo(g)] => Left(f, g) /\ Apart(f, g) /\ Apart(g, f)
         /\ Rank[Hi(f)] <= Rank[b] /\ Rank[b] < Rank[Lo(g)] => Left(f, g) /\ Apart(f, g) /\ Apart(g, f)
<1>1. PICK r \in Nat, hf \in Nat, lg \in Nat : r = Rank[b] /\ hf = Rank[Hi(f)] /\ lg = Rank[Lo(g)]
  BY Zenon, RankType, Ends
<1>2. SUFFICES ASSUME hf < lg PROVE Left(f, g) /\ Apart(f, g) /\ Apart(g, f)
  <2>1. (hf < r /\ r <= lg => hf < lg) /\ (hf <= r /\ r < lg => hf < lg)
    OBVIOUS
  <2> QED BY Zenon, <1>1, <2>1
<1>3. ASSUME NEW d \in f, NEW e \in g PROVE Rank[d.key] < Rank[e.key] /\ d.key # e.key
  <2>1. d \in Entry /\ e \in Entry /\ Rank[d.key] <= hf /\ lg <= Rank[e.key]
    BY Zenon, Ends, <1>1
  <2>2. PICK rd \in Nat, re \in Nat : rd = Rank[d.key] /\ re = Rank[e.key]
    BY Zenon, <2>1, EntryType
  <2>3. rd < re /\ rd # re
    BY <2>1, <2>2, <1>2
  <2> QED BY Zenon, <2>2, <2>3
<1> QED BY Zenon, <1>3 DEF Left, Apart, Precedes, ILess

(* What misses a range lies beside it. *)
LEMMA Missed ==
  ASSUME NEW es, Proper(es), NEW g, Table(g, es), NEW b \in Keys, NEW e \in Keys, ~Touches(g, b, e)
  PROVE  Rank[Hi(g)] < Rank[b] \/ Rank[e] < Rank[Lo(g)]
<1>1. PICK hg \in Nat, lg \in Nat, rb \in Nat, re \in Nat :
         hg = Rank[Hi(g)] /\ lg = Rank[Lo(g)] /\ rb = Rank[b] /\ re = Rank[e]
  BY Zenon, Ends, RankType
<1>2. ~(hg >= rb) \/ ~(lg <= re)
  BY Zenon, <1>1 DEF Touches
<1>3. hg < rb \/ re < lg
  BY <1>2
<1> QED BY Zenon, <1>1, <1>3

(* A file that a range misses shares no key with a file inside the range,  *)
(* and lies on one side of it.                                             *)
LEMMA MissedApart ==
  ASSUME NEW es, Proper(es), NEW f, NEW g, Table(f, es), Table(g, es),
         NEW b \in Keys, NEW e \in Keys, ~Touches(g, b, e), Rank[b] <= Rank[Lo(f)], Rank[Hi(f)] <= Rank[e]
  PROVE  (Left(f, g) \/ Left(g, f)) /\ Apart(f, g) /\ Apart(g, f)
BY Zenon, Missed, RankLeft

(* With a bytewise Comparator the byte order of keys is their order. *)
LEMMA BytewiseLe ==
  ASSUME Bytewise, NEW j \in Keys, NEW k \in Keys, j <= k
  PROVE  Rank[j] <= Rank[k]
<1>1. j = k \/ j < k
  BY DEF Keys
<1>2. Rank[j] \in Nat /\ Rank[k] \in Nat
  BY Zenon, RankType
<1>3. j = k \/ Rank[j] < Rank[k]
  BY Zenon, <1>1 DEF Bytewise
<1> QED BY <1>2, <1>3

(* The range of several tables, if bytes are compared as keys are. *)
LEMMA RangeIs ==
  ASSUME Bytewise, NEW es, Proper(es), NEW fs, fs # {}, \A f \in fs : Table(f, es)
  PROVE  /\ UserRange(fs)[1] \in Keys /\ UserRange(fs)[2] \in Keys
         /\ \A f \in fs : Rank[UserRange(fs)[1]] <= Rank[Lo(f)] /\ Rank[Hi(f)] <= Rank[UserRange(fs)[2]]
<1> DEFINE los == {Lo(f) : f \in fs}
           his == {Hi(f) : f \in fs}
<1>1. los \subseteq Keys /\ his \subseteq Keys /\ los # {} /\ his # {}
  BY Zenon, Ends
<1>2. \A k \in Keys : k \in Nat /\ k <= NumKeys
  BY Zenon, RankType
<1>3. Min(los) \in los /\ \A k \in los : Min(los) <= k
  BY Zenon, <1>1, <1>2, MinIs
<1>4. Max(his) \in his /\ \A k \in his : k <= Max(his)
  BY Zenon, <1>1, <1>2, MaxIs, RankType
<1>5. UserRange(fs) = <<Min(los), Max(his)>>
  BY Zenon DEF UserRange
<1> HIDE DEF los, his
<1>6. UserRange(fs)[1] = Min(los) /\ UserRange(fs)[2] = Max(his)
  BY <1>5
<1>7. \A f \in fs : Lo(f) \in los /\ Hi(f) \in his
  BY Zenon DEF los, his
<1>8. \A f \in fs : Rank[Min(los)] <= Rank[Lo(f)] /\ Rank[Hi(f)] <= Rank[Max(his)]
  BY Zenon, <1>1, <1>3, <1>4, <1>7, BytewiseLe
<1> QED BY Zenon, <1>1, <1>3, <1>4, <1>6, <1>8

(* The outputs of a merge: nonempty, side by side, and all there is. *)
LEMMA CutIs ==
  ASSUME NEW es, Proper(es), NEW n
  PROVE  /\ \A p \in Cut(es, n) : p # {} /\ p \subseteq es
         /\ \A p, q \in Cut(es, n) : p # q => Left(p, q) \/ Left(q, p)
         /\ \A e \in es : \E p \in Cut(es, n) : e \in p
<1> DEFINE B == Begins(es, n)
           P(b) == {e \in es : (b = e \/ Precedes(b, e)) /\ \A c \in B : Precedes(b, c) => Precedes(e, c)}
<1>1. B \subseteq es /\ \A e \in es : (\A d \in es : ~Precedes(d, e)) => e \in B
  BY Zenon DEF Begins
<1>2. Cut(es, n) = {P(b) : b \in B}
  BY Zenon DEF Cut
<1> HIDE DEF B
<1>3. \A e \in es : e \in Entry
  BY Zenon DEF Proper
<1>4. \A b \in B : b \in P(b) /\ P(b) \subseteq es
  BY Zenon, <1>1
<1>5. ASSUME NEW b \in B, NEW c \in B, Precedes(b, c) PROVE Left(P(b), P(c))
  <2> SUFFICES ASSUME NEW d \in P(b), NEW e \in P(c) PROVE Precedes(d, e)
    BY Zenon DEF Left
  <2>1. Precedes(d, c) /\ (c = e \/ Precedes(c, e)) /\ d \in es /\ e \in es /\ c \in es
    BY Zenon, <1>1, <1>5
  <2> QED BY Zenon, <2>1, <1>3, PrecedesTransitive
<1>6. ASSUME NEW b \in B, NEW c \in B, P(b) # P(c) PROVE Left(P(b), P(c)) \/ Left(P(c), P(b))
  <2>1. b \in es /\ c \in es /\ (b # c)
    BY Zenon, <1>1, <1>6
  <2>2. Precedes(b, c) \/ Precedes(c, b)
    BY Zenon, <2>1, PrecedesTotal
  <2> QED BY Zenon, <2>2, <1>5
<1>7. ASSUME NEW e \in es PROVE \E b \in B : e \in P(b)
  <2> DEFINE U == {b \in B : b = e \/ Precedes(b, e)}
  <2>1. Smallest(es) \in es /\ \A d \in es : d = Smallest(es) \/ Precedes(Smallest(es), d)
    BY Zenon, SmallestIs
  <2>2. Smallest(es) \in B
    BY Zenon, <2>1, <1>1, <1>3, PrecedesIrreflexive
  <2>3. Smallest(es) \in U /\ U \subseteq es /\ U # {}
    BY Zenon, <2>1, <2>2, <1>1
  <2>4. Proper(U)
    BY Zenon, <2>3, ProperPart
  <2> DEFINE b == Largest(U)
  <2>5. b \in U /\ \A d \in U : d = b \/ Precedes(d, b)
    BY Zenon, <2>3, <2>4, LargestIs
  <2> HIDE DEF b
  <2>6. ASSUME NEW c \in B, Precedes(b, c) PROVE Precedes(e, c)
    <3>1. b \in es /\ c \in es
      BY Zenon, <1>1, <2>5
    <3>2. c \notin U
      BY Zenon, <2>5, <2>6, <1>3, <3>1, PrecedesIrreflexive
    <3> QED BY Zenon, <3>1, <3>2, PrecedesTotal
  <2> QED BY Zenon, <2>5, <2>6
<1> HIDE DEF P
<1> QED BY Zenon, <1>2, <1>4, <1>6, <1>7
-----------------------------------------------------------------------------
(* get_overlapping_inputs. *)

(* Level numbers. *)
LEMMA Sizes == ASSUME setup \in Setups
               PROVE  /\ NumLevels \in Nat \ {0, 1} /\ MaxMemLevel \in 0 .. NumLevels - 1
                      /\ Deep \subseteq Nat /\ 0 \notin Deep
                      /\ \A l \in 0 .. NumLevels - 2 : l \in Nat /\ l \in 0 .. NumLevels - 1
                           /\ l + 1 \in Deep /\ l # l + 1 /\ (l # 0 => l \in Deep) /\ l + 1 # 0
                      /\ \A l \in 0 .. NumLevels - 1 : l \in Nat /\ (l = 0 \/ l \in Deep)
                      /\ \A l \in Deep : l > 0 /\ l \in 0 .. NumLevels - 1 /\ l # 0
<1>1. NumLevels \in Nat \ {0, 1} /\ MaxMemLevel \in 0 .. NumLevels - 1
  BY Zenon, LevelsAssumption DEF NumLevels, MaxMemLevel
<1> QED BY <1>1 DEF Deep

(* The files of level 0, and of a deeper level. *)
LEMMA FilesAre ==
  ASSUME setup \in Setups
  PROVE  /\ Files(0) = Range(l0) /\ \A l \in Deep : Files(l) = levels[l]
         /\ \A f : f \in Range(l0) <=> \E i \in DOMAIN l0 : f = l0[i]
BY Zenon, Sizes DEF Files, Range

(* Every file of the tree is a nonempty set of entries that were written. *)
LEMMA FilesAreTables ==
  ASSUME Types
  PROVE  /\ \A f \in Range(l0) : Table(f, log)
         /\ \A l \in Deep : \A f \in levels[l] : Table(f, log)
         /\ \A l \in 0 .. NumLevels - 1 : \A f \in Files(l) : Table(f, log)
<1>1. setup \in Setups /\ (\A i \in DOMAIN l0 : Table(l0[i], log)) /\ \A l \in Deep : \A f \in levels[l] : Table(f, log)
  BY Zenon DEF Types, StoreTypes, TreeTypes
<1>2. \A f \in Range(l0) : Table(f, log)
  BY Zenon, <1>1, FilesAre
<1>3. ASSUME NEW l \in 0 .. NumLevels - 1, NEW f \in Files(l) PROVE Table(f, log)
  <2>1. l = 0 \/ l \in Deep
    BY Zenon, <1>1, Sizes
  <2> QED BY Zenon, <1>1, <1>2, <1>3, <2>1, FilesAre
<1> QED BY Zenon, <1>1, <1>2, <1>3

(* get_overlapping_inputs on a sorted level is the files that meet the     *)
(* range.                                                                  *)
LEMMA OverlapDeep ==
  ASSUME setup \in Setups, NEW l \in Deep, NEW b, NEW e
  PROVE  Overlapping(l, b, e) = {f \in levels[l] : Touches(f, b, e)}
BY Zenon, FilesAre, Sizes DEF Overlapping

(* At level 0 the files found share no key with the others. *)
LEMMA OverlapL0 ==
  ASSUME Types, NEW b \in Keys \cup {None}, NEW e \in Keys \cup {None}
  PROVE  /\ Overlapping(0, b, e) \subseteq Range(l0)
         /\ (\E f \in Range(l0) : Touches(f, b, e)) => Overlapping(0, b, e) # {}
         /\ \A f \in Overlapping(0, b, e) : \A g \in Range(l0) \ Overlapping(0, b, e) : Apart(f, g)
<1> DEFINE met == {f \in Range(l0) : Touches(f, b, e)}
           I == {i \in DOMAIN l0 : l0[i] \in met}
           first == l0[Min(I)]
           b2 == IF b = None THEN Lo(first) ELSE b
           e2 == IF e = None THEN Hi(first) ELSE e
           R == Closed(b2, e2)
           O == {f \in Range(l0) : \A r \in R : Touches(f, r[1], r[2])}
<1>1. Files(0) = Range(l0) /\ (\A f : f \in Range(l0) <=> \E i \in DOMAIN l0 : f = l0[i]) /\ DOMAIN l0 \subseteq Nat
  BY Zenon, FilesAre DEF Types, StoreTypes, TreeTypes
<1>2. Overlapping(0, b, e) = IF 0 > 0 \/ met = {} THEN met ELSE O
  BY Zenon, <1>1 DEF Overlapping
<1>3. ~(0 > 0)
  OBVIOUS
<1>4. CASE met = {}
  BY Zenon, <1>2, <1>4
<1>5. CASE met # {}
  <2>1. Overlapping(0, b, e) = O
    BY Zenon, <1>2, <1>3, <1>5
  <2>2. I # {} /\ I \subseteq Nat
    BY Zenon, <1>1, <1>5
  <2>3. Min(I) \in I
    BY Zenon, <2>2, MinIs
  <2>4. first \in met /\ first \in Range(l0) /\ Touches(first, b, e)
    BY Zenon, <2>3
  <2>5. \A f \in Range(l0) : Table(f, log)
    BY Zenon, FilesAreTables
  <2>6. Proper(log)
    BY Zenon DEF Types, StoreTypes, TreeTypes
  <2>7. \A r \in R : /\ r[1] \in Keys /\ r[2] \in Keys /\ Rank[r[1]] <= Rank[b2] /\ Rank[e2] <= Rank[r[2]]
                     /\ \A f \in Range(l0) : Touches(f, r[1], r[2]) => Rank[r[1]] <= Rank[Lo(f)] /\ Rank[Hi(f)] <= Rank[r[2]]
    <3>1. \A r \in Keys \X Keys : r[1] \in Keys /\ r[2] \in Keys
      OBVIOUS
    <3> QED BY Zenon, <3>1 DEF Closed
  <2> HIDE DEF R
  <2>8. ASSUME NEW r \in R PROVE Touches(first, r[1], r[2])
    <3>1. Lo(first) \in Keys /\ Hi(first) \in Keys /\ Smallest(first) \in first
          /\ Rank[Lo(first)] <= Rank[Hi(first)]
      BY Zenon, Ends, <2>4, <2>5, <2>6 DEF Lo, Hi
    <3>2. (b = None \/ Rank[Hi(first)] >= Rank[b]) /\ (e = None \/ Rank[Lo(first)] <= Rank[e])
      BY Zenon, <2>4 DEF Touches
    <3>3. b2 \in Keys /\ e2 \in Keys
      BY Zenon, <3>1
    <3>4. PICK r1 \in Nat, r2 \in Nat, lf \in Nat, hf \in Nat, rb \in Nat, re \in Nat :
            r1 = Rank[r[1]] /\ r2 = Rank[r[2]] /\ lf = Rank[Lo(first)] /\ hf = Rank[Hi(first)]
              /\ rb = Rank[b2] /\ re = Rank[e2]
      BY Zenon, <3>1, <3>3, <2>7, RankType
    <3>5. rb = lf \/ hf >= rb
      BY Zenon, <3>2, <3>4
    <3>6. re = hf \/ lf <= re
      BY Zenon, <3>2, <3>4
    <3>7. r1 <= rb /\ re <= r2 /\ lf <= hf
      BY Zenon, <3>1, <3>4, <2>7
    <3>8. hf >= r1 /\ lf <= r2
      BY <3>5, <3>6, <3>7
    <3> QED BY Zenon, <3>4, <3>8 DEF Touches
  <2>9. first \in O
    BY Zenon, <2>4, <2>8
  <2>10. ASSUME NEW f \in O, NEW g \in Range(l0) \ O PROVE Apart(f, g)
    <3>1. PICK r \in R : ~Touches(g, r[1], r[2])
      BY Zenon, <2>10
    <3>2. Rank[r[1]] <= Rank[Lo(f)] /\ Rank[Hi(f)] <= Rank[r[2]] /\ r[1] \in Keys /\ r[2] \in Keys
      BY Zenon, <2>7, <2>10, <3>1
    <3>3. Table(f, log) /\ Table(g, log)
      BY Zenon, <2>5, <2>10
    <3> QED BY Zenon, <3>1, <3>2, <3>3, <2>6, MissedApart
  <2> QED BY Zenon, <2>1, <2>9, <2>10
<1> QED BY Zenon, <1>4, <1>5

(* pick_level_for_memtable_output finds a level with nothing in the way. *)
LEMMA MemLevelIs ==
  ASSUME Types, NEW f, Table(f, log)
  PROVE  /\ MemLevel(f) \in 0 .. NumLevels - 1
         /\ MemLevel(f) # 0 =>
              /\ \A g \in Range(l0) : ~Touches(g, Lo(f), Hi(f))
              /\ \A j \in 1 .. MemLevel(f) : \A g \in levels[j] : ~Touches(g, Lo(f), Hi(f))
<1> DEFINE Free(l) == Overlapping(l, Lo(f), Hi(f)) = {}
           Step(l) == /\ Free(l + 1)
                      /\ l + 2 < NumLevels => Size(Overlapping(l + 2, Lo(f), Hi(f))) <= MaxGrandparents
           T == {l \in 0 .. MaxMemLevel : \A j \in 0 .. l - 1 : Step(j)}
<1>1. MemLevel(f) = IF Free(0) THEN Max(T) ELSE 0
  BY Zenon DEF MemLevel
<1>2. setup \in Setups /\ Proper(log)
  BY Zenon DEF Types, StoreTypes, TreeTypes
<1>3. NumLevels \in Nat \ {0, 1} /\ MaxMemLevel \in 0 .. NumLevels - 1
  BY Zenon, <1>2, Sizes
<1>4. \A l \in T : \A j \in 0 .. l - 1 : Free(j + 1)
  BY Zenon
<1>5. 0 \in T
  <2>1. 0 \in 0 .. MaxMemLevel /\ 0 .. 0 - 1 = {}
    BY <1>3
  <2> QED BY Zenon, <2>1
<1>6. T \subseteq 0 .. MaxMemLevel
  BY Zenon
<1> HIDE DEF T
<1>7. Max(T) \in T
  <2>1. MaxMemLevel \in Nat /\ T \subseteq Nat /\ \A l \in T : l <= MaxMemLevel
    BY <1>3, <1>6
  <2> QED BY Zenon, <2>1, <1>5, MaxIs
<1>8. MemLevel(f) \in 0 .. NumLevels - 1
  <2>1. 0 \in 0 .. NumLevels - 1 /\ 0 .. MaxMemLevel \subseteq 0 .. NumLevels - 1
    BY <1>3
  <2> QED BY Zenon, <1>1, <1>6, <1>7, <2>1
<1>9. ASSUME MemLevel(f) # 0
      PROVE  /\ \A g \in Range(l0) : ~Touches(g, Lo(f), Hi(f))
             /\ \A j \in 1 .. MemLevel(f) : \A g \in levels[j] : ~Touches(g, Lo(f), Hi(f))
  <2>1. Free(0) /\ MemLevel(f) \in T
    BY Zenon, <1>1, <1>7, <1>9
  <2>2. Lo(f) \in Keys /\ Hi(f) \in Keys
    BY Zenon, <1>2, Ends
  <2>3. \A g \in Range(l0) : ~Touches(g, Lo(f), Hi(f))
    BY Zenon, <2>1, <2>2, OverlapL0
  <2>4. ASSUME NEW j \in 1 .. MemLevel(f) PROVE j \in Deep /\ Free(j)
    <3>1. j \in Deep /\ j - 1 \in 0 .. MemLevel(f) - 1 /\ j = (j - 1) + 1
      BY <1>3, <1>8, <2>4 DEF Deep
    <3> HIDE DEF Free
    <3>2. Free((j - 1) + 1)
      BY Zenon, <3>1, <2>1, <1>4
    <3> QED BY Zenon, <3>1, <3>2
  <2>5. ASSUME NEW j \in 1 .. MemLevel(f), NEW g \in levels[j] PROVE ~Touches(g, Lo(f), Hi(f))
    <3>1. Overlapping(j, Lo(f), Hi(f)) = {h \in levels[j] : Touches(h, Lo(f), Hi(f))}
      BY Zenon, <2>4, <1>2, OverlapDeep
    <3> QED BY Zenon, <3>1, <2>4, <2>5
  <2> QED BY Zenon, <2>3, <2>5
<1> QED BY Zenon, <1>8, <1>9

(* setup_other_inputs. *)
LEMMA SetUpIs ==
  ASSUME Bytewise, Types, NEW l \in 0 .. NumLevels - 2, NEW in0, in0 # {}, in0 \subseteq Files(l),
         l = 0 => \A f \in in0 : \A g \in Range(l0) \ in0 : Apart(f, g)
  PROVE  Inputs(SetUp(l, in0)) /\ SetUp(l, in0).stage = "picked"
<1> DEFINE r == UserRange(in0)
           in1 == Overlapping(l + 1, r[1], r[2])
           all == UserRange(in0 \cup in1)
           grown0 == Overlapping(l, all[1], all[2])
           g == UserRange(grown0)
           grown1 == Overlapping(l + 1, g[1], g[2])
           grows == /\ in1 # {} /\ Cardinality(grown0) > Cardinality(in0)
                    /\ Size(in1) + Size(grown0) < ExpandedLimit
                    /\ Cardinality(grown1) = Cardinality(in1)
           M(a, b) == [level |-> l, in0 |-> a, in1 |-> b, stage |-> "picked"]
<1>1. SetUp(l, in0) = IF grows THEN M(grown0, grown1) ELSE M(in0, in1)
  BY Zenon DEF SetUp
<1>2. setup \in Setups /\ Proper(log)
  BY Zenon DEF Types, StoreTypes, TreeTypes
<1>3. l + 1 \in Deep /\ l \in 0 .. NumLevels - 1 /\ (l = 0 \/ l \in Deep)
  BY Zenon, <1>2, Sizes
<1>4. \A a, b : M(a, b).level = l /\ M(a, b).in0 = a /\ M(a, b).in1 = b /\ M(a, b).stage = "picked"
  OBVIOUS
<1> HIDE DEF M
<1>5. ASSUME NEW a, a # {}, a \subseteq Files(l), l = 0 => \A f \in a : \A h \in Range(l0) \ a : Apart(f, h)
      PROVE  Inputs(M(a, Overlapping(l + 1, UserRange(a)[1], UserRange(a)[2])))
  <2> DEFINE b == Overlapping(l + 1, UserRange(a)[1], UserRange(a)[2])
  <2>1. b = {f \in levels[l + 1] : Touches(f, UserRange(a)[1], UserRange(a)[2])}
    BY Zenon, <1>2, <1>3, OverlapDeep
  <2> HIDE DEF b
  <2>2. M(a, b).level = l /\ M(a, b).in0 = a /\ M(a, b).in1 = b
    BY Zenon, <1>4
  <2>3. Inputs(M(a, b))
    BY Zenon, <2>1, <2>2, <1>5 DEF Inputs
  <2> QED BY Zenon, <2>3 DEF b
<1>6. grown0 # {} /\ grown0 \subseteq Files(l) /\ (l = 0 => \A f \in grown0 : \A h \in Range(l0) \ grown0 : Apart(f, h))
  <2>1. in1 = {f \in levels[l + 1] : Touches(f, r[1], r[2])}
    BY Zenon, <1>2, <1>3, OverlapDeep
  <2>2. \A f \in in0 \cup in1 : Table(f, log)
    BY Zenon, <2>1, <1>3, FilesAreTables
  <2>3. in0 \cup in1 # {}
    BY Zenon
  <2> HIDE DEF in1
  <2>4. /\ all[1] \in Keys /\ all[2] \in Keys
        /\ \A f \in in0 \cup in1 : Rank[all[1]] <= Rank[Lo(f)] /\ Rank[Hi(f)] <= Rank[all[2]]
    BY Zenon, <1>2, <2>2, <2>3, RangeIs
  <2> HIDE DEF all
  <2>5. PICK f \in in0 : TRUE
    BY Zenon
  <2>6. f \in Files(l) /\ Table(f, log)
    BY Zenon, <2>2
  <2>7. Touches(f, all[1], all[2])
    <3>1. Rank[all[1]] <= Rank[Lo(f)] /\ Rank[Hi(f)] <= Rank[all[2]] /\ Rank[Lo(f)] <= Rank[Hi(f)]
            /\ Lo(f) \in Keys /\ Hi(f) \in Keys
      BY Zenon, <2>4, <2>6, <1>2, Ends DEF Lo
    <3>2. PICK r1 \in Nat, r2 \in Nat, lf \in Nat, hf \in Nat :
             r1 = Rank[all[1]] /\ r2 = Rank[all[2]] /\ lf = Rank[Lo(f)] /\ hf = Rank[Hi(f)]
      BY Zenon, <3>1, <2>4, RankType
    <3>3. hf >= r1 /\ lf <= r2
      BY <3>1, <3>2
    <3> QED BY Zenon, <3>2, <3>3 DEF Touches
  <2>8. CASE l = 0
    BY Zenon, <2>4, <2>6, <2>7, <2>8, <1>2, OverlapL0, FilesAre
  <2>9. CASE l \in Deep
    <3>1. grown0 = {h \in levels[l] : Touches(h, all[1], all[2])}
      BY Zenon, <2>9, <1>2, OverlapDeep
    <3>2. Files(l) = levels[l] /\ l # 0
      BY Zenon, <2>9, <1>2, FilesAre, Sizes
    <3> HIDE DEF grown0
    <3> QED BY Zenon, <3>1, <3>2, <2>6, <2>7
  <2> QED BY Zenon, <1>3, <2>8, <2>9
<1> HIDE DEF grown0, grows
<1>7. Inputs(M(grown0, grown1)) /\ Inputs(M(in0, in1))
  BY Zenon, <1>5, <1>6
<1> HIDE DEF grown1, in1
<1>8. SetUp(l, in0) = M(grown0, grown1) \/ SetUp(l, in0) = M(in0, in1)
  BY Zenon, <1>1
<1>9. M(grown0, grown1).stage = "picked" /\ M(in0, in1).stage = "picked"
  BY Zenon, <1>4
<1> QED BY Zenon, <1>7, <1>8, <1>9
-----------------------------------------------------------------------------
(* What the steps do to the tree. *)

SideBySide(fs) == \A f, g \in fs : f # g => Left(f, g) \/ Left(g, f)

(* LevelsSorted in terms of all entries instead of end points. *)
LEMMA SortedIs == ASSUME Types PROVE LevelsSorted <=> \A l \in Deep : SideBySide(levels[l])
<1>1. Proper(log) /\ \A l \in Deep : \A f \in levels[l] : Table(f, log)
  BY Zenon DEF Types, StoreTypes, TreeTypes
<1>2. ASSUME NEW l \in Deep, NEW f \in levels[l], NEW g \in levels[l]
      PROVE  /\ Precedes(Largest(f), Smallest(g)) <=> Left(f, g)
             /\ Precedes(Largest(g), Smallest(f)) <=> Left(g, f)
  BY Zenon, <1>1, <1>2, LeftIs
<1> QED BY Zenon, <1>2 DEF LevelsSorted, SideBySide

(* The same in the next state. *)
LEMMA SortedIsNext == ASSUME Types' PROVE LevelsSorted' <=> \A l \in Deep' : SideBySide(levels'[l])
<1>1. Proper(log') /\ \A l \in Deep' : \A f \in levels'[l] : Table(f, log')
  BY Zenon DEF Types, StoreTypes, TreeTypes, Proper, Table
<1>2. ASSUME NEW l \in Deep', NEW f \in levels'[l], NEW g \in levels'[l]
      PROVE  /\ Precedes(Largest(f), Smallest(g)) <=> Left(f, g)
             /\ Precedes(Largest(g), Smallest(f)) <=> Left(g, f)
  BY Zenon, <1>1, <1>2, LeftIs
<1> QED BY Zenon, <1>2 DEF LevelsSorted, SideBySide

(* A file of the lower level that is not an input lies on one side of them.*)
LEMMA Beside ==
  ASSUME Bytewise, Types, LevelsSorted, NEW c, Inputs(c), NEW g \in levels[c.level + 1] \ c.in1
  PROVE  /\ (\A f \in c.in0 \cup c.in1 : Left(f, g)) \/ (\A f \in c.in0 \cup c.in1 : Left(g, f))
         /\ \A f \in c.in0 : Apart(f, g) /\ Apart(g, f)
<1> DEFINE a == UserRange(c.in0)[1]
           b == UserRange(c.in0)[2]
<1>1. /\ setup \in Setups /\ Proper(log) /\ c.level \in 0 .. NumLevels - 2 /\ c.in0 \subseteq Files(c.level) /\ c.in0 # {}
      /\ c.in1 = {f \in levels[c.level + 1] : Touches(f, a, b)}
  BY Zenon DEF Types, StoreTypes, Inputs
<1>2. c.level + 1 \in Deep /\ c.level \in 0 .. NumLevels - 1
  BY Zenon, <1>1, Sizes
<1>3. /\ \A f \in c.in0 : Table(f, log)
      /\ \A f \in levels[c.level + 1] : Table(f, log)
  BY Zenon, <1>1, <1>2, FilesAreTables
<1>4. /\ a \in Keys /\ b \in Keys
      /\ \A f \in c.in0 : Rank[a] <= Rank[Lo(f)] /\ Rank[Hi(f)] <= Rank[b]
  BY Zenon, <1>1, <1>3, RangeIs
<1> HIDE DEF a, b
<1>5. ~Touches(g, a, b) /\ Table(g, log)
  BY Zenon, <1>1, <1>3
<1>6. \A f \in c.in0 : Apart(f, g) /\ Apart(g, f)
  BY Zenon, <1>1, <1>3, <1>4, <1>5, MissedApart
<1>7. Rank[Hi(g)] < Rank[a] \/ Rank[b] < Rank[Lo(g)]
  BY Zenon, <1>1, <1>4, <1>5, Missed
<1>8. ASSUME NEW h \in c.in1
      PROVE  /\ Table(h, log) /\ (Left(g, h) \/ Left(h, g))
             /\ Rank[Hi(h)] >= Rank[a] /\ Rank[Lo(h)] <= Rank[b]
  <2>1. h \in levels[c.level + 1] /\ h # g /\ Touches(h, a, b)
    BY Zenon, <1>1, <1>8, <1>5
  <2>2. a # None /\ b # None
    BY Zenon, <1>4, RankType
  <2>3. SideBySide(levels[c.level + 1])
    BY Zenon, SortedIs, <1>2
  <2>4. Left(g, h) \/ Left(h, g)
    BY Zenon, <2>1, <2>3 DEF SideBySide
  <2> QED BY Zenon, <1>3, <2>1, <2>2, <2>4 DEF Touches
<1>9. ASSUME NEW h \in c.in1, Left(h, g) PROVE Rank[Hi(h)] <= Rank[Lo(g)]
  <2>1. Largest(h) \in h /\ Smallest(g) \in g /\ Largest(h) \in Entry /\ Smallest(g) \in Entry
    BY Zenon, <1>1, <1>5, <1>8, Ends
  <2>2. Precedes(Largest(h), Smallest(g))
    BY Zenon, <2>1, <1>9 DEF Left
  <2> QED BY Zenon, <2>1, <2>2, PrecedesIrreflexive DEF Hi, Lo
<1>10. ASSUME NEW h \in c.in1, Left(g, h) PROVE Rank[Hi(g)] <= Rank[Lo(h)]
  <2>1. Largest(g) \in g /\ Smallest(h) \in h /\ Largest(g) \in Entry /\ Smallest(h) \in Entry
    BY Zenon, <1>1, <1>5, <1>8, Ends
  <2>2. Precedes(Largest(g), Smallest(h))
    BY Zenon, <2>1, <1>10 DEF Left
  <2> QED BY Zenon, <2>1, <2>2, PrecedesIrreflexive DEF Hi, Lo
<1>11. PICK lg \in Nat, hg \in Nat, ra \in Nat, rb \in Nat : lg = Rank[Lo(g)] /\ hg = Rank[Hi(g)]
              /\ ra = Rank[a] /\ rb = Rank[b]
  BY Zenon, <1>1, <1>4, <1>5, Ends, RankType
<1>12. lg <= hg
  BY Zenon, <1>1, <1>5, <1>11, Ends DEF Lo
<1>13. CASE Rank[Hi(g)] < Rank[a]
  <2>1. \A f \in c.in0 : Left(g, f)
    BY Zenon, <1>1, <1>3, <1>4, <1>5, <1>13, RankLeft
  <2>2. ASSUME NEW h \in c.in1 PROVE Left(g, h)
    <3>1. PICK hh \in Nat : hh = Rank[Hi(h)] /\ hh >= ra
      BY Zenon, <1>1, <1>8, <1>11, Ends, RankType
    <3>2. ~(hh <= lg)
      BY <3>1, <1>11, <1>12, <1>13
    <3> QED BY Zenon, <3>1, <3>2, <1>8, <1>9, <1>11
  <2> QED BY Zenon, <2>1, <2>2, <1>6
<1>14. CASE Rank[b] < Rank[Lo(g)]
  <2>1. \A f \in c.in0 : Left(f, g)
    BY Zenon, <1>1, <1>3, <1>4, <1>5, <1>14, RankLeft
  <2>2. ASSUME NEW h \in c.in1 PROVE Left(h, g)
    <3>1. PICK lh \in Nat : lh = Rank[Lo(h)] /\ lh <= rb
      BY Zenon, <1>1, <1>8, <1>11, Ends, RankType
    <3>2. ~(hg <= lh)
      BY <3>1, <1>11, <1>12, <1>14
    <3> QED BY Zenon, <3>1, <3>2, <1>8, <1>10, <1>11
  <2> QED BY Zenon, <2>1, <2>2, <1>6
<1> QED BY Zenon, <1>7, <1>13, <1>14

(* A new table keeps the levels sorted. *)
LEMMA AddTableKeeps ==
  ASSUME Types, LevelsSorted, StoreTypes', setup' = setup, log' = log,
         NEW f, Table(f, log), AddTable(f, MemLevel(f))
  PROVE  TreeTypes' /\ LevelsSorted'
<1> DEFINE l == MemLevel(f)
<1>1. /\ setup \in Setups /\ Proper(log) /\ DOMAIN l0 \subseteq Nat
      /\ \A i \in DOMAIN l0 : Table(l0[i], log)
      /\ levels \in [Deep -> SUBSET SUBSET log]
      /\ \A k \in Deep : \A g \in levels[k] : Table(g, log)
  BY Zenon DEF Types, StoreTypes, TreeTypes
<1>2. PICK n \in Nat : \A i \in DOMAIN l0 : i <= n
  BY Zenon DEF Types, TreeTypes
<1>3. /\ l \in 0 .. NumLevels - 1 /\ (l = 0 \/ l \in Deep) /\ Lo(f) \in Keys /\ Hi(f) \in Keys
      /\ l # 0 => \A j \in 1 .. l : \A g \in levels[j] : ~Touches(g, Lo(f), Hi(f))
  BY Zenon, <1>1, MemLevelIs, Sizes, Ends
<1>4. Deep' = Deep /\ 0 \notin Deep
  BY Zenon, <1>1, Sizes DEF Deep, NumLevels
<1>5. SUFFICES TreeTypes' /\ \A k \in Deep : SideBySide(levels'[k])
  BY Zenon, <1>4, SortedIsNext DEF Types
<1>6. \A k \in Deep : SideBySide(levels[k])
  BY Zenon, SortedIs
<1>7. CASE l = 0
  <2> DEFINE m == 1 + Max({0} \cup DOMAIN l0)
  <2>1. l0' = [i \in DOMAIN l0 \cup {m} |-> IF i = m THEN f ELSE l0[i]] /\ levels' = levels
    BY Zenon, <1>7 DEF AddTable
  <2>2. PICK x \in Nat : x = Max({0} \cup DOMAIN l0)
    <3>1. \A i \in {0} \cup DOMAIN l0 : i \in Nat /\ i <= n
      BY <1>1, <1>2
    <3> QED BY Zenon, <3>1, MaxIs
  <2>3. m \in Nat
    BY <2>2
  <2> HIDE DEF m
  <2>4. DOMAIN l0' = DOMAIN l0 \cup {m} /\ \A i \in DOMAIN l0' : l0'[i] = IF i = m THEN f ELSE l0[i]
    BY Zenon, <2>1
  <2>5. DOMAIN l0' \subseteq Nat /\ (\A i \in DOMAIN l0' : Table(l0'[i], log))
    BY Zenon, <2>3, <2>4, <1>1
  <2>6. \E k \in Nat : \A i \in DOMAIN l0' : i <= k
    <3>1. n + m \in Nat /\ \A i \in DOMAIN l0' : i <= n + m
      BY <1>1, <1>2, <2>3, <2>4
    <3> QED BY Zenon, <3>1
  <2>7. TreeTypes'
    BY Zenon, <2>1, <2>5, <2>6, <1>1, <1>4 DEF TreeTypes, Table
  <2> QED BY Zenon, <2>7, <2>1, <1>6
<1>8. CASE l \in Deep
  <2>1. l0' = l0 /\ levels' = [levels EXCEPT ![l] = @ \cup {f}]
    BY Zenon, <1>4, <1>8 DEF AddTable
  <2> HIDE DEF l
  <2>2. \A k \in Deep : levels'[k] = IF k = l THEN levels[l] \cup {f} ELSE levels[k]
    BY Zenon, <2>1, <1>1
  <2>3. \A k \in Deep : \A g \in levels'[k] : Table(g, log)
    BY Zenon, <2>2, <1>1
  <2>4. levels' \in [Deep -> SUBSET SUBSET log]
    <3>1. levels[l] \cup {f} \in SUBSET SUBSET log
      BY Zenon, <1>1, <1>8 DEF Table
    <3> QED BY Zenon, <3>1, <2>1, <1>1
  <2>5. TreeTypes'
    BY Zenon, <2>1, <2>3, <2>4, <1>1, <1>2, <1>4 DEF TreeTypes, Table
  <2>6. ASSUME NEW g \in levels[l] PROVE Left(f, g) \/ Left(g, f)
    <3>1. l \in 1 .. l
      BY <1>8, <1>3 DEF Deep
    <3>2. ~Touches(g, Lo(f), Hi(f)) /\ Table(g, log)
      BY Zenon, <3>1, <1>1, <1>3, <1>4, <1>8, <2>6
    <3>3. Rank[Lo(f)] <= Rank[Lo(f)] /\ Rank[Hi(f)] <= Rank[Hi(f)]
      BY <1>3, RankType
    <3> QED BY Zenon, <3>2, <3>3, <1>1, <1>3, MissedApart
  <2>7. SideBySide(levels[l] \cup {f})
    BY Zenon, <1>6, <1>8, <2>6 DEF SideBySide
  <2>8. \A k \in Deep : SideBySide(levels'[k])
    BY Zenon, <1>6, <2>2, <2>7
  <2> QED BY Zenon, <2>5, <2>8
<1> QED BY Zenon, <1>3, <1>7, <1>8

(* The tree after a compaction. *)
LEMMA Replaced ==
  ASSUME Types, NEW c, Inputs(c), NEW out, setup' = setup, Replace(c.level, c.in0, c.in1, out)
  PROVE  /\ \A k \in Deep : levels'[k] = IF k = c.level THEN levels[k] \ c.in0
                                         ELSE IF k = c.level + 1 THEN (levels[k] \ c.in1) \cup out ELSE levels[k]
         /\ c.level # 0 => l0' = l0
         /\ c.level = 0 => /\ \A i \in DOMAIN l0' : i \in DOMAIN l0 /\ l0'[i] = l0[i] /\ l0[i] \notin c.in0
                           /\ \A i \in DOMAIN l0 : l0[i] \notin c.in0 => i \in DOMAIN l0'
         /\ c.level \in 0 .. NumLevels - 2 /\ c.level + 1 \in Deep /\ c.level # c.level + 1 /\ Deep' = Deep
<1>1. setup \in Setups /\ c.level \in 0 .. NumLevels - 2
  BY Zenon DEF Types, StoreTypes, Inputs
<1>2. levels' = [k \in Deep |-> IF k = c.level THEN levels[k] \ c.in0
                                ELSE IF k = c.level + 1 THEN (levels[k] \ c.in1) \cup out ELSE levels[k]]
  BY Zenon DEF Replace
<1>3. c.level = 0 => l0' = [i \in {i \in DOMAIN l0 : l0[i] \notin c.in0} |-> l0[i]]
  BY Zenon DEF Replace, Restrict
<1>4. c.level # 0 => l0' = l0
  BY Zenon DEF Replace
<1>5. c.level + 1 \in Deep /\ c.level # c.level + 1 /\ Deep' = Deep
  BY Zenon, <1>1, Sizes DEF Deep, NumLevels
<1> QED BY Zenon, <1>1, <1>2, <1>3, <1>4, <1>5

(* The edit of a compaction keeps the sorted levels sorted. *)
LEMMA ReplaceKeeps ==
  ASSUME Bytewise, Types, LevelsSorted, StoreTypes', setup' = setup, log' = log, NEW c, Inputs(c), NEW out,
         \A p \in out : p # {} /\ p \subseteq UNION (c.in0 \cup c.in1), SideBySide(out),
         Replace(c.level, c.in0, c.in1, out)
  PROVE  TreeTypes' /\ LevelsSorted'
<1>1. /\ setup \in Setups /\ Proper(log) /\ DOMAIN l0 \subseteq Nat
      /\ \A i \in DOMAIN l0 : Table(l0[i], log)
      /\ levels \in [Deep -> SUBSET SUBSET log]
      /\ \A k \in Deep : \A g \in levels[k] : Table(g, log)
  BY Zenon DEF Types, StoreTypes, TreeTypes
<1>2. PICK n \in Nat : \A i \in DOMAIN l0 : i <= n
  BY Zenon DEF Types, TreeTypes
<1>3. /\ \A k \in Deep : levels'[k] = IF k = c.level THEN levels[k] \ c.in0
                                      ELSE IF k = c.level + 1 THEN (levels[k] \ c.in1) \cup out ELSE levels[k]
      /\ \A i \in DOMAIN l0' : i \in DOMAIN l0 /\ l0'[i] = l0[i]
      /\ c.level \in 0 .. NumLevels - 2 /\ c.level + 1 \in Deep /\ c.level # c.level + 1 /\ Deep' = Deep
  BY Zenon, Replaced
<1>4. /\ c.in0 \subseteq Files(c.level) /\ c.in1 \subseteq levels[c.level + 1]
      /\ c.level \in 0 .. NumLevels - 1
  BY Zenon, <1>1, <1>3, Sizes DEF Inputs
<1>5. \A f \in c.in0 \cup c.in1 : Table(f, log)
  BY Zenon, <1>3, <1>4, FilesAreTables
<1>6. \A p \in out : Table(p, log)
  BY Zenon, <1>5 DEF Table
<1>7. \A k \in Deep : \A g \in levels'[k] : Table(g, log)
  BY Zenon, <1>1, <1>3, <1>6
<1>8. levels' \in [Deep -> SUBSET SUBSET log]
  <2>1. levels' = [k \in Deep |-> levels'[k]]
    BY Zenon DEF Replace
  <2>2. \A k \in Deep : levels'[k] \in SUBSET SUBSET log
    BY Zenon, <1>7 DEF Table
  <2> QED BY Zenon, <2>1, <2>2
<1>9. TreeTypes'
  BY Zenon, <1>1, <1>2, <1>3, <1>7, <1>8 DEF TreeTypes, Table
<1>10. \A k \in Deep : SideBySide(levels[k])
  BY Zenon, SortedIs
<1>11. ASSUME NEW g \in levels[c.level + 1] \ c.in1, NEW p \in out PROVE Left(p, g) \/ Left(g, p)
  <2>1. (\A f \in c.in0 \cup c.in1 : Left(f, g)) \/ (\A f \in c.in0 \cup c.in1 : Left(g, f))
    BY Zenon, Beside, <1>11
  <2>2. \A e \in p : \E f \in c.in0 \cup c.in1 : e \in f
    BY Zenon, <1>11
  <2> QED BY Zenon, <2>1, <2>2 DEF Left
<1>12. SideBySide((levels[c.level + 1] \ c.in1) \cup out)
  BY Zenon, <1>3, <1>10, <1>11 DEF SideBySide
<1>13. ASSUME NEW k \in Deep PROVE SideBySide(levels'[k])
  <2>1. SideBySide(levels[k] \ c.in0)
    BY Zenon, <1>10, <1>13 DEF SideBySide
  <2> QED BY Zenon, <1>3, <1>10, <1>12, <1>13, <2>1
<1> QED BY Zenon, <1>3, <1>9, <1>13, SortedIsNext DEF Types
-----------------------------------------------------------------------------
(* TreeInv, step by step. *)

(* The order of the levels depends on the tree alone. *)
LEMMA SameTree ==
  ASSUME setup' = setup, l0' = l0, levels' = levels
  PROVE  /\ NumLevels' = NumLevels /\ Deep' = Deep /\ LevelsSorted' = LevelsSorted
         /\ \A l : Files(l)' = Files(l)
<1>1. NumLevels' = NumLevels
  BY Zenon DEF NumLevels
<1>2. Deep' = Deep
  BY Zenon, <1>1 DEF Deep
<1> QED BY Zenon, <1>1, <1>2 DEF LevelsSorted, Files, Range

(* A step that leaves the tree alone keeps its types and its order. *)
LEMMA Quiet ==
  ASSUME Types, LevelsSorted, StoreTypes', setup' = setup, l0' = l0, levels' = levels, log \subseteq log'
  PROVE  Types' /\ LevelsSorted'
<1>1. /\ DOMAIN l0 \subseteq Nat /\ (\E n \in Nat : \A i \in DOMAIN l0 : i <= n)
      /\ (\A i \in DOMAIN l0 : Table(l0[i], log'))
      /\ \A l \in Deep : \A f \in levels[l] : Table(f, log')
  BY Zenon DEF Types, TreeTypes, Table
<1>2. levels \in [Deep -> SUBSET SUBSET log']
  <2>1. levels = [l \in Deep |-> levels[l]]
    BY Zenon DEF Types, TreeTypes
  <2>2. \A l \in Deep : levels[l] \in SUBSET SUBSET log'
    BY Zenon, <1>1 DEF Table
  <2> QED BY Zenon, <2>1, <2>2
<1>3. Deep' = Deep /\ LevelsSorted'
  BY Zenon, SameTree
<1>4. TreeTypes'
  BY Zenon, <1>1, <1>2, <1>3 DEF TreeTypes, Table
<1> QED BY Zenon, <1>3, <1>4 DEF Types

(* The inputs of a compaction stay what they are while the tree stays. *)
LEMMA InputsStay ==
  ASSUME setup' = setup, l0' = l0, levels' = levels, NEW c, Inputs(c),
         compaction'.level = c.level, compaction'.in0 = c.in0, compaction'.in1 = c.in1
  PROVE  Inputs(compaction)'
<1>1. NumLevels' = NumLevels /\ (\A l : Files(l)' = Files(l)) /\ Range(l0') = Range(l0)
  BY Zenon, SameTree
<1>2. Files(compaction.level)' = Files(c.level)
  BY Zenon DEF Files, Range
<1>3. /\ c.level \in 0 .. NumLevels - 2 /\ c.in0 \subseteq Files(c.level) /\ c.in0 # {}
      /\ c.in1 = {f \in levels[c.level + 1] : Touches(f, UserRange(c.in0)[1], UserRange(c.in0)[2])}
      /\ c.level = 0 => \A f \in c.in0 : \A g \in Range(l0) \ c.in0 : Apart(f, g)
  BY Zenon DEF Inputs
<1> QED BY Zenon, <1>1, <1>2, <1>3 DEF Inputs

(* The file due for a seek compaction is in the tree as long as both stay. *)
LEMMA FileDueStays ==
  ASSUME FileDue, setup' = setup, l0' = l0, levels' = levels, file_to_compact' = file_to_compact
  PROVE  FileDue'
<1>1. NumLevels' = NumLevels /\ \A l : Files(l)' = Files(l)
  BY Zenon, SameTree
<1> QED BY Zenon, <1>1 DEF FileDue

(* An installed version has no file due. *)
LEMMA NoFileDue == ASSUME file_to_compact' = NoFile PROVE FileDue'
BY Zenon DEF FileDue

(* Nothing is asked of a compaction that is not there. *)
LEMMA NoneCompacting == ASSUME compaction' = NoCompaction PROVE CompactionInv'
BY Zenon DEF CompactionInv

(* Writers, readers and snapshots leave a compaction under way valid: new  *)
(* read points are never below smallest_snapshot.                          *)
LEMMA CompactionStays ==
  ASSUME StoreTypes, CompactionInv, setup' = setup, l0' = l0, levels' = levels, compaction' = compaction,
         last_sequence' \in Nat, last_sequence <= last_sequence', snapshots' \subseteq snapshots \cup {last_sequence}
  PROVE  CompactionInv'
<1>1. CASE compaction = NoCompaction
  BY Zenon, <1>1, NoneCompacting
<1>2. CASE compaction.stage = "picked" /\ Inputs(compaction)
  <2>1. Inputs(compaction)'
    BY Zenon, <1>2, InputsStay
  <2> QED BY Zenon, <1>2, <2>1 DEF CompactionInv
<1>3. CASE /\ compaction.stage = "merging" /\ Inputs(compaction) /\ compaction.smallest_snapshot \in Nat
           /\ \A s \in ReadPoints : compaction.smallest_snapshot <= s
  <2>1. Inputs(compaction)'
    BY Zenon, <1>3, InputsStay
  <2>2. \A s \in snapshots \cup {last_sequence} : compaction.smallest_snapshot <= s
    BY Zenon, <1>3 DEF ReadPoints
  <2>3. compaction.smallest_snapshot <= last_sequence'
    <3>1. last_sequence \in Nat
      BY Zenon DEF StoreTypes
    <3> QED BY <3>1, <2>2, <1>3
  <2>4. \A s \in ReadPoints' : compaction.smallest_snapshot <= s
    BY Zenon, <2>2, <2>3 DEF ReadPoints
  <2> QED BY Zenon, <1>3, <2>1, <2>4 DEF CompactionInv
<1> QED BY Zenon, <1>1, <1>2, <1>3 DEF CompactionInv

(* The invariant holds of an empty database. *)
LEMMA TreeInvInit == ASSUME Init PROVE TreeInv
<1>1. /\ setup \in Setups /\ log = {} /\ last_sequence = 0 /\ mem = {} /\ imm = {} /\ l0 = [i \in {} |-> {}]
      /\ levels = [l \in Deep |-> {}] /\ snapshots = {} /\ compaction = NoCompaction /\ file_to_compact = NoFile
  BY Zenon DEF Init
<1>2. 0 \in Nat
  OBVIOUS
<1>3. Proper(log)
  BY Zenon, <1>1, <1>2 DEF Proper
<1>4. StoreTypes
  BY Zenon, <1>1, <1>2, <1>3 DEF StoreTypes
<1>5. DOMAIN l0 = {} /\ levels \in [Deep -> SUBSET SUBSET log] /\ \A l \in Deep : levels[l] = {}
  BY Zenon, <1>1
<1>6. TreeTypes
  BY Zenon, <1>2, <1>5 DEF TreeTypes
<1>7. LevelsSorted
  BY Zenon, <1>5 DEF LevelsSorted
<1> QED BY Zenon, <1>1, <1>4, <1>6, <1>7 DEF TreeInv, Types, FileDue, CompactionInv

(* What a write adds. *)
LEMMA WriteAdds ==
  ASSUME StoreTypes, NEW k \in Keys, NEW kind \in {"put", "del"}, Write(k, kind)
  PROVE  \E e \in Entry : /\ e.key = k /\ e.seq = last_sequence + 1 /\ e.kind = kind
                          /\ log' = log \cup {e} /\ mem' = mem \cup {e} /\ last_sequence' = e.seq
                          /\ last_sequence' \in Nat /\ last_sequence <= last_sequence'
                          /\ \A d \in log : d.seq \in Nat /\ d.seq < e.seq /\ d.seq # e.seq
                          /\ UNCHANGED <<setup, imm, snapshots, l0, levels, compaction, draining,
                                         compact_pointer, saved_pointer, file_to_compact>>
                          /\ StoreTypes'
<1> DEFINE e == [key |-> k, seq |-> last_sequence + 1, kind |-> kind]
<1>1. /\ setup \in Setups /\ Proper(log) /\ last_sequence \in Nat /\ (\A d \in log : d.seq <= last_sequence)
      /\ snapshots \subseteq 0 .. last_sequence /\ mem \subseteq log /\ imm \subseteq log
  BY Zenon DEF StoreTypes
<1>2. log' = log \cup {e} /\ mem' = mem \cup {e} /\ last_sequence' = last_sequence + 1
  BY Zenon DEF Write
<1>3. UNCHANGED <<setup, imm, snapshots, l0, levels, compaction, draining, compact_pointer, saved_pointer, file_to_compact>>
  BY DEF Write, treeVars
<1>4. e \in Entry /\ e.key = k /\ e.seq = last_sequence + 1 /\ e.kind = kind
  BY <1>1 DEF Entry
<1> HIDE DEF e
<1>5. \A d \in log : d.seq \in Nat
  BY Zenon, <1>1, ProperType
<1>6. /\ \A d \in log : d.seq < e.seq /\ d.seq # e.seq /\ d.seq <= last_sequence'
      /\ last_sequence' \in Nat /\ last_sequence <= last_sequence' /\ e.seq <= last_sequence' /\ e.seq = last_sequence'
      /\ 0 .. last_sequence \subseteq 0 .. last_sequence'
  BY <1>1, <1>2, <1>4, <1>5
<1>7. Proper(log')
  <2>1. log' \subseteq Entry
    BY Zenon, <1>1, <1>2, <1>4 DEF Proper
  <2>2. \A c, d \in log' : c.seq = d.seq => c = d
    BY Zenon, <1>1, <1>2, <1>6 DEF Proper
  <2>3. \A d \in log' : d.seq <= last_sequence'
    BY Zenon, <1>2, <1>6
  <2> QED BY Zenon, <2>1, <2>2, <2>3, <1>6 DEF Proper
<1>8. StoreTypes'
  <2>1. \A d \in log' : d.seq <= last_sequence'
    BY Zenon, <1>2, <1>6
  <2> QED BY Zenon, <1>1, <1>2, <1>3, <1>6, <1>7, <2>1 DEF StoreTypes, Proper
<1> QED BY Zenon, <1>2, <1>3, <1>4, <1>5, <1>6, <1>8

(* A write keeps the invariant. *)
LEMMA TreeWrite ==
  ASSUME TreeInv, NEW k \in Keys, NEW kind \in {"put", "del"}, Write(k, kind)
  PROVE  TreeInv'
<1>1. Types /\ StoreTypes /\ FileDue /\ CompactionInv /\ LevelsSorted
  BY Zenon DEF TreeInv, Types
<1>6. PICK e \in Entry : /\ log' = log \cup {e} /\ last_sequence' \in Nat /\ last_sequence <= last_sequence' /\ StoreTypes'
                         /\ UNCHANGED <<setup, imm, snapshots, l0, levels, compaction, draining,
                                        compact_pointer, saved_pointer, file_to_compact>>
  BY Zenon, <1>1, WriteAdds
<1>2. /\ StoreTypes' /\ setup' = setup /\ l0' = l0 /\ levels' = levels /\ compaction' = compaction
      /\ snapshots' = snapshots /\ file_to_compact' = file_to_compact /\ log \subseteq log'
      /\ last_sequence' \in Nat /\ last_sequence <= last_sequence'
  BY Zenon, <1>6
<1>3. Types' /\ LevelsSorted'
  BY Zenon, <1>1, <1>2, Quiet
<1>4. FileDue'
  BY Zenon, <1>1, <1>2, FileDueStays
<1>5. CompactionInv'
  BY Zenon, <1>1, <1>2, CompactionStays
<1> QED BY Zenon, <1>3, <1>4, <1>5 DEF TreeInv

(* Steps that leave the writes, the tree and the compaction alone. *)
LEMMA TreeQuiet ==
  ASSUME TreeInv, StoreTypes', UNCHANGED <<setup, log, last_sequence, l0, levels, compaction>>,
         snapshots' \subseteq snapshots \cup {last_sequence}, FileDue'
  PROVE  TreeInv'
<1>1. Types /\ StoreTypes /\ FileDue /\ CompactionInv /\ LevelsSorted /\ last_sequence \in Nat
  BY Zenon DEF TreeInv, Types, StoreTypes
<1>2. last_sequence <= last_sequence
  BY <1>1
<1>3. Types' /\ LevelsSorted'
  BY Zenon, <1>1, Quiet
<1>4. CompactionInv'
  BY Zenon, <1>1, <1>2, CompactionStays
<1> QED BY Zenon, <1>3, <1>4 DEF TreeInv

(* The types of the store while nothing is written. *)
LEMMA StoreStays ==
  ASSUME StoreTypes, UNCHANGED <<setup, log, last_sequence>>,
         snapshots' \subseteq snapshots \cup {last_sequence}, mem' \subseteq mem \cup imm, imm' \subseteq mem \cup imm
  PROVE  StoreTypes'
<1>1. /\ setup \in Setups /\ Proper(log) /\ last_sequence \in Nat /\ (\A d \in log : d.seq <= last_sequence)
      /\ snapshots \subseteq 0 .. last_sequence /\ mem \subseteq log /\ imm \subseteq log
  BY Zenon DEF StoreTypes
<1>2. last_sequence \in 0 .. last_sequence
  BY <1>1
<1> QED BY Zenon, <1>1, <1>2 DEF StoreTypes, Proper

(* Taking a snapshot keeps the invariant. *)
LEMMA TreeGetSnapshot == ASSUME TreeInv, GetSnapshot PROVE TreeInv'
<1>1. snapshots' = snapshots \cup {last_sequence}
  BY Zenon DEF GetSnapshot
<1>2. UNCHANGED <<setup, log, last_sequence, mem, imm, l0, levels, compaction, file_to_compact>>
  BY DEF GetSnapshot, treeVars
<1>3. StoreTypes'
  BY Zenon, <1>1, <1>2, StoreStays DEF TreeInv, Types
<1>4. FileDue'
  BY Zenon, <1>2, FileDueStays DEF TreeInv
<1> QED BY Zenon, <1>1, <1>2, <1>3, <1>4, TreeQuiet

(* Releasing a snapshot keeps the invariant. *)
LEMMA TreeReleaseSnapshot == ASSUME TreeInv, NEW s \in snapshots, ReleaseSnapshot(s) PROVE TreeInv'
<1>1. snapshots' = snapshots \ {s}
  BY Zenon DEF ReleaseSnapshot
<1>2. UNCHANGED <<setup, log, last_sequence, mem, imm, l0, levels, compaction, file_to_compact>>
  BY DEF ReleaseSnapshot, treeVars
<1>3. StoreTypes'
  BY Zenon, <1>1, <1>2, StoreStays DEF TreeInv, Types
<1>4. FileDue'
  BY Zenon, <1>2, FileDueStays DEF TreeInv
<1> QED BY Zenon, <1>1, <1>2, <1>3, <1>4, TreeQuiet

(* Rotating the memtable keeps the invariant. *)
LEMMA TreeRotateMem == ASSUME TreeInv, RotateMem PROVE TreeInv'
<1>1. imm' = mem /\ mem' = {}
  BY Zenon DEF RotateMem
<1>2. UNCHANGED <<setup, log, last_sequence, snapshots, l0, levels, compaction, file_to_compact>>
  BY DEF RotateMem, treeVars
<1>3. StoreTypes'
  BY Zenon, <1>1, <1>2, StoreStays DEF TreeInv, Types
<1>4. FileDue'
  BY Zenon, <1>2, FileDueStays DEF TreeInv
<1> QED BY Zenon, <1>1, <1>2, <1>3, <1>4, TreeQuiet

(* Charging a file of the tree keeps the invariant. *)
LEMMA TreeCharge ==
  ASSUME TreeInv, NEW l \in 0 .. NumLevels - 1, NEW f \in Files(l), NEW k, NEW s, Charge(l, f, k, s)
  PROVE  TreeInv'
<1>1. file_to_compact' = <<l, f>>
  BY Zenon DEF Charge
<1>2. UNCHANGED <<setup, log, last_sequence, mem, imm, snapshots, l0, levels, compaction>>
  BY DEF Charge, storeVars
<1>3. StoreTypes'
  BY Zenon, <1>2, StoreStays DEF TreeInv, Types
<1>4. FileDue'
  <2>1. NumLevels' = NumLevels /\ Files(l)' = Files(l)
    BY Zenon, <1>2, SameTree
  <2> QED BY Zenon, <1>1, <2>1 DEF FileDue
<1> QED BY Zenon, <1>2, <1>3, <1>4, TreeQuiet

(* The end of the compaction loop keeps the invariant. *)
LEMMA TreeBgDrained == ASSUME TreeInv, BgDrained PROVE TreeInv'
<1>1. file_to_compact' = NoFile
  BY Zenon DEF BgDrained
<1>2. UNCHANGED <<setup, log, last_sequence, mem, imm, snapshots, l0, levels, compaction>>
  BY DEF BgDrained, storeVars
<1>3. StoreTypes'
  BY Zenon, <1>2, StoreStays DEF TreeInv, Types
<1> QED BY Zenon, <1>1, <1>2, <1>3, NoFileDue, TreeQuiet

(* Steps that change the compaction alone. *)
LEMMA TreePlan ==
  ASSUME TreeInv, UNCHANGED <<setup, log, last_sequence, mem, imm, snapshots, l0, levels>>, CompactionInv', FileDue'
  PROVE  TreeInv'
<1>1. Types /\ StoreTypes /\ LevelsSorted
  BY Zenon DEF TreeInv, Types
<1>2. StoreTypes'
  BY Zenon, <1>1, StoreStays
<1>3. Types' /\ LevelsSorted'
  BY Zenon, <1>1, <1>2, Quiet
<1> QED BY Zenon, <1>3 DEF TreeInv

(* A pick of files with all that overlaps them at level 0 keeps the        *)
(* invariant.                                                              *)
LEMMA TreePick ==
  ASSUME Bytewise, TreeInv, NEW l \in 0 .. NumLevels - 2, NEW in0, in0 # {}, in0 \subseteq Files(l),
         l = 0 => \A f \in in0 : \A g \in Range(l0) \ in0 : Apart(f, g), Pick(l, in0)
  PROVE  TreeInv'
<1>1. compaction' = SetUp(l, in0) /\ file_to_compact' = NoFile
  BY Zenon DEF Pick
<1>2. UNCHANGED <<setup, log, last_sequence, mem, imm, snapshots, l0, levels>>
  BY DEF Pick, storeVars
<1>3. Inputs(SetUp(l, in0)) /\ SetUp(l, in0).stage = "picked"
  BY Zenon, SetUpIs DEF TreeInv
<1>4. Inputs(compaction)'
  BY Zenon, <1>1, <1>2, <1>3, InputsStay
<1>5. CompactionInv'
  BY Zenon, <1>1, <1>3, <1>4 DEF CompactionInv
<1> QED BY Zenon, <1>1, <1>2, <1>5, NoFileDue, TreePlan

(* At level 0 a picked file comes with every file that shares a key with   *)
(* the pick.                                                               *)
LEMMA SeededIs ==
  ASSUME Types, NEW l \in 0 .. NumLevels - 2, NEW f \in Files(l)
  PROVE  /\ Seeded(l, f) # {} /\ Seeded(l, f) \subseteq Files(l)
         /\ l = 0 => \A d \in Seeded(l, f) : \A g \in Range(l0) \ Seeded(l, f) : Apart(d, g)
<1>1. setup \in Setups /\ Proper(log)
  BY Zenon DEF Types, StoreTypes
<1>2. Table(f, log)
  BY Zenon, <1>1, Sizes, FilesAreTables
<1>3. CASE l = 0
  <2>1. Seeded(l, f) = Overlapping(0, Lo(f), Hi(f)) /\ f \in Range(l0)
    BY Zenon, <1>1, <1>3, FilesAre DEF Seeded
  <2>2. Lo(f) \in Keys /\ Hi(f) \in Keys /\ Rank[Lo(f)] <= Rank[Hi(f)]
    BY Zenon, <1>1, <1>2, Ends DEF Lo
  <2>3. Rank[Hi(f)] >= Rank[Lo(f)]
    BY <2>2, RankType
  <2>4. Touches(f, Lo(f), Hi(f))
    BY Zenon, <2>2, <2>3 DEF Touches
  <2> QED BY Zenon, <1>1, <1>3, <2>1, <2>2, <2>4, OverlapL0, FilesAre
<1>4. CASE l # 0
  BY Zenon, <1>4 DEF Seeded
<1> QED BY Zenon, <1>3, <1>4

(* A seek compaction is picked from a file of the tree. *)
LEMMA TreeBgPicksSeek == ASSUME Bytewise, TreeInv, BgPicksSeek PROVE TreeInv'
<1>1. file_to_compact # NoFile /\ file_to_compact[1] + 1 < NumLevels /\ Types /\ setup \in Setups
  BY Zenon DEF BgPicksSeek, SeekPending, TreeInv, Types, StoreTypes
<1>2. PICK l \in 0 .. NumLevels - 1 : \E f \in Files(l) : file_to_compact = <<l, f>>
  BY Zenon, <1>1 DEF TreeInv, FileDue
<1>6. PICK f \in Files(l) : file_to_compact = <<l, f>>
  BY Zenon, <1>2
<1>3. file_to_compact[1] = l /\ file_to_compact[2] = f
  BY <1>6
<1>4. l \in 0 .. NumLevels - 2
  BY <1>1, <1>3, Sizes
<1>5. Pick(l, Seeded(l, f))
  BY Zenon, <1>3 DEF BgPicksSeek
<1> QED BY Zenon, <1>1, <1>4, <1>5, SeededIs, TreePick

(* A size compaction is picked from a file of the tree. *)
LEMMA TreeBgPicksSize == ASSUME Bytewise, TreeInv, BgPicksSize PROVE TreeInv'
<1>1. PICK l \in 0 .. NumLevels - 2 : \E f \in Files(l) : Pick(l, Seeded(l, f))
  BY Zenon DEF BgPicksSize
<1>3. PICK f \in Files(l) : Pick(l, Seeded(l, f))
  BY Zenon, <1>1
<1>2. Types
  BY Zenon DEF TreeInv
<1> QED BY Zenon, <1>3, <1>2, SeededIs, TreePick

(* A manual compaction is picked from files of the tree. *)
LEMMA TreeManualPicks ==
  ASSUME Bytewise, TreeInv, NEW l \in 0 .. NumLevels - 1, NEW b \in Keys \cup {None},
         NEW e \in Keys \cup {None}, ManualPicks(l, b, e)
  PROVE  TreeInv'
<1> DEFINE in0 == Overlapping(l, b, e)
<1>1. l + 1 < NumLevels /\ in0 # {} /\ Pick(l, in0) /\ Types /\ setup \in Setups
  BY Zenon DEF ManualPicks, TreeInv, Types, StoreTypes
<1>2. l \in 0 .. NumLevels - 2 /\ (l = 0 \/ l \in Deep)
  BY <1>1, Sizes DEF Deep
<1>3. CASE l = 0
  <2>1. in0 \subseteq Files(l) /\ \A f \in in0 : \A g \in Range(l0) \ in0 : Apart(f, g)
    BY Zenon, <1>1, <1>3, OverlapL0, FilesAre
  <2> HIDE DEF in0
  <2> QED BY Zenon, <1>1, <1>2, <2>1, TreePick
<1>4. CASE l \in Deep
  <2>1. in0 = {f \in levels[l] : Touches(f, b, e)}
    BY Zenon, <1>1, <1>4, OverlapDeep
  <2> HIDE DEF in0
  <2>2. in0 \subseteq Files(l) /\ l # 0
    BY Zenon, <1>1, <1>4, <2>1, FilesAre, Sizes
  <2> QED BY Zenon, <1>1, <1>2, <2>2, TreePick
<1> QED BY Zenon, <1>2, <1>3, <1>4

(* A flush keeps the invariant. *)
LEMMA TreeAdd ==
  ASSUME TreeInv, UNCHANGED <<setup, log, last_sequence>>, StoreTypes', CompactionInv',
         NEW f, Table(f, log), AddTable(f, MemLevel(f))
  PROVE  TreeInv'
<1>1. Types /\ LevelsSorted
  BY Zenon DEF TreeInv
<1>2. TreeTypes' /\ LevelsSorted'
  BY Zenon, <1>1, AddTableKeeps
<1>3. FileDue'
  BY Zenon, NoFileDue DEF AddTable
<1> QED BY Zenon, <1>2, <1>3 DEF TreeInv, Types

(* The flush of bg_step_async keeps the invariant. *)
LEMMA TreeBgBegins == ASSUME TreeInv, BgBegins PROVE TreeInv'
<1>1. UNCHANGED <<setup, log, last_sequence, mem, snapshots, compaction>> /\ imm' = {} /\ compaction = NoCompaction
  BY Zenon DEF BgBegins
<1>2. StoreTypes'
  BY Zenon, <1>1, StoreStays DEF TreeInv, Types
<1>3. CASE imm = {}
  <2>1. UNCHANGED <<l0, levels, file_to_compact>>
    BY Zenon, <1>3 DEF BgBegins
  <2>2. FileDue'
    BY Zenon, <1>1, <2>1, FileDueStays DEF TreeInv
  <2> QED BY Zenon, <1>1, <1>2, <2>1, <2>2, TreeQuiet
<1>4. CASE imm # {}
  <2>1. AddTable(imm, MemLevel(imm))
    BY Zenon, <1>4 DEF BgBegins
  <2>2. Table(imm, log)
    BY Zenon, <1>4 DEF TreeInv, Types, StoreTypes, Table
  <2> QED BY Zenon, <1>1, <1>2, <2>1, <2>2, NoneCompacting, TreeAdd
<1> QED BY Zenon, <1>3, <1>4

(* A restart, which flushes what the logs give back, keeps the invariant. *)
LEMMA TreeCrashAndOpen == ASSUME TreeInv, CrashAndOpen PROVE TreeInv'
<1>1. UNCHANGED <<setup, log, last_sequence>> /\ mem' = {} /\ imm' = {} /\ snapshots' = {} /\ compaction' = NoCompaction
  BY Zenon DEF CrashAndOpen
<1>2. StoreTypes' /\ CompactionInv'
  BY Zenon, <1>1, StoreStays, NoneCompacting DEF TreeInv, Types
<1>3. CASE mem \cup imm = {}
  <2>1. UNCHANGED <<l0, levels>> /\ file_to_compact' = NoFile
    BY Zenon, <1>3 DEF CrashAndOpen
  <2>2. Types' /\ LevelsSorted'
    BY Zenon, <1>1, <1>2, <2>1, Quiet DEF TreeInv
  <2> QED BY Zenon, <1>2, <2>1, <2>2, NoFileDue DEF TreeInv
<1>4. CASE mem \cup imm # {}
  <2>1. AddTable(mem \cup imm, MemLevel(mem \cup imm))
    BY Zenon, <1>4 DEF CrashAndOpen
  <2>2. Table(mem \cup imm, log)
    BY Zenon, <1>4 DEF TreeInv, Types, StoreTypes, Table
  <2> QED BY Zenon, <1>1, <1>2, <2>1, <2>2, TreeAdd
<1> QED BY Zenon, <1>3, <1>4

(* Installing a compaction keeps the invariant. *)
LEMMA TreeReplace ==
  ASSUME Bytewise, TreeInv, UNCHANGED <<setup, log, last_sequence, mem, imm, snapshots>>, compaction' = NoCompaction,
         Inputs(compaction), NEW out,
         \A p \in out : p # {} /\ p \subseteq UNION (compaction.in0 \cup compaction.in1), SideBySide(out),
         Replace(compaction.level, compaction.in0, compaction.in1, out)
  PROVE  TreeInv'
<1>1. Types /\ LevelsSorted /\ StoreTypes
  BY Zenon DEF TreeInv, Types
<1>2. StoreTypes'
  BY Zenon, <1>1, StoreStays
<1>3. TreeTypes' /\ LevelsSorted'
  BY Zenon, <1>1, <1>2, ReplaceKeeps
<1>4. file_to_compact' = NoFile
  BY Zenon DEF Replace
<1> QED BY Zenon, <1>2, <1>3, <1>4, NoFileDue, NoneCompacting DEF TreeInv, Types

(* A picked compaction has valid inputs. *)
LEMMA Picked ==
  ASSUME CompactionInv, compaction.stage = "picked"
  PROVE  Inputs(compaction)
<1>1. compaction # NoCompaction
  <2>1. NoCompaction.stage = "none"
    BY DEF NoCompaction
  <2>2. "none" # "picked"
    OBVIOUS
  <2> QED BY Zenon, <2>1, <2>2
<1> QED BY Zenon, <1>1 DEF CompactionInv

(* So has a merge, and no reader is below its smallest_snapshot. *)
LEMMA Merging ==
  ASSUME CompactionInv, compaction.stage = "merging"
  PROVE  /\ Inputs(compaction) /\ compaction.smallest_snapshot \in Nat
         /\ \A s \in ReadPoints : compaction.smallest_snapshot <= s
<1>1. compaction # NoCompaction
  <2>1. NoCompaction.stage = "none"
    BY DEF NoCompaction
  <2>2. "none" # "merging"
    OBVIOUS
  <2> QED BY Zenon, <2>1, <2>2
<1>2. "picked" # "merging"
  OBVIOUS
<1> QED BY Zenon, <1>1, <1>2 DEF CompactionInv

(* What a trivial move does. *)
LEMMA MovesFile ==
  ASSUME TrivialMove
  PROVE  /\ \E f : compaction.in0 = {f}
         /\ compaction.in1 = {} /\ compaction.stage = "picked" /\ compaction' = NoCompaction
         /\ Replace(compaction.level, compaction.in0, compaction.in1, compaction.in0)
         /\ UNCHANGED <<setup, log, last_sequence, mem, imm, snapshots, draining, compact_pointer, saved_pointer>>
<1>1. /\ \E f : compaction.in0 = {f}
      /\ compaction.in1 = {} /\ compaction.stage = "picked" /\ compaction' = NoCompaction
      /\ Replace(compaction.level, compaction.in0, {}, compaction.in0)
  BY Zenon DEF TrivialMove, IsTrivialMove
<1>2. UNCHANGED <<setup, log, last_sequence, mem, imm, snapshots, draining, compact_pointer, saved_pointer>>
  BY DEF TrivialMove, storeVars
<1> QED BY Zenon, <1>1, <1>2

(* A trivial move keeps the invariant. *)
LEMMA TreeTrivialMove == ASSUME Bytewise, TreeInv, TrivialMove PROVE TreeInv'
<1>1. /\ compaction.stage = "picked" /\ compaction' = NoCompaction
      /\ Replace(compaction.level, compaction.in0, compaction.in1, compaction.in0)
      /\ UNCHANGED <<setup, log, last_sequence, mem, imm, snapshots>>
  BY Zenon, MovesFile
<1>2. Inputs(compaction) /\ Types /\ setup \in Setups
  BY Zenon, <1>1, Picked DEF TreeInv, Types, StoreTypes
<1>3. compaction.in0 \subseteq Files(compaction.level) /\ compaction.level \in 0 .. NumLevels - 1
  BY Zenon, <1>2, Sizes DEF Inputs
<1>4. \A p \in compaction.in0 : p # {} /\ p \subseteq UNION (compaction.in0 \cup compaction.in1)
  BY Zenon, <1>2, <1>3, FilesAreTables DEF Table
<1>5. SideBySide(compaction.in0)
  BY Zenon, MovesFile DEF SideBySide
<1> QED BY Zenon, <1>1, <1>2, <1>4, <1>5, TreeReplace

(* The start of a merge keeps the invariant: it takes the least of the     *)
(* read points.                                                            *)
LEMMA TreeMergeBegins == ASSUME TreeInv, MergeBegins PROVE TreeInv'
<1>1. /\ compaction.stage = "picked"
      /\ compaction' = [level |-> compaction.level, in0 |-> compaction.in0, in1 |-> compaction.in1,
                        stage |-> "merging", smallest_snapshot |-> Min(ReadPoints)]
  BY Zenon DEF MergeBegins
<1>2. UNCHANGED <<setup, log, last_sequence, mem, imm, snapshots, l0, levels, file_to_compact>>
  BY DEF MergeBegins, storeVars
<1>3. /\ compaction'.level = compaction.level /\ compaction'.in0 = compaction.in0 /\ compaction'.in1 = compaction.in1
      /\ compaction'.stage = "merging" /\ compaction'.smallest_snapshot = Min(ReadPoints)
  BY <1>1
<1>4. Inputs(compaction)'
  BY Zenon, <1>1, <1>2, <1>3, Picked, InputsStay DEF TreeInv
<1>5. ReadPoints \subseteq Nat /\ ReadPoints # {} /\ ReadPoints' = ReadPoints
  <2>1. snapshots \subseteq 0 .. last_sequence /\ last_sequence \in Nat
    BY Zenon DEF TreeInv, Types, StoreTypes
  <2>2. \A s \in 0 .. last_sequence : s \in Nat
    BY <2>1
  <2> QED BY Zenon, <1>2, <2>1, <2>2 DEF ReadPoints
<1>6. Min(ReadPoints) \in ReadPoints /\ \A s \in ReadPoints : Min(ReadPoints) <= s
  BY Zenon, <1>5, MinIs
<1>7. CompactionInv'
  BY Zenon, <1>3, <1>4, <1>5, <1>6 DEF CompactionInv
<1>8. FileDue'
  BY Zenon, <1>2, FileDueStays DEF TreeInv
<1> QED BY Zenon, <1>2, <1>7, <1>8, TreePlan

(* A merge keeps only entries of its inputs. *)
LEMMA KeptIs ==
  ASSUME Types, NEW c, Inputs(c)
  PROVE  Kept(c) \subseteq UNION (c.in0 \cup c.in1) /\ Proper(Kept(c)) /\ UNION (c.in0 \cup c.in1) \subseteq log
<1>1. /\ setup \in Setups /\ Proper(log) /\ c.level \in 0 .. NumLevels - 2 /\ c.in0 \subseteq Files(c.level)
      /\ c.in1 \subseteq levels[c.level + 1]
  BY Zenon DEF Types, StoreTypes, Inputs
<1>2. c.level \in 0 .. NumLevels - 1 /\ c.level + 1 \in Deep
  BY Zenon, <1>1, Sizes
<1>3. \A f \in c.in0 \cup c.in1 : Table(f, log)
  BY Zenon, <1>1, <1>2, FilesAreTables
<1>4. UNION (c.in0 \cup c.in1) \subseteq log
  BY Zenon, <1>3 DEF Table
<1>5. Kept(c) \subseteq UNION (c.in0 \cup c.in1)
  BY Zenon DEF Kept
<1> QED BY Zenon, <1>1, <1>4, <1>5, ProperPart

(* What the end of a merge does. *)
LEMMA Installs ==
  ASSUME NEW n, MergeInstalls(n)
  PROVE  /\ compaction.stage = "merging" /\ compaction' = NoCompaction
         /\ Replace(compaction.level, compaction.in0, compaction.in1, Cut(Kept(compaction), n))
         /\ UNCHANGED <<setup, log, last_sequence, mem, imm, snapshots, draining>>
<1>1. /\ compaction.stage = "merging" /\ compaction' = NoCompaction
      /\ Replace(compaction.level, compaction.in0, compaction.in1, Cut(Kept(compaction), n))
  BY Zenon DEF MergeInstalls
<1>2. UNCHANGED <<setup, log, last_sequence, mem, imm, snapshots, draining>>
  BY DEF MergeInstalls, storeVars
<1> QED BY Zenon, <1>1, <1>2

(* The end of a merge keeps the invariant, wherever its output is cut. *)
LEMMA TreeMergeInstalls == ASSUME Bytewise, TreeInv, NEW n, MergeInstalls(n) PROVE TreeInv'
<1> DEFINE out == Cut(Kept(compaction), n)
<1>1. /\ compaction.stage = "merging" /\ compaction' = NoCompaction
      /\ Replace(compaction.level, compaction.in0, compaction.in1, out)
      /\ UNCHANGED <<setup, log, last_sequence, mem, imm, snapshots>>
  BY Zenon, Installs
<1>2. Inputs(compaction) /\ Types
  BY Zenon, <1>1, Merging DEF TreeInv
<1>3. Kept(compaction) \subseteq UNION (compaction.in0 \cup compaction.in1) /\ Proper(Kept(compaction))
  BY Zenon, <1>2, KeptIs
<1>4. /\ \A p \in out : p # {} /\ p \subseteq Kept(compaction)
      /\ \A p, q \in out : p # q => Left(p, q) \/ Left(q, p)
  BY Zenon, <1>3, CutIs
<1> HIDE DEF out
<1>5. \A p \in out : p # {} /\ p \subseteq UNION (compaction.in0 \cup compaction.in1)
  BY Zenon, <1>3, <1>4
<1>6. SideBySide(out)
  BY Zenon, <1>4 DEF SideBySide
<1> QED BY Zenon, <1>1, <1>2, <1>5, <1>6, TreeReplace

(* Every step keeps the invariant. *)
LEMMA TreeStep == ASSUME Bytewise, TreeInv, [Next]_vars PROVE TreeInv'
<1>1. ASSUME NEW k \in Keys, NEW kind \in {"put", "del"}, Write(k, kind) PROVE TreeInv'
  BY Zenon, <1>1, TreeWrite
<1>2. CASE GetSnapshot
  BY Zenon, <1>2, TreeGetSnapshot
<1>3. ASSUME NEW s \in snapshots, ReleaseSnapshot(s) PROVE TreeInv'
  BY Zenon, <1>3, TreeReleaseSnapshot
<1>4. CASE RotateMem
  BY Zenon, <1>4, TreeRotateMem
<1>5. ASSUME NEW k \in Keys, NEW s \in ReadPoints, GetCharges(k, s) PROVE TreeInv'
  BY Zenon, <1>5, TreeCharge DEF GetCharges
<1>6. ASSUME NEW e \in Stored, SampleCharges(e) PROVE TreeInv'
  BY Zenon, <1>6, TreeCharge DEF SampleCharges
<1>7. ASSUME NEW l \in 0 .. NumLevels - 1, NEW b \in Keys \cup {None}, NEW e \in Keys \cup {None}, ManualPicks(l, b, e)
      PROVE  TreeInv'
  BY Zenon, <1>7, TreeManualPicks
<1>8. CASE BgStep
  BY Zenon, <1>8, TreeBgBegins, TreeBgPicksSeek, TreeBgPicksSize, TreeBgDrained, TreeTrivialMove,
     TreeMergeBegins, TreeMergeInstalls DEF BgStep
<1>9. CASE CrashAndOpen
  BY Zenon, <1>9, TreeCrashAndOpen
<1>10. CASE UNCHANGED vars
  <2>1. UNCHANGED <<setup, log, last_sequence, mem, imm, snapshots, l0, levels, compaction, file_to_compact>>
    BY <1>10 DEF vars, storeVars, treeVars
  <2>2. StoreTypes'
    BY Zenon, <2>1, StoreStays DEF TreeInv, Types
  <2>3. FileDue'
    BY Zenon, <2>1, FileDueStays DEF TreeInv
  <2> QED BY Zenon, <2>1, <2>2, <2>3, TreeQuiet
<1> QED BY Zenon, <1>1, <1>2, <1>3, <1>4, <1>5, <1>6, <1>7, <1>8, <1>9, <1>10 DEF Next

(* LevelsSorted: the files of a level above 0 never overlap, whatever      *)
(* flushes, compactions (picked by size, by seeks or by hand), crashes and *)
(* cuts of output files there are, if the Comparator is bytewise.          *)
THEOREM LevelsAlwaysSorted == ASSUME Bytewise PROVE Spec => []LevelsSorted
<1>1. Init => TreeInv
  BY Zenon, TreeInvInit
<1>2. TreeInv /\ [Next]_vars => TreeInv'
  BY Zenon, TreeStep
<1>3. TreeInv => LevelsSorted
  BY Zenon DEF TreeInv
<1> QED BY <1>1, <1>2, <1>3, PTL DEF Spec
-----------------------------------------------------------------------------
(* Order between levels.                                                   *)

(* The files of a level share no user key. *)
Unshared == \A l \in Deep : \A f, g \in levels[l] : f # g => Apart(f, g)

(* The sorted levels above a sorted level. *)
LEMMA DeepBelow ==
  ASSUME setup \in Setups, NEW l \in Deep
  PROVE  \A j : j \in 1 .. l - 1 <=> j \in Deep /\ j < l
<1>1. NumLevels \in Nat
  BY Zenon, Sizes
<1> QED BY <1>1 DEF Deep

(* Files with no key in common are in order. *)
LEMMA ApartOver == ASSUME NEW f, NEW g, Apart(f, g) PROVE Over(f, g)
BY Zenon DEF Apart, Over

(* NewerAbove by pairs of levels. *)
LEMMA NewerIs ==
  ASSUME setup \in Setups, NewerAbove
  PROVE  /\ Over(mem, imm)
         /\ \A f \in Range(l0) : Over(mem, f) /\ Over(imm, f)
         /\ \A i, j \in DOMAIN l0 : i < j => Over(l0[j], l0[i])
         /\ \A l \in Deep : \A g \in levels[l] : Over(mem, g) /\ Over(imm, g) /\ \A f \in Range(l0) : Over(f, g)
         /\ \A j, l \in Deep : j < l => \A f \in levels[j], g \in levels[l] : Over(f, g)
<1>1. ASSUME NEW j \in Deep, NEW l \in Deep, j < l PROVE j \in 1 .. l - 1
  BY Zenon, <1>1, DeepBelow
<1> QED BY Zenon, <1>1 DEF NewerAbove

(* The same in the next state. *)
LEMMA NewerIsNext ==
  ASSUME setup' = setup, setup \in Setups, Over(mem', imm'),
         \A i \in DOMAIN l0' : Over(mem', l0'[i]) /\ Over(imm', l0'[i]),
         \A i, j \in DOMAIN l0' : i < j => Over(l0'[j], l0'[i]),
         \A l \in Deep : \A g \in levels'[l] : Over(mem', g) /\ Over(imm', g) /\ \A i \in DOMAIN l0' : Over(l0'[i], g),
         \A j, l \in Deep : j < l => \A f \in levels'[j], g \in levels'[l] : Over(f, g)
  PROVE  NewerAbove'
<1>1. ASSUME NEW l \in Deep, NEW j \in 1 .. l - 1 PROVE j \in Deep /\ j < l
  BY Zenon, <1>1, DeepBelow
<1>2. Deep' = Deep
  BY Zenon DEF Deep, NumLevels
<1>3. \A f : f \in Range(l0)' <=> \E i \in DOMAIN l0' : f = l0'[i]
  BY Zenon DEF Range
<1>4. \A f \in Range(l0)' : Over(mem', f) /\ Over(imm', f)
  BY Zenon, <1>3
<1>5. ASSUME NEW l \in Deep, NEW g \in levels'[l], NEW f \in Range(l0)' PROVE Over(f, g)
  <2>1. PICK i \in DOMAIN l0' : f = l0'[i]
    BY Zenon, <1>3
  <2> QED BY Zenon, <2>1
<1>6. \A l \in Deep : \A g \in levels'[l] : \A j \in 1 .. l - 1 : \A f \in levels'[j] : Over(f, g)
  BY Zenon, <1>1
<1> QED BY Zenon, <1>2, <1>4, <1>5, <1>6 DEF NewerAbove

(* A step that leaves the tree alone, and adds to the memtables only what  *)
(* is newer than the whole tree.                                           *)
LEMMA NewerQuiet ==
  ASSUME setup' = setup, setup \in Setups, l0' = l0, levels' = levels, NewerAbove, Over(mem', imm'),
         \A g : Over(mem, g) /\ Over(imm, g) /\ g \subseteq log => Over(mem', g) /\ Over(imm', g),
         Types
  PROVE  NewerAbove'
<1>1. /\ \A i \in DOMAIN l0 : l0[i] \in Range(l0) /\ l0[i] \subseteq log
      /\ \A l \in Deep : \A g \in levels[l] : g \subseteq log
  BY Zenon, FilesAre, FilesAreTables DEF Table
<1>2. \A i \in DOMAIN l0 : Over(mem', l0[i]) /\ Over(imm', l0[i])
  BY Zenon, <1>1, NewerIs
<1>3. \A l \in Deep : \A g \in levels[l] : Over(mem', g) /\ Over(imm', g) /\ \A i \in DOMAIN l0 : Over(l0[i], g)
  BY Zenon, <1>1, NewerIs
<1> QED BY Zenon, <1>2, <1>3, NewerIs, NewerIsNext

(* A new file of level 0 has the greatest number. *)
LEMMA FreshNumber ==
  ASSUME Types, NEW f, AddTable(f, 0)
  PROVE  \E n \in Nat : /\ \A i \in DOMAIN l0 : i < n
                        /\ l0' = [i \in DOMAIN l0 \cup {n} |-> IF i = n THEN f ELSE l0[i]]
<1> DEFINE m == Max({0} \cup DOMAIN l0)
<1>1. DOMAIN l0 \subseteq Nat
  BY Zenon DEF Types, TreeTypes
<1>2. PICK b \in Nat : \A i \in DOMAIN l0 : i <= b
  BY Zenon DEF Types, TreeTypes
<1>3. {0} \cup DOMAIN l0 \subseteq Nat /\ {0} \cup DOMAIN l0 # {} /\ \A y \in {0} \cup DOMAIN l0 : y <= b
  BY <1>1, <1>2
<1>4. m \in {0} \cup DOMAIN l0 /\ \A y \in {0} \cup DOMAIN l0 : y <= m
  BY Zenon, <1>3, MaxIs
<1>5. l0' = [i \in DOMAIN l0 \cup {1 + m} |-> IF i = 1 + m THEN f ELSE l0[i]]
  BY Zenon DEF AddTable
<1> HIDE DEF m
<1>6. 1 + m \in Nat /\ \A i \in DOMAIN l0 : i < 1 + m
  BY <1>1, <1>4
<1> QED BY Zenon, <1>5, <1>6

(* A flush: f, newer than the tree, goes to the level that has room. *)
LEMMA NewerFlush ==
  ASSUME setup' = setup, Types, NewerAbove, Unshared, imm' = {}, mem' = mem \/ mem' = {},
         NEW f, Table(f, log), AddTable(f, MemLevel(f)), Over(mem', f),
         \A g \in Range(l0) : Over(f, g), \A l \in Deep : \A g \in levels[l] : Over(f, g)
  PROVE  NewerAbove' /\ Unshared'
<1> DEFINE L == MemLevel(f)
<1>1. setup \in Setups /\ Proper(log)
  BY Zenon DEF Types, StoreTypes
<1>2. /\ L \in 0 .. NumLevels - 1
      /\ L # 0 => /\ \A g \in Range(l0) : ~Touches(g, Lo(f), Hi(f))
                  /\ \A j \in 1 .. L : \A g \in levels[j] : ~Touches(g, Lo(f), Hi(f))
  BY Zenon, MemLevelIs
<1>3. L = 0 \/ L \in Deep
  BY Zenon, <1>1, <1>2, Sizes
<1>4. Deep' = Deep
  BY Zenon DEF Deep, NumLevels
<1>5. AddTable(f, L)
  OBVIOUS
<1> HIDE DEF L
<1>6. ASSUME NEW g, Table(g, log), ~Touches(g, Lo(f), Hi(f)) PROVE Apart(f, g) /\ Apart(g, f) /\ Over(g, f)
  <2>1. Lo(f) \in Keys /\ Hi(f) \in Keys
    BY Zenon, <1>1, Ends
  <2>2. Rank[Lo(f)] <= Rank[Lo(f)] /\ Rank[Hi(f)] <= Rank[Hi(f)]
    BY <2>1, RankType
  <2>3. Apart(f, g) /\ Apart(g, f)
    BY Zenon, <1>1, <1>6, <2>1, <2>2, MissedApart
  <2> QED BY Zenon, <2>3, ApartOver
<1>7. Over(mem', imm') /\ (\A g : Over(imm', g)) /\ \A g : Over(mem, g) => Over(mem', g)
  BY Zenon DEF Over
<1>8. /\ \A i \in DOMAIN l0 : l0[i] \in Range(l0) /\ Over(mem', l0[i]) /\ Over(f, l0[i])
      /\ \A l \in Deep : \A g \in levels[l] : Over(mem', g) /\ Over(f, g) /\ \A i \in DOMAIN l0 : Over(l0[i], g)
  BY Zenon, <1>1, <1>7, NewerIs, FilesAre
<1>9. CASE L = 0
  <2>1. levels' = levels
    BY Zenon, <1>5, <1>9 DEF AddTable
  <2>2. PICK n \in Nat : /\ \A i \in DOMAIN l0 : i < n
                         /\ l0' = [i \in DOMAIN l0 \cup {n} |-> IF i = n THEN f ELSE l0[i]]
    BY Zenon, <1>5, <1>9, FreshNumber
  <2>3. DOMAIN l0' = DOMAIN l0 \cup {n}
    BY Zenon, <2>2
  <2>4. l0'[n] = f
    BY Zenon, <2>2
  <2>5. \A i \in DOMAIN l0 : i # n /\ ~(n < i)
    <3>1. DOMAIN l0 \subseteq Nat
      BY Zenon DEF Types, TreeTypes
    <3> QED BY <2>2, <3>1
  <2>6. \A i \in DOMAIN l0 : l0'[i] = l0[i]
    BY Zenon, <2>2, <2>5
  <2>7. \A i \in DOMAIN l0' : Over(mem', l0'[i]) /\ Over(imm', l0'[i])
    BY Zenon, <2>3, <2>4, <2>6, <1>7, <1>8
  <2>8. ASSUME NEW i \in DOMAIN l0', NEW j \in DOMAIN l0', i < j PROVE Over(l0'[j], l0'[i])
    <3>1. ~(n < n)
      OBVIOUS
    <3>2. i # n
      BY Zenon, <2>8, <2>3, <2>5, <3>1
    <3>3. i \in DOMAIN l0 /\ l0'[i] = l0[i]
      BY Zenon, <3>2, <2>3, <2>6
    <3>4. CASE j = n
      BY Zenon, <3>3, <3>4, <2>4, <1>8
    <3>5. CASE j # n
      <4>1. j \in DOMAIN l0 /\ l0'[j] = l0[j]
        BY Zenon, <3>5, <2>3, <2>6
      <4> QED BY Zenon, <1>1, <2>8, <3>3, <4>1, NewerIs
    <3> QED BY Zenon, <3>4, <3>5
  <2>9. \A l \in Deep : \A g \in levels'[l] : Over(mem', g) /\ Over(imm', g) /\ \A i \in DOMAIN l0' : Over(l0'[i], g)
    BY Zenon, <2>1, <2>3, <2>4, <2>6, <1>7, <1>8
  <2>10. \A j, l \in Deep : j < l => \A a \in levels'[j], g \in levels'[l] : Over(a, g)
    BY Zenon, <1>1, <2>1, NewerIs
  <2>11. NewerAbove'
    BY Zenon, <1>1, <1>7, <2>7, <2>8, <2>9, <2>10, NewerIsNext
  <2> QED BY Zenon, <2>1, <2>11, <1>4 DEF Unshared
<1>10. CASE L # 0
  <2>1. l0' = l0 /\ levels' = [levels EXCEPT ![L] = @ \cup {f}] /\ L \in Deep
    BY Zenon, <1>5, <1>10, <1>3 DEF AddTable
  <2>2. DOMAIN levels = Deep
    BY DEF Types, TreeTypes
  <2>3. levels'[L] = levels[L] \cup {f} /\ \A l \in Deep : l # L => levels'[l] = levels[l]
    BY Zenon, <2>1, <2>2
  <2>4. \A i \in DOMAIN l0 : Over(l0[i], f)
    BY Zenon, <1>2, <1>6, <1>10, <1>8, FilesAreTables
  <2>5. ASSUME NEW j \in Deep, j <= L, NEW g \in levels[j] PROVE Apart(f, g) /\ Apart(g, f) /\ Over(g, f)
    <3>1. j \in 1 .. L
      <4>1. NumLevels \in Nat
        BY Zenon, <1>1, Sizes
      <4> QED BY <2>5, <2>1, <4>1 DEF Deep
    <3> QED BY Zenon, <3>1, <2>5, <1>2, <1>6, <1>10, FilesAreTables
  <2>6. \A j, l \in Deep : (j < l => j <= l) /\ ~(j < j) /\ j <= j
    <3>1. Deep \subseteq Nat
      BY Zenon, <1>1, Sizes
    <3> QED BY <3>1
  <2>7. ASSUME NEW j \in Deep, NEW l \in Deep, j < l, NEW a \in levels'[j], NEW g \in levels'[l] PROVE Over(a, g)
    <3>1. CASE l = L /\ g = f
      <4>1. j # L
        BY Zenon, <2>6, <2>7, <3>1
      <4>2. a \in levels[j] /\ j <= L
        BY Zenon, <4>1, <2>3, <2>6, <2>7, <3>1
      <4> QED BY Zenon, <4>2, <3>1, <2>5
    <3>2. CASE g \in levels[l]
      <4>1. CASE a \in levels[j]
        BY Zenon, <4>1, <3>2, <1>1, <2>7, NewerIs
      <4>2. CASE a = f
        BY Zenon, <4>2, <3>2, <1>8
      <4>3. a \in levels[j] \/ a = f
        BY Zenon, <2>3
      <4> QED BY Zenon, <4>1, <4>2, <4>3
    <3>3. g \in levels[l] \/ (l = L /\ g = f)
      BY Zenon, <2>3
    <3> QED BY Zenon, <3>1, <3>2, <3>3
  <2>8. ASSUME NEW l \in Deep, NEW g \in levels'[l]
        PROVE  Over(mem', g) /\ Over(imm', g) /\ \A i \in DOMAIN l0' : Over(l0'[i], g)
    <3>1. g \in levels[l] \/ g = f
      BY Zenon, <2>3
    <3> QED BY Zenon, <3>1, <2>1, <2>4, <1>7, <1>8
  <2>9. \A i \in DOMAIN l0' : Over(mem', l0'[i]) /\ Over(imm', l0'[i])
    BY Zenon, <2>1, <1>7, <1>8
  <2>10. NewerAbove'
    BY Zenon, <1>1, <1>7, <2>1, <2>7, <2>8, <2>9, NewerIs, NewerIsNext
  <2>11. ASSUME NEW l \in Deep, NEW a \in levels'[l], NEW g \in levels'[l], a # g PROVE Apart(a, g)
    <3>1. CASE a \in levels[l] /\ g \in levels[l]
      BY Zenon, <3>1, <2>11 DEF Unshared
    <3>2. CASE l = L /\ a = f /\ g \in levels[l]
      BY Zenon, <3>2, <2>5, <2>6
    <3>3. CASE l = L /\ g = f /\ a \in levels[l]
      BY Zenon, <3>3, <2>5, <2>6
    <3>4. (a \in levels[l] \/ (l = L /\ a = f)) /\ (g \in levels[l] \/ (l = L /\ g = f))
      BY Zenon, <2>3
    <3> QED BY Zenon, <2>11, <3>1, <3>2, <3>3, <3>4
  <2>12. Unshared'
    BY Zenon, <2>11, <1>4 DEF Unshared
  <2> QED BY Zenon, <2>10, <2>12
<1> QED BY Zenon, <1>9, <1>10

(* Where the files of the tree come from after a compaction. *)
LEMMA Sources ==
  ASSUME Types, NEW c, Inputs(c), NEW out, setup' = setup, Replace(c.level, c.in0, c.in1, out)
  PROVE  /\ \A i \in DOMAIN l0' : i \in DOMAIN l0 /\ l0'[i] = l0[i] /\ l0[i] \in Range(l0)
              /\ (c.level = 0 => l0[i] \notin c.in0)
         /\ \A k \in Deep : \A f \in levels'[k] :
               \/ f \in levels[k] /\ (k = c.level => f \notin c.in0) /\ (k = c.level + 1 => f \notin c.in1)
               \/ k = c.level + 1 /\ f \in out
<1>1. /\ \A k \in Deep : levels'[k] = IF k = c.level THEN levels[k] \ c.in0
                                      ELSE IF k = c.level + 1 THEN (levels[k] \ c.in1) \cup out ELSE levels[k]
      /\ c.level # 0 => l0' = l0
      /\ c.level = 0 => \A i \in DOMAIN l0' : i \in DOMAIN l0 /\ l0'[i] = l0[i] /\ l0[i] \notin c.in0
      /\ c.level # c.level + 1
  BY Zenon, Replaced
<1>2. \A i \in DOMAIN l0 : l0[i] \in Range(l0)
  BY Zenon, FilesAre DEF Types, StoreTypes
<1>3. \A i \in DOMAIN l0' : i \in DOMAIN l0 /\ l0'[i] = l0[i] /\ l0[i] \in Range(l0) /\ (c.level = 0 => l0[i] \notin c.in0)
  BY Zenon, <1>1, <1>2
<1>4. ASSUME NEW k \in Deep, NEW f \in levels'[k]
      PROVE  \/ f \in levels[k] /\ (k = c.level => f \notin c.in0) /\ (k = c.level + 1 => f \notin c.in1)
             \/ k = c.level + 1 /\ f \in out
  <2>1. CASE k = c.level
    BY Zenon, <1>1, <2>1
  <2>2. CASE k = c.level + 1
    BY Zenon, <1>1, <2>2
  <2>3. CASE k # c.level /\ k # c.level + 1
    BY Zenon, <1>1, <2>3
  <2> QED BY Zenon, <2>1, <2>2, <2>3
<1> QED BY Zenon, <1>3, <1>4

(* What stays in the tree above a compaction's output, or beside it, is    *)
(* newer than the inputs or has none of their keys.                        *)
LEMMA Rest ==
  ASSUME Bytewise, Types, LevelsSorted, NewerAbove, Unshared, NEW c, Inputs(c), NEW h \in c.in0 \cup c.in1
  PROVE  /\ Over(mem, h) /\ Over(imm, h)
         /\ \A f \in Range(l0) : (c.level = 0 => f \notin c.in0) => Over(f, h)
         /\ \A f \in levels[c.level + 1] \ c.in1 : Apart(f, h) /\ Apart(h, f)
         /\ \A j \in Deep : j <= c.level + 1 =>
               \A f \in levels[j] : (j = c.level => f \notin c.in0) /\ (j = c.level + 1 => f \notin c.in1) => Over(f, h)
         /\ \A j \in Deep : j > c.level + 1 => \A g \in levels[j] : Over(h, g)
<1> DEFINE l == c.level
<1>1. /\ setup \in Setups /\ l \in 0 .. NumLevels - 2 /\ c.in0 \subseteq Files(l) /\ c.in1 \subseteq levels[l + 1]
      /\ l = 0 => \A f \in c.in0 : \A g \in Range(l0) \ c.in0 : Apart(f, g)
  BY Zenon DEF Types, StoreTypes, Inputs
<1>2. l \in Nat /\ l + 1 \in Deep /\ (l # 0 => l \in Deep /\ Files(l) = levels[l]) /\ (l = 0 => Files(l) = Range(l0))
  BY Zenon, <1>1, Sizes, FilesAre
<1>3. h \in c.in1 => h \in levels[l + 1]
  BY Zenon, <1>1
<1>4. h \in c.in0 => (l = 0 /\ h \in Range(l0)) \/ (l # 0 /\ l \in Deep /\ h \in levels[l])
  BY Zenon, <1>1, <1>2
<1> HIDE DEF l
<1>5. Over(mem, h) /\ Over(imm, h)
  BY Zenon, <1>1, <1>2, <1>3, <1>4, NewerIs
<1>6. \A f, g : Apart(f, g) => Apart(g, f)
  BY Zenon DEF Apart
<1>7. ASSUME NEW f \in Range(l0), l = 0 => f \notin c.in0 PROVE Over(f, h)
  <2>1. CASE h \in c.in0 /\ l = 0
    BY Zenon, <2>1, <1>1, <1>6, <1>7, ApartOver
  <2> QED BY Zenon, <1>1, <1>2, <1>3, <1>4, <2>1, NewerIs
<1>8. ASSUME NEW f \in levels[l + 1] \ c.in1 PROVE Apart(f, h) /\ Apart(h, f)
  <2>1. CASE h \in c.in0
    BY Zenon, <2>1, Beside DEF l
  <2>2. CASE h \in c.in1
    BY Zenon, <2>2, <1>2, <1>3, <1>6 DEF Unshared
  <2> QED BY Zenon, <2>1, <2>2
<1>9. ASSUME NEW j \in Deep, j <= l + 1, NEW f \in levels[j], j = l => f \notin c.in0, j = l + 1 => f \notin c.in1
      PROVE  Over(f, h)
  <2>1. j \in Nat /\ (j = l + 1 \/ (j < l + 1 /\ (j = l \/ j < l)))
    <3>1. j \in Nat
      BY Zenon, <1>1, Sizes
    <3> QED BY <3>1, <1>2, <1>9
  <2>2. CASE j = l + 1
    BY Zenon, <2>2, <1>8, <1>9, ApartOver
  <2>3. CASE j < l + 1 /\ h \in c.in1
    BY Zenon, <2>3, <1>1, <1>2, <1>3, <1>9, NewerIs
  <2>4. CASE j = l /\ h \in c.in0
    <3>1. l # 0
      BY Zenon, <2>4, <1>1, Sizes
    <3>2. h \in levels[l] /\ f # h
      BY Zenon, <3>1, <2>4, <1>4, <1>9
    <3> QED BY Zenon, <3>2, <2>4, <1>9, ApartOver DEF Unshared
  <2>5. CASE j < l /\ h \in c.in0
    <3>1. l # 0
      BY <2>5, <2>1
    <3> QED BY Zenon, <3>1, <2>5, <1>1, <1>4, <1>9, NewerIs
  <2> QED BY Zenon, <2>1, <2>2, <2>3, <2>4, <2>5
<1>10. ASSUME NEW j \in Deep, j > l + 1, NEW g \in levels[j] PROVE Over(h, g)
  <2>1. l < j /\ l + 1 < j
    <3>1. j \in Nat
      BY Zenon, <1>1, Sizes
    <3> QED BY <3>1, <1>2, <1>10
  <2> QED BY Zenon, <2>1, <1>1, <1>2, <1>3, <1>4, NewerIs
<1> QED BY Zenon, <1>5, <1>7, <1>8, <1>9, <1>10 DEF l

(* A compaction keeps the order between levels, and lets no two files of a *)
(* level share a key if its outputs do not.                                *)
LEMMA NewerReplace ==
  ASSUME Bytewise, Types, LevelsSorted, NewerAbove, Unshared, NEW c, Inputs(c), NEW out,
         setup' = setup, mem' = mem, imm' = imm, Replace(c.level, c.in0, c.in1, out),
         \A p \in out : p \subseteq UNION (c.in0 \cup c.in1),
         \A p, q \in out : p # q => Apart(p, q)
  PROVE  NewerAbove' /\ Unshared'
<1> DEFINE l == c.level
<1> DEFINE Stays(k, f) == f \in levels[k] /\ (k = l => f \notin c.in0) /\ (k = l + 1 => f \notin c.in1)
<1>1. setup \in Setups /\ l \in 0 .. NumLevels - 2 /\ Deep' = Deep
  BY Zenon DEF Types, StoreTypes, Inputs, Deep, NumLevels
<1>2. l \in Nat /\ l + 1 \in Deep
  BY Zenon, <1>1, Sizes
<1>3. \A i \in DOMAIN l0' : i \in DOMAIN l0 /\ l0'[i] = l0[i] /\ l0[i] \in Range(l0) /\ (l = 0 => l0[i] \notin c.in0)
  BY Zenon, Sources
<1>4. \A k \in Deep : \A f \in levels'[k] : Stays(k, f) \/ (k = l + 1 /\ f \in out)
  BY Zenon, Sources
<1>5. ASSUME NEW p \in out, NEW g, \A h \in c.in0 \cup c.in1 : Over(g, h) PROVE Over(g, p)
  BY Zenon, <1>5 DEF Over
<1>6. ASSUME NEW p \in out, NEW g, \A h \in c.in0 \cup c.in1 : Over(h, g) PROVE Over(p, g)
  BY Zenon, <1>6 DEF Over
<1>7. ASSUME NEW p \in out, NEW g, \A h \in c.in0 \cup c.in1 : Apart(g, h) PROVE Apart(g, p) /\ Apart(p, g)
  BY Zenon, <1>7 DEF Apart
<1>8. ASSUME NEW h \in c.in0 \cup c.in1
      PROVE  /\ Over(mem, h) /\ Over(imm, h)
             /\ \A f \in Range(l0) : (l = 0 => f \notin c.in0) => Over(f, h)
             /\ \A f : Stays(l + 1, f) => Apart(f, h)
             /\ \A j \in Deep : j <= l + 1 => \A f : Stays(j, f) => Over(f, h)
             /\ \A j \in Deep : j > l + 1 => \A g \in levels[j] : Over(h, g)
  BY Zenon, Rest
<1> HIDE DEF l
<1>9. ASSUME NEW p \in out
      PROVE  /\ Over(mem, p) /\ Over(imm, p) /\ \A i \in DOMAIN l0' : Over(l0'[i], p)
             /\ \A j \in Deep : j < l + 1 => \A f : Stays(j, f) => Over(f, p)
             /\ \A j \in Deep : j > l + 1 => \A g \in levels[j] : Over(p, g)
             /\ \A f : Stays(l + 1, f) => Apart(f, p) /\ Apart(p, f)
  <2>1. \A j \in Deep : j < l + 1 => j <= l + 1
    <3>1. Deep \subseteq Nat
      BY Zenon, <1>1, Sizes
    <3> QED BY <3>1, <1>2
  <2> HIDE DEF Stays
  <2>2. Over(mem, p) /\ Over(imm, p)
    BY Zenon, <1>5, <1>8
  <2>3. ASSUME NEW i \in DOMAIN l0' PROVE Over(l0'[i], p)
    BY Zenon, <1>3, <1>5, <1>8
  <2>4. ASSUME NEW j \in Deep, j < l + 1, NEW f, Stays(j, f) PROVE Over(f, p)
    BY Zenon, <2>1, <2>4, <1>5, <1>8
  <2>5. ASSUME NEW j \in Deep, j > l + 1, NEW g \in levels[j] PROVE Over(p, g)
    BY Zenon, <2>5, <1>6, <1>8
  <2>6. ASSUME NEW f, Stays(l + 1, f) PROVE Apart(f, p) /\ Apart(p, f)
    BY Zenon, <2>6, <1>7, <1>8
  <2> QED BY Zenon, <2>2, <2>3, <2>4, <2>5, <2>6
<1>10. \A i \in DOMAIN l0' : Over(mem', l0'[i]) /\ Over(imm', l0'[i])
  BY Zenon, <1>1, <1>3, NewerIs
<1>11. ASSUME NEW i \in DOMAIN l0', NEW j \in DOMAIN l0', i < j PROVE Over(l0'[j], l0'[i])
  BY Zenon, <1>1, <1>3, <1>11, NewerIs
<1>12. ASSUME NEW k \in Deep, NEW g \in levels'[k]
       PROVE  Over(mem', g) /\ Over(imm', g) /\ \A i \in DOMAIN l0' : Over(l0'[i], g)
  <2>1. CASE g \in levels[k]
    BY Zenon, <1>1, <1>3, <2>1, NewerIs
  <2>2. CASE g \in out
    BY Zenon, <1>9, <2>2
  <2> QED BY Zenon, <1>4, <2>1, <2>2
<1>13. ASSUME NEW j \in Deep, NEW k \in Deep, j < k, NEW f \in levels'[j], NEW g \in levels'[k] PROVE Over(f, g)
  <2>1. CASE f \in levels[j] /\ g \in levels[k]
    BY Zenon, <1>1, <1>13, <2>1, NewerIs
  <2>2. CASE Stays(j, f) /\ k = l + 1 /\ g \in out
    BY Zenon, <2>2, <1>9, <1>13
  <2>3. CASE j = l + 1 /\ f \in out /\ g \in levels[k]
    <3>1. k > l + 1
      BY <2>3, <1>13
    <3> QED BY Zenon, <3>1, <2>3, <1>9
  <2>4. ~(j = l + 1 /\ k = l + 1)
    BY <1>2, <1>13
  <2>5. (Stays(j, f) \/ (j = l + 1 /\ f \in out)) /\ (Stays(k, g) \/ (k = l + 1 /\ g \in out))
    BY Zenon, <1>4
  <2> QED BY Zenon, <2>1, <2>2, <2>3, <2>4, <2>5
<1>14. NewerAbove'
  <2>1. Over(mem', imm')
    BY Zenon, <1>1, NewerIs
  <2> QED BY Zenon, <1>1, <1>10, <1>11, <1>12, <1>13, <2>1, NewerIsNext
<1>15. ASSUME NEW k \in Deep, NEW f \in levels'[k], NEW g \in levels'[k], f # g PROVE Apart(f, g)
  <2>1. CASE f \in levels[k] /\ g \in levels[k]
    BY Zenon, <1>15, <2>1 DEF Unshared
  <2>2. CASE f \in out /\ g \in out
    BY Zenon, <1>15, <2>2
  <2>3. CASE Stays(l + 1, f) /\ g \in out
    BY Zenon, <1>9, <2>3
  <2>4. CASE Stays(l + 1, g) /\ f \in out
    BY Zenon, <1>9, <2>4
  <2>5. (Stays(k, f) \/ (k = l + 1 /\ f \in out)) /\ (Stays(k, g) \/ (k = l + 1 /\ g \in out))
    BY Zenon, <1>4
  <2> QED BY Zenon, <2>1, <2>2, <2>3, <2>4, <2>5
<1>16. Unshared'
  BY Zenon, <1>1, <1>15 DEF Unshared
<1> QED BY Zenon, <1>14, <1>16
-----------------------------------------------------------------------------
(* What readers see. *)

(* An entry is stored in a memtable or in a file of some level. *)
LEMMA StoredIs ==
  ASSUME setup \in Setups
  PROVE  \A e : e \in Stored <=> \/ e \in mem \/ e \in imm \/ \E i \in DOMAIN l0 : e \in l0[i]
                                 \/ \E l \in Deep : \E f \in levels[l] : e \in f
<1>1. 0 \in 0 .. NumLevels - 1
  <2>1. NumLevels \in Nat \ {0, 1}
    BY Zenon, Sizes
  <2> QED BY <2>1
<1>2. /\ \A l \in 0 .. NumLevels - 1 : l = 0 \/ l \in Deep
      /\ \A l \in Deep : l \in 0 .. NumLevels - 1
  BY Zenon, Sizes
<1>3. \A e : e \in Stored <=> e \in mem \/ e \in imm \/ \E l \in 0 .. NumLevels - 1 : \E f \in Files(l) : e \in f
  BY Zenon DEF Stored
<1>4. \A e : (\E f \in Files(0) : e \in f) <=> \E i \in DOMAIN l0 : e \in l0[i]
  BY Zenon DEF Files, Range
<1>5. \A l \in Deep : Files(l) = levels[l]
  BY Zenon, FilesAre
<1> QED BY Zenon, <1>1, <1>2, <1>3, <1>4, <1>5

(* The same in the next state. *)
LEMMA StoredIsNext ==
  ASSUME setup \in Setups, setup' = setup
  PROVE  \A e : e \in Stored' <=> \/ e \in mem' \/ e \in imm' \/ \E i \in DOMAIN l0' : e \in l0'[i]
                                  \/ \E l \in Deep : \E f \in levels'[l] : e \in f
<1>1. 0 \in 0 .. NumLevels - 1 /\ NumLevels' = NumLevels
  <2>1. NumLevels \in Nat \ {0, 1} /\ NumLevels' = NumLevels
    BY Zenon, Sizes DEF NumLevels
  <2> QED BY <2>1
<1>2. /\ \A l \in 0 .. NumLevels - 1 : l = 0 \/ l \in Deep
      /\ \A l \in Deep : l \in 0 .. NumLevels - 1 /\ l # 0
  BY Zenon, Sizes
<1>3. \A e : e \in Stored' <=> e \in mem' \/ e \in imm' \/ \E l \in 0 .. NumLevels - 1 : \E f \in Files(l)' : e \in f
  BY Zenon, <1>1 DEF Stored
<1>4. \A e : (\E f \in Files(0)' : e \in f) <=> \E i \in DOMAIN l0' : e \in l0'[i]
  BY Zenon DEF Files, Range
<1>5. \A l \in Deep : Files(l)' = levels'[l]
  BY Zenon, <1>2 DEF Files
<1> QED BY Zenon, <1>1, <1>2, <1>3, <1>4, <1>5

(* What is stored has been written. *)
LEMMA StoredProper ==
  ASSUME Types, NEW k, NEW s
  PROVE  Stored \subseteq log /\ Proper(In(Stored, k, s)) /\ Proper(Stored)
<1>1. Proper(log) /\ setup \in Setups /\ mem \subseteq log /\ imm \subseteq log
  BY Zenon DEF Types, StoreTypes
<1>2. \A i \in DOMAIN l0 : l0[i] \subseteq log
  BY Zenon DEF Types, TreeTypes, Table
<1>3. \A l \in Deep : \A f \in levels[l] : f \subseteq log
  BY Zenon DEF Types, TreeTypes, Table
<1>4. Stored \subseteq log
  BY Zenon, <1>1, <1>2, <1>3, StoredIs
<1>5. In(Stored, k, s) \subseteq log
  BY Zenon, <1>4 DEF In
<1> QED BY Zenon, <1>1, <1>4, <1>5, ProperPart

(* A set of versions has a newest. *)
LEMMA NewestIs ==
  ASSUME NEW es, Proper(es), es # {}
  PROVE  \E m \in es : \A d \in es : d.seq <= m.seq
<1> DEFINE T == {e.seq : e \in es}
<1>1. PICK n \in Nat : \A e \in es : e.seq <= n
  BY Zenon DEF Proper
<1>2. T \subseteq Nat /\ T # {} /\ \A y \in T : y <= n
  BY Zenon, <1>1, ProperType
<1>3. \A e \in es : e.seq \in T
  BY Zenon
<1>4. \A y \in T : \E e \in es : e.seq = y
  BY Zenon
<1> HIDE DEF T
<1>5. PICK x \in T : \A y \in T : y <= x
  BY Zenon, <1>2, Greatest
<1> QED BY Zenon, <1>3, <1>4, <1>5

(* A part of the versions that has the newest one has the same value. *)
LEMMA SameValue ==
  ASSUME NEW es, Proper(es), NEW fs, fs \subseteq es, NEW m \in fs, \A d \in es : d.seq <= m.seq
  PROVE  Value(fs) = Value(es)
<1>1. \A e \in es : m.seq <= e.seq => e = m
  <2> SUFFICES ASSUME NEW e \in es, m.seq <= e.seq PROVE e = m
    OBVIOUS
  <2>1. e.seq <= m.seq /\ e.seq \in Nat /\ m.seq \in Nat /\ m \in es
    BY Zenon, ProperType
  <2>2. e.seq = m.seq
    BY <2>1
  <2> QED BY Zenon, <2>1, <2>2 DEF Proper
<1>2. \A e : e \in Value(es) <=> e = m /\ m.kind = "put"
  BY Zenon, <1>1 DEF Value
<1>3. \A e : e \in Value(fs) <=> e = m /\ m.kind = "put"
  BY Zenon, <1>1 DEF Value
<1> QED BY Zenon, <1>2, <1>3

(* A part without the newest version, a tombstone, or anything older. *)
LEMMA NoValue ==
  ASSUME NEW es, Proper(es), NEW m \in es, m.kind = "del", \A d \in es : d.seq <= m.seq
  PROVE  Value(es) = {}
<1>1. ASSUME NEW e \in Value(es) PROVE FALSE
  <2>1. e \in es /\ e.kind = "put" /\ m.seq <= e.seq
    BY Zenon DEF Value
  <2>2. e.seq <= m.seq /\ e.seq \in Nat /\ m.seq \in Nat
    BY Zenon, <2>1, ProperType
  <2>3. e.seq = m.seq
    BY <2>1, <2>2
  <2>4. e = m
    BY Zenon, <2>1, <2>3 DEF Proper
  <2>5. "put" # "del"
    OBVIOUS
  <2> QED BY Zenon, <2>1, <2>4, <2>5
<1> QED BY Zenon, <1>1

(* Scans are right as long as nothing is written, lost or newly looked     *)
(* for.                                                                    *)
LEMMA ScansStay ==
  ASSUME ScansLatest, log' = log, Stored' = Stored, ReadPoints' \subseteq ReadPoints
  PROVE  ScansLatest'
BY Zenon DEF ScansLatest, Scan, Latest

(* A write is the newest version of its key, which no snapshot sees yet. *)
LEMMA ScansWrite ==
  ASSUME Types, ScansLatest, NEW k \in Keys, NEW kind \in {"put", "del"}, Write(k, kind)
  PROVE  ScansLatest'
<1>1. PICK e \in Entry : /\ e.key = k /\ e.seq = last_sequence + 1 /\ e.kind = kind
                         /\ log' = log \cup {e} /\ mem' = mem \cup {e} /\ last_sequence' = e.seq
                         /\ last_sequence' \in Nat /\ last_sequence <= last_sequence'
                         /\ \A d \in log : d.seq \in Nat /\ d.seq < e.seq /\ d.seq # e.seq
                         /\ UNCHANGED <<setup, imm, snapshots, l0, levels, compaction, draining,
                                        compact_pointer, saved_pointer, file_to_compact>>
                         /\ StoreTypes'
  <2>1. StoreTypes
    BY Zenon DEF Types
  <2> QED BY <2>1, WriteAdds
<1>2. setup \in Setups /\ last_sequence \in Nat /\ snapshots \subseteq 0 .. last_sequence
        /\ \A d \in log : d.seq <= last_sequence
  BY Zenon DEF Types, StoreTypes
<1>3. Stored' = Stored \cup {e}
  <2>1. \A d : d \in Stored' <=> d \in Stored \/ d = e
    BY Zenon, <1>1, <1>2, StoredIs, StoredIsNext
  <2> QED BY Zenon, <2>1
<1>4. Stored \subseteq log /\ Proper(log')
  BY Zenon, <1>1, StoredProper DEF StoreTypes
<1>5. e.seq \in Nat /\ \A d \in log : d.seq <= e.seq
  BY <1>1, <1>2
<1>6. ASSUME NEW j \in Keys, NEW s \in ReadPoints' PROVE Scan(j, s)' = Latest(j, s)'
  <2>1. Scan(j, s)' = Value(In(Stored', j, s)) /\ Latest(j, s)' = Value(In(log', j, s))
    BY Zenon DEF Scan, Latest
  <2>2. CASE e \in In(log', j, s)
    <3>1. In(Stored', j, s) \subseteq In(log', j, s)
      BY Zenon, <1>1, <1>3, <1>4 DEF In
    <3>2. e \in In(Stored', j, s)
      BY Zenon, <2>2, <1>3 DEF In
    <3>3. e.seq <= e.seq
      BY <1>5
    <3>4. \A d \in In(log', j, s) : d.seq <= e.seq
      BY Zenon, <1>1, <1>5, <3>3 DEF In
    <3>5. Proper(In(log', j, s))
      <4>1. In(log', j, s) \subseteq log'
        BY Zenon DEF In
      <4> QED BY Zenon, <4>1, <1>4, ProperPart
    <3> QED BY Zenon, <2>1, <3>1, <3>2, <3>4, <3>5, SameValue
  <2>3. CASE e \notin In(log', j, s)
    <3>1. PICK t \in ReadPoints : \A d \in log : d.seq <= s <=> d.seq <= t
      <4>1. s \in snapshots \/ s = e.seq
        BY Zenon, <1>1 DEF ReadPoints
      <4>2. CASE s \in snapshots
        BY Zenon, <4>2 DEF ReadPoints
      <4>3. CASE s = e.seq
        <5>1. \A d \in log : d.seq <= s <=> d.seq <= last_sequence
          BY Zenon, <4>3, <1>2, <1>5
        <5> QED BY Zenon, <5>1 DEF ReadPoints
      <4> QED BY Zenon, <4>1, <4>2, <4>3
    <3>2. ASSUME NEW es, es \subseteq log PROVE In(es \cup {e}, j, s) = In(es, j, t)
      <4>1. ~(e.key = j /\ e.seq <= s)
        BY Zenon, <2>3, <1>1 DEF In
      <4>2. \A d : d \in In(es \cup {e}, j, s) <=> d \in In(es, j, t)
        BY Zenon, <3>1, <3>2, <4>1 DEF In
      <4> QED BY Zenon, <4>2
    <3>3. In(Stored', j, s) = In(Stored, j, t) /\ In(log', j, s) = In(log, j, t)
      BY Zenon, <1>1, <1>3, <1>4, <3>2
    <3>4. Value(In(Stored, j, t)) = Value(In(log, j, t))
      BY Zenon DEF ScansLatest, Scan, Latest
    <3> QED BY Zenon, <2>1, <3>3, <3>4
  <2> QED BY Zenon, <2>2, <2>3
<1> QED BY Zenon, <1>6 DEF ScansLatest

(* After a compaction the tree has what it had, except the dropped entries.*)
LEMMA StoredAfter ==
  ASSUME Types, NEW c, Inputs(c), NEW out, UNCHANGED <<setup, mem, imm>>, Replace(c.level, c.in0, c.in1, out),
         \A p \in out : p \subseteq UNION (c.in0 \cup c.in1)
  PROVE  /\ Stored' \subseteq Stored
         /\ \A e \in Stored \ Stored' : e \in UNION (c.in0 \cup c.in1) /\ \A p \in out : e \notin p
<1> DEFINE l == c.level
<1>1. setup \in Setups /\ l \in 0 .. NumLevels - 2 /\ c.in0 \subseteq Files(l) /\ c.in1 \subseteq levels[l + 1]
  BY Zenon DEF Types, StoreTypes, Inputs
<1>2. l \in Nat /\ l + 1 \in Deep /\ (l # 0 => l \in Deep /\ Files(l) = levels[l]) /\ (l = 0 => Files(l) = Range(l0))
  BY Zenon, <1>1, Sizes, FilesAre
<1>3. ASSUME NEW f \in c.in0 \cup c.in1, NEW e \in f PROVE e \in Stored
  <2>1. CASE f \in c.in1
    BY Zenon, <2>1, <1>1, <1>2, <1>3, StoredIs
  <2>2. CASE f \in c.in0 /\ l # 0
    BY Zenon, <2>2, <1>1, <1>2, <1>3, StoredIs
  <2>3. CASE f \in c.in0 /\ l = 0
    <3>1. PICK i \in DOMAIN l0 : f = l0[i]
      BY Zenon, <2>3, <1>1, <1>2, FilesAre
    <3> QED BY Zenon, <3>1, <1>1, <1>3, StoredIs
  <2> QED BY Zenon, <2>1, <2>2, <2>3
<1>4. ASSUME NEW e \in Stored' PROVE e \in Stored
  <2>1. CASE e \in mem' \/ e \in imm'
    BY Zenon, <2>1, <1>1, StoredIs
  <2>2. CASE \E i \in DOMAIN l0' : e \in l0'[i]
    <3>1. \E i \in DOMAIN l0 : e \in l0[i]
      BY Zenon, <2>2, Sources
    <3> QED BY Zenon, <3>1, <1>1, StoredIs
  <2>3. CASE \E k \in Deep : \E f \in levels'[k] : e \in f
    <3>1. PICK k \in Deep : \E f \in levels'[k] : e \in f
      BY Zenon, <2>3
    <3>2. PICK f \in levels'[k] : e \in f
      BY Zenon, <3>1
    <3>3. f \in levels[k] \/ f \in out
      BY Zenon, <3>2, Sources
    <3>4. CASE f \in levels[k]
      BY Zenon, <3>2, <3>4, <1>1, StoredIs
    <3>5. CASE f \in out
      BY Zenon, <3>2, <3>5, <1>3
    <3> QED BY Zenon, <3>3, <3>4, <3>5
  <2> QED BY Zenon, <1>1, <1>4, <2>1, <2>2, <2>3, StoredIsNext
<1>5. /\ \A k \in Deep : levels'[k] = IF k = l THEN levels[k] \ c.in0
                                      ELSE IF k = l + 1 THEN (levels[k] \ c.in1) \cup out ELSE levels[k]
      /\ l # 0 => l0' = l0
      /\ l = 0 => /\ \A i \in DOMAIN l0' : i \in DOMAIN l0 /\ l0'[i] = l0[i] /\ l0[i] \notin c.in0
                  /\ \A i \in DOMAIN l0 : l0[i] \notin c.in0 => i \in DOMAIN l0'
      /\ l # l + 1
  BY Zenon, Replaced
<1> HIDE DEF l
<1>6. ASSUME NEW e \in Stored, e \notin UNION (c.in0 \cup c.in1) PROVE e \in Stored'
  <2>1. CASE e \in mem \/ e \in imm
    BY Zenon, <2>1, <1>1, StoredIsNext
  <2>2. CASE \E i \in DOMAIN l0 : e \in l0[i]
    <3>1. PICK i \in DOMAIN l0 : e \in l0[i]
      BY Zenon, <2>2
    <3>2. l0[i] \notin c.in0
      BY Zenon, <3>1, <1>6
    <3>3. i \in DOMAIN l0' /\ l0'[i] = l0[i]
      BY Zenon, <3>2, <1>5
    <3> QED BY Zenon, <3>1, <3>3, <1>1, StoredIsNext
  <2>3. CASE \E k \in Deep : \E f \in levels[k] : e \in f
    <3>1. PICK k \in Deep : \E f \in levels[k] : e \in f
      BY Zenon, <2>3
    <3>2. PICK f \in levels[k] : e \in f
      BY Zenon, <3>1
    <3>3. f \notin c.in0 /\ f \notin c.in1
      BY Zenon, <3>2, <1>6
    <3>4. f \in levels'[k]
      <4>1. CASE k = l
        BY Zenon, <4>1, <3>2, <3>3, <1>5
      <4>2. CASE k = l + 1
        BY Zenon, <4>2, <3>2, <3>3, <1>5
      <4>3. CASE k # l /\ k # l + 1
        BY Zenon, <4>3, <3>2, <1>5
      <4> QED BY Zenon, <4>1, <4>2, <4>3
    <3> QED BY Zenon, <3>2, <3>4, <1>1, StoredIsNext
  <2> QED BY Zenon, <1>1, <2>1, <2>2, <2>3, StoredIs
<1>7. ASSUME NEW p \in out, NEW e \in p PROVE e \in Stored'
  <2>1. levels'[l + 1] = (levels[l + 1] \ c.in1) \cup out
    BY Zenon, <1>2, <1>5
  <2>2. p \in levels'[l + 1]
    BY Zenon, <2>1
  <2> QED BY Zenon, <2>2, <1>1, <1>2, <1>7, StoredIsNext
<1> QED BY Zenon, <1>4, <1>6, <1>7

(* Nothing older than a dropped tombstone stays anywhere in the tree. *)
LEMMA NothingOlder ==
  ASSUME Bytewise, Types, LevelsSorted, NewerAbove, Unshared, NEW c, Inputs(c), NEW out,
         UNCHANGED <<setup, mem, imm>>, Replace(c.level, c.in0, c.in1, out),
         \A p \in out : p \subseteq Kept(c),
         NEW m \in UNION (c.in0 \cup c.in1), m.seq <= c.smallest_snapshot, IsBaseLevelForKey(c.level, m.key),
         NEW o \in Stored', o.key = m.key
  PROVE  ~(o.seq < m.seq)
<1> SUFFICES ASSUME o.seq < m.seq PROVE FALSE
  OBVIOUS
<1> DEFINE l == c.level
<1>1. PICK h \in c.in0 \cup c.in1 : m \in h
  BY Zenon
<1>2. setup \in Setups /\ l \in 0 .. NumLevels - 2 /\ Proper(log)
  BY Zenon DEF Types, StoreTypes, Inputs
<1>3. l \in Nat /\ l + 1 \in Deep
  BY Zenon, <1>2, Sizes
<1>4. Kept(c) \subseteq UNION (c.in0 \cup c.in1) /\ UNION (c.in0 \cup c.in1) \subseteq log
  BY Zenon, KeptIs
<1>5. Stored' \subseteq Stored
  BY Zenon, <1>4, StoredAfter
<1>6. o.seq \in Nat /\ m.seq \in Nat /\ o.key \in Keys
  BY Zenon, <1>2, <1>4, <1>5, StoredProper, ProperType
<1>7. ASSUME NEW f, o \in f, Over(f, h) PROVE FALSE
  <2>1. o.seq > m.seq
    BY Zenon, <1>1, <1>7 DEF Over
  <2> QED BY <2>1, <1>6
<1>8. /\ Over(mem, h) /\ Over(imm, h)
      /\ \A f \in Range(l0) : (l = 0 => f \notin c.in0) => Over(f, h)
      /\ \A j \in Deep : j <= l + 1 =>
            \A f \in levels[j] : (j = l => f \notin c.in0) /\ (j = l + 1 => f \notin c.in1) => Over(f, h)
  BY Zenon, Rest
<1>9. CASE o \in mem' \/ o \in imm'
  BY Zenon, <1>7, <1>8, <1>9
<1>10. CASE \E i \in DOMAIN l0' : o \in l0'[i]
  BY Zenon, <1>7, <1>8, <1>10, Sources
<1>11. CASE \E k \in Deep : \E f \in levels'[k] : o \in f
  <2>1. PICK k \in Deep : \E f \in levels'[k] : o \in f
    BY Zenon, <1>11
  <2>2. PICK f \in levels'[k] : o \in f
    BY Zenon, <2>1
  <2>3. \/ f \in levels[k] /\ (k = l => f \notin c.in0) /\ (k = l + 1 => f \notin c.in1)
        \/ k = l + 1 /\ f \in out
    BY Zenon, <2>2, Sources
  <2> HIDE DEF l
  <2>4. CASE f \in out
    <3>1. o \in Kept(c)
      BY Zenon, <2>2, <2>4
    <3>2. ~Dropped(o, UNION (c.in0 \cup c.in1), c)
      BY Zenon, <3>1 DEF Kept
    <3>3. m.seq > o.seq
      BY <1>6
    <3> QED BY Zenon, <3>2, <3>3 DEF Dropped
  <2>5. CASE f \in levels[k] /\ (k = l => f \notin c.in0) /\ (k = l + 1 => f \notin c.in1)
    <3>1. CASE k <= l + 1
      BY Zenon, <2>2, <2>5, <3>1, <1>7, <1>8
    <3>2. CASE ~(k <= l + 1)
      <4>1. k \in l + 2 .. NumLevels - 1
        <5>1. NumLevels \in Nat
          BY Zenon, <1>2, Sizes
        <5> QED BY <5>1, <1>3, <3>2 DEF Deep
      <4>2. ~Covers(f, o.key)
        BY Zenon, <4>1, <2>5 DEF IsBaseLevelForKey, l
      <4>3. Table(f, log)
        BY Zenon, <2>5, FilesAreTables
      <4>4. Rank[Lo(f)] <= Rank[o.key] /\ Rank[o.key] <= Rank[Hi(f)]
        BY Zenon, <4>3, <2>2, <1>2, Ends
      <4> QED BY Zenon, <4>2, <4>4 DEF Covers
    <3> QED BY Zenon, <3>1, <3>2
  <2> QED BY Zenon, <2>3, <2>4, <2>5
<1> QED BY Zenon, <1>2, <1>9, <1>10, <1>11, StoredIsNext

(* A merge drops only what no reader looks for. *)
LEMMA ScansMerge ==
  ASSUME Bytewise, Types, LevelsSorted, NewerAbove, Unshared, ScansLatest, NEW c, Inputs(c), NEW out,
         UNCHANGED <<setup, log, last_sequence, mem, imm, snapshots>>, Replace(c.level, c.in0, c.in1, out),
         \A p \in out : p \subseteq Kept(c), \A e \in Kept(c) : \E p \in out : e \in p,
         c.smallest_snapshot \in Nat, \A s \in ReadPoints : c.smallest_snapshot <= s
  PROVE  ScansLatest'
<1> DEFINE all == UNION (c.in0 \cup c.in1)
<1>1. Kept(c) \subseteq all /\ all \subseteq log
  BY Zenon, KeptIs
<1>2. \A p \in out : p \subseteq all
  BY Zenon, <1>1
<1>3. Stored' \subseteq Stored /\ \A e \in Stored \ Stored' : e \in all /\ \A p \in out : e \notin p
  BY Zenon, <1>2, StoredAfter
<1>4. \A e \in Stored \ Stored' : e \in all /\ Dropped(e, all, c)
  BY Zenon, <1>3 DEF Kept
<1>5. \A e \in all : e \in Stored
  <2>1. setup \in Setups /\ c.level \in 0 .. NumLevels - 2 /\ c.in0 \subseteq Files(c.level)
          /\ c.in1 \subseteq levels[c.level + 1]
    BY Zenon DEF Types, StoreTypes, Inputs
  <2>2. c.level \in 0 .. NumLevels - 1 /\ c.level + 1 \in Deep
    BY Zenon, <2>1, Sizes
  <2>3. c.level + 1 \in 0 .. NumLevels - 1 /\ Files(c.level + 1) = levels[c.level + 1]
    BY Zenon, <2>1, <2>2, Sizes, FilesAre
  <2> QED BY Zenon, <2>1, <2>2, <2>3 DEF Stored
<1> HIDE DEF all
<1>6. ASSUME NEW k \in Keys, NEW s \in ReadPoints' PROVE Scan(k, s)' = Latest(k, s)'
  <2> DEFINE es == In(Stored, k, s)
             fs == In(Stored', k, s)
  <2>1. s \in ReadPoints
    BY Zenon DEF ReadPoints
  <2>2. Scan(k, s)' = Value(fs) /\ Latest(k, s)' = Latest(k, s) /\ Value(es) = Latest(k, s)
    BY Zenon, <2>1 DEF Scan, Latest, ScansLatest
  <2>3. fs \subseteq es /\ Proper(es)
    BY Zenon, <1>3, StoredProper DEF In
  <2>4. \A e \in es : e \in Stored /\ e.key = k /\ e.seq <= s
    BY Zenon DEF In
  <2>5. \A e : e \in fs <=> e \in Stored' /\ e.key = k /\ e.seq <= s
    BY Zenon DEF In
  <2>6. \A e \in Stored : e.key = k /\ e.seq <= s => e \in es
    BY Zenon DEF In
  <2> HIDE DEF es, fs
  <2>7. CASE es = {}
    BY Zenon, <2>7, <2>2, <2>3
  <2>8. CASE es # {}
    <3>1. PICK m \in es : \A d \in es : d.seq <= m.seq
      BY Zenon, <2>3, <2>8, NewestIs
    <3>2. CASE m \in fs
      BY Zenon, <3>1, <3>2, <2>2, <2>3, SameValue
    <3>3. CASE m \notin fs
      <4>1. m \in Stored \ Stored' /\ m.key = k /\ m.seq <= s
        BY Zenon, <3>3, <2>4, <2>5
      <4>2. m \in all /\ Dropped(m, all, c)
        BY Zenon, <4>1, <1>4
      <4>3. ASSUME NEW d \in all, d.key = m.key, d.seq > m.seq, d.seq <= c.smallest_snapshot PROVE FALSE
        <5>1. d.seq \in Nat /\ s \in Nat /\ m.seq \in Nat
          <6>1. last_sequence \in Nat /\ snapshots \subseteq 0 .. last_sequence /\ Proper(log)
            BY Zenon DEF Types, StoreTypes
          <6>2. \A t \in ReadPoints : t \in Nat
            BY <6>1 DEF ReadPoints
          <6> QED BY Zenon, <1>1, <2>1, <2>3, <6>1, <6>2, ProperType
        <5>2. c.smallest_snapshot <= s
          BY Zenon, <2>1
        <5>3. d.seq <= s
          BY <5>1, <5>2, <4>3
        <5>4. d.seq <= m.seq
          BY Zenon, <5>3, <4>1, <4>3, <3>1, <2>6, <1>5
        <5> QED BY <5>1, <5>4, <4>3
      <4>4. m.kind = "del" /\ m.seq <= c.smallest_snapshot /\ IsBaseLevelForKey(c.level, m.key)
        BY Zenon, <4>2, <4>3 DEF Dropped
      <4>5. ASSUME NEW o \in fs PROVE FALSE
        <5>1. o \in es /\ o # m /\ o \in Stored' /\ o.key = m.key
          BY Zenon, <2>3, <2>5, <3>3, <4>1, <4>5
        <5>2. o.seq # m.seq
          BY Zenon, <5>1, <2>3 DEF Proper
        <5>3. o.seq \in Nat /\ m.seq \in Nat /\ o.seq <= m.seq
          BY Zenon, <5>1, <2>3, <3>1, ProperType
        <5>4. o.seq < m.seq
          BY <5>2, <5>3
        <5> QED BY Zenon, <5>1, <5>4, <4>2, <4>4, NothingOlder DEF all
      <4>6. Value(es) = {}
        BY Zenon, <2>3, <3>1, <4>4, NoValue
      <4>7. Value(fs) = {}
        BY Zenon, <4>5 DEF Value
      <4> QED BY Zenon, <2>2, <4>6, <4>7
    <3> QED BY Zenon, <3>2, <3>3
  <2> QED BY Zenon, <2>7, <2>8
<1> QED BY Zenon, <1>6 DEF ScansLatest

(* A file of a sorted level that has a version of the key a read may see   *)
(* is the one Version::get consults there.                                 *)
LEMMA HitHolds ==
  ASSUME Types, LevelsSorted, Unshared, NEW l \in Deep, NEW f \in levels[l], NEW k \in Keys, NEW s \in Nat,
         In(f, k, s) # {}
  PROVE  f \in LevelHit(l, k, s)
<1> DEFINE reach == {g \in levels[l] : ~ILess(Hi(g), Largest(g).seq, k, s)}
<1>1. PICK e \in f : e.key = k /\ e.seq <= s
  BY Zenon DEF In
<1>2. Proper(log) /\ \A g \in levels[l] : Table(g, log)
  BY Zenon, FilesAreTables DEF Types, StoreTypes
<1>3. \A g \in levels[l] : Largest(g) \in g /\ Smallest(g) \in g /\ Hi(g) = Largest(g).key
        /\ Largest(g) \in Entry /\ Smallest(g) \in Entry
  BY Zenon, <1>2, Ends DEF Hi
<1>4. e \in Entry /\ Rank[Lo(f)] <= Rank[k] /\ Rank[k] <= Rank[Hi(f)] /\ (e = Largest(f) \/ Precedes(e, Largest(f)))
  BY Zenon, <1>1, <1>2, Ends
<1>5. e.seq \in Nat /\ Rank[k] \in Nat /\ \A g \in levels[l] : Rank[Hi(g)] \in Nat
        /\ Largest(g).seq \in Nat /\ Hi(g) \in Keys
  BY Zenon, <1>3, <1>4, EntryType, RankType
<1>6. f \in reach
  <2>1. ~(Rank[Hi(f)] < Rank[k])
    BY <1>4, <1>5
  <2>2. Hi(f) = k => Largest(f).seq <= e.seq
    <3>1. CASE e = Largest(f)
      BY <3>1, <1>5
    <3>2. CASE Precedes(e, Largest(f))
      <4>1. e.key = Largest(f).key => e.seq > Largest(f).seq
        BY Zenon, <3>2, <1>3, <1>4, PrecedesIrreflexive
      <4>2. Hi(f) = k => e.seq > Largest(f).seq
        BY Zenon, <4>1, <1>1, <1>3
      <4> QED BY <4>2, <1>5
    <3> QED BY Zenon, <3>1, <3>2, <1>4
  <2>3. Hi(f) = k => ~(Largest(f).seq > s)
    BY <2>2, <1>1, <1>5
  <2> QED BY Zenon, <2>1, <2>3 DEF ILess
<1>7. ASSUME NEW g \in reach, g # f PROVE Precedes(Smallest(f), Smallest(g))
  <2>1. g \in levels[l] /\ ~ILess(Hi(g), Largest(g).seq, k, s)
    BY Zenon
  <2>2. Left(f, g) \/ Left(g, f)
    BY Zenon, <1>7, <2>1, SortedIs DEF SideBySide
  <2>3. CASE Left(f, g)
    BY Zenon, <2>1, <2>3, <1>3 DEF Left
  <2>4. CASE Left(g, f)
    <3>1. Precedes(Largest(g), e)
      BY Zenon, <2>1, <2>4, <1>3 DEF Left
    <3>2. Rank[Hi(g)] < Rank[k] \/ Hi(g) = k
      BY Zenon, <3>1, <2>1, <1>1, <1>3 DEF Precedes, ILess
    <3>3. Hi(g) # k
      BY Zenon, <1>1, <1>3, <1>7, <2>1 DEF Unshared, Apart
    <3> QED BY Zenon, <3>2, <3>3, <2>1 DEF ILess
  <2> QED BY Zenon, <2>2, <2>3, <2>4
<1>8. Rank[k] >= Rank[Lo(f)]
  <2>1. Rank[Lo(f)] \in Nat
    BY Zenon, <1>2, Ends, RankType
  <2> QED BY <2>1, <1>4, <1>5
<1> QED BY Zenon, <1>6, <1>7, <1>8 DEF LevelHit

(* A place answers for the whole store if what it does not have is older. *)
LEMMA Answers ==
  ASSUME Types, NEW k, NEW s, NEW X, X \subseteq Stored, In(X, k, s) # {},
         \A d \in In(X, k, s), e \in In(Stored, k, s) : e \in X \/ d.seq > e.seq
  PROVE  Value(In(X, k, s)) = Scan(k, s)
<1> DEFINE fs == In(X, k, s)
           es == In(Stored, k, s)
<1>1. Proper(es) /\ fs \subseteq es
  BY Zenon, StoredProper DEF In
<1>2. Proper(fs)
  BY Zenon, <1>1, ProperPart
<1>3. \A e \in es : e \in X => e \in fs
  BY Zenon DEF In
<1>4. Scan(k, s) = Value(es)
  BY Zenon DEF Scan
<1>5. fs # {} /\ \A d \in fs, e \in es : e \in X \/ d.seq > e.seq
  BY Zenon
<1> HIDE DEF fs, es
<1>6. PICK m \in fs : \A d \in fs : d.seq <= m.seq
  BY Zenon, <1>2, <1>5, NewestIs
<1>7. ASSUME NEW e \in es PROVE e.seq <= m.seq
  <2>1. e.seq \in Nat /\ m.seq \in Nat
    BY Zenon, <1>1, ProperType
  <2>2. CASE e \in X
    BY Zenon, <2>2, <1>3, <1>6
  <2>3. CASE m.seq > e.seq
    BY <2>1, <2>3
  <2> QED BY Zenon, <2>2, <2>3, <1>5
<1>8. Value(fs) = Value(es)
  BY Zenon, <1>1, <1>7, SameValue
<1> QED BY Zenon, <1>4, <1>8 DEF fs

(* Version::get stops where the newest version is: it reads what the       *)
(* merge of all tables would.                                              *)
LEMMA GetIsScan ==
  ASSUME Types, LevelsSorted, NewerAbove, Unshared, NEW k \in Keys, NEW s \in Nat
  PROVE  Get(k, s) = Scan(k, s)
<1> DEFINE upper == {i \in L0Hits(k) : In(l0[i], k, s) # {}}
           lower == {l \in Deep : In(UNION LevelHit(l, k, s), k, s) # {}}
<1>1. setup \in Setups /\ Proper(log)
  BY Zenon DEF Types, StoreTypes
<1>2. \A f : \A e \in In(f, k, s) : e \in f /\ e.key = k
  BY Zenon DEF In
<1>3. \A f, g : Over(f, g) => \A d \in In(f, k, s), e \in In(g, k, s) : d.seq > e.seq
  BY Zenon, <1>2 DEF Over
<1>4. ASSUME NEW e \in In(Stored, k, s)
      PROVE  \/ e \in In(mem, k, s) \/ e \in In(imm, k, s)
             \/ \E i \in DOMAIN l0 : e \in In(l0[i], k, s)
             \/ \E l \in Deep : \E f \in levels[l] : e \in In(f, k, s)
  <2>1. e \in Stored /\ e.key = k /\ e.seq <= s
    BY Zenon DEF In
  <2>2. \A f : e \in f => e \in In(f, k, s)
    BY Zenon, <2>1 DEF In
  <2> QED BY Zenon, <1>1, <2>1, <2>2, StoredIs
<1>5. \A i \in DOMAIN l0 : In(l0[i], k, s) # {} => i \in upper
  <2> SUFFICES ASSUME NEW i \in DOMAIN l0, In(l0[i], k, s) # {} PROVE i \in upper
    OBVIOUS
  <2>1. PICK e \in l0[i] : e.key = k
    BY Zenon, <1>2
  <2>2. Table(l0[i], log)
    BY Zenon DEF Types, TreeTypes
  <2>3. Rank[Lo(l0[i])] <= Rank[k] /\ Rank[k] <= Rank[Hi(l0[i])]
    BY Zenon, <1>1, <2>1, <2>2, Ends
  <2> QED BY Zenon, <2>3 DEF L0Hits, Covers
<1>6. ASSUME NEW l \in Deep, NEW f \in levels[l], In(f, k, s) # {} PROVE l \in lower /\ f \in LevelHit(l, k, s)
  <2>1. f \in LevelHit(l, k, s)
    BY Zenon, <1>6, HitHolds
  <2>2. In(f, k, s) \subseteq In(UNION LevelHit(l, k, s), k, s)
    BY Zenon, <2>1 DEF In
  <2> QED BY Zenon, <1>6, <2>1, <2>2
<1>7. Get(k, s) = IF In(mem, k, s) # {} THEN Value(In(mem, k, s))
                  ELSE IF In(imm, k, s) # {} THEN Value(In(imm, k, s))
                  ELSE IF upper # {} THEN Value(In(l0[Max(upper)], k, s))
                  ELSE IF lower # {} THEN Value(In(UNION LevelHit(Min(lower), k, s), k, s))
                  ELSE {}
  BY Zenon DEF Get
<1>8. upper \subseteq DOMAIN l0 /\ (\A i \in upper : In(l0[i], k, s) # {})
  BY Zenon DEF L0Hits
<1>9. lower \subseteq Deep /\ \A l \in lower : In(UNION LevelHit(l, k, s), k, s) # {}
  BY Zenon
<1>10. /\ \A i \in DOMAIN l0 : l0[i] \in Range(l0) /\ l0[i] \subseteq Stored
       /\ \A l \in Deep : \A f \in levels[l] : f \subseteq Stored
       /\ mem \subseteq Stored /\ imm \subseteq Stored
  BY Zenon, <1>1, StoredIs, FilesAre
<1> HIDE DEF upper, lower
<1>11. CASE In(mem, k, s) # {}
  <2>1. ASSUME NEW d \in In(mem, k, s), NEW e \in In(Stored, k, s) PROVE e \in mem \/ d.seq > e.seq
    BY Zenon, <1>1, <1>2, <1>3, <1>4, <1>10, NewerIs
  <2>2. Value(In(mem, k, s)) = Scan(k, s)
    BY Zenon, <1>10, <1>11, <2>1, Answers
  <2> QED BY Zenon, <1>7, <1>11, <2>2
<1>12. CASE In(mem, k, s) = {} /\ In(imm, k, s) # {}
  <2>1. ASSUME NEW d \in In(imm, k, s), NEW e \in In(Stored, k, s) PROVE e \in imm \/ d.seq > e.seq
    BY Zenon, <1>1, <1>2, <1>3, <1>4, <1>10, <1>12, NewerIs
  <2>2. Value(In(imm, k, s)) = Scan(k, s)
    BY Zenon, <1>10, <1>12, <2>1, Answers
  <2> QED BY Zenon, <1>7, <1>12, <2>2
<1>13. CASE In(mem, k, s) = {} /\ In(imm, k, s) = {} /\ upper # {}
  <2> DEFINE n == Max(upper)
  <2>1. n \in upper /\ \A i \in upper : i <= n
    <3>1. DOMAIN l0 \subseteq Nat
      BY Zenon DEF Types, TreeTypes
    <3>2. PICK b \in Nat : \A i \in DOMAIN l0 : i <= b
      BY Zenon DEF Types, TreeTypes
    <3> QED BY Zenon, <1>8, <1>13, <3>1, <3>2, MaxIs
  <2> HIDE DEF n
  <2>2. n \in DOMAIN l0 /\ In(l0[n], k, s) # {}
    BY Zenon, <1>8, <2>1
  <2>3. \A i \in upper : i = n \/ i < n
    <3>1. DOMAIN l0 \subseteq Nat
      BY Zenon DEF Types, TreeTypes
    <3> QED BY <3>1, <1>8, <2>1
  <2>4. ASSUME NEW d \in In(l0[n], k, s), NEW e \in In(Stored, k, s) PROVE e \in l0[n] \/ d.seq > e.seq
    <3>1. CASE \E i \in DOMAIN l0 : e \in In(l0[i], k, s)
      <4>1. PICK i \in DOMAIN l0 : e \in In(l0[i], k, s)
        BY Zenon, <3>1
      <4>2. i = n \/ i < n
        BY Zenon, <4>1, <1>5, <2>3
      <4>3. i < n => Over(l0[n], l0[i])
        BY Zenon, <1>1, <2>2, NewerIs
      <4> QED BY Zenon, <4>1, <4>2, <4>3, <1>2, <1>3
    <3>2. CASE \E l \in Deep : \E f \in levels[l] : e \in In(f, k, s)
      <4>1. PICK l \in Deep : \E f \in levels[l] : e \in In(f, k, s)
        BY Zenon, <3>2
      <4>2. PICK f \in levels[l] : e \in In(f, k, s)
        BY Zenon, <4>1
      <4>3. Over(l0[n], f)
        BY Zenon, <1>1, <1>10, <2>2, NewerIs
      <4> QED BY Zenon, <4>2, <4>3, <1>3
    <3> QED BY Zenon, <1>4, <1>13, <3>1, <3>2
  <2>5. Value(In(l0[n], k, s)) = Scan(k, s)
    BY Zenon, <1>10, <2>2, <2>4, Answers
  <2> QED BY Zenon, <1>7, <1>13, <2>5 DEF n
<1>14. CASE In(mem, k, s) = {} /\ In(imm, k, s) = {} /\ upper = {} /\ lower # {}
  <2> DEFINE m == Min(lower)
             X == UNION LevelHit(m, k, s)
  <2>1. m \in lower /\ \A l \in lower : m <= l
    <3>1. lower \subseteq Nat
      BY Zenon, <1>1, <1>9, Sizes
    <3> QED BY Zenon, <1>14, <3>1, MinIs
  <2> HIDE DEF m
  <2>2. m \in Deep /\ In(X, k, s) # {}
    BY Zenon, <1>9, <2>1
  <2>3. LevelHit(m, k, s) \subseteq levels[m]
    BY Zenon DEF LevelHit
  <2>4. \A l \in lower : l = m \/ m < l
    <3>1. lower \subseteq Nat
      BY Zenon, <1>1, <1>9, Sizes
    <3> QED BY <3>1, <2>1
  <2>5. ASSUME NEW d \in In(X, k, s), NEW e \in In(Stored, k, s) PROVE e \in X \/ d.seq > e.seq
    <3>1. PICK h \in LevelHit(m, k, s) : d \in In(h, k, s)
      BY Zenon DEF In
    <3>2. \E l \in Deep : \E f \in levels[l] : e \in In(f, k, s)
      BY Zenon, <1>4, <1>5, <1>14
    <3>3. PICK l \in Deep : \E f \in levels[l] : e \in In(f, k, s)
      BY Zenon, <3>2
    <3>4. PICK f \in levels[l] : e \in In(f, k, s)
      BY Zenon, <3>3
    <3>5. l \in lower /\ f \in LevelHit(l, k, s)
      BY Zenon, <3>4, <1>6
    <3>6. CASE l = m
      BY Zenon, <3>4, <3>5, <3>6, <1>2
    <3>7. CASE m < l
      <4>1. Over(h, f)
        BY Zenon, <1>1, <2>2, <2>3, <3>1, <3>4, <3>7, NewerIs
      <4> QED BY Zenon, <4>1, <3>1, <3>4, <1>3
    <3> QED BY Zenon, <3>5, <3>6, <3>7, <2>4
  <2>6. X \subseteq Stored
    BY Zenon, <1>10, <2>2, <2>3
  <2> HIDE DEF X
  <2>7. Value(In(X, k, s)) = Scan(k, s)
    BY Zenon, <2>2, <2>5, <2>6, Answers
  <2> QED BY Zenon, <1>7, <1>14, <2>7 DEF m, X
<1>15. CASE In(mem, k, s) = {} /\ In(imm, k, s) = {} /\ upper = {} /\ lower = {}
  <2>1. In(Stored, k, s) = {}
    BY Zenon, <1>4, <1>5, <1>6, <1>15
  <2>2. Scan(k, s) = {}
    BY Zenon, <2>1 DEF Scan, Value
  <2> QED BY Zenon, <1>7, <1>15, <2>2
<1> QED BY Zenon, <1>11, <1>12, <1>13, <1>14, <1>15

(* A flush moves entries from the memtables to the tree. *)
LEMMA StoredFlush ==
  ASSUME Types, setup' = setup, NEW f, Table(f, log), AddTable(f, MemLevel(f)),
         \A e : e \in mem' \/ e \in imm' \/ e \in f <=> e \in mem \/ e \in imm
  PROVE  Stored' = Stored
<1> DEFINE L == MemLevel(f)
<1>1. setup \in Setups /\ (L = 0 \/ L \in Deep) /\ AddTable(f, L)
  <2>1. setup \in Setups
    BY Zenon DEF Types, StoreTypes
  <2>2. MemLevel(f) \in 0 .. NumLevels - 1
    BY Zenon, MemLevelIs
  <2> QED BY Zenon, <2>1, <2>2, Sizes
<1> HIDE DEF L
<1>2. CASE L = 0
  <2>1. levels' = levels
    BY Zenon, <1>1, <1>2 DEF AddTable
  <2>2. PICK n \in Nat : /\ \A i \in DOMAIN l0 : i < n
                         /\ l0' = [i \in DOMAIN l0 \cup {n} |-> IF i = n THEN f ELSE l0[i]]
    BY Zenon, <1>1, <1>2, FreshNumber
  <2>3. DOMAIN l0' = DOMAIN l0 \cup {n} /\ l0'[n] = f
    BY Zenon, <2>2
  <2>4. \A i \in DOMAIN l0 : i # n
    <3>1. ~(n < n)
      OBVIOUS
    <3> QED BY Zenon, <2>2, <3>1
  <2>5. \A i \in DOMAIN l0 : l0'[i] = l0[i]
    BY Zenon, <2>2, <2>4
  <2>6. \A e : (\E i \in DOMAIN l0' : e \in l0'[i]) <=> (\E i \in DOMAIN l0 : e \in l0[i]) \/ e \in f
    BY Zenon, <2>3, <2>5
  <2>7. \A e : e \in Stored' <=> e \in Stored
    BY Zenon, <1>1, <2>1, <2>6, StoredIs, StoredIsNext
  <2> QED BY Zenon, <2>7
<1>3. CASE L # 0
  <2>1. l0' = l0 /\ levels' = [levels EXCEPT ![L] = @ \cup {f}] /\ L \in Deep
    BY Zenon, <1>1, <1>3 DEF AddTable
  <2>2. DOMAIN levels = Deep
    BY DEF Types, TreeTypes
  <2>3. levels'[L] = levels[L] \cup {f} /\ \A l \in Deep : l # L => levels'[l] = levels[l]
    BY Zenon, <2>1, <2>2
  <2>4. \A e : (\E l \in Deep : \E g \in levels'[l] : e \in g) <=> (\E l \in Deep : \E g \in levels[l] : e \in g) \/ e \in f
    <3>1. ASSUME NEW e, NEW l \in Deep, NEW g \in levels'[l], e \in g
          PROVE  (\E k \in Deep : \E h \in levels[k] : e \in h) \/ e \in f
      <4>1. g \in levels[l] \/ g = f
        BY Zenon, <2>3
      <4> QED BY Zenon, <4>1, <3>1
    <3>2. ASSUME NEW e, NEW l \in Deep, NEW g \in levels[l], e \in g PROVE g \in levels'[l]
      BY Zenon, <2>3
    <3>3. f \in levels'[L]
      BY Zenon, <2>3
    <3> QED BY Zenon, <2>1, <3>1, <3>2, <3>3
  <2>5. \A e : e \in Stored' <=> e \in Stored
    BY Zenon, <1>1, <2>1, <2>4, StoredIs, StoredIsNext
  <2> QED BY Zenon, <2>5
<1> QED BY Zenon, <1>2, <1>3
-----------------------------------------------------------------------------
(* The invariant behind reads: the order between levels, no key shared by  *)
(* two files of a sorted level, and scans that see the newest versions.    *)
Seen == NewerAbove /\ Unshared /\ ScansLatest

(* A compaction cuts its output between user keys, not between two         *)
(* versions of one.                                                        *)
UncutKeys == compaction.stage = "merging" =>
    \A p, q \in Cut(Kept(compaction), OutputSize) : p # q => Apart(p, q)

(* The invariant behind reads holds of an empty database. *)
LEMMA SeenInit == ASSUME Init PROVE Seen
<1>1. /\ setup \in Setups /\ log = {} /\ mem = {} /\ imm = {} /\ l0 = [i \in {} |-> {}]
      /\ levels = [l \in Deep |-> {}]
  BY Zenon DEF Init
<1>2. DOMAIN l0 = {} /\ \A l \in Deep : levels[l] = {}
  BY Zenon, <1>1
<1>3. Range(l0) = {}
  BY Zenon, <1>2 DEF Range
<1>4. NewerAbove
  <2>1. \A l \in Deep : \A g \in levels[l] : FALSE
    BY Zenon, <1>2
  <2> QED BY Zenon, <1>1, <1>2, <1>3, <2>1 DEF NewerAbove, Over
<1>5. Unshared
  BY Zenon, <1>2 DEF Unshared
<1>6. Stored = {}
  <2>1. \A e : e \notin Stored
    BY Zenon, <1>1, <1>2, StoredIs
  <2> QED BY Zenon, <2>1
<1>7. ScansLatest
  BY Zenon, <1>1, <1>6 DEF ScansLatest, Scan, Latest
<1> QED BY Zenon, <1>4, <1>5, <1>7 DEF Seen

(* It stays while the memtables and the tree do. *)
LEMMA SeenQuiet ==
  ASSUME Types, Seen, UNCHANGED <<setup, log, mem, imm, l0, levels>>, ReadPoints' \subseteq ReadPoints
  PROVE  Seen'
<1>1. setup \in Setups /\ Deep' = Deep
  BY Zenon DEF Types, StoreTypes, Deep, NumLevels
<1>2. NewerAbove'
  BY Zenon, <1>1, NewerIs, NewerQuiet DEF Seen
<1>3. Unshared'
  BY Zenon, <1>1 DEF Seen, Unshared
<1>4. Stored' = Stored
  <2>1. \A e : e \in Stored' <=> e \in Stored
    BY Zenon, <1>1, StoredIs, StoredIsNext
  <2> QED BY Zenon, <2>1
<1> QED BY Zenon, <1>2, <1>3, <1>4, ScansStay DEF Seen

(* A write keeps it. *)
LEMMA SeenWrite == ASSUME Types, Seen, NEW k \in Keys, NEW kind \in {"put", "del"}, Write(k, kind) PROVE Seen'
<1>1. PICK e \in Entry : /\ e.key = k /\ e.seq = last_sequence + 1 /\ e.kind = kind
                         /\ log' = log \cup {e} /\ mem' = mem \cup {e} /\ last_sequence' = e.seq
                         /\ last_sequence' \in Nat /\ last_sequence <= last_sequence'
                         /\ \A d \in log : d.seq \in Nat /\ d.seq < e.seq /\ d.seq # e.seq
                         /\ UNCHANGED <<setup, imm, snapshots, l0, levels, compaction, draining,
                                        compact_pointer, saved_pointer, file_to_compact>>
                         /\ StoreTypes'
  <2>1. StoreTypes
    BY Zenon DEF Types
  <2> QED BY <2>1, WriteAdds
<1>2. \A d \in log : e.seq > d.seq
  <2>1. e.seq \in Nat
    BY Zenon, <1>1
  <2> QED BY <1>1, <2>1
<1>3. \A g : Over(mem, g) /\ g \subseteq log => Over(mem', g)
  BY Zenon, <1>1, <1>2 DEF Over
<1>4. setup \in Setups /\ imm \subseteq log /\ Deep' = Deep
  BY Zenon, <1>1 DEF Types, StoreTypes, Deep, NumLevels
<1>5. Over(mem', imm')
  BY Zenon, <1>1, <1>3, <1>4, NewerIs DEF Seen
<1>6. NewerAbove'
  BY Zenon, <1>1, <1>3, <1>4, <1>5, NewerQuiet DEF Seen
<1>7. Unshared'
  BY Zenon, <1>1, <1>4 DEF Seen, Unshared
<1>8. ScansLatest'
  BY Zenon, ScansWrite DEF Seen
<1> QED BY Zenon, <1>6, <1>7, <1>8 DEF Seen

(* Rotating the memtable keeps it. *)
LEMMA SeenRotateMem == ASSUME Types, Seen, RotateMem PROVE Seen'
<1>1. imm = {} /\ imm' = mem /\ mem' = {} /\ UNCHANGED <<setup, log, last_sequence, snapshots, l0, levels>>
  BY DEF RotateMem, treeVars
<1>2. setup \in Setups /\ Deep' = Deep
  BY Zenon, <1>1 DEF Types, StoreTypes, Deep, NumLevels
<1>3. Over(mem', imm') /\ \A g : Over(mem', g)
  BY Zenon, <1>1 DEF Over
<1>4. NewerAbove'
  BY Zenon, <1>1, <1>2, <1>3, NewerQuiet DEF Seen
<1>5. Unshared'
  BY Zenon, <1>1, <1>2 DEF Seen, Unshared
<1>6. Stored' = Stored
  <2>1. \A e : e \in mem' \/ e \in imm' <=> e \in mem \/ e \in imm
    BY Zenon, <1>1
  <2>2. \A e : e \in Stored' <=> e \in Stored
    BY Zenon, <1>1, <1>2, <2>1, StoredIs, StoredIsNext
  <2> QED BY Zenon, <2>2
<1>7. ReadPoints' = ReadPoints
  BY Zenon, <1>1 DEF ReadPoints
<1> QED BY Zenon, <1>1, <1>4, <1>5, <1>6, <1>7, ScansStay DEF Seen

(* The flush of bg_step_async keeps it. *)
LEMMA SeenBgBegins == ASSUME Types, Seen, BgBegins PROVE Seen'
<1>1. UNCHANGED <<setup, log, last_sequence, mem, snapshots>> /\ imm' = {}
  BY Zenon DEF BgBegins
<1>2. ReadPoints' = ReadPoints /\ setup \in Setups /\ imm \subseteq log
  BY Zenon, <1>1 DEF ReadPoints, Types, StoreTypes
<1>3. CASE imm = {}
  <2>1. UNCHANGED <<l0, levels>>
    BY Zenon, <1>3 DEF BgBegins
  <2>2. ReadPoints' \subseteq ReadPoints
    BY Zenon, <1>2
  <2> QED BY Zenon, <1>1, <1>3, <2>1, <2>2, SeenQuiet
<1>4. CASE imm # {}
  <2>1. AddTable(imm, MemLevel(imm)) /\ Table(imm, log)
    BY Zenon, <1>2, <1>4 DEF BgBegins, Table
  <2>2. NewerAbove' /\ Unshared'
    BY Zenon, <1>1, <1>2, <2>1, NewerIs, NewerFlush DEF Seen
  <2>3. \A e : e \in mem' \/ e \in imm' \/ e \in imm <=> e \in mem \/ e \in imm
    BY Zenon, <1>1
  <2>4. Stored' = Stored
    BY Zenon, <1>1, <2>1, <2>3, StoredFlush
  <2> QED BY Zenon, <1>1, <1>2, <2>2, <2>4, ScansStay DEF Seen
<1> QED BY Zenon, <1>3, <1>4

(* A restart keeps it: the replayed memtables are newer than the tree. *)
LEMMA SeenCrashAndOpen == ASSUME Types, Seen, CrashAndOpen PROVE Seen'
<1> DEFINE f == mem \cup imm
<1>1. UNCHANGED <<setup, log, last_sequence>> /\ mem' = {} /\ imm' = {} /\ snapshots' = {}
  BY Zenon DEF CrashAndOpen
<1>2. ReadPoints' \subseteq ReadPoints /\ setup \in Setups /\ f \subseteq log
  BY Zenon, <1>1 DEF ReadPoints, Types, StoreTypes
<1>3. CASE f = {}
  <2>1. UNCHANGED <<l0, levels>>
    BY Zenon, <1>3 DEF CrashAndOpen
  <2>2. mem' = mem /\ imm' = imm
    BY Zenon, <1>1, <1>3
  <2> QED BY Zenon, <1>1, <1>2, <2>1, <2>2, SeenQuiet
<1>4. CASE f # {}
  <2>1. AddTable(f, MemLevel(f)) /\ Table(f, log)
    BY Zenon, <1>2, <1>4 DEF CrashAndOpen, Table
  <2>2. \A e : e \in f <=> e \in mem \/ e \in imm
    BY Zenon
  <2> HIDE DEF f
  <2>3. \A g : Over(mem, g) /\ Over(imm, g) => Over(f, g)
    BY Zenon, <2>2 DEF Over
  <2>4. Over(mem', f)
    BY Zenon, <1>1 DEF Over
  <2>5. (\A g \in Range(l0) : Over(f, g)) /\ \A l \in Deep : \A g \in levels[l] : Over(f, g)
    BY Zenon, <1>2, <2>3, NewerIs DEF Seen
  <2>6. NewerAbove' /\ Unshared'
    BY Zenon, <1>1, <1>2, <2>1, <2>4, <2>5, NewerFlush DEF Seen
  <2>7. \A e : e \in mem' \/ e \in imm' \/ e \in f <=> e \in mem \/ e \in imm
    BY Zenon, <1>1, <2>2
  <2>8. Stored' = Stored
    BY Zenon, <1>1, <2>1, <2>7, StoredFlush
  <2> QED BY Zenon, <1>1, <1>2, <2>6, <2>8, ScansStay DEF Seen
<1> QED BY Zenon, <1>3, <1>4

(* A trivial move keeps it. *)
LEMMA SeenTrivialMove == ASSUME Bytewise, TreeInv, Seen, TrivialMove PROVE Seen'
<1> DEFINE c == compaction
<1>1. /\ \E f : c.in0 = {f}
      /\ c.in1 = {} /\ c.stage = "picked" /\ Replace(c.level, c.in0, c.in1, c.in0)
      /\ UNCHANGED <<setup, log, last_sequence, mem, imm, snapshots>>
  BY Zenon, MovesFile
<1>2. Inputs(c) /\ Types /\ LevelsSorted
  BY Zenon, <1>1, Picked DEF TreeInv
<1> HIDE DEF c
<1>3. (\A p \in c.in0 : p \subseteq UNION (c.in0 \cup c.in1)) /\ \A p, q \in c.in0 : p # q => Apart(p, q)
  BY Zenon, <1>1
<1>4. NewerAbove' /\ Unshared'
  BY Zenon, <1>1, <1>2, <1>3, NewerReplace DEF Seen
<1>5. Stored' \subseteq Stored /\ \A e \in Stored \ Stored' : e \in UNION (c.in0 \cup c.in1) /\ \A p \in c.in0 : e \notin p
  <2> DEFINE out == c.in0
  <2>1. /\ UNCHANGED <<setup, mem, imm>> /\ Replace(c.level, c.in0, c.in1, out)
        /\ \A p \in out : p \subseteq UNION (c.in0 \cup c.in1)
    BY Zenon, <1>1, <1>3
  <2> HIDE DEF out
  <2>2. Stored' \subseteq Stored /\ \A e \in Stored \ Stored' : e \in UNION (c.in0 \cup c.in1) /\ \A p \in out : e \notin p
    BY Zenon, <1>2, <2>1, StoredAfter
  <2> QED BY Zenon, <2>2 DEF out
<1>6. Stored' = Stored
  <2>1. \A e \in Stored : e \in Stored'
    BY Zenon, <1>1, <1>5
  <2> QED BY Zenon, <1>5, <2>1
<1>7. ReadPoints' \subseteq ReadPoints
  BY Zenon, <1>1 DEF ReadPoints
<1> QED BY Zenon, <1>1, <1>4, <1>6, <1>7, ScansStay DEF Seen

(* The end of a merge keeps it if the output is cut between user keys. *)
LEMMA SeenMergeInstalls == ASSUME Bytewise, TreeInv, Seen, UncutKeys, MergeInstalls(OutputSize) PROVE Seen'
<1> DEFINE c == compaction
           out == Cut(Kept(c), OutputSize)
<1>1. /\ c.stage = "merging" /\ Replace(c.level, c.in0, c.in1, out)
      /\ UNCHANGED <<setup, log, last_sequence, mem, imm, snapshots>>
  BY Zenon, Installs
<1>2. /\ Inputs(c) /\ Types /\ LevelsSorted
      /\ c.smallest_snapshot \in Nat /\ \A s \in ReadPoints : c.smallest_snapshot <= s
  BY Zenon, <1>1, Merging DEF TreeInv
<1>3. Kept(c) \subseteq UNION (c.in0 \cup c.in1) /\ Proper(Kept(c))
  BY Zenon, <1>2, KeptIs
<1>4. (\A p \in out : p \subseteq Kept(c)) /\ \A e \in Kept(c) : \E p \in out : e \in p
  BY Zenon, <1>3, CutIs
<1>5. \A p, q \in out : p # q => Apart(p, q)
  BY Zenon, <1>1 DEF UncutKeys
<1> HIDE DEF c, out
<1>6. \A p \in out : p \subseteq UNION (c.in0 \cup c.in1)
  BY Zenon, <1>3, <1>4
<1>7. NewerAbove' /\ Unshared'
  BY Zenon, <1>1, <1>2, <1>5, <1>6, NewerReplace DEF Seen
<1>8. ScansLatest'
  BY Zenon, <1>1, <1>2, <1>4, ScansMerge DEF Seen
<1> QED BY Zenon, <1>7, <1>8 DEF Seen

(* Every step keeps it if merges cut their output between user keys. *)
LEMMA SeenStep == ASSUME Bytewise, TreeInv, Seen, UncutKeys, [Next]_vars PROVE Seen'
<1>1. Types
  BY Zenon DEF TreeInv
<1> DEFINE Same == UNCHANGED <<setup, log, mem, imm, l0, levels>> /\ ReadPoints' \subseteq ReadPoints
<1>2. Same => Seen'
  BY Zenon, <1>1, SeenQuiet
<1>3. ASSUME UNCHANGED <<storeVars, l0, levels>> PROVE Same
  <2>1. UNCHANGED <<setup, log, last_sequence, mem, imm, snapshots, l0, levels>>
    BY <1>3 DEF storeVars
  <2> QED BY Zenon, <2>1 DEF ReadPoints
<1> HIDE DEF Same
<1>4. ASSUME NEW k \in Keys, NEW kind \in {"put", "del"}, Write(k, kind) PROVE Seen'
  BY Zenon, <1>1, <1>4, SeenWrite
<1>5. CASE GetSnapshot
  <2>1. UNCHANGED <<setup, log, last_sequence, mem, imm, l0, levels>> /\ snapshots' = snapshots \cup {last_sequence}
    BY <1>5 DEF GetSnapshot, treeVars
  <2> QED BY Zenon, <1>2, <2>1 DEF Same, ReadPoints
<1>6. ASSUME NEW s \in snapshots, ReleaseSnapshot(s) PROVE Seen'
  <2>1. UNCHANGED <<setup, log, last_sequence, mem, imm, l0, levels>> /\ snapshots' = snapshots \ {s}
    BY <1>6 DEF ReleaseSnapshot, treeVars
  <2> QED BY Zenon, <1>2, <2>1 DEF Same, ReadPoints
<1>7. CASE RotateMem
  BY Zenon, <1>1, <1>7, SeenRotateMem
<1>8. ASSUME NEW l, NEW f, NEW k, NEW s, Charge(l, f, k, s) PROVE Seen'
  BY Zenon, <1>2, <1>3, <1>8 DEF Charge
<1>9. ASSUME NEW k \in Keys, NEW s \in ReadPoints, GetCharges(k, s) PROVE Seen'
  BY Zenon, <1>8, <1>9 DEF GetCharges
<1>10. ASSUME NEW e \in Stored, SampleCharges(e) PROVE Seen'
  BY Zenon, <1>8, <1>10 DEF SampleCharges
<1>11. ASSUME NEW l, NEW in0, Pick(l, in0) PROVE Seen'
  BY Zenon, <1>2, <1>3, <1>11 DEF Pick
<1>12. ASSUME NEW l \in 0 .. NumLevels - 1, NEW b \in Keys \cup {None}, NEW e \in Keys \cup {None}, ManualPicks(l, b, e)
       PROVE  Seen'
  BY Zenon, <1>11, <1>12 DEF ManualPicks
<1>13. CASE BgStep
  <2>1. CASE BgBegins
    BY Zenon, <1>1, <2>1, SeenBgBegins
  <2>2. CASE BgPicksSeek
    BY Zenon, <1>11, <2>2 DEF BgPicksSeek
  <2>3. CASE BgPicksSize
    BY Zenon, <1>11, <2>3 DEF BgPicksSize
  <2>4. CASE BgDrained
    BY Zenon, <1>2, <1>3, <2>4 DEF BgDrained
  <2>5. CASE TrivialMove
    BY Zenon, <2>5, SeenTrivialMove
  <2>6. CASE MergeBegins
    BY Zenon, <1>2, <1>3, <2>6 DEF MergeBegins
  <2>7. CASE MergeInstalls(OutputSize)
    BY Zenon, <2>7, SeenMergeInstalls
  <2> QED BY Zenon, <1>13, <2>1, <2>2, <2>3, <2>4, <2>5, <2>6, <2>7 DEF BgStep
<1>14. CASE CrashAndOpen
  BY Zenon, <1>1, <1>14, SeenCrashAndOpen
<1>15. CASE UNCHANGED vars
  <2>1. UNCHANGED <<storeVars, l0, levels>>
    BY <1>15 DEF vars, treeVars
  <2> QED BY Zenon, <1>2, <1>3, <2>1
<1> QED BY Zenon, <1>4, <1>5, <1>6, <1>7, <1>9, <1>10, <1>12, <1>13, <1>14, <1>15 DEF Next

(* It makes point reads right. *)
LEMMA SeenReads == ASSUME TreeInv, Seen PROVE ReadsLatest
<1>1. Types /\ LevelsSorted /\ NewerAbove /\ Unshared /\ ScansLatest
  BY Zenon DEF TreeInv, Seen
<1>2. \A s \in ReadPoints : s \in Nat
  <2>1. last_sequence \in Nat /\ snapshots \subseteq 0 .. last_sequence
    BY Zenon, <1>1 DEF Types, StoreTypes
  <2> QED BY <2>1 DEF ReadPoints
<1>3. \A k \in Keys : \A s \in ReadPoints : Get(k, s) = Scan(k, s)
  BY Zenon, <1>1, <1>2, GetIsScan
<1> QED BY Zenon, <1>1, <1>3 DEF ReadsLatest, ScansLatest

(* NewerAbove, ScansLatest and ReadsLatest: as long as no merge cuts its    *)
(* output between two versions of a user key, point reads and iterators    *)
(* return the last value written as of any live snapshot, and levels are   *)
(* in the order of age, through every flush, compaction and restart.       *)
THEOREM UncutReadsLatest ==
  ASSUME Bytewise
  PROVE  Spec /\ []UncutKeys => [](NewerAbove /\ ScansLatest /\ ReadsLatest)
<1>1. Init => TreeInv /\ Seen
  BY Zenon, TreeInvInit, SeenInit
<1>2. TreeInv /\ Seen /\ UncutKeys /\ [Next]_vars => TreeInv' /\ Seen'
  BY Zenon, TreeStep, SeenStep
<1>3. TreeInv /\ Seen => NewerAbove /\ ScansLatest /\ ReadsLatest
  BY Zenon, SeenReads DEF Seen
<1> QED BY <1>1, <1>2, <1>3, PTL DEF Spec
-----------------------------------------------------------------------------
(* Without snapshots. *)

(* Every reader sees all that the merge under way reads. *)
AllVisible == compaction.stage = "merging" =>
    \A e \in UNION (compaction.in0 \cup compaction.in1) : e.seq <= compaction.smallest_snapshot

(* A merge whose inputs every reader sees keeps one version of a key, so   *)
(* it cuts none in two.                                                    *)
LEMMA VisibleUncut == ASSUME TreeInv, AllVisible PROVE UncutKeys
<1> SUFFICES ASSUME compaction.stage = "merging", NEW p \in Cut(Kept(compaction), OutputSize),
                    NEW q \in Cut(Kept(compaction), OutputSize), p # q
             PROVE  Apart(p, q)
  BY Zenon DEF UncutKeys
<1> DEFINE c == compaction
           all == UNION (c.in0 \cup c.in1)
<1>1. Inputs(c) /\ Types
  BY Zenon, Merging DEF TreeInv
<1>2. Kept(c) \subseteq all /\ Proper(Kept(c))
  BY Zenon, <1>1, KeptIs
<1>3. p \subseteq Kept(c) /\ q \subseteq Kept(c) /\ (Left(p, q) \/ Left(q, p))
  BY Zenon, <1>2, CutIs
<1>4. \A e \in all : e.seq <= c.smallest_snapshot
  BY Zenon DEF AllVisible
<1>5. \A e \in Kept(c) : ~Dropped(e, all, c)
  BY Zenon DEF Kept
<1> HIDE DEF c, all
<1>6. ASSUME NEW d \in p, NEW e \in q, d.key = e.key PROVE FALSE
  <2>1. d \in Kept(c) /\ e \in Kept(c) /\ d \in all /\ e \in all
    BY Zenon, <1>2, <1>3
  <2>2. ~(d.seq > e.seq) /\ ~(e.seq > d.seq)
    BY Zenon, <1>4, <1>5, <1>6, <2>1 DEF Dropped
  <2>3. d \in Entry /\ e \in Entry /\ d.seq \in Nat /\ e.seq \in Nat
    BY Zenon, <1>2, <2>1, ProperType
  <2>4. d.seq = e.seq
    BY <2>2, <2>3
  <2>5. d = e
    BY Zenon, <1>2, <2>1, <2>4 DEF Proper
  <2>6. Precedes(d, e) \/ Precedes(e, d)
    BY Zenon, <1>3 DEF Left
  <2> QED BY Zenon, <2>3, <2>5, <2>6, PrecedesIrreflexive
<1> QED BY Zenon, <1>6 DEF Apart

(* Without snapshots smallest_snapshot is the last sequence number, which  *)
(* covers every input.                                                     *)
LEMMA VisibleBegins == ASSUME TreeInv, snapshots = {}, MergeBegins PROVE AllVisible'
<1>1. /\ compaction.stage = "picked"
      /\ compaction' = [level |-> compaction.level, in0 |-> compaction.in0, in1 |-> compaction.in1,
                        stage |-> "merging", smallest_snapshot |-> Min(ReadPoints)]
  BY Zenon DEF MergeBegins
<1>2. /\ compaction'.in0 = compaction.in0 /\ compaction'.in1 = compaction.in1
      /\ compaction'.smallest_snapshot = Min(ReadPoints)
  BY <1>1
<1>3. ReadPoints = {last_sequence} /\ last_sequence \in Nat
  BY Zenon DEF ReadPoints, TreeInv, Types, StoreTypes
<1>4. Min(ReadPoints) = last_sequence
  <2>1. ReadPoints \subseteq Nat /\ ReadPoints # {}
    BY Zenon, <1>3
  <2>2. Min(ReadPoints) \in ReadPoints
    BY Zenon, <2>1, MinIs
  <2> QED BY Zenon, <1>3, <2>2
<1>5. UNION (compaction.in0 \cup compaction.in1) \subseteq log /\ \A e \in log : e.seq <= last_sequence
  BY Zenon, <1>1, Picked, KeptIs DEF TreeInv, Types, StoreTypes
<1> QED BY Zenon, <1>2, <1>4, <1>5 DEF AllVisible

(* Without snapshots every step keeps AllVisible. *)
LEMMA VisibleStep == ASSUME TreeInv, AllVisible, snapshots = {}, [Next]_vars PROVE AllVisible'
<1>1. ASSUME compaction' = compaction PROVE AllVisible'
  BY Zenon, <1>1 DEF AllVisible
<1>2. ASSUME compaction' = NoCompaction PROVE AllVisible'
  <2>1. NoCompaction.stage = "none" /\ "none" # "merging"
    BY DEF NoCompaction
  <2> QED BY Zenon, <1>2, <2>1 DEF AllVisible
<1>3. ASSUME NEW l, NEW in0, Pick(l, in0) PROVE AllVisible'
  <2>1. compaction' = SetUp(l, in0)
    BY Zenon, <1>3 DEF Pick
  <2>2. SetUp(l, in0).stage = "picked" /\ "picked" # "merging"
    BY DEF SetUp
  <2> QED BY Zenon, <2>1, <2>2 DEF AllVisible
<1>4. ASSUME UNCHANGED treeVars PROVE AllVisible'
  <2>1. compaction' = compaction
    BY <1>4 DEF treeVars
  <2> QED BY Zenon, <1>1, <2>1
<1>5. ASSUME NEW k \in Keys, NEW kind \in {"put", "del"}, Write(k, kind) PROVE AllVisible'
  BY Zenon, <1>4, <1>5 DEF Write
<1>6. CASE GetSnapshot
  BY Zenon, <1>4, <1>6 DEF GetSnapshot
<1>7. ASSUME NEW s \in snapshots, ReleaseSnapshot(s) PROVE AllVisible'
  BY Zenon, <1>4, <1>7 DEF ReleaseSnapshot
<1>8. CASE RotateMem
  BY Zenon, <1>4, <1>8 DEF RotateMem
<1>9. ASSUME NEW k \in Keys, NEW s \in ReadPoints, GetCharges(k, s) PROVE AllVisible'
  BY Zenon, <1>1, <1>9 DEF GetCharges, Charge
<1>10. ASSUME NEW e \in Stored, SampleCharges(e) PROVE AllVisible'
  BY Zenon, <1>1, <1>10 DEF SampleCharges, Charge
<1>11. ASSUME NEW l \in 0 .. NumLevels - 1, NEW b \in Keys \cup {None}, NEW e \in Keys \cup {None}, ManualPicks(l, b, e)
       PROVE  AllVisible'
  BY Zenon, <1>3, <1>11 DEF ManualPicks
<1>12. CASE BgStep
  <2>1. CASE BgBegins
    BY Zenon, <1>1, <2>1 DEF BgBegins
  <2>2. CASE BgPicksSeek
    BY Zenon, <1>3, <2>2 DEF BgPicksSeek
  <2>3. CASE BgPicksSize
    BY Zenon, <1>3, <2>3 DEF BgPicksSize
  <2>4. CASE BgDrained
    BY Zenon, <1>1, <2>4 DEF BgDrained
  <2>5. CASE TrivialMove
    BY Zenon, <1>2, <2>5 DEF TrivialMove
  <2>6. CASE MergeBegins
    BY Zenon, <2>6, VisibleBegins
  <2>7. CASE MergeInstalls(OutputSize)
    BY Zenon, <1>2, <2>7 DEF MergeInstalls
  <2> QED BY Zenon, <1>12, <2>1, <2>2, <2>3, <2>4, <2>5, <2>6, <2>7 DEF BgStep
<1>13. CASE CrashAndOpen
  BY Zenon, <1>2, <1>13 DEF CrashAndOpen
<1>14. CASE UNCHANGED vars
  BY Zenon, <1>4, <1>14 DEF vars
<1> QED BY Zenon, <1>5, <1>6, <1>7, <1>8, <1>9, <1>10, <1>11, <1>12, <1>13, <1>14 DEF Next

(* The same without that proviso where no snapshot is taken: a merge then   *)
(* keeps one version of a key and has none to cut apart, so reads and      *)
(* iterators always return the last value written.                         *)
THEOREM ReadsLatestWithoutSnapshots ==
  ASSUME Bytewise
  PROVE  Spec /\ [](snapshots = {}) => [](NewerAbove /\ ScansLatest /\ ReadsLatest)
<1>1. Init => TreeInv /\ AllVisible
  <2>1. ASSUME Init PROVE AllVisible
    <3>1. compaction.stage = "none" /\ "none" # "merging"
      BY <2>1 DEF Init, NoCompaction
    <3> QED BY Zenon, <3>1 DEF AllVisible
  <2> QED BY Zenon, <2>1, TreeInvInit
<1>2. TreeInv /\ AllVisible /\ snapshots = {} /\ [Next]_vars => TreeInv' /\ AllVisible'
  BY Zenon, TreeStep, VisibleStep
<1>3. TreeInv /\ AllVisible => UncutKeys
  BY Zenon, VisibleUncut
<1>4. Spec /\ [](snapshots = {}) => []UncutKeys
  BY <1>1, <1>2, <1>3, PTL DEF Spec
<1>5. Spec /\ []UncutKeys => [](NewerAbove /\ ScansLatest /\ ReadsLatest)
  BY Zenon, UncutReadsLatest
<1> QED BY <1>4, <1>5, PTL
=============================================================================
