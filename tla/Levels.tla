------------------------------- MODULE Levels -------------------------------
(***************************************************************************)
(* The LSM tree: memtables, level-0 tables and sorted levels, and the      *)
(* flushes and compactions that move entries between them while writers,   *)
(* readers and snapshots go on (src/version_set/version_set.rs and the     *)
(* compaction half of src/db_impl/db_impl.rs).                             *)
(*                                                                         *)
(* An entry is a user key, a sequence number and a kind ("put" or "del");  *)
(* a value is the entry that wrote it.  A table file is its set of         *)
(* entries; its smallest and largest keys are the ones FileMetaData        *)
(* records.  Level 0 has its files by file number, later ones higher, the  *)
(* other levels are ordered by key.  User keys are numbers in the order of *)
(* their bytes; Rank gives their position in the order of the user's       *)
(* Comparator.  A file's size is its number of entries.                    *)
(***************************************************************************)
EXTENDS Integers, FiniteSets, FiniteSetsExt, Functions

CONSTANTS
    NumKeys,         \* how many user keys there are
    Rank,            \* Rank[k]: k's position in the Comparator's order
    LevelBase,       \* MAX_BYTES_FOR_LEVEL_BASE, in entries
    LevelMultiplier, \* MAX_BYTES_FOR_LEVEL_MULTIPLIER
    MaxGrandparents, \* MAX_GRANDPARENT_OVERLAP_BYTES, in entries
    ExpandedLimit,   \* the 25 * TARGET_FILE_SIZE of setup_other_inputs, in entries
    Setups           \* databases to look at, see setup

Keys == 1 .. NumKeys  \* user keys in byte order

ASSUME LevelsAssumption ==
    /\ NumKeys \in Nat /\ Rank \in [Keys -> Keys]
    /\ \A j, k \in Keys : Rank[j] = Rank[k] => j = k
    /\ LevelBase \in Nat \ {0} /\ LevelMultiplier \in Nat \ {0}
    /\ MaxGrandparents \in Nat /\ ExpandedLimit \in Nat
    /\ \A s \in Setups :
          /\ s.num_levels \in Nat \ {0, 1} /\ s.max_mem_level \in 0 .. s.num_levels - 1
          /\ s.l0_trigger \in Nat \ {0} /\ s.output_size \in Nat \ {0}
          /\ s.max_seq \in Nat /\ s.max_deletes \in Nat /\ s.max_snapshots \in Nat

VARIABLES
    setup,           \* the constants of the code, and bounds, of this database
    log,             \* the entries written so far
    last_sequence,   \* the sequence number of the last one
    mem, imm,        \* entries of the two memtables ({}: no imm)
    l0,              \* files[0], by file number
    levels,          \* files[1 ..]
    snapshots,       \* sequences of the live snapshots
    compaction,      \* the compaction under way, or NoCompaction
    draining,        \* bg_step_async is in its compaction loop
    compact_pointer, \* per level, the one entry that is its pointer, or {}
    saved_pointer,   \* compact_pointer as the MANIFEST has it
    file_to_compact  \* <<level, file>> due for a seek compaction, or NoFile

storeVars == <<setup, log, last_sequence, mem, imm, snapshots>>
treeVars == <<l0, levels, compaction, draining, compact_pointer, saved_pointer, file_to_compact>>
vars == <<storeVars, treeVars>>

NumLevels == setup.num_levels        \* NUM_LEVELS
MaxMemLevel == setup.max_mem_level   \* MAX_MEM_COMPACT_LEVEL
L0Trigger == setup.l0_trigger        \* L0_COMPACTION_TRIGGER
OutputSize == setup.output_size      \* how many entries fill an output file of a compaction
MaxSeq == setup.max_seq              \* bound: writes
MaxDeletes == setup.max_deletes      \* bound: deletes among them
MaxSnapshots == setup.max_snapshots  \* bound: live snapshots

NoCompaction == [stage |-> "none"]
NoFile == <<>>
None == 0            \* an absent bound of a key range
Deep == 1 .. NumLevels - 1

-----------------------------------------------------------------------------
(* Internal keys: user keys ascending, then sequences descending.          *)
ILess(k1, s1, k2, s2) == Rank[k1] < Rank[k2] \/ (k1 = k2 /\ s1 > s2)
Precedes(d, e) == ILess(d.key, d.seq, e.key, e.seq)
Smallest(f) == CHOOSE e \in f : \A d \in f : d = e \/ Precedes(e, d)
Largest(f) == CHOOSE e \in f : \A d \in f : d = e \/ Precedes(d, e)
Lo(f) == Smallest(f).key
Hi(f) == Largest(f).key

Size(fs) == Cardinality(UNION fs)
Files(l) == IF l = 0 THEN Range(l0) ELSE levels[l]

(* get_overlapping_inputs: at level 0 the range grows until it holds what  *)
(* it meets (the files it ends with are those every such range meets), and *)
(* an absent bound becomes the one of the first file met.                  *)
Touches(f, begin, end) ==
    /\ begin = None \/ Rank[Hi(f)] >= Rank[begin]
    /\ end = None \/ Rank[Lo(f)] <= Rank[end]
Closed(begin, end) ==
    {r \in Keys \X Keys :
        /\ Rank[r[1]] <= Rank[begin] /\ Rank[end] <= Rank[r[2]]
        /\ \A f \in Range(l0) : Touches(f, r[1], r[2]) =>
               Rank[r[1]] <= Rank[Lo(f)] /\ Rank[Hi(f)] <= Rank[r[2]]}
Overlapping(l, begin, end) ==
    LET met == {f \in Files(l) : Touches(f, begin, end)}
        first == l0[Min({i \in DOMAIN l0 : l0[i] \in met})]
        ranges == Closed(IF begin = None THEN Lo(first) ELSE begin, IF end = None THEN Hi(first) ELSE end)
    IN  IF l > 0 \/ met = {} THEN met
        ELSE {f \in Files(0) : \A r \in ranges : Touches(f, r[1], r[2])}

(* get_user_range and get_user_range_pair: these two compare bytes.        *)
UserRange(fs) == <<Min({Lo(f) : f \in fs}), Max({Hi(f) : f \in fs})>>

(* Mutant: the overlap with level 0 is not looked at. *)
MemLevelPastL0(f) ==
    LET Free(l) == Overlapping(l, Lo(f), Hi(f)) = {}
        Step(l) == /\ Free(l + 1)
                   /\ l + 2 < NumLevels => Size(Overlapping(l + 2, Lo(f), Hi(f))) <= MaxGrandparents
    IN  Max({l \in 0 .. MaxMemLevel : \A j \in 0 .. l - 1 : Step(j)})

(* pick_level_for_memtable_output: the deepest level with free way down to it. *)
MemLevel(f) ==
    LET Free(l) == Overlapping(l, Lo(f), Hi(f)) = {}
        Step(l) == /\ Free(l + 1)
                   /\ l + 2 < NumLevels => Size(Overlapping(l + 2, Lo(f), Hi(f))) <= MaxGrandparents
    IN  IF Free(0) THEN Max({l \in 0 .. MaxMemLevel : \A j \in 0 .. l - 1 : Step(j)}) ELSE 0

(* VersionBuilder for the two edits the tree sees.  A new file of level 0  *)
(* gets a number beyond those of the others.                               *)
AddTable(f, l) ==
    /\ l0' = IF l = 0
             THEN LET n == 1 + Max({0} \cup DOMAIN l0)
                  IN  [i \in DOMAIN l0 \cup {n} |-> IF i = n THEN f ELSE l0[i]]
             ELSE l0
    /\ levels' = IF l = 0 THEN levels ELSE [levels EXCEPT ![l] = @ \cup {f}]
    /\ file_to_compact' = NoFile

(* Mutant: the inputs of the lower level are not deleted. *)
ReplaceKeepsInputs(l, in0, in1, out) ==
    /\ levels' = [k \in Deep |-> IF k = l + 1 THEN (levels[k] \ in1) \cup out ELSE levels[k]]
    /\ file_to_compact' = NoFile
    /\ UNCHANGED l0

Replace(l, in0, in1, out) ==
    /\ l0' = IF l = 0 THEN Restrict(l0, {i \in DOMAIN l0 : l0[i] \notin in0}) ELSE l0
    /\ levels' = [k \in Deep |-> IF k = l THEN levels[k] \ in0
                                 ELSE IF k = l + 1 THEN (levels[k] \ in1) \cup out ELSE levels[k]]
    /\ file_to_compact' = NoFile
-----------------------------------------------------------------------------
(* Reads.  Version::get consults the files of level 0 that cover the key,  *)
(* the newest first, then at most one file of each deeper level; the first *)
(* place that holds a version of the key answers.                          *)
Covers(f, k) == Rank[Lo(f)] <= Rank[k] /\ Rank[k] <= Rank[Hi(f)]
L0Hits(k) == {i \in DOMAIN l0 : Covers(l0[i], k)}
LevelHit(l, k, s) ==
    LET reach == {f \in levels[l] : ~ILess(Hi(f), Largest(f).seq, k, s)}
    IN  {f \in reach : /\ \A g \in reach : g = f \/ Precedes(Smallest(f), Smallest(g))
                       /\ Rank[k] >= Rank[Lo(f)]}
DeepHits(k, s) == {l \in Deep : LevelHit(l, k, s) # {}}

(* The versions of k that a read at s may see, and the value it takes from *)
(* them: the newest one's, none if that is a tombstone.                    *)
In(f, k, s) == {e \in f : e.key = k /\ e.seq <= s}
Value(es) == {e \in es : e.kind = "put" /\ \A d \in es : d.seq <= e.seq}

Get(k, s) ==
    LET upper == {i \in L0Hits(k) : In(l0[i], k, s) # {}}
        lower == {l \in Deep : In(UNION LevelHit(l, k, s), k, s) # {}}
    IN  IF In(mem, k, s) # {} THEN Value(In(mem, k, s))
        ELSE IF In(imm, k, s) # {} THEN Value(In(imm, k, s))
        ELSE IF upper # {} THEN Value(In(l0[Max(upper)], k, s))
        ELSE IF lower # {} THEN Value(In(UNION LevelHit(Min(lower), k, s), k, s))
        ELSE {}

(* What an iterator at sequence s yields for k: the newest version its     *)
(* merged children hold.                                                   *)
Stored == mem \cup imm \cup UNION (UNION {Files(l) : l \in 0 .. NumLevels - 1})
Scan(k, s) == Value(In(Stored, k, s))

(* What a read at s should see, from the writes themselves. *)
Latest(k, s) == Value(In(log, k, s))

ReadPoints == snapshots \cup {last_sequence}
-----------------------------------------------------------------------------
Init ==
    /\ setup \in Setups
    /\ log = {} /\ last_sequence = 0 /\ mem = {} /\ imm = {}
    /\ l0 = [i \in {} |-> {}]
    /\ levels = [l \in Deep |-> {}]
    /\ snapshots = {} /\ compaction = NoCompaction /\ draining = FALSE
    /\ compact_pointer = [l \in 0 .. NumLevels - 1 |-> {}]
    /\ saved_pointer = compact_pointer /\ file_to_compact = NoFile

Write(k, kind) ==
    /\ last_sequence < MaxSeq
    /\ kind = "del" => Cardinality({e \in log : e.kind = "del"}) < MaxDeletes
    /\ LET e == [key |-> k, seq |-> last_sequence + 1, kind |-> kind]
       IN  log' = log \cup {e} /\ mem' = mem \cup {e}
    /\ last_sequence' = last_sequence + 1
    /\ UNCHANGED <<setup, imm, snapshots, treeVars>>

GetSnapshot ==
    /\ Cardinality(snapshots) < MaxSnapshots
    /\ snapshots' = snapshots \cup {last_sequence}
    /\ UNCHANGED <<setup, log, last_sequence, mem, imm, treeVars>>

ReleaseSnapshot(s) ==
    /\ snapshots' = snapshots \ {s}
    /\ UNCHANGED <<setup, log, last_sequence, mem, imm, treeVars>>

(* make_room_for_write or force_flush; both leave the flush to bg_loop. *)
RotateMem ==
    /\ mem # {} /\ imm = {}
    /\ imm' = mem /\ mem' = {}
    /\ UNCHANGED <<setup, log, last_sequence, snapshots, treeVars>>

(* A point read charges the first table it consulted in vain; a read       *)
(* sample of an iterator charges the first of two tables that cover a key. *)
(* At level 0 a read begins with the newest file, a sample with the oldest.*)
(* The allowance itself is abstracted: any charge may be the last.         *)
FirstHit(l, f, n, k, s) ==
    IF L0Hits(k) # {} THEN l = 0 /\ f = l0[n]
    ELSE l \in Deep /\ f \in LevelHit(l, k, s) /\ \A j \in 1 .. l - 1 : LevelHit(j, k, s) = {}
Charge(l, f, k, s) ==
    /\ file_to_compact = NoFile
    /\ Cardinality(L0Hits(k)) + Cardinality(DeepHits(k, s)) > 1
    /\ file_to_compact' = <<l, f>>
    /\ UNCHANGED <<storeVars, l0, levels, compaction, draining, compact_pointer, saved_pointer>>
GetCharges(k, s) ==
    /\ In(mem, k, s) = {} /\ In(imm, k, s) = {}
    /\ \E l \in 0 .. NumLevels - 1 : \E f \in Files(l) :
           FirstHit(l, f, Max(L0Hits(k)), k, s) /\ In(f, k, s) = {} /\ Charge(l, f, k, s)
SampleCharges(e) ==
    \E l \in 0 .. NumLevels - 1 : \E f \in Files(l) :
        FirstHit(l, f, Min(L0Hits(e.key)), e.key, e.seq) /\ Charge(l, f, e.key, e.seq)
-----------------------------------------------------------------------------

(* Mutant: the next level's files are left out. *)
SetUpAlone(l, in0) == [level |-> l, in0 |-> in0, in1 |-> {}, stage |-> "picked"]

(* setup_other_inputs: inputs[1], then inputs[0] grown if inputs[1] stays. *)
SetUp(l, in0) ==
    LET r == UserRange(in0)
        in1 == Overlapping(l + 1, r[1], r[2])
        all == UserRange(in0 \cup in1)
        grown0 == Overlapping(l, all[1], all[2])
        g == UserRange(grown0)
        grown1 == Overlapping(l + 1, g[1], g[2])
        grows == /\ in1 # {} /\ Cardinality(grown0) > Cardinality(in0)
                 /\ Size(in1) + Size(grown0) < ExpandedLimit
                 /\ Cardinality(grown1) = Cardinality(in1)
    IN  IF grows THEN [level |-> l, in0 |-> grown0, in1 |-> grown1, stage |-> "picked"]
                 ELSE [level |-> l, in0 |-> in0, in1 |-> in1, stage |-> "picked"]

(* A pick leaves the pointer at the largest key of inputs[0]. *)
Pick(l, in0) ==
    /\ compaction' = SetUp(l, in0)
    /\ compact_pointer' = [compact_pointer EXCEPT ![l] = {Largest(UNION compaction'.in0)}]
    /\ file_to_compact' = NoFile
    /\ UNCHANGED <<storeVars, l0, levels, draining, saved_pointer>>

(* At level 0 a picked file brings every file that overlaps it. *)
Seeded(l, f) == IF l = 0 THEN Overlapping(0, Lo(f), Hi(f)) ELSE {f}

SeekPending == file_to_compact # NoFile /\ file_to_compact[1] + 1 < NumLevels

(* Version::finalize, in exact arithmetic: level l has the best score and  *)
(* is the first that has it.                                               *)
Capacity(l) == IF l = 0 THEN L0Trigger ELSE LevelBase * LevelMultiplier ^ (l - 1)
Load(l) == IF l = 0 THEN Cardinality(DOMAIN l0) ELSE Size(levels[l])
Outweighs(l, j) == Load(l) * Capacity(j) > Load(j) * Capacity(l)
Best(l) ==
    /\ \A j \in 0 .. NumLevels - 2 : ~Outweighs(j, l)
    /\ \A j \in 0 .. l - 1 : Outweighs(l, j)
ScoreReached(l) == Best(l) /\ Load(l) >= Capacity(l)

(* f is the file after compact_pointer in the level's order, or its first. *)
Before(l, f, g) ==
    IF l = 0 THEN \E i, j \in DOMAIN l0 : i < j /\ l0[i] = f /\ l0[j] = g
             ELSE Precedes(Smallest(f), Smallest(g))
NextFile(l, f) ==
    LET beyond == {g \in Files(l) : \A p \in compact_pointer[l] : Precedes(p, Largest(g))}
        among == IF beyond = {} THEN Files(l) ELSE beyond
    IN  f \in among /\ \A g \in among \ {f} : Before(l, f, g)

BgPicksSeek ==
    /\ draining /\ compaction = NoCompaction /\ SeekPending
    /\ Pick(file_to_compact[1], Seeded(file_to_compact[1], file_to_compact[2]))

BgPicksSize ==
    /\ draining /\ compaction = NoCompaction /\ ~SeekPending
    /\ \E l \in 0 .. NumLevels - 2 : /\ ScoreReached(l)
                                     /\ \E f \in Files(l) : NextFile(l, f) /\ Pick(l, Seeded(l, f))

BgDrained ==
    /\ draining /\ compaction = NoCompaction /\ ~SeekPending
    /\ \A l \in 0 .. NumLevels - 2 : ~ScoreReached(l)
    /\ draining' = FALSE /\ file_to_compact' = NoFile
    /\ UNCHANGED <<storeVars, l0, levels, compaction, compact_pointer, saved_pointer>>

(* compact_range and test_compact_range, one level at a time, while the    *)
(* background thread has nothing to do.                                    *)
ManualPicks(l, begin, end) ==
    /\ ~draining /\ imm = {} /\ compaction = NoCompaction /\ file_to_compact = NoFile
    /\ l + 1 < NumLevels
    /\ LET inputs == Overlapping(l, begin, end) IN inputs # {} /\ Pick(l, inputs)

(* bg_step_async begins: the pending memtable, if any, becomes a table. *)
BgBegins ==
    /\ ~draining /\ compaction = NoCompaction
    /\ draining' = TRUE
    /\ IF imm = {} THEN UNCHANGED <<l0, levels, file_to_compact>>
                   ELSE AddTable(imm, MemLevel(imm))
    /\ imm' = {}
    /\ UNCHANGED <<setup, log, last_sequence, mem, snapshots, compaction, compact_pointer, saved_pointer>>
-----------------------------------------------------------------------------
Grandparents(c) ==
    LET r == UserRange(c.in0 \cup c.in1)
    IN  IF c.level + 2 < NumLevels THEN Overlapping(c.level + 2, r[1], r[2]) ELSE {}
IsTrivialMove(c) ==
    (\E f \in c.in0 : c.in0 = {f}) /\ c.in1 = {} /\ Size(Grandparents(c)) <= MaxGrandparents

TrivialMove ==
    /\ compaction.stage = "picked" /\ IsTrivialMove(compaction)
    /\ Replace(compaction.level, compaction.in0, {}, compaction.in0)
    /\ compaction' = NoCompaction
    /\ UNCHANGED <<storeVars, draining, compact_pointer, saved_pointer>>

(* Mutant: live snapshots are not looked at. *)
MergeBeginsAtLast ==
    /\ compaction.stage = "picked" /\ ~IsTrivialMove(compaction)
    /\ compaction' = [level |-> compaction.level, in0 |-> compaction.in0, in1 |-> compaction.in1,
                      stage |-> "merging", smallest_snapshot |-> last_sequence]
    /\ UNCHANGED <<storeVars, l0, levels, draining, compact_pointer, saved_pointer, file_to_compact>>

(* The merge reads the oldest live snapshot once, before it starts. *)
MergeBegins ==
    /\ compaction.stage = "picked" /\ ~IsTrivialMove(compaction)
    /\ compaction' = [level |-> compaction.level, in0 |-> compaction.in0, in1 |-> compaction.in1,
                      stage |-> "merging", smallest_snapshot |-> Min(ReadPoints)]
    /\ UNCHANGED <<storeVars, l0, levels, draining, compact_pointer, saved_pointer, file_to_compact>>

IsBaseLevelForKey(l, k) == \A j \in l + 2 .. NumLevels - 1 : \A f \in levels[j] : ~Covers(f, k)

(* The merge loop's two reasons to drop an entry: the version of its key   *)
(* just before it, the oldest of the newer ones, is one that every reader  *)
(* sees; or it is a tombstone that hides nothing deeper.                   *)
Dropped(e, all, c) ==
    \/ \E d \in all : d.key = e.key /\ d.seq > e.seq /\ d.seq <= c.smallest_snapshot
    \/ e.kind = "del" /\ e.seq <= c.smallest_snapshot /\ IsBaseLevelForKey(c.level, e.key)
Kept(c) == LET all == UNION (c.in0 \cup c.in1) IN {e \in all : ~Dropped(e, all, c)}

(* The kept entries in order, cut whenever an output file is full: a file  *)
(* begins with the first entry and after every n of them.                  *)
Begins(es, n) ==
    {e \in es : \/ \A d \in es : ~Precedes(d, e)
                \/ Cardinality({d \in es : Precedes(d, e)}) % n = 0}
Cut(es, n) ==
    {{e \in es : /\ b = e \/ Precedes(b, e)
                 /\ \A c \in Begins(es, n) : Precedes(b, c) => Precedes(e, c)} : b \in Begins(es, n)}

MergeInstalls(n) ==
    /\ compaction.stage = "merging"
    /\ Replace(compaction.level, compaction.in0, compaction.in1, Cut(Kept(compaction), n))
    /\ compact_pointer' = [compact_pointer EXCEPT ![compaction.level] = {Largest(UNION compaction.in0)}]
    /\ saved_pointer' = [saved_pointer EXCEPT ![compaction.level] = compact_pointer'[compaction.level]]
    /\ compaction' = NoCompaction
    /\ UNCHANGED <<storeVars, draining>>

(* The process dies and the database is opened again: the MANIFEST gives   *)
(* the tree back, the logs give the memtables back as one table.           *)
CrashAndOpen ==
    /\ IF mem \cup imm = {} THEN UNCHANGED <<l0, levels>> /\ file_to_compact' = NoFile
                           ELSE AddTable(mem \cup imm, MemLevel(mem \cup imm))
    /\ mem' = {} /\ imm' = {} /\ snapshots' = {}
    /\ compaction' = NoCompaction /\ draining' = FALSE
    /\ compact_pointer' = saved_pointer
    /\ UNCHANGED <<setup, log, last_sequence, saved_pointer>>
-----------------------------------------------------------------------------
BgStep ==
    \/ BgBegins \/ BgPicksSeek \/ BgPicksSize \/ BgDrained
    \/ TrivialMove \/ MergeBegins \/ MergeInstalls(OutputSize)

Next ==
    \/ \E k \in Keys, kind \in {"put", "del"} : Write(k, kind)
    \/ GetSnapshot \/ \E s \in snapshots : ReleaseSnapshot(s)
    \/ RotateMem
    \/ \E k \in Keys, s \in ReadPoints : GetCharges(k, s)
    \/ \E e \in Stored : SampleCharges(e)
    \/ \E l \in 0 .. NumLevels - 1, begin, end \in Keys \cup {None} : ManualPicks(l, begin, end)
    \/ BgStep
    \/ CrashAndOpen

Spec == Init /\ [][Next]_vars

(* The background thread never stops for good.  A step of it is always      *)
(* enabled and changes draining or compaction, so WF_vars(BgStep) implies   *)
(* this weaker condition, which TLC checks without computing ENABLED.       *)
BgMoves == draining' # draining \/ compaction' # compaction
FairSpec == Spec /\ []<><<BgMoves>>_vars
-----------------------------------------------------------------------------
(* A point read at a live snapshot, or now, returns the last value written *)
(* by then (get_with_options), whatever flushes and compactions have done. *)
ReadsLatest == \A k \in Keys : \A s \in ReadPoints : Get(k, s) = Latest(k, s)

(* An iterator, which merges every table, does too: no compaction drops an *)
(* entry some reader still needs, nor a tombstone that still hides one.    *)
ScansLatest == \A k \in Keys : \A s \in ReadPoints : Scan(k, s) = Latest(k, s)

(* The files of a level above 0 have disjoint key ranges, what find_file's *)
(* binary search and the compaction picker rely on.                        *)
LevelsSorted ==
    \A l \in Deep : \A f, g \in levels[l] :
        f # g => Precedes(Largest(f), Smallest(g)) \/ Precedes(Largest(g), Smallest(f))

(* For a key, what lies nearer the top is newer: memtable over immutable   *)
(* memtable over level 0 from its newest file down, over each deeper level.*)
Over(upper, lower) == \A d \in upper, e \in lower : d.key = e.key => d.seq > e.seq
NewerAbove ==
    /\ Over(mem, imm)
    /\ \A f \in Range(l0) : Over(mem, f) /\ Over(imm, f)
    /\ \A i, j \in DOMAIN l0 : i < j => Over(l0[j], l0[i])
    /\ \A l \in Deep : \A g \in levels[l] :
          /\ Over(mem, g) /\ Over(imm, g) /\ \A f \in Range(l0) : Over(f, g)
          /\ \A j \in 1 .. l - 1 : \A f \in levels[j] : Over(f, g)

(* The compaction loop of bg_step_async comes to an end, so that           *)
(* maybe_compact returns and the next memtable gets flushed: every         *)
(* compaction leaves its level smaller, and reads cannot keep it busy.     *)
DrainEnds == draining ~> ~draining
=============================================================================
