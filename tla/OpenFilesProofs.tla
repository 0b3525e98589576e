--------------------------- MODULE OpenFilesProofs ---------------------------
(***************************************************************************)
(* Proofs about OpenFiles, for any threads, iterators, capacities and      *)
(* bounds: one holder of the directory at a time (OneHolder), and no file  *)
(* goes that an open handle or one of its iterators needs                  *)
(* (NeededFilesStay); with ReadInv, what caches and iterators know of      *)
(* tables, an iterator reads the right blocks (RightBlocks) and the table  *)
(* cache has no deleted table (NoDeletedTables).                           *)
(***************************************************************************)
EXTENDS OpenFiles, TLAPS

Stages == {"idle", "opening", "open", "closed", "listed", "deleting", "removing"}
CoreFields == {"version", "next", "attached", "tables", "obsolete"}
ReaderFields == {"at", "of", "pins", "number", "table", "offset", "block"}

(* The shapes that updates of a field rely on. *)
TypeInv ==
    /\ stage \in [Threads -> Stages]
    /\ DOMAIN core = Threads /\ \A t \in Threads : DOMAIN core[t] = CoreFields
    /\ DOMAIN reader = Readers /\ \A r \in Readers : DOMAIN reader[r] = ReaderFields
    /\ DOMAIN meta = {"tables", "next"}

(* An iterator keeps the handle it came from open, or closed but not dropped. *)
Held ==
    \A r \in Readers :
        /\ reader[r].at # "none" => reader[r].of \in Threads
        /\ reader[r].of \in Threads => stage[reader[r].of] \in {"open", "closed"}

(* Numbers are below the counter they came from, and a table that awaits   *)
(* its deletion is not one of the version.                                 *)
Below(S, next) == next \in Nat /\ \A n \in S : n \in Nat /\ n < next
Numbered(c) ==
    /\ Below(DOMAIN c.version, c.next) /\ Below(c.obsolete, c.next)
    /\ c.obsolete \cap DOMAIN c.version = {}
AllNumbered ==
    /\ \A t \in Threads : Numbered(core[t])
    /\ Below(DOMAIN meta.tables, meta.next)

Inv == TypeInv /\ OneHolder /\ Held /\ AllNumbered

-----------------------------------------------------------------------------
(* A core that has just been made has no tables. *)
LEMMA NewCore == DOMAIN NoCore = CoreFields /\ Numbered(NoCore)
  BY DEF NoCore, CoreFields, Numbered, Below

(* Initially nobody holds anything. *)
LEMMA InitInv == Init => Inv
<1> SUFFICES ASSUME Init PROVE Inv
  OBVIOUS
<1>1. TypeInv
  BY Zenon, NewCore DEF Init, TypeInv, Stages, NoReader, ReaderFields, NoMeta
<1>2. OneHolder
  BY Zenon, OpenFilesAssumption DEF Init, OneHolder, Holds
<1>3. Held
  BY Zenon, OpenFilesAssumption DEF Init, Held, NoReader
<1>4. AllNumbered
  BY NewCore DEF Init, AllNumbered, NoMeta, Below
<1> QED
  BY Zenon, <1>1, <1>2, <1>3, <1>4 DEF Inv

-----------------------------------------------------------------------------
(* Iterators at work: none of these steps is seen outside the caches and   *)
(* the iterator itself.                                                    *)
Reads(r) ==
    \/ \E n \in DOMAIN reader[r].pins : FindTable(r, n)
    \/ OpenTable(r) \/ OpenTableFails(r) \/ InsertTable(r)
    \/ \E offset \in Offsets : FindBlock(r, offset)
    \/ \E fill \in BOOLEAN : ReadBlock(r, fill)
    \/ ReadBlockFails(r)

(* What such steps leave alone. *)
Quiet ==
    /\ UNCHANGED <<lock, stage, meta, files>>
    /\ DOMAIN core' = Threads /\ DOMAIN reader' = Readers
    /\ \A t \in Threads : /\ DOMAIN core'[t] = CoreFields
                          /\ core'[t].version = core[t].version
                          /\ core'[t].next = core[t].next
                          /\ core'[t].obsolete = core[t].obsolete
    /\ \A r \in Readers : /\ DOMAIN reader'[r] = ReaderFields
                          /\ reader'[r].of = reader[r].of
                          /\ reader[r].at = "none" => reader'[r].at = "none"

(* find_table and read_block_cached_full change only caches and iterators. *)
LEMMA ReadsQuiet == ASSUME TypeInv, Held, NEW r \in Readers, Reads(r) PROVE Quiet
<1>1. ASSUME NEW n \in DOMAIN reader[r].pins, FindTable(r, n) PROVE Quiet
  <2>1. reader[r].of \in Threads
    BY Zenon, <1>1 DEF FindTable, Held
  <2>2. UNCHANGED <<lock, stage, meta, files>>
    BY Zenon, <1>1 DEF FindTable
  <2>3. \E tables : core' = core \/ core' = [core EXCEPT ![reader[r].of].tables = tables]
    BY <1>1, Zenon DEF FindTable
  <2>4. /\ DOMAIN core' = Threads
        /\ \A t \in Threads : /\ DOMAIN core'[t] = CoreFields
                              /\ core'[t].version = core[t].version
                              /\ core'[t].next = core[t].next
                              /\ core'[t].obsolete = core[t].obsolete
    BY <2>1, <2>3 DEF TypeInv, CoreFields
  <2>5. /\ DOMAIN reader' = Readers
        /\ \A q \in Readers : /\ DOMAIN reader'[q] = ReaderFields
                              /\ reader'[q].of = reader[q].of
                              /\ reader[q].at = "none" => reader'[q].at = "none"
    <3> DEFINE x == [NoReader EXCEPT !.of = reader[r].of, !.pins = reader[r].pins, !.number = n]
    <3>1. DOMAIN x = ReaderFields /\ x.of = reader[r].of
      BY Zenon DEF NoReader, ReaderFields
    <3>2. \E at, table : reader' = [reader EXCEPT ![r] = [x EXCEPT !.at = at, !.table = table]]
                     \/ reader' = [reader EXCEPT ![r] = [x EXCEPT !.at = at]]
      BY <1>1, Zenon DEF FindTable
    <3>3. reader[r].at # "none"
      BY Zenon, <1>1 DEF FindTable
    <3> HIDE DEF x
    <3> QED
      BY ZenonT(30), <3>1, <3>2, <3>3 DEF TypeInv, ReaderFields
  <2> QED
    BY Zenon, <2>2, <2>4, <2>5 DEF Quiet
<1>2. CASE OpenTable(r)
  BY Zenon, <1>2 DEF OpenTable, Quiet, TypeInv, ReaderFields
<1>3. CASE OpenTableFails(r)
  BY Zenon, <1>3 DEF OpenTableFails, Quiet, TypeInv, ReaderFields
<1>4. CASE InsertTable(r)
  BY Zenon, <1>4 DEF InsertTable, Quiet, TypeInv, Held, ReaderFields, CoreFields
<1>5. ASSUME NEW offset \in Offsets, FindBlock(r, offset) PROVE Quiet
  BY <1>5 DEF FindBlock, Quiet, TypeInv, ReaderFields
<1>6. ASSUME NEW fill \in BOOLEAN, ReadBlock(r, fill) PROVE Quiet
  BY Zenon, <1>6 DEF ReadBlock, Quiet, TypeInv, ReaderFields
<1>7. CASE ReadBlockFails(r)
  BY Zenon, <1>7 DEF ReadBlockFails, Quiet, TypeInv, ReaderFields
<1> QED
  BY Zenon, <1>1, <1>2, <1>3, <1>4, <1>5, <1>6, <1>7 DEF Reads

(* Steps that are quiet in this sense keep the invariant. *)
LEMMA QuietKeeps == ASSUME Inv, Quiet PROVE Inv'
<1>1. TypeInv'
  BY Zenon DEF Inv, TypeInv, Quiet
<1>2. OneHolder'
  BY Zenon DEF Inv, OneHolder, Holds, Quiet
<1>3. Held'
  BY Zenon DEF Inv, Held, Quiet
<1>4. AllNumbered'
  BY Zenon DEF Inv, AllNumbered, Numbered, Below, Quiet
<1> QED
  BY Zenon, <1>1, <1>2, <1>3, <1>4 DEF Inv

-----------------------------------------------------------------------------
(* Steps of open, Close and destroy_db that leave iterators alone and give *)
(* a thread a new stage.  The LOCK is taken only if nobody has it.         *)
Staged(t, s) ==
    /\ s \in Stages /\ stage' = [stage EXCEPT ![t] = s]
    /\ UNCHANGED reader
    /\ Iterators(t) # {} => s \in {"open", "closed"}

(* The type invariant and Held depend on the stage only as far as iterators *)
(* go.                                                                     *)
LEMMA StagedHeld ==
    ASSUME TypeInv, Held, NEW t \in Threads, NEW s, Staged(t, s)
    PROVE  Held' /\ stage' \in [Threads -> Stages]
  BY Zenon DEF TypeInv, Held, Staged, Iterators

(* A thread that is neither open nor closed has no iterators. *)
LEMMA NoIterators ==
    ASSUME Held, NEW t \in Threads, stage[t] \notin {"open", "closed"}
    PROVE  Iterators(t) = {}
  BY Zenon DEF Held, Iterators

(* open takes the LOCK or fails. *)
LEMMA OpeningKeeps ==
    ASSUME Inv, NEW t \in Threads, LockForOpen(t) \/ OpenFails(t)
    PROVE  Inv'
<1>1. Staged(t, "opening") \/ Staged(t, "idle")
  BY Zenon, NoIterators DEF Inv, LockForOpen, OpenFails, Staged, Stages
<1>2. TypeInv' /\ Held'
  BY Zenon, <1>1, StagedHeld DEF Inv, TypeInv, LockForOpen, OpenFails
<1>3. OneHolder'
  BY Zenon, OpenFilesAssumption DEF Inv, TypeInv, OneHolder, Holds, LockForOpen, OpenFails
<1>4. AllNumbered'
  BY Zenon DEF Inv, AllNumbered, LockForOpen, OpenFails
<1> QED
  BY Zenon, <1>2, <1>3, <1>4 DEF Inv

(* The recovered core has the tables of the MANIFEST. *)
LEMMA RecoverKeeps == ASSUME Inv, NEW t \in Threads, Recover(t) PROVE Inv'
<1>1. Staged(t, "open")
  BY Zenon DEF Recover, Staged, Stages
<1>2. /\ DOMAIN meta' = {"tables", "next"}
      /\ meta'.tables = meta.tables /\ Below(DOMAIN meta'.tables, meta'.next)
  BY DEF Inv, TypeInv, AllNumbered, Below, Recover, NoMeta
<1> DEFINE c == [NoCore EXCEPT !.version = meta.tables, !.next = meta'.next, !.attached = TRUE]
<1>3. DOMAIN c = CoreFields /\ Numbered(c)
  BY Zenon, <1>2 DEF NoCore, CoreFields, Numbered, Below
<1>4. core' = [core EXCEPT ![t] = c]
  BY Zenon DEF Recover
<1> HIDE DEF c
<1>5. TypeInv' /\ Held'
  BY Zenon, <1>1, <1>2, <1>3, <1>4, StagedHeld DEF Inv, TypeInv, Staged
<1>6. OneHolder'
  BY Zenon DEF Inv, TypeInv, OneHolder, Holds, Recover
<1>7. AllNumbered'
  BY Zenon, <1>2, <1>3, <1>4 DEF Inv, TypeInv, AllNumbered
<1> QED
  BY Zenon, <1>5, <1>6, <1>7 DEF Inv

(* The handle is dropped, with the core if there are no iterators. *)
LEMMA CloseKeeps == ASSUME Inv, NEW t \in Threads, Close(t) PROVE Inv'
<1>1. Staged(t, "idle") \/ Staged(t, "closed")
  BY Zenon DEF Close, Staged, Stages
<1>2. core' = core \/ core' = [core EXCEPT ![t] = NoCore]
  BY Zenon DEF Close
<1>3. UNCHANGED meta
  BY Zenon DEF Close
<1>4. TypeInv' /\ Held'
  BY Zenon, <1>1, <1>2, <1>3, StagedHeld, NewCore DEF Inv, TypeInv, Staged
<1>5. OneHolder'
  BY Zenon, OpenFilesAssumption DEF Inv, TypeInv, OneHolder, Holds, Close
<1>6. AllNumbered'
  BY Zenon, <1>2, <1>3, NewCore DEF Inv, TypeInv, AllNumbered
<1> QED
  BY Zenon, <1>4, <1>5, <1>6 DEF Inv

(* destroy_db, up to the last entry of its listing. *)
LEMMA DestroyKeeps ==
    ASSUME Inv, NEW t \in Threads, ListDir(t) \/ LockForDestroy(t) \/ UnlockDestroy(t)
    PROVE  Inv'
<1>1. Iterators(t) = {}
  BY Zenon, NoIterators DEF Inv, ListDir, LockForDestroy, UnlockDestroy
<1>2. \E s : Staged(t, s)
  BY Zenon, <1>1 DEF ListDir, LockForDestroy, UnlockDestroy, Staged, Stages
<1>3. UNCHANGED <<core, meta, reader>>
  BY Zenon DEF ListDir, LockForDestroy, UnlockDestroy
<1>4. TypeInv' /\ Held'
  BY Zenon, <1>2, <1>3, StagedHeld DEF Inv, TypeInv
<1>5. OneHolder'
  BY Zenon, OpenFilesAssumption
  DEF Inv, TypeInv, OneHolder, Holds, ListDir, LockForDestroy, UnlockDestroy
<1>6. AllNumbered'
  BY Zenon, <1>3 DEF Inv, AllNumbered
<1> QED
  BY Zenon, <1>4, <1>5, <1>6 DEF Inv

(* Deleting an entry may take CURRENT away. *)
LEMMA DeleteEntryKeeps ==
    ASSUME Inv, NEW t \in Threads, NEW entry \in listing[t], DeleteEntry(t, entry)
    PROVE  Inv'
<1>1. meta' = meta \/ meta' = NoMeta
  BY Zenon DEF DeleteEntry
<1>2. UNCHANGED <<lock, stage, core, reader>>
  BY Zenon DEF DeleteEntry
<1>3. TypeInv' /\ AllNumbered'
  BY <1>1, <1>2 DEF Inv, TypeInv, AllNumbered, Below, NoMeta
<1>4. OneHolder' /\ Held'
  BY Zenon, <1>2 DEF Inv, OneHolder, Holds, Held
<1> QED
  BY Zenon, <1>3, <1>4 DEF Inv

(* The directory goes; a core in it loses only its MANIFEST. *)
LEMMA RemoveDirKeeps == ASSUME Inv, NEW t \in Threads, RemoveDir(t) PROVE Inv'
<1>1. Staged(t, "idle")
  BY Zenon, NoIterators DEF Inv, RemoveDir, Staged, Stages
<1>2. \/ UNCHANGED <<meta, core>>
      \/ meta' = NoMeta /\ core' = [u \in Threads |-> [core[u] EXCEPT !.attached = FALSE]]
  BY Zenon DEF RemoveDir
<1>3. /\ DOMAIN core' = Threads /\ \A u \in Threads : DOMAIN core'[u] = CoreFields
      /\ \A u \in Threads : Numbered(core'[u])
  BY <1>2 DEF Inv, TypeInv, CoreFields, AllNumbered, Numbered
<1>4. DOMAIN meta' = {"tables", "next"} /\ Below(DOMAIN meta'.tables, meta'.next)
  BY <1>2 DEF Inv, TypeInv, AllNumbered, Below, NoMeta
<1>5. TypeInv' /\ Held'
  BY Zenon, <1>1, <1>3, <1>4, StagedHeld DEF Inv, TypeInv, Staged
<1>6. OneHolder'
  BY Zenon DEF Inv, TypeInv, OneHolder, Holds, RemoveDir
<1> QED
  BY Zenon, <1>3, <1>4, <1>5, <1>6 DEF Inv, AllNumbered

-----------------------------------------------------------------------------
(* What Install makes of the core: the new table has the number next, the  *)
(* replaced ones may become obsolete.                                      *)
LEMMA InstallCore ==
    ASSUME Inv, NEW t \in Threads, NEW gone, Install(t, gone)
    PROVE  /\ DOMAIN core' = Threads
           /\ \A u \in Threads \ {t} : core'[u] = core[u]
           /\ DOMAIN core'[t] = CoreFields
           /\ DOMAIN core'[t].version = (DOMAIN core[t].version \ gone) \cup {core[t].next}
           /\ core'[t].next = core[t].next + 1
           /\ core'[t].obsolete \in {core[t].obsolete, core[t].obsolete \cup gone}
<1> DEFINE v == With(Without(core[t].version, gone), core[t].next, made + 1)
           c == [core[t] EXCEPT !.version = v, !.next = core[t].next + 1]
<1>1. DOMAIN v = (DOMAIN core[t].version \ gone) \cup {core[t].next}
  BY Zenon DEF With, Without, Restrict
<1>2. /\ DOMAIN c = CoreFields /\ c.version = v /\ c.next = core[t].next + 1
      /\ c.obsolete = core[t].obsolete
  BY Zenon DEF Inv, TypeInv, CoreFields
<1>3. \E tables : \/ core' = [core EXCEPT ![t] = [c EXCEPT !.tables = tables]]
                  \/ core' = [core EXCEPT ![t] = [c EXCEPT !.tables = tables,
                                                           !.obsolete = c.obsolete \cup gone]]
  BY Zenon DEF Install, Retire
<1> HIDE DEF c, v
<1>4. PICK tables : \/ core' = [core EXCEPT ![t] = [c EXCEPT !.tables = tables]]
                    \/ core' = [core EXCEPT ![t] = [c EXCEPT !.tables = tables,
                                                             !.obsolete = c.obsolete \cup gone]]
  BY Zenon, <1>3
<1>5. DOMAIN core' = Threads /\ \A u \in Threads \ {t} : core'[u] = core[u]
  BY Zenon, <1>4 DEF Inv, TypeInv
<1>6. \/ core'[t] = [c EXCEPT !.tables = tables]
      \/ core'[t] = [c EXCEPT !.tables = tables, !.obsolete = c.obsolete \cup gone]
  BY Zenon, <1>4 DEF Inv, TypeInv
<1>7. /\ DOMAIN core'[t] = CoreFields /\ core'[t].version = v /\ core'[t].next = c.next
      /\ core'[t].obsolete \in {c.obsolete, c.obsolete \cup gone}
  BY Zenon, <1>2, <1>6 DEF CoreFields
<1> QED
  BY Zenon, <1>1, <1>2, <1>5, <1>7

(* A flush or compaction keeps the numbers in order. *)
LEMMA InstallKeeps ==
    ASSUME Inv, NEW t \in Threads, NEW gone, Install(t, gone)
    PROVE  Inv'
<1>1. Numbered(core'[t])
  <2>1. gone \subseteq DOMAIN core[t].version
    BY Zenon DEF Install
  <2>2. Numbered(core[t])
    BY Zenon DEF Inv, AllNumbered
  <2> QED
    BY <2>1, <2>2, InstallCore DEF Numbered, Below
<1>2. Below(DOMAIN core'[t].version, core[t].next + 1)
  BY Zenon, <1>1, InstallCore DEF Numbered
<1> DEFINE v == With(Without(core[t].version, gone), core[t].next, made + 1)
<1>3. meta' = meta \/ meta' = [tables |-> v, next |-> core[t].next + 1]
  BY Zenon DEF Install
<1>4. DOMAIN v = DOMAIN core'[t].version
  <2>1. DOMAIN v = (DOMAIN core[t].version \ gone) \cup {core[t].next}
    BY Zenon DEF With, Without, Restrict
  <2> QED
    BY Zenon, <2>1, InstallCore
<1> HIDE DEF v
<1>5. DOMAIN meta' = {"tables", "next"} /\ Below(DOMAIN meta'.tables, meta'.next)
  BY <1>2, <1>3, <1>4 DEF Inv, TypeInv, AllNumbered
<1>6. UNCHANGED <<lock, stage, reader>>
  BY Zenon DEF Install
<1>7. TypeInv' /\ AllNumbered'
  BY <1>1, <1>5, <1>6, InstallCore DEF Inv, TypeInv, AllNumbered
<1>8. OneHolder' /\ Held'
  BY Zenon, <1>6 DEF Inv, OneHolder, Holds, Held
<1> QED
  BY Zenon, <1>7, <1>8 DEF Inv

(* A new iterator comes from an open handle. *)
LEMMA NewIteratorKeeps ==
    ASSUME Inv, NEW r \in Readers, NEW t \in Threads, NewIterator(r, t)
    PROVE  Inv'
<1> DEFINE x == [NoReader EXCEPT !.at = "ready", !.of = t, !.pins = core[t].version]
<1>1. DOMAIN x = ReaderFields /\ x.of = t
  BY Zenon DEF NoReader, ReaderFields
<1>2. reader' = [reader EXCEPT ![r] = x] /\ stage[t] = "open"
  BY Zenon DEF NewIterator
<1> HIDE DEF x
<1>3. UNCHANGED <<lock, stage, core, meta>>
  BY Zenon DEF NewIterator
<1>4. TypeInv' /\ Held'
  BY Zenon, <1>1, <1>2, <1>3 DEF Inv, TypeInv, Held
<1>5. OneHolder' /\ AllNumbered'
  BY Zenon, <1>3 DEF Inv, OneHolder, Holds, AllNumbered
<1> QED
  BY Zenon, <1>4, <1>5 DEF Inv

(* What the end of an iterator makes of the core it came from. *)
LEMMA ReleaseCore ==
    ASSUME Inv, NEW r \in Readers, Release(r)
    PROVE  LET t == reader[r].of IN
           /\ t \in Threads /\ stage[t] \in {"open", "closed"}
           /\ DOMAIN core' = Threads
           /\ \A u \in Threads \ {t} : core'[u] = core[u]
           /\ \/ core'[t] = NoCore
              \/ /\ DOMAIN core'[t] = CoreFields
                 /\ core'[t].version = core[t].version /\ core'[t].next = core[t].next
                 /\ core'[t].obsolete \in {core[t].obsolete, {}}
<1> DEFINE t == reader[r].of
<1>1. t \in Threads /\ stage[t] \in {"open", "closed"}
  BY Zenon DEF Inv, Held, Release
<1>2. \E tables : \/ core' = [core EXCEPT ![t] = NoCore]
                  \/ core' = core
                  \/ core' = [core EXCEPT ![t].tables = tables, ![t].obsolete = {}]
  BY Zenon DEF Release
<1> HIDE DEF t
<1>3. /\ DOMAIN core' = Threads
      /\ \A u \in Threads \ {t} : core'[u] = core[u]
      /\ \/ core'[t] = NoCore
         \/ /\ DOMAIN core'[t] = CoreFields
            /\ core'[t].version = core[t].version /\ core'[t].next = core[t].next
            /\ core'[t].obsolete \in {core[t].obsolete, {}}
  BY <1>1, <1>2 DEF Inv, TypeInv, CoreFields
<1> QED
  BY Zenon, <1>1, <1>3 DEF t

(* The last iterator of a closed handle drops the core and its LOCK. *)
LEMMA ReleaseKeeps == ASSUME Inv, NEW r \in Readers, Release(r) PROVE Inv'
<1> DEFINE t == reader[r].of
<1>1. t \in Threads /\ stage[t] \in {"open", "closed"}
  BY Zenon, ReleaseCore
<1>2. reader' = [reader EXCEPT ![r] = NoReader] /\ UNCHANGED meta
  BY Zenon DEF Release
<1>3. \/ /\ Iterators(t) = {r} /\ stage[t] = "closed"
         /\ stage' = [stage EXCEPT ![t] = "idle"] /\ lock' = NoThread
      \/ UNCHANGED <<stage, lock>>
  BY Zenon DEF Release
<1>4. stage' \in [Threads -> Stages]
  BY Zenon, <1>1, <1>3 DEF Inv, TypeInv, Stages
<1>5. TypeInv'
  BY Zenon, <1>2, <1>4, ReleaseCore, NewCore DEF Inv, TypeInv, NoReader, ReaderFields
<1>6. OneHolder'
  BY Zenon, <1>1, <1>3, OpenFilesAssumption DEF Inv, TypeInv, OneHolder, Holds
<1>7. Held'
  BY ZenonT(30), SMTT(30), <1>1, <1>2, <1>3, OpenFilesAssumption
     DEF Inv, TypeInv, Held, Iterators, NoReader
<1>8. AllNumbered'
  BY Zenon, <1>2, ReleaseCore, NewCore DEF Inv, AllNumbered, Numbered, Below
<1> QED
  BY Zenon, <1>5, <1>6, <1>7, <1>8 DEF Inv

-----------------------------------------------------------------------------
(* Every step keeps the invariant. *)
LEMMA NextInv == Inv /\ [Next]_vars => Inv'
<1> SUFFICES ASSUME Inv, [Next]_vars PROVE Inv'
  OBVIOUS
<1>1. ASSUME NEW t \in Threads,
             \/ LockForOpen(t) \/ Recover(t) \/ OpenFails(t) \/ Close(t)
             \/ ListDir(t) \/ LockForDestroy(t) \/ UnlockDestroy(t) \/ RemoveDir(t)
      PROVE  Inv'
  BY Zenon, <1>1, OpeningKeeps, RecoverKeeps, CloseKeeps, DestroyKeeps, RemoveDirKeeps
<1>2. ASSUME NEW t \in Threads, NEW gone \in SUBSET DOMAIN core[t].version, Install(t, gone)
      PROVE  Inv'
  BY Zenon, <1>2, InstallKeeps
<1>3. ASSUME NEW t \in Threads, NEW entry \in listing[t], DeleteEntry(t, entry)
      PROVE  Inv'
  BY Zenon, <1>3, DeleteEntryKeeps
<1>4. ASSUME NEW r \in Readers, NEW t \in Threads, NewIterator(r, t) PROVE Inv'
  BY Zenon, <1>4, NewIteratorKeeps
<1>5. ASSUME NEW r \in Readers, Reads(r) PROVE Inv'
  BY Zenon, <1>5, ReadsQuiet, QuietKeeps DEF Inv
<1>6. ASSUME NEW r \in Readers, Release(r) PROVE Inv'
  BY Zenon, <1>6, ReleaseKeeps
<1>7. CASE PruneBlocks \/ UNCHANGED vars
  <2>1. Quiet
    BY Zenon, <1>7 DEF Inv, TypeInv, Quiet, PruneBlocks, vars
  <2> QED
    BY ZenonT(30), SMTT(30), <2>1, QuietKeeps
<1> QED
  BY Zenon, <1>1, <1>2, <1>3, <1>4, <1>5, <1>6, <1>7 DEF Next, Reads

(* The invariant holds of every reachable state. *)
THEOREM Invariance == Spec => []Inv
  BY InitInv, NextInv, PTL DEF Spec

(***************************************************************************)
(* The LOCK has one holder, and it is whoever opens, has open, keeps for   *)
(* an iterator or deletes the database (lock_file, DBImplCore, destroy_db).*)
(***************************************************************************)
THEOREM SingleHolder == Spec => []OneHolder
<1>1. Inv => OneHolder
  BY Zenon DEF Inv
<1> QED
  BY <1>1, Invariance, PTL

-----------------------------------------------------------------------------
(* A step keeps the files that t needs before and after it. *)
Keeps(t) == Needed(t) \cap Needed(t)' \cap DOMAIN files \subseteq DOMAIN files'
Removes == \E u \in Threads : stage[u] = "removing" /\ stage'[u] = "idle"
Uses(t) == Holds(t) /\ stage[t] # "deleting"

(* Two threads do not both hold the directory. *)
LEMMA Alone ==
    ASSUME OneHolder, NEW t \in Threads, NEW u \in Threads, Holds(t), Holds(u)
    PROVE  t = u
  BY Zenon DEF OneHolder

(* Install deletes inputs only if nobody iterates, and never its output. *)
LEMMA InstallSpares ==
    ASSUME Inv, NEW t \in Threads, NEW gone, Install(t, gone), NEW u \in Threads, Uses(u)
    PROVE  Keeps(u)
<1>1. u = t
  BY Zenon, Alone DEF Inv, Uses, Holds, Install
<1>2. UNCHANGED reader
  BY Zenon DEF Install
<1>3. CASE Iterators(t) # {}
  <2>1. files' = With(files, core[t].next, made + 1)
    BY <1>3, Zenon DEF Install, Retire
  <2>2. DOMAIN files \subseteq DOMAIN files'
    BY Zenon, <2>1 DEF With
  <2> QED
    BY Zenon, <2>2 DEF Keeps
<1>4. CASE Iterators(t) = {}
  <2>1. files' = With(Without(files, gone), core[t].next, made + 1)
    BY <1>4, Zenon DEF Install, Retire, DeleteTables
  <2>2. DOMAIN files' = (DOMAIN files \ gone) \cup {core[t].next}
    BY Zenon, <2>1 DEF With, Without, Restrict
  <2>3. Needed(t)' = (DOMAIN core[t].version \ gone) \cup {core[t].next}
    <3>1. Iterators(t)' = {}
      BY Zenon, <1>2, <1>4 DEF Iterators
    <3>2. Needed(t)' = DOMAIN core'[t].version
      BY Zenon, <3>1 DEF Needed
    <3> QED
      BY Zenon, <3>2, InstallCore
  <2> QED
    BY Zenon, <1>1, <2>2, <2>3 DEF Keeps
<1> QED
  BY Zenon, <1>3, <1>4

(* The last iterator takes away only what the version does not list. *)
LEMMA ReleaseSpares ==
    ASSUME Inv, NEW r \in Readers, Release(r), NEW u \in Threads, Uses(u)
    PROVE  Keeps(u)
<1>1. reader[r].of = u
  BY Zenon, ReleaseCore, Alone DEF Inv, Uses, Holds
<1>2. CASE Iterators(u) # {r}
  BY Zenon, <1>1, <1>2 DEF Release, Keeps
<1>3. CASE Iterators(u) = {r}
  <2>1. DOMAIN files' = DOMAIN files \ core[u].obsolete
    <3>1. files' = Without(files, core[u].obsolete)
      BY <1>1, <1>3, Zenon DEF Release, DeleteTables
    <3> QED
      BY Zenon, <3>1 DEF Without, Restrict
  <2>2. Iterators(u)' = {}
    <3>1. reader' = [reader EXCEPT ![r] = NoReader]
      BY Zenon DEF Release
    <3> QED
      BY Zenon, <1>3, <3>1, OpenFilesAssumption
         DEF Iterators, NoReader, Inv, TypeInv
  <2>3. Needed(u)' \subseteq DOMAIN core[u].version
    <3>1. Needed(u)' = DOMAIN core'[u].version
      BY Zenon, <2>2 DEF Needed
    <3>2. core'[u].version = core[u].version \/ core'[u] = NoCore
      BY Zenon, <1>1, ReleaseCore
    <3> QED
      BY <3>1, <3>2 DEF NoCore
  <2>4. core[u].obsolete \cap DOMAIN core[u].version = {}
    BY Zenon DEF Inv, AllNumbered, Numbered
  <2> QED
    BY Zenon, <2>1, <2>3, <2>4 DEF Keeps
<1> QED
  BY Zenon, <1>2, <1>3

(* No step but the last of destroy_db takes a needed file. *)
LEMMA NextSpares ==
    ASSUME Inv, [Next]_vars, NEW u \in Threads, Uses(u)
    PROVE  Keeps(u) \/ Removes
<1>1. ASSUME UNCHANGED files PROVE Keeps(u)
  BY Zenon, <1>1 DEF Keeps
<1>2. ASSUME NEW t \in Threads,
             \/ LockForOpen(t) \/ Recover(t) \/ OpenFails(t) \/ Close(t)
             \/ ListDir(t) \/ LockForDestroy(t) \/ UnlockDestroy(t)
      PROVE  Keeps(u)
  BY Zenon, <1>1, <1>2
     DEF LockForOpen, Recover, OpenFails, Close, ListDir, LockForDestroy, UnlockDestroy
<1>3. ASSUME NEW t \in Threads, RemoveDir(t) PROVE Removes
  BY Zenon, <1>3 DEF RemoveDir, Removes, Inv, TypeInv
<1>4. ASSUME NEW t \in Threads, NEW gone \in SUBSET DOMAIN core[t].version, Install(t, gone)
      PROVE  Keeps(u)
  BY Zenon, <1>4, InstallSpares
<1>5. ASSUME NEW t \in Threads, NEW entry \in listing[t], DeleteEntry(t, entry)
      PROVE  Keeps(u)
  BY Zenon, <1>5, Alone DEF Inv, Uses, Holds, DeleteEntry
<1>6. ASSUME NEW r \in Readers, NEW t \in Threads, NewIterator(r, t) PROVE Keeps(u)
  BY Zenon, <1>1, <1>6 DEF NewIterator
<1>7. ASSUME NEW r \in Readers, Reads(r) PROVE Keeps(u)
  BY Zenon, <1>1, <1>7, ReadsQuiet DEF Inv, Quiet
<1>8. ASSUME NEW r \in Readers, Release(r) PROVE Keeps(u)
  BY Zenon, <1>8, ReleaseSpares
<1>9. CASE PruneBlocks \/ UNCHANGED vars
  BY Zenon, <1>1, <1>9 DEF PruneBlocks, vars
<1> QED
  BY Zenon, <1>2, <1>3, <1>4, <1>5, <1>6, <1>7, <1>8, <1>9 DEF Next, Reads

(***************************************************************************)
(* No flush, compaction, release_iterator, or deletion of destroy_db takes *)
(* away a table file that an open handle or one of its iterators still     *)
(* needs; only delete_dir, after destroy_db gave the LOCK back, can.       *)
(***************************************************************************)
THEOREM FilesStay == Spec => NeededFilesStay
<1>1. Inv /\ [Next]_vars => [\A t \in Threads : Uses(t) => Keeps(t) \/ Removes]_vars
  BY Zenon, NextSpares
<1>2. [\A t \in Threads : Uses(t) => Keeps(t) \/ Removes]_vars
      => [\A t \in Threads : Holds(t) /\ stage[t] # "deleting" =>
            \/ Needed(t) \cap Needed(t)' \cap DOMAIN files \subseteq DOMAIN files'
            \/ \E u \in Threads : stage[u] = "removing" /\ stage'[u] = "idle"]_vars
  BY Zenon DEF Uses, Keeps, Removes
<1> QED
  BY <1>1, <1>2, Invariance, PTL DEF Spec, NeededFilesStay

-----------------------------------------------------------------------------
(* What caches and iterators know of tables: for every number they have,   *)
(* whoever has it too has it for the same content.                         *)
Agree(f, g) == \A n \in DOMAIN f \cap DOMAIN g : f[n] = g[n]
Contents(s) == [n \in DOMAIN s.entries |-> s.entries[n].value[1]]

ShardFields == {"entries", "order", "usage"}
Ats == {"none", "ready", "miss", "opened", "table", "fetch", "got"}
WithTable == {"opened", "table", "fetch", "got"}
Shaped ==
    /\ DOMAIN blocks = ShardFields /\ \A t \in Threads : DOMAIN core[t].tables = ShardFields
    /\ \A r \in Readers : reader[r].at \in Ats

(* The disk: no file is another table than the one that CURRENT, a handle  *)
(* or an iterator has under its number.                                    *)
OnDisk ==
    /\ Agree(meta.tables, files)
    /\ \A t \in Threads : stage[t] \in {"open", "closed"} =>
          /\ Agree(core[t].version, files)
          /\ ~core[t].attached => DOMAIN meta.tables = {}

(* The tables of an iterator are in the version or await their deletion.   *)
Pinned ==
    \A t \in Threads : \A r \in Iterators(t) :
        /\ DOMAIN reader[r].pins \subseteq DOMAIN core[t].version \cup core[t].obsolete
        /\ Agree(reader[r].pins, core[t].version) /\ Agree(reader[r].pins, files)
        /\ \A q \in Iterators(t) : Agree(reader[r].pins, reader[q].pins)

(* The table cache has no deleted table, and none under a wrong number.    *)
Cached ==
    \A t \in Threads :
        /\ DOMAIN core[t].tables.entries \subseteq DOMAIN core[t].version \cup core[t].obsolete
        /\ Agree(Contents(core[t].tables), core[t].version)
        /\ \A r \in Iterators(t) : Agree(Contents(core[t].tables), reader[r].pins)

(* What an iterator holds between two steps. *)
Reading ==
    \A r \in Readers :
        /\ reader[r].at \in {"miss"} \cup WithTable => reader[r].number \in DOMAIN reader[r].pins
        /\ reader[r].at \in WithTable => reader[r].table[1] = reader[r].pins[reader[r].number]
        /\ reader[r].at = "got" => reader[r].block = <<reader[r].table[1], reader[r].offset>>

(* The tables that are open, each with its cache_id. *)
Handles ==
    {reader[r].table : r \in {q \in Readers : reader[q].at \in WithTable}} \cup
    UNION {{core[t].tables.entries[n].value : n \in DOMAIN core[t].tables.entries} : t \in Threads}

(* A cache_id belongs to one table, and what the block cache has under it  *)
(* are blocks of that table.                                               *)
Identified ==
    /\ ids \in Nat
    /\ \A h \in Handles : h[2] \in Nat /\ h[2] < ids
    /\ \A g, h \in Handles : g[2] = h[2] => g[1] = h[1]
    /\ \A k \in DOMAIN blocks.entries :
          /\ k[1] \in Nat /\ k[1] < ids
          /\ \A h \in Handles : h[2] = k[1] => blocks.entries[k].value = <<h[1], k[2]>>

ReadInv == Shaped /\ OnDisk /\ Pinned /\ Cached /\ Reading /\ Identified

-----------------------------------------------------------------------------
(* The operations of a shard. *)
LEMMA EraseAllIs ==
    ASSUME NEW s, NEW K
    PROVE  DOMAIN EraseAll(s, K) = ShardFields /\ EraseAll(s, K).entries = Without(s.entries, K)
  BY Zenon DEF EraseAll, ShardFields

LEMMA WithoutIs ==
    ASSUME NEW f, NEW K
    PROVE  DOMAIN Without(f, K) = DOMAIN f \ K /\ IsRestriction(Without(f, K), f)
  BY Zenon DEF Without, Restrict, IsRestriction

LEMMA WithIs ==
    ASSUME NEW f, NEW n, NEW x
    PROVE  /\ DOMAIN With(f, n, x) = DOMAIN f \cup {n} /\ With(f, n, x)[n] = x
           /\ \A m \in DOMAIN f : m # n => With(f, n, x)[m] = f[m]
  BY Zenon DEF With

(* LruShard::insert evicts, and adds one entry. *)
Inserted(i, s, k, v) ==
    /\ DOMAIN i = ShardFields
    /\ k \in DOMAIN i.entries /\ DOMAIN i.entries \subseteq DOMAIN s.entries \cup {k}
    /\ i.entries[k].value = v
    /\ \A j \in DOMAIN i.entries : j # k => i.entries[j] = s.entries[j]

LEMMA InsertIs ==
    ASSUME NEW s, NEW k, NEW v, NEW charge, NEW capacity
    PROVE  Inserted(Insert(s, k, v, charge, capacity), s, k, v)
<1> DEFINE e == Erase(s, k)
           m == MakeRoom(e, charge, capacity)
           i == Added(m, k, v, charge)
           x == [value |-> v, charge |-> charge]
<1>1. e.entries = Without(s.entries, {k})
  BY Zenon, EraseAllIs DEF Erase
<1>2. \E K : m.entries = Without(e.entries, K)
  <2>1. \E K : m = EraseAll(e, K)
    BY Zenon DEF MakeRoom
  <2> QED
    BY Zenon, <2>1, EraseAllIs
<1>3. Insert(s, k, v, charge, capacity) = i
  BY Zenon DEF Insert
<1>4. DOMAIN i = ShardFields /\ i.entries = With(m.entries, k, x) /\ x.value = v
  BY Zenon DEF Added, ShardFields
<1> HIDE DEF e, m, i, x
<1>5. DOMAIN m.entries \subseteq DOMAIN s.entries \ {k} /\ \A j \in DOMAIN m.entries : m.entries[j] = s.entries[j]
  <2>1. PICK K : m.entries = Without(e.entries, K)
    BY Zenon, <1>2
  <2>2. DOMAIN e.entries = DOMAIN s.entries \ {k} /\ IsRestriction(e.entries, s.entries)
    BY Zenon, <1>1, WithoutIs
  <2>3. DOMAIN m.entries = DOMAIN e.entries \ K /\ IsRestriction(m.entries, e.entries)
    BY Zenon, <2>1, WithoutIs
  <2> QED
    BY Zenon, <2>2, <2>3 DEF IsRestriction
<1>6. /\ DOMAIN i.entries = DOMAIN m.entries \cup {k} /\ i.entries[k] = x
      /\ \A j \in DOMAIN m.entries : j # k => i.entries[j] = m.entries[j]
  BY Zenon, <1>4 DEF With
<1> QED
  BY Zenon, <1>3, <1>4, <1>5, <1>6 DEF Inserted

LEMMA TouchIs ==
    ASSUME NEW s, NEW k, DOMAIN s = ShardFields
    PROVE  DOMAIN Touch(s, k) = ShardFields /\ Touch(s, k).entries = s.entries
  BY Zenon DEF Touch, ShardFields

LEMMA PruneIs ==
    ASSUME NEW s, NEW K
    PROVE  DOMAIN Prune(s, K) = ShardFields /\ IsRestriction(Prune(s, K).entries, s.entries)
<1> DEFINE kept == {k \in DOMAIN s.entries : s.entries[k].value \in K}
<1>1. DOMAIN Prune(s, K) = ShardFields /\ Prune(s, K).entries = Restrict(s.entries, kept)
  BY Zenon DEF Prune, ShardFields
<1> QED
  BY Zenon, <1>1 DEF Restrict, IsRestriction

-----------------------------------------------------------------------------
(* The tables of iterators and caches are open tables, and there are no    *)
(* others.                                                                 *)
LEMMA HandlesAre ==
    \A h : h \in Handles <=>
        \/ \E r \in Readers : reader[r].at \in WithTable /\ h = reader[r].table
        \/ \E t \in Threads : \E n \in DOMAIN core[t].tables.entries :
              h = core[t].tables.entries[n].value
  BY DEF Handles

LEMMA HandleOf ==
    /\ \A r \in Readers : reader[r].at \in WithTable => reader[r].table \in Handles
    /\ \A t \in Threads : \A n \in DOMAIN core[t].tables.entries :
          core[t].tables.entries[n].value \in Handles
  BY Zenon, HandlesAre

LEMMA HandlesIn ==
    ASSUME NEW H,
           \A r \in Readers : reader'[r].at \in WithTable => reader'[r].table \in H,
           \A t \in Threads : \A n \in DOMAIN core'[t].tables.entries :
              core'[t].tables.entries[n].value \in H
    PROVE  Handles' \subseteq H
  BY DEF Handles

(* Nothing is opened, and blocks only leave the block cache. *)
LEMMA IdentifiedKept ==
    ASSUME Identified, UNCHANGED ids, IsRestriction(blocks'.entries, blocks.entries),
           Handles' \subseteq Handles
    PROVE  Identified'
<1>1. /\ DOMAIN blocks'.entries \subseteq DOMAIN blocks.entries
      /\ \A k \in DOMAIN blocks'.entries : blocks'.entries[k] = blocks.entries[k]
  BY Zenon DEF IsRestriction
<1> QED
  BY Zenon, <1>1 DEF Identified

(* Initially there are no tables. *)
LEMMA InitReadInv == Init => ReadInv
<1> SUFFICES ASSUME Init PROVE ReadInv
  OBVIOUS
<1>1. /\ \A t \in Threads : core[t] = NoCore /\ stage[t] = "idle"
      /\ \A r \in Readers : reader[r] = NoReader
      /\ files = <<>> /\ meta = NoMeta /\ blocks = EmptyShard /\ ids = 1
  BY Zenon DEF Init
<1>2. /\ NoCore.version = <<>> /\ NoCore.tables = EmptyShard /\ EmptyShard.entries = <<>>
      /\ DOMAIN EmptyShard = ShardFields /\ DOMAIN <<>> = {}
      /\ NoReader.at = "none" /\ NoReader.of = NoThread /\ NoMeta.tables = <<>>
  BY DEF NoCore, EmptyShard, NoReader, NoMeta, ShardFields
<1>3. Shaped
  BY Zenon, <1>1, <1>2 DEF Shaped, Ats
<1>4. OnDisk
  BY Zenon, <1>1, <1>2 DEF OnDisk, Agree
<1>5. \A t \in Threads : Iterators(t) = {}
  BY Zenon, <1>1, <1>2, OpenFilesAssumption DEF Iterators
<1>6. Pinned
  BY Zenon, <1>5 DEF Pinned
<1>7. Cached
  BY Zenon, <1>1, <1>2, <1>5 DEF Cached, Agree, Contents
<1>8. Reading
  BY Zenon, <1>1, <1>2 DEF Reading, WithTable
<1>9. Handles = {}
  BY Zenon, <1>1, <1>2 DEF Handles, WithTable
<1>10. Identified
  BY Zenon, <1>1, <1>2, <1>9 DEF Identified
<1> QED
  BY Zenon, <1>3, <1>4, <1>6, <1>7, <1>8, <1>10 DEF ReadInv

(* Files go, CURRENT goes, a handle is closed; nothing is added. *)
LEMMA ShrinksReadInv ==
    ASSUME ReadInv, UNCHANGED <<reader, blocks, ids>>, IsRestriction(files', files),
           DOMAIN meta'.tables = {} \/ meta' = meta,
           \A t \in Threads :
              /\ core'[t].version = core[t].version /\ core'[t].obsolete = core[t].obsolete
              /\ core'[t].tables = core[t].tables
              /\ core'[t].attached = core[t].attached \/ DOMAIN meta'.tables = {}
              /\ stage'[t] \in {"open", "closed"} => stage[t] \in {"open", "closed"}
    PROVE  ReadInv'
<1>1. Shaped' /\ Reading'
  BY Zenon DEF ReadInv, Shaped, Reading
<1>2. \A f : Agree(f, files) => Agree(f, files')
  BY Zenon DEF Agree, IsRestriction
<1>3. OnDisk'
  <2>1. Agree(meta'.tables, files')
    BY <1>2 DEF ReadInv, OnDisk, Agree
  <2> QED
    BY Zenon, <1>2, <2>1 DEF ReadInv, OnDisk
<1>4. \A t \in Threads : Iterators(t)' = Iterators(t)
  BY Zenon DEF Iterators
<1>5. Pinned'
  BY Zenon, <1>2, <1>4 DEF ReadInv, Pinned
<1>6. Cached'
  BY Zenon, <1>4 DEF ReadInv, Cached
<1>7. Handles' \subseteq Handles
  <2>1. \A r \in Readers : reader'[r].at \in WithTable => reader'[r].table \in Handles
    BY Zenon, HandleOf
  <2>2. \A t \in Threads : \A n \in DOMAIN core'[t].tables.entries :
           core'[t].tables.entries[n].value \in Handles
    BY Zenon, HandleOf
  <2> QED
    BY Zenon, <2>1, <2>2, HandlesIn
<1>8. Identified'
  <2>1. IsRestriction(blocks'.entries, blocks.entries)
    BY Zenon DEF IsRestriction
  <2> QED
    BY Zenon, <1>7, <2>1, IdentifiedKept DEF ReadInv
<1> QED
  BY Zenon, <1>1, <1>3, <1>5, <1>6, <1>8 DEF ReadInv

(* A stage that is not "open" or "closed", or was one already. *)
LEMMA StageReadInv ==
    ASSUME Inv, ReadInv, NEW t \in Threads,
           LockForOpen(t) \/ OpenFails(t) \/ ListDir(t) \/ LockForDestroy(t) \/ UnlockDestroy(t)
    PROVE  ReadInv'
<1>1. UNCHANGED <<core, reader, files, meta, blocks, ids>>
  BY Zenon DEF LockForOpen, OpenFails, ListDir, LockForDestroy, UnlockDestroy
<1>2. \A u \in Threads : stage'[u] \in {"open", "closed"} => stage[u] \in {"open", "closed"}
  BY Zenon DEF Inv, TypeInv, LockForOpen, OpenFails, ListDir, LockForDestroy, UnlockDestroy
<1>3. IsRestriction(files', files)
  BY Zenon, <1>1 DEF IsRestriction
<1> QED
  BY Zenon, <1>1, <1>2, <1>3, ShrinksReadInv

(* destroy_db deletes an entry. *)
LEMMA DeleteEntryReadInv ==
    ASSUME Inv, ReadInv, NEW t \in Threads, NEW entry, DeleteEntry(t, entry)
    PROVE  ReadInv'
<1>1. UNCHANGED <<core, reader, stage, blocks, ids>> /\ meta' \in {meta, NoMeta}
  BY Zenon DEF DeleteEntry
<1>2. files' = files \/ files' = Without(files, {entry})
  BY Zenon DEF DeleteEntry
<1>3. IsRestriction(files', files)
  BY Zenon, <1>2 DEF Without, Restrict, IsRestriction
<1>4. DOMAIN meta'.tables = {} \/ meta' = meta
  BY <1>1 DEF NoMeta
<1> QED
  BY Zenon, <1>1, <1>3, <1>4, ShrinksReadInv

(* The directory goes, and with it the MANIFEST of a handle that has it. *)
LEMMA RemoveDirReadInv ==
    ASSUME Inv, ReadInv, NEW t \in Threads, RemoveDir(t)
    PROVE  ReadInv'
<1>1. UNCHANGED <<reader, blocks, ids>>
  BY Zenon DEF RemoveDir
<1>2. \A u \in Threads : stage'[u] \in {"open", "closed"} => stage[u] \in {"open", "closed"}
  BY Zenon DEF Inv, TypeInv, RemoveDir
<1>3. CASE UNCHANGED <<files, meta, core>>
  <2>1. IsRestriction(files', files)
    BY Zenon, <1>3 DEF IsRestriction
  <2> QED
    BY Zenon, <1>1, <1>2, <1>3, <2>1, ShrinksReadInv
<1>4. CASE /\ files' = <<>> /\ meta' = NoMeta
           /\ core' = [u \in Threads |-> [core[u] EXCEPT !.attached = FALSE]]
  <2>1. IsRestriction(files', files) /\ DOMAIN meta'.tables = {}
    BY <1>4 DEF IsRestriction, NoMeta
  <2>2. \A u \in Threads :
           /\ core'[u].version = core[u].version /\ core'[u].obsolete = core[u].obsolete
           /\ core'[u].tables = core[u].tables
    BY Zenon, <1>4 DEF Inv, TypeInv, CoreFields
  <2> QED
    BY Zenon, <1>1, <1>2, <2>1, <2>2, ShrinksReadInv
<1> QED
  BY Zenon, <1>3, <1>4 DEF RemoveDir

(* A core of t that has only the version of CURRENT, or nothing; t has no  *)
(* iterators.                                                              *)
LEMMA NewCoreReadInv ==
    ASSUME Inv, ReadInv, NEW t \in Threads, Iterators(t)' = {},
           IsRestriction(files', files), UNCHANGED <<blocks, ids>>, meta'.tables = meta.tables,
           DOMAIN core' = Threads, \A u \in Threads \ {t} : core'[u] = core[u],
           core'[t].tables = EmptyShard,
           \/ stage'[t] \notin {"open", "closed"}
           \/ core'[t].version = meta.tables /\ core'[t].attached,
           \A u \in Threads \ {t} : stage'[u] = stage[u],
           \A r \in Readers : reader'[r] = reader[r] \/ reader'[r] = NoReader
    PROVE  ReadInv'
<1>1. NoReader.at = "none" /\ NoReader.of = NoThread
  BY Zenon DEF NoReader
<1>2. DOMAIN EmptyShard = ShardFields /\ DOMAIN EmptyShard.entries = {}
  BY DEF EmptyShard, ShardFields
<1>3. Shaped'
  BY Zenon, <1>1, <1>2 DEF ReadInv, Shaped, Ats
<1>a. \A f : Agree(f, files) => Agree(f, files')
  BY Zenon DEF Agree, IsRestriction
<1>4. OnDisk'
  BY Zenon, <1>a DEF ReadInv, OnDisk
<1>5. \A u \in Threads \ {t} : Iterators(u)' \subseteq Iterators(u) /\ \A r \in Iterators(u)' : reader'[r] = reader[r]
  BY <1>1, OpenFilesAssumption DEF Iterators
<1>6. Pinned'
  <2>1. ASSUME NEW u \in Threads, NEW r \in Iterators(u)'
        PROVE  /\ DOMAIN reader'[r].pins \subseteq DOMAIN core'[u].version \cup core'[u].obsolete
               /\ Agree(reader'[r].pins, core'[u].version) /\ Agree(reader'[r].pins, files')
               /\ \A q \in Iterators(u)' : Agree(reader'[r].pins, reader'[q].pins)
    <3>1. u # t
      BY Zenon, <2>1
    <3> QED
      BY Zenon, <1>a, <1>5, <2>1, <3>1 DEF ReadInv, Pinned
  <2> QED
    BY Zenon, <2>1 DEF Pinned
<1>7. Cached'
  <2>1. ASSUME NEW u \in Threads
        PROVE  /\ DOMAIN core'[u].tables.entries \subseteq DOMAIN core'[u].version \cup core'[u].obsolete
               /\ Agree(Contents(core'[u].tables), core'[u].version)
               /\ \A r \in Iterators(u)' : Agree(Contents(core'[u].tables), reader'[r].pins)
    <3>1. CASE u = t
      BY Zenon, <1>2, <3>1 DEF Agree, Contents
    <3>2. CASE u # t
      BY Zenon, <1>5, <3>2 DEF ReadInv, Cached
    <3> QED
      BY Zenon, <3>1, <3>2
  <2> QED
    BY Zenon, <2>1 DEF Cached
<1>8. Reading'
  BY Zenon, <1>1 DEF ReadInv, Reading, WithTable
<1>9. Handles' \subseteq Handles
  <2>1. \A r \in Readers : reader'[r].at \in WithTable => reader'[r].table \in Handles
    BY Zenon, <1>1, HandleOf DEF WithTable
  <2>2. \A u \in Threads : \A n \in DOMAIN core'[u].tables.entries :
           core'[u].tables.entries[n].value \in Handles
    BY Zenon, <1>2, HandleOf
  <2> QED
    BY Zenon, <2>1, <2>2, HandlesIn
<1>10. Identified'
  <2>1. IsRestriction(blocks'.entries, blocks.entries)
    BY Zenon DEF IsRestriction
  <2> QED
    BY Zenon, <1>9, <2>1, IdentifiedKept DEF ReadInv
<1> QED
  BY Zenon, <1>3, <1>4, <1>6, <1>7, <1>8, <1>10 DEF ReadInv

(* The version of CURRENT, and an empty table cache. *)
LEMMA RecoverReadInv ==
    ASSUME Inv, ReadInv, NEW t \in Threads, Recover(t)
    PROVE  ReadInv'
<1>1. UNCHANGED <<files, blocks, ids, reader>>
  BY Zenon DEF Recover
<1>2. Iterators(t)' = {}
  <2>1. stage[t] \notin {"open", "closed"}
    BY Zenon DEF Recover
  <2> QED
    BY Zenon, <1>1, <2>1, NoIterators DEF Inv, Iterators
<1>3. meta'.tables = meta.tables
  BY Zenon DEF Inv, TypeInv, Recover
<1> DEFINE c == [NoCore EXCEPT !.version = meta.tables, !.next = meta'.next, !.attached = TRUE]
<1>4. c.version = meta.tables /\ c.attached /\ c.tables = EmptyShard
  BY Zenon DEF NoCore
<1>5. core' = [core EXCEPT ![t] = c]
  BY Zenon DEF Recover
<1> HIDE DEF c
<1>6. /\ DOMAIN core' = Threads /\ core'[t] = c
      /\ \A u \in Threads \ {t} : core'[u] = core[u] /\ stage'[u] = stage[u]
  BY Zenon, <1>5 DEF Inv, TypeInv, Recover
<1>7. IsRestriction(files', files)
  BY Zenon, <1>1 DEF IsRestriction
<1> QED
  BY Zenon, <1>1, <1>2, <1>3, <1>4, <1>6, <1>7, NewCoreReadInv

(* The handle goes, with or without the core. *)
LEMMA CloseReadInv ==
    ASSUME Inv, ReadInv, NEW t \in Threads, Close(t)
    PROVE  ReadInv'
<1>1. UNCHANGED <<files, blocks, ids, reader, meta>>
  BY Zenon DEF Close
<1>2. CASE Iterators(t) = {}
  <2>1. Iterators(t)' = {}
    BY Zenon, <1>1, <1>2 DEF Iterators
  <2>2. stage' = [stage EXCEPT ![t] = "idle"] /\ core' = [core EXCEPT ![t] = NoCore]
    BY Zenon, <1>2 DEF Close
  <2>3. /\ DOMAIN core' = Threads /\ core'[t].tables = EmptyShard
        /\ stage'[t] \notin {"open", "closed"}
        /\ \A u \in Threads \ {t} : core'[u] = core[u] /\ stage'[u] = stage[u]
    BY Zenon, <2>2 DEF Inv, TypeInv, NoCore
  <2>4. IsRestriction(files', files)
    BY Zenon, <1>1 DEF IsRestriction
  <2> QED
    BY Zenon, <1>1, <2>1, <2>3, <2>4, NewCoreReadInv
<1>3. CASE Iterators(t) # {}
  <2>1. core' = core /\ stage' = [stage EXCEPT ![t] = "closed"] /\ stage[t] = "open"
    BY Zenon, <1>3 DEF Close
  <2>2. \A u \in Threads : stage'[u] \in {"open", "closed"} => stage[u] \in {"open", "closed"}
    BY Zenon, <2>1 DEF Inv, TypeInv
  <2>3. IsRestriction(files', files)
    BY Zenon, <1>1 DEF IsRestriction
  <2> QED
    BY Zenon, <1>1, <2>1, <2>2, <2>3, ShrinksReadInv
<1> QED
  BY Zenon, <1>2, <1>3

(* A new iterator has the tables of the version. *)
LEMMA NewIteratorReadInv ==
    ASSUME Inv, ReadInv, NEW r \in Readers, NEW t \in Threads, NewIterator(r, t)
    PROVE  ReadInv'
<1> DEFINE x == [NoReader EXCEPT !.at = "ready", !.of = t, !.pins = core[t].version]
<1>1. x.at = "ready" /\ x.of = t /\ x.pins = core[t].version
  BY Zenon DEF NoReader
<1>2. reader' = [reader EXCEPT ![r] = x] /\ stage[t] = "open"
  BY Zenon DEF NewIterator
<1> HIDE DEF x
<1>3. UNCHANGED <<stage, core, files, meta, blocks, ids>>
  BY Zenon DEF NewIterator
<1>4. reader'[r] = x /\ \A q \in Readers \ {r} : reader'[q] = reader[q]
  BY Zenon, <1>2 DEF Inv, TypeInv
<1>5. Shaped'
  BY Zenon, <1>1, <1>3, <1>4 DEF ReadInv, Shaped, Ats
<1>6. OnDisk'
  BY Zenon, <1>3 DEF ReadInv, OnDisk
<1>7. \A u \in Threads : \A q \in Iterators(u)' :
         \/ q = r /\ u = t
         \/ q # r /\ q \in Iterators(u) /\ reader'[q] = reader[q]
  BY Zenon, <1>1, <1>4 DEF Iterators
<1>8. \A n : n \in DOMAIN core[t].version => core[t].version[n] = core[t].version[n]
  OBVIOUS
<1>9. Agree(core[t].version, files)
  BY Zenon, <1>2 DEF ReadInv, OnDisk
<1>10. \A f, g : Agree(f, g) => Agree(g, f)
  BY Zenon DEF Agree
<1>11. \A f : Agree(f, f)
  BY Zenon DEF Agree
<1>12. Pinned'
  <2>1. ASSUME NEW u \in Threads, NEW q \in Iterators(u)'
        PROVE  /\ DOMAIN reader'[q].pins \subseteq DOMAIN core'[u].version \cup core'[u].obsolete
               /\ Agree(reader'[q].pins, core'[u].version) /\ Agree(reader'[q].pins, files')
               /\ \A p \in Iterators(u)' : Agree(reader'[q].pins, reader'[p].pins)
    <3>1. CASE q = r /\ u = t
      <4>1. reader'[q].pins = core[u].version
        BY Zenon, <1>1, <1>4, <3>1
      <4>2. ASSUME NEW p \in Iterators(u)' PROVE Agree(reader'[q].pins, reader'[p].pins)
        <5>1. reader'[p].pins = core[u].version \/ (p \in Iterators(u) /\ reader'[p] = reader[p])
          BY Zenon, <1>1, <1>4, <1>7, <3>1
        <5> QED
          BY Zenon, <1>10, <1>11, <4>1, <5>1 DEF ReadInv, Pinned
      <4> QED
        BY Zenon, <1>3, <1>9, <1>11, <3>1, <4>1, <4>2
    <3>2. CASE q # r /\ q \in Iterators(u) /\ reader'[q] = reader[q]
      <4>1. ASSUME NEW p \in Iterators(u)' PROVE Agree(reader'[q].pins, reader'[p].pins)
        <5>1. \/ u = t /\ reader'[p].pins = core[u].version
              \/ p \in Iterators(u) /\ reader'[p] = reader[p]
          BY Zenon, <1>1, <1>4, <1>7
        <5> QED
          BY Zenon, <3>2, <5>1 DEF ReadInv, Pinned
      <4> QED
        BY Zenon, <1>3, <3>2, <4>1 DEF ReadInv, Pinned
    <3> QED
      BY Zenon, <1>7, <2>1, <3>1, <3>2
  <2> QED
    BY Zenon, <2>1 DEF Pinned
<1>13. Cached'
  BY Zenon, <1>1, <1>3, <1>4, <1>7 DEF ReadInv, Cached
<1>14. Reading'
  BY Zenon, <1>1, <1>4 DEF ReadInv, Reading, WithTable
<1>15. Handles' \subseteq Handles
  <2>1. \A q \in Readers : reader'[q].at \in WithTable => reader'[q].table \in Handles
    BY Zenon, <1>1, <1>4, HandleOf DEF WithTable
  <2>2. \A u \in Threads : \A n \in DOMAIN core'[u].tables.entries :
           core'[u].tables.entries[n].value \in Handles
    BY Zenon, <1>3, HandleOf
  <2> QED
    BY Zenon, <2>1, <2>2, HandlesIn
<1>16. Identified'
  <2>1. IsRestriction(blocks'.entries, blocks.entries)
    BY Zenon, <1>3 DEF IsRestriction
  <2> QED
    BY Zenon, <1>3, <1>15, <2>1, IdentifiedKept DEF ReadInv
<1> QED
  BY Zenon, <1>5, <1>6, <1>12, <1>13, <1>14, <1>16 DEF ReadInv

-----------------------------------------------------------------------------
LEMMA ContentsAgree ==
    ASSUME NEW s, NEW f
    PROVE  Agree(Contents(s), f) <=>
              \A n \in DOMAIN s.entries : n \in DOMAIN f => s.entries[n].value[1] = f[n]
<1> DEFINE c == Contents(s)
<1>1. DOMAIN c = DOMAIN s.entries
  BY Zenon DEF Contents
<1>2. \A n \in DOMAIN s.entries : c[n] = s.entries[n].value[1]
  BY Zenon DEF Contents
<1> HIDE DEF c
<1>3. Agree(c, f) <=> \A n \in DOMAIN s.entries : n \in DOMAIN f => s.entries[n].value[1] = f[n]
  BY Zenon, <1>1, <1>2 DEF Agree
<1> QED
  BY Zenon, <1>3 DEF c

(* A step of the iterator r, which may put its own table into the cache.   *)
ReaderStep(r) ==
    LET t == reader[r].of IN
    /\ UNCHANGED <<stage, files, meta>>
    /\ \A q \in Readers \ {r} : reader'[q] = reader[q]
    /\ reader'[r].of = t /\ reader'[r].pins = reader[r].pins /\ reader'[r].at \in Ats
    /\ \A u \in Threads : /\ core'[u].version = core[u].version
                          /\ core'[u].obsolete = core[u].obsolete
                          /\ core'[u].attached = core[u].attached
    /\ \A u \in Threads \ {t} : core'[u].tables = core[u].tables
    /\ DOMAIN core'[t].tables = ShardFields /\ DOMAIN blocks' = ShardFields
    /\ \A n \in DOMAIN core'[t].tables.entries :
          \/ /\ n \in DOMAIN core[t].tables.entries
             /\ core'[t].tables.entries[n] = core[t].tables.entries[n]
          \/ /\ reader[r].at \in WithTable /\ n = reader[r].number
             /\ core'[t].tables.entries[n].value = reader[r].table

LEMMA ReaderStepKeeps ==
    ASSUME Inv, ReadInv, NEW r \in Readers, reader[r].of \in Threads, ReaderStep(r)
    PROVE  Shaped' /\ OnDisk' /\ Pinned' /\ Cached'
<1>t. PICK t \in Threads : t = reader[r].of
  OBVIOUS
<1> DEFINE old == core[t].tables.entries
           new == core'[t].tables.entries
<1>1. Shaped'
  BY Zenon DEF ReadInv, Shaped, ReaderStep
<1>2. OnDisk'
  BY Zenon DEF ReadInv, OnDisk, ReaderStep
<1>3. \A q \in Readers : reader'[q].of = reader[q].of /\ reader'[q].pins = reader[q].pins
  BY Zenon DEF ReaderStep
<1>4. \A u \in Threads : Iterators(u)' = Iterators(u)
  BY Zenon, <1>3 DEF Iterators
<1>5. \A u \in Threads : Iterators(u) \subseteq Readers
  BY Zenon DEF Iterators
<1>6. Pinned'
  <2>1. UNCHANGED files /\ \A u \in Threads : core'[u].version = core[u].version /\ core'[u].obsolete = core[u].obsolete
    BY Zenon DEF ReaderStep
  <2> QED
    BY Zenon, <1>3, <1>4, <1>5, <2>1 DEF ReadInv, Pinned
<1>7. Cached'
  <2>1. ASSUME NEW u \in Threads, u # t
        PROVE  /\ DOMAIN core'[u].tables.entries \subseteq DOMAIN core'[u].version \cup core'[u].obsolete
               /\ Agree(Contents(core'[u].tables), core'[u].version)
               /\ \A q \in Iterators(u)' : Agree(Contents(core'[u].tables), reader'[q].pins)
    <3>1. /\ core'[u].tables = core[u].tables /\ core'[u].version = core[u].version
          /\ core'[u].obsolete = core[u].obsolete
      BY Zenon, <1>t, <2>1 DEF ReaderStep
    <3> QED
      BY Zenon, <1>3, <1>4, <1>5, <3>1 DEF ReadInv, Cached
  <2>2. /\ core'[t].version = core[t].version /\ core'[t].obsolete = core[t].obsolete
        /\ \A n \in DOMAIN new :
              \/ n \in DOMAIN old /\ new[n] = old[n]
              \/ /\ reader[r].at \in WithTable /\ n = reader[r].number
                 /\ new[n].value = reader[r].table
    BY Zenon, <1>t DEF ReaderStep
  <2>3. r \in Iterators(t)
    BY Zenon, <1>t DEF Iterators
  <2>4. reader[r].at \in WithTable =>
           /\ reader[r].number \in DOMAIN reader[r].pins
           /\ reader[r].table[1] = reader[r].pins[reader[r].number]
    BY Zenon DEF ReadInv, Reading
  <2>5. /\ DOMAIN reader[r].pins \subseteq DOMAIN core[t].version \cup core[t].obsolete
        /\ Agree(reader[r].pins, core[t].version)
        /\ \A q \in Iterators(t) : Agree(reader[r].pins, reader[q].pins)
    BY Zenon, <2>3 DEF ReadInv, Pinned
  <2>6. /\ DOMAIN old \subseteq DOMAIN core[t].version \cup core[t].obsolete
        /\ Agree(Contents(core[t].tables), core[t].version)
        /\ \A q \in Iterators(t) : Agree(Contents(core[t].tables), reader[q].pins)
    BY Zenon DEF ReadInv, Cached
  <2>7. DOMAIN new \subseteq DOMAIN core'[t].version \cup core'[t].obsolete
    BY Zenon, <2>2, <2>4, <2>5, <2>6
  <2>8. ASSUME NEW f, Agree(reader[r].pins, f), Agree(Contents(core[t].tables), f)
        PROVE  Agree(Contents(core'[t].tables), f)
    <3>1. \A n \in DOMAIN old : n \in DOMAIN f => old[n].value[1] = f[n]
      BY Zenon, <2>8, ContentsAgree
    <3>2. \A n \in DOMAIN reader[r].pins : n \in DOMAIN f => reader[r].pins[n] = f[n]
      BY Zenon, <2>8 DEF Agree
    <3>3. \A n \in DOMAIN new : n \in DOMAIN f => new[n].value[1] = f[n]
      <4> HIDE DEF old, new
      <4> QED
        BY Zenon, <2>2, <2>4, <3>1, <3>2
    <3> QED
      BY Zenon, <3>3, ContentsAgree
  <2>9. Agree(Contents(core'[t].tables), core'[t].version)
    BY Zenon, <2>2, <2>5, <2>6, <2>8
  <2>10. \A q \in Iterators(t)' : Agree(Contents(core'[t].tables), reader'[q].pins)
    BY Zenon, <1>3, <1>4, <1>5, <2>5, <2>6, <2>8
  <2>11. ASSUME NEW u \in Threads
         PROVE  /\ DOMAIN core'[u].tables.entries \subseteq DOMAIN core'[u].version \cup core'[u].obsolete
                /\ Agree(Contents(core'[u].tables), core'[u].version)
                /\ \A q \in Iterators(u)' : Agree(Contents(core'[u].tables), reader'[q].pins)
    <3>1. CASE u = t
      BY Zenon, <2>7, <2>9, <2>10, <3>1
    <3> QED
      BY Zenon, <2>1, <3>1
  <2> QED
    BY Zenon, <2>11 DEF Cached
<1> QED
  BY Zenon, <1>1, <1>2, <1>6, <1>7

(* It opens nothing, and leaves blocks as they are, or fewer. *)
LEMMA ReaderStepIdentified ==
    ASSUME Inv, ReadInv, NEW r \in Readers, reader[r].of \in Threads, ReaderStep(r),
           UNCHANGED ids, reader'[r].at \in WithTable => reader'[r].table \in Handles,
           IsRestriction(blocks'.entries, blocks.entries)
    PROVE  Identified'
<1>1. \A q \in Readers : reader'[q].at \in WithTable => reader'[q].table \in Handles
  BY Zenon, HandleOf DEF ReaderStep
<1>2. ASSUME NEW u \in Threads, NEW n \in DOMAIN core'[u].tables.entries
      PROVE  core'[u].tables.entries[n].value \in Handles
  BY <1>2, HandleOf DEF ReaderStep
<1>3. Handles' \subseteq Handles
  BY Zenon, <1>1, <1>2, HandlesIn
<1> QED
  BY Zenon, <1>3, IdentifiedKept DEF ReadInv

(* What only changes the place of r in what it does. *)
LEMMA ReaderMoves ==
    ASSUME Inv, ReadInv, NEW r \in Readers, reader[r].of \in Threads,
           UNCHANGED <<stage, core, files, meta>>, DOMAIN blocks' = ShardFields,
           \A q \in Readers \ {r} : reader'[q] = reader[q],
           reader'[r].of = reader[r].of, reader'[r].pins = reader[r].pins, reader'[r].at \in Ats
    PROVE  ReaderStep(r)
  BY Zenon DEF ReadInv, Shaped, ReaderStep

(* find_table, the lookup. *)
LEMMA FindTableReadInv ==
    ASSUME Inv, ReadInv, NEW r \in Readers, NEW n \in DOMAIN reader[r].pins, FindTable(r, n)
    PROVE  ReadInv'
<1>1. PICK t \in Threads : t = reader[r].of
  BY Zenon DEF Inv, Held, FindTable
<1> DEFINE x == [NoReader EXCEPT !.of = t, !.pins = reader[r].pins, !.number = n]
           hit == [x EXCEPT !.at = "table", !.table = ValueOf(core[t].tables, n)]
           miss == [x EXCEPT !.at = "miss"]
<1>2. /\ hit.of = t /\ hit.pins = reader[r].pins /\ hit.number = n /\ hit.at = "table"
      /\ hit.table = ValueOf(core[t].tables, n)
  BY Zenon DEF NoReader
<1>3. miss.of = t /\ miss.pins = reader[r].pins /\ miss.number = n /\ miss.at = "miss"
  BY Zenon DEF NoReader
<1>4. \/ /\ Has(core[t].tables, n) /\ reader' = [reader EXCEPT ![r] = hit]
         /\ core' = [core EXCEPT ![t].tables = Touch(core[t].tables, n)]
      \/ reader' = [reader EXCEPT ![r] = miss] /\ UNCHANGED core
  BY <1>1, Zenon DEF FindTable
<1>5. UNCHANGED <<stage, files, meta, blocks, ids>>
  BY Zenon DEF FindTable
<1> HIDE DEF x, hit, miss
<1>6. DOMAIN blocks' = ShardFields /\ IsRestriction(blocks'.entries, blocks.entries)
  BY Zenon, <1>5 DEF ReadInv, Shaped, IsRestriction
<1>7. reader'[r] \in {hit, miss} /\ \A q \in Readers \ {r} : reader'[q] = reader[q]
  BY Zenon, <1>4 DEF Inv, TypeInv
<1>8. \A u \in Threads : /\ core'[u].version = core[u].version
                         /\ core'[u].obsolete = core[u].obsolete
                         /\ core'[u].attached = core[u].attached
                         /\ DOMAIN core'[u].tables = ShardFields
                         /\ core'[u].tables.entries = core[u].tables.entries
                         /\ u # t => core'[u].tables = core[u].tables
  <2>1. DOMAIN core[t].tables = ShardFields /\ DOMAIN core[t] = CoreFields
    BY Zenon DEF ReadInv, Shaped, Inv, TypeInv
  <2> DEFINE s == Touch(core[t].tables, n)
  <2>2. DOMAIN s = ShardFields /\ s.entries = core[t].tables.entries
    BY Zenon, <2>1, TouchIs
  <2> HIDE DEF s
  <2>3. core' = [core EXCEPT ![t].tables = s] \/ core' = core
    BY Zenon, <1>4 DEF s
  <2>4. \A u \in Threads \ {t} : core'[u] = core[u] /\ DOMAIN core[u].tables = ShardFields
    BY Zenon, <2>3 DEF ReadInv, Shaped, Inv, TypeInv
  <2>5. core'[t] = [core[t] EXCEPT !.tables = s] \/ core'[t] = core[t]
    BY Zenon, <2>3 DEF Inv, TypeInv
  <2> QED
    BY Zenon, <2>1, <2>2, <2>4, <2>5 DEF CoreFields
<1>9. ReaderStep(r)
  BY Zenon, <1>1, <1>2, <1>3, <1>5, <1>6, <1>7, <1>8 DEF ReaderStep, Ats
<1>10. CASE reader'[r] = hit /\ Has(core[t].tables, n)
  <2>1. hit.table \in Handles /\ hit.table[1] = reader[r].pins[n]
    <3>1. n \in DOMAIN core[t].tables.entries /\ hit.table = core[t].tables.entries[n].value
      BY Zenon, <1>2, <1>10 DEF Has, ValueOf
    <3>2. r \in Iterators(t)
      BY Zenon, <1>1 DEF Iterators
    <3>3. Agree(Contents(core[t].tables), reader[r].pins)
      BY Zenon, <3>2 DEF ReadInv, Cached
    <3>4. core[t].tables.entries[n].value[1] = reader[r].pins[n]
      BY Zenon, <3>1, <3>3, ContentsAgree
    <3> QED
      BY Zenon, <3>1, <3>4, HandleOf
  <2>2. Reading'
    BY Zenon, <1>2, <1>7, <1>10, <2>1 DEF ReadInv, Reading, WithTable
  <2>3. Identified'
    BY Zenon, <1>1, <1>5, <1>6, <1>9, <1>10, <2>1, ReaderStepIdentified
  <2> QED
    BY Zenon, <1>1, <1>9, <2>2, <2>3, ReaderStepKeeps DEF ReadInv
<1>11. CASE reader'[r] = miss
  <2>1. Reading'
    BY Zenon, <1>3, <1>7, <1>11 DEF ReadInv, Reading, WithTable
  <2>2. Identified'
    BY Zenon, <1>1, <1>3, <1>5, <1>6, <1>9, <1>11, ReaderStepIdentified DEF WithTable
  <2> QED
    BY Zenon, <1>1, <1>9, <2>1, <2>2, ReaderStepKeeps DEF ReadInv
<1> QED
  BY Zenon, <1>4, <1>7, <1>10, <1>11 DEF Inv, TypeInv

(* find_table opens the file under a number of the iterator, which is the  *)
(* table it pinned, and gives it a cache_id that no table had.             *)
LEMMA OpenTableReadInv ==
    ASSUME Inv, ReadInv, NEW r \in Readers, OpenTable(r)
    PROVE  ReadInv'
<1> DEFINE n == reader[r].number
           h == <<files[n], ids>>
<1>1. reader[r].of \in Threads /\ reader[r].at = "miss" /\ n \in DOMAIN files
  BY Zenon DEF Inv, Held, OpenTable
<1>2. reader' = [reader EXCEPT ![r].at = "opened", ![r].table = h] /\ ids' = ids + 1
  BY Zenon DEF OpenTable
<1>3. UNCHANGED <<stage, core, files, meta, blocks>>
  BY Zenon DEF OpenTable
<1> HIDE DEF h
<1>4. /\ reader'[r].of = reader[r].of /\ reader'[r].pins = reader[r].pins
      /\ reader'[r].number = n /\ reader'[r].at = "opened" /\ reader'[r].table = h
      /\ \A q \in Readers \ {r} : reader'[q] = reader[q]
  BY Zenon, <1>2 DEF Inv, TypeInv, ReaderFields
<1>5. ReaderStep(r)
  BY Zenon, <1>1, <1>3, <1>4, ReaderMoves DEF ReadInv, Shaped, Ats
<1>6. n \in DOMAIN reader[r].pins /\ h[1] = reader[r].pins[n] /\ h[2] = ids
  <2>1. n \in DOMAIN reader[r].pins
    BY Zenon, <1>1 DEF ReadInv, Reading
  <2>2. Agree(reader[r].pins, files)
    BY Zenon, <1>1 DEF ReadInv, Pinned, Iterators
  <2> QED
    BY Zenon, <1>1, <2>1, <2>2 DEF Agree, h
<1>7. Reading'
  BY Zenon, <1>4, <1>6 DEF ReadInv, Reading, WithTable
<1>8. Handles' \subseteq Handles \cup {h}
  <2>1. \A q \in Readers : reader'[q].at \in WithTable => reader'[q].table \in Handles \cup {h}
    BY Zenon, <1>4, HandleOf
  <2>2. \A u \in Threads : \A m \in DOMAIN core'[u].tables.entries :
           core'[u].tables.entries[m].value \in Handles \cup {h}
    BY Zenon, <1>3, HandleOf
  <2> QED
    BY Zenon, <2>1, <2>2, HandlesIn
<1>9. Identified'
  BY <1>2, <1>3, <1>6, <1>8 DEF ReadInv, Identified
<1> QED
  BY Zenon, <1>1, <1>5, <1>7, <1>9, ReaderStepKeeps DEF ReadInv

(* A failed open, and a failed read of a block. *)
LEMMA FailsReadInv ==
    ASSUME Inv, ReadInv, NEW r \in Readers, OpenTableFails(r) \/ ReadBlockFails(r)
    PROVE  ReadInv'
<1>1. reader[r].of \in Threads /\ reader[r].at \in {"miss", "fetch"}
  BY Zenon DEF Inv, Held, OpenTableFails, ReadBlockFails
<1>2. UNCHANGED <<stage, core, files, meta, blocks, ids>>
  BY Zenon DEF OpenTableFails, ReadBlockFails
<1>3. /\ reader'[r].of = reader[r].of /\ reader'[r].pins = reader[r].pins
      /\ reader'[r].table = reader[r].table
      /\ \A q \in Readers \ {r} : reader'[q] = reader[q]
      /\ \/ reader'[r].at = "ready"
         \/ reader'[r].at = "table" /\ reader[r].at = "fetch" /\ reader'[r].number = reader[r].number
  BY DEF Inv, TypeInv, ReaderFields, OpenTableFails, ReadBlockFails
<1>4. DOMAIN blocks' = ShardFields /\ IsRestriction(blocks'.entries, blocks.entries)
  BY Zenon, <1>2 DEF ReadInv, Shaped, IsRestriction
<1>5. ReaderStep(r)
  BY Zenon, <1>1, <1>2, <1>3, <1>4, ReaderMoves DEF Ats
<1>6. Reading'
  BY <1>3 DEF ReadInv, Reading, WithTable
<1>7. reader'[r].at \in WithTable => reader'[r].table \in Handles
  BY Zenon, <1>3, HandleOf DEF WithTable
<1>8. Identified'
  BY Zenon, <1>1, <1>2, <1>4, <1>5, <1>7, ReaderStepIdentified
<1> QED
  BY Zenon, <1>1, <1>5, <1>6, <1>8, ReaderStepKeeps DEF ReadInv

(* find_table puts the table it opened into the cache. *)
LEMMA InsertTableReadInv ==
    ASSUME Inv, ReadInv, NEW r \in Readers, InsertTable(r)
    PROVE  ReadInv'
<1>1. PICK t \in Threads : t = reader[r].of
  BY Zenon DEF Inv, Held, InsertTable
<1> DEFINE s == Insert(core[t].tables, reader[r].number, reader[r].table, 1, TableCapacity)
<1>2. core' = [core EXCEPT ![t].tables = s] /\ reader' = [reader EXCEPT ![r].at = "table"]
  BY <1>1, Zenon DEF InsertTable
<1>3. UNCHANGED <<stage, files, meta, blocks, ids>> /\ reader[r].at = "opened"
  BY Zenon DEF InsertTable
<1>4. /\ DOMAIN s = ShardFields
      /\ DOMAIN s.entries \subseteq DOMAIN core[t].tables.entries \cup {reader[r].number}
      /\ reader[r].number \in DOMAIN s.entries
      /\ s.entries[reader[r].number].value = reader[r].table
      /\ \A j \in DOMAIN s.entries : j # reader[r].number => s.entries[j] = core[t].tables.entries[j]
  <2>1. Inserted(s, core[t].tables, reader[r].number, reader[r].table)
    BY Zenon, InsertIs
  <2> QED
    BY Zenon, <2>1 DEF Inserted
<1> HIDE DEF s
<1>5. /\ reader'[r].of = reader[r].of /\ reader'[r].pins = reader[r].pins
      /\ reader'[r].number = reader[r].number /\ reader'[r].at = "table"
      /\ reader'[r].table = reader[r].table
      /\ \A q \in Readers \ {r} : reader'[q] = reader[q]
  BY Zenon, <1>2 DEF Inv, TypeInv, ReaderFields
<1>6. DOMAIN blocks' = ShardFields /\ IsRestriction(blocks'.entries, blocks.entries)
  BY Zenon, <1>3 DEF ReadInv, Shaped, IsRestriction
<1>7. /\ \A u \in Threads \ {t} : core'[u] = core[u]
      /\ core'[t].version = core[t].version /\ core'[t].obsolete = core[t].obsolete
      /\ core'[t].attached = core[t].attached /\ core'[t].tables = s
  BY Zenon, <1>2 DEF Inv, TypeInv, CoreFields
<1>8. ReaderStep(r)
  BY Zenon, <1>1, <1>3, <1>4, <1>5, <1>6, <1>7 DEF ReaderStep, Ats, WithTable
<1>9. Reading'
  BY <1>3, <1>5 DEF ReadInv, Reading, WithTable
<1>10. reader'[r].table \in Handles
  BY Zenon, <1>3, <1>5, HandleOf DEF WithTable
<1>11. Identified'
  BY Zenon, <1>1, <1>3, <1>6, <1>8, <1>10, ReaderStepIdentified
<1> QED
  BY Zenon, <1>1, <1>8, <1>9, <1>11, ReaderStepKeeps DEF ReadInv

(* read_block_cached_full, the lookup: what is cached under the cache_id   *)
(* of the table is a block of the table.                                   *)
LEMMA FindBlockReadInv ==
    ASSUME Inv, ReadInv, NEW r \in Readers, NEW offset, FindBlock(r, offset)
    PROVE  ReadInv'
<1> DEFINE h == reader[r].table
           key == <<h[2], offset>>
<1>1. reader[r].of \in Threads /\ reader[r].at \in {"table", "got"}
  BY Zenon DEF Inv, Held, FindBlock
<1>2. UNCHANGED <<stage, core, files, meta, ids>>
  BY Zenon DEF FindBlock
<1>3. \/ /\ Has(blocks, key) /\ blocks' = Touch(blocks, key)
         /\ reader' = [reader EXCEPT ![r].at = "got", ![r].offset = offset,
                                     ![r].block = ValueOf(blocks, key)]
      \/ /\ reader' = [reader EXCEPT ![r].at = "fetch", ![r].offset = offset, ![r].block = <<0, 0>>]
         /\ blocks' = blocks
  BY Zenon DEF FindBlock
<1>4. h \in Handles
  BY Zenon, <1>1, HandleOf DEF WithTable
<1>5. Has(blocks, key) => ValueOf(blocks, key) = <<h[1], offset>>
  <2>1. key[1] = h[2] /\ key[2] = offset
    OBVIOUS
  <2> HIDE DEF h, key
  <2> QED
    BY Zenon, <1>4, <2>1 DEF ReadInv, Identified, Has, ValueOf
<1>6. /\ reader'[r].of = reader[r].of /\ reader'[r].pins = reader[r].pins
      /\ reader'[r].number = reader[r].number /\ reader'[r].table = h
      /\ \A q \in Readers \ {r} : reader'[q] = reader[q]
      /\ \/ reader'[r].at = "fetch"
         \/ /\ reader'[r].at = "got" /\ reader'[r].offset = offset
            /\ Has(blocks, key) /\ reader'[r].block = ValueOf(blocks, key)
  <2> HIDE DEF key
  <2> QED
    BY <1>3 DEF Inv, TypeInv, ReaderFields
<1>7. DOMAIN blocks' = ShardFields /\ blocks'.entries = blocks.entries
  BY <1>3, TouchIs DEF ReadInv, Shaped
<1>8. IsRestriction(blocks'.entries, blocks.entries)
  BY Zenon, <1>7 DEF IsRestriction
<1> HIDE DEF h, key
<1>9. ReaderStep(r)
  BY Zenon, <1>1, <1>2, <1>6, <1>7, ReaderMoves DEF Ats
<1>10. Reading'
  BY <1>1, <1>5, <1>6 DEF ReadInv, Reading, WithTable, h
<1>11. Identified'
  BY Zenon, <1>1, <1>2, <1>4, <1>6, <1>8, <1>9, ReaderStepIdentified
<1> QED
  BY Zenon, <1>1, <1>9, <1>10, <1>11, ReaderStepKeeps DEF ReadInv

(* The block comes from the file of the table, and may go into the cache. *)
LEMMA ReadBlockReadInv ==
    ASSUME Inv, ReadInv, NEW r \in Readers, NEW fill, ReadBlock(r, fill)
    PROVE  ReadInv'
<1> DEFINE h == reader[r].table
           o == reader[r].offset
           s == Insert(blocks, <<h[2], o>>, <<h[1], o>>, BlockSize[o], BlockCapacity)
<1>1. reader[r].of \in Threads /\ reader[r].at = "fetch"
  BY Zenon DEF Inv, Held, ReadBlock
<1>2. UNCHANGED <<stage, core, files, meta, ids>>
  BY Zenon DEF ReadBlock
<1>3. reader' = [reader EXCEPT ![r].at = "got", ![r].block = <<h[1], o>>] /\ blocks' \in {s, blocks}
  BY Zenon DEF ReadBlock
<1>4. Inserted(s, blocks, <<h[2], o>>, <<h[1], o>>)
  BY Zenon, InsertIs
<1> HIDE DEF s
<1>5. DOMAIN blocks' = ShardFields
  BY Zenon, <1>3, <1>4 DEF Inserted, ReadInv, Shaped
<1>6. h \in Handles
  BY Zenon, <1>1, HandleOf DEF WithTable
<1>7. /\ reader'[r].of = reader[r].of /\ reader'[r].pins = reader[r].pins
      /\ reader'[r].number = reader[r].number /\ reader'[r].table = h
      /\ reader'[r].at = "got" /\ reader'[r].offset = o /\ reader'[r].block = <<h[1], o>>
      /\ \A q \in Readers \ {r} : reader'[q] = reader[q]
  BY Zenon, <1>3 DEF Inv, TypeInv, ReaderFields
<1>8. ReaderStep(r)
  BY Zenon, <1>1, <1>2, <1>5, <1>7, ReaderMoves DEF Ats
<1>9. Reading'
  BY <1>1, <1>7 DEF ReadInv, Reading, WithTable
<1>10. Handles' \subseteq Handles
  <2>1. \A q \in Readers : reader'[q].at \in WithTable => reader'[q].table \in Handles
    BY Zenon, <1>6, <1>7, HandleOf
  <2>2. \A u \in Threads : \A m \in DOMAIN core'[u].tables.entries :
           core'[u].tables.entries[m].value \in Handles
    BY Zenon, <1>2, HandleOf
  <2> QED
    BY Zenon, <2>1, <2>2, HandlesIn
<1>11. Identified'
  <2> DEFINE key == <<h[2], o>>
             b == <<h[1], o>>
  <2>1. key[1] = h[2] /\ key[2] = o /\ b = <<h[1], key[2]>>
    OBVIOUS
  <2>2. /\ DOMAIN blocks'.entries \subseteq DOMAIN blocks.entries \cup {key}
        /\ \A j \in DOMAIN blocks'.entries : \/ j = key /\ blocks'.entries[j].value = b
                                             \/ /\ j \in DOMAIN blocks.entries
                                                /\ blocks'.entries[j] = blocks.entries[j]
    BY Zenon, <1>3, <1>4 DEF Inserted
  <2> HIDE DEF key, b, h
  <2> QED
    BY <1>2, <1>6, <1>10, <2>1, <2>2 DEF ReadInv, Identified
<1> QED
  BY Zenon, <1>1, <1>8, <1>9, <1>11, ReaderStepKeeps DEF ReadInv

(* Blocks leave the cache. *)
LEMMA PruneReadInv == ASSUME ReadInv, PruneBlocks PROVE ReadInv'
<1>1. UNCHANGED <<stage, core, reader, files, meta, ids>> /\ blocks' = Prune(blocks, {})
  BY Zenon DEF PruneBlocks
<1>2. DOMAIN blocks' = ShardFields /\ IsRestriction(blocks'.entries, blocks.entries)
  BY Zenon, <1>1, PruneIs
<1>3. Shaped' /\ OnDisk' /\ Reading'
  BY Zenon, <1>1, <1>2 DEF ReadInv, Shaped, OnDisk, Reading
<1>4. Pinned' /\ Cached'
  BY Zenon, <1>1 DEF ReadInv, Pinned, Cached, Iterators
<1>5. Handles' \subseteq Handles
  BY <1>1 DEF Handles
<1>6. Identified'
  BY Zenon, <1>1, <1>2, <1>5, IdentifiedKept DEF ReadInv
<1> QED
  BY Zenon, <1>3, <1>4, <1>6 DEF ReadInv

-----------------------------------------------------------------------------
(* What Install does to the core and the files, in full. *)
Installed(t, gone, v) ==
    /\ DOMAIN core' = Threads /\ \A u \in Threads \ {t} : core'[u] = core[u]
    /\ core'[t].version = v /\ core'[t].attached = core[t].attached
    /\ DOMAIN core'[t].tables = ShardFields
    /\ core'[t].tables.entries = Without(core[t].tables.entries, gone)
    /\ \/ Iterators(t) = {} /\ core'[t].obsolete = core[t].obsolete
       \/ Iterators(t) # {} /\ core'[t].obsolete = core[t].obsolete \cup gone
    /\ \/ files' = With(Without(files, gone), core[t].next, made + 1) /\ Iterators(t) = {}
       \/ files' = With(files, core[t].next, made + 1)
    /\ meta'.tables = IF core[t].attached THEN v ELSE meta.tables

LEMMA InstallIs ==
    ASSUME Inv, ReadInv, NEW t \in Threads, NEW gone, Install(t, gone),
           NEW v, v = With(Without(core[t].version, gone), core[t].next, made + 1)
    PROVE  Installed(t, gone, v)
<1> DEFINE c == [core[t] EXCEPT !.version = v, !.next = core[t].next + 1]
           s == EraseAll(core[t].tables, gone)
<1>1. /\ DOMAIN c = CoreFields /\ c.version = v /\ c.attached = core[t].attached
      /\ c.obsolete = core[t].obsolete /\ c.tables = core[t].tables
  BY Zenon DEF Inv, TypeInv, CoreFields
<1>2. DOMAIN s = ShardFields /\ s.entries = Without(core[t].tables.entries, gone)
  BY Zenon, EraseAllIs
<1>3. Retire(t, gone, core[t].next, c)
  BY Zenon DEF Install
<1> HIDE DEF c
<1>4. \/ /\ Iterators(t) = {} /\ core' = [core EXCEPT ![t] = [c EXCEPT !.tables = s]]
         /\ files' = With(Without(files, gone), core[t].next, made + 1)
      \/ /\ Iterators(t) # {}
         /\ core' = [core EXCEPT ![t] = [c EXCEPT !.tables = s, !.obsolete = c.obsolete \cup gone]]
         /\ files' = With(files, core[t].next, made + 1)
  BY Zenon, <1>1, <1>3 DEF Retire, DeleteTables
<1> HIDE DEF s
<1>5. DOMAIN core' = Threads /\ \A u \in Threads \ {t} : core'[u] = core[u]
  BY Zenon, <1>4 DEF Inv, TypeInv
<1>6. \/ /\ Iterators(t) = {} /\ core'[t] = [c EXCEPT !.tables = s]
      \/ /\ Iterators(t) # {} /\ core'[t] = [c EXCEPT !.tables = s, !.obsolete = c.obsolete \cup gone]
  BY Zenon, <1>4 DEF Inv, TypeInv
<1>7. /\ core'[t].version = v /\ core'[t].attached = core[t].attached /\ core'[t].tables = s
      /\ \/ Iterators(t) = {} /\ core'[t].obsolete = core[t].obsolete
         \/ Iterators(t) # {} /\ core'[t].obsolete = core[t].obsolete \cup gone
  <2>1. CASE Iterators(t) = {}
    BY Zenon, <1>1, <1>6, <2>1 DEF CoreFields
  <2>2. CASE Iterators(t) # {}
    <3>1. core'[t] = [c EXCEPT !.tables = s, !.obsolete = c.obsolete \cup gone]
      BY Zenon, <1>6, <2>2
    <3> QED
      BY Zenon, <1>1, <2>2, <3>1 DEF CoreFields
  <2> QED
    BY Zenon, <2>1, <2>2
<1>8. meta'.tables = IF core[t].attached THEN v ELSE meta.tables
  BY Zenon DEF Install
<1> QED
  BY Zenon, <1>2, <1>4, <1>5, <1>7, <1>8 DEF Installed

(* Only one thread has a core with iterators. *)
LEMMA OthersIdle ==
    ASSUME Inv, NEW t \in Threads, stage[t] \in {"open", "closed"}, NEW u \in Threads, u # t
    PROVE  stage[u] \notin {"open", "closed"} /\ Iterators(u) = {}
  BY Zenon, NoIterators, Alone DEF Inv, Holds

(* A flush or a compaction: the number of the new table is nobody's.       *)
LEMMA InstallReadInv ==
    ASSUME Inv, ReadInv, NEW t \in Threads, NEW gone, Install(t, gone)
    PROVE  ReadInv'
<1>1. PICK v : v = With(Without(core[t].version, gone), core[t].next, made + 1)
  OBVIOUS
<1> DEFINE n == core[t].next
           old == core[t].version
           pend == core[t].obsolete
<1>2. UNCHANGED <<stage, reader, blocks, ids>> /\ stage[t] = "open" /\ gone \subseteq DOMAIN old
  BY Zenon DEF Install
<1>3. /\ DOMAIN core' = Threads /\ \A u \in Threads \ {t} : core'[u] = core[u]
      /\ core'[t].version = v /\ core'[t].attached = core[t].attached
      /\ DOMAIN core'[t].tables = ShardFields
      /\ core'[t].tables.entries = Without(core[t].tables.entries, gone)
      /\ \/ Iterators(t) = {} /\ core'[t].obsolete = pend
         \/ Iterators(t) # {} /\ core'[t].obsolete = pend \cup gone
      /\ meta'.tables = IF core[t].attached THEN v ELSE meta.tables
  <2>1. Installed(t, gone, v)
    BY Zenon, <1>1, InstallIs
  <2> QED
    BY Zenon, <2>1 DEF Installed
<1>4. /\ n \in DOMAIN files' /\ files'[n] = made + 1
      /\ \A m \in DOMAIN files' : m # n => m \in DOMAIN files /\ files'[m] = files[m]
  <2>1. \/ files' = With(Without(files, gone), n, made + 1)
        \/ files' = With(files, n, made + 1)
    BY Zenon, <1>1, InstallIs DEF Installed
  <2>2. CASE files' = With(files, n, made + 1)
    BY Zenon, <2>2 DEF With
  <2>3. CASE files' = With(Without(files, gone), n, made + 1)
    <3>1. DOMAIN Without(files, gone) \subseteq DOMAIN files /\ \A m \in DOMAIN Without(files, gone) : Without(files, gone)[m] = files[m]
      BY Zenon DEF Without, Restrict
    <3> QED
      BY Zenon, <2>3, <3>1 DEF With
  <2> QED
    BY Zenon, <2>1, <2>2, <2>3
<1>5. /\ DOMAIN v = (DOMAIN old \ gone) \cup {n} /\ v[n] = made + 1
      /\ \A m \in DOMAIN v : m # n => m \in DOMAIN old /\ v[m] = old[m]
  BY Zenon, <1>1 DEF With, Without, Restrict
<1>6. n \notin DOMAIN old \cup pend
  BY DEF Inv, AllNumbered, Numbered, Below
<1>7. \A u \in Threads : u # t => stage[u] \notin {"open", "closed"} /\ Iterators(u) = {}
  BY Zenon, <1>2, OthersIdle
<1> HIDE DEF n, old, pend
<1>8. Shaped'
  BY Zenon, <1>2, <1>3 DEF ReadInv, Shaped
<1>9. Agree(old, files) /\ (~core[t].attached => DOMAIN meta.tables = {})
  BY Zenon, <1>2 DEF ReadInv, OnDisk, old
<1>10. Agree(v, files')
  BY Zenon, <1>4, <1>5, <1>9 DEF Agree
<1>11. OnDisk'
  <2>1. Agree(meta'.tables, files')
    BY Zenon, <1>3, <1>9, <1>10 DEF Agree
  <2> QED
    BY Zenon, <1>2, <1>3, <1>7, <1>9, <1>10, <2>1 DEF OnDisk
<1>12. \A u \in Threads : Iterators(u)' = Iterators(u)
  BY Zenon, <1>2 DEF Iterators
<1>13. ASSUME NEW r \in Iterators(t)
       PROVE  /\ DOMAIN reader[r].pins \subseteq DOMAIN core'[t].version \cup core'[t].obsolete
              /\ Agree(reader[r].pins, v) /\ Agree(reader[r].pins, files')
              /\ \A q \in Iterators(t) : Agree(reader[r].pins, reader[q].pins)
  <2>1. /\ DOMAIN reader[r].pins \subseteq DOMAIN old \cup pend
        /\ Agree(reader[r].pins, old) /\ Agree(reader[r].pins, files)
        /\ \A q \in Iterators(t) : Agree(reader[r].pins, reader[q].pins)
    BY Zenon, <1>13 DEF ReadInv, Pinned, old, pend
  <2>2. DOMAIN reader[r].pins \subseteq DOMAIN core'[t].version \cup core'[t].obsolete
    BY Zenon, <1>3, <1>5, <1>13, <2>1
  <2>3. Agree(reader[r].pins, v)
    BY Zenon, <1>5, <1>6, <2>1 DEF Agree
  <2>4. Agree(reader[r].pins, files')
    BY Zenon, <1>4, <1>6, <2>1 DEF Agree
  <2> QED
    BY Zenon, <2>1, <2>2, <2>3, <2>4
<1>14. Pinned'
  <2>1. ASSUME NEW u \in Threads, NEW r \in Iterators(u)'
        PROVE  /\ DOMAIN reader'[r].pins \subseteq DOMAIN core'[u].version \cup core'[u].obsolete
               /\ Agree(reader'[r].pins, core'[u].version) /\ Agree(reader'[r].pins, files')
               /\ \A q \in Iterators(u)' : Agree(reader'[r].pins, reader'[q].pins)
    <3>1. u = t /\ r \in Iterators(t)
      BY Zenon, <1>7, <1>12, <2>1
    <3> QED
      BY Zenon, <1>2, <1>3, <1>12, <1>13, <3>1
  <2> QED
    BY Zenon, <2>1 DEF Pinned
<1>15. Cached'
  <2>1. ASSUME NEW u \in Threads
        PROVE  /\ DOMAIN core'[u].tables.entries \subseteq DOMAIN core'[u].version \cup core'[u].obsolete
               /\ Agree(Contents(core'[u].tables), core'[u].version)
               /\ \A r \in Iterators(u)' : Agree(Contents(core'[u].tables), reader'[r].pins)
    <3>1. CASE u # t
      BY Zenon, <1>3, <1>7, <1>12, <3>1 DEF ReadInv, Cached
    <3>2. CASE u = t
      <4> DEFINE e == core[t].tables.entries
                 f == core'[t].tables.entries
      <4>1. DOMAIN f = DOMAIN e \ gone /\ \A m \in DOMAIN f : f[m] = e[m]
        BY Zenon, <1>3 DEF Without, Restrict
      <4>2. /\ DOMAIN e \subseteq DOMAIN old \cup pend
            /\ \A m \in DOMAIN e : m \in DOMAIN old => e[m].value[1] = old[m]
            /\ \A r \in Iterators(t) : \A m \in DOMAIN e : m \in DOMAIN reader[r].pins =>
                  e[m].value[1] = reader[r].pins[m]
        <5>1. /\ DOMAIN core[t].tables.entries \subseteq DOMAIN old \cup pend
              /\ Agree(Contents(core[t].tables), old)
              /\ \A r \in Iterators(t) : Agree(Contents(core[t].tables), reader[r].pins)
          BY Zenon DEF ReadInv, Cached, old, pend
        <5>2. \A f1 : Agree(Contents(core[t].tables), f1) =>
                 \A m \in DOMAIN e : m \in DOMAIN f1 => e[m].value[1] = f1[m]
          BY Zenon, ContentsAgree
        <5> QED
          BY Zenon, <5>1, <5>2
      <4> HIDE DEF e, f
      <4>3. DOMAIN f \subseteq DOMAIN v \cup core'[t].obsolete
        BY Zenon, <1>3, <1>5, <4>1, <4>2
      <4>4. \A m \in DOMAIN f : m \in DOMAIN v => f[m].value[1] = v[m]
        BY Zenon, <1>5, <1>6, <4>1, <4>2
      <4>5. \A r \in Iterators(t) : \A m \in DOMAIN f : m \in DOMAIN reader[r].pins =>
               f[m].value[1] = reader[r].pins[m]
        BY <4>1, <4>2
      <4>6. Agree(Contents(core'[t].tables), v)
        BY Zenon, <4>4, ContentsAgree DEF f
      <4>7. \A r \in Iterators(t) : Agree(Contents(core'[t].tables), reader[r].pins)
        BY Zenon, <4>5, ContentsAgree DEF f
      <4> QED
        BY Zenon, <1>2, <1>3, <1>12, <3>2, <4>3, <4>6, <4>7 DEF f
    <3> QED
      BY Zenon, <3>1, <3>2
  <2> QED
    BY Zenon, <2>1 DEF Cached
<1>16. Reading'
  BY Zenon, <1>2 DEF ReadInv, Reading
<1>17. Handles' \subseteq Handles
  <2>1. \A r \in Readers : reader'[r].at \in WithTable => reader'[r].table \in Handles
    BY Zenon, <1>2, HandleOf
  <2>2. \A u \in Threads : \A m \in DOMAIN core'[u].tables.entries :
           core'[u].tables.entries[m].value \in Handles
    BY <1>3, HandleOf DEF Without, Restrict
  <2> QED
    BY Zenon, <2>1, <2>2, HandlesIn
<1>18. Identified'
  <2>1. IsRestriction(blocks'.entries, blocks.entries)
    BY Zenon, <1>2 DEF IsRestriction
  <2> QED
    BY Zenon, <1>2, <1>17, <2>1, IdentifiedKept DEF ReadInv
<1> QED
  BY Zenon, <1>8, <1>11, <1>14, <1>15, <1>16, <1>18 DEF ReadInv

-----------------------------------------------------------------------------
(* release_iterator, of a handle that is left: the last one takes what was *)
(* only kept for iterators out of the cache and off the disk.              *)
LEMMA ReleaseLeaves ==
    ASSUME Inv, ReadInv, NEW r \in Readers, NEW t \in Threads, reader[r].of = t,
           reader'[r] = NoReader, \A q \in Readers \ {r} : reader'[q] = reader[q],
           UNCHANGED <<stage, meta, blocks, ids>>,
           DOMAIN core' = Threads, \A u \in Threads \ {t} : core'[u] = core[u],
           core'[t].version = core[t].version, core'[t].attached = core[t].attached,
           DOMAIN core'[t].tables = ShardFields,
           \/ /\ core'[t].tables.entries = core[t].tables.entries
              /\ core'[t].obsolete = core[t].obsolete /\ files' = files
           \/ /\ core'[t].tables.entries = Without(core[t].tables.entries, core[t].obsolete)
              /\ Iterators(t) = {r} /\ files' = Without(files, core[t].obsolete)
    PROVE  ReadInv'
<1>1. NoReader.at = "none" /\ NoReader.of = NoThread
  BY Zenon DEF NoReader
<1>2. Shaped'
  BY <1>1 DEF ReadInv, Shaped, Ats
<1>3. IsRestriction(files', files)
  BY Zenon DEF IsRestriction, Without, Restrict
<1>4. \A f : Agree(f, files) => Agree(f, files')
  BY Zenon, <1>3 DEF Agree, IsRestriction
<1>5. OnDisk'
  BY Zenon, <1>4 DEF ReadInv, OnDisk
<1>6. \A u \in Threads : Iterators(u)' = Iterators(u) \ {r} /\ Iterators(u) \subseteq Readers
  BY <1>1, OpenFilesAssumption DEF Iterators
<1>7. \A u \in Threads : \A q \in Iterators(u)' :
         /\ q \in Iterators(u) /\ reader'[q] = reader[q]
         /\ core'[u].version = core[u].version /\ core'[u].obsolete = core[u].obsolete
  BY Zenon, <1>6
<1>8. Pinned'
  <2>1. ASSUME NEW u \in Threads, NEW q \in Iterators(u)'
        PROVE  /\ DOMAIN reader'[q].pins \subseteq DOMAIN core'[u].version \cup core'[u].obsolete
               /\ Agree(reader'[q].pins, core'[u].version) /\ Agree(reader'[q].pins, files')
               /\ \A p \in Iterators(u)' : Agree(reader'[q].pins, reader'[p].pins)
    BY Zenon, <1>4, <1>7, <2>1 DEF ReadInv, Pinned
  <2> QED
    BY Zenon, <2>1 DEF Pinned
<1>9. /\ DOMAIN core'[t].tables.entries \subseteq DOMAIN core[t].tables.entries
      /\ \A n \in DOMAIN core'[t].tables.entries :
            core'[t].tables.entries[n] = core[t].tables.entries[n]
      /\ DOMAIN core'[t].tables.entries \subseteq DOMAIN core[t].version \cup core'[t].obsolete
  <2>1. DOMAIN core[t].tables.entries \subseteq DOMAIN core[t].version \cup core[t].obsolete
    BY Zenon DEF ReadInv, Cached
  <2> QED
    BY Zenon, <2>1 DEF Without, Restrict
<1>10. \A f : Agree(Contents(core[t].tables), f) => Agree(Contents(core'[t].tables), f)
  <2>1. ASSUME NEW f, Agree(Contents(core[t].tables), f) PROVE Agree(Contents(core'[t].tables), f)
    <3>1. \A n \in DOMAIN core[t].tables.entries : n \in DOMAIN f =>
             core[t].tables.entries[n].value[1] = f[n]
      BY <2>1, ContentsAgree
    <3>2. \A n \in DOMAIN core'[t].tables.entries : n \in DOMAIN f =>
             core'[t].tables.entries[n].value[1] = f[n]
      BY Zenon, <1>9, <3>1
    <3> QED
      BY Zenon, <3>2, ContentsAgree
  <2> QED
    BY Zenon, <2>1
<1>11. Cached'
  <2>1. ASSUME NEW u \in Threads
        PROVE  /\ DOMAIN core'[u].tables.entries \subseteq DOMAIN core'[u].version \cup core'[u].obsolete
               /\ Agree(Contents(core'[u].tables), core'[u].version)
               /\ \A q \in Iterators(u)' : Agree(Contents(core'[u].tables), reader'[q].pins)
    <3>1. CASE u # t
      BY Zenon, <1>7, <3>1 DEF ReadInv, Cached
    <3>2. CASE u = t
      BY Zenon, <1>7, <1>9, <1>10, <3>2 DEF ReadInv, Cached
    <3> QED
      BY Zenon, <3>1, <3>2
  <2> QED
    BY Zenon, <2>1 DEF Cached
<1>12. Reading'
  BY Zenon, <1>1 DEF ReadInv, Reading, WithTable
<1>13. Handles' \subseteq Handles
  <2>1. \A q \in Readers : reader'[q].at \in WithTable => reader'[q].table \in Handles
    BY Zenon, <1>1, HandleOf DEF WithTable
  <2>2. \A u \in Threads : \A m \in DOMAIN core'[u].tables.entries :
           core'[u].tables.entries[m].value \in Handles
    BY <1>9, HandleOf
  <2> QED
    BY Zenon, <2>1, <2>2, HandlesIn
<1>14. Identified'
  <2>1. IsRestriction(blocks'.entries, blocks.entries)
    BY Zenon DEF IsRestriction
  <2> QED
    BY Zenon, <1>13, <2>1, IdentifiedKept DEF ReadInv
<1> QED
  BY Zenon, <1>2, <1>5, <1>8, <1>11, <1>12, <1>14 DEF ReadInv

LEMMA ReleaseReadInv ==
    ASSUME Inv, ReadInv, NEW r \in Readers, Release(r)
    PROVE  ReadInv'
<1>1. PICK t \in Threads : t = reader[r].of
  BY Zenon DEF Inv, Held, Release
<1> DEFINE s == EraseAll(core[t].tables, core[t].obsolete)
<1>2. DOMAIN s = ShardFields /\ s.entries = Without(core[t].tables.entries, core[t].obsolete)
  BY Zenon, EraseAllIs
<1>3. /\ reader' = [reader EXCEPT ![r] = NoReader] /\ UNCHANGED <<meta, blocks, ids>>
      /\ files' = IF Iterators(t) = {r} THEN Without(files, core[t].obsolete) ELSE files
  BY <1>1, Zenon DEF Release, DeleteTables
<1>4. \/ /\ Iterators(t) = {r} /\ stage' = [stage EXCEPT ![t] = "idle"]
         /\ core' = [core EXCEPT ![t] = NoCore]
      \/ /\ UNCHANGED stage /\ Iterators(t) = {r}
         /\ core' = [core EXCEPT ![t].tables = s, ![t].obsolete = {}]
      \/ UNCHANGED <<stage, core>> /\ Iterators(t) # {r}
  BY <1>1, Zenon DEF Release, DeleteTables
<1> HIDE DEF s
<1>5. reader'[r] = NoReader /\ \A q \in Readers \ {r} : reader'[q] = reader[q]
  BY Zenon, <1>3 DEF Inv, TypeInv
<1>6. CASE /\ Iterators(t) = {r} /\ stage' = [stage EXCEPT ![t] = "idle"]
           /\ core' = [core EXCEPT ![t] = NoCore]
  <2>1. IsRestriction(files', files)
    BY Zenon, <1>3 DEF IsRestriction, Without, Restrict
  <2>2. Iterators(t)' = {}
    BY <1>5, <1>6, OpenFilesAssumption DEF Iterators, NoReader
  <2>3. /\ DOMAIN core' = Threads /\ core'[t].tables = EmptyShard
        /\ stage'[t] \notin {"open", "closed"}
        /\ \A u \in Threads \ {t} : core'[u] = core[u] /\ stage'[u] = stage[u]
    BY Zenon, <1>6 DEF Inv, TypeInv, NoCore
  <2>4. \A q \in Readers : reader'[q] = reader[q] \/ reader'[q] = NoReader
    BY Zenon, <1>5
  <2>5. UNCHANGED <<blocks, ids>> /\ meta'.tables = meta.tables
    BY Zenon, <1>3
  <2> QED
    BY Zenon, <2>1, <2>2, <2>3, <2>4, <2>5, NewCoreReadInv
<1>7. CASE /\ UNCHANGED stage /\ Iterators(t) = {r}
           /\ core' = [core EXCEPT ![t].tables = s, ![t].obsolete = {}]
  <2>1. /\ DOMAIN core' = Threads /\ \A u \in Threads \ {t} : core'[u] = core[u]
        /\ core'[t].version = core[t].version /\ core'[t].attached = core[t].attached
        /\ core'[t].tables = s
    BY Zenon, <1>7 DEF Inv, TypeInv, CoreFields
  <2>2. /\ core'[t].tables.entries = Without(core[t].tables.entries, core[t].obsolete)
        /\ DOMAIN core'[t].tables = ShardFields
        /\ files' = Without(files, core[t].obsolete)
        /\ UNCHANGED <<stage, meta, blocks, ids>> /\ reader[r].of = t
        /\ Iterators(t) = {r}
    BY Zenon, <1>1, <1>2, <1>3, <1>7, <2>1
  <2> QED
    BY Zenon, <1>5, <2>1, <2>2, ReleaseLeaves
<1>8. CASE UNCHANGED <<stage, core>> /\ Iterators(t) # {r}
  <2>1. DOMAIN core = Threads /\ DOMAIN core[t].tables = ShardFields
    BY Zenon DEF Inv, TypeInv, ReadInv, Shaped
  <2> QED
    BY Zenon, <1>1, <1>3, <1>5, <1>8, <2>1, ReleaseLeaves
<1> QED
  BY Zenon, <1>4, <1>6, <1>7, <1>8

(* Every step keeps it. *)
LEMMA NextReadInv == Inv /\ ReadInv /\ [Next]_vars => ReadInv'
<1> SUFFICES ASSUME Inv, ReadInv, [Next]_vars PROVE ReadInv'
  OBVIOUS
<1>1. ASSUME NEW t \in Threads,
             \/ LockForOpen(t) \/ Recover(t) \/ OpenFails(t) \/ Close(t)
             \/ ListDir(t) \/ LockForDestroy(t) \/ UnlockDestroy(t) \/ RemoveDir(t)
      PROVE  ReadInv'
  BY Zenon, <1>1, StageReadInv, RecoverReadInv, CloseReadInv, RemoveDirReadInv
<1>2. ASSUME NEW t \in Threads, NEW gone \in SUBSET DOMAIN core[t].version, Install(t, gone)
      PROVE  ReadInv'
  BY Zenon, <1>2, InstallReadInv
<1>3. ASSUME NEW t \in Threads, NEW entry \in listing[t], DeleteEntry(t, entry)
      PROVE  ReadInv'
  BY Zenon, <1>3, DeleteEntryReadInv
<1>4. ASSUME NEW r \in Readers, NEW t \in Threads, NewIterator(r, t) PROVE ReadInv'
  BY Zenon, <1>4, NewIteratorReadInv
<1>5. ASSUME NEW r \in Readers, Reads(r) PROVE ReadInv'
  BY Zenon, <1>5, FindTableReadInv, OpenTableReadInv, FailsReadInv, InsertTableReadInv,
     FindBlockReadInv, ReadBlockReadInv DEF Reads
<1>6. ASSUME NEW r \in Readers, Release(r) PROVE ReadInv'
  BY Zenon, <1>6, ReleaseReadInv
<1>7. CASE PruneBlocks
  BY Zenon, <1>7, PruneReadInv
<1>8. CASE UNCHANGED vars
  <2>1. UNCHANGED <<core, reader, files, meta, blocks, ids, stage>>
    BY Zenon, <1>8 DEF vars
  <2>2. IsRestriction(files', files)
    BY Zenon, <2>1 DEF IsRestriction
  <2> QED
    BY Zenon, <2>1, <2>2, ShrinksReadInv
<1> QED
  BY Zenon, <1>1, <1>2, <1>3, <1>4, <1>5, <1>6, <1>7, <1>8 DEF Next, Reads

(***************************************************************************)
(* Whatever is compacted, evicted, destroyed, reopened or read by others   *)
(* meanwhile, a block that an iterator gets is the block at that offset of *)
(* the table that its version lists under that number.                     *)
(***************************************************************************)
THEOREM BlocksRight == Spec => []RightBlocks
<1>1. ReadInv => RightBlocks
  BY Zenon DEF ReadInv, Reading, RightBlocks, WithTable
<1> QED
  BY <1>1, Invariance, InitReadInv, NextReadInv, PTL DEF Spec

(***************************************************************************)
(* The table cache holds no table that was deleted.                        *)
(***************************************************************************)
THEOREM NoneDeleted == Spec => []NoDeletedTables
<1>1. ReadInv => NoDeletedTables
  BY Zenon DEF ReadInv, Cached, NoDeletedTables
<1> QED
  BY <1>1, Invariance, InitReadInv, NextReadInv, PTL DEF Spec
=============================================================================
