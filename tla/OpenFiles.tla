------------------------------ MODULE OpenFiles ------------------------------
(***************************************************************************)
(* What the threads of one process hold of a database directory: the LOCK  *)
(* entry (src/env/env.rs), the core of an open handle with its table cache *)
(* (src/table_cache/table_cache.rs), iterators that read tables through    *)
(* it without the database mutex, the block cache that all handles share   *)
(* (src/table/table.rs), the retirement of tables (src/db_impl/db_impl.rs) *)
(* and destroy_db (src/destroy/destroy.rs).                                *)
(*                                                                         *)
(* A table's content is a number that no other table ever has.  A block is *)
(* the content of its table and its offset.                                *)
(***************************************************************************)
EXTENDS Cache

CONSTANTS
    Threads,        \* threads that open, close and destroy the database
    Readers,        \* iterators that may exist at one time
    NoThread,       \* the LOCK entry is not in the table
    BlockSize,      \* a table's block offsets, each with the size of its block
    TableCapacity,  \* of the shard of the table cache
    BlockCapacity,  \* of the shard of the block cache
    MaxTables,      \* bound: tables ever written
    MaxOpens,       \* bound: tables ever opened
    MaxDestroys     \* bound: calls of destroy_db

ASSUME OpenFilesAssumption ==
    /\ NoThread \notin Threads
    /\ TableCapacity \in Nat /\ BlockCapacity \in Nat
    /\ MaxTables \in Nat /\ MaxOpens \in Nat /\ MaxDestroys \in Nat

Offsets == DOMAIN BlockSize

VARIABLES
    lock,      \* who inserted the path into the table of locks
    stage,     \* what each thread is doing
    core,      \* DBImplCore of each thread that opened the database
    reader,    \* each iterator
    files,     \* table files in the directory: number to content
    meta,      \* what CURRENT and the MANIFEST say
    listing,   \* entries destroy_db has yet to delete; 0 stands for CURRENT and MANIFEST
    blocks,    \* the shard of the block cache
    made,      \* tables written so far
    ids,       \* next_id of the block cache
    destroys   \* calls of destroy_db so far

vars == <<lock, stage, core, reader, files, meta, listing, blocks, made, ids, destroys>>

NoMeta == [tables |-> <<>>, next |-> 0]   \* no CURRENT
NoCore == [version |-> <<>>, next |-> 1, attached |-> FALSE,
           tables |-> EmptyShard, obsolete |-> {}]
NoReader == [at |-> "none", of |-> NoThread, pins |-> <<>>, number |-> 0,
             table |-> <<0, 0>>, offset |-> 0, block |-> <<0, 0>>]

Init ==
    /\ lock = NoThread
    /\ stage = [t \in Threads |-> "idle"]
    /\ core = [t \in Threads |-> NoCore]
    /\ reader = [r \in Readers |-> NoReader]
    /\ files = <<>> /\ meta = NoMeta
    /\ listing = [t \in Threads |-> {}]
    /\ blocks = EmptyShard
    /\ made = 0 /\ ids = 1 /\ destroys = 0

Iterators(t) == {r \in Readers : reader[r].of = t}

-----------------------------------------------------------------------------
(* Opening and closing.                                                    *)

(* DBImpl::open takes the LOCK; a path that is in the table is an error. *)
LockForOpen(t) ==
    /\ stage[t] = "idle" /\ lock = NoThread
    /\ lock' = t
    /\ stage' = [stage EXCEPT ![t] = "opening"]
    /\ UNCHANGED <<core, reader, files, meta, listing, blocks, made, ids, destroys>>

(* The rest of open: the version of the MANIFEST, or a new database, and a *)
(* table cache of its own.  Tables that the version does not list stay.    *)
Recover(t) ==
    /\ stage[t] = "opening"
    /\ stage' = [stage EXCEPT ![t] = "open"]
    /\ meta' = [meta EXCEPT !.next = IF meta = NoMeta THEN 1 ELSE @]
    /\ core' = [core EXCEPT ![t] = [NoCore EXCEPT !.version = meta.tables,
                                                  !.next = meta'.next,
                                                  !.attached = TRUE]]
    /\ UNCHANGED <<lock, reader, files, listing, blocks, made, ids, destroys>>

(* Any error of open drops the LOCK. *)
OpenFails(t) ==
    /\ stage[t] = "opening"
    /\ stage' = [stage EXCEPT ![t] = "idle"]
    /\ lock' = NoThread
    /\ UNCHANGED <<core, reader, files, meta, listing, blocks, made, ids, destroys>>

(* Mutant: the handle gives the LOCK back although iterators hold the core. *)
CloseUnlocks(t) ==
    /\ stage[t] = "open"
    /\ lock' = NoThread
    /\ IF Iterators(t) = {}
       THEN stage' = [stage EXCEPT ![t] = "idle"] /\ core' = [core EXCEPT ![t] = NoCore]
       ELSE stage' = [stage EXCEPT ![t] = "closed"] /\ UNCHANGED core
    /\ UNCHANGED <<reader, files, meta, listing, blocks, made, ids, destroys>>

(* The handle is dropped.  Its core, and the LOCK in it, lives as long as  *)
(* an iterator.                                                            *)
Close(t) ==
    /\ stage[t] = "open"
    /\ IF Iterators(t) = {}
       THEN /\ stage' = [stage EXCEPT ![t] = "idle"]
            /\ core' = [core EXCEPT ![t] = NoCore]
            /\ lock' = NoThread
       ELSE /\ stage' = [stage EXCEPT ![t] = "closed"]
            /\ UNCHANGED <<core, lock>>
    /\ UNCHANGED <<reader, files, meta, listing, blocks, made, ids, destroys>>

-----------------------------------------------------------------------------
(* The tables of a version.                                                *)

(* Mutant: the file goes and the table cache is not told. *)
DeleteKeepsTables(c, numbers) == [tables |-> c.tables, files |-> Without(files, numbers)]

(* delete_table_file_numbers: out of the table cache, then off the disk. *)
DeleteTables(c, numbers) ==
    [tables |-> EraseAll(c.tables, numbers), files |-> Without(files, numbers)]

(* retire_table_file_numbers, after the version that lists the new table n *)
(* was installed in c.                                                     *)
Retire(t, numbers, n, c) ==
    IF Iterators(t) = {}
    THEN LET d == DeleteTables(c, numbers)
         IN  /\ core' = [core EXCEPT ![t] = [c EXCEPT !.tables = d.tables]]
             /\ files' = With(d.files, n, made + 1)
    ELSE /\ core' = [core EXCEPT ![t] = [c EXCEPT !.tables = EraseAll(@, numbers),
                                                  !.obsolete = @ \cup numbers]]
         /\ files' = With(files, n, made + 1)

(* A flush (gone is empty) or a compaction writes a table, installs a      *)
(* version and retires the inputs.  The MANIFEST that the core holds open  *)
(* is the directory's until the directory is removed.                      *)
Install(t, gone) ==
    /\ stage[t] = "open" /\ made < MaxTables
    /\ gone \subseteq DOMAIN core[t].version /\ Cardinality(gone) <= 1
    /\ LET n == core[t].next
           v == With(Without(core[t].version, gone), n, made + 1)
       IN  /\ Retire(t, gone, n, [core[t] EXCEPT !.version = v, !.next = n + 1])
           /\ meta' = IF core[t].attached THEN [tables |-> v, next |-> n + 1] ELSE meta
    /\ made' = made + 1
    /\ UNCHANGED <<lock, stage, reader, listing, blocks, ids, destroys>>

-----------------------------------------------------------------------------
(* Iterators.  A step of one is what happens between two of the locks of   *)
(* the caches.                                                             *)

NewIterator(r, t) ==
    /\ reader[r].at = "none" /\ stage[t] = "open"
    /\ reader' = [reader EXCEPT ![r] = [NoReader EXCEPT !.at = "ready", !.of = t,
                                                        !.pins = core[t].version]]
    /\ UNCHANGED <<lock, stage, core, files, meta, listing, blocks, made, ids, destroys>>

(* find_table: the lookup. *)
FindTable(r, n) ==
    LET t == reader[r].of
        x == [NoReader EXCEPT !.of = t, !.pins = reader[r].pins, !.number = n]
    IN
    /\ reader[r].at \in {"ready", "got"} /\ n \in DOMAIN reader[r].pins
    /\ IF Has(core[t].tables, n)
       THEN /\ reader' = [reader EXCEPT ![r] = [x EXCEPT !.at = "table",
                                            !.table = ValueOf(core[t].tables, n)]]
            /\ core' = [core EXCEPT ![t].tables = Touch(@, n)]
       ELSE /\ reader' = [reader EXCEPT ![r] = [x EXCEPT !.at = "miss"]]
            /\ UNCHANGED core
    /\ UNCHANGED <<lock, stage, files, meta, listing, blocks, made, ids, destroys>>

(* Mutant: blocks are cached under the number of the table. *)
OpenTableByNumber(r) ==
    LET n == reader[r].number IN
    /\ reader[r].at = "miss" /\ n \in DOMAIN files /\ ids <= MaxOpens
    /\ reader' = [reader EXCEPT ![r].at = "opened", ![r].table = <<files[n], n>>]
    /\ ids' = ids + 1
    /\ UNCHANGED <<lock, stage, core, files, meta, listing, blocks, made, destroys>>

(* find_table after a miss: the table is opened, with a cache_id of its own. *)
OpenTable(r) ==
    LET n == reader[r].number IN
    /\ reader[r].at = "miss" /\ n \in DOMAIN files /\ ids <= MaxOpens
    /\ reader' = [reader EXCEPT ![r].at = "opened", ![r].table = <<files[n], ids>>]
    /\ ids' = ids + 1
    /\ UNCHANGED <<lock, stage, core, files, meta, listing, blocks, made, destroys>>

(* The file is gone, or cannot be read. *)
OpenTableFails(r) ==
    /\ reader[r].at = "miss"
    /\ reader' = [reader EXCEPT ![r].at = "ready", ![r].number = 0]
    /\ UNCHANGED <<lock, stage, core, files, meta, listing, blocks, made, ids, destroys>>

(* find_table: the table goes into the cache, whoever else put it there. *)
InsertTable(r) ==
    LET t == reader[r].of IN
    /\ reader[r].at = "opened"
    /\ core' = [core EXCEPT ![t].tables =
                    Insert(@, reader[r].number, reader[r].table, 1, TableCapacity)]
    /\ reader' = [reader EXCEPT ![r].at = "table"]
    /\ UNCHANGED <<lock, stage, files, meta, listing, blocks, made, ids, destroys>>

(* read_block_cached_full: the lookup.  The iterator over a table keeps    *)
(* the table, and reads one block of it after the other.                   *)
FindBlock(r, offset) ==
    LET key == <<reader[r].table[2], offset>> IN
    /\ reader[r].at \in {"table", "got"}
    /\ IF Has(blocks, key)
       THEN /\ reader' = [reader EXCEPT ![r].at = "got", ![r].offset = offset,
                                        ![r].block = ValueOf(blocks, key)]
            /\ blocks' = Touch(blocks, key)
       ELSE /\ reader' = [reader EXCEPT ![r].at = "fetch", ![r].offset = offset,
                                        ![r].block = <<0, 0>>]
            /\ UNCHANGED blocks
    /\ UNCHANGED <<lock, stage, core, files, meta, listing, made, ids, destroys>>

(* read_block_cached_full after a miss: from the open file, which outlives *)
(* its name, into the cache if fill_cache is set.                          *)
ReadBlock(r, fill) ==
    LET offset == reader[r].offset
        block == <<reader[r].table[1], offset>>
    IN  /\ reader[r].at = "fetch"
        /\ reader' = [reader EXCEPT ![r].at = "got", ![r].block = block]
        /\ blocks' = IF fill
                     THEN Insert(blocks, <<reader[r].table[2], offset>>, block,
                                 BlockSize[offset], BlockCapacity)
                     ELSE blocks
        /\ UNCHANGED <<lock, stage, core, files, meta, listing, made, ids, destroys>>

(* The block cannot be read, or fails its checksum. *)
ReadBlockFails(r) ==
    /\ reader[r].at = "fetch"
    /\ reader' = [reader EXCEPT ![r].at = "table", ![r].offset = 0]
    /\ UNCHANGED <<lock, stage, core, files, meta, listing, blocks, made, ids, destroys>>

(* The iterator is dropped: release_iterator deletes what only iterators   *)
(* still needed, and the last owner of a closed handle's core drops it.    *)
Release(r) ==
    LET t == reader[r].of
        last == Iterators(t) = {r}
        d == DeleteTables(core[t], core[t].obsolete)
    IN  /\ reader[r].at \in {"ready", "table", "got"}
        /\ reader' = [reader EXCEPT ![r] = NoReader]
        /\ files' = IF last THEN d.files ELSE files
        /\ IF last /\ stage[t] = "closed"
           THEN /\ stage' = [stage EXCEPT ![t] = "idle"]
                /\ core' = [core EXCEPT ![t] = NoCore]
                /\ lock' = NoThread
           ELSE /\ core' = IF last
                           THEN [core EXCEPT ![t].tables = d.tables, ![t].obsolete = {}]
                           ELSE core
                /\ UNCHANGED <<stage, lock>>
        /\ UNCHANGED <<meta, listing, blocks, made, ids, destroys>>

(* Cache::prune of the shared block cache; no reader keeps a handle of it. *)
PruneBlocks ==
    /\ blocks.entries # <<>>
    /\ blocks' = Prune(blocks, {})
    /\ UNCHANGED <<lock, stage, core, reader, files, meta, listing, made, ids, destroys>>

-----------------------------------------------------------------------------
(* destroy_db.                                                             *)

(* The directory is listed before the LOCK is taken. *)
ListDir(t) ==
    LET entries == DOMAIN files \cup IF meta = NoMeta THEN {} ELSE {0} IN
    /\ stage[t] = "idle" /\ destroys < MaxDestroys /\ entries # {}
    /\ listing' = [listing EXCEPT ![t] = entries]
    /\ stage' = [stage EXCEPT ![t] = "listed"]
    /\ destroys' = destroys + 1
    /\ UNCHANGED <<lock, core, reader, files, meta, blocks, made, ids>>

(* Mutant: destroy_db deletes whoever holds the LOCK. *)
DestroyNoLock(t) ==
    /\ stage[t] = "listed"
    /\ stage' = [stage EXCEPT ![t] = "deleting"]
    /\ UNCHANGED <<lock, core, reader, files, meta, listing, blocks, made, ids, destroys>>

LockForDestroy(t) ==
    /\ stage[t] = "listed"
    /\ IF lock = NoThread
       THEN /\ lock' = t
            /\ stage' = [stage EXCEPT ![t] = "deleting"]
            /\ UNCHANGED listing
       ELSE /\ stage' = [stage EXCEPT ![t] = "idle"]
            /\ listing' = [listing EXCEPT ![t] = {}]
            /\ UNCHANGED lock
    /\ UNCHANGED <<core, reader, files, meta, blocks, made, ids, destroys>>

(* One entry of the listing; one that cannot be deleted is an error that   *)
(* does not stop the loop.                                                 *)
DeleteEntry(t, entry) ==
    /\ stage[t] = "deleting" /\ entry \in listing[t]
    /\ listing' = [listing EXCEPT ![t] = @ \ {entry}]
    /\ \/ files' = Without(files, {entry}) /\ meta' = IF entry = 0 THEN NoMeta ELSE meta
       \/ UNCHANGED <<files, meta>>
    /\ UNCHANGED <<lock, stage, core, reader, blocks, made, ids, destroys>>

(* drop(lock), before the LOCK file and the directory are deleted. *)
UnlockDestroy(t) ==
    /\ stage[t] = "deleting" /\ listing[t] = {}
    /\ lock' = NoThread
    /\ stage' = [stage EXCEPT ![t] = "removing"]
    /\ UNCHANGED <<core, reader, files, meta, listing, blocks, made, ids, destroys>>

(* delete_dir removes whatever the directory holds by now, and detaches    *)
(* the MANIFEST of a core that opened it since.  Its error is ignored.     *)
RemoveDir(t) ==
    /\ stage[t] = "removing"
    /\ \/ /\ files' = <<>> /\ meta' = NoMeta
          /\ core' = [u \in Threads |-> [core[u] EXCEPT !.attached = FALSE]]
       \/ UNCHANGED <<files, meta, core>>
    /\ stage' = [stage EXCEPT ![t] = "idle"]
    /\ UNCHANGED <<lock, reader, listing, blocks, made, ids, destroys>>

-----------------------------------------------------------------------------
Next ==
    \/ \E t \in Threads :
          \/ LockForOpen(t) \/ Recover(t) \/ OpenFails(t) \/ Close(t)
          \/ \E gone \in SUBSET DOMAIN core[t].version : Install(t, gone)
          \/ ListDir(t) \/ LockForDestroy(t) \/ UnlockDestroy(t) \/ RemoveDir(t)
          \/ \E entry \in listing[t] : DeleteEntry(t, entry)
    \/ \E r \in Readers :
          \/ \E t \in Threads : NewIterator(r, t)
          \/ \E n \in DOMAIN reader[r].pins : FindTable(r, n)
          \/ OpenTable(r) \/ OpenTableFails(r) \/ InsertTable(r)
          \/ \E offset \in Offsets : FindBlock(r, offset)
          \/ \E fill \in BOOLEAN : ReadBlock(r, fill)
          \/ ReadBlockFails(r) \/ Release(r)
    \/ PruneBlocks

Spec == Init /\ [][Next]_vars

-----------------------------------------------------------------------------
Holds(t) == stage[t] \in {"opening", "open", "closed", "deleting"}

(***************************************************************************)
(* The directory has one holder: of the handles that are opening, open or  *)
(* closed with iterators left, and of the calls of destroy_db that delete  *)
(* listed entries, there is at most one, and the LOCK table says which.    *)
(***************************************************************************)
OneHolder == \A t \in Threads : Holds(t) <=> lock = t

(***************************************************************************)
(* A block that an iterator gets, from the cache or from the file, is the  *)
(* block at that offset of the table that the iterator's version lists     *)
(* under that number, whatever was compacted, evicted, destroyed, reopened *)
(* or read by others meanwhile (find_table, read_block_cached_full).       *)
(***************************************************************************)
RightBlocks ==
    \A r \in Readers : reader[r].at = "got" =>
        reader[r].block = <<reader[r].pins[reader[r].number], reader[r].offset>>

(***************************************************************************)
(* The table cache holds no table that was deleted: each of its entries is *)
(* a table of the version, or one that is kept for an iterator.  A reader  *)
(* may put a table back after retire_table_file_numbers evicted it, so the *)
(* second eviction, in delete_table_file_numbers, matters.                 *)
(***************************************************************************)
NoDeletedTables ==
    \A t \in Threads :
        DOMAIN core[t].tables.entries \subseteq DOMAIN core[t].version \cup core[t].obsolete

(***************************************************************************)
(* Both caches stay accounted for: usage is the sum of the charges, also   *)
(* when two readers miss and insert the same key, and only a single        *)
(* oversized entry exceeds the capacity (LruShard).                        *)
(***************************************************************************)
CachesAccounted ==
    /\ Accounted(blocks, BlockCapacity)
    /\ \A t \in Threads : Accounted(core[t].tables, TableCapacity)

Needed(t) == DOMAIN core[t].version \cup UNION {DOMAIN reader[r].pins : r \in Iterators(t)}

(***************************************************************************)
(* No step takes away the file of a table that an open handle's version or *)
(* one of its iterators needs, before and after the step; except           *)
(* the last step of destroy_db, which runs without the LOCK.               *)
(***************************************************************************)
NeededFilesStay ==
    [][\A t \in Threads : Holds(t) /\ stage[t] # "deleting" =>
          \/ Needed(t) \cap Needed(t)' \cap DOMAIN files \subseteq DOMAIN files'
          \/ \E u \in Threads : stage[u] = "removing" /\ stage'[u] = "idle"]_vars
=============================================================================
