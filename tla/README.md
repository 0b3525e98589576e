# A TLA+ model of pulsearc-db

pulsearc-db is a LevelDB-style key-value store in Rust: a write-ahead log and a
skip-list memtable in front of table files in levels, a MANIFEST that records
which tables are live, and one background thread that flushes and compacts. This
directory has TLA+ modules for its parts, TLC configurations that check them on
small instances, and TLAPS proofs of the main properties of five of them.
`PROJECT.json` lists components, runs, the source lines of every definition, the
mutants that show each property can fail, hazards and theorems. Paths below are
relative to `src/src/`; `db_impl.rs` is `db_impl/db_impl.rs` and `version_set.rs`
is `version_set/version_set.rs`.

## The system and the modules

| part of the system | source | module | abstract specification |
|---|---|---|---|
| write queue, group commit, WAL, rotation, flush, crash and reopen | `db_impl.rs` | `WritePath` (`MCWritePath`, `WritePathProofs`) | `DurableStore` |
| background thread, `maybe_compact`, `compact_range`, iterators pinning files, `Drop` | `db_impl.rs` | `Background` (`BackgroundProofs`) | |
| levels, compaction, reads, snapshots | `version_set.rs`, `db_impl.rs` | `Levels` (`MCLevels`, `LevelsProofs`) | `Latest` in `Levels` |
| MANIFEST, CURRENT, `log_and_apply`, `recover`, `open`, `repair_db` | `version_set/`, `filename/`, `db_impl.rs`, `repair/` | `Manifest` (`ManifestSteps`, `ManifestProofs`) | |
| `DBIter` over `MergingIterator` over `TwoLevelIterator`s | `db_iter/`, `merging_iter/`, `two_level_iter/` | `TwoLevel`, `DBIterator` (`MCDBIterator`) | `Cursor` |
| skip list | `skiplist/skiplist.rs` | `SkipList` (`SkipListProofs`) | |
| record log | `log/log.rs` | `Log` (`LogProofs`) | |
| table files, blocks, separators, filter blocks | `table/`, `block/`, `filter_block/`, `format/`, `comparator/` | `Table` (`MCTable`) | reference definitions in `Table` |
| LRU shard | `cache/` | `Cache` | |
| LOCK, `destroy_db`, table cache, block cache, retirement of tables | `env/`, `destroy/`, `table_cache/`, `table/`, `db_impl.rs` | `OpenFiles` over `Cache` (`MCOpenFiles`, `OpenFilesProofs`) | |
| write batch, buffer pool | `write_batch/` | grouping in `WritePath`; encoding not modelled | |
| codings, checksums, hashes, Snappy, file names, façades | `coding/`, `crc32c/`, `hash/`, `filter/`, `slice/`, `status/`, `snappy.rs`, `filename/`, `*/mod.rs`, `lib.rs` | not modelled: stateless | |

How the parts fit together. A write goes through the queue of `WritePath` into a
log file, whose bytes are `Log`'s subject, and into a memtable, whose links are
`SkipList`'s. `WritePath` and `Background` both contain the background thread:
the first follows what happens to batches and logs, the second what happens to
table files, flags and waiting calls. What a compaction does to entries is in
`Levels`, how its edit becomes durable in `Manifest`, what a table file looks
like in `Table`. `DBIterator` composes `TwoLevel` iterators and a memtable
cursor. Where one module needs what another shows, its comment says so: the
memtable cursor of `DBIterator` is what `SkipList` shows, the finitely many
rounds of `Background`'s compactions are `Levels`' `DrainEnds`, and the entry in
two tables that `DBIterator` starts from is what `WritePath` and `Manifest` allow
after a crash in the middle of `open`. `OpenFiles` puts together what outlives one
open of the database: the LOCK, iterators whose handle was dropped, the block cache
that handles share, and `destroy_db`; within one open its `Install` and `Release`
are the ones `Background` has in detail.

## How state and actions correspond to the code

**WritePath.** The unit is a `write` call with one batch. `writers` is the
`VecDeque` of the core, `wpc` where each call is in `write_owned`, `waiting`
the condition variable, `mem` / `imm` the batches in the two memtables, `wal` the
log each record went to, `manifest` what `recover` would read. One action per
locked region and per unlocked step: enqueue, make room (error, slow down, wait,
rotate, commit), append, sync, insert, finish, and likewise for `force_flush`,
`bg_loop`, `compact_memtable_async`, and the compactions that only matter here for
the file numbers they use and the level-0 files they remove. `CrashAndOpen` keeps
synced records and any part of the unsynced ones, replays the logs that `open`
would and takes file numbers from the MANIFEST's `next_file_number`.

**Background.** Variables are the flags of the core (`bg_work_scheduled`,
`bg_work_running`, `manual_compaction_running`, `bg_error`, `shutting_down`), the
thread's park token, the clients asleep on the condition variable, the
inputs and outputs of each compaction, the files on disk, and what iterators pin.

**Levels.** An entry is a key, a sequence number and a kind; a file is a set of
entries, level 0 a function from file numbers. Actions: writes, snapshots, rotation, flush with
`pick_level_for_memtable_output`, charging of files by `get` and by samples, the
seek, size and manual picks with `get_overlapping_inputs` and
`setup_other_inputs`, trivial moves, the merge with its drop rules and output cuts
in two steps (inputs read, result installed), reopening. `Get` and `Scan` are the
read paths; `Latest` is what they should return.

**Manifest.** Every write of `log_and_apply` and `set_current_file` is an action,
each may fail or be followed by a crash; unsynced records may be lost or torn.
`repair_db` is modelled step by step as well: `FindFiles`, one log converted and
archived at a time, the scan of the tables, one MANIFEST archived at a time, and one
edit through the same `log_and_apply`. Errors it ignores are ignored, errors it
returns end it, and a crash may come anywhere. A table is what the memtables it
came from held, so that `NothingLost` can speak about contents across compactions.
A temporary file left by an interrupted `set_current_file` is not in the model; all
it could do is raise the number `find_files` starts from.

**Cache, OpenFiles.** A shard is its map of entries, their keys in order
of use and its `usage`; `counter` and `last_access` exist in the code to find the
oldest entry. A thread's
`stage` says how far its `open` or `destroy_db` is, `core` is the `DBImplCore` that
its handle and iterators share, `reader` an iterator with the tables it pins and the
table and block it is getting. Each step of an iterator lies between two cache locks:
lookup, open of the file, insertion, block lookup, read. `attached` is lost when the
directory is removed under an open core: its MANIFEST is then a deleted file.

**TwoLevel, DBIterator.** The positioning functions of the three iterators as
operators on records; a call of `DBIter` takes several steps, one for each entry
its loops look at, and a writer may insert into the memtable between any two.

**SkipList.** One load or store of a link per step. Loads are acquire and stores
release, so a reader sees a node with the links it was published with. A stale
`height` would only make a search start lower, and is not modelled separately.
There is one writer, as the queue of `WritePath` guarantees (`OneCommitter`).

**Log.** Bytes are tagged with the fragment they belong to, so that decoding is a
comparison; the CRC is ideal. A crash keeps any prefix that includes the synced
bytes and may replace the rest by zeroes. `Read` runs both readers.

**Table.** Keys are byte sequences with a one-byte tag. Where blocks end and how
long they are in the file is free, which covers all values and compressors.

## Runs

| run | checks | bounds |
|---|---|---|
| `write_safety` | acknowledged writes are visible and durable, one committer, whole groups, stable flush capture, no double replay, implements `DurableStore` | 4 writers (2 sync), memtable of one batch, 2 crashes, 1 fault, compactions of 1 output |
| `write_liveness` | every write and every `force_flush` returns | 2 writers, 1 flusher, 0 to 3 level-0 files found at open, any one fault |
| `write_flush_race` (violation) | see the findings | 3 writers, 1 flusher |
| `levels` | gets and scans return the latest version for every snapshot, levels disjoint and sorted, newer above older, the drain loop ends | two databases: 3 writes to 2 keys, 4 levels, 2 snapshots, outputs not cut; and 4 writes with at most one delete, 3 levels, two files at level 0, no snapshots, outputs of one entry |
| `levels_split` (violation) | see the findings | 3 writes, 4 levels, 1 snapshot, outputs of one entry |
| `manifest` | recovered version is the one in memory up to failed or current edits, its tables exist, numbers are fresh, nothing installed is lost, the database opens again | 2 crashes, 1 fault at any step, 2 flushes or compactions, torn records, repairs when open fails and one at any other time |
| `background` | one version changer, inputs and pinned files stay, no leaks, calls return, the thread exits on drop | 2 clients and 2 iterators, two at a time; 3 tables, 1 compaction each, 1 fault |
| `iterator` | `DBIter` implements `Cursor`, its assertions hold | 3 entries, 2 keys (one empty), memtable and 2 tables, blocks of 1 or 2, one table may fail |
| `skiplist` | sorted chains, links in bounds, searches exact | 4 keys, 3 levels, 1 reader |
| `log` | whole records in order, synced ones survive, readers agree | 3 records of 0, 2, 6 or 12 bytes, blocks of 8, headers of 3, 1 fault |
| `table` | lookups and block cursors exact | 4 entries of 5 keys and 2 versions, restart interval 2 |
| `open_files` | one holder of the directory, blocks are the right ones, no deleted table stays cached, caches accounted for, needed files stay | 2 threads, 2 iterators, 2 tables written, 3 table opens, 1 `destroy_db`, caches of 1 table and 2 units of blocks |

Why these bounds. In `write_safety` the memtable is full after one batch, so four
writers already give a flush of one memtable while another fills, a group of two
in between, and two crashes with work lost between them; level-0 triggers of 2, 3
and 4 put the slow-down, the stop and compactions in reach. `MaxCrashes = 2` is
what a double replay takes. In `levels` capacities are a few entries, so that
three or four writes fill several levels; two keys are enough for files that
overlap, touch or lie apart, two snapshots for the drop rules. `background`
allows two users at a time: two manual compactions, one and an iterator, or two
iterators, each against the background thread. `log` has blocks of 8 with headers of
3: records that end on a block, leave less than a header, exactly a header, and
span three blocks all occur. `table` has keys that are prefixes of each other and
keys ending in the largest byte, where separators cannot be shortened.
`iterator` needs three entries for an old version, its tombstone and a neighbour;
one of its two keys is the empty one, which a cleared `saved_key` looks like.
`manifest` needs two crashes for a repair that is cut short and then run again, and
two edits for a compaction of a table that was flushed; three edits were run once and
pass too (3.4 million states). In `open_files` two tables are a table and its
replacement, or a table before and after `destroy_db` with the same number; a table
cache of one entry evicts on every second open, and of the two blocks of a table one
is larger than the whole block cache.

Deadlock is checked in `levels`, `levels_split` and `skiplist`. The others may stop:
their calls, records or edits are bounded and none need be made.

### Fairness

Fairness is assumed of threads only: a thread that has a step to take outside a
wait takes it, since `std::sync::Mutex` is released by every holder and the OS
schedules every thread. Nothing is assumed of callers, faults, crashes,
or spurious wake-ups. In `WritePath` this is weak fairness of each call in
progress and of the background thread. In `Background` the same is written with
the enabling conditions spelled out. In `Levels` it is that the background thread
does not stop, in `Manifest` that a call of `open` or `repair_db` and a `log_and_apply`
once begun run to their end, and, the one assumption about the application, that it
calls `open` again and `repair_db` where that fails: this is what `Reopens` is about. `Log`, `Table`,
`DBIterator`, `SkipList` and `OpenFiles` have safety properties only.

## Findings

Two runs end in a counterexample to what the repository says.

- `write_flush_race`: `force_flush` looks at the writer queue, then waits for `imm`
  with the mutex released, and rotates without looking again (`db_impl.rs`
  1689-1712). A group may by then be between its WAL append and its memtable
  insertion, which the comment at 1687 says is prevented. Its entries go into a
  memtable whose contents may already have been collected, and its leader puts the
  old log file back. `AckedVisible` fails.
- `levels_split`: outputs of a merge are cut without regard to user keys, so two
  versions of a key kept apart by a snapshot may be in neighbouring files; nothing
  adds the neighbour when the first file is picked. `ReadsLatest` fails. For that reason
  one database of `levels` has no snapshots and the other does not cut outputs.

Other deviations came up while modelling. They have no run of their own; the
constants that show them are given.

- *Failed appends are not sticky* (`db_impl.rs` 1538-1542). A failed WAL append
  fails its group, but the next group is appended behind the damaged record, where
  replay stops (2096-2101). `"append"` in the `Faults` of `write_safety` makes
  `AckedDurable` fail; it also makes `ReadsSeeWholeGroups` fail, since the record of
  a failed group may survive a crash with the sequence number of the next group.
  `SyncedSurvive` of `Log` is stated for files without failed appends.
  `write_liveness` includes append faults.
- *A new log may be numbered below a replayed one* (455; the comment at 454 says
  "beyond any replayed log"). With `MaxOutputs = 3`, `InitialL0 = {1}` the action
  property `FreshLogBeyondReplayed` of `WritePath` fails; so it does after two failed
  switches of the log (`Faults = {"switch"}`, `MaxFaults = 2`).
- *A writer can wait for a compaction nobody schedules* (1478). With
  `InitialL0 = {4}`, the stop trigger, `EveryWriteReturns` fails.
- *The background thread spins after an error* (1931) if `imm` is pending.
  `BgRestsAfterError` of `WritePath` fails with `Faults = {"build"}`.
- *Ranges of compaction inputs are compared as bytes* (`version_set.rs` 831-855),
  whatever the comparator. With a `Rank` that reverses the keys, `NewerAbove` and
  `ReadsLatest` of `Levels` fail.
- *A torn MANIFEST record makes `open` fail* (`version_set.rs` 650) until `repair_db` is
  run; `Reopens` of `Manifest` holds with `repair_db` as part of reopening.
- *Repair may reuse the number of a MANIFEST* (`repair/repair.rs` 139-140), although the
  comment at 122 says the largest number is tracked "so the new manifest won't reuse
  one". If CURRENT names that number, a crash between the first record of the new
  MANIFEST and its edit leaves a database that opens without tables. `NothingLost`
  and `AppliedAtomically` except this case through `clobbered`.
- *A repair that is cut short must be run again.* It archives a log as soon as the log's
  table is written (166), long before a MANIFEST lists the table; opening the old
  MANIFEST instead ignores the table and may reuse its number.
- *Repair puts every table at level 0* (317), where the highest number wins, and converts
  logs in the order of the directory. An output of an old compaction can outrank a newer
  flush. `NothingLost` is about presence, not about which version wins.
- *`repair_db` takes no LOCK*; `Manifest` has one process that does one thing at a time.
- *`destroy_db` lists before it locks, and removes the directory after it unlocks*
  (`destroy/destroy.rs` 11-38; the doc at 8: "Acquires the DB LOCK before deleting database
  files."). An `open` in between loses its files: without its second disjunct
  `NeededFilesStay` fails.
- *`destroy_db` deletes every entry*, although `destroy/mod.rs` 21-23 says that unrecognized
  files are left in place.
- *Outside Windows the LOCK excludes only the same process* (`env/env.rs` 270-290, 342-357):
  it is an entry in a table in memory, while `destroy/mod.rs` 19-20 speaks of another process.
- *A failed edit stays in the MANIFEST* (`version_set.rs` 567-573) and is applied by
  the next open, although `compact_range` may have gone on without it.
  `AppliedAtomically` allows for failed edits.
- *Zero padding is not skipped* (`log/log.rs` 257-260): its checksum is checked first
  and does not match. `Log` models what the code does, and its crashes zero tails.
- *Files of failed compactions stay* (`db_impl.rs` 1200): `NothingLeaks` of
  `Background` is stated for runs without faults.

## Proofs

`WritePathProofs` proves, for any finite set of writers and any sizes, faults and
crashes allowed by `WritePathAssumption`:

- `TypeCorrect` and `SingleCommitter`, with no further assumption. The inductive
  invariant is `Inv1 = TypeOK /\ QueueInv`: a call that makes room or commits is the
  head of the queue, its group is a prefix of the queue, the log file is either in
  the core or in its hands. `OneCommitter` alone is not inductive: finishing a group
  pops `glen` writers, and only the prefix property tells who is left.
- `Durability`, `Visibility` and `FlushCapture`, for `Flushers = {}` and
  `"append" \notin Faults`, the two cases in which the code does not have them. The
  invariant is `Inv2`, five parts over `Inv1`: where the entries of a committing
  group are (`CommitInv`), that the logs on disk hold what the memtables do
  (`LogInv`, `MemInv`), what a flush has captured (`FlushInv`), and where an
  acknowledged batch is (`AckInv`). Acknowledgement alone says nothing about the log
  a batch is in, which is what deleting logs depends on; hence `LogInv` and `MemInv`.

Under the same two conditions it goes on to `WholeGroups` (reads see a
batch group as a whole or not at all) and `StoreRefinement` (`WritePath` implements
`DurableStore`). Both need `Inv3`: the queue has each call once and none that has its
result (`OrderInv`); a batch that was not appended is nowhere, one that is being committed
is in the current log and memtable at most (`FreshInv`); the numbers of the group come next
after `last_sequence`, and only batches whose sync failed may be ahead of it, after which
no group is formed (`NumberInv`); what a call was told agrees with what is stored
(`CallInv`). In the refinement, `Enqueue` is `Begin`, or `Fail` on a sticky error; an error
of the leader is `Fail`; `FinishGroup` is `Commit` of the whole group, whatever interleaved
since the append, or `Fail`; a follower that wakes up returns or fails; installing a flush
is `Harden` of what `imm` held; `CrashAndOpen` is `Crash`; every other step stutters.

`NoDoubleReplay` does not hold of the code in general (see *A new log may be numbered below
a replayed one*), and two theorems say when it does, again for `Flushers = {}` and no
failed append:

- `ReplayedOnce`: the number of the new log is the only way it can fail. `Spec` and
  `FreshLogBeyondReplayed`, the claim of the comment in `open`, imply it. The invariant adds
  `OnceInv` to the three above: what `imm` holds is in logs older than the one the flush of
  `imm` will name.
- `SmallCompactionsReplayOnce`: it holds when no `switch_active_log` fails and no compaction
  writes more than one file (`[](outputs <= 1)`), which is why `write_safety` finds no
  counterexample. `NumbersInv` counts the file numbers taken since the last edit of the
  MANIFEST: without an `imm` they are those of `open` and of the running compaction, a
  rotation takes one for its log and leaves a nonempty `imm`, and only an edit, which records
  the next number, clears that. Hence the log is at most two numbers beyond what the MANIFEST
  records, and `open` takes two for its table and its MANIFEST before the new log.

`ManifestSteps` and `ManifestProofs` prove, for any bounds and any set of
steps that may fail, `AppliedAtomicallyAlways`, `LiveTablesExistAlways`,
`NumbersFreshAlways` and `NothingLostAlways`. The four hold only together: which numbers
are fresh depends on what the records of a MANIFEST name, what may be deleted on what can
be read back, and what `repair_db` can keep on no table having been overwritten. The
invariant `IInv` says for each phase of `open`, `log_and_apply` and `repair_db` what is on
disk: where the process is (`Phases`, `JobPhases`), what its edit may contain and what of
it is in the MANIFEST (`JobEdit`, `JobLog`), that every number in use is below a counter
or will be read back before numbers are given out (`Numbers`), what edits failed
(`FailedEdits`), that tables which can be read back exist (`Exists`), what readings replay
to (`Atomic`), and that they cover what was installed (`Content`). `ManifestSteps` has
`IInv`, what replaying records and crashing do, and the parts about phases and numbers,
`ManifestProofs` the rest. A reading of a MANIFEST is any part that a crash
may leave; each step either leaves the readings alone or adds one whose replay is known.

`SkipListProofs` proves, for any set of keys, any height and any readers,
`TypeCorrect`, `AlwaysChained`, `LinksInBounds` and the action property
`SearchesExact`. The invariant `Inv` joins `Chained` (each level is a sorted chain of
exactly the keys linked at it), `WriterInv` (`prev[l]` is the node the key in hand
must follow, at every level still to be linked) and `ReaderInv` (a walk stands on a
node linked at its level). None is inductive alone: a store keeps a chain sorted only if
`prev` is right, and `prev` stays right only because there is one writer.

`BackgroundProofs` proves, for any clients, any finite set of iterators and any faults,
`SingleChanger`, `InputsKept`, `ReadersSafe` and `NoLeak`. The invariant `Inv` joins `Reserved`
(whoever works on the version has set the flag that keeps the others out) and four facts
about files: `Idle` (who does not work has no inputs or outputs), `Apart` (outputs of work in
progress, obsolete tables and the version are disjoint and below the counter), `Pinned`
(the count of iterators is their number, and what they pin is on disk) and `Owned`
(what is on disk belongs to one of them). That files stay rests on `Reserved`: inputs are
in the version when they are retired only because nobody else changed it meanwhile.
`active_iterators` counts a set, which is why finite cardinalities are needed.

`OpenFilesProofs` proves, for any threads, iterators and capacities, `SingleHolder` and the
action property `FilesStay`. `OneHolder` is inductive only with `Held` (the handle of an
iterator is open, or closed and not dropped), since the last iterator gives back the LOCK.
`NeededFilesStay` needs in addition that numbers are below their counter
(`AllNumbered`), so that a new table is never one that awaits its deletion.

`BlocksRight` and `NoneDeleted`, in the same module, need `ReadInv`: whoever knows a table
number, be it CURRENT, a version, an iterator, the table cache or the directory, has it for
the same table as everybody else of the same handle (`OnDisk`, `Pinned`, `Cached`,
`Reading`), and a cache id belongs to one table, whose blocks are all the block cache has
under it (`Identified`). Numbers are used again after `destroy_db`, so this cannot be said
of numbers across handles, only of ids: it is `next_id` that makes a shared block cache
right. The shard is used through what `insert`, `erase`, `lookup` and `prune` do to the map;
that `usage` is the sum of the charges is not needed.

`LogProofs` proves, for any block and header size with `HeaderSize < BlockSize`, any lengths
of records and any number of failed appends, `ReadersAlwaysAgree`, `OnlyWholeRecords` and
`SyncedAlwaysSurvive`. The argument is about the bytes of the file, not about the readers.
`FileInv` says that a byte belongs to a fragment of a record that was added, that records
come in order, that nothing of a record precedes its first fragment, and that the start of
a middle or last fragment lies right behind the fragment it continues, with nothing but
zeroes between; this survives a failed append, which leaves any prefix of a fragment, and a
crash, which leaves any tail torn or zeroed. `ReadInv` says what a reader has gathered by the
fragment it read last, `AddingInv` where the record being written stands, and `Agree`
relates the block and offset of one reader to the offset of the other. `WholeRecords` alone
is not inductive: nothing in what was returned so far tells that the next fragment continues
the one in `scratch`. `SyncedSurvive` needs `CleanInv` in addition: without failed appends a
reader that skips a block's trailer lands on the next fragment (`InOrder`, `Present`), which
is where `Len(file) % BlockSize = block_offset % BlockSize` comes in.

`LevelsProofs` proves, for any numbers of keys, levels, writes and snapshots and any sizes,
under `Bytewise` (the Comparator orders keys as their bytes do, without which the findings
above show the properties to fail):

- `LevelsAlwaysSorted`. The invariant is `TreeInv`: what is stored was written (`Types`), a
  file due for a seek compaction is in the tree (`FileDue`), and a compaction under way
  holds exactly the files of the next level that the range of its inputs meets and, at level
  0, every file that shares a key with them (`CompactionInv`). `LevelsSorted` alone is not
  inductive: that the output of a merge fits between the files it leaves is decided when the
  inputs are picked, several steps earlier.
- `UncutReadsLatest`: `NewerAbove`, `ScansLatest` and `ReadsLatest` hold as long as no merge
  cuts its output between two versions of a user key (`UncutKeys`). `levels_split` shows
  that they fail otherwise; of the databases of `levels` one has no snapshots and the other
  never cuts its output. The invariant `Seen` adds to `NewerAbove` and `ScansLatest` that
  no two files of a sorted level share a user key (`Unshared`). A merge drops an entry
  hidden by one that every reader sees, and the newest version a reader may see is never
  such an entry; it drops a tombstone, and then nothing older than it is left anywhere
  (`NothingOlder`): not above, by `NewerAbove`, not beside, by `Unshared` and `CompactionInv`,
  not in its own output, by the first rule, and not below, by `is_base_level_for_key`.
  `GetIsScan` shows that `Version::get`, which stops at the first file with a version of the
  key, reads what a merge of all files would.
- `ReadsLatestWithoutSnapshots`: the same three hold without that proviso as long as no
  snapshot is taken. `smallest_snapshot` is then the last sequence number, a merge keeps one
  version of a key and has none to cut apart (`AllVisible`).

Only model-checked, and why:

- all liveness properties: the prover has no support for fairness and `ENABLED`;
- `CachesAccounted`, `LookupExact` and `CursorExact`: sums and block searches are folds and
  recursive definitions, and what these compute for every input needs induction over data;
- `NoDoubleReplay` with `switch` faults, which `write_safety` has and
  `SmallCompactionsReplayOnce` excludes: each failed switch takes a number, and the run
  has one of them; with two the numbers overtake and `NoDoubleReplay` fails;
- `AssertsHold` and `ImplementsCursor` of `DBIterator`, which rest on what the recursive
  searches of `TwoLevel` return.

## What is not modelled

- The encoding of batches, edits, footers and handles, which is stateless; checksums are
  ideal. A batch whose bytes were made malformed through `set_contents` makes
  `iterate` stop half-way (`db_impl.rs` 1534); no other call produces such a batch.
- Directory entries: a synced file and a finished rename are taken to survive a
  crash, although the code does not sync the directory.
- Two processes on one directory: outside Windows nothing in the code keeps them apart.
- Which of the sixteen shards a cache key goes to: shards share nothing but the counter
  of ids.
- The choice of numbers and the order of entries after `repair_db`: see the findings.
- Sizes in bytes: `Levels` counts entries, `WritePath` batches, so the arithmetic of
  memory accounting and of approximate sizes is left out.
- Machine integers: sequence numbers (56 bits) and file numbers (64 bits) are taken not to wrap.
