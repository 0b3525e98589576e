------------------------------ MODULE Manifest ------------------------------
(***************************************************************************)
(* How the set of table files is made durable: VersionSet::log_and_apply   *)
(* and recover, the steps of DBImpl::open around them, and what a crash or *)
(* an I/O error between any two of their writes leaves on disk             *)
(* (src/version_set/version_set.rs, src/filename/filename.rs,              *)
(* src/db_impl/db_impl.rs); and repair_db, which rebuilds the MANIFEST     *)
(* from the tables and logs it finds (src/repair/repair.rs).               *)
(*                                                                         *)
(* Files are numbers from one counter.  A MANIFEST is its sequence of      *)
(* records; the last ones, after `synced`, are not on stable storage yet.  *)
(* A table holds what some memtables held: the numbers of the tables they  *)
(* were first written to.  Which entries those are is Levels' subject.     *)
(***************************************************************************)
EXTENDS Integers, Sequences, FiniteSets, FiniteSetsExt, Functions

CONSTANTS
    MaxFile,      \* bound: file numbers
    MaxEdits,     \* bound: flushes and compactions started
    MaxCrashes,   \* bound: crashes
    MaxFaults,    \* bound: I/O errors
    MaxRepairs,   \* bound: calls of repair_db on a database that may well open
    Faults,       \* steps that may fail: "create", "append", "sync", "current" of log_and_apply,
                  \* "convert", "archive", "scan" of repair_db
    Tearing       \* a crash may leave half of a record

ASSUME ManifestAssumption ==
    /\ MaxFile \in Nat /\ MaxEdits \in Nat /\ MaxCrashes \in Nat /\ MaxFaults \in Nat
    /\ MaxRepairs \in Nat
    /\ Faults \subseteq {"create", "append", "sync", "current", "convert", "archive", "scan"}
    /\ Tearing \in BOOLEAN

VARIABLES
    current,      \* the MANIFEST that CURRENT names, 0 if there is no CURRENT
    manifests,    \* the MANIFEST files: number -> [records, synced]
    tables,       \* the table files on disk: number -> what it holds
    logs,         \* the log files on disk
    db,           \* the process: "closed", "open" (inside open), "running", "repair",
                  \* "stuck" (open failed to recover)
    todo,         \* the edits open has still to apply
    job,          \* the log_and_apply under way, or NoJob
    version,      \* the tables of VersionSet::current
    next_file_number,
    log_file_number,
    manifest_log, \* the MANIFEST being appended to, 0 if none
    bg_error,
    failed,       \* the edits whose log_and_apply failed since the database was opened
    repairer,     \* what repair_db has found and has yet to do
    kept,         \* history: what installed versions held
    damaged,      \* history: tables that repair_db could not read
    clobbered,    \* history: a repair began to overwrite the MANIFEST that CURRENT names
    edits, crashes, faults, repairs

diskVars == <<current, manifests, tables, logs>>
procVars == <<db, todo, version, next_file_number, log_file_number, manifest_log, bg_error>>
bounds == <<edits, crashes, faults, repairs>>
repVars == <<repairer, kept, damaged, clobbered>>
vars == <<diskVars, procVars, job, failed, repVars, bounds>>

NoJob == [step |-> "none"]
Torn == [torn |-> TRUE]
NoRepairer == [step |-> "none", logs |-> {}, log |-> 0, manifests |-> {}, tables |-> {}]

Edit(add, del, next) == [add |-> add, del |-> del, next |-> next]
Apply(v, e) == (v \ e.del) \cup e.add

(* recover: the tables a sequence of records stands for when they are      *)
(* applied in order, those that were added and not deleted by a later one. *)
Replay(rs) ==
    {t \in UNION {rs[i].add : i \in 1 .. Len(rs)} :
        \E i \in 1 .. Len(rs) : t \in rs[i].add /\ \A j \in i + 1 .. Len(rs) : t \notin rs[j].del}
Readable(rs) == \A i \in 1 .. Len(rs) : rs[i] # Torn

(* Half of a record, where a failed or interrupted append can leave one. *)
Halves == IF Tearing THEN {Torn} ELSE {}

(* What the tables of a version hold. *)
Holds(v) == UNION {tables[n] : n \in v \cap DOMAIN tables}

(* A file is created, over whatever had its name; files are deleted. *)
With(files, n, x) == [m \in DOMAIN files \cup {n} |-> IF m = n THEN x ELSE files[m]]
Without(files, S) == Restrict(files, DOMAIN files \ S)

Created(n) == With(manifests, n, [records |-> <<>>, synced |-> 0])
Appended(n, r) == [manifests EXCEPT ![n].records = Append(@, r)]
-----------------------------------------------------------------------------
Init ==
    /\ current = 0 /\ manifests = <<>> /\ tables = <<>> /\ logs = {}
    /\ db = "closed" /\ todo = <<>> /\ job = NoJob
    /\ version = {} /\ next_file_number = 2 /\ log_file_number = 0 /\ manifest_log = 0
    /\ bg_error = FALSE /\ failed = {}
    /\ repairer = NoRepairer /\ kept = {} /\ damaged = {} /\ clobbered = FALSE
    /\ edits = 0 /\ crashes = 0 /\ faults = 0 /\ repairs = 0

(* open: CURRENT and its MANIFEST are read; what the logs hold, if they    *)
(* hold anything, is written to a table; a new log gets a number.  Each    *)
(* of the two edits goes through log_and_apply.                            *)
OpenNew ==
    /\ db = "closed" /\ current = 0
    /\ db' = "open" /\ version' = {} /\ next_file_number' = 2
    /\ todo' = <<"log">> /\ manifest_log' = 0 /\ bg_error' = FALSE /\ failed' = {}
    /\ UNCHANGED <<diskVars, log_file_number, job, repVars, bounds>>

(* The MANIFEST exists and has its required fields. *)
Intact ==
    /\ current \in DOMAIN manifests /\ manifests[current].records # <<>>
    /\ Readable(manifests[current].records)

OpenExisting ==
    /\ db = "closed" /\ current # 0 /\ Intact
    /\ LET rs == manifests[current].records
       IN  version' = Replay(rs) /\ next_file_number' = rs[Len(rs)].next
    /\ db' = "open" /\ manifest_log' = 0 /\ bg_error' = FALSE /\ failed' = {}
    /\ \E replayed \in BOOLEAN : todo' = IF replayed THEN <<"table", "log">> ELSE <<"log">>
    /\ UNCHANGED <<diskVars, log_file_number, job, repVars, bounds>>

OpenFails ==
    /\ db = "closed" /\ current # 0 /\ ~Intact
    /\ db' = "stuck"
    /\ UNCHANGED <<diskVars, todo, job, version, next_file_number, log_file_number, manifest_log, bg_error, failed, repVars, bounds>>

(* Mutant: the edit records the counter from before its own table. *)
BeginStale(who, add, del, next) ==
    job' = [step |-> IF manifest_log = 0 THEN "create" ELSE "append",
            who |-> who, edit |-> Edit(add, del, next - 1), fresh |-> manifest_log = 0]

(* log_and_apply begins: the edit records the counter as it is now; the    *)
(* MANIFEST's own number, if one is needed, is taken after that.           *)
Begin(who, add, del, next) ==
    job' = [step |-> IF manifest_log = 0 THEN "create" ELSE "append",
            who |-> who, edit |-> Edit(add, del, next), fresh |-> manifest_log = 0]

OpenTable ==
    /\ db = "open" /\ job = NoJob /\ todo # <<>> /\ Head(todo) = "table"
    /\ next_file_number < MaxFile
    /\ tables' = With(tables, next_file_number, {next_file_number})
    /\ next_file_number' = next_file_number + 1
    /\ Begin("open", {next_file_number}, {}, next_file_number + 1)
    /\ todo' = Tail(todo)
    /\ UNCHANGED <<current, manifests, logs, db, version, log_file_number, manifest_log, bg_error,
                   failed, repVars, bounds>>

OpenLog ==
    /\ db = "open" /\ job = NoJob /\ todo # <<>> /\ Head(todo) = "log"
    /\ next_file_number < MaxFile
    /\ log_file_number' = next_file_number
    /\ next_file_number' = next_file_number + 1
    /\ Begin("open", {}, {}, next_file_number + 1)
    /\ todo' = Tail(todo)
    /\ UNCHANGED <<diskVars, db, version, manifest_log, bg_error, failed, repVars, bounds>>

(* The end of open: the log is created; older logs, and every MANIFEST but *)
(* the live one, are deleted.                                              *)
Opened ==
    /\ db = "open" /\ job = NoJob /\ todo = <<>>
    /\ logs' = {l \in logs \cup {log_file_number} : l >= log_file_number}
    /\ manifests' = [n \in {manifest_log} |-> manifests[n]]
    /\ db' = "running"
    /\ UNCHANGED <<current, tables, todo, job, version, next_file_number, log_file_number, manifest_log, bg_error, failed, repVars, bounds>>

(* A flush, or a compaction by the background thread or by compact_range:  *)
(* its output table is complete before the edit is applied.  compact_range *)
(* does not look at bg_error once there is nothing to flush.               *)
Change(who, del, holds, n) ==
    /\ db = "running" /\ job = NoJob /\ edits < MaxEdits /\ n < MaxFile
    /\ who # "manual" => ~bg_error
    /\ tables' = With(tables, n, holds)
    /\ next_file_number' = n + 1
    /\ Begin(who, {n}, del, n + 1)
    /\ edits' = edits + 1
    /\ UNCHANGED <<current, manifests, db, todo, version, manifest_log, bg_error, failed,
                   repVars, crashes, faults, repairs>>

(* The memtable was set aside, and a new log created, before the flush. *)
Flush ==
    LET n == next_file_number IN
    /\ log_file_number' = n /\ logs' = logs \cup {n}
    /\ Change("flush", {}, {n + 1}, n + 1)
Compacts(who, f) ==
    Change(who, {f}, tables[f], next_file_number) /\ UNCHANGED <<logs, log_file_number>>
Compact == \E f \in version \cap DOMAIN tables : Compacts("compact", f)
ManualCompact == \E f \in version \cap DOMAIN tables : Compacts("manual", f)
-----------------------------------------------------------------------------
CreateManifest ==
    /\ job.step = "create" /\ next_file_number < MaxFile
    /\ manifests' = Created(next_file_number)
    /\ manifest_log' = next_file_number
    /\ next_file_number' = next_file_number + 1
    /\ job' = [job EXCEPT !.step = "snapshot"]
    /\ clobbered' = (clobbered \/ (job.who = "repair" /\ next_file_number = current))
    /\ UNCHANGED <<current, tables, logs, db, todo, version, log_file_number, bg_error, failed,
                   repairer, kept, damaged, bounds>>

(* snapshot_edit: the version as it was before this edit. *)
AppendSnapshot ==
    /\ job.step = "snapshot"
    /\ manifests' = Appended(manifest_log, Edit(version, {}, next_file_number))
    /\ job' = [job EXCEPT !.step = "append"]
    /\ UNCHANGED <<current, tables, logs, procVars, failed, repVars, bounds>>

(* Mutant: no sync before CURRENT or the version changes. *)
AppendEditUnsynced ==
    /\ job.step = "append"
    /\ manifests' = Appended(manifest_log, job.edit)
    /\ job' = [job EXCEPT !.step = IF job.fresh THEN "current" ELSE "install"]
    /\ UNCHANGED <<current, tables, logs, procVars, failed, repVars, bounds>>

AppendEdit ==
    /\ job.step = "append"
    /\ manifests' = Appended(manifest_log, job.edit)
    /\ job' = [job EXCEPT !.step = "sync"]
    /\ UNCHANGED <<current, tables, logs, procVars, failed, repVars, bounds>>

SyncManifest ==
    /\ job.step = "sync"
    /\ manifests' = [manifests EXCEPT ![manifest_log].synced = Len(manifests[manifest_log].records)]
    /\ job' = [job EXCEPT !.step = IF job.fresh THEN "current" ELSE "install"]
    /\ UNCHANGED <<current, tables, logs, procVars, failed, repVars, bounds>>

(* Mutant: CURRENT is written only where there is none. *)
SetCurrentKeeps ==
    /\ job.step = "current"
    /\ current' = IF current = 0 THEN manifest_log ELSE current
    /\ job' = [job EXCEPT !.step = "install"]
    /\ UNCHANGED <<manifests, tables, logs, procVars, failed, repVars, bounds>>

(* set_current_file: the temporary file is complete when it is renamed. *)
SetCurrent ==
    /\ job.step = "current"
    /\ current' = manifest_log
    /\ job' = [job EXCEPT !.step = "install"]
    /\ UNCHANGED <<manifests, tables, logs, procVars, failed, repVars, bounds>>

(* The new version is swapped in; a compaction then deletes its inputs, a  *)
(* flush the obsolete logs.  repair_db ends here.                          *)
Install ==
    LET v == Apply(version, job.edit)
        repaired == job.who = "repair"
    IN  /\ job.step = "install"
        /\ version' = IF repaired THEN {} ELSE v
        /\ db' = IF repaired THEN "closed" ELSE db
        /\ repairer' = NoRepairer
        /\ kept' = kept \cup Holds(v)
        /\ clobbered' = (clobbered /\ ~repaired)
        /\ tables' = Without(tables, job.edit.del)
        /\ logs' = IF job.who = "flush" THEN {l \in logs : l >= log_file_number} ELSE logs
        /\ job' = NoJob
        /\ UNCHANGED <<current, manifests, todo, next_file_number, log_file_number, manifest_log,
                       bg_error, failed, damaged, bounds>>

(* A step fails.  What it had appended stays in the file or in the         *)
(* writer's buffer: nothing, half of the record or all of it.  A MANIFEST  *)
(* that CURRENT does not name yet is abandoned.  open gives up; the        *)
(* background thread keeps the error; compact_range only returns it.       *)
FailedStep(step) == IF step = "snapshot" THEN "append" ELSE step
Fail ==
    /\ faults < MaxFaults /\ job.step # "none" /\ FailedStep(job.step) \in Faults
    /\ CASE job.step = "append" -> \/ UNCHANGED manifests
                                   \/ \E r \in {job.edit} \cup Halves : manifests' = Appended(manifest_log, r)
         [] job.step = "create" -> next_file_number < MaxFile /\ UNCHANGED manifests
         [] OTHER -> UNCHANGED manifests
    /\ next_file_number' = IF job.step = "create" THEN next_file_number + 1 ELSE next_file_number
    /\ manifest_log' = IF job.fresh THEN 0 ELSE manifest_log
    /\ db' = IF job.who \in {"open", "repair"} THEN "closed" ELSE db
    /\ bg_error' = (bg_error \/ job.who \in {"flush", "compact"})
    /\ failed' = failed \cup {job.edit} /\ job' = NoJob /\ faults' = faults + 1
    /\ repairer' = NoRepairer
    /\ UNCHANGED <<current, tables, logs, todo, version, log_file_number, kept, damaged, clobbered, edits,
                   crashes, repairs>>

(* The process, or the machine, stops: of each MANIFEST some prefix that   *)
(* includes what was synced is left, and perhaps half of the next record.  *)
Remnant(m, n, t) == [records |-> SubSeq(m.records, 1, n) \o t, synced |-> n]
Remains(m) ==
    {Remnant(m, n, t) : n \in m.synced .. Len(m.records), t \in {<<>>} \cup {<<h>> : h \in Halves}}
Left(m) == {r \in Remains(m) : Len(r.records) <= Len(m.records)}

Crash ==
    /\ crashes < MaxCrashes /\ db \in {"open", "running", "repair"}
    /\ manifests' \in {f \in [DOMAIN manifests -> UNION {Left(manifests[n]) : n \in DOMAIN manifests}] :
                         \A n \in DOMAIN manifests : f[n] \in Left(manifests[n])}
    /\ db' = "closed" /\ todo' = <<>> /\ job' = NoJob /\ version' = {} /\ failed' = {}
    /\ next_file_number' = 2 /\ log_file_number' = 0 /\ manifest_log' = 0 /\ bg_error' = FALSE
    /\ repairer' = NoRepairer /\ crashes' = crashes + 1
    /\ UNCHANGED <<current, tables, logs, kept, damaged, clobbered, edits, faults, repairs>>
-----------------------------------------------------------------------------
(* repair_db, called when open fails, or for any reason (MaxRepairs).      *)

(* find_files.  The numbers of MANIFESTs do not count. *)
FindFiles ==
    /\ \/ db = "stuck" /\ UNCHANGED repairs
       \/ db = "closed" /\ repairs < MaxRepairs /\ repairs' = repairs + 1
    /\ current # 0 \/ DOMAIN tables \cup logs \cup DOMAIN manifests # {}
    /\ db' = "repair" /\ version' = {} /\ manifest_log' = 0 /\ bg_error' = FALSE /\ failed' = {}
    /\ next_file_number' = Max({0} \cup DOMAIN tables \cup logs) + 1
    /\ repairer' = [step |-> "convert", logs |-> logs, log |-> 0, manifests |-> DOMAIN manifests,
                    tables |-> DOMAIN tables]
    /\ UNCHANGED <<diskVars, todo, job, log_file_number, kept, damaged, clobbered, edits, crashes, faults>>

RepairUnchanged ==
    UNCHANGED <<current, db, todo, version, log_file_number, manifest_log, bg_error, failed,
                clobbered, edits, crashes, repairs>>

(* repair_db goes on after an error of a conversion, a scan or a rename. *)
Swallowed(step) == step \in Faults /\ faults < MaxFaults /\ faults' = faults + 1

(* convert_log_to_table: what can be read of a log goes to a table; it may *)
(* be nothing, or the table may fail to be written (its number is gone).   *)
ConvertLog(l) ==
    LET n == next_file_number IN
    /\ repairer.step = "convert" /\ l \in repairer.logs
    /\ \/ /\ n < MaxFile
          /\ tables' = With(tables, n, {n})
          /\ next_file_number' = n + 1
          /\ repairer' = [repairer EXCEPT !.step = "archive", !.log = l, !.tables = @ \cup {n}]
          /\ UNCHANGED faults
       \/ /\ repairer' = [repairer EXCEPT !.step = "archive", !.log = l]
          /\ UNCHANGED <<tables, next_file_number, faults>>
       \/ /\ repairer' = [repairer EXCEPT !.step = "archive", !.log = l]
          /\ next_file_number' = n + 1 /\ Swallowed("convert")
          /\ UNCHANGED tables
    /\ UNCHANGED <<manifests, logs, job, kept, damaged>>
    /\ RepairUnchanged

(* The log is moved to lost/, whatever became of the table. *)
ArchiveLog ==
    /\ repairer.step = "archive"
    /\ \/ logs' = logs \ {repairer.log} /\ UNCHANGED faults
       \/ UNCHANGED logs /\ Swallowed("archive")
    /\ repairer' = [repairer EXCEPT !.step = "convert", !.log = 0, !.logs = @ \ {repairer.log}]
    /\ UNCHANGED <<manifests, tables, job, next_file_number, kept, damaged>>
    /\ RepairUnchanged

(* Mutant: only the tables that repair_db itself wrote are listed. *)
ExtractNothing ==
    /\ repairer.step = "convert" /\ repairer.logs = {}
    /\ repairer' = [repairer EXCEPT !.step = "manifests", !.tables = {}]
    /\ UNCHANGED <<manifests, tables, logs, job, next_file_number, kept, damaged, faults>>
    /\ RepairUnchanged

(* extract_metadata: each table is scanned, and one that cannot be read    *)
(* (a fault) is archived.                                                  *)
ExtractMetadata ==
    /\ repairer.step = "convert" /\ repairer.logs = {}
    /\ \/ /\ repairer' = [repairer EXCEPT !.step = "manifests"]
          /\ UNCHANGED <<tables, kept, damaged, faults>>
       \/ \E bad \in repairer.tables :
             /\ Swallowed("scan")
             /\ repairer' = [repairer EXCEPT !.step = "manifests", !.tables = @ \ {bad}]
             /\ tables' = Without(tables, {bad})
             /\ damaged' = damaged \cup {bad}
             /\ kept' = kept \ tables[bad]
    /\ UNCHANGED <<manifests, logs, job, next_file_number>>
    /\ RepairUnchanged

(* write_descriptor: the old MANIFESTs are archived one by one. *)
ArchiveManifest(n) ==
    /\ repairer.step = "manifests" /\ n \in repairer.manifests
    /\ \/ manifests' = Without(manifests, {n}) /\ UNCHANGED faults
       \/ UNCHANGED manifests /\ Swallowed("archive")
    /\ repairer' = [repairer EXCEPT !.manifests = @ \ {n}]
    /\ UNCHANGED <<tables, logs, job, next_file_number, kept, damaged>>
    /\ RepairUnchanged

(* write_descriptor: one edit with all tables, in a VersionSet that has    *)
(* none, through log_and_apply.                                            *)
WriteDescriptor ==
    /\ repairer.step = "manifests" /\ repairer.manifests = {}
    /\ repairer' = [repairer EXCEPT !.step = "apply"]
    /\ Begin("repair", repairer.tables, {}, next_file_number)
    /\ UNCHANGED <<manifests, tables, logs, next_file_number, kept, damaged, faults>>
    /\ RepairUnchanged
-----------------------------------------------------------------------------
RepairStep ==
    \/ FindFiles
    \/ \E l \in repairer.logs : ConvertLog(l)
    \/ ArchiveLog \/ ExtractMetadata
    \/ \E n \in repairer.manifests : ArchiveManifest(n)
    \/ WriteDescriptor
OpenStep == OpenNew \/ OpenExisting \/ OpenFails \/ OpenTable \/ OpenLog \/ Opened
ApplyStep == CreateManifest \/ AppendSnapshot \/ AppendEdit \/ SyncManifest \/ SetCurrent \/ Install

Next ==
    \/ OpenStep \/ RepairStep \/ ApplyStep
    \/ Flush \/ Compact \/ ManualCompact
    \/ Fail \/ Crash

Spec == Init /\ [][Next]_vars

(* A call of open or repair_db, and a log_and_apply once begun, run to     *)
(* their end; repair_db is called when open fails.                         *)
FairSpec == Spec /\ WF_vars(OpenStep \/ RepairStep \/ ApplyStep)
-----------------------------------------------------------------------------
(* What a crash at this moment may leave for the next open to read. *)
Outcomes ==
    IF current \in DOMAIN manifests THEN {r.records : r \in Left(manifests[current])} ELSE {}

(* log_and_apply is atomic across a crash: the recovered version is the    *)
(* one in memory, except that each edit that is being applied or whose     *)
(* application failed may have taken effect, as a whole.  (Not where a     *)
(* repair that did not end has overwritten the MANIFEST, see NothingLost.) *)
Unapplied == failed \cup (IF job = NoJob THEN {} ELSE {job.edit})
AppliedAtomically ==
    (db \in {"open", "running"} /\ current # 0 /\ ~clobbered) =>
        \A rs \in Outcomes : Readable(rs) =>
            \E es \in SUBSET Unapplied :
                Replay(rs) = (version \ UNION {e.del : e \in es}) \cup UNION {e.add : e \in es}

(* Every table a recovery may come to rely on is on disk: inputs of a      *)
(* compaction are deleted only after the edit that drops them is synced.   *)
LiveTablesExist ==
    current # 0 => \A rs \in Outcomes : Readable(rs) => Replay(rs) \subseteq DOMAIN tables \cup damaged

(* A new file never takes the number of a table a recovery may need, nor a *)
(* new MANIFEST the name of the one CURRENT points to.                     *)
NumbersFresh ==
    (db \in {"open", "running"} /\ current # 0) =>
        /\ \A rs \in Outcomes : Readable(rs) =>
               \A t \in Replay(rs) : t < next_file_number
        /\ job.step = "create" => next_file_number # current

(* What an installed version held, the database holds for good: through    *)
(* compactions, failed edits, crashes, and a repair_db that itself may be  *)
(* cut short and called again.  Two exceptions: a table that repair_db     *)
(* could not read, and a crash after it began to overwrite the MANIFEST    *)
(* that CURRENT names.                                                     *)
NothingLost == (db \in {"open", "running"} /\ ~clobbered) => kept \subseteq Holds(version)

(* After any sequence of crashes, failed opens and interrupted repairs,    *)
(* torn records included, the database opens again once open or, where it  *)
(* fails, repair_db runs undisturbed.                                      *)
Reopens == db = "closed" ~> db = "running"
=============================================================================
