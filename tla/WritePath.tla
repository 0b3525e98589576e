------------------------------ MODULE WritePath ------------------------------
(***************************************************************************)
(* The write path of DBImpl: the writer queue and its group commit, the    *)
(* write-ahead log, the rotation of the active memtable into the immutable *)
(* one, force_flush, the background thread's flush, and what a crash and   *)
(* the next open leave behind.                                             *)
(*                                                                         *)
(* A write call carries one batch; the batch is named by the call and its  *)
(* keys and values are abstracted away.  A memtable, the tables of the     *)
(* current version and the MANIFEST are the sets of the batches they hold. *)
(* One action is one region of code between two releases of the DB mutex   *)
(* (or one unlocked step), so the interleavings are those of the code.     *)
(***************************************************************************)
EXTENDS Naturals, Sequences, FiniteSets

CONSTANTS
    Writers,          \* the write calls
    SyncWriters,      \* the ones with WriteOptions::sync
    Flushers,         \* the force_flush calls
    WriteBufferSize,  \* Options::write_buffer_size, in batches
    L0Compaction,     \* number of L0 files that makes pick_compaction act
    L0Slowdown,       \* L0_SLOWDOWN_WRITES_TRIGGER
    L0StopWrites,     \* L0_STOP_WRITES_TRIGGER
    InitialL0,        \* numbers of L0 files an open may find
    MaxOutputs,       \* table files one compaction writes at most
    Faults,           \* the I/O operations that may fail
    MaxFaults,        \* how many of them do
    MaxCrashes        \* how many times the machine stops

ASSUME WritePathAssumption ==
    /\ SyncWriters \subseteq Writers
    /\ IsFiniteSet(Writers)
    /\ Writers \cap Flushers = {}
    /\ WriteBufferSize \in Nat
    /\ L0Compaction \in Nat \ {0} /\ L0Slowdown \in Nat /\ L0StopWrites \in Nat
    /\ InitialL0 \in SUBSET Nat
    /\ MaxOutputs \in Nat /\ MaxFaults \in Nat /\ MaxCrashes \in Nat

VARIABLES
    writers,          \* DBImplCore::writers, the queue
    wpc,              \* where each write call is
    result,           \* the result slots of the followers
    delayed,          \* the leaders whose allow_delay is false
    waiting,          \* the threads in cv.wait
    fpc,              \* where each force_flush call is
    glen,             \* writers in the group being committed (0: none)
    held,             \* number of the log file the leader took out of the core
    target,           \* what the memtable the leader cloned has become
    cstatus,          \* status of the group being committed
    mem, imm,         \* the batches in the two memtables
    has_imm,          \* imm.is_some()
    mem_memory_usage, \* bytes in mem, in batches
    tables,           \* the batches in the tables of the current version
    l0,               \* number of L0 files of the current version
    last_sequence,
    recno,            \* the sequence number of the log record each batch is in
    seqno,            \* the last sequence number each batch was given
    log_file,         \* number of the log file in the core (0: taken)
    log_file_number,
    next_file_number,
    bg_error,
    logs,             \* the log files in the directory
    wal,              \* the log file each batch was appended to (0: none)
    synced,           \* the batches whose record was synced
    torn,             \* the log files with a damaged record
    unreadable,       \* the batches appended behind a damaged record
    manifest,         \* what the MANIFEST on disk says
    lost,             \* the batches that power failures took from the logs
    bgpc,             \* where the background thread is
    bg_work_scheduled,
    bg_work_running,
    token,            \* the background thread's unpark token
    flush,            \* what compact_memtable_async captured in its step 1
    outputs,          \* table files the running compaction has written
    faults, crashes   \* how many of each have happened

queueVars == <<writers, wpc, result, delayed, waiting>>
groupVars == <<glen, held, target, cstatus>>
memVars   == <<mem, imm, has_imm, mem_memory_usage>>
verVars   == <<tables, l0, manifest>>
seqVars   == <<last_sequence, recno, seqno>>
logVars   == <<log_file, log_file_number, next_file_number>>
diskVars  == <<logs, wal, synced, torn, unreadable, lost>>
bgVars    == <<bgpc, bg_work_scheduled, bg_work_running, token, flush, outputs>>
vars == <<queueVars, fpc, groupVars, memVars, verVars, seqVars, logVars,
          bg_error, diskVars, bgVars, faults, crashes>>

Threads == Writers \cup Flushers

(***************************************************************************)
(* A new database: open writes a MANIFEST naming log 2 (file numbers start *)
(* at 2, the MANIFEST takes 3) and starts an idle background thread.       *)
(***************************************************************************)
Init ==
    /\ writers = <<>>
    /\ wpc = [w \in Writers |-> "idle"]
    /\ result = [w \in Writers |-> "none"]
    /\ delayed = {} /\ waiting = {}
    /\ fpc = [f \in Flushers |-> "idle"]
    /\ glen = 0 /\ held = 0 /\ target = "none" /\ cstatus = "ok"
    /\ mem = {} /\ imm = {} /\ has_imm = FALSE /\ mem_memory_usage = 0
    /\ l0 \in InitialL0
    /\ tables = {}
    /\ manifest = [log |-> 2, tables |-> {}, l0 |-> l0, seq |-> 0, next |-> 3]
    /\ last_sequence = 0
    /\ recno = [w \in Writers |-> 0] /\ seqno = [w \in Writers |-> 0]
    /\ log_file = 2 /\ log_file_number = 2 /\ next_file_number = 4
    /\ bg_error = FALSE
    /\ logs = {2} /\ wal = [w \in Writers |-> 0]
    /\ synced = {} /\ torn = {} /\ unreadable = {} /\ lost = {}
    /\ bgpc = "check" /\ bg_work_scheduled = FALSE /\ bg_work_running = FALSE
    /\ token = FALSE /\ flush = [entries |-> {}, log |-> 0] /\ outputs = 0
    /\ faults = 0 /\ crashes = 0

(***************************************************************************)
(* An I/O operation of kind k may fail while the budget lasts.             *)
(***************************************************************************)
Fault(k) ==
    /\ k \in Faults
    /\ faults < MaxFaults
    /\ faults' = faults + 1

(***************************************************************************)
(* Work for the background thread: the flag, and an unpark.                *)
(***************************************************************************)
ScheduleWorkNoUnpark == bg_work_scheduled' = TRUE /\ UNCHANGED token
ScheduleWork == bg_work_scheduled' = TRUE /\ token' = TRUE

(***************************************************************************)
(* switch_active_log and the code around it: a fresh log file (creating a  *)
(* file truncates one of that name), a fresh memtable, the old one to imm, *)
(* and the background thread unparked.  A memtable a leader has cloned     *)
(* stays the same object when it becomes imm.                              *)
(***************************************************************************)
Rotate ==
    LET n == next_file_number IN
    /\ next_file_number' = n + 1
    /\ log_file_number' = n
    /\ logs' = logs \cup {n}
    /\ wal' = [x \in Writers |-> IF wal[x] = n THEN 0 ELSE wal[x]]
    /\ torn' = torn \ {n}
    /\ mem' = {} /\ imm' = mem /\ has_imm' = TRUE /\ mem_memory_usage' = 0
    /\ ScheduleWork
    /\ UNCHANGED <<synced, unreadable, lost, bgpc, bg_work_running, flush, outputs>>

(***************************************************************************)
(* switch_active_log fails creating the new file, or closing the old one.  *)
(***************************************************************************)
RotateFails ==
    LET n == next_file_number IN
    /\ Fault("switch")
    /\ next_file_number' = n + 1
    /\ \/ UNCHANGED <<logs, wal, torn>>
       \/ /\ logs' = logs \cup {n}
          /\ wal' = [x \in Writers |-> IF wal[x] = n THEN 0 ELSE wal[x]]
          /\ torn' = torn \ {n}
    /\ UNCHANGED <<memVars, log_file, log_file_number, synced, unreadable, lost, bgVars>>

(***************************************************************************)
(* finish_writer_group over the whole queue, for an error the leader w     *)
(* meets before it commits: everyone behind w finds the error in its slot. *)
(***************************************************************************)
FailQueue(w, q) ==
    /\ writers' = <<>>
    /\ wpc' = [wpc EXCEPT ![w] = "err"]
    /\ result' = [x \in Writers |->
                    IF x # w /\ \E i \in 1..Len(q) : q[i] = x THEN "err" ELSE result[x]]
    /\ waiting' = {}
    /\ UNCHANGED delayed

(* The place of x among the first n writers of the queue q. *)
Place(q, n, x) == CHOOSE i \in 1..n : q[i] = x

(***************************************************************************)
(* build_batch_group and the rest of the locked region: the group is a     *)
(* prefix of the queue that a sync writer behind a non-sync leader ends    *)
(* (so does the size limit: batch sizes are arbitrary), it gets the next   *)
(* sequence numbers, and the leader takes the log file out of the core and *)
(* clones the memtable before it releases the mutex.                       *)
(***************************************************************************)
BeginCommit(w, q, n) ==
    /\ \A i \in 2..n : q[i] \in SyncWriters => w \in SyncWriters
    /\ writers' = q
    /\ wpc' = [wpc EXCEPT ![w] = "append"]
    /\ glen' = n
    /\ target' = "mem" /\ cstatus' = "ok"
    /\ recno' = [x \in Writers |->
                    IF \E i \in 1..n : q[i] = x THEN last_sequence + 1 ELSE recno[x]]
    /\ seqno' = [x \in Writers |->
                    IF \E i \in 1..n : q[i] = x THEN last_sequence + Place(q, n, x)
                                                ELSE seqno[x]]
    /\ log_file' = 0
    /\ UNCHANGED <<result, delayed, last_sequence>>

(***************************************************************************)
(* The make-room loop of write_owned, run by the writer w at the front of  *)
(* the queue q, up to the next release of the mutex.                       *)
(***************************************************************************)
MustDelay(w) == w \notin delayed /\ l0 >= L0Slowdown
MemFull == mem_memory_usage > WriteBufferSize

LeadError(w, q) ==
    /\ bg_error
    /\ FailQueue(w, q)
    /\ UNCHANGED <<groupVars, memVars, seqVars, logVars, diskVars, bgVars, faults>>

LeadSleep(w, q) ==
    /\ ~bg_error /\ MustDelay(w)
    /\ delayed' = delayed \cup {w}
    /\ writers' = q
    /\ wpc' = [wpc EXCEPT ![w] = "room"]
    /\ UNCHANGED <<result, waiting, groupVars, memVars, seqVars, logVars, diskVars,
                   bgVars, faults>>

LeadWait(w, q) ==
    /\ ~bg_error /\ ~MustDelay(w) /\ MemFull
    /\ has_imm \/ l0 >= L0StopWrites
    /\ writers' = q
    /\ wpc' = [wpc EXCEPT ![w] = "room"]
    /\ waiting' = waiting \cup {w}
    /\ UNCHANGED <<result, delayed, groupVars, memVars, seqVars, logVars, diskVars,
                   bgVars, faults>>

LeadCommit(w, q) ==
    /\ ~bg_error /\ ~MustDelay(w) /\ ~MemFull
    /\ \E n \in 1..Len(q) : BeginCommit(w, q, n)
    /\ held' = log_file
    /\ UNCHANGED <<waiting, memVars, log_file_number, next_file_number, diskVars,
                   bgVars, faults>>

LeadRotateOverImm(w, q) ==
    /\ ~bg_error /\ ~MustDelay(w) /\ MemFull /\ l0 < L0StopWrites
    /\ Rotate
    /\ \E n \in 1..Len(q) : BeginCommit(w, q, n)
    /\ held' = next_file_number
    /\ waiting' = {}
    /\ UNCHANGED faults

LeadRotate(w, q) ==
    /\ ~bg_error /\ ~MustDelay(w) /\ MemFull /\ ~has_imm /\ l0 < L0StopWrites
    /\ Rotate
    /\ \E n \in 1..Len(q) : BeginCommit(w, q, n)
    /\ held' = next_file_number
    /\ waiting' = {}
    /\ UNCHANGED faults

LeadRotateFails(w, q) ==
    /\ ~bg_error /\ ~MustDelay(w) /\ MemFull /\ ~has_imm /\ l0 < L0StopWrites
    /\ RotateFails
    /\ FailQueue(w, q)
    /\ UNCHANGED <<groupVars, seqVars>>

Lead(w, q) ==
    /\ \/ LeadError(w, q)
       \/ LeadSleep(w, q)
       \/ LeadWait(w, q)
       \/ LeadCommit(w, q)
       \/ LeadRotate(w, q)
       \/ LeadRotateFails(w, q)
    /\ UNCHANGED <<verVars, fpc, bg_error, crashes>>

(***************************************************************************)
(* write_owned up to the commit: the call enqueues itself, and leads at    *)
(* once if it is alone; a follower waits until it is at the front or finds *)
(* a result in its slot.                                                   *)
(***************************************************************************)
EnqueueLead(w) ==
    /\ wpc[w] = "idle" /\ writers = <<>>
    /\ Lead(w, <<w>>)

EnqueueFollow(w) ==
    /\ wpc[w] = "idle" /\ writers # <<>>
    /\ writers' = Append(writers, w)
    /\ wpc' = [wpc EXCEPT ![w] = "follow"]
    /\ waiting' = waiting \cup {w}
    /\ UNCHANGED <<result, delayed, fpc, groupVars, memVars, verVars, seqVars, logVars,
                   bg_error, diskVars, bgVars, faults, crashes>>

AtFront(w) == writers # <<>> /\ Head(writers) = w

TakeLeadAnywhere(w) ==
    /\ wpc[w] \in {"follow", "room"} /\ w \notin waiting
    /\ Lead(w, writers)

TakeLead(w) ==
    /\ wpc[w] \in {"follow", "room"} /\ w \notin waiting /\ AtFront(w)
    /\ Lead(w, writers)

FollowerReturns(w) ==
    /\ wpc[w] = "follow" /\ w \notin waiting /\ ~AtFront(w)
    /\ result[w] # "none"
    /\ wpc' = [wpc EXCEPT ![w] = result[w]]
    /\ UNCHANGED <<writers, result, delayed, waiting, fpc, groupVars, memVars, verVars,
                   seqVars, logVars, bg_error, diskVars, bgVars, faults, crashes>>

FollowerWaits(w) ==
    /\ wpc[w] = "follow" /\ w \notin waiting /\ ~AtFront(w)
    /\ result[w] = "none"
    /\ waiting' = waiting \cup {w}
    /\ UNCHANGED <<writers, wpc, result, delayed, fpc, groupVars, memVars, verVars,
                   seqVars, logVars, bg_error, diskVars, bgVars, faults, crashes>>

(***************************************************************************)
(* The unlocked part of write_owned.  A failed append may leave nothing, a *)
(* damaged record, or the whole record; what is appended behind a damaged  *)
(* record cannot be read back.                                             *)
(***************************************************************************)
Group == {writers[i] : i \in 1..glen}
Logged == [x \in Writers |-> IF x \in Group THEN held ELSE wal[x]]

AppendWal(w) ==
    /\ wpc[w] = "append"
    /\ wal' = Logged
    /\ unreadable' = IF held \in torn THEN unreadable \cup Group ELSE unreadable
    /\ wpc' = [wpc EXCEPT ![w] = IF w \in SyncWriters THEN "sync" ELSE "insert"]
    /\ UNCHANGED <<writers, result, delayed, waiting, fpc, groupVars, memVars, verVars,
                   seqVars, logVars, bg_error, logs, synced, torn, lost, bgVars,
                   faults, crashes>>

AppendWalFails(w) ==
    /\ wpc[w] = "append"
    /\ Fault("append")
    /\ \/ UNCHANGED <<wal, torn, unreadable>>
       \/ torn' = torn \cup {held} /\ UNCHANGED <<wal, unreadable>>
       \/ /\ wal' = Logged
          /\ unreadable' = IF held \in torn THEN unreadable \cup Group ELSE unreadable
          /\ UNCHANGED torn
    /\ cstatus' = "err"
    /\ wpc' = [wpc EXCEPT ![w] = "finish"]
    /\ UNCHANGED <<writers, result, delayed, waiting, fpc, glen, held, target, memVars,
                   verVars, seqVars, logVars, bg_error, logs, synced, lost, bgVars,
                   crashes>>

SyncWal(w) ==
    /\ wpc[w] = "sync"
    /\ synced' = synced \cup {x \in Writers : wal[x] = held}
    /\ wpc' = [wpc EXCEPT ![w] = "insert"]
    /\ UNCHANGED <<writers, result, delayed, waiting, fpc, groupVars, memVars, verVars,
                   seqVars, logVars, bg_error, logs, wal, torn, unreadable, lost,
                   bgVars, faults, crashes>>

SyncWalFails(w) ==
    /\ wpc[w] = "sync"
    /\ Fault("sync")
    /\ cstatus' = "sync_err"
    /\ wpc' = [wpc EXCEPT ![w] = "finish"]
    /\ UNCHANGED <<writers, result, delayed, waiting, fpc, glen, held, target, memVars,
                   verVars, seqVars, logVars, bg_error, diskVars, bgVars, crashes>>

(* The group goes into the memtable the leader cloned, wherever that is.   *)
InsertMem(w) ==
    /\ wpc[w] = "insert"
    /\ mem' = IF target = "mem" THEN mem \cup Group ELSE mem
    /\ imm' = IF target = "imm" THEN imm \cup Group ELSE imm
    /\ wpc' = [wpc EXCEPT ![w] = "finish"]
    /\ UNCHANGED <<writers, result, delayed, waiting, fpc, groupVars, has_imm,
                   mem_memory_usage, verVars, seqVars, logVars, bg_error, diskVars,
                   bgVars, faults, crashes>>

(***************************************************************************)
(* The leader takes the mutex again: it puts the log file back, publishes  *)
(* the sequence numbers, hands out the status and wakes everyone.          *)
(***************************************************************************)
Status == IF cstatus = "ok" THEN "ok" ELSE "err"

PublishedOne == IF cstatus = "ok" THEN last_sequence + 1 ELSE last_sequence
Published == IF cstatus = "ok" THEN last_sequence + glen ELSE last_sequence

FinishGroupSilent(w) ==
    /\ wpc[w] = "finish"
    /\ result' = [x \in Writers |-> IF x \in Group \ {w} THEN Status ELSE result[x]]
    /\ wpc' = [wpc EXCEPT ![w] = Status]
    /\ writers' = SubSeq(writers, glen + 1, Len(writers))
    /\ mem_memory_usage' = IF cstatus = "ok" THEN mem_memory_usage + glen
                                             ELSE mem_memory_usage
    /\ last_sequence' = Published
    /\ bg_error' = (bg_error \/ cstatus = "sync_err")
    /\ log_file' = held
    /\ glen' = 0 /\ held' = 0 /\ target' = "none"
    /\ UNCHANGED <<delayed, waiting, fpc, cstatus, mem, imm, has_imm, verVars, recno, seqno,
                   log_file_number, next_file_number, diskVars, bgVars, faults, crashes>>

FinishGroup(w) ==
    /\ wpc[w] = "finish"
    /\ result' = [x \in Writers |-> IF x \in Group \ {w} THEN Status ELSE result[x]]
    /\ wpc' = [wpc EXCEPT ![w] = Status]
    /\ writers' = SubSeq(writers, glen + 1, Len(writers))
    /\ waiting' = {}
    /\ mem_memory_usage' = IF cstatus = "ok" THEN mem_memory_usage + glen
                                             ELSE mem_memory_usage
    /\ last_sequence' = Published
    /\ bg_error' = (bg_error \/ cstatus = "sync_err")
    /\ log_file' = held
    /\ glen' = 0 /\ held' = 0 /\ target' = "none"
    /\ UNCHANGED <<delayed, fpc, cstatus, mem, imm, has_imm, verVars, recno, seqno,
                   log_file_number, next_file_number, diskVars, bgVars, faults, crashes>>

(***************************************************************************)
(* force_flush: wait for an empty writer queue (w1), return if there is    *)
(* nothing to flush, wait for a pending flush (w2), rotate, wait for the   *)
(* background thread to drain imm (w3).                                    *)
(***************************************************************************)
AtQueueWait(f) == fpc[f] \in {"idle", "w1"} /\ f \notin waiting
Flushable(f) ==
    \/ AtQueueWait(f) /\ writers = <<>> /\ ~(mem_memory_usage = 0 /\ ~has_imm)
    \/ fpc[f] = "w2" /\ f \notin waiting

FlusherWaits(f) ==
    /\ \/ AtQueueWait(f) /\ writers # <<>> /\ fpc' = [fpc EXCEPT ![f] = "w1"]
       \/ Flushable(f) /\ has_imm /\ fpc' = [fpc EXCEPT ![f] = "w2"]
       \/ fpc[f] = "w3" /\ f \notin waiting /\ has_imm /\ UNCHANGED fpc
    /\ ~bg_error
    /\ waiting' = waiting \cup {f}
    /\ UNCHANGED <<writers, wpc, result, delayed, groupVars, memVars, verVars, seqVars,
                   logVars, bg_error, diskVars, bgVars, faults, crashes>>

FlusherReturns(f) ==
    /\ \/ /\ bg_error
          /\ \/ AtQueueWait(f) /\ writers # <<>>
             \/ Flushable(f) /\ has_imm
             \/ fpc[f] = "w3" /\ f \notin waiting /\ has_imm
          /\ fpc' = [fpc EXCEPT ![f] = "err"]
       \/ /\ \/ AtQueueWait(f) /\ writers = <<>> /\ mem_memory_usage = 0 /\ ~has_imm
             \/ fpc[f] = "w3" /\ f \notin waiting /\ ~has_imm
          /\ fpc' = [fpc EXCEPT ![f] = "ok"]
    /\ UNCHANGED <<queueVars, groupVars, memVars, verVars, seqVars, logVars, bg_error,
                   diskVars, bgVars, faults, crashes>>

FlusherRotates(f) ==
    /\ Flushable(f) /\ ~has_imm
    /\ Rotate
    /\ log_file' = next_file_number
    /\ target' = IF target = "mem" THEN "imm" ELSE target
    /\ fpc' = [fpc EXCEPT ![f] = IF bg_error THEN "err" ELSE "w3"]
    /\ waiting' = IF bg_error THEN {} ELSE {f}
    /\ UNCHANGED <<writers, wpc, result, delayed, glen, held, cstatus, verVars, seqVars,
                   bg_error, faults, crashes>>

FlusherRotateFails(f) ==
    /\ Flushable(f) /\ ~has_imm
    /\ RotateFails
    /\ fpc' = [fpc EXCEPT ![f] = "err"]
    /\ UNCHANGED <<queueVars, groupVars, verVars, seqVars, bg_error, crashes>>

(***************************************************************************)
(* bg_loop and bg_step_async.                                              *)
(***************************************************************************)
BgParks ==
    /\ bgpc = "check" /\ ~bg_work_scheduled /\ ~has_imm
    /\ bgpc' = "park"
    /\ UNCHANGED <<queueVars, fpc, groupVars, memVars, verVars, seqVars, logVars,
                   bg_error, diskVars, bg_work_scheduled, bg_work_running, token,
                   flush, outputs, faults, crashes>>

BgUnparked ==
    /\ bgpc = "park" /\ token
    /\ token' = FALSE
    /\ bgpc' = "check"
    /\ UNCHANGED <<queueVars, fpc, groupVars, memVars, verVars, seqVars, logVars,
                   bg_error, diskVars, bg_work_scheduled, bg_work_running, flush,
                   outputs, faults, crashes>>

BgRefuses ==
    /\ bgpc = "check" /\ (bg_work_scheduled \/ has_imm) /\ bg_error
    /\ bg_work_scheduled' = FALSE
    /\ waiting' = {}
    /\ UNCHANGED <<writers, wpc, result, delayed, fpc, groupVars, memVars, verVars,
                   seqVars, logVars, bg_error, diskVars, bgpc, bg_work_running, token,
                   flush, outputs, faults, crashes>>

BgStarts ==
    /\ bgpc = "check" /\ (bg_work_scheduled \/ has_imm) /\ ~bg_error
    /\ bg_work_scheduled' = FALSE
    /\ bg_work_running' = TRUE
    /\ bgpc' = "step"
    /\ UNCHANGED <<queueVars, fpc, groupVars, memVars, verVars, seqVars, logVars,
                   bg_error, diskVars, token, flush, outputs, faults, crashes>>

BgLooksAtImm ==
    /\ bgpc = "step"
    /\ bgpc' = IF has_imm THEN "collect" ELSE "drain"
    /\ UNCHANGED <<queueVars, fpc, groupVars, memVars, verVars, seqVars, logVars,
                   bg_error, diskVars, bg_work_scheduled, bg_work_running, token,
                   flush, outputs, faults, crashes>>

(* imm := None; a leader that still inserts into it inserts into nothing.  *)
ClearImm ==
    /\ imm' = {} /\ has_imm' = FALSE
    /\ target' = IF target = "imm" THEN "gone" ELSE target
    /\ waiting' = {}

BgFindsNothing ==
    /\ bgpc = "collect" /\ imm = {}
    /\ ClearImm
    /\ bgpc' = "drain"
    /\ UNCHANGED <<writers, wpc, result, delayed, fpc, glen, held, cstatus, mem,
                   mem_memory_usage, verVars, seqVars, logVars, bg_error, diskVars,
                   bg_work_scheduled, bg_work_running, token, flush, outputs, faults,
                   crashes>>

BgCollects ==
    /\ bgpc = "collect" /\ imm # {}
    /\ flush' = [entries |-> imm, log |-> log_file_number]
    /\ next_file_number' = next_file_number + 1
    /\ bgpc' = "build"
    /\ UNCHANGED <<queueVars, fpc, groupVars, memVars, verVars, seqVars, log_file,
                   log_file_number, bg_error, diskVars, bg_work_scheduled,
                   bg_work_running, token, outputs, faults, crashes>>

(* The table is written and synced, or the step fails.                     *)
BgBuilds ==
    /\ bgpc = "build"
    /\ \/ bgpc' = "install" /\ UNCHANGED faults
       \/ bgpc' = "fail" /\ Fault("build")
    /\ UNCHANGED <<queueVars, fpc, groupVars, memVars, verVars, seqVars, logVars,
                   bg_error, diskVars, bg_work_scheduled, bg_work_running, token,
                   flush, outputs, crashes>>

(* log_and_apply of the flush edit: the MANIFEST record it syncs.          *)
FlushedKeepLog(newl0) ==
    [log |-> manifest.log, tables |-> tables \cup flush.entries, l0 |-> newl0,
     seq |-> last_sequence, next |-> next_file_number]

Flushed(newl0) ==
    [log |-> flush.log, tables |-> tables \cup flush.entries, l0 |-> newl0,
     seq |-> last_sequence, next |-> next_file_number]

(* delete_obsolete_logs *)
LiveLogsOffByOne == {n \in logs : n > log_file_number}
LiveLogs == {n \in logs : n >= log_file_number}

BgInstalls ==
    /\ bgpc = "install"
    /\ \E d \in {0, 1} : l0' = l0 + d /\ manifest' = Flushed(l0 + d)
    /\ tables' = tables \cup flush.entries
    /\ logs' = LiveLogs
    /\ ClearImm
    /\ bgpc' = "drain"
    /\ flush' = [entries |-> {}, log |-> 0]
    /\ UNCHANGED <<writers, wpc, result, delayed, fpc, glen, held, cstatus, mem,
                   mem_memory_usage, seqVars, logVars, bg_error, wal, synced, torn,
                   unreadable, lost, bg_work_scheduled, bg_work_running, token, outputs,
                   faults, crashes>>

BgInstallFails ==
    /\ bgpc = "install"
    /\ Fault("manifest")
    /\ \/ UNCHANGED manifest
       \/ \E d \in {0, 1} : manifest' = Flushed(l0 + d)
    /\ bgpc' = "fail"
    /\ UNCHANGED <<queueVars, fpc, groupVars, memVars, tables, l0, seqVars, logVars,
                   bg_error, diskVars, bg_work_scheduled, bg_work_running, token,
                   flush, outputs, crashes>>

(***************************************************************************)
(* The compactions of bg_step_async, seen from the write path: each takes  *)
(* file numbers for its outputs, and its edit makes level 0 smaller.       *)
(***************************************************************************)
BgPicks ==
    /\ bgpc = "drain"
    /\ bgpc' = IF l0 >= L0Compaction THEN "compact" ELSE "done"
    /\ outputs' = 0
    /\ UNCHANGED <<queueVars, fpc, groupVars, memVars, verVars, seqVars, logVars,
                   bg_error, diskVars, bg_work_scheduled, bg_work_running, token,
                   flush, faults, crashes>>

BgOpensOutput ==
    /\ bgpc = "compact" /\ outputs < MaxOutputs
    /\ outputs' = outputs + 1
    /\ next_file_number' = next_file_number + 1
    /\ UNCHANGED <<queueVars, fpc, groupVars, memVars, verVars, seqVars, log_file,
                   log_file_number, bg_error, diskVars, bgpc, bg_work_scheduled,
                   bg_work_running, token, flush, faults, crashes>>

Compacted(newl0) ==
    [log |-> manifest.log, tables |-> tables, l0 |-> newl0,
     seq |-> last_sequence, next |-> next_file_number]

BgCompacts ==
    /\ bgpc = "compact"
    /\ \E n \in 0..(l0 - 1) : l0' = n /\ manifest' = Compacted(n)
    /\ waiting' = {}
    /\ bgpc' = "drain"
    /\ UNCHANGED <<writers, wpc, result, delayed, fpc, groupVars, memVars, tables,
                   seqVars, logVars, bg_error, diskVars, bg_work_scheduled,
                   bg_work_running, token, flush, outputs, faults, crashes>>

BgCompactFails ==
    /\ bgpc = "compact"
    /\ Fault("compact")
    /\ \/ UNCHANGED manifest
       \/ \E n \in 0..(l0 - 1) : manifest' = Compacted(n)
    /\ bgpc' = "fail"
    /\ UNCHANGED <<queueVars, fpc, groupVars, memVars, tables, l0, seqVars, logVars,
                   bg_error, diskVars, bg_work_scheduled, bg_work_running, token,
                   flush, outputs, crashes>>

BgEnds ==
    /\ bgpc \in {"done", "fail"}
    /\ bg_work_running' = FALSE
    /\ bg_error' = (bg_error \/ bgpc = "fail")
    /\ waiting' = {}
    /\ bgpc' = "check"
    /\ UNCHANGED <<writers, wpc, result, delayed, fpc, groupVars, memVars, verVars,
                   seqVars, logVars, diskVars, bg_work_scheduled, token, flush, outputs,
                   faults, crashes>>

(***************************************************************************)
(* The machine stops and the database is opened again.  Of the records in  *)
(* the logs that open replays, those of a prefix of each log survive, the  *)
(* synced ones among them (a process crash keeps them all).                *)
(***************************************************************************)
Replayable == {x \in Writers : /\ wal[x] \in logs /\ wal[x] >= manifest.log
                               /\ x \notin unreadable}

Survive(K) ==
    /\ Replayable \cap synced \subseteq K
    /\ \A y \in K, x \in Replayable : wal[x] = wal[y] /\ recno[x] <= recno[y] => x \in K

(* File numbers continue from the MANIFEST's next_file_number: replayed    *)
(* entries take a table and the new MANIFEST a number before the new log   *)
(* does, otherwise the log comes first.                                    *)
OpenLog(K) == IF K = {} THEN manifest.next ELSE manifest.next + 2

Reopen(K) ==
    LET newlog == OpenLog(K) IN
    /\ next_file_number' = IF K = {} THEN newlog + 2 ELSE newlog + 1
    /\ log_file' = newlog /\ log_file_number' = newlog
    /\ tables' = manifest.tables \cup K
    /\ \E d \in IF K = {} THEN {0} ELSE {0, 1} : l0' = manifest.l0 + d
    /\ \E m \in {manifest.seq} \cup {seqno[x] : x \in K} :
          /\ m >= manifest.seq /\ \A x \in K : m >= seqno[x]
          /\ last_sequence' = m
    /\ manifest' = [log |-> newlog, tables |-> tables', l0 |-> l0',
                    seq |-> last_sequence', next |-> newlog + 1]
    /\ logs' = {newlog} \cup {n \in logs : n > newlog}
    /\ wal' = [x \in Writers |-> IF x \in K /\ wal[x] > newlog THEN wal[x] ELSE 0]
    /\ torn' = {n \in torn : n > newlog}
    /\ synced' = synced \cup K
    /\ lost' = lost \cup (Replayable \ K)
    /\ mem' = {} /\ imm' = {} /\ has_imm' = FALSE /\ mem_memory_usage' = 0

CrashAndOpen ==
    /\ crashes < MaxCrashes
    /\ crashes' = crashes + 1
    /\ \E K \in SUBSET Replayable : Survive(K) /\ Reopen(K)
    /\ writers' = <<>>
    /\ wpc' = [w \in Writers |-> IF wpc[w] \in {"idle", "ok", "err"} THEN wpc[w] ELSE "dead"]
    /\ fpc' = [f \in Flushers |-> IF fpc[f] \in {"idle", "ok", "err"} THEN fpc[f] ELSE "dead"]
    /\ result' = [w \in Writers |-> "none"]
    /\ delayed' = {} /\ waiting' = {}
    /\ glen' = 0 /\ held' = 0 /\ target' = "none" /\ cstatus' = "ok"
    /\ bg_error' = FALSE
    /\ bgpc' = "check" /\ bg_work_scheduled' = FALSE /\ bg_work_running' = FALSE
    /\ token' = FALSE /\ flush' = [entries |-> {}, log |-> 0] /\ outputs' = 0
    /\ UNCHANGED <<recno, seqno, unreadable, faults>>

-----------------------------------------------------------------------------
Calls == \E w \in Writers : EnqueueLead(w) \/ EnqueueFollow(w)

WriterSteps(w) ==
    \/ TakeLead(w) \/ FollowerReturns(w) \/ FollowerWaits(w)
    \/ AppendWal(w) \/ AppendWalFails(w) \/ SyncWal(w) \/ SyncWalFails(w)
    \/ InsertMem(w) \/ FinishGroup(w)

FlusherSteps(f) ==
    FlusherWaits(f) \/ FlusherReturns(f) \/ FlusherRotates(f) \/ FlusherRotateFails(f)

BgSteps ==
    \/ BgParks \/ BgUnparked \/ BgRefuses \/ BgStarts \/ BgLooksAtImm
    \/ BgFindsNothing \/ BgCollects \/ BgBuilds \/ BgInstalls \/ BgInstallFails
    \/ BgPicks \/ BgOpensOutput \/ BgCompacts \/ BgCompactFails \/ BgEnds

(* Condvar::wait and thread::park may return with nobody having woken them. *)
SpuriousWakeup ==
    /\ \/ \E t \in waiting : waiting' = waiting \ {t} /\ UNCHANGED bgpc
       \/ bgpc = "park" /\ bgpc' = "check" /\ UNCHANGED waiting
    /\ UNCHANGED <<writers, wpc, result, delayed, fpc, groupVars, memVars, verVars,
                   seqVars, logVars, bg_error, diskVars, bg_work_scheduled,
                   bg_work_running, token, flush, outputs, faults, crashes>>

Next ==
    \/ Calls
    \/ \E w \in Writers : WriterSteps(w)
    \/ \E f \in Flushers : FlusherSteps(f)
    \/ BgSteps
    \/ SpuriousWakeup
    \/ CrashAndOpen

Spec == Init /\ [][Next]_vars

(***************************************************************************)
(* Every thread that can go on eventually does: the OS schedules it and    *)
(* std::sync::Mutex is released by every holder.  Calls need not be made,  *)
(* I/O need not fail, nothing need crash or wake up by itself.             *)
(***************************************************************************)
Fairness ==
    /\ \A w \in Writers : WF_vars(WriterSteps(w))
    /\ \A f \in Flushers : WF_vars(fpc[f] # "idle" /\ FlusherSteps(f))
    /\ WF_vars(BgSteps)

FairSpec == Spec /\ Fairness

-----------------------------------------------------------------------------
Pcs == {"idle", "follow", "room", "append", "sync", "insert", "finish", "ok", "err", "dead"}
Committing == {"append", "sync", "insert", "finish"}
Stored == mem \cup imm \cup tables

QueueType ==
    /\ writers \in Seq(Writers)
    /\ wpc \in [Writers -> Pcs]
    /\ result \in [Writers -> {"none", "ok", "err"}]
    /\ delayed \subseteq Writers /\ waiting \subseteq Threads
    /\ fpc \in [Flushers -> {"idle", "w1", "w2", "w3", "ok", "err", "dead"}]
GroupType ==
    /\ glen \in Nat /\ held \in Nat
    /\ target \in {"none", "mem", "imm", "gone"}
    /\ cstatus \in {"ok", "err", "sync_err"}
MemType ==
    /\ mem \subseteq Writers /\ imm \subseteq Writers
    /\ has_imm \in BOOLEAN /\ mem_memory_usage \in Nat
VerType ==
    /\ tables \subseteq Writers /\ l0 \in Nat
    /\ manifest \in [log : Nat, tables : SUBSET Writers, l0 : Nat, seq : Nat, next : Nat]
SeqType ==
    /\ last_sequence \in Nat
    /\ recno \in [Writers -> Nat] /\ seqno \in [Writers -> Nat]
LogType ==
    /\ log_file \in Nat /\ log_file_number \in Nat /\ next_file_number \in Nat
DiskType ==
    /\ logs \subseteq Nat /\ wal \in [Writers -> Nat]
    /\ synced \subseteq Writers /\ torn \subseteq Nat /\ unreadable \subseteq Writers
    /\ lost \subseteq Writers
BgType ==
    /\ bgpc \in {"check", "park", "step", "collect", "build", "install", "drain",
                 "compact", "done", "fail"}
    /\ bg_work_scheduled \in BOOLEAN /\ bg_work_running \in BOOLEAN /\ token \in BOOLEAN
    /\ flush \in [entries : SUBSET Writers, log : Nat]
    /\ outputs \in Nat

(* Every variable of the write path has its type. *)
TypeOK ==
    /\ QueueType /\ GroupType /\ MemType /\ VerType /\ SeqType /\ LogType
    /\ DiskType /\ BgType
    /\ bg_error \in BOOLEAN /\ faults \in Nat /\ crashes \in Nat

(***************************************************************************)
(* A batch write_owned has returned Ok for is in a memtable or a table of  *)
(* the current version, where get finds it.  Only a power failure takes    *)
(* one away, and never one that was written with WriteOptions::sync.       *)
(***************************************************************************)
AckedVisible ==
    \A w \in Writers : wpc[w] = "ok" => w \in Stored \cup (lost \ SyncWriters)

(***************************************************************************)
(* A batch write_owned has returned Ok for can be rebuilt from disk at any *)
(* time: it is in a table the MANIFEST names, or its record is in a log    *)
(* open replays; a sync one is in a synced record.  This is what makes the *)
(* order install table - delete logs - drop imm of compact_memtable_async  *)
(* matter.                                                                 *)
(***************************************************************************)
AckedDurable ==
    \A w \in Writers : wpc[w] = "ok" =>
        \/ w \in manifest.tables
        \/ w \in Replayable /\ (w \in SyncWriters => w \in synced)
        \/ w \in lost \ SyncWriters

(***************************************************************************)
(* The queue makes its front the only writer in the unlocked part of       *)
(* write_owned, and the log file is in the core whenever nobody is there   *)
(* (the "log file is missing" expectation cannot fail).                    *)
(***************************************************************************)
OneCommitter ==
    /\ \A w \in Writers : wpc[w] \in Committing => AtFront(w) /\ glen \in 1..Len(writers)
    /\ (\A w \in Writers : wpc[w] \notin Committing) => log_file # 0

(***************************************************************************)
(* The sequence numbers of a group that is being inserted lie above        *)
(* last_sequence, so no read sees a part of it; everything else that is    *)
(* stored lies at or below it, and no two stored batches share a number.   *)
(***************************************************************************)
ReadsSeeWholeGroups ==
    /\ \A x \in Stored : seqno[x] > last_sequence <=> x \in Group
    /\ \A x, y \in Stored : seqno[x] = seqno[y] => x = y

(***************************************************************************)
(* While compact_memtable_async builds its table without the mutex, imm    *)
(* and log_file_number stay what it captured: the log number it records    *)
(* and the logs it deletes agree, and imm holds nothing the table misses.  *)
(***************************************************************************)
FlushCaptureStable ==
    bgpc \in {"build", "install"} =>
        has_imm /\ flush.entries = imm /\ flush.log = log_file_number

(***************************************************************************)
(* A batch the MANIFEST's tables hold is in no log the next open replays:  *)
(* replaying it again would give old data a newer level-0 table.           *)
(***************************************************************************)
NoDoubleReplay == manifest.tables \cap Replayable = {}

(***************************************************************************)
(* The write path implements DurableStore: reads see what is stored at or  *)
(* below last_sequence, and what the MANIFEST's tables hold is durable.    *)
(***************************************************************************)
Visible == {x \in Stored : seqno[x] <= last_sequence}
Durable == manifest.tables \cup {w \in SyncWriters : wpc[w] = "ok"}
CallStatus ==
    [w \in Writers |-> IF wpc[w] \in {"idle", "ok", "err", "dead"} THEN wpc[w] ELSE "pending"]

Store == INSTANCE DurableStore
            WITH call <- CallStatus, visible <- Visible, durable <- Durable

ImplementsDurableStore == Store!Spec

(***************************************************************************)
(* open's new log is "beyond any replayed log".                            *)
(***************************************************************************)
FreshLogBeyondReplayed ==
    [][crashes' # crashes =>
         \A x \in Replayable \cap tables' : wal[x] < log_file_number']_vars

(***************************************************************************)
(* Every write call returns: no writer is left in the queue or in the      *)
(* condition variable.                                                     *)
(***************************************************************************)
EveryWriteReturns ==
    \A w \in Writers : wpc[w] # "idle" ~> wpc[w] \in {"ok", "err", "dead"}

(* Every force_flush call returns. *)
EveryFlushReturns ==
    \A f \in Flushers : fpc[f] # "idle" ~> fpc[f] \in {"ok", "err", "dead"}

(* With a sticky bg_error the background thread comes to rest in its wait. *)
BgRestsAfterError == bg_error ~> bgpc = "park"
=============================================================================
