----------------------------- MODULE Background -----------------------------
(***************************************************************************)
(* Who may change the set of tables, and when a table file may go: the     *)
(* background thread (bg_loop, bg_step_async), the callers of              *)
(* maybe_compact and compact_range, iterators that pin a version, and the  *)
(* Drop of the handle (src/db_impl/db_impl.rs).  Every action is a section *)
(* under the DB mutex, or the unlocked work between two of them; condition *)
(* variable waits and the thread's park token are explicit.                *)
(*                                                                         *)
(* Tables are numbers; what they hold is Levels' subject, how the version  *)
(* is made durable Manifest's, how memtables fill WritePath's.             *)
(***************************************************************************)
EXTENDS Integers, FiniteSets

CONSTANTS
    Clients,     \* callers of maybe_compact and compact_range, one call each
    Iterators,
    MaxTable,    \* bound: table numbers
    MaxRounds,   \* bound: compactions of each actor
    MaxFaults,   \* bound: I/O errors
    MaxUsers     \* bound: calls in progress and iterators, together

ASSUME BackgroundAssumption ==
    /\ MaxTable \in Nat /\ MaxRounds \in Nat /\ MaxFaults \in Nat /\ MaxUsers \in Nat
    /\ "bg" \notin Clients /\ IsFiniteSet(Iterators)

VARIABLES
    bg,          \* where the background thread is
    token,       \* its park token
    bg_work_scheduled, bg_work_running, manual_compaction_running,
    bg_error, shutting_down,
    imm,         \* the memtable to flush: "none", "empty" or "full"
    seek,        \* the current version has a file_to_compact
    call,        \* where each client is
    asleep,      \* the clients waiting on the condition variable
    inputs,      \* the tables each actor's compaction reads
    outputs,     \* the tables each actor has written and not yet installed
    rounds,      \* compactions of each actor
    version,     \* the tables of the current version
    disk,        \* the table files
    next,        \* the next table number
    pinned,      \* what each iterator reads, NoVersion when it does not exist
    active_iterators,
    obsolete,    \* obsolete_table_file_numbers
    faults

flags == <<bg_work_scheduled, bg_work_running, manual_compaction_running>>
life == <<bg_error, shutting_down>>
work == <<inputs, outputs, rounds>>
tree == <<version, disk, next, obsolete>>
iters == <<pinned, active_iterators>>
vars == <<bg, token, flags, life, imm, seek, call, asleep, work, tree, iters, faults>>

Actors == Clients \cup {"bg"}
NoVersion == {0}
Stages == {"idle", "maybe", "rotate", "flush", "range", "compact", "clear", "failed", "returned"}

Init ==
    /\ bg = "check" /\ token = FALSE
    /\ bg_work_scheduled = FALSE /\ bg_work_running = FALSE /\ manual_compaction_running = FALSE
    /\ bg_error = FALSE /\ shutting_down = FALSE /\ imm = "none" /\ seek = FALSE
    /\ call = [c \in Clients |-> "idle"] /\ asleep = {}
    /\ inputs = [a \in Actors |-> {}] /\ outputs = [a \in Actors |-> {}] /\ rounds = [a \in Actors |-> 0]
    /\ version = {} /\ disk = {} /\ next = 1 /\ obsolete = {}
    /\ pinned = [i \in Iterators |-> NoVersion] /\ active_iterators = 0
    /\ faults = 0

NotifyAll == asleep' = {}

(* Mutant: the flag is set and the thread is left parked. *)
ScheduleNoUnpark ==
    /\ bg_work_scheduled' = TRUE /\ NotifyAll
    /\ UNCHANGED <<token, bg_work_running, manual_compaction_running>>

(* bg_work_scheduled = true; unpark; notify_all. *)
Schedule ==
    /\ bg_work_scheduled' = TRUE /\ token' = TRUE /\ NotifyAll
    /\ UNCHANGED <<bg_work_running, manual_compaction_running>>
InCall(c) == call[c] \notin {"idle", "returned"}
RoomForUser == Cardinality({c \in Clients : InCall(c)}) + active_iterators < MaxUsers
-----------------------------------------------------------------------------
(* Writers and readers: a full memtable, a read that uses up a file's seeks *)
(* (an iterator's sampler may do so after the handle is gone).             *)
RotateMem ==
    /\ imm = "none" /\ ~bg_error /\ ~shutting_down /\ next < MaxTable
    /\ imm' = "full" /\ Schedule
    /\ UNCHANGED <<bg, life, seek, call, work, tree, iters, faults>>

ReadSchedulesSeek ==
    /\ version # {} /\ (shutting_down => active_iterators > 0)
    /\ rounds["bg"] < MaxRounds
    /\ seek' = TRUE /\ Schedule
    /\ UNCHANGED <<bg, life, imm, call, work, tree, iters, faults>>

NewIterator(i) ==
    /\ RoomForUser /\ pinned[i] = NoVersion /\ ~bg_error /\ ~shutting_down
    /\ pinned' = [pinned EXCEPT ![i] = version]
    /\ active_iterators' = active_iterators + 1
    /\ UNCHANGED <<bg, token, flags, life, imm, seek, call, asleep, work, tree, faults>>

(* Mutant: the count is compared before it is decremented. *)
ReleaseIteratorLate(i) ==
    /\ pinned[i] # NoVersion
    /\ pinned' = [pinned EXCEPT ![i] = NoVersion]
    /\ active_iterators' = active_iterators - 1
    /\ IF active_iterators = 0 THEN disk' = disk \ obsolete /\ obsolete' = {}
                               ELSE UNCHANGED <<disk, obsolete>>
    /\ UNCHANGED <<bg, token, flags, life, imm, seek, call, asleep, work, version, next, faults>>

(* The iterator's drop hook; it may outlive the DBImpl. *)
ReleaseIterator(i) ==
    /\ pinned[i] # NoVersion
    /\ pinned' = [pinned EXCEPT ![i] = NoVersion]
    /\ active_iterators' = active_iterators - 1
    /\ IF active_iterators = 1 THEN disk' = disk \ obsolete /\ obsolete' = {}
                               ELSE UNCHANGED <<disk, obsolete>>
    /\ UNCHANGED <<bg, token, flags, life, imm, seek, call, asleep, work, version, next, faults>>
-----------------------------------------------------------------------------
(* What bg and manual compactions share (do_compaction_work_async).        *)
Pick(a, ts) ==
    /\ rounds[a] < MaxRounds
    /\ inputs' = [inputs EXCEPT ![a] = ts] /\ rounds' = [rounds EXCEPT ![a] = @ + 1]
    /\ UNCHANGED outputs

(* new_file_number under the mutex, the file written without it. *)
OpenOutput(a) ==
    /\ outputs' = [outputs EXCEPT ![a] = @ \cup {next}]
    /\ disk' = disk \cup {next} /\ next' = next + 1
    /\ UNCHANGED <<inputs, rounds, version, obsolete>>

Forget(a) ==
    /\ inputs' = [inputs EXCEPT ![a] = {}] /\ outputs' = [outputs EXCEPT ![a] = {}]
    /\ UNCHANGED rounds

(* Mutant: inputs are deleted whoever reads them. *)
RetireAtOnce(ts) == disk' = disk \ ts /\ UNCHANGED obsolete

(* retire_table_file_numbers: while an iterator is active nothing is deleted. *)
Retire(ts) ==
    IF active_iterators = 0 THEN disk' = disk \ ts /\ UNCHANGED obsolete
                            ELSE obsolete' = obsolete \cup ts /\ UNCHANGED disk

(* The merge's edit; seek state goes with the old version. *)
InstallMerge(a) ==
    /\ version' = (version \ inputs[a]) \cup outputs[a]
    /\ Retire(inputs[a]) /\ Forget(a)
    /\ seek' = FALSE /\ NotifyAll
    /\ UNCHANGED next

(* The file changes level and keeps its number. *)
InstallMove(a) ==
    /\ Cardinality(inputs[a]) = 1 /\ outputs[a] = {}
    /\ Forget(a) /\ seek' = FALSE /\ NotifyAll
    /\ UNCHANGED tree

Install(a) == InstallMerge(a) \/ InstallMove(a)

(* An error drops the builder; what it wrote stays on disk. *)
Abandon(a) ==
    /\ faults < MaxFaults /\ faults' = faults + 1
    /\ Forget(a) /\ UNCHANGED tree
-----------------------------------------------------------------------------
(* Mutant: the thread does not look at manual_compaction_running. *)
NothingToDoButManual == ~bg_work_scheduled /\ imm = "none"

(* bg_loop *)
NothingToDo == manual_compaction_running \/ (~bg_work_scheduled /\ imm = "none")

BgExits ==
    /\ bg = "check" /\ shutting_down
    /\ bg' = "exited"
    /\ UNCHANGED <<token, flags, life, imm, seek, call, asleep, work, tree, iters, faults>>

BgParks ==
    /\ bg = "check" /\ ~shutting_down /\ NothingToDo
    /\ bg' = "park"
    /\ UNCHANGED <<token, flags, life, imm, seek, call, asleep, work, tree, iters, faults>>

BgUnparks ==
    /\ bg = "park" /\ token
    /\ bg' = "check" /\ token' = FALSE
    /\ UNCHANGED <<flags, life, imm, seek, call, asleep, work, tree, iters, faults>>

BgRefuses ==
    /\ bg = "check" /\ ~shutting_down /\ ~NothingToDo /\ bg_error
    /\ bg_work_scheduled' = FALSE /\ NotifyAll
    /\ UNCHANGED <<bg, token, bg_work_running, manual_compaction_running, life, imm, seek, call,
                   work, tree, iters, faults>>

BgStarts ==
    /\ bg = "check" /\ ~shutting_down /\ ~NothingToDo /\ ~bg_error
    /\ bg_work_scheduled' = FALSE /\ bg_work_running' = TRUE
    /\ bg' = "look"
    /\ UNCHANGED <<token, manual_compaction_running, life, imm, seek, call, asleep, work, tree, iters, faults>>

(* bg_step_async and the first section of compact_memtable_async. *)
BgSkipsFlush ==
    /\ bg = "look" /\ imm # "full"
    /\ imm' = "none" /\ asleep' = IF imm = "empty" THEN {} ELSE asleep
    /\ bg' = "pick"
    /\ UNCHANGED <<token, flags, life, seek, call, work, tree, iters, faults>>

BgCollects ==
    /\ bg = "look" /\ imm = "full"
    /\ OpenOutput("bg") /\ bg' = "flush"
    /\ UNCHANGED <<token, flags, life, imm, seek, call, asleep, iters, faults>>

BgFlushes ==
    /\ bg = "flush"
    /\ version' = version \cup outputs["bg"] /\ Forget("bg")
    /\ imm' = "none" /\ seek' = FALSE /\ NotifyAll
    /\ bg' = "pick"
    /\ UNCHANGED <<token, flags, life, call, disk, next, obsolete, iters, faults>>

(* pick_compaction takes the file_to_compact, or a level over its size;    *)
(* that it finds nothing after finitely many rounds is Levels' DrainEnds.  *)
BgPicks(ts) ==
    /\ bg = "pick" /\ Pick("bg", ts)
    /\ seek' = FALSE /\ bg' = "compact"
    /\ UNCHANGED <<token, flags, life, imm, call, asleep, tree, iters, faults>>

BgWrites ==
    /\ bg = "compact" /\ next < MaxTable /\ OpenOutput("bg")
    /\ UNCHANGED <<bg, token, flags, life, imm, seek, call, asleep, iters, faults>>

BgInstalls ==
    /\ bg = "compact" /\ Install("bg")
    /\ bg' = "pick"
    /\ UNCHANGED <<token, flags, life, imm, call, iters, faults>>

BgEnds ==
    /\ bg = "pick" /\ (rounds["bg"] < MaxRounds => ~seek)
    /\ bg_work_running' = FALSE /\ bg' = "check" /\ NotifyAll
    /\ UNCHANGED <<token, bg_work_scheduled, manual_compaction_running, life, imm, seek, call, work,
                   tree, iters, faults>>

BgFails ==
    /\ bg \in {"flush", "compact"} /\ Abandon("bg")
    /\ bg_work_running' = FALSE /\ bg_error' = TRUE /\ NotifyAll
    /\ bg' = "check"
    /\ UNCHANGED <<token, bg_work_scheduled, manual_compaction_running, shutting_down, imm, seek, call, iters>>
-----------------------------------------------------------------------------
(* Client calls. *)
Awake(c, stage) == call[c] = stage /\ c \notin asleep
Goes(c, stage) == call' = [call EXCEPT ![c] = stage]
Proceeds(c, stage) == Goes(c, stage) /\ UNCHANGED asleep
ClientOnly == UNCHANGED <<bg, token, flags, life, imm, seek, work, tree, iters, faults>>

(* while busy { if bg_error return; cv.wait }, then on to the next stage.  *)
Await(c, busy, stage) ==
    \/ busy /\ bg_error /\ Proceeds(c, "returned")
    \/ busy /\ ~bg_error /\ asleep' = asleep \cup {c} /\ UNCHANGED call
    \/ ~busy /\ Proceeds(c, stage)

Busy == bg_work_scheduled \/ bg_work_running \/ imm # "none"
Occupied == Busy \/ manual_compaction_running

MaybeCompact(c) ==
    /\ RoomForUser /\ Awake(c, "idle") /\ ~shutting_down
    /\ Schedule /\ Goes(c, "maybe")
    /\ UNCHANGED <<bg, life, imm, seek, work, tree, iters, faults>>

MaybeCompactWaits(c) == Awake(c, "maybe") /\ Await(c, Busy, "returned") /\ ClientOnly

(* compact_range calls force_flush, which returns at once with nothing to  *)
(* flush; a pending flush is waited for, and what is rotated after it may  *)
(* be empty.  bg_error is only looked at in the waits.                     *)
CompactRange(c) ==
    /\ RoomForUser /\ Awake(c, "idle") /\ ~shutting_down
    /\ Proceeds(c, "rotate") \/ (imm = "none" /\ Proceeds(c, "range"))
    /\ ClientOnly

RotateWaits(c) == Awake(c, "rotate") /\ imm # "none" /\ Await(c, TRUE, "rotate") /\ ClientOnly

ForceFlush(c) ==
    /\ Awake(c, "rotate") /\ imm = "none"
    /\ imm' \in {"empty"} \cup (IF next < MaxTable THEN {"full"} ELSE {})
    /\ Schedule /\ Goes(c, "flush")
    /\ UNCHANGED <<bg, life, seek, work, tree, iters, faults>>

FlushWaits(c) == Awake(c, "flush") /\ Await(c, imm # "none", "range") /\ ClientOnly

RangeWaits(c) == Awake(c, "range") /\ Occupied /\ Await(c, TRUE, "range") /\ ClientOnly

RangePicks(c, ts) ==
    /\ Awake(c, "range") /\ ~Occupied
    /\ Pick(c, ts)
    /\ manual_compaction_running' = TRUE /\ NotifyAll
    /\ Goes(c, "compact")
    /\ UNCHANGED <<bg, token, bg_work_scheduled, bg_work_running, life, imm, seek, tree, iters, faults>>

(* pick_manual_compaction finds nothing at the last level of the range. *)
RangeDone(c) == Awake(c, "range") /\ ~Occupied /\ Proceeds(c, "returned") /\ ClientOnly

RangeWrites(c) ==
    /\ Awake(c, "compact") /\ next < MaxTable /\ OpenOutput(c)
    /\ UNCHANGED <<bg, token, flags, life, imm, seek, call, asleep, iters, faults>>

RangeInstalls(c) ==
    /\ Awake(c, "compact") /\ Install(c) /\ Goes(c, "clear")
    /\ UNCHANGED <<bg, token, flags, life, imm, iters, faults>>

RangeFails(c) ==
    /\ Awake(c, "compact") /\ Abandon(c) /\ Proceeds(c, "failed")
    /\ UNCHANGED <<bg, token, flags, life, imm, seek, iters>>

(* manual_compaction_running = false; unpark; notify_all; then result?. *)
RangeClears(c) ==
    /\ \/ Awake(c, "clear") /\ Goes(c, "range")
       \/ Awake(c, "failed") /\ Goes(c, "returned")
    /\ manual_compaction_running' = FALSE /\ token' = TRUE /\ NotifyAll
    /\ UNCHANGED <<bg, bg_work_scheduled, bg_work_running, life, imm, seek, work, tree, iters, faults>>

(* Mutant: Drop notifies the condition variable only. *)
DropDbNoUnpark ==
    /\ ~shutting_down /\ \A c \in Clients : ~InCall(c)
    /\ shutting_down' = TRUE /\ NotifyAll
    /\ UNCHANGED <<bg, token, flags, bg_error, imm, seek, call, work, tree, iters, faults>>

(* Drop for DBImpl: no call is in progress, iterators may be; join waits   *)
(* for the thread to exit.                                                 *)
DropDb ==
    /\ ~shutting_down /\ \A c \in Clients : ~InCall(c)
    /\ shutting_down' = TRUE /\ token' = TRUE /\ NotifyAll
    /\ UNCHANGED <<bg, flags, bg_error, imm, seek, call, work, tree, iters, faults>>
-----------------------------------------------------------------------------
Inputs == SUBSET version \ {{}}

BgWork ==
    \/ BgExits \/ BgParks \/ BgUnparks \/ BgRefuses \/ BgStarts \/ BgSkipsFlush \/ BgCollects \/ BgFlushes
    \/ BgWrites \/ BgInstalls \/ BgEnds \/ BgFails
    \/ \E ts \in Inputs : BgPicks(ts)

ClientWork(c) ==
    \/ MaybeCompactWaits(c) \/ RotateWaits(c) \/ ForceFlush(c) \/ FlushWaits(c) \/ RangeWaits(c) \/ RangeDone(c)
    \/ RangeWrites(c) \/ RangeInstalls(c) \/ RangeFails(c) \/ RangeClears(c)
    \/ \E ts \in Inputs : RangePicks(c, ts)

Next ==
    \/ RotateMem \/ ReadSchedulesSeek
    \/ \E i \in Iterators : NewIterator(i) \/ ReleaseIterator(i)
    \/ BgWork
    \/ \E c \in Clients : MaybeCompact(c) \/ CompactRange(c) \/ ClientWork(c)
    \/ DropDb

Spec == Init /\ [][Next]_vars

(* The OS runs the background thread and every client inside a call: weak  *)
(* fairness of BgWork and ClientWork(c), with ENABLED written out.         *)
BgReady ==
    \/ bg \in {"look", "flush", "pick", "compact"}
    \/ bg = "park" /\ token
    \/ bg = "check" /\ (shutting_down \/ NothingToDo \/ ~bg_error \/ bg_work_scheduled \/ asleep # {})
ClientReady(c) == c \notin asleep /\ InCall(c)

FairSpec ==
    /\ Spec
    /\ []<>~BgReady \/ []<><<BgWork>>_vars
    /\ \A c \in Clients : []<>~ClientReady(c) \/ []<><<ClientWork(c)>>_vars
-----------------------------------------------------------------------------
(* The background thread and the callers of compact_range never work on    *)
(* the version at the same time (bg_work_running and                       *)
(* manual_compaction_running reserve it), although both pick inputs under  *)
(* the mutex and replace them long after releasing it.                     *)
Working(a) == IF a = "bg" THEN bg \in {"look", "flush", "pick", "compact"} ELSE call[a] = "compact"
OneVersionChanger == \A a, b \in Actors : Working(a) /\ Working(b) => a = b

(* The tables a compaction reads without the mutex stay in the version and *)
(* on disk until it installs its result.                                   *)
InputsStay == \A a \in Actors : inputs[a] \subseteq version \cap disk

(* A table stays on disk while the current version, or an iterator created *)
(* before a compaction replaced it, may read it (active_iterators,         *)
(* obsolete_table_file_numbers).                                           *)
ReadersFilesStay ==
    /\ version \subseteq disk
    /\ \A i \in Iterators : pinned[i] # NoVersion => pinned[i] \subseteq disk

(* Without I/O errors, once no iterator is left the only table files are   *)
(* those of the current version and of work in progress: what              *)
(* retire_table_file_numbers put off, release_iterator made up for.        *)
NothingLeaks ==
    faults = 0 /\ active_iterators = 0 => disk = version \cup UNION {outputs[a] : a \in Actors}

(* maybe_compact and compact_range return, whatever the background thread, *)
(* other callers and I/O errors do meanwhile.                              *)
CallsReturn == \A c \in Clients : call[c] # "idle" ~> call[c] = "returned"

(* Dropping the handle ends the background thread, so that join returns.   *)
DropEnds == shutting_down ~> bg = "exited"
=============================================================================
