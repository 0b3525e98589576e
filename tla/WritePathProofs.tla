-------------------------- MODULE WritePathProofs --------------------------
(***************************************************************************)
(* Proofs about WritePath, for every number of writers, every size of the  *)
(* buffers and any number of crashes and I/O failures: the discipline of   *)
(* the writer queue (Inv1), and what a crash and what a read find of an    *)
(* acknowledged write (Inv2).  A force_flush racing a writer and a failed  *)
(* WAL append are what the model checker's counterexamples are about;      *)
(* without them Inv2 is inductive.  Under the same conditions, what reads  *)
(* see of a group, that the write path implements DurableStore, and what   *)
(* the numbers of new logs have to do with a batch being replayed twice.   *)
(***************************************************************************)
EXTENDS WritePath, TLAPS

(***************************************************************************)
(* What the queue discipline rests on: a writer that makes room or commits *)
(* is the front of the queue, its group is a prefix of the queue, and file *)
(* numbers are positive (0 stands for "no file").                          *)
(***************************************************************************)
QueueInv ==
    /\ \A w \in Writers : wpc[w] \in Committing \cup {"room"} =>
                             writers # <<>> /\ Head(writers) = w
    /\ \A w \in Writers : wpc[w] \in Committing => glen \in 1..Len(writers) /\ held # 0
    /\ (\A w \in Writers : wpc[w] \notin Committing) => log_file # 0
    /\ next_file_number # 0 /\ manifest.next # 0

Inv1 == TypeOK /\ QueueInv

USE DEF Pcs, Committing, Threads

LEMMA PlaceInRange ==
    ASSUME NEW q, NEW n \in Nat, NEW x, \E i \in 1..n : q[i] = x
    PROVE  Place(q, n, x) \in 1..n
  BY Zenon DEF Place

LEMMA Init1 == Init => Inv1
<1> SUFFICES ASSUME Init PROVE Inv1
  OBVIOUS
<1> USE WritePathAssumption DEF WritePathAssumption, Init
<1>1. QueueType /\ GroupType /\ SeqType /\ LogType
  BY DEF QueueType, GroupType, SeqType, LogType
<1>2. MemType
  BY Zenon DEF MemType
<1>6. DiskType
  BY DEF DiskType
<1>3. VerType
  BY Zenon DEF VerType
<1>4. BgType
  BY Zenon DEF BgType
<1>5. QueueInv
  BY DEF QueueInv
<1> QED
  BY <1>1, <1>2, <1>3, <1>4, <1>5, <1>6, Zenon DEF Inv1, TypeOK

(* A part of the type invariant survives a step that leaves its variables alone. *)
LEMMA TypesStable ==
    /\ QueueType /\ UNCHANGED <<queueVars, fpc>> => QueueType'
    /\ GroupType /\ UNCHANGED groupVars => GroupType'
    /\ MemType /\ UNCHANGED memVars => MemType'
    /\ VerType /\ UNCHANGED verVars => VerType'
    /\ SeqType /\ UNCHANGED seqVars => SeqType'
    /\ LogType /\ UNCHANGED logVars => LogType'
    /\ DiskType /\ UNCHANGED diskVars => DiskType'
    /\ BgType /\ UNCHANGED bgVars => BgType'
<1>1. QueueType /\ UNCHANGED <<queueVars, fpc>> => QueueType'
  BY Zenon DEF QueueType, queueVars
<1>2. GroupType /\ UNCHANGED groupVars => GroupType'
  BY Zenon DEF GroupType, groupVars
<1>3. MemType /\ UNCHANGED memVars => MemType'
  BY Zenon DEF MemType, memVars
<1>4. VerType /\ UNCHANGED verVars => VerType'
  BY Zenon DEF VerType, verVars
<1>5. SeqType /\ UNCHANGED seqVars => SeqType'
  BY Zenon DEF SeqType, seqVars
<1>6. LogType /\ UNCHANGED logVars => LogType'
  BY Zenon DEF LogType, logVars
<1>7. DiskType /\ UNCHANGED diskVars => DiskType'
  BY Zenon DEF DiskType, diskVars
<1>8. BgType /\ UNCHANGED bgVars => BgType'
  BY Zenon DEF BgType, bgVars
<1> QED
  BY Zenon, <1>1, <1>2, <1>3, <1>4, <1>5, <1>6, <1>7, <1>8

(* So does QueueInv when the queue, the group and the log file in the core stay. *)
LEMMA QueueInvStable ==
    ASSUME QueueInv, UNCHANGED <<writers, wpc, glen, held, log_file>>,
           next_file_number' # 0, manifest'.next # 0
    PROVE  QueueInv'
  BY Zenon DEF QueueInv

(* The writer w may run the make-room loop on the queue q. *)
LeaderOf(w, q) ==
    /\ q # <<>> /\ Head(q) = w
    /\ \A x \in Writers : wpc[x] \notin Committing /\ (wpc[x] = "room" => x = w)

(* A new group gets sequence numbers. *)
LEMMA BeginCommitSeq ==
    ASSUME SeqType, NEW w, NEW q \in Seq(Writers), NEW n \in 1..Len(q), BeginCommit(w, q, n)
    PROVE  SeqType'
<1> DEFINE In(x) == \E i \in 1..n : q[i] = x
<1>1. \A x : In(x) => Place(q, n, x) \in Nat
  BY PlaceInRange
<1> HIDE DEF In
<1>2. \A x \in Writers : (IF In(x) THEN last_sequence + Place(q, n, x) ELSE seqno[x]) \in Nat
  BY <1>1 DEF SeqType
<1>3. seqno' = [x \in Writers |-> IF In(x) THEN last_sequence + Place(q, n, x) ELSE seqno[x]]
  BY Zenon DEF BeginCommit, In
<1>4. recno' \in [Writers -> Nat] /\ last_sequence' \in Nat
  BY DEF SeqType, BeginCommit
<1> QED
  BY Zenon, <1>2, <1>3, <1>4 DEF SeqType

(* A new group is a prefix of the queue its leader heads. *)
LEMMA BeginCommitQueue ==
    ASSUME wpc \in [Writers -> Pcs], NEW w \in Writers, NEW q \in Seq(Writers),
           LeaderOf(w, q), NEW n \in 1..Len(q), BeginCommit(w, q, n),
           held' # 0, next_file_number' # 0, manifest'.next # 0
    PROVE  QueueInv'
<1>1. writers' = q /\ glen' = n /\ wpc' = [wpc EXCEPT ![w] = "append"]
  BY Zenon DEF BeginCommit
<1>2. /\ q # <<>> /\ Head(q) = w
      /\ \A x \in Writers : wpc[x] \notin Committing /\ (wpc[x] = "room" => x = w)
  BY ZenonT(30), SMTT(30) DEF LeaderOf
<1>3. \A x \in Writers : wpc'[x] \in Committing \cup {"room"} => x = w
  BY Zenon, <1>1, <1>2
<1>4. wpc'[w] \in Committing
  BY Zenon, <1>1
<1> QED
  BY Zenon, <1>1, <1>2, <1>3, <1>4 DEF QueueInv

(* A failed switch_active_log leaves a new, empty log file or none. *)
LEMMA RotateFailsDisk ==
    ASSUME DiskType, LogType, RotateFails
    PROVE  DiskType'
<1> USE DEF RotateFails
<1>1. CASE UNCHANGED <<logs, wal, torn>>
  BY Zenon, <1>1 DEF DiskType
<1>2. CASE /\ logs' = logs \cup {next_file_number}
           /\ wal' = [x \in Writers |-> IF wal[x] = next_file_number THEN 0 ELSE wal[x]]
           /\ torn' = torn \ {next_file_number}
  BY Zenon, <1>2 DEF DiskType, LogType
<1> QED
  BY Zenon, <1>1, <1>2

LEMMA LeadErrorInv1 ==
    ASSUME Inv1, NEW w \in Writers, NEW q \in Seq(Writers), LeaderOf(w, q),
           LeadError(w, q), UNCHANGED <<verVars, fpc, bg_error, crashes>>
    PROVE  Inv1'
<1> USE DEF Inv1, TypeOK, LeadError, FailQueue
<1>1. QueueType'
  BY DEF QueueType
<1>2. QueueInv'
  BY Zenon DEF QueueInv, QueueType, GroupType, LogType, VerType, groupVars, verVars,
     logVars, LeaderOf
<1> QED
  BY Zenon, <1>1, <1>2, TypesStable

LEMMA LeadSleepInv1 ==
    ASSUME Inv1, NEW w \in Writers, NEW q \in Seq(Writers), LeaderOf(w, q),
           LeadSleep(w, q), UNCHANGED <<verVars, fpc, bg_error, crashes>>
    PROVE  Inv1'
<1> USE DEF Inv1, TypeOK, LeadSleep
<1>1. QueueType'
  BY Zenon DEF QueueType
<1>2. QueueInv'
  BY Zenon DEF QueueInv, QueueType, GroupType, LogType, VerType, groupVars, verVars, logVars, LeaderOf
<1> QED
  BY Zenon, <1>1, <1>2, TypesStable

LEMMA LeadWaitInv1 ==
    ASSUME Inv1, NEW w \in Writers, NEW q \in Seq(Writers), LeaderOf(w, q),
           LeadWait(w, q), UNCHANGED <<verVars, fpc, bg_error, crashes>>
    PROVE  Inv1'
<1> USE DEF Inv1, TypeOK, LeadWait
<1>1. QueueType'
  BY Zenon DEF QueueType
<1>2. QueueInv'
  BY Zenon
     DEF QueueInv, QueueType, GroupType, LogType, VerType, groupVars, verVars, logVars, LeaderOf
<1> QED
  BY Zenon, <1>1, <1>2, TypesStable

LEMMA LeadCommitInv1 ==
    ASSUME Inv1, NEW w \in Writers, NEW q \in Seq(Writers), LeaderOf(w, q),
           LeadCommit(w, q), UNCHANGED <<verVars, fpc, bg_error, crashes>>
    PROVE  Inv1'
<1> USE DEF Inv1, TypeOK, LeadCommit, BeginCommit
<1>1. QueueType'
  BY Zenon DEF QueueType
<1>2. GroupType'
  BY DEF GroupType, LogType
<1>3. SeqType'
  <2> HIDE DEF BeginCommit
  <2>1. PICK n \in 1..Len(q) : BeginCommit(w, q, n)
    BY ZenonT(30), SMTT(30)
  <2> QED
    BY Zenon, <2>1, BeginCommitSeq
<1>4. LogType'
  BY SMTT(30), Z3T(30) DEF LogType
<1>5. QueueInv'
  <2> HIDE DEF BeginCommit
  <2>1. PICK n \in 1..Len(q) : BeginCommit(w, q, n)
    BY ZenonT(30), SMTT(30)
  <2>2. wpc \in [Writers -> Pcs]
    BY ZenonT(30), SMTT(30) DEF QueueType
  <2>3. held' # 0 /\ next_file_number' # 0 /\ manifest'.next # 0
    BY ZenonT(30), SMTT(30) DEF QueueInv, verVars, LeaderOf
  <2> QED
    BY ZenonT(30), SMTT(30), <2>1, <2>2, <2>3, BeginCommitQueue
<1> QED
  BY Zenon, <1>1, <1>2, <1>3, <1>4, <1>5, TypesStable

LEMMA LeadRotateInv1 ==
    ASSUME Inv1, NEW w \in Writers, NEW q \in Seq(Writers), LeaderOf(w, q),
           LeadRotate(w, q), UNCHANGED <<verVars, fpc, bg_error, crashes>>
    PROVE  Inv1'
<1> USE DEF Inv1, TypeOK, LeadRotate, BeginCommit, Rotate, ScheduleWork
<1>1. QueueType'
  BY ZenonT(30), SMTT(30) DEF QueueType
<1>2. GroupType'
  BY SMTT(30), Z3T(30) DEF GroupType, LogType
<1>3. MemType'
  BY Zenon DEF MemType
<1>4. SeqType'
  <2> HIDE DEF BeginCommit
  <2>1. PICK n \in 1..Len(q) : BeginCommit(w, q, n)
    BY Zenon
  <2> QED
    BY Zenon, <2>1, BeginCommitSeq
<1>5. LogType'
  BY SMTT(30), Z3T(30) DEF LogType
<1>6. DiskType'
  BY Zenon DEF DiskType, LogType
<1>7. BgType'
  BY ZenonT(30), SMTT(30) DEF BgType
<1>8. QueueInv'
  <2> HIDE DEF BeginCommit
  <2>1. PICK n \in 1..Len(q) : BeginCommit(w, q, n)
    BY ZenonT(30), SMTT(30)
  <2>2. wpc \in [Writers -> Pcs]
    BY ZenonT(30), SMTT(30) DEF QueueType
  <2>3. held' # 0 /\ next_file_number' # 0 /\ manifest'.next # 0
    BY SMTT(30), Z3T(30) DEF QueueInv, LogType, VerType, verVars
  <2> QED
    BY ZenonT(30), SMTT(30), <2>1, <2>2, <2>3, BeginCommitQueue
<1> QED
  BY Zenon, <1>1, <1>2, <1>3, <1>4, <1>5, <1>6, <1>7, <1>8, TypesStable

LEMMA LeadRotateFailsInv1 ==
    ASSUME Inv1, NEW w \in Writers, NEW q \in Seq(Writers), LeaderOf(w, q),
           LeadRotateFails(w, q), UNCHANGED <<verVars, fpc, bg_error, crashes>>
    PROVE  Inv1'
<1> USE DEF Inv1, TypeOK, LeadRotateFails, RotateFails, FailQueue, Fault
<1>1. QueueType'
  BY SMTT(30), Z3T(30) DEF QueueType
<1>2. LogType'
  BY SMTT(30), Z3T(30) DEF LogType
<1>3. DiskType'
  BY Zenon, RotateFailsDisk
<1>4. QueueInv'
  BY DEF QueueInv, QueueType, GroupType, LogType, VerType, groupVars, verVars, logVars, LeaderOf
<1> QED
  BY SMTT(30), Z3T(30), <1>1, <1>2, <1>3, <1>4, TypesStable

(* Writers: the make-room loop as a whole, then the rest of write_owned. *)
LEMMA LeadInv1 ==
    ASSUME Inv1, NEW w \in Writers, NEW q \in Seq(Writers), LeaderOf(w, q), Lead(w, q)
    PROVE  Inv1'
  BY Zenon, LeadErrorInv1, LeadSleepInv1, LeadWaitInv1, LeadCommitInv1, LeadRotateInv1,
     LeadRotateFailsInv1 DEF Lead

LEMMA EnqueueLeadInv1 ==
    ASSUME Inv1, NEW w \in Writers, EnqueueLead(w)
    PROVE  Inv1'
<1>1. <<w>> \in Seq(Writers) /\ <<w>> # <<>> /\ Head(<<w>>) = w
  OBVIOUS
<1>2. LeaderOf(w, <<w>>)
  BY Zenon, <1>1 DEF EnqueueLead, Inv1, QueueInv, LeaderOf
<1> QED
  BY <1>1, <1>2, LeadInv1, Zenon DEF EnqueueLead

LEMMA TakeLeadInv1 ==
    ASSUME Inv1, NEW w \in Writers, TakeLead(w)
    PROVE  Inv1'
<1>1. writers \in Seq(Writers)
  BY Zenon DEF Inv1, TypeOK, QueueType
<1>2. LeaderOf(w, writers)
  BY Zenon DEF TakeLead, AtFront, Inv1, QueueInv, LeaderOf
<1> QED
  BY Zenon, <1>1, <1>2, LeadInv1 DEF TakeLead

(* The writers of the group being committed are write calls. *)
LEMMA GroupInWriters ==
    ASSUME Inv1, NEW w \in Writers, wpc[w] \in Committing
    PROVE  Group \subseteq Writers /\ glen \in 1..Len(writers)
  BY DEF Inv1, TypeOK, QueueType, GroupType, QueueInv, Group

LEMMA EnqueueFollowInv1 ==
    ASSUME Inv1, NEW w \in Writers, EnqueueFollow(w)
    PROVE  Inv1'
<1> USE DEF Inv1, TypeOK, EnqueueFollow
<1>1. QueueType'
  BY SMTT(30), Z3T(30) DEF QueueType
<1>2. QueueInv'
  BY DEF QueueInv, QueueType, GroupType, LogType, VerType, groupVars, verVars, logVars
<1> QED
  BY Zenon, <1>1, <1>2, TypesStable

LEMMA FollowerReturnsInv1 ==
    ASSUME Inv1, NEW w \in Writers, FollowerReturns(w)
    PROVE  Inv1'
<1> USE DEF Inv1, TypeOK, FollowerReturns
<1>1. QueueType'
  BY Zenon DEF QueueType
<1>2. QueueInv'
  BY Zenon
     DEF QueueInv, QueueType, GroupType, LogType, VerType, groupVars, verVars, logVars
<1> QED
  BY Zenon, <1>1, <1>2, TypesStable

LEMMA FollowerWaitsInv1 ==
    ASSUME Inv1, NEW w \in Writers, FollowerWaits(w)
    PROVE  Inv1'
<1> USE DEF Inv1, TypeOK, FollowerWaits
<1>1. QueueType'
  BY Zenon DEF QueueType
<1>2. QueueInv'
  BY Zenon, QueueInvStable DEF QueueInv, queueVars, groupVars, verVars, logVars
<1> QED
  BY Zenon, <1>1, <1>2, TypesStable

LEMMA AppendWalInv1 ==
    ASSUME Inv1, NEW w \in Writers, AppendWal(w)
    PROVE  Inv1'
<1> USE DEF Inv1, TypeOK, AppendWal
<1>1. QueueType'
  BY Zenon DEF QueueType
<1>2. DiskType'
  BY Zenon, GroupInWriters DEF DiskType, GroupType, Logged
<1>3. QueueInv'
  BY Zenon DEF QueueInv, QueueType, GroupType, LogType, VerType, groupVars, verVars, logVars
<1> QED
  BY Zenon, <1>1, <1>2, <1>3, TypesStable

LEMMA AppendWalFailsInv1 ==
    ASSUME Inv1, NEW w \in Writers, AppendWalFails(w)
    PROVE  Inv1'
<1> USE DEF Inv1, TypeOK, AppendWalFails, Fault
<1>1. QueueType'
  BY Zenon DEF QueueType
<1>2. GroupType'
  BY Zenon DEF GroupType
<1>3. DiskType'
  BY GroupInWriters, Zenon DEF DiskType, GroupType, Logged
<1>4. QueueInv'
  BY ZenonT(30), SMTT(30)
     DEF QueueInv, QueueType, GroupType, LogType, VerType, groupVars, verVars, logVars
<1> QED
  BY SMTT(30), Z3T(30), <1>1, <1>2, <1>3, <1>4, TypesStable

LEMMA SyncWalInv1 ==
    ASSUME Inv1, NEW w \in Writers, SyncWal(w)
    PROVE  Inv1'
<1> USE DEF Inv1, TypeOK, SyncWal
<1>1. QueueType'
  BY Zenon DEF QueueType
<1>2. DiskType'
  BY Zenon DEF DiskType
<1>3. QueueInv'
  BY Zenon DEF QueueInv, QueueType, GroupType, LogType, VerType, groupVars, verVars, logVars
<1> QED
  BY Zenon, <1>1, <1>2, <1>3, TypesStable

LEMMA SyncWalFailsInv1 ==
    ASSUME Inv1, NEW w \in Writers, SyncWalFails(w)
    PROVE  Inv1'
<1> USE DEF Inv1, TypeOK, SyncWalFails, Fault
<1>1. QueueType'
  BY Zenon DEF QueueType
<1>2. GroupType'
  BY Zenon DEF GroupType
<1>3. QueueInv'
  BY Zenon DEF QueueInv, QueueType, GroupType, LogType, VerType, groupVars, verVars, logVars
<1> QED
  BY <1>1, <1>2, <1>3, TypesStable

LEMMA InsertMemInv1 ==
    ASSUME Inv1, NEW w \in Writers, InsertMem(w)
    PROVE  Inv1'
<1> USE DEF Inv1, TypeOK, InsertMem
<1>1. QueueType'
  BY Zenon DEF QueueType
<1>2. MemType'
  BY Zenon, GroupInWriters DEF MemType
<1>3. QueueInv'
  BY ZenonT(30), SMTT(30)
     DEF QueueInv, QueueType, GroupType, LogType, VerType, groupVars, verVars, logVars
<1> QED
  BY Zenon, <1>1, <1>2, <1>3, TypesStable

LEMMA FinishGroupInv1 ==
    ASSUME Inv1, NEW w \in Writers, FinishGroup(w)
    PROVE  Inv1'
<1> USE DEF Inv1, TypeOK, FinishGroup, Status, Published
<1>1. QueueType'
  <2>1. writers' \in Seq(Writers)
    <3>1. \A i \in (glen + 1)..Len(writers) : writers[i] \in Writers
      BY DEF QueueType, GroupType
    <3> QED
      BY SMTT(30), Z3T(30), <3>1 DEF QueueType, GroupType
  <2> QED
    BY Zenon, <2>1 DEF QueueType
<1>2. GroupType'
  BY Zenon DEF GroupType
<1>3. MemType'
  BY SMTT(30), Z3T(30) DEF MemType, GroupType
<1>4. SeqType'
  BY DEF SeqType, GroupType
<1>5. LogType'
  BY ZenonT(30), SMTT(30) DEF LogType, GroupType
<1>6. QueueInv'
  BY ZenonT(30), SMTT(30)
     DEF QueueInv, QueueType, GroupType, LogType, VerType, groupVars, verVars, logVars
<1> QED
  BY Zenon, <1>1, <1>2, <1>3, <1>4, <1>5, <1>6, TypesStable

(* force_flush. *)
LEMMA FlusherWaitsInv1 ==
    ASSUME Inv1, NEW f \in Flushers, FlusherWaits(f)
    PROVE  Inv1'
<1> USE DEF Inv1, TypeOK, FlusherWaits
<1>1. QueueType'
  BY ZenonT(30), SMTT(30) DEF QueueType
<1>2. QueueInv'
  BY Zenon, QueueInvStable DEF QueueInv, queueVars, groupVars, verVars, logVars
<1> QED
  BY Zenon, <1>1, <1>2, TypesStable

LEMMA FlusherReturnsInv1 ==
    ASSUME Inv1, NEW f \in Flushers, FlusherReturns(f)
    PROVE  Inv1'
<1> USE DEF Inv1, TypeOK, FlusherReturns
<1>1. QueueType'
  BY ZenonT(30), SMTT(30) DEF QueueType, queueVars
<1>2. QueueInv'
  BY ZenonT(30), SMTT(30), QueueInvStable DEF QueueInv, queueVars, groupVars, verVars, logVars
<1> QED
  BY Zenon, <1>1, <1>2, TypesStable

LEMMA FlusherRotatesInv1 ==
    ASSUME Inv1, NEW f \in Flushers, FlusherRotates(f)
    PROVE  Inv1'
<1> USE DEF Inv1, TypeOK, FlusherRotates, Rotate, ScheduleWork
<1>1. QueueType'
  BY Zenon DEF QueueType
<1>2. GroupType'
  BY Zenon DEF GroupType, LogType
<1>3. MemType'
  BY Zenon DEF MemType
<1>4. LogType'
  BY SMTT(30), Z3T(30) DEF LogType
<1>5. DiskType'
  BY Zenon DEF DiskType, LogType
<1>6. BgType'
  BY ZenonT(30), SMTT(30) DEF BgType
<1>7. QueueInv'
  BY SMTT(30), Z3T(30)
     DEF QueueInv, QueueType, GroupType, LogType, VerType, groupVars, verVars, logVars
<1> QED
  BY ZenonT(30), SMTT(30), <1>1, <1>2, <1>3, <1>4, <1>5, <1>6, <1>7, TypesStable

LEMMA FlusherRotateFailsInv1 ==
    ASSUME Inv1, NEW f \in Flushers, FlusherRotateFails(f)
    PROVE  Inv1'
<1> USE DEF Inv1, TypeOK, FlusherRotateFails, RotateFails, Fault
<1>1. QueueType'
  BY Zenon DEF QueueType, queueVars
<1>2. LogType'
  BY SMTT(30), Z3T(30) DEF LogType
<1>3. DiskType'
  BY ZenonT(30), SMTT(30), RotateFailsDisk DEF DiskType, LogType
<1>4. QueueInv'
  BY SMTT(30), Z3T(30), QueueInvStable
     DEF QueueInv, queueVars, groupVars, verVars, logVars, LogType
<1> QED
  BY <1>1, <1>2, <1>3, <1>4, TypesStable

(***************************************************************************)
(* The background thread.  Many of its steps, and the wakeups nobody asked *)
(* for, change nothing but its own state and who waits.                    *)
(***************************************************************************)
LEMMA QuietInv1 ==
    ASSUME Inv1, BgType',
           UNCHANGED <<writers, wpc, result, delayed, fpc, groupVars, memVars, verVars,
                       seqVars, logVars, diskVars, crashes>>,
           waiting' \subseteq waiting, bg_error' \in BOOLEAN, faults' \in Nat
    PROVE  Inv1'
<1>1. QueueType'
  BY ZenonT(30), SMTT(30) DEF Inv1, TypeOK, QueueType
<1>2. QueueInv'
  BY Zenon, QueueInvStable DEF Inv1, QueueInv, groupVars, verVars, logVars
<1> QED
  BY Zenon, <1>1, <1>2, TypesStable DEF Inv1, TypeOK

LEMMA BgQuietInv1 ==
    ASSUME Inv1,
           \/ BgParks \/ BgUnparked \/ BgRefuses \/ BgStarts \/ BgLooksAtImm \/ BgBuilds
           \/ BgPicks \/ BgEnds \/ SpuriousWakeup
    PROVE  Inv1'
<1>1. CASE BgParks
  <2>1. BgType' /\ waiting' \subseteq waiting /\ bg_error' \in BOOLEAN /\ faults' \in Nat
    BY Zenon, <1>1 DEF Inv1, TypeOK, BgType, BgParks, queueVars
  <2> QED
    BY ZenonT(30), SMTT(30), <1>1, <2>1, QuietInv1 DEF BgParks, queueVars
<1>2. CASE BgUnparked
  <2>1. BgType' /\ waiting' \subseteq waiting /\ bg_error' \in BOOLEAN /\ faults' \in Nat
    BY <1>2, Zenon DEF Inv1, TypeOK, BgType, BgUnparked, queueVars
  <2> QED
    BY Zenon, <1>2, <2>1, QuietInv1 DEF BgUnparked, queueVars
<1>3. CASE BgRefuses
  <2>1. BgType' /\ waiting' \subseteq waiting /\ bg_error' \in BOOLEAN /\ faults' \in Nat
    BY <1>3, Zenon DEF Inv1, TypeOK, BgType, BgRefuses, queueVars
  <2> QED
    BY Zenon, <1>3, <2>1, QuietInv1 DEF BgRefuses, queueVars
<1>4. CASE BgStarts
  <2>1. BgType' /\ waiting' \subseteq waiting /\ bg_error' \in BOOLEAN /\ faults' \in Nat
    BY <1>4, Zenon DEF Inv1, TypeOK, BgType, BgStarts, queueVars
  <2> QED
    BY Zenon, <1>4, <2>1, QuietInv1 DEF BgStarts, queueVars
<1>5. CASE BgLooksAtImm
  <2>1. BgType' /\ waiting' \subseteq waiting /\ bg_error' \in BOOLEAN /\ faults' \in Nat
    BY Zenon, <1>5 DEF Inv1, TypeOK, BgType, BgLooksAtImm, queueVars
  <2> QED
    BY ZenonT(30), SMTT(30), <1>5, <2>1, QuietInv1 DEF BgLooksAtImm, queueVars
<1>6. CASE BgBuilds
  <2>1. BgType' /\ waiting' \subseteq waiting /\ bg_error' \in BOOLEAN /\ faults' \in Nat
    BY SMTT(30), Z3T(30), <1>6 DEF Inv1, TypeOK, BgType, BgBuilds, Fault, queueVars
  <2> QED
    BY ZenonT(30), SMTT(30), <1>6, <2>1, QuietInv1 DEF BgBuilds, queueVars
<1>7. CASE BgPicks
  <2>1. BgType' /\ waiting' \subseteq waiting /\ bg_error' \in BOOLEAN /\ faults' \in Nat
    BY ZenonT(30), SMTT(30), <1>7 DEF Inv1, TypeOK, BgType, BgPicks, queueVars
  <2> QED
    BY Zenon, <1>7, <2>1, QuietInv1 DEF BgPicks, queueVars
<1>8. CASE BgEnds
  <2>1. BgType' /\ waiting' \subseteq waiting /\ bg_error' \in BOOLEAN /\ faults' \in Nat
    BY <1>8, Zenon DEF Inv1, TypeOK, BgType, BgEnds, queueVars
  <2> QED
    BY Zenon, <1>8, <2>1, QuietInv1 DEF BgEnds, queueVars
<1>9. CASE SpuriousWakeup
  <2>1. BgType' /\ waiting' \subseteq waiting /\ bg_error' \in BOOLEAN /\ faults' \in Nat
    BY ZenonT(30), SMTT(30), <1>9 DEF Inv1, TypeOK, BgType, SpuriousWakeup, queueVars
  <2> QED
    BY ZenonT(30), SMTT(30), <1>9, <2>1, QuietInv1 DEF SpuriousWakeup, queueVars
<1> QED
  BY ZenonT(30), SMTT(30), <1>1, <1>2, <1>3, <1>4, <1>5, <1>6, <1>7, <1>8, <1>9

LEMMA BgFindsNothingInv1 ==
    ASSUME Inv1, BgFindsNothing
    PROVE  Inv1'
<1> USE DEF Inv1, TypeOK, BgFindsNothing, ClearImm
<1>1. QueueType'
  BY Zenon DEF QueueType
<1>2. GroupType'
  BY Zenon DEF GroupType
<1>3. MemType'
  BY Zenon DEF MemType
<1>4. BgType'
  BY ZenonT(30), SMTT(30) DEF BgType
<1>5. QueueInv'
  BY ZenonT(30), SMTT(30), QueueInvStable DEF QueueInv, queueVars, groupVars, verVars, logVars
<1> QED
  BY ZenonT(30), SMTT(30), <1>1, <1>2, <1>3, <1>4, <1>5, TypesStable

LEMMA BgCollectsInv1 ==
    ASSUME Inv1, BgCollects
    PROVE  Inv1'
<1> USE DEF Inv1, TypeOK, BgCollects
<1>1. LogType'
  BY SMTT(30), Z3T(30) DEF LogType
<1>2. BgType'
  BY ZenonT(30), SMTT(30) DEF BgType, MemType, LogType
<1>3. QueueInv'
  BY QueueInvStable DEF QueueInv, queueVars, groupVars, verVars, logVars, LogType
<1> QED
  BY Zenon, <1>1, <1>2, <1>3, TypesStable

(* What a flush or a compaction writes to the MANIFEST. *)
LEMMA EditType ==
    ASSUME Inv1, NEW d \in Nat
    PROVE  /\ {Flushed(d), Compacted(d)} \subseteq
                [log : Nat, tables : SUBSET Writers, l0 : Nat, seq : Nat, next : Nat]
           /\ Flushed(d).next # 0 /\ Compacted(d).next # 0
<1>1. /\ flush.log \in Nat /\ flush.entries \subseteq Writers /\ manifest.log \in Nat
      /\ tables \subseteq Writers /\ last_sequence \in Nat
      /\ next_file_number \in Nat /\ next_file_number # 0
  BY ZenonT(30), SMTT(30) DEF Inv1, TypeOK, QueueInv, VerType, BgType, SeqType, LogType
<1>2. Flushed(d) \in [log : Nat, tables : SUBSET Writers, l0 : Nat, seq : Nat, next : Nat]
      /\ Flushed(d).next # 0
  BY ZenonT(30), SMTT(30), <1>1 DEF Flushed
<1>3. Compacted(d) \in [log : Nat, tables : SUBSET Writers, l0 : Nat, seq : Nat, next : Nat]
      /\ Compacted(d).next # 0
  BY Zenon, <1>1 DEF Compacted
<1> QED
  BY ZenonT(30), SMTT(30), <1>2, <1>3

LEMMA BgInstallsInv1 ==
    ASSUME Inv1, BgInstalls
    PROVE  Inv1'
<1>5. \A d \in {0, 1} : l0 + d \in Nat
  BY DEF Inv1, TypeOK, VerType
<1> USE DEF Inv1, TypeOK, BgInstalls, ClearImm
<1>1. QueueType'
  BY Zenon DEF QueueType
<1>2. GroupType'
  BY Zenon DEF GroupType
<1>3. MemType'
  BY Zenon DEF MemType
<1>4. PICK d \in {0, 1} : l0' = l0 + d /\ manifest' = Flushed(l0 + d)
  BY Zenon
<1>6. VerType' /\ manifest'.next # 0
  <2>1. flush.entries \subseteq Writers /\ tables' = tables \cup flush.entries
    BY Zenon DEF BgType
  <2> QED
    BY <1>4, <1>5, <2>1, EditType, Zenon DEF VerType
<1>7. DiskType'
  BY Zenon DEF DiskType, LiveLogs
<1>8. BgType'
  <2>1. flush' \in [entries : SUBSET Writers, log : Nat]
    OBVIOUS
  <2> QED
    BY <2>1, ZenonT(30) DEF BgType
<1>9. QueueInv'
  BY <1>6, QueueInvStable, Zenon DEF QueueInv, logVars
<1> QED
  BY <1>1, <1>2, <1>3, <1>6, <1>7, <1>8, <1>9, TypesStable, Zenon

LEMMA BgInstallFailsInv1 ==
    ASSUME Inv1, BgInstallFails
    PROVE  Inv1'
<1> USE DEF Inv1, TypeOK, BgInstallFails
<1>1. VerType' /\ manifest'.next # 0
  <2>1. CASE manifest' = manifest
    BY Zenon, <2>1 DEF VerType, QueueInv
  <2>2. ASSUME NEW d \in {0, 1}, manifest' = Flushed(l0 + d) PROVE VerType' /\ manifest'.next # 0
    <3>1. l0 + d \in Nat
      BY DEF VerType
    <3> QED
      BY <2>2, <3>1, EditType, Zenon DEF VerType
  <2> QED
    BY <2>1, <2>2, Zenon
<1>2. BgType'
  BY Zenon DEF BgType
<1>3. faults' \in Nat
  BY SMTT(30), Z3T(30) DEF Fault
<1>4. QueueInv'
  BY ZenonT(30), SMTT(30), <1>1, QueueInvStable DEF QueueInv, queueVars, groupVars, logVars
<1> QED
  BY <1>1, <1>2, <1>3, <1>4, TypesStable, Zenon

LEMMA BgOpensOutputInv1 ==
    ASSUME Inv1, BgOpensOutput
    PROVE  Inv1'
<1> USE DEF Inv1, TypeOK, BgOpensOutput
<1>1. LogType'
  BY DEF LogType
<1>2. BgType'
  BY SMTT(30), Z3T(30) DEF BgType
<1>3. QueueInv'
  BY QueueInvStable DEF QueueInv, queueVars, groupVars, verVars, logVars, LogType
<1> QED
  BY Zenon, <1>1, <1>2, <1>3, TypesStable

LEMMA BgCompactsInv1 ==
    ASSUME Inv1, BgCompacts
    PROVE  Inv1'
<1> USE DEF Inv1, TypeOK, BgCompacts
<1>1. QueueType'
  BY Zenon DEF QueueType
<1>2. VerType' /\ manifest'.next # 0
  <2>1. PICK n \in 0..(l0 - 1) : l0' = n /\ manifest' = Compacted(n)
    BY Zenon
  <2>2. n \in Nat
    BY DEF VerType
  <2> QED
    BY <2>1, <2>2, EditType, Zenon DEF VerType
<1>3. BgType'
  BY Zenon DEF BgType
<1>4. QueueInv'
  BY Zenon, <1>2, QueueInvStable DEF QueueInv, groupVars, logVars
<1> QED
  BY <1>1, <1>2, <1>3, <1>4, TypesStable, Zenon

LEMMA BgCompactFailsInv1 ==
    ASSUME Inv1, BgCompactFails
    PROVE  Inv1'
<1> USE DEF Inv1, TypeOK, BgCompactFails
<1>1. VerType' /\ manifest'.next # 0
  <2>1. CASE manifest' = manifest
    BY Zenon, <2>1 DEF VerType, QueueInv
  <2>2. ASSUME NEW n \in 0..(l0 - 1), manifest' = Compacted(n) PROVE VerType' /\ manifest'.next # 0
    <3>1. n \in Nat
      BY DEF VerType
    <3> QED
      BY <2>2, <3>1, EditType, Zenon DEF VerType
  <2> QED
    BY <2>1, <2>2, Zenon
<1>2. BgType'
  BY Zenon DEF BgType
<1>3. faults' \in Nat
  BY SMTT(30), Z3T(30) DEF Fault
<1>4. QueueInv'
  BY Zenon, <1>1, QueueInvStable DEF QueueInv, queueVars, groupVars, logVars
<1> QED
  BY <1>1, <1>2, <1>3, <1>4, TypesStable, Zenon

(* The crash and the next open. *)
LEMMA CrashAndOpenInv1 ==
    ASSUME Inv1, CrashAndOpen
    PROVE  Inv1'
<1> USE DEF Inv1, TypeOK
<1>1. PICK K \in SUBSET Replayable : Survive(K) /\ Reopen(K)
  BY Zenon DEF CrashAndOpen
<1>2. K \subseteq Writers /\ Replayable \subseteq Writers
  BY Zenon DEF Replayable
<1>3. OpenLog(K) \in Nat /\ OpenLog(K) # 0
  BY DEF OpenLog, VerType, QueueInv
<1>4. QueueType' /\ GroupType'
  <2>1. QueueType'
    BY SMTT(30), Z3T(30) DEF CrashAndOpen, QueueType
  <2>2. GroupType'
    BY Zenon DEF CrashAndOpen, GroupType
  <2> QED
    BY ZenonT(30), SMTT(30), <2>1, <2>2
<1>5. BgType'
  <2>1. /\ bgpc' = "check" /\ bg_work_scheduled' = FALSE /\ bg_work_running' = FALSE
        /\ token' = FALSE /\ flush' = [entries |-> {}, log |-> 0] /\ outputs' = 0
    BY Zenon DEF CrashAndOpen
  <2> QED
    BY <2>1, Zenon DEF BgType
<1>6. MemType' /\ LogType'
  <2>1. /\ mem' = {} /\ imm' = {} /\ has_imm' = FALSE /\ mem_memory_usage' = 0
        /\ next_file_number' = IF K = {} THEN OpenLog(K) + 2 ELSE OpenLog(K) + 1
        /\ log_file' = OpenLog(K) /\ log_file_number' = OpenLog(K)
    BY <1>1, Zenon DEF Reopen
  <2>2. MemType'
    BY <2>1, Zenon DEF MemType
  <2>3. LogType'
    BY SMTT(30), Z3T(30), <1>3, <2>1 DEF LogType
  <2> QED
    BY Zenon, <2>2, <2>3
<1>7. SeqType' /\ l0' \in Nat
  <2>1. /\ \E d \in IF K = {} THEN {0} ELSE {0, 1} : l0' = manifest.l0 + d
        /\ \E m \in {manifest.seq} \cup {seqno[x] : x \in K} : last_sequence' = m
        /\ UNCHANGED <<recno, seqno>>
    BY <1>1, Zenon DEF Reopen, CrashAndOpen
  <2> QED
    BY <1>2, <2>1 DEF SeqType, VerType
<1>8. VerType' /\ manifest'.next # 0
  <2>1. /\ tables' = manifest.tables \cup K
        /\ manifest' = [log |-> OpenLog(K), tables |-> tables', l0 |-> l0',
                        seq |-> last_sequence', next |-> OpenLog(K) + 1]
    BY <1>1, Zenon DEF Reopen
  <2>2. tables' \subseteq Writers
    BY Zenon, <1>2, <2>1 DEF VerType
  <2> QED
    BY <1>3, <1>7, <2>1, <2>2 DEF VerType, SeqType
<1>9. DiskType'
  <2>1. /\ logs' = {OpenLog(K)} \cup {n \in logs : n > OpenLog(K)}
        /\ wal' = [x \in Writers |-> IF x \in K /\ wal[x] > OpenLog(K) THEN wal[x] ELSE 0]
        /\ torn' = {n \in torn : n > OpenLog(K)}
        /\ synced' = synced \cup K /\ lost' = lost \cup (Replayable \ K)
        /\ unreadable' = unreadable
    BY <1>1, Zenon DEF Reopen, CrashAndOpen
  <2> QED
    BY <1>2, <1>3, <2>1, Zenon DEF DiskType
<1>10. QueueInv'
  <2>1. /\ log_file' = OpenLog(K)
        /\ next_file_number' = IF K = {} THEN OpenLog(K) + 2 ELSE OpenLog(K) + 1
        /\ wpc' = [w \in Writers |-> IF wpc[w] \in {"idle", "ok", "err"} THEN wpc[w] ELSE "dead"]
    BY <1>1, Zenon DEF Reopen, CrashAndOpen
  <2>2. \A w \in Writers : wpc'[w] \notin Committing \cup {"room"}
    BY Zenon, <2>1
  <2> QED
    BY <1>3, <1>8, <2>1, <2>2 DEF QueueInv
<1>11. bg_error' \in BOOLEAN
  BY Zenon DEF CrashAndOpen
<1>12. faults' \in Nat /\ crashes' \in Nat
  BY DEF CrashAndOpen
<1> QED
  BY Zenon, <1>4, <1>5, <1>6, <1>7, <1>8, <1>9, <1>10, <1>11, <1>12

LEMMA Next1 == Inv1 /\ [Next]_vars => Inv1'
<1> SUFFICES ASSUME Inv1, [Next]_vars PROVE Inv1'
  OBVIOUS
<1>1. CASE Calls
  BY ZenonT(30), SMTT(30), <1>1, EnqueueLeadInv1, EnqueueFollowInv1 DEF Calls
<1>2. ASSUME NEW w \in Writers, WriterSteps(w) PROVE Inv1'
  BY ZenonT(30), SMTT(30), <1>2, TakeLeadInv1, FollowerReturnsInv1, FollowerWaitsInv1, AppendWalInv1,
     AppendWalFailsInv1, SyncWalInv1, SyncWalFailsInv1, InsertMemInv1, FinishGroupInv1
     DEF WriterSteps
<1>3. ASSUME NEW f \in Flushers, FlusherSteps(f) PROVE Inv1'
  BY Zenon, <1>3, FlusherWaitsInv1, FlusherReturnsInv1, FlusherRotatesInv1,
     FlusherRotateFailsInv1 DEF FlusherSteps
<1>4. CASE BgSteps
  BY Zenon, <1>4, BgQuietInv1, BgFindsNothingInv1, BgCollectsInv1, BgInstallsInv1,
     BgInstallFailsInv1, BgOpensOutputInv1, BgCompactsInv1, BgCompactFailsInv1
     DEF BgSteps
<1>5. CASE SpuriousWakeup \/ CrashAndOpen
  BY Zenon, <1>5, BgQuietInv1, CrashAndOpenInv1
<1>6. CASE UNCHANGED vars
  BY <1>6, TypesStable, QueueInvStable, Zenon
     DEF vars, Inv1, TypeOK, QueueInv, queueVars, groupVars, verVars, logVars
<1> QED
  BY Zenon, <1>1, <1>2, <1>3, <1>4, <1>5, <1>6 DEF Next

(* The type invariant and the queue discipline hold in every reachable state. *)
THEOREM Inv1Holds == Spec => []Inv1
  BY Init1, Next1, PTL DEF Spec

(***************************************************************************)
(* Whatever the writers, force_flush calls, I/O failures and crashes do,   *)
(* every variable of the write path keeps its type.                        *)
(***************************************************************************)
THEOREM TypeCorrect == Spec => []TypeOK
<1>1. Inv1 => TypeOK
  BY ZenonT(30), SMTT(30) DEF Inv1
<1> QED
  BY <1>1, Inv1Holds, PTL

(***************************************************************************)
(* At most one writer is in the unlocked part of write_owned, it is the    *)
(* front of the queue, and whoever gets there finds the log file.          *)
(***************************************************************************)
THEOREM SingleCommitter == Spec => []OneCommitter
<1>1. Inv1 => OneCommitter
  BY Zenon DEF Inv1, QueueInv, OneCommitter, AtFront
<1> QED
  BY <1>1, Inv1Holds, PTL

-----------------------------------------------------------------------------
(***************************************************************************)
(* The group being committed goes to the log and the memtable that are     *)
(* current, and is in the log (on disk, for a sync leader) before it is in *)
(* the memtable.                                                           *)
(***************************************************************************)
CommitInv ==
    /\ \A w \in Writers : wpc[w] \in Committing =>
          /\ held = log_file_number /\ target = "mem"
          /\ \A x \in Group : x \in SyncWriters => w \in SyncWriters
          /\ wpc[w] # "finish" => cstatus = "ok"
          /\ wpc[w] \in {"sync", "insert"} => \A x \in Group : wal[x] = log_file_number
          /\ wpc[w] = "insert" => Group \cap SyncWriters \subseteq synced
          /\ wpc[w] = "finish" /\ cstatus = "ok" => Group \subseteq mem
    /\ log_file \in {0, log_file_number}

(* The current log exists and is one that open replays, without damage.    *)
LogInv ==
    /\ log_file_number \in logs /\ log_file_number < next_file_number
    /\ log_file_number >= manifest.log
    /\ torn = {} /\ unreadable = {}

(* A flush has failed, perhaps after its edit reached the MANIFEST, and no *)
(* other will be tried.                                                    *)
FlushGaveUp == bgpc = "fail" \/ (bg_error /\ bgpc \in {"check", "park"})

(* What each memtable holds is on disk: in the current log, or in an older *)
(* one that open replays or whose contents the MANIFEST's tables have.     *)
MemInv ==
    /\ \A x \in mem : wal[x] = log_file_number
    /\ \A x \in imm : /\ wal[x] \in logs
                      /\ \/ wal[x] >= manifest.log
                         \/ x \in manifest.tables /\ FlushGaveUp
    /\ (mem \cup imm) \cap SyncWriters \subseteq synced
    /\ tables \subseteq manifest.tables
    /\ ~has_imm => imm = {}

FlushInv ==
    /\ bgpc = "collect" => has_imm
    /\ bgpc \in {"build", "install"} =>
          has_imm /\ flush.entries = imm /\ flush.log = log_file_number

AckInv ==
    \A w \in Writers : wpc[w] = "ok" \/ result[w] = "ok" =>
                           w \in Stored \cup (lost \ SyncWriters)

Inv2 == CommitInv /\ LogInv /\ MemInv /\ FlushInv /\ AckInv

(* Each part survives a step that leaves alone what it speaks of. *)
LEMMA CommitInvStable ==
    ASSUME CommitInv, UNCHANGED <<writers, wpc, glen, held, target, cstatus, log_file,
                                  log_file_number, wal, synced, mem>>
    PROVE  CommitInv'
  BY Zenon DEF CommitInv, Group

(* Nobody commits, or the one who does is not the one that moves. *)
LEMMA CommitInvNone ==
    ASSUME \A x \in Writers : wpc'[x] \notin Committing, log_file' \in {0, log_file_number'}
    PROVE  CommitInv'
  BY Zenon DEF CommitInv

LEMMA CommitInvMoves ==
    ASSUME CommitInv,
           \A x \in Writers : wpc'[x] \in Committing => wpc'[x] = wpc[x] /\ Group' = Group,
           UNCHANGED <<held, target, cstatus, log_file, log_file_number, wal, synced, mem>>
    PROVE  CommitInv'
<1>1. log_file' \in {0, log_file_number'}
  BY Zenon DEF CommitInv
<1>2. ASSUME NEW x \in Writers, wpc'[x] \in Committing
      PROVE  /\ held' = log_file_number' /\ target' = "mem"
             /\ \A y \in Group' : y \in SyncWriters => x \in SyncWriters
             /\ wpc'[x] # "finish" => cstatus' = "ok"
             /\ wpc'[x] \in {"sync", "insert"} => \A y \in Group' : wal'[y] = log_file_number'
             /\ wpc'[x] = "insert" => Group' \cap SyncWriters \subseteq synced'
             /\ wpc'[x] = "finish" /\ cstatus' = "ok" => Group' \subseteq mem'
  <2>1. wpc'[x] = wpc[x] /\ Group' = Group
    BY Zenon, <1>2
  <2> QED
    BY Zenon, <1>2, <2>1 DEF CommitInv
<1> QED
  BY Zenon, <1>1, <1>2 DEF CommitInv

LEMMA LogInvStable ==
    ASSUME LogInv, UNCHANGED <<log_file_number, next_file_number, logs, torn, unreadable>>,
           manifest'.log = manifest.log
    PROVE  LogInv'
  BY Zenon DEF LogInv

LEMMA MemInvStable ==
    ASSUME MemInv, UNCHANGED <<memVars, tables, manifest, log_file_number, wal, logs, synced>>,
           FlushGaveUp => FlushGaveUp'
    PROVE  MemInv'
  BY Zenon DEF MemInv, memVars

LEMMA FlushInvStable ==
    ASSUME FlushInv, UNCHANGED <<bgpc, has_imm, imm, flush, log_file_number>>
    PROVE  FlushInv'
  BY Zenon DEF FlushInv

LEMMA AckInvStable ==
    ASSUME AckInv, UNCHANGED <<result, mem, imm, tables, lost>>,
           \A w \in Writers : wpc'[w] = "ok" => wpc[w] = "ok" \/ result[w] = "ok"
    PROVE  AckInv'
  BY Zenon DEF AckInv, Stored

(***************************************************************************)
(* A step of a writer that only moves it, its followers or the queue.      *)
(***************************************************************************)
LEMMA QueueStepInv2 ==
    ASSUME Inv2, CommitInv', AckInv',
           UNCHANGED <<memVars, tables, manifest, log_file_number, next_file_number,
                       diskVars, bg_error, bgpc, flush>>
    PROVE  Inv2'
<1>1. FlushGaveUp => FlushGaveUp'
  BY Zenon DEF FlushGaveUp
<1>2. MemInv'
  BY Zenon, <1>1, MemInvStable DEF Inv2, diskVars
<1>3. LogInv' /\ FlushInv'
  BY Zenon, LogInvStable, FlushInvStable DEF Inv2, memVars, diskVars
<1> QED
  BY Zenon, <1>2, <1>3 DEF Inv2

(***************************************************************************)
(* A step of the background thread that leaves memtables, logs and queue   *)
(* alone: it may take a file number or record a compaction's edit.         *)
(***************************************************************************)
LEMMA QuietInv2 ==
    ASSUME Inv1, Inv2, FlushInv',
           UNCHANGED <<writers, wpc, result, groupVars, memVars, tables, log_file,
                       log_file_number, diskVars>>,
           next_file_number' \in {next_file_number, next_file_number + 1},
           manifest'.log = manifest.log, tables \subseteq manifest'.tables,
           FlushGaveUp => FlushGaveUp' /\ manifest' = manifest
    PROVE  Inv2'
<1>1. CommitInv'
  BY Zenon, CommitInvStable DEF Inv2, groupVars, memVars, diskVars
<1>2. LogInv'
  BY DEF Inv1, TypeOK, LogType, Inv2, LogInv, diskVars
<1>3. MemInv'
  BY Zenon DEF Inv2, MemInv, memVars, diskVars
<1>4. AckInv'
  BY Zenon, AckInvStable DEF Inv2, memVars, diskVars
<1> QED
  BY Zenon, <1>1, <1>2, <1>3, <1>4 DEF Inv2

LEMMA BgQuietInv2 ==
    ASSUME Inv1, Inv2,
           \/ BgParks \/ BgUnparked \/ BgRefuses \/ BgStarts \/ BgLooksAtImm \/ BgCollects
           \/ BgBuilds \/ BgPicks \/ BgOpensOutput \/ BgEnds \/ SpuriousWakeup
           \/ UNCHANGED vars
    PROVE  Inv2'
<1>1. tables \subseteq manifest.tables
  BY Zenon DEF Inv2, MemInv
<1>2. CASE BgParks
  <2>1. FlushInv' /\ (FlushGaveUp => FlushGaveUp')
    BY <1>2, Zenon DEF Inv2, FlushInv, FlushGaveUp, BgParks, memVars, logVars
  <2> QED
    BY Zenon, <1>1, <1>2, <2>1, QuietInv2 DEF BgParks, queueVars, verVars, logVars
<1>3. CASE BgUnparked
  <2>1. FlushInv' /\ (FlushGaveUp => FlushGaveUp')
    BY <1>3, Zenon DEF Inv2, FlushInv, FlushGaveUp, BgUnparked, memVars, logVars
  <2> QED
    BY Zenon, <1>1, <1>3, <2>1, QuietInv2 DEF BgUnparked, queueVars, verVars, logVars
<1>4. CASE BgRefuses
  <2>1. FlushInv' /\ (FlushGaveUp => FlushGaveUp')
    BY <1>4, Zenon DEF Inv2, FlushInv, FlushGaveUp, BgRefuses, memVars, logVars
  <2> QED
    BY Zenon, <1>1, <1>4, <2>1, QuietInv2 DEF BgRefuses, verVars, logVars
<1>5. CASE BgStarts
  <2>1. FlushInv' /\ (FlushGaveUp => FlushGaveUp')
    BY <1>5, Zenon DEF Inv2, FlushInv, FlushGaveUp, BgStarts, memVars, logVars
  <2> QED
    BY Zenon, <1>1, <1>5, <2>1, QuietInv2 DEF BgStarts, queueVars, verVars, logVars
<1>6. CASE BgLooksAtImm
  <2>1. FlushInv' /\ (FlushGaveUp => FlushGaveUp')
    BY <1>6, Zenon DEF Inv2, FlushInv, FlushGaveUp, BgLooksAtImm, memVars, logVars
  <2> QED
    BY Zenon, <1>1, <1>6, <2>1, QuietInv2 DEF BgLooksAtImm, queueVars, verVars, logVars
<1>7. CASE BgCollects
  <2>1. FlushInv' /\ (FlushGaveUp => FlushGaveUp')
    BY <1>7, Zenon DEF Inv2, FlushInv, FlushGaveUp, BgCollects, memVars, logVars
  <2> QED
    BY Zenon, <1>1, <1>7, <2>1, QuietInv2 DEF BgCollects, queueVars, verVars
<1>8. CASE BgBuilds
  <2>1. FlushInv' /\ (FlushGaveUp => FlushGaveUp')
    BY <1>8, Zenon DEF Inv2, FlushInv, FlushGaveUp, BgBuilds, memVars, logVars
  <2> QED
    BY Zenon, <1>1, <1>8, <2>1, QuietInv2 DEF BgBuilds, queueVars, verVars, logVars
<1>9. CASE BgPicks
  <2>1. FlushInv' /\ (FlushGaveUp => FlushGaveUp')
    BY <1>9, Zenon DEF Inv2, FlushInv, FlushGaveUp, BgPicks, memVars, logVars
  <2> QED
    BY Zenon, <1>1, <1>9, <2>1, QuietInv2 DEF BgPicks, queueVars, verVars, logVars
<1>10. CASE BgOpensOutput
  <2>1. FlushInv' /\ (FlushGaveUp => FlushGaveUp')
    BY <1>10, Zenon DEF Inv2, FlushInv, FlushGaveUp, BgOpensOutput, memVars, logVars
  <2> QED
    BY Zenon, <1>1, <1>10, <2>1, QuietInv2 DEF BgOpensOutput, queueVars, verVars
<1>11. CASE BgEnds
  <2>1. FlushInv' /\ (FlushGaveUp => FlushGaveUp')
    BY <1>11, Zenon DEF Inv2, FlushInv, FlushGaveUp, BgEnds, memVars, logVars
  <2> QED
    BY Zenon, <1>1, <1>11, <2>1, QuietInv2 DEF BgEnds, verVars, logVars
<1>12. CASE SpuriousWakeup
  <2>1. FlushInv' /\ (FlushGaveUp => FlushGaveUp')
    BY <1>12, Zenon DEF Inv2, FlushInv, FlushGaveUp, SpuriousWakeup, memVars, logVars
  <2> QED
    BY Zenon, <1>1, <1>12, <2>1, QuietInv2 DEF SpuriousWakeup, verVars, logVars
<1>13. CASE UNCHANGED vars
  <2>1. FlushInv' /\ (FlushGaveUp => FlushGaveUp')
    BY <1>13, Zenon DEF Inv2, FlushInv, FlushGaveUp, vars, memVars, logVars, bgVars
  <2> QED
    BY Zenon, <1>1, <1>13, <2>1, QuietInv2 DEF vars, queueVars, verVars, logVars
<1> QED
  BY Zenon, <1>2, <1>3, <1>4, <1>5, <1>6, <1>7, <1>8, <1>9, <1>10, <1>11, <1>12, <1>13

LEMMA BgCompactsInv2 ==
    ASSUME Inv1, Inv2, BgCompacts \/ BgCompactFails
    PROVE  Inv2'
<1>1. bgpc = "compact" /\ bgpc' \in {"drain", "fail"}
  BY Zenon DEF BgCompacts, BgCompactFails
<1>2. /\ UNCHANGED <<writers, wpc, result, groupVars, memVars, tables, logVars, diskVars>>
      /\ manifest' = manifest \/ \E n \in 0..(l0 - 1) : manifest' = Compacted(n)
  BY Zenon DEF BgCompacts, BgCompactFails, queueVars
<1>3. manifest'.log = manifest.log /\ tables \subseteq manifest'.tables
  BY <1>2 DEF Compacted, Inv2, MemInv
<1>4. ~FlushGaveUp /\ FlushInv'
  BY <1>1, Zenon DEF FlushGaveUp, FlushInv
<1> QED
  BY Zenon, <1>2, <1>3, <1>4, QuietInv2 DEF logVars

LEMMA LeadErrorInv2 ==
    ASSUME Inv1, Inv2, NEW w \in Writers, NEW q \in Seq(Writers), LeaderOf(w, q),
           LeadError(w, q), UNCHANGED <<verVars, fpc, bg_error, crashes>>
    PROVE  Inv2'
<1> USE DEF LeadError, FailQueue
<1>1. CommitInv'
  <2>1. wpc' = [wpc EXCEPT ![w] = "err"] /\ wpc \in [Writers -> Pcs]
    BY Zenon DEF Inv1, TypeOK, QueueType
  <2>2. \A x \in Writers : wpc[x] \notin Committing
    BY Zenon DEF LeaderOf
  <2>3. \A x \in Writers : wpc'[x] \notin Committing
    BY Zenon, <2>1, <2>2
  <2>4. log_file' \in {0, log_file_number'}
    BY Zenon DEF Inv2, CommitInv, logVars
  <2> QED
    BY Zenon, <2>3, <2>4, CommitInvNone
<1>2. AckInv'
  BY Zenon DEF Inv1, TypeOK, QueueType, Inv2, AckInv, Stored, memVars, verVars, diskVars
<1> QED
  BY ZenonT(30), SMTT(30), <1>1, <1>2, QueueStepInv2 DEF verVars, logVars, bgVars

LEMMA LeadSleepInv2 ==
    ASSUME Inv1, Inv2, NEW w \in Writers, NEW q \in Seq(Writers), LeaderOf(w, q),
           LeadSleep(w, q), UNCHANGED <<verVars, fpc, bg_error, crashes>>
    PROVE  Inv2'
<1> USE DEF LeadSleep
<1>1. CommitInv'
  <2>1. wpc' = [wpc EXCEPT ![w] = "room"] /\ wpc \in [Writers -> Pcs]
    BY Zenon DEF Inv1, TypeOK, QueueType
  <2>2. \A x \in Writers : wpc[x] \notin Committing
    BY Zenon DEF LeaderOf
  <2>3. \A x \in Writers : wpc'[x] \notin Committing
    BY Zenon, <2>1, <2>2
  <2>4. log_file' \in {0, log_file_number'}
    BY Zenon DEF Inv2, CommitInv, logVars
  <2> QED
    BY Zenon, <2>3, <2>4, CommitInvNone
<1>2. AckInv'
  BY Zenon DEF Inv1, TypeOK, QueueType, Inv2, AckInv, Stored, memVars, verVars, diskVars
<1> QED
  BY ZenonT(30), SMTT(30), <1>1, <1>2, QueueStepInv2 DEF verVars, logVars, bgVars

LEMMA LeadWaitInv2 ==
    ASSUME Inv1, Inv2, NEW w \in Writers, NEW q \in Seq(Writers), LeaderOf(w, q),
           LeadWait(w, q), UNCHANGED <<verVars, fpc, bg_error, crashes>>
    PROVE  Inv2'
<1> USE DEF LeadWait
<1>1. CommitInv'
  <2>1. wpc' = [wpc EXCEPT ![w] = "room"] /\ wpc \in [Writers -> Pcs]
    BY Zenon DEF Inv1, TypeOK, QueueType
  <2>2. \A x \in Writers : wpc[x] \notin Committing
    BY Zenon DEF LeaderOf
  <2>3. \A x \in Writers : wpc'[x] \notin Committing
    BY Zenon, <2>1, <2>2
  <2>4. log_file' \in {0, log_file_number'}
    BY Zenon DEF Inv2, CommitInv, logVars
  <2> QED
    BY Zenon, <2>3, <2>4, CommitInvNone
<1>2. AckInv'
  BY Zenon
     DEF Inv1, TypeOK, QueueType, Inv2, AckInv, Stored, memVars, verVars, diskVars
<1> QED
  BY ZenonT(30), SMTT(30), <1>1, <1>2, QueueStepInv2 DEF verVars, logVars, bgVars

(* A new group is held by its leader, for the log and the memtable that    *)
(* are current.                                                            *)
LEMMA BeginCommitGroup ==
    ASSUME wpc \in [Writers -> Pcs], NEW w \in Writers, NEW q \in Seq(Writers),
           LeaderOf(w, q), NEW n \in 1..Len(q), BeginCommit(w, q, n),
           held' = log_file_number'
    PROVE  CommitInv'
<1>1. /\ writers' = q /\ glen' = n /\ wpc' = [wpc EXCEPT ![w] = "append"]
      /\ target' = "mem" /\ cstatus' = "ok" /\ log_file' = 0
      /\ \A i \in 2..n : q[i] \in SyncWriters => w \in SyncWriters
  BY Zenon DEF BeginCommit
<1>2. q # <<>> /\ Head(q) = w /\ \A x \in Writers : wpc[x] \notin Committing
  BY ZenonT(30), SMTT(30) DEF LeaderOf
<1>3. \A x \in Writers : wpc'[x] \in Committing => x = w
  BY Zenon, <1>1, <1>2
<1>4. wpc'[w] = "append"
  BY Zenon, <1>1
<1>5. \A x \in Group' : x \in SyncWriters => w \in SyncWriters
  <2>1. q[1] = w
    BY <1>2
  <2>2. \A i \in 1..n : i = 1 \/ i \in 2..n
    OBVIOUS
  <2> QED
    BY Zenon, <1>1, <2>1, <2>2 DEF Group
<1>6. ASSUME NEW x \in Writers, wpc'[x] \in Committing
      PROVE  /\ held' = log_file_number' /\ target' = "mem"
             /\ \A y \in Group' : y \in SyncWriters => x \in SyncWriters
             /\ wpc'[x] = "append" /\ cstatus' = "ok"
  BY Zenon, <1>1, <1>3, <1>4, <1>5, <1>6
<1>7. log_file' \in {0, log_file_number'}
  BY Zenon, <1>1
<1>8. ASSUME NEW x \in Writers, wpc'[x] = "append"
      PROVE  wpc'[x] \notin {"sync", "insert"} /\ wpc'[x] # "insert" /\ wpc'[x] # "finish"
  BY Zenon, <1>8
<1> QED
  BY Zenon, <1>6, <1>7, <1>8 DEF CommitInv

LEMMA LeadCommitInv2 ==
    ASSUME Inv1, Inv2, NEW w \in Writers, NEW q \in Seq(Writers), LeaderOf(w, q),
           LeadCommit(w, q), UNCHANGED <<verVars, fpc, bg_error, crashes>>
    PROVE  Inv2'
<1>1. CommitInv'
  <2>1. PICK n \in 1..Len(q) : BeginCommit(w, q, n)
    BY ZenonT(30), SMTT(30) DEF LeadCommit
  <2>2. wpc \in [Writers -> Pcs]
    BY ZenonT(30), SMTT(30) DEF Inv1, TypeOK, QueueType
  <2>3. log_file # 0
    BY ZenonT(30), SMTT(30) DEF Inv1, QueueInv, LeaderOf
  <2>4. held' = log_file_number'
    <3>1. held' = log_file /\ log_file_number' = log_file_number
      BY Zenon DEF LeadCommit
    <3>2. log_file \in {0, log_file_number}
      BY Zenon DEF Inv2, CommitInv
    <3> QED
      BY Zenon, <2>3, <3>1, <3>2
  <2> QED
    BY Zenon, <2>1, <2>2, <2>4, BeginCommitGroup
<1>2. AckInv'
  BY Zenon DEF Inv1, TypeOK, QueueType, Inv2, AckInv, Stored, LeadCommit, BeginCommit, memVars,
         verVars, diskVars
<1> QED
  BY ZenonT(30), SMTT(30), <1>1, <1>2, QueueStepInv2 DEF LeadCommit, verVars, bgVars

LEMMA LeadRotateInv2 ==
    ASSUME Inv1, Inv2, NEW w \in Writers, NEW q \in Seq(Writers), LeaderOf(w, q),
           LeadRotate(w, q), UNCHANGED <<verVars, fpc, bg_error, crashes>>
    PROVE  Inv2'
<1>1. CommitInv'
  <2>1. PICK n \in 1..Len(q) : BeginCommit(w, q, n)
    BY Zenon DEF LeadRotate
  <2>2. wpc \in [Writers -> Pcs] /\ held' = log_file_number'
    BY Zenon DEF Inv1, TypeOK, QueueType, LeadRotate, Rotate
  <2> QED
    BY Zenon, <2>1, <2>2, BeginCommitGroup
<1> USE DEF Inv1, TypeOK, Inv2, LeaderOf, LeadRotate, BeginCommit, Rotate, ScheduleWork,
        queueVars, groupVars, memVars, verVars, seqVars, logVars, diskVars, bgVars
<1>2. LogInv'
  <2>1. /\ next_file_number' = next_file_number + 1 /\ log_file_number' = next_file_number
        /\ logs' = logs \cup {next_file_number} /\ torn' = torn \ {next_file_number}
        /\ unreadable' = unreadable /\ manifest' = manifest
    BY Zenon
  <2>2. next_file_number \in Nat /\ log_file_number \in Nat /\ manifest.log \in Nat
    BY Zenon DEF LogType, VerType
  <2>3. /\ log_file_number < next_file_number /\ log_file_number >= manifest.log
        /\ torn = {} /\ unreadable = {}
    BY Zenon DEF LogInv
  <2> HIDE DEF Inv1, TypeOK, Inv2, LeaderOf, LeadRotate, BeginCommit, Rotate
  <2> QED
    BY <2>1, <2>2, <2>3 DEF LogInv
<1>3. MemInv'
  <2>1. imm = {} /\ imm' = mem /\ mem' = {} /\ has_imm'
    BY ZenonT(30), SMTT(30) DEF MemInv
  <2>2. \A x \in mem : wal'[x] = log_file_number
    <3>1. wal' = [x \in Writers |-> IF wal[x] = next_file_number THEN 0 ELSE wal[x]]
      BY Zenon
    <3>2. mem \subseteq Writers /\ (\A x \in mem : wal[x] = log_file_number)
      BY Zenon DEF MemInv, MemType
    <3>3. log_file_number # next_file_number
      <4>1. log_file_number < next_file_number /\ log_file_number \in Nat /\ next_file_number \in Nat
        BY Zenon DEF LogInv, LogType
      <4> HIDE DEF Inv1, TypeOK, Inv2, LeaderOf, LeadRotate, BeginCommit, Rotate
      <4> QED
        BY <4>1
    <3> QED
      BY Zenon, <3>1, <3>2, <3>3
  <2>3. log_file_number \in logs' /\ log_file_number >= manifest'.log
    BY ZenonT(30), SMTT(30) DEF LogInv
  <2>4. tables' = tables /\ manifest' = manifest /\ synced' = synced
    BY ZenonT(30), SMTT(30)
  <2> QED
    BY <2>1, <2>2, <2>3, <2>4, Zenon DEF MemInv
<1>4. FlushInv'
  BY ZenonT(30), SMTT(30) DEF FlushInv, BgType
<1>5. AckInv'
  <2>1. Stored' = Stored /\ lost' = lost
    BY ZenonT(30), SMTT(30) DEF MemInv, Stored
  <2> QED
    BY ZenonT(30), SMTT(30), <2>1 DEF AckInv, QueueType
<1> QED
  BY ZenonT(30), SMTT(30), <1>1, <1>2, <1>3, <1>4, <1>5

LEMMA LeadRotateFailsInv2 ==
    ASSUME Inv1, Inv2, NEW w \in Writers, NEW q \in Seq(Writers), LeaderOf(w, q),
           LeadRotateFails(w, q), UNCHANGED <<verVars, fpc, bg_error, crashes>>
    PROVE  Inv2'
<1> USE DEF Inv1, TypeOK, Inv2, LeaderOf, LeadRotateFails, RotateFails, FailQueue, Fault,
        queueVars, groupVars, memVars, verVars, seqVars, logVars, diskVars, bgVars
<1>1. CommitInv'
  <2>1. wpc' = [wpc EXCEPT ![w] = "err"] /\ wpc \in [Writers -> Pcs]
    BY Zenon DEF QueueType
  <2>2. \A x \in Writers : wpc[x] \notin Committing
    BY Zenon
  <2>3. log_file' \in {0, log_file_number'}
    BY Zenon DEF CommitInv
  <2> HIDE DEF Inv1, TypeOK, Inv2, LeaderOf, LeadRotateFails, RotateFails, FailQueue
  <2>4. \A x \in Writers : wpc'[x] \notin Committing
    BY Zenon, <2>1, <2>2
  <2> QED
    BY Zenon, <2>3, <2>4, CommitInvNone
<1>2. LogInv'
  <2>1. /\ next_file_number' = next_file_number + 1 /\ log_file_number' = log_file_number
        /\ logs' = logs \/ logs' = logs \cup {next_file_number}
        /\ torn' = torn \/ torn' = torn \ {next_file_number}
        /\ unreadable' = unreadable /\ manifest' = manifest
    BY Zenon
  <2>2. next_file_number \in Nat /\ log_file_number \in Nat
    BY Zenon DEF LogType
  <2>3. LogInv
    BY Zenon
  <2> HIDE DEF Inv1, TypeOK, Inv2, LeaderOf, LeadRotateFails, RotateFails, FailQueue
  <2> QED
    BY <2>1, <2>2, <2>3 DEF LogInv
<1>3. MemInv'
  <2>1. imm = {}
    BY ZenonT(30), SMTT(30) DEF MemInv
  <2>2. \A x \in mem : wal'[x] = log_file_number
    <3>1. wal' = wal \/ wal' = [x \in Writers |-> IF wal[x] = next_file_number THEN 0 ELSE wal[x]]
      BY Zenon
    <3>2. mem \subseteq Writers /\ (\A x \in mem : wal[x] = log_file_number)
      BY Zenon DEF MemInv, MemType
    <3>3. log_file_number # next_file_number
      <4>1. log_file_number < next_file_number /\ log_file_number \in Nat /\ next_file_number \in Nat
        BY Zenon DEF LogInv, LogType
      <4> HIDE DEF Inv1, TypeOK, Inv2, LeaderOf, LeadRotateFails, RotateFails, FailQueue
      <4> QED
        BY <4>1
    <3> QED
      BY Zenon, <3>1, <3>2, <3>3
  <2>3. UNCHANGED <<mem, imm, has_imm, tables, manifest, synced, log_file_number>>
    OBVIOUS
  <2> QED
    BY ZenonT(30), SMTT(30), <2>1, <2>2, <2>3 DEF MemInv
<1>4. FlushInv'
  BY ZenonT(30), SMTT(30) DEF FlushInv, BgType
<1>5. AckInv'
  BY Zenon DEF AckInv, Stored, QueueType
<1> QED
  BY ZenonT(30), SMTT(30), <1>1, <1>2, <1>3, <1>4, <1>5

LEMMA LeadInv2 ==
    ASSUME Inv1, Inv2, NEW w \in Writers, NEW q \in Seq(Writers), LeaderOf(w, q), Lead(w, q)
    PROVE  Inv2'
  BY Zenon, LeadErrorInv2, LeadSleepInv2, LeadWaitInv2, LeadCommitInv2, LeadRotateInv2,
     LeadRotateFailsInv2 DEF Lead

LEMMA EnqueueLeadInv2 ==
    ASSUME Inv1, Inv2, NEW w \in Writers, EnqueueLead(w)
    PROVE  Inv2'
<1>1. <<w>> \in Seq(Writers) /\ <<w>> # <<>> /\ Head(<<w>>) = w
  OBVIOUS
<1>2. LeaderOf(w, <<w>>)
  BY Zenon, <1>1 DEF EnqueueLead, Inv1, QueueInv, LeaderOf
<1> QED
  BY ZenonT(30), SMTT(30), <1>1, <1>2, LeadInv2 DEF EnqueueLead

LEMMA TakeLeadInv2 ==
    ASSUME Inv1, Inv2, NEW w \in Writers, TakeLead(w)
    PROVE  Inv2'
<1>1. writers \in Seq(Writers)
  BY Zenon DEF Inv1, TypeOK, QueueType
<1>2. LeaderOf(w, writers)
  BY Zenon DEF TakeLead, AtFront, Inv1, QueueInv, LeaderOf
<1> QED
  BY Zenon, <1>1, <1>2, LeadInv2 DEF TakeLead

LEMMA EnqueueFollowInv2 ==
    ASSUME Inv1, Inv2, NEW w \in Writers, EnqueueFollow(w)
    PROVE  Inv2'
<1> USE DEF EnqueueFollow
<1>1. CommitInv'
  <2>1. /\ wpc' = [wpc EXCEPT ![w] = "follow"] /\ writers' = Append(writers, w)
        /\ UNCHANGED <<glen, held, target, cstatus, log_file, log_file_number, wal, synced, mem>>
    BY Zenon DEF groupVars, memVars, logVars, diskVars
  <2>2. wpc \in [Writers -> Pcs] /\ writers \in Seq(Writers)
    BY Zenon DEF Inv1, TypeOK, QueueType
  <2>3. ASSUME NEW x \in Writers, wpc'[x] \in Committing
        PROVE  wpc'[x] = wpc[x] /\ Group' = Group
    <3>1. wpc'[x] = wpc[x]
      BY Zenon, <2>1, <2>2, <2>3
    <3>2. glen \in 1..Len(writers)
      BY Zenon, <2>3, <3>1 DEF Inv1, QueueInv
    <3>3. \A i \in 1..glen : writers'[i] = writers[i]
      BY <2>1, <2>2, <3>2
    <3> QED
      BY Zenon, <2>1, <3>1, <3>3 DEF Group
  <2> QED
    BY Zenon, <2>1, <2>3, CommitInvMoves DEF Inv2
<1>2. AckInv'
  BY Zenon DEF Inv1, TypeOK, QueueType, Inv2, AckInv, Stored, memVars, verVars, diskVars
<1> QED
  BY ZenonT(30), SMTT(30), <1>1, <1>2, QueueStepInv2 DEF verVars, logVars, bgVars

LEMMA FollowerReturnsInv2 ==
    ASSUME Inv1, Inv2, NEW w \in Writers, FollowerReturns(w)
    PROVE  Inv2'
<1> USE DEF FollowerReturns
<1>1. CommitInv'
  <2>1. /\ wpc' = [wpc EXCEPT ![w] = result[w]]
        /\ UNCHANGED <<writers, glen, held, target, cstatus, log_file, log_file_number, wal,
                       synced, mem>>
    BY Zenon DEF groupVars, memVars, logVars, diskVars
  <2>2. wpc \in [Writers -> Pcs] /\ result[w] \in {"none", "ok", "err"}
    BY Zenon DEF Inv1, TypeOK, QueueType
  <2>3. ASSUME NEW x \in Writers, wpc'[x] \in Committing PROVE wpc'[x] = wpc[x]
    BY Zenon, <2>1, <2>2, <2>3
  <2>4. Group' = Group
    BY Zenon, <2>1 DEF Group
  <2> QED
    BY Zenon, <2>1, <2>3, <2>4, CommitInvMoves DEF Inv2
<1>2. AckInv'
  BY ZenonT(30), SMTT(30)
     DEF Inv1, TypeOK, QueueType, Inv2, AckInv, Stored, memVars, verVars, diskVars
<1> QED
  BY ZenonT(30), SMTT(30), <1>1, <1>2, QueueStepInv2 DEF verVars, logVars, bgVars

LEMMA FollowerWaitsInv2 ==
    ASSUME Inv1, Inv2, NEW w \in Writers, FollowerWaits(w)
    PROVE  Inv2'
<1> USE DEF FollowerWaits
<1>1. CommitInv'
  BY Zenon, CommitInvStable DEF Inv2, groupVars, memVars, logVars, diskVars
<1>2. AckInv'
  BY Zenon DEF Inv1, TypeOK, QueueType, Inv2, AckInv, Stored, memVars, verVars, diskVars
<1> QED
  BY ZenonT(30), SMTT(30), <1>1, <1>2, QueueStepInv2 DEF verVars, logVars, bgVars

LEMMA AppendWalInv2 ==
    ASSUME Inv1, Inv2, NEW w \in Writers, AppendWal(w)
    PROVE  Inv2'
<1>1. CommitInv'
  BY SMTT(30), Z3T(30)
     DEF Inv1, TypeOK, QueueInv, QueueType, GroupType, Inv2, CommitInv, Group, AppendWal,
         Logged, groupVars, memVars, logVars
<1>2. held = log_file_number /\ log_file_number \in logs /\ log_file_number >= manifest.log
  BY Zenon DEF Inv2, CommitInv, LogInv, AppendWal
<1>3. LogInv'
  BY ZenonT(30) DEF Inv2, LogInv, AppendWal, verVars, logVars
<1>4. MemInv'
  <2>1. \A x \in Writers : wal'[x] = IF x \in Group THEN held ELSE wal[x]
    BY Zenon DEF AppendWal, Logged
  <2>2. UNCHANGED <<mem, imm, has_imm, tables, manifest, synced, log_file_number, logs, bgpc,
                    bg_error>>
    BY Zenon DEF AppendWal, memVars, verVars, logVars, bgVars
  <2>3. mem \cup imm \subseteq Writers
    BY Zenon DEF Inv1, TypeOK, MemType
  <2> QED
    BY Zenon, <1>2, <2>1, <2>2, <2>3 DEF Inv2, MemInv, FlushGaveUp
<1>5. FlushInv'
  BY FlushInvStable, Zenon DEF Inv2, AppendWal, memVars, logVars, bgVars
<1>6. AckInv'
  BY ZenonT(30), SMTT(30)
     DEF Inv1, TypeOK, QueueType, Inv2, AckInv, Stored, AppendWal, memVars, verVars
<1> QED
  BY ZenonT(30), SMTT(30), <1>1, <1>3, <1>4, <1>5, <1>6 DEF Inv2

LEMMA SyncWalInv2 ==
    ASSUME Inv1, Inv2, NEW w \in Writers, SyncWal(w)
    PROVE  Inv2'
<1>1. CommitInv'
  BY SMTT(30), Z3T(30)
     DEF Inv1, TypeOK, QueueInv, QueueType, GroupType, Inv2, CommitInv, Group, SyncWal,
         groupVars, memVars, logVars
<1>2. LogInv'
  BY LogInvStable, ZenonT(30) DEF Inv2, SyncWal, verVars, logVars
<1>3. MemInv'
  <2>1. synced \subseteq synced'
    BY Zenon DEF SyncWal
  <2>2. UNCHANGED <<mem, imm, has_imm, tables, manifest, wal, log_file_number, logs, bgpc,
                    bg_error>>
    BY Zenon DEF SyncWal, memVars, verVars, logVars, bgVars
  <2> QED
    BY Zenon, <2>1, <2>2 DEF Inv2, MemInv, FlushGaveUp
<1>4. FlushInv'
  BY FlushInvStable, Zenon DEF Inv2, SyncWal, memVars, logVars, bgVars
<1>5. AckInv'
  BY Zenon DEF Inv1, TypeOK, QueueType, Inv2, AckInv, Stored, SyncWal, memVars, verVars
<1> QED
  BY Zenon, <1>1, <1>2, <1>3, <1>4, <1>5 DEF Inv2

LEMMA SyncWalFailsInv2 ==
    ASSUME Inv1, Inv2, NEW w \in Writers, SyncWalFails(w)
    PROVE  Inv2'
<1> USE DEF SyncWalFails
<1>1. CommitInv'
  BY SMTT(30), Z3T(30)
     DEF Inv1, TypeOK, QueueInv, QueueType, GroupType, Inv2, CommitInv, Group, groupVars,
         memVars, logVars, diskVars
<1>2. AckInv'
  BY Zenon DEF Inv1, TypeOK, QueueType, Inv2, AckInv, Stored, memVars, verVars, diskVars
<1> QED
  BY ZenonT(30), SMTT(30), <1>1, <1>2, QueueStepInv2 DEF verVars, logVars, bgVars

LEMMA InsertMemInv2 ==
    ASSUME Inv1, Inv2, NEW w \in Writers, InsertMem(w)
    PROVE  Inv2'
<1>1. /\ target = "mem" /\ Group \cap SyncWriters \subseteq synced
      /\ \A x \in Group : wal[x] = log_file_number
  BY Zenon DEF Inv2, CommitInv, InsertMem
<1>2. mem' = mem \cup Group /\ imm' = imm
  BY Zenon, <1>1 DEF InsertMem
<1>3. UNCHANGED <<writers, result, groupVars, has_imm, tables, manifest, logVars, bg_error,
                  diskVars, bgpc, flush>>
  BY ZenonT(30) DEF InsertMem, verVars, bgVars
<1>4. CommitInv'
  <2>1. wpc[w] = "insert" /\ wpc' = [wpc EXCEPT ![w] = "finish"] /\ wpc \in [Writers -> Pcs]
    BY Zenon DEF InsertMem, Inv1, TypeOK, QueueType
  <2>2. /\ Group' = Group
        /\ UNCHANGED <<held, target, cstatus, log_file, log_file_number, wal, synced>>
    BY Zenon, <1>3 DEF Group, groupVars, logVars, diskVars
  <2>3. \A x \in Writers : wpc[x] \in Committing => x = w
    BY Zenon, <2>1 DEF Inv1, QueueInv
  <2>4. \A x \in Writers : wpc'[x] \in Committing => x = w /\ wpc'[x] = "finish"
    BY Zenon, <2>1, <2>3
  <2>5. /\ held = log_file_number /\ target = "mem" /\ log_file \in {0, log_file_number}
        /\ \A x \in Group : x \in SyncWriters => w \in SyncWriters
    BY Zenon, <2>1 DEF Inv2, CommitInv
  <2>6. Group' \subseteq mem'
    BY Zenon, <1>2, <2>2
  <2>7. "finish" \notin {"sync", "insert"} /\ "finish" # "insert"
    OBVIOUS
  <2> QED
    BY Zenon, <2>2, <2>4, <2>5, <2>6, <2>7 DEF CommitInv
<1>5. LogInv'
  BY ZenonT(30), SMTT(30), <1>3, LogInvStable DEF Inv2, logVars, diskVars
<1>6. MemInv'
  BY Zenon, <1>1, <1>2, <1>3 DEF Inv2, MemInv, FlushGaveUp, logVars, diskVars
<1>7. FlushInv'
  BY ZenonT(30), SMTT(30), <1>2, <1>3, FlushInvStable DEF Inv2, logVars
<1>8. AckInv'
  <2>1. wpc' = [wpc EXCEPT ![w] = "finish"] /\ wpc \in [Writers -> Pcs]
    BY Zenon DEF InsertMem, Inv1, TypeOK, QueueType
  <2>2. \A x \in Writers : wpc'[x] = "ok" => wpc[x] = "ok"
    BY Zenon, <2>1
  <2>3. Stored \subseteq Stored' /\ lost' = lost /\ result' = result
    BY Zenon, <1>2, <1>3 DEF Stored, diskVars
  <2> QED
    BY Zenon, <2>2, <2>3 DEF Inv2, AckInv
<1> QED
  BY Zenon, <1>4, <1>5, <1>6, <1>7, <1>8 DEF Inv2

LEMMA FinishGroupInv2 ==
    ASSUME Inv1, Inv2, NEW w \in Writers, FinishGroup(w)
    PROVE  Inv2'
<1>1. UNCHANGED <<mem, imm, has_imm, tables, manifest, log_file_number, next_file_number,
                  diskVars, bgpc, flush>>
  BY Zenon DEF FinishGroup, verVars, bgVars
<1>2. /\ result' = [x \in Writers |-> IF x \in Group \ {w} THEN Status ELSE result[x]]
      /\ wpc' = [wpc EXCEPT ![w] = Status]
  BY Zenon DEF FinishGroup
<1>3. CommitInv'
  <2>1. \A x \in Writers : wpc'[x] \notin Committing
    <3>1. wpc \in [Writers -> Pcs] /\ wpc[w] \in Committing
      BY Zenon DEF Inv1, TypeOK, QueueType, FinishGroup
    <3>2. \A x \in Writers : wpc[x] \in Committing => x = w
      BY Zenon, <3>1 DEF Inv1, QueueInv
    <3> QED
      BY Zenon, <1>2, <3>1, <3>2 DEF Status
  <2>2. log_file' = held /\ held = log_file_number
    BY Zenon DEF FinishGroup, Inv2, CommitInv
  <2>3. log_file' \in {0, log_file_number'}
    BY Zenon, <1>1, <2>2
  <2> QED
    BY Zenon, <2>1, <2>3, CommitInvNone
<1>4. LogInv'
  BY ZenonT(30), SMTT(30), <1>1, LogInvStable DEF Inv2, diskVars
<1>5. MemInv'
  <2>1. bg_error' = (bg_error \/ cstatus = "sync_err")
    BY Zenon DEF FinishGroup
  <2>2. FlushGaveUp => FlushGaveUp'
    BY <1>1, <2>1, Zenon DEF FlushGaveUp
  <2> QED
    BY Zenon, <1>1, <2>2 DEF Inv2, MemInv, diskVars
<1>6. FlushInv'
  BY ZenonT(30), SMTT(30), <1>1, FlushInvStable DEF Inv2
<1>7. AckInv'
  <2>1. Status = "ok" => Group \subseteq mem
    BY ZenonT(30), SMTT(30) DEF Inv2, CommitInv, FinishGroup, Status
  <2>2. w \in Group
    BY DEF Inv1, TypeOK, QueueInv, QueueType, Group, FinishGroup
  <2>3. Stored' = Stored /\ lost' = lost
    BY Zenon, <1>1 DEF Stored, diskVars
  <2> QED
    BY ZenonT(30), SMTT(30), <1>2, <2>1, <2>2, <2>3
       DEF Inv1, TypeOK, QueueType, Inv2, AckInv, Stored
<1> QED
  BY Zenon, <1>3, <1>4, <1>5, <1>6, <1>7 DEF Inv2

LEMMA BgFindsNothingInv2 ==
    ASSUME Inv1, Inv2, BgFindsNothing
    PROVE  Inv2'
<1>1. /\ imm = {} /\ imm' = {} /\ bgpc' = "drain" /\ bgpc = "collect"
      /\ target' = IF target = "imm" THEN "gone" ELSE target
      /\ UNCHANGED <<writers, wpc, result, glen, held, cstatus, mem, tables, manifest,
                     logVars, diskVars>>
  BY Zenon DEF BgFindsNothing, ClearImm, verVars
<1>2. CommitInv'
  BY Zenon, <1>1 DEF Inv2, CommitInv, Group, logVars, diskVars
<1>3. LogInv'
  BY ZenonT(30), SMTT(30), <1>1, LogInvStable DEF Inv2, logVars, diskVars
<1>4. MemInv'
  BY ZenonT(30), SMTT(30), <1>1 DEF Inv2, MemInv, logVars, diskVars
<1>5. FlushInv' /\ AckInv'
  BY Zenon, <1>1 DEF Inv2, FlushInv, AckInv, Stored, diskVars
<1> QED
  BY Zenon, <1>2, <1>3, <1>4, <1>5 DEF Inv2

LEMMA BgInstallsInv2 ==
    ASSUME Inv1, Inv2, BgInstalls
    PROVE  Inv2'
<1>1. /\ logs' = {n \in logs : n >= log_file_number} /\ imm' = {} /\ bgpc' = "drain"
      /\ target' = IF target = "imm" THEN "gone" ELSE target
      /\ tables' = tables \cup flush.entries
      /\ \E d \in {0, 1} : manifest' = Flushed(l0 + d)
      /\ UNCHANGED <<writers, wpc, result, glen, held, cstatus, mem, logVars, wal, synced,
                     torn, unreadable, lost>>
  BY Zenon DEF BgInstalls, LiveLogs, ClearImm
<1>2. flush.entries = imm /\ flush.log = log_file_number
  BY Zenon DEF BgInstalls, Inv2, FlushInv
<1>3. /\ manifest'.log = log_file_number /\ manifest'.tables = tables \cup imm
      /\ tables' = tables \cup imm
  BY SMTT(30), Z3T(30), <1>1, <1>2 DEF Flushed
<1>4. CommitInv'
  BY Zenon, <1>1 DEF Inv2, CommitInv, Group, logVars
<1>5. LogInv'
  <2>1. /\ log_file_number \in logs /\ log_file_number < next_file_number
        /\ torn = {} /\ unreadable = {}
    BY Zenon DEF Inv2, LogInv
  <2>2. UNCHANGED <<log_file_number, next_file_number, torn, unreadable>>
    BY <1>1, Zenon DEF logVars
  <2>3. log_file_number >= log_file_number
    BY SMTT(30), Z3T(30) DEF Inv1, TypeOK, LogType
  <2> QED
    BY <1>1, <1>3, <2>1, <2>2, <2>3, Zenon DEF LogInv
<1>6. MemInv'
  BY Zenon, <1>1, <1>3 DEF Inv2, MemInv, logVars
<1>7. FlushInv' /\ AckInv'
  BY <1>1, <1>3, Zenon DEF Inv2, FlushInv, AckInv, Stored
<1> QED
  BY Zenon, <1>4, <1>5, <1>6, <1>7 DEF Inv2

LEMMA BgInstallFailsInv2 ==
    ASSUME Inv1, Inv2, BgInstallFails
    PROVE  Inv2'
<1> USE DEF Inv2
<1>1. \/ manifest' = manifest
      \/ manifest'.log = log_file_number /\ manifest'.tables = tables \cup imm
  <2>1. manifest' = manifest \/ \E d \in {0, 1} : manifest' = Flushed(l0 + d)
    BY Zenon DEF BgInstallFails
  <2>2. flush.entries = imm /\ flush.log = log_file_number
    BY Zenon DEF BgInstallFails, FlushInv
  <2> QED
    BY SMTT(30), Z3T(30), <2>1, <2>2 DEF Flushed
<1>2. /\ bgpc' = "fail"
      /\ UNCHANGED <<queueVars, groupVars, memVars, tables, logVars, bg_error, diskVars>>
  BY Zenon DEF BgInstallFails
<1>3. CommitInv'
  BY ZenonT(30), SMTT(30), <1>2, CommitInvStable
     DEF queueVars, groupVars, memVars, logVars, diskVars
<1>4. LogInv'
  BY SMTT(30), Z3T(30), <1>1, <1>2 DEF Inv1, TypeOK, LogInv, LogType, logVars, diskVars
<1>5. MemInv'
  BY Zenon, <1>1, <1>2 DEF MemInv, FlushGaveUp, memVars, logVars, diskVars
<1>6. FlushInv'
  BY ZenonT(30), SMTT(30), <1>2 DEF FlushInv
<1>7. AckInv'
  BY ZenonT(30), SMTT(30), <1>2 DEF AckInv, Stored, queueVars, memVars, diskVars
<1> QED
  BY ZenonT(30), SMTT(30), <1>3, <1>4, <1>5, <1>6, <1>7

(* What the memtables hold can be rebuilt from disk, the sync batches from synced records. *)
LEMMA MemtablesDurable ==
    ASSUME Inv1, Inv2, NEW x \in mem \cup imm
    PROVE  /\ x \in Replayable \/ x \in manifest.tables
           /\ x \in SyncWriters => x \in synced
  BY Zenon DEF Inv1, TypeOK, MemType, Inv2, MemInv, LogInv, Replayable

LEMMA CrashAndOpenInv2 ==
    ASSUME Inv1, Inv2, CrashAndOpen
    PROVE  Inv2'
<1> USE DEF Inv2
<1>1. PICK K \in SUBSET Replayable : Survive(K) /\ Reopen(K)
  BY Zenon DEF CrashAndOpen
<1>2. OpenLog(K) \in Nat
  BY DEF Inv1, TypeOK, OpenLog, VerType
<1>3. /\ log_file' = OpenLog(K) /\ log_file_number' = OpenLog(K)
      /\ next_file_number' = IF K = {} THEN OpenLog(K) + 2 ELSE OpenLog(K) + 1
      /\ tables' = manifest.tables \cup K /\ lost' = lost \cup (Replayable \ K)
      /\ mem' = {} /\ imm' = {}
      /\ logs' = {OpenLog(K)} \cup {n \in logs : n > OpenLog(K)}
      /\ torn' = {n \in torn : n > OpenLog(K)}
  BY <1>1, Zenon DEF Reopen
<1>4. manifest'.log = OpenLog(K) /\ manifest'.tables = tables'
  <2>1. manifest' = [log |-> OpenLog(K), tables |-> tables', l0 |-> l0',
                     seq |-> last_sequence', next |-> OpenLog(K) + 1]
    BY <1>1, Zenon DEF Reopen
  <2> QED
    BY Zenon, <2>1
<1>5. /\ wpc' = [w \in Writers |-> IF wpc[w] \in {"idle", "ok", "err"} THEN wpc[w] ELSE "dead"]
      /\ result' = [w \in Writers |-> "none"]
      /\ bgpc' = "check" /\ unreadable' = unreadable
  BY ZenonT(30) DEF CrashAndOpen
<1>6. CommitInv'
  <2>1. \A w \in Writers : wpc'[w] \notin Committing
    BY Zenon, <1>5
  <2> QED
    BY Zenon, <1>3, <2>1 DEF CommitInv
<1>7. LogInv'
  <2>1. /\ torn = {} /\ unreadable' = {}
    BY <1>5, Zenon DEF LogInv
  <2>2. torn' = {} /\ OpenLog(K) \in logs'
    BY <1>3, <2>1, ZenonT(30)
  <2>3. OpenLog(K) < next_file_number' /\ OpenLog(K) >= manifest'.log
    BY SMTT(30), Z3T(30), <1>2, <1>3, <1>4
  <2> QED
    BY <1>3, <2>1, <2>2, <2>3, Zenon DEF LogInv
<1>8. MemInv'
  BY Zenon, <1>3, <1>4 DEF MemInv
<1>9. FlushInv'
  BY Zenon, <1>5 DEF FlushInv
<1>10. AckInv'
  <2>1. SUFFICES ASSUME NEW w \in Writers, wpc'[w] = "ok" \/ result'[w] = "ok"
                 PROVE  (w \in Stored \cup (lost \ SyncWriters))'
    BY Zenon DEF AckInv
  <2>2. w \in Stored \cup (lost \ SyncWriters)
    BY ZenonT(30), SMTT(30), <1>5, <2>1 DEF AckInv
  <2>4. CASE w \in tables \cup (lost \ SyncWriters)
    BY ZenonT(30), SMTT(30), <1>3, <2>4 DEF MemInv, Stored
  <2>5. CASE w \in mem \cup imm
    <3>1. w \in Replayable \cap synced => w \in K
      BY Zenon, <1>1 DEF Survive
    <3> QED
      BY Zenon, <1>3, <2>5, <3>1, MemtablesDurable DEF Stored
  <2> QED
    BY ZenonT(30), SMTT(30), <2>2, <2>4, <2>5 DEF Stored
<1> QED
  BY Zenon, <1>6, <1>7, <1>8, <1>9, <1>10

LEMMA Init2 == Init => Inv2
<1> SUFFICES ASSUME Init PROVE Inv2
  BY ZenonT(30), SMTT(30)
<1>1. CommitInv /\ AckInv
  BY ZenonT(30), SMTT(30) DEF Init, CommitInv, AckInv
<1>2. LogInv /\ FlushInv
  BY SMTT(30), Z3T(30) DEF Init, LogInv, FlushInv
<1>3. MemInv
  BY Zenon DEF Init, MemInv
<1> QED
  BY Zenon, <1>1, <1>2, <1>3 DEF Inv2

LEMMA Next2 ==
    ASSUME Flushers = {}, "append" \notin Faults
    PROVE  Inv1 /\ Inv2 /\ [Next]_vars => Inv2'
<1> SUFFICES ASSUME Inv1, Inv2, [Next]_vars PROVE Inv2'
  OBVIOUS
<1>1. CASE Calls
  BY ZenonT(30), SMTT(30), <1>1, EnqueueLeadInv2, EnqueueFollowInv2 DEF Calls
<1>2. ASSUME NEW w \in Writers, WriterSteps(w) PROVE Inv2'
  <2>1. ~AppendWalFails(w)
    BY Zenon DEF AppendWalFails, Fault
  <2> QED
    BY ZenonT(30), SMTT(30), <1>2, <2>1, TakeLeadInv2, FollowerReturnsInv2, FollowerWaitsInv2,
       AppendWalInv2,
       SyncWalInv2, SyncWalFailsInv2, InsertMemInv2, FinishGroupInv2 DEF WriterSteps
<1>3. CASE BgSteps
  BY Zenon, <1>3, BgQuietInv2, BgFindsNothingInv2, BgInstallsInv2, BgInstallFailsInv2,
     BgCompactsInv2 DEF BgSteps
<1>4. CASE SpuriousWakeup \/ CrashAndOpen \/ UNCHANGED vars
  BY Zenon, <1>4, BgQuietInv2, CrashAndOpenInv2
<1> QED
  BY Zenon, <1>1, <1>2, <1>3, <1>4 DEF Next

(***************************************************************************)
(* With no force_flush call racing the writers and no failed WAL append,   *)
(* whatever else fails and however often the machine stops: a batch        *)
(* write_owned has returned Ok for is at every moment in a table the       *)
(* MANIFEST names or in a record open replays - a synced one if the write  *)
(* was sync - unless it was not sync and a power failure took it.          *)
(***************************************************************************)
THEOREM Durability ==
    ASSUME Flushers = {}, "append" \notin Faults
    PROVE  Spec => []AckedDurable
<1>1. Inv1 /\ Inv2 => AckedDurable
  <2> SUFFICES ASSUME Inv1, Inv2, NEW w \in Writers, wpc[w] = "ok"
               PROVE  \/ w \in manifest.tables
                      \/ w \in Replayable /\ (w \in SyncWriters => w \in synced)
                      \/ w \in lost \ SyncWriters
    BY ZenonT(30), SMTT(30) DEF AckedDurable
  <2>1. w \in Stored \cup (lost \ SyncWriters) /\ tables \subseteq manifest.tables
    BY Zenon DEF Inv2, AckInv, MemInv
  <2> QED
    BY Zenon, <2>1, MemtablesDurable DEF Stored
<1> QED
  BY <1>1, Inv1Holds, Init2, Next2, PTL DEF Spec

(***************************************************************************)
(* Under the same conditions get finds it: it is in mem, in imm or in a    *)
(* table of the current version.                                           *)
(***************************************************************************)
THEOREM Visibility ==
    ASSUME Flushers = {}, "append" \notin Faults
    PROVE  Spec => []AckedVisible
<1>1. Inv2 => AckedVisible
  BY Zenon DEF Inv2, AckInv, AckedVisible
<1> QED
  BY <1>1, Inv1Holds, Init2, Next2, PTL DEF Spec

(***************************************************************************)
(* Under the same conditions the imm and the log number that               *)
(* compact_memtable_async captured are still the current ones when it      *)
(* installs its table and deletes the old logs.                            *)
(***************************************************************************)
THEOREM FlushCapture ==
    ASSUME Flushers = {}, "append" \notin Faults
    PROVE  Spec => []FlushCaptureStable
<1>1. Inv2 => FlushCaptureStable
  BY Zenon DEF Inv2, FlushInv, FlushCaptureStable
<1> QED
  BY <1>1, Inv1Holds, Init2, Next2, PTL DEF Spec

----------------------------------------------------------------------------
(***************************************************************************)
(* What reads see.  The batches in a memtable or in a table of the current *)
(* version or of the MANIFEST, and those a log may hold as well.           *)
(***************************************************************************)
Filed == Stored \cup manifest.tables
Touched == {x \in Writers : wal[x] # 0} \cup Filed

(* The queue holds each call once, and only calls that have no result yet. *)
OrderInv ==
    /\ \A i, j \in 1..Len(writers) : writers[i] = writers[j] => i = j
    /\ \A i \in 1..Len(writers) :
          result[writers[i]] = "none" /\ wpc[writers[i]] \in {"follow", "room"} \cup Committing
    /\ \A x \in Writers : wpc[x] = "idle" => result[x] = "none"
    /\ (\A w \in Writers : wpc[w] \notin Committing) => glen = 0
    /\ cstatus # "err"

(* A batch that was not yet appended is nowhere, and one that is being     *)
(* committed is in the current log and memtable at most.                   *)
FreshInv ==
    /\ \A x \in Writers : wpc[x] = "idle" => x \notin Touched \cup lost
    /\ \A i \in (glen + 1)..Len(writers) : writers[i] \notin Touched \cup lost
    /\ \A w \in Writers : wpc[w] \in Committing =>
          /\ Group \cap (imm \cup tables \cup manifest.tables \cup lost) = {}
          /\ wpc[w] = "append" => Group \cap Touched = {}
          /\ wpc[w] # "finish" \/ cstatus # "ok" => Group \cap mem = {}
    /\ 0 \notin logs

(* The sequence numbers of the group come next; those of batches whose     *)
(* sync failed may be ahead, but then no other group is formed.            *)
NumberInv ==
    /\ \A w \in Writers : wpc[w] \in Committing =>
          \A i \in 1..glen : seqno[writers[i]] = last_sequence + i
    /\ \A x \in Touched \ Group : seqno[x] <= last_sequence \/ (bg_error /\ x \notin Filed)
    /\ \A x, y \in Touched \cup Group : seqno[x] = seqno[y] => x = y
    /\ \A x \in manifest.tables : seqno[x] <= manifest.seq
    /\ manifest.seq <= last_sequence

(* What a caller is told, or will be, agrees with what is stored.          *)
CallInv ==
    /\ \A x \in Writers : wpc[x] = "follow" /\ result[x] = "ok" => x \in Stored
    /\ \A x \in Writers : wpc[x] = "follow" /\ result[x] = "err" => x \notin Filed
    /\ \A x \in Writers : wal[x] # 0 /\ wpc[x] \in {"ok", "dead"} => x \in Stored
    /\ \A x \in lost : wal[x] = 0
    /\ manifest.tables = tables \/ (FlushGaveUp /\ manifest.tables = tables \cup imm)

Inv3 == OrderInv /\ FreshInv /\ NumberInv /\ CallInv

(* The stored batches stay, and logs may be truncated. *)
Shrinks ==
    /\ wal' \in [Writers -> Nat] /\ \A x \in Writers : wal'[x] \in {0, wal[x]}
    /\ Stored' = Stored /\ manifest' = manifest /\ lost' = lost /\ 0 \notin logs'

LEMMA ShrinksIs ==
    ASSUME Shrinks PROVE Touched' \subseteq Touched /\ Filed' = Filed
BY Zenon DEF Shrinks, Touched, Filed

(***************************************************************************)
(* A step that leaves queue and data alone, but may record an edit.        *)
(***************************************************************************)
LEMMA QuietInv3 ==
    ASSUME Inv3, 0 \notin logs', bg_error => bg_error', SeqType, VerType,
           UNCHANGED <<writers, wpc, result, glen, cstatus, mem, imm, tables, last_sequence, seqno, wal, lost>>,
           manifest'.tables = manifest.tables, manifest'.seq \in {manifest.seq, last_sequence},
           manifest.tables = tables \/ (FlushGaveUp => FlushGaveUp')
    PROVE  Inv3'
<1>1. Filed' = Filed /\ Touched' = Touched /\ Stored' = Stored /\ Group' = Group
  BY Zenon DEF Filed, Touched, Stored, Group
<1>2. OrderInv'
  BY Zenon DEF Inv3, OrderInv
<1>3. FreshInv'
  BY Zenon, <1>1 DEF Inv3, FreshInv
<1>4. NumberInv'
  <2>1. last_sequence \in Nat /\ manifest.seq \in Nat /\ manifest.tables \subseteq Writers /\ seqno \in [Writers -> Nat]
    BY Zenon DEF SeqType, VerType
  <2>2. manifest'.seq <= last_sequence /\ \A x \in manifest.tables : seqno[x] <= manifest'.seq
    BY <2>1 DEF Inv3, NumberInv
  <2> QED BY Zenon, <1>1, <2>2 DEF Inv3, NumberInv
<1>5. CallInv'
  BY Zenon, <1>1 DEF Inv3, CallInv
<1> QED BY Zenon, <1>2, <1>3, <1>4, <1>5 DEF Inv3

(***************************************************************************)
(* The writer w may lead the queue q, of which nothing was written yet.    *)
(***************************************************************************)
CanLead(w, q) ==
    /\ LeaderOf(w, q) /\ q \in Seq(Writers) /\ q[1] = w /\ Len(q) \in Nat \ {0}
    /\ wpc[w] \in {"idle", "follow", "room"}
    /\ \A i, j \in 1..Len(q) : q[i] = q[j] => i = j
    /\ \A i \in 1..Len(q) : q[i] \notin Touched \cup lost /\ result[q[i]] = "none"
    /\ \A i \in 1..Len(q) : q[i] = w \/ wpc[q[i]] = "follow"
    /\ glen = 0 /\ Group = {}

LEMMA EnqueueCanLead ==
    ASSUME Inv1, Inv3, NEW w \in Writers, wpc[w] = "idle", writers = <<>>
    PROVE  CanLead(w, <<w>>)
<1> DEFINE q == <<w>>
<1>1. q \in Seq(Writers) /\ q # <<>> /\ Head(q) = w /\ Len(q) = 1 /\ \A i \in 1..Len(q) : i = 1 /\ q[i] = w
  OBVIOUS
<1>2. LeaderOf(w, q)
  BY Zenon, <1>1 DEF Inv1, QueueInv, LeaderOf
<1>3. glen = 0
  BY Zenon, <1>2 DEF Inv3, OrderInv, LeaderOf
<1>4. Group = {}
  BY <1>3 DEF Group
<1>5. w \notin Touched \cup lost /\ result[w] = "none"
  BY Zenon DEF Inv3, OrderInv, FreshInv
<1>6. 1 \in 1..Len(q) /\ Len(q) \in Nat \ {0}
  BY <1>1
<1> HIDE DEF q
<1>7. CanLead(w, q)
  BY Zenon, <1>1, <1>2, <1>3, <1>4, <1>5, <1>6 DEF CanLead
<1> QED BY Zenon, <1>7 DEF q

LEMMA TakeCanLead ==
    ASSUME Inv1, Inv3, NEW w \in Writers, wpc[w] \in {"follow", "room"}, AtFront(w)
    PROVE  CanLead(w, writers)
<1>1. writers \in Seq(Writers) /\ writers # <<>> /\ writers[1] = w /\ Len(writers) \in Nat \ {0}
  BY DEF Inv1, TypeOK, QueueType, AtFront
<1>2. LeaderOf(w, writers)
  <2>1. writers # <<>> /\ Head(writers) = w
    BY Zenon DEF AtFront
  <2>2. \A x \in Writers : wpc[x] \in Committing \cup {"room"} => Head(writers) = x
    BY Zenon DEF Inv1, QueueInv
  <2>3. wpc[w] \notin Committing
    OBVIOUS
  <2> QED BY Zenon, <2>1, <2>2, <2>3 DEF LeaderOf
<1>3. glen = 0
  BY Zenon, <1>2 DEF Inv3, OrderInv, LeaderOf
<1>4. Group = {} /\ glen + 1 = 1
  BY <1>3 DEF Group
<1>5. \A i \in 1..Len(writers) : writers[i] \in Writers
  BY <1>1
<1>6. \A i \in 1..Len(writers) : writers[i] = w \/ wpc[writers[i]] = "follow"
  BY Zenon, <1>2, <1>5 DEF Inv3, OrderInv, LeaderOf
<1> QED BY Zenon, <1>1, <1>2, <1>3, <1>4, <1>6 DEF CanLead, Inv3, OrderInv, FreshInv

(* The queue fails. *)
LEMMA LeadFailsInv3 ==
    ASSUME Inv1, Inv3, NEW w \in Writers, NEW q, CanLead(w, q), FailQueue(w, q), Shrinks,
           UNCHANGED <<glen, cstatus, mem, imm, tables, last_sequence, seqno, bg_error, bgpc>>
    PROVE  Inv3'
<1>1. /\ writers' = <<>> /\ wpc' = [wpc EXCEPT ![w] = "err"]
      /\ result' = [x \in Writers |-> IF x # w /\ \E i \in 1..Len(q) : q[i] = x THEN "err" ELSE result[x]]
  BY Zenon DEF FailQueue
<1>2. /\ glen = 0 /\ Group = {} /\ (\A x \in Writers : wpc[x] \notin Committing)
      /\ \A i \in 1..Len(q) : q[i] \notin Touched /\ (q[i] = w \/ wpc[q[i]] = "follow")
  BY Zenon DEF CanLead, LeaderOf
<1>3. wpc \in [Writers -> Pcs]
  BY Zenon DEF Inv1, TypeOK, QueueType
<1>4. \A x \in Writers : wpc'[x] = IF x = w THEN "err" ELSE wpc[x]
  BY Zenon, <1>1, <1>3
<1>5. \A x \in Writers : result'[x] = IF x # w /\ \E i \in 1..Len(q) : q[i] = x THEN "err" ELSE result[x]
  BY Zenon, <1>1
<1>6. Touched' \subseteq Touched /\ Filed' = Filed /\ Filed \subseteq Touched /\ Stored' = Stored
  BY Zenon, ShrinksIs DEF Touched, Shrinks
<1>7. Len(writers') = 0 /\ glen' = 0
  BY Zenon, <1>1, <1>2
<1>8. Group' = {} /\ \A i \in 1..Len(writers') : FALSE
  BY <1>7 DEF Group
<1>9. \A x \in Writers : wpc'[x] \notin Committing
  <2>1. ASSUME NEW x \in Writers PROVE wpc'[x] \in {"err", wpc[x]} /\ wpc[x] \notin Committing
    BY Zenon, <1>2, <1>4
  <2> QED BY Zenon, <2>1
<1>10. \A i \in (glen' + 1)..Len(writers') : FALSE
  BY <1>7
<1>11. OrderInv'
  <2>1. ASSUME NEW x \in Writers, wpc'[x] = "idle" PROVE result'[x] = "none"
    <3>1. x # w /\ wpc[x] = "idle" /\ result[x] = "none"
      BY Zenon, <1>4, <2>1 DEF Inv3, OrderInv
    <3> QED BY <1>2, <1>5, <3>1
  <2> QED BY Zenon, <1>8, <1>7, <2>1 DEF Inv3, OrderInv
<1>12. FreshInv'
  <2>1. ASSUME NEW x \in Writers, wpc'[x] = "idle" PROVE x \notin Touched' \cup lost'
    <3>1. wpc[x] = "idle"
      BY <1>4, <2>1
    <3> QED BY Zenon, <1>6, <3>1 DEF Inv3, FreshInv, Shrinks
  <2> QED BY Zenon, <1>9, <1>10, <2>1 DEF FreshInv, Shrinks
<1>13. NumberInv'
  BY Zenon, <1>2, <1>6, <1>8, <1>9 DEF Inv3, NumberInv, Shrinks
<1>14. CallInv'
  <2>1. ASSUME NEW x \in Writers, wpc'[x] = "follow" /\ result'[x] = "ok" PROVE x \in Stored
    <3>1. wpc[x] = "follow" /\ result[x] = "ok"
      BY <1>4, <1>5, <2>1
    <3> QED BY Zenon, <3>1 DEF Inv3, CallInv
  <2>2. ASSUME NEW x \in Writers, wpc'[x] = "follow" /\ result'[x] = "err" PROVE x \notin Filed
    <3>1. wpc[x] = "follow"
      BY <1>4, <2>2
    <3> QED BY Zenon, <1>2, <1>5, <1>6, <2>2, <3>1 DEF Inv3, CallInv
  <2>3. ASSUME NEW x \in Writers, wal'[x] # 0 /\ wpc'[x] \in {"ok", "dead"} PROVE x \in Stored
    <3>1. wpc[x] \in {"ok", "dead"} /\ wal[x] # 0
      BY <1>4, <2>3 DEF Shrinks
    <3> QED BY Zenon, <3>1 DEF Inv3, CallInv
  <2>4. \A x \in lost' : wal'[x] = 0
    BY Zenon DEF Inv1, TypeOK, DiskType, Inv3, CallInv, Shrinks
  <2>5. FlushGaveUp' = FlushGaveUp
    BY DEF FlushGaveUp
  <2> QED BY Zenon, <1>6, <2>1, <2>2, <2>3, <2>4, <2>5 DEF Inv3, CallInv, Shrinks
<1> QED BY Zenon, <1>11, <1>12, <1>13, <1>14 DEF Inv3

(* The leader waits for room. *)
LEMMA LeadStaysInv3 ==
    ASSUME Inv1, Inv3, NEW w \in Writers, NEW q, CanLead(w, q), writers' = q,
           wpc' = [wpc EXCEPT ![w] = "room"], 0 \notin logs',
           UNCHANGED <<result, glen, cstatus, mem, imm, tables, manifest, last_sequence, seqno, wal, lost,
                       bg_error, bgpc>>
    PROVE  Inv3'
<1>1. /\ glen = 0 /\ Group = {} /\ (\A x \in Writers : wpc[x] \notin Committing)
      /\ \A i, j \in 1..Len(q) : q[i] = q[j] => i = j
      /\ \A i \in 1..Len(q) : q[i] \notin Touched \cup lost /\ result[q[i]] = "none"
      /\ \A i \in 1..Len(q) : q[i] = w \/ wpc[q[i]] = "follow"
  BY Zenon DEF CanLead, LeaderOf
<1>2. q \in Seq(Writers)
  BY Zenon DEF CanLead
<1>3. wpc \in [Writers -> Pcs]
  BY Zenon DEF Inv1, TypeOK, QueueType
<1>4. \A x \in Writers : wpc'[x] = IF x = w THEN "room" ELSE wpc[x]
  BY Zenon, <1>3
<1>5. Touched' = Touched /\ Filed' = Filed /\ Stored' = Stored
  BY Zenon DEF Touched, Filed, Stored
<1>6. Group' = {} /\ glen' + 1 = 1
  BY <1>1 DEF Group
<1>7. \A x \in Writers : wpc'[x] \notin Committing
  <2>1. ASSUME NEW x \in Writers PROVE wpc'[x] \in {"room", wpc[x]} /\ wpc[x] \notin Committing
    BY Zenon, <1>1, <1>4
  <2> QED BY Zenon, <2>1
<1>8. \A x \in Writers : /\ wpc'[x] = "idle" => wpc[x] = "idle"
                         /\ wpc'[x] = "follow" => wpc[x] = "follow"
                         /\ wpc'[x] \in {"ok", "dead"} => wpc[x] \in {"ok", "dead"}
  BY <1>4
<1>9. \A i \in 1..Len(q) : q[i] \in Writers
  BY <1>2
<1>10. \A i \in 1..Len(q) : wpc'[q[i]] \in {"follow", "room"}
  BY Zenon, <1>1, <1>4, <1>9
<1>11. OrderInv'
  <2>1. (\A x \in Writers : wpc[x] = "idle" => result[x] = "none") /\ cstatus # "err"
    BY Zenon DEF Inv3, OrderInv
  <2>2. \A x \in Writers : wpc'[x] = "idle" => result'[x] = "none"
    BY Zenon, <1>8, <2>1
  <2>3. \A i \in 1..Len(writers') :
           result'[writers'[i]] = "none" /\ wpc'[writers'[i]] \in {"follow", "room"} \cup Committing
    BY Zenon, <1>1, <1>10
  <2>4. (\A i, j \in 1..Len(writers') : writers'[i] = writers'[j] => i = j) /\ glen' = 0
    BY Zenon, <1>1
  <2> QED BY Zenon, <2>1, <2>2, <2>3, <2>4 DEF OrderInv
<1>12. FreshInv'
  BY Zenon, <1>1, <1>5, <1>6, <1>7, <1>8 DEF Inv3, FreshInv
<1>13. NumberInv'
  BY Zenon, <1>1, <1>5, <1>6, <1>7 DEF Inv3, NumberInv
<1>14. CallInv'
  BY Zenon, <1>5, <1>8 DEF Inv3, CallInv, FlushGaveUp
<1> QED BY Zenon, <1>11, <1>12, <1>13, <1>14 DEF Inv3

(* The members of a new group get consecutive numbers. *)
LEMMA BeginCommitNumbers ==
    ASSUME SeqType, NEW w \in Writers, NEW q, CanLead(w, q), NEW n \in 1..Len(q), BeginCommit(w, q, n)
    PROVE  /\ \A i \in 1..n : seqno'[q[i]] = last_sequence + i
           /\ \A x \in Writers : (\A i \in 1..n : q[i] # x) => seqno'[x] = seqno[x]
<1>1. q \in Seq(Writers) /\ \A i, j \in 1..Len(q) : q[i] = q[j] => i = j
  BY Zenon DEF CanLead
<1>2. seqno' = [x \in Writers |->
                    IF \E i \in 1..n : q[i] = x THEN last_sequence + Place(q, n, x) ELSE seqno[x]]
  BY Zenon DEF BeginCommit
<1>3. \A i \in 1..n : i \in 1..Len(q) /\ q[i] \in Writers
  BY <1>1
<1>4. ASSUME NEW i \in 1..n PROVE seqno'[q[i]] = last_sequence + i
  <2>1. Place(q, n, q[i]) \in 1..n /\ q[Place(q, n, q[i])] = q[i]
    BY Zenon DEF Place
  <2>2. Place(q, n, q[i]) = i
    BY Zenon, <1>1, <1>3, <2>1
  <2> QED BY Zenon, <1>2, <1>3, <2>2
<1>5. ASSUME NEW x \in Writers, \A i \in 1..n : q[i] # x PROVE seqno'[x] = seqno[x]
  BY Zenon, <1>2, <1>5
<1> QED BY Zenon, <1>4, <1>5

(* The leader forms a group, perhaps after it rotated the memtable. *)
LEMMA LeadBeginsInv3 ==
    ASSUME Inv1, Inv3, NEW w \in Writers, NEW q, CanLead(w, q), NEW n \in 1..Len(q), BeginCommit(w, q, n),
           ~bg_error, Shrinks, imm' \cup tables' \subseteq Stored, mem' \subseteq Stored, tables' = tables,
           manifest.tables = tables \/ imm' = imm, UNCHANGED <<bg_error, bgpc>>
    PROVE  Inv3'
<1>1. /\ writers' = q /\ glen' = n /\ wpc' = [wpc EXCEPT ![w] = "append"] /\ cstatus' = "ok"
      /\ UNCHANGED <<result, last_sequence>>
  BY Zenon DEF BeginCommit
<1>2. /\ q \in Seq(Writers) /\ q[1] = w /\ Len(q) \in Nat /\ n \in Nat /\ n <= Len(q) /\ Group = {}
      /\ \A x \in Writers : wpc[x] \notin Committing
  BY DEF CanLead, LeaderOf
<1>3. /\ \A i, j \in 1..Len(q) : q[i] = q[j] => i = j
      /\ \A i \in 1..Len(q) : q[i] \notin Touched \cup lost /\ result[q[i]] = "none"
      /\ \A i \in 1..Len(q) : q[i] = w \/ wpc[q[i]] = "follow"
  BY Zenon DEF CanLead
<1>4. wpc \in [Writers -> Pcs] /\ last_sequence \in Nat /\ seqno \in [Writers -> Nat] /\ SeqType
      /\ manifest.tables \subseteq Writers /\ Stored \subseteq Writers
  BY Zenon DEF Inv1, TypeOK, QueueType, SeqType, VerType, MemType, Stored
<1>5. \A x \in Writers : wpc'[x] = IF x = w THEN "append" ELSE wpc[x]
  BY Zenon, <1>1, <1>4
<1>6. /\ Touched' \subseteq Touched /\ Filed' = Filed /\ Stored' = Stored /\ lost' = lost /\ manifest' = manifest
      /\ Filed \subseteq Touched /\ Touched \subseteq Writers /\ Stored \subseteq Filed /\ manifest.tables \subseteq Filed
  BY Zenon, <1>4, ShrinksIs DEF Shrinks, Touched, Filed
<1>7. \A i \in 1..Len(q) : q[i] \in Writers
  BY <1>2
<1>8. \A i \in 1..n : i \in 1..Len(q)
  BY <1>2
<1>9. \A i \in (n + 1)..Len(q) : i \in 1..Len(q)
  BY <1>2
<1>10. Group' = {q[i] : i \in 1..n}
  BY Zenon, <1>1 DEF Group
<1>11. \A x \in Group' : x \notin Touched \cup lost /\ x \in Writers
  BY Zenon, <1>3, <1>7, <1>8, <1>10
<1>12. /\ \A i \in 1..n : seqno'[q[i]] = last_sequence + i
       /\ \A x \in Writers : (\A i \in 1..n : q[i] # x) => seqno'[x] = seqno[x]
  BY <1>4, BeginCommitNumbers
<1>13. \A x \in Touched : seqno'[x] = seqno[x] /\ seqno[x] <= last_sequence
  <2>1. \A x \in Touched : \A i \in 1..n : q[i] # x
    BY Zenon, <1>3, <1>8
  <2>2. \A x \in Touched : seqno[x] <= last_sequence
    BY Zenon, <1>2 DEF Inv3, NumberInv
  <2> QED BY Zenon, <1>6, <1>12, <2>1, <2>2
<1>14. \A x \in Writers : /\ wpc'[x] = "idle" => wpc[x] = "idle"
                          /\ wpc'[x] = "follow" => wpc[x] = "follow"
                          /\ wpc'[x] \in {"ok", "dead"} => wpc[x] \in {"ok", "dead"}
  BY Zenon, <1>5
<1>15. \A i \in 1..Len(q) : wpc'[q[i]] \in {"follow", "append"}
  BY Zenon, <1>3, <1>5, <1>7
<1>16. OrderInv'
  <2>1. w \in Writers /\ wpc'[w] \in Committing
    BY Zenon, <1>5
  <2>2. cstatus' # "err"
    BY Zenon, <1>1
  <2>3. \A x \in Writers : wpc'[x] = "idle" => result'[x] = "none"
    BY Zenon, <1>1, <1>14 DEF Inv3, OrderInv
  <2>4. \A i \in 1..Len(writers') :
           result'[writers'[i]] = "none" /\ wpc'[writers'[i]] \in {"follow", "room"} \cup Committing
    BY Zenon, <1>1, <1>3, <1>15
  <2>5. \A i, j \in 1..Len(writers') : writers'[i] = writers'[j] => i = j
    BY Zenon, <1>1, <1>3
  <2> QED BY Zenon, <2>1, <2>2, <2>3, <2>4, <2>5 DEF OrderInv
<1>17. FreshInv'
  <2>1. Group' \cap Touched' = {} /\ Group' \cap lost' = {}
    BY Zenon, <1>6, <1>11
  <2>2. mem' \cup imm' \cup tables' \cup manifest'.tables \subseteq Touched
    BY Zenon, <1>6
  <2>3. Group' \cap (imm' \cup tables' \cup manifest'.tables \cup lost') = {} /\ Group' \cap mem' = {}
    BY Zenon, <1>6, <1>11, <2>2
  <2>4. \A i \in (glen' + 1)..Len(writers') : writers'[i] \notin Touched' \cup lost'
    BY Zenon, <1>1, <1>3, <1>6, <1>9
  <2> QED BY Zenon, <1>6, <1>14, <2>1, <2>3, <2>4 DEF Inv3, FreshInv, Shrinks
<1>18. NumberInv'
  <2>1. \A x \in Touched' \ Group' : seqno'[x] <= last_sequence'
    BY Zenon, <1>1, <1>6, <1>13
  <2>2. ASSUME NEW x \in Touched' \cup Group', NEW y \in Touched' \cup Group', seqno'[x] = seqno'[y] PROVE x = y
    <3>1. CASE x \in Touched' /\ y \in Touched'
      BY Zenon, <1>6, <1>13, <2>2, <3>1 DEF Inv3, NumberInv
    <3>2. ASSUME NEW a \in Touched', NEW b \in Group' PROVE seqno'[a] # seqno'[b]
      <4>1. PICK i \in 1..n : b = q[i]
        BY Zenon, <1>10
      <4>2. seqno'[b] = last_sequence + i /\ seqno'[a] <= last_sequence /\ seqno'[a] \in Nat
        BY Zenon, <1>4, <1>6, <1>12, <1>13, <4>1
      <4> QED BY <1>4, <4>2
    <3>3. CASE x \in Group' /\ y \in Group'
      <4>1. PICK i \in 1..n, j \in 1..n : x = q[i] /\ y = q[j]
        BY Zenon, <1>10, <3>3
      <4>2. last_sequence + i = last_sequence + j
        BY Zenon, <1>12, <2>2, <4>1
      <4> QED BY <1>4, <4>1, <4>2
    <3> QED BY Zenon, <2>2, <3>1, <3>2, <3>3
  <2>3. \A x \in manifest'.tables : seqno'[x] <= manifest'.seq
    BY Zenon, <1>6, <1>13 DEF Inv3, NumberInv
  <2>4. manifest'.seq <= last_sequence'
    BY Zenon, <1>1, <1>6 DEF Inv3, NumberInv
  <2> QED BY Zenon, <1>1, <1>12, <2>1, <2>2, <2>3, <2>4 DEF NumberInv
<1>19. CallInv'
  <2>1. \A x \in Writers : wal'[x] # 0 => wal[x] # 0
    BY Zenon DEF Shrinks
  <2>2. \A x \in lost' : wal'[x] = 0
    BY Zenon DEF Inv1, TypeOK, DiskType, Inv3, CallInv, Shrinks
  <2>3. manifest'.tables = tables' \/ (FlushGaveUp' /\ manifest'.tables = tables' \cup imm')
    BY Zenon, <1>6 DEF Inv3, CallInv, FlushGaveUp
  <2> QED BY Zenon, <1>1, <1>6, <1>14, <2>1, <2>2, <2>3 DEF Inv3, CallInv
<1> QED BY Zenon, <1>16, <1>17, <1>18, <1>19 DEF Inv3

(* The make-room loop, whatever it comes to. *)
LEMMA LeadInv3 ==
    ASSUME Inv1, Inv2, Inv3, NEW w \in Writers, NEW q, CanLead(w, q), Lead(w, q)
    PROVE  Inv3'
<1>1. UNCHANGED <<tables, manifest, bg_error>>
  BY Zenon DEF Lead, verVars
<1>2. 0 \notin logs /\ wal \in [Writers -> Nat] /\ next_file_number # 0
  BY Zenon DEF Inv1, TypeOK, DiskType, QueueInv, Inv3, FreshInv
<1>3. CASE LeadError(w, q)
  <2>1. UNCHANGED <<logs, wal, lost, glen, cstatus, mem, imm, last_sequence, seqno, bgpc>>
    BY Zenon, <1>3 DEF LeadError, groupVars, memVars, seqVars, diskVars, bgVars
  <2>2. Shrinks
    BY Zenon, <1>1, <1>2, <2>1 DEF Shrinks, Stored
  <2>3. FailQueue(w, q)
    BY Zenon, <1>3 DEF LeadError
  <2> QED BY Zenon, <1>1, <2>1, <2>2, <2>3, LeadFailsInv3
<1>4. CASE LeadSleep(w, q) \/ LeadWait(w, q)
  <2>1. UNCHANGED <<logs, wal, lost, result, glen, cstatus, mem, imm, last_sequence, seqno, bgpc>>
    BY Zenon, <1>4 DEF LeadSleep, LeadWait, groupVars, memVars, seqVars, diskVars, bgVars
  <2>2. writers' = q /\ wpc' = [wpc EXCEPT ![w] = "room"]
    BY Zenon, <1>4 DEF LeadSleep, LeadWait
  <2>3. 0 \notin logs'
    BY Zenon, <1>2, <2>1
  <2> QED BY Zenon, <1>1, <2>1, <2>2, <2>3, LeadStaysInv3
<1>5. CASE LeadCommit(w, q)
  <2>1. UNCHANGED <<logs, wal, lost, mem, imm, bgpc>> /\ ~bg_error
    BY Zenon, <1>5 DEF LeadCommit, memVars, diskVars, bgVars
  <2>2. Shrinks
    BY Zenon, <1>1, <1>2, <2>1 DEF Shrinks, Stored
  <2>3. PICK n \in 1..Len(q) : BeginCommit(w, q, n)
    BY Zenon, <1>5 DEF LeadCommit
  <2>4. imm' \cup tables' \subseteq Stored /\ mem' \subseteq Stored
    BY Zenon, <1>1, <2>1 DEF Stored
  <2> QED BY Zenon, <1>1, <2>1, <2>2, <2>3, <2>4, LeadBeginsInv3
<1>6. CASE LeadRotate(w, q)
  <2>1. UNCHANGED <<lost, bgpc>> /\ mem' = {} /\ imm' = mem /\ ~bg_error /\ ~has_imm
    BY Zenon, <1>6 DEF LeadRotate, Rotate
  <2>2. imm = {}
    BY Zenon, <2>1 DEF Inv2, MemInv
  <2>3. /\ logs' = logs \cup {next_file_number}
        /\ wal' = [x \in Writers |-> IF wal[x] = next_file_number THEN 0 ELSE wal[x]]
    BY Zenon, <1>6 DEF LeadRotate, Rotate
  <2>4. 0 \notin logs' /\ wal' \in [Writers -> Nat] /\ \A x \in Writers : wal'[x] \in {0, wal[x]}
    BY Zenon, <1>2, <2>3
  <2>5. Stored' = Stored
    BY Zenon, <1>1, <2>1, <2>2 DEF Stored
  <2>6. Shrinks
    BY Zenon, <1>1, <2>1, <2>4, <2>5 DEF Shrinks
  <2>7. PICK n \in 1..Len(q) : BeginCommit(w, q, n)
    BY Zenon, <1>6 DEF LeadRotate
  <2>8. imm' \cup tables' \subseteq Stored /\ mem' \subseteq Stored
    BY Zenon, <1>1, <2>1 DEF Stored
  <2>9. manifest.tables = tables
    BY Zenon, <2>2 DEF Inv3, CallInv
  <2> QED BY Zenon, <1>1, <2>1, <2>6, <2>7, <2>8, <2>9, LeadBeginsInv3
<1>7. CASE LeadRotateFails(w, q)
  <2>1. UNCHANGED <<lost, glen, cstatus, mem, imm, last_sequence, seqno, bgpc>>
    BY Zenon, <1>7 DEF LeadRotateFails, RotateFails, groupVars, memVars, seqVars, bgVars
  <2>2. \/ logs' = logs /\ wal' = wal
        \/ /\ logs' = logs \cup {next_file_number}
           /\ wal' = [x \in Writers |-> IF wal[x] = next_file_number THEN 0 ELSE wal[x]]
    BY Zenon, <1>7 DEF LeadRotateFails, RotateFails
  <2>3. 0 \notin logs' /\ wal' \in [Writers -> Nat] /\ \A x \in Writers : wal'[x] \in {0, wal[x]}
    BY <1>2, <2>2
  <2>4. Shrinks
    BY Zenon, <1>1, <2>1, <2>3 DEF Shrinks, Stored
  <2>5. FailQueue(w, q)
    BY Zenon, <1>7 DEF LeadRotateFails
  <2> QED BY <1>1, <2>1, <2>4, <2>5, LeadFailsInv3
<1> QED BY Zenon, <1>3, <1>4, <1>5, <1>6, <1>7 DEF Lead

LEMMA LastOrBefore ==
    ASSUME NEW a \in Nat, NEW n \in Nat, NEW i \in (a + 1)..(n + 1)
    PROVE  i = n + 1 \/ (i \in (a + 1)..n /\ i \in 1..n)
OBVIOUS

(* The followers. *)
LEMMA EnqueueFollowInv3 ==
    ASSUME Inv1, Inv3, NEW w \in Writers, EnqueueFollow(w)
    PROVE  Inv3'
<1>1. /\ wpc[w] = "idle" /\ writers # <<>> /\ writers' = Append(writers, w) /\ wpc' = [wpc EXCEPT ![w] = "follow"]
      /\ UNCHANGED <<result, glen, cstatus, mem, imm, tables, manifest, last_sequence, seqno, wal, logs, lost,
                     bg_error, bgpc>>
  BY Zenon DEF EnqueueFollow, groupVars, memVars, verVars, seqVars, diskVars, bgVars
<1>2. wpc \in [Writers -> Pcs] /\ writers \in Seq(Writers) /\ Len(writers) \in Nat /\ glen \in Nat
  BY DEF Inv1, TypeOK, QueueType, GroupType
<1>3. \A x \in Writers : wpc'[x] = IF x = w THEN "follow" ELSE wpc[x]
  BY Zenon, <1>1, <1>2
<1>4. Touched' = Touched /\ Filed' = Filed /\ Stored' = Stored
  BY Zenon, <1>1 DEF Touched, Filed, Stored
<1>5. w \notin Touched \cup lost /\ result[w] = "none"
  BY Zenon, <1>1 DEF Inv3, OrderInv, FreshInv
<1>6. Len(writers') = Len(writers) + 1 /\ \A i \in 1..Len(writers) : writers'[i] = writers[i] /\ writers[i] \in Writers
  BY <1>1, <1>2
<1>7. writers'[Len(writers')] = w
  BY <1>1, <1>2
<1>8. \A i \in 1..Len(writers') : i = Len(writers') \/ i \in 1..Len(writers)
  BY <1>2, <1>6
<1>9. \A i \in 1..Len(writers) : writers[i] # w
  <2>1. wpc[w] \notin {"follow", "room"} \cup Committing
    BY <1>1
  <2> QED BY Zenon, <2>1 DEF Inv3, OrderInv
<1>10. \A x \in Writers : wpc[x] \in Committing <=> wpc'[x] \in Committing
  BY <1>1, <1>3
<1>11. ASSUME NEW x \in Writers, wpc[x] \in Committing PROVE glen <= Len(writers)
  BY <1>2, <1>11 DEF Inv1, QueueInv
<1>12. Group' = Group
  <2>1. CASE \A x \in Writers : wpc[x] \notin Committing
    <3>1. glen = 0
      BY Zenon, <2>1 DEF Inv3, OrderInv
    <3> QED BY <1>1, <3>1 DEF Group
  <2>2. CASE glen <= Len(writers)
    BY <1>1, <1>2, <1>6, <2>2 DEF Group
  <2> QED BY Zenon, <1>11, <2>1, <2>2
<1>13. OrderInv'
  <2>1. ASSUME NEW i \in 1..Len(writers'), NEW j \in 1..Len(writers'), writers'[i] = writers'[j] PROVE i = j
    <3>1. \A k, l \in 1..Len(writers) : writers[k] = writers[l] => k = l
      BY Zenon DEF Inv3, OrderInv
    <3> QED BY Zenon, <1>6, <1>7, <1>8, <1>9, <2>1, <3>1
  <2>2. ASSUME NEW i \in 1..Len(writers')
        PROVE  result'[writers'[i]] = "none" /\ wpc'[writers'[i]] \in {"follow", "room"} \cup Committing
    <3>1. CASE i = Len(writers')
      BY Zenon, <1>1, <1>3, <1>5, <1>7, <3>1
    <3>2. CASE i \in 1..Len(writers)
      <4>1. result[writers[i]] = "none" /\ wpc[writers[i]] \in {"follow", "room"} \cup Committing
        BY Zenon, <3>2 DEF Inv3, OrderInv
      <4>2. wpc'[writers[i]] = wpc[writers[i]] /\ writers'[i] = writers[i]
        BY Zenon, <1>3, <1>6, <1>9, <3>2
      <4> QED BY Zenon, <1>1, <4>1, <4>2
    <3> QED BY Zenon, <1>8, <3>1, <3>2
  <2>3. ASSUME NEW x \in Writers, wpc'[x] = "idle" PROVE result'[x] = "none"
    <3>1. wpc[x] = "idle"
      BY <1>3, <2>3
    <3> QED BY Zenon, <1>1, <3>1 DEF Inv3, OrderInv
  <2>4. (\A x \in Writers : wpc'[x] \notin Committing) => glen' = 0
    BY Zenon, <1>1, <1>10 DEF Inv3, OrderInv
  <2>5. cstatus' # "err"
    BY Zenon, <1>1 DEF Inv3, OrderInv
  <2> QED BY Zenon, <2>1, <2>2, <2>3, <2>4, <2>5 DEF OrderInv
<1>14. FreshInv'
  <2>1. ASSUME NEW x \in Writers, wpc'[x] = "idle" PROVE x \notin Touched' \cup lost'
    <3>1. wpc[x] = "idle"
      BY <1>3, <2>1
    <3> QED BY Zenon, <1>1, <1>4, <3>1 DEF Inv3, FreshInv
  <2>2. ASSUME NEW i \in (glen' + 1)..Len(writers') PROVE writers'[i] \notin Touched' \cup lost'
    <3>1. i = Len(writers') \/ (i \in (glen + 1)..Len(writers) /\ i \in 1..Len(writers))
      <4>1. glen' = glen /\ glen \in Nat /\ Len(writers) \in Nat /\ Len(writers') = Len(writers) + 1
        BY Zenon, <1>1, <1>2, <1>6
      <4>2. i \in (glen + 1)..(Len(writers) + 1)
        BY Zenon, <4>1
      <4>3. i = Len(writers) + 1 \/ (i \in (glen + 1)..Len(writers) /\ i \in 1..Len(writers))
        BY Zenon, <4>1, <4>2, LastOrBefore
      <4>4. i = Len(writers) + 1 => i = Len(writers')
        BY Zenon, <4>1
      <4> QED BY Zenon, <4>3, <4>4
    <3> QED BY Zenon, <1>1, <1>4, <1>5, <1>6, <1>7, <3>1 DEF Inv3, FreshInv
  <2>3. ASSUME NEW x \in Writers, wpc'[x] \in Committing PROVE wpc'[x] = wpc[x] /\ wpc[x] \in Committing
    BY <1>3, <2>3
  <2> QED BY Zenon, <1>1, <1>4, <1>12, <2>1, <2>2, <2>3 DEF Inv3, FreshInv
<1>15. NumberInv'
  <2>1. ASSUME NEW x \in Writers, wpc'[x] \in Committing, NEW i \in 1..glen PROVE seqno[writers'[i]] = last_sequence + i
    <3>1. wpc[x] \in Committing
      BY Zenon, <1>10, <2>1
    <3>2. i \in 1..Len(writers)
      BY <1>2, <1>11, <3>1
    <3> QED BY Zenon, <1>6, <3>1, <3>2 DEF Inv3, NumberInv
  <2> QED BY Zenon, <1>1, <1>4, <1>12, <2>1 DEF Inv3, NumberInv
<1>16. CallInv'
  <2>1. ASSUME NEW x \in Writers, wpc'[x] = "follow", result'[x] # "none" PROVE wpc[x] = "follow" /\ result'[x] = result[x]
    BY Zenon, <1>1, <1>3, <1>5, <2>1
  <2>2. "ok" # "none" /\ "err" # "none"
    OBVIOUS
  <2>3. \A x \in Writers : wpc'[x] \in {"ok", "dead"} => wpc[x] \in {"ok", "dead"}
    BY Zenon, <1>3
  <2>4. FlushGaveUp' = FlushGaveUp
    BY Zenon, <1>1 DEF FlushGaveUp
  <2> QED BY Zenon, <1>1, <1>4, <2>1, <2>2, <2>3, <2>4 DEF Inv3, CallInv
<1> QED BY Zenon, <1>13, <1>14, <1>15, <1>16 DEF Inv3

LEMMA FollowerReturnsInv3 ==
    ASSUME Inv1, Inv3, NEW w \in Writers, FollowerReturns(w)
    PROVE  Inv3'
<1>1. /\ wpc[w] = "follow" /\ wpc' = [wpc EXCEPT ![w] = result[w]] /\ result[w] # "none"
      /\ UNCHANGED <<writers, result, glen, cstatus, mem, imm, tables, manifest, last_sequence, seqno, wal, logs,
                     lost, bg_error, bgpc>>
  BY Zenon DEF FollowerReturns, groupVars, memVars, verVars, seqVars, diskVars, bgVars
<1>2. wpc \in [Writers -> Pcs] /\ result[w] \in {"ok", "err"} /\ writers \in Seq(Writers)
  BY Zenon, <1>1 DEF Inv1, TypeOK, QueueType
<1>3. \A x \in Writers : wpc'[x] = IF x = w THEN result[w] ELSE wpc[x]
  BY Zenon, <1>1, <1>2
<1>4. Touched' = Touched /\ Filed' = Filed /\ Stored' = Stored /\ Group' = Group
  BY Zenon, <1>1 DEF Touched, Filed, Stored, Group
<1>5. \A x \in Writers : x = w \/ wpc'[x] = wpc[x]
  BY Zenon, <1>3
<1>6. wpc'[w] \in {"ok", "err"}
  BY Zenon, <1>2, <1>3
<1>7. wpc'[w] \notin {"idle", "follow", "dead"} \cup Committing /\ wpc[w] \notin Committing
  BY Zenon, <1>1, <1>6
<1>8. \A i \in 1..Len(writers) : writers[i] # w /\ writers[i] \in Writers
  BY <1>1, <1>2 DEF Inv3, OrderInv
<1>9. OrderInv'
  <2>1. \A i \in 1..Len(writers) : wpc'[writers[i]] = wpc[writers[i]]
    BY Zenon, <1>5, <1>8
  <2>2. \A x \in Writers : wpc'[x] = "idle" => wpc[x] = "idle"
    BY Zenon, <1>5, <1>7
  <2>3. \A x \in Writers : wpc[x] \in Committing => wpc'[x] \in Committing
    BY Zenon, <1>5, <1>7
  <2>4. (\A x \in Writers : wpc'[x] \notin Committing) => glen' = 0
    BY Zenon, <1>1, <2>3 DEF Inv3, OrderInv
  <2>5. \A x \in Writers : wpc'[x] = "idle" => result'[x] = "none"
    BY Zenon, <1>1, <2>2 DEF Inv3, OrderInv
  <2>6. \A i \in 1..Len(writers) : result'[writers[i]] = "none" /\ wpc'[writers[i]] \in {"follow", "room"} \cup Committing
    BY Zenon, <1>1, <2>1 DEF Inv3, OrderInv
  <2>7. (\A i, j \in 1..Len(writers') : writers'[i] = writers'[j] => i = j) /\ cstatus' # "err"
    BY Zenon, <1>1 DEF Inv3, OrderInv
  <2>8. writers' = writers
    BY Zenon, <1>1
  <2> QED BY Zenon, <2>4, <2>5, <2>6, <2>7, <2>8 DEF OrderInv
<1>10. FreshInv'
  BY Zenon, <1>1, <1>4, <1>5, <1>7 DEF Inv3, FreshInv
<1>11. NumberInv'
  BY Zenon, <1>1, <1>4, <1>5, <1>7 DEF Inv3, NumberInv
<1>12. CallInv'
  <2>1. wal[w] # 0 /\ wpc'[w] \in {"ok", "dead"} => w \in Stored
    <3>1. ASSUME wpc'[w] \in {"ok", "dead"} PROVE result[w] = "ok"
      BY <1>2, <1>3, <3>1
    <3> QED BY Zenon, <1>1, <3>1 DEF Inv3, CallInv
  <2>2. FlushGaveUp' = FlushGaveUp
    BY Zenon, <1>1 DEF FlushGaveUp
  <2> QED BY Zenon, <1>1, <1>4, <1>5, <1>7, <2>1, <2>2 DEF Inv3, CallInv
<1> QED BY Zenon, <1>9, <1>10, <1>11, <1>12 DEF Inv3

(* The group of the leader w is a prefix of the queue. *)
LEMMA GroupIs ==
    ASSUME Inv1, Inv3, NEW w \in Writers, wpc[w] \in Committing
    PROVE  /\ glen \in 1..Len(writers) /\ Len(writers) \in Nat /\ Group \subseteq Writers /\ w \in Group
           /\ \A x \in Group : result[x] = "none" /\ (x = w \/ wpc[x] = "follow")
           /\ \A i \in (glen + 1)..Len(writers) : writers[i] \in Writers \ Group /\ i \in 1..Len(writers)
           /\ \A x \in Writers : wpc[x] \in Committing \cup {"room"} => x = w
<1>1. /\ glen \in 1..Len(writers) /\ Len(writers) \in Nat /\ writers \in Seq(Writers) /\ writers[1] = w
      /\ \A i \in 1..Len(writers) : writers[i] \in Writers
  BY DEF Inv1, TypeOK, QueueType, QueueInv
<1>2. 1 \in 1..glen /\ \A i \in 1..glen : i \in 1..Len(writers)
  BY <1>1
<1>3. Group \subseteq Writers /\ w \in Group
  BY Zenon, <1>1, <1>2 DEF Group
<1>4. \A x \in Writers : wpc[x] \in Committing \cup {"room"} => x = w
  BY Zenon DEF Inv1, QueueInv
<1>5. ASSUME NEW x \in Group PROVE result[x] = "none" /\ (x = w \/ wpc[x] = "follow")
  <2>1. PICK i \in 1..glen : x = writers[i]
    BY Zenon DEF Group
  <2>2. result[x] = "none" /\ wpc[x] \in {"follow", "room"} \cup Committing
    BY Zenon, <1>2, <2>1 DEF Inv3, OrderInv
  <2> QED BY Zenon, <1>3, <1>4, <2>2
<1>6. ASSUME NEW i \in (glen + 1)..Len(writers) PROVE writers[i] \in Writers \ Group /\ i \in 1..Len(writers)
  <2>1. i \in 1..Len(writers) /\ \A j \in 1..glen : i # j
    BY <1>1
  <2>2. writers[i] \notin Group
    BY Zenon, <1>2, <2>1 DEF Group, Inv3, OrderInv
  <2> QED BY Zenon, <1>1, <2>1, <2>2
<1> QED BY Zenon, <1>1, <1>3, <1>4, <1>5, <1>6

(***************************************************************************)
(* A step of the unlocked part of write_owned: the group goes to the log   *)
(* or to the memtable.                                                     *)
(***************************************************************************)
LEMMA CommitStepInv3 ==
    ASSUME Inv1, Inv3, NEW w \in Writers, wpc[w] \in {"append", "sync", "insert"},
           NEW p \in {"sync", "insert", "finish"}, wpc' = [wpc EXCEPT ![w] = p], cstatus' \in {"ok", "sync_err"},
           \A x \in Writers \ Group : wal'[x] = wal[x],
           mem' = mem \/ (mem' = mem \cup Group /\ p = "finish" /\ cstatus' = "ok"),
           UNCHANGED <<writers, result, glen, imm, tables, manifest, last_sequence, seqno, logs, lost, bg_error, bgpc>>
    PROVE  Inv3'
<1>1. wpc[w] \in Committing /\ wpc[w] # "finish" /\ p \in Committing /\ p # "append" /\ cstatus' # "err"
  OBVIOUS
<1>2. /\ Group \subseteq Writers /\ w \in Group
      /\ \A x \in Group : result[x] = "none" /\ (x = w \/ wpc[x] = "follow")
      /\ \A i \in (glen + 1)..Len(writers) : writers[i] \in Writers \ Group
      /\ \A x \in Writers : wpc[x] \in Committing => x = w
  BY Zenon, <1>1, GroupIs
<1>3. wpc \in [Writers -> Pcs] /\ writers \in Seq(Writers) /\ Stored \cup manifest.tables \subseteq Writers
  BY Zenon DEF Inv1, TypeOK, QueueType, MemType, VerType, Stored
<1>4. wpc'[w] = p /\ \A x \in Writers : x = w \/ wpc'[x] = wpc[x]
  BY Zenon, <1>3
<1>5. Group' = Group
  BY Zenon DEF Group
<1>6. /\ \A x \in Touched' : x \in Group \/ x \in Touched
      /\ \A x \in Filed' : x \in Group \/ x \in Filed
      /\ Stored \subseteq Stored' /\ Touched' \subseteq Writers
  <2>1. mem \subseteq mem' /\ \A x \in mem' : x \in mem \/ x \in Group
    BY Zenon
  <2>2. \A x \in Filed' : x \in Group \/ x \in Filed
    BY Zenon, <2>1 DEF Filed, Stored
  <2>3. \A x \in Filed' : x \in Writers
    BY Zenon, <1>2, <1>3, <2>2 DEF Filed
  <2> QED BY Zenon, <2>1, <2>2, <2>3 DEF Touched, Stored
<1>7. /\ Group \cap (imm \cup tables \cup manifest.tables \cup lost) = {} /\ Group \cap mem = {}
      /\ \A i \in 1..glen : seqno[writers[i]] = last_sequence + i
  BY Zenon, <1>1 DEF Inv3, FreshInv, NumberInv
<1>8. OrderInv'
  <2>1. \A i \in 1..Len(writers) :
           result[writers[i]] = "none" /\ wpc[writers[i]] \in {"follow", "room"} \cup Committing /\ writers[i] \in Writers
    BY <1>3 DEF Inv3, OrderInv
  <2>2. \A i \in 1..Len(writers) : wpc'[writers[i]] \in {"follow", "room"} \cup Committing
    BY Zenon, <1>1, <1>4, <2>1
  <2>3. \A x \in Writers : wpc'[x] = "idle" => wpc[x] = "idle"
    BY Zenon, <1>1, <1>4
  <2>4. \A x \in Writers : wpc'[x] = "idle" => result'[x] = "none"
    BY Zenon, <2>3 DEF Inv3, OrderInv
  <2>5. \A i, j \in 1..Len(writers') : writers'[i] = writers'[j] => i = j
    BY Zenon DEF Inv3, OrderInv
  <2>6. \A i \in 1..Len(writers') :
           result'[writers'[i]] = "none" /\ wpc'[writers'[i]] \in {"follow", "room"} \cup Committing
    BY Zenon, <2>1, <2>2
  <2> QED BY Zenon, <1>1, <1>4, <2>4, <2>5, <2>6 DEF OrderInv
<1>9. FreshInv'
  <2>1. ASSUME NEW x \in Writers, wpc'[x] = "idle" PROVE x \notin Touched' \cup lost'
    <3>1. wpc[x] = "idle"
      BY Zenon, <1>1, <1>4, <2>1
    <3>2. x \notin Group
      BY <1>1, <1>2, <3>1
    <3> QED BY Zenon, <1>6, <3>1, <3>2 DEF Inv3, FreshInv
  <2>2. ASSUME NEW i \in (glen' + 1)..Len(writers') PROVE writers'[i] \notin Touched' \cup lost'
    BY Zenon, <1>2, <1>6 DEF Inv3, FreshInv
  <2>3. ASSUME NEW x \in Writers, wpc'[x] \in Committing PROVE x = w
    BY Zenon, <1>2, <1>4, <2>3
  <2>4. p # "finish" \/ cstatus' # "ok" => Group' \cap mem' = {}
    BY Zenon, <1>5, <1>7
  <2>5. Group' \cap (imm' \cup tables' \cup manifest'.tables \cup lost') = {}
    BY Zenon, <1>5, <1>7
  <2>6. 0 \notin logs'
    BY Zenon DEF Inv3, FreshInv
  <2> QED BY Zenon, <1>1, <1>4, <2>1, <2>2, <2>3, <2>4, <2>5, <2>6 DEF FreshInv
<1>10. NumberInv'
  <2>1. \A x \in Touched' \ Group' : x \in Touched \ Group /\ (x \notin Filed => x \notin Filed')
    BY Zenon, <1>5, <1>6
  <2>2. Touched' \cup Group' \subseteq Touched \cup Group
    BY Zenon, <1>5, <1>6
  <2>3. \A x \in Touched' \ Group' : seqno[x] <= last_sequence \/ (bg_error /\ x \notin Filed')
    BY Zenon, <2>1 DEF Inv3, NumberInv
  <2>4. \A x, y \in Touched' \cup Group' : seqno[x] = seqno[y] => x = y
    BY Zenon, <2>2 DEF Inv3, NumberInv
  <2> QED BY Zenon, <1>7, <2>3, <2>4 DEF Inv3, NumberInv
<1>11. CallInv'
  <2>1. \A x \in Writers : wpc'[x] = "follow" => wpc[x] = "follow"
    BY Zenon, <1>1, <1>4
  <2>2. \A x \in Writers : wpc'[x] \in {"ok", "dead"} => wpc[x] \in {"ok", "dead"} /\ x \notin Group
    BY Zenon, <1>1, <1>2, <1>4
  <2>3. ASSUME NEW x \in Writers, wpc'[x] = "follow", result'[x] = "err" PROVE x \notin Filed'
    <3>1. x \notin Group
      BY <1>2, <2>3
    <3> QED BY Zenon, <1>6, <2>1, <2>3, <3>1 DEF Inv3, CallInv
  <2>4. ASSUME NEW x \in Writers, wal'[x] # 0, wpc'[x] \in {"ok", "dead"} PROVE x \in Stored'
    BY Zenon, <1>6, <2>2, <2>4 DEF Inv3, CallInv
  <2>5. ASSUME NEW x \in lost' PROVE wal'[x] = 0
    <3>1. x \in Writers \ Group
      BY <1>7 DEF Inv1, TypeOK, DiskType
    <3> QED BY Zenon, <3>1 DEF Inv3, CallInv
  <2>6. FlushGaveUp' = FlushGaveUp
    BY Zenon DEF FlushGaveUp
  <2> QED BY Zenon, <1>6, <2>1, <2>3, <2>4, <2>5, <2>6 DEF Inv3, CallInv
<1> QED BY Zenon, <1>8, <1>9, <1>10, <1>11 DEF Inv3

LEMMA WriterCommitsInv3 ==
    ASSUME Inv1, Inv2, Inv3, NEW w \in Writers,
           AppendWal(w) \/ SyncWal(w) \/ SyncWalFails(w) \/ InsertMem(w)
    PROVE  Inv3'
<1>1. CASE AppendWal(w)
  <2>1. /\ wpc[w] = "append" /\ wal' = Logged
        /\ wpc' = [wpc EXCEPT ![w] = IF w \in SyncWriters THEN "sync" ELSE "insert"]
        /\ UNCHANGED <<writers, result, glen, cstatus, mem, imm, tables, manifest, last_sequence, seqno, logs, lost,
                       bg_error, bgpc>>
    BY Zenon, <1>1 DEF AppendWal, groupVars, memVars, verVars, seqVars, bgVars
  <2>2. \A x \in Writers \ Group : wal'[x] = wal[x]
    BY Zenon, <2>1 DEF Logged
  <2>3. wpc[w] \in Committing /\ wpc[w] # "finish" /\ wpc[w] \in {"append", "sync", "insert"}
    BY Zenon, <2>1
  <2>4. cstatus' \in {"ok", "sync_err"}
    BY Zenon, <2>1, <2>3 DEF Inv2, CommitInv
  <2>5. (IF w \in SyncWriters THEN "sync" ELSE "insert") \in {"sync", "insert", "finish"}
    BY Zenon
  <2> QED BY Zenon, <2>1, <2>2, <2>3, <2>4, <2>5, CommitStepInv3
<1>2. CASE SyncWal(w)
  <2>1. /\ wpc[w] = "sync" /\ wpc' = [wpc EXCEPT ![w] = "insert"]
        /\ UNCHANGED <<writers, result, glen, cstatus, mem, imm, tables, manifest, last_sequence, seqno, logs, lost,
                       bg_error, bgpc, wal>>
    BY Zenon, <1>2 DEF SyncWal, groupVars, memVars, verVars, seqVars, bgVars
  <2>2. wpc[w] \in Committing /\ wpc[w] # "finish" /\ wpc[w] \in {"append", "sync", "insert"}
    BY Zenon, <2>1
  <2>3. cstatus' \in {"ok", "sync_err"}
    BY Zenon, <2>1, <2>2 DEF Inv2, CommitInv
  <2> QED BY Zenon, <2>1, <2>2, <2>3, CommitStepInv3
<1>3. CASE SyncWalFails(w)
  <2>1. /\ wpc[w] = "sync" /\ wpc' = [wpc EXCEPT ![w] = "finish"] /\ cstatus' = "sync_err"
        /\ UNCHANGED <<writers, result, glen, mem, imm, tables, manifest, last_sequence, seqno, logs, lost,
                       bg_error, bgpc, wal>>
    BY Zenon, <1>3 DEF SyncWalFails, memVars, verVars, seqVars, bgVars, diskVars
  <2>2. wpc[w] \in {"append", "sync", "insert"} /\ cstatus' \in {"ok", "sync_err"}
    BY Zenon, <2>1
  <2> QED BY Zenon, <2>1, <2>2, CommitStepInv3
<1>4. CASE InsertMem(w)
  <2>1. /\ wpc[w] = "insert" /\ wpc' = [wpc EXCEPT ![w] = "finish"]
        /\ mem' = (IF target = "mem" THEN mem \cup Group ELSE mem)
        /\ imm' = (IF target = "imm" THEN imm \cup Group ELSE imm)
        /\ UNCHANGED <<writers, result, glen, cstatus, tables, manifest, last_sequence, seqno, logs, lost,
                       bg_error, bgpc, wal>>
    BY Zenon, <1>4 DEF InsertMem, groupVars, verVars, seqVars, bgVars, diskVars
  <2>2. wpc[w] \in Committing /\ wpc[w] # "finish" /\ wpc[w] \in {"append", "sync", "insert"}
    BY Zenon, <2>1
  <2>3. cstatus = "ok" /\ target = "mem"
    BY Zenon, <2>2 DEF Inv2, CommitInv
  <2>4. mem' = mem \cup Group /\ imm' = imm /\ cstatus' = "ok" /\ cstatus' \in {"ok", "sync_err"}
    BY <2>1, <2>3
  <2> QED BY Zenon, <2>1, <2>2, <2>4, CommitStepInv3
<1> QED BY Zenon, <1>1, <1>2, <1>3, <1>4

LEMMA TailFrom ==
    ASSUME NEW S, NEW s \in Seq(S), NEW n \in 1..Len(s)
    PROVE  \A i \in 1..Len(SubSeq(s, n + 1, Len(s))) :
              SubSeq(s, n + 1, Len(s))[i] = s[i + n] /\ i + n \in (n + 1)..Len(s)
<1>1. Len(s) \in Nat /\ n \in Nat /\ n <= Len(s)
  OBVIOUS
<1>2. Len(SubSeq(s, n + 1, Len(s))) = Len(s) - n
  BY <1>1
<1>3. ASSUME NEW i \in 1..(Len(s) - n)
      PROVE  SubSeq(s, n + 1, Len(s))[i] = s[i + n] /\ i + n \in (n + 1)..Len(s)
  BY <1>1
<1> QED BY Zenon, <1>2, <1>3

LEMMA FinishGroupInv3 ==
    ASSUME Inv1, Inv2, Inv3, NEW w \in Writers, FinishGroup(w)
    PROVE  Inv3'
<1>1. /\ wpc[w] = "finish" /\ writers' = SubSeq(writers, glen + 1, Len(writers)) /\ glen' = 0
      /\ result' = [x \in Writers |-> IF x \in Group \ {w} THEN Status ELSE result[x]]
      /\ wpc' = [wpc EXCEPT ![w] = Status] /\ last_sequence' = Published
      /\ bg_error' = (bg_error \/ cstatus = "sync_err")
      /\ UNCHANGED <<cstatus, mem, imm, tables, manifest, seqno, wal, logs, lost, bgpc>>
  BY Zenon DEF FinishGroup, verVars, diskVars, bgVars
<1>2. wpc[w] \in Committing
  BY Zenon, <1>1
<1>3. /\ glen \in 1..Len(writers) /\ Len(writers) \in Nat /\ Group \subseteq Writers /\ w \in Group
      /\ \A x \in Group : result[x] = "none" /\ (x = w \/ wpc[x] = "follow")
      /\ \A i \in (glen + 1)..Len(writers) : writers[i] \in Writers \ Group /\ i \in 1..Len(writers)
      /\ \A x \in Writers : wpc[x] \in Committing => x = w
  BY Zenon, <1>2, GroupIs
<1>4. /\ wpc \in [Writers -> Pcs] /\ writers \in Seq(Writers) /\ cstatus \in {"ok", "sync_err"} /\ glen \in Nat
      /\ last_sequence \in Nat /\ seqno \in [Writers -> Nat] /\ manifest.seq \in Nat /\ Touched \subseteq Writers
  BY Zenon DEF Inv1, TypeOK, QueueType, GroupType, SeqType, VerType, MemType, Inv3, OrderInv, Touched,
     Filed, Stored
<1>5. wpc'[w] = Status /\ \A x \in Writers : x = w \/ wpc'[x] = wpc[x]
  BY Zenon, <1>1, <1>4
<1>6. Touched' = Touched /\ Filed' = Filed /\ Stored' = Stored
  BY Zenon, <1>1 DEF Touched, Filed, Stored
<1>7. Group' = {}
  BY <1>1 DEF Group
<1>8. \/ cstatus = "ok" /\ Status = "ok" /\ Group \subseteq Stored
      \/ cstatus = "sync_err" /\ Status = "err" /\ Group \cap Filed = {} /\ bg_error'
  <2>1. CASE cstatus = "ok"
    <3>1. Group \subseteq mem
      BY Zenon, <1>1, <1>2, <2>1 DEF Inv2, CommitInv
    <3> QED BY Zenon, <2>1, <3>1 DEF Status, Stored
  <2>2. CASE cstatus = "sync_err"
    <3>1. cstatus # "ok"
      BY Zenon, <2>2
    <3>2. Group \cap (imm \cup tables \cup manifest.tables \cup lost) = {} /\ Group \cap mem = {}
      BY Zenon, <1>2, <3>1 DEF Inv3, FreshInv
    <3>3. Group \cap Filed = {}
      BY Zenon, <3>2 DEF Filed, Stored
    <3> QED BY Zenon, <1>1, <2>2, <3>1, <3>3 DEF Status
  <2> QED BY Zenon, <1>4, <2>1, <2>2
<1>9. \A x \in Writers : wpc'[x] \notin Committing
  <2>1. Status \notin Committing
    BY <1>8
  <2> QED BY Zenon, <1>3, <1>5, <2>1
<1>10. \A i \in 1..Len(writers') : writers'[i] = writers[i + glen] /\ i + glen \in (glen + 1)..Len(writers)
  <2>1. \A i \in 1..Len(SubSeq(writers, glen + 1, Len(writers))) :
           /\ SubSeq(writers, glen + 1, Len(writers))[i] = writers[i + glen]
           /\ i + glen \in (glen + 1)..Len(writers)
    BY <1>3, <1>4, TailFrom
  <2> QED BY Zenon, <1>1, <2>1
<1>11. \A x \in Writers \ Group : wpc'[x] = wpc[x] /\ result'[x] = result[x]
  BY Zenon, <1>1, <1>3, <1>5
<1>12. \A x \in Group \ {w} : wpc'[x] = "follow" /\ result'[x] = Status
  BY Zenon, <1>1, <1>3, <1>5
<1>13. OrderInv'
  <2>1. ASSUME NEW i \in 1..Len(writers'), NEW j \in 1..Len(writers'), writers'[i] = writers'[j] PROVE i = j
    <3>1. i + glen \in 1..Len(writers) /\ j + glen \in 1..Len(writers) /\ writers[i + glen] = writers[j + glen]
      BY Zenon, <1>3, <1>10, <2>1
    <3>2. i + glen = j + glen
      BY Zenon, <3>1 DEF Inv3, OrderInv
    <3> QED BY <1>4, <3>2
  <2>2. ASSUME NEW i \in 1..Len(writers')
        PROVE  result'[writers'[i]] = "none" /\ wpc'[writers'[i]] \in {"follow", "room"} \cup Committing
    <3>1. PICK k \in 1..Len(writers) : writers'[i] = writers[k] /\ writers[k] \in Writers \ Group
      BY Zenon, <1>3, <1>10
    <3>2. result[writers[k]] = "none" /\ wpc[writers[k]] \in {"follow", "room"} \cup Committing
      BY Zenon, <3>1 DEF Inv3, OrderInv
    <3> QED BY Zenon, <1>11, <3>1, <3>2
  <2>3. ASSUME NEW x \in Writers, wpc'[x] = "idle" PROVE result'[x] = "none"
    <3>1. x \notin Group
      BY <1>5, <1>8, <1>12, <2>3
    <3> QED BY Zenon, <1>11, <2>3, <3>1 DEF Inv3, OrderInv
  <2>4. cstatus' # "err"
    BY Zenon, <1>1 DEF Inv3, OrderInv
  <2> QED BY Zenon, <1>1, <2>1, <2>2, <2>3, <2>4 DEF OrderInv
<1>14. FreshInv'
  <2>1. ASSUME NEW x \in Writers, wpc'[x] = "idle" PROVE x \notin Touched' \cup lost'
    <3>1. x \notin Group
      BY <1>5, <1>8, <1>12, <2>1
    <3> QED BY Zenon, <1>1, <1>6, <1>11, <2>1, <3>1 DEF Inv3, FreshInv
  <2>2. glen' + 1 = 1 /\ 0 \notin logs'
    BY <1>1 DEF Inv3, FreshInv
  <2>3. \A i \in 1..Len(writers') : writers'[i] \notin Touched' \cup lost'
    BY Zenon, <1>1, <1>6, <1>10 DEF Inv3, FreshInv
  <2> QED BY Zenon, <1>9, <2>1, <2>2, <2>3 DEF FreshInv
<1>15. NumberInv'
  <2>1. last_sequence <= last_sequence' /\ last_sequence' \in Nat /\ (cstatus = "ok" => last_sequence' = last_sequence + glen)
    BY <1>1, <1>4 DEF Published
  <2>2. ASSUME NEW x \in Touched PROVE seqno[x] <= last_sequence' \/ (bg_error' /\ x \notin Filed)
    <3>1. CASE x \in Group /\ cstatus = "ok"
      <4>1. PICK i \in 1..glen : x = writers[i]
        BY Zenon, <3>1 DEF Group
      <4>2. seqno[x] = last_sequence + i
        BY Zenon, <1>2, <4>1 DEF Inv3, NumberInv
      <4> QED BY <1>4, <2>1, <3>1, <4>2
    <3>2. CASE x \in Group /\ cstatus # "ok"
      BY Zenon, <1>8, <3>2
    <3>3. CASE x \notin Group
      <4>1. seqno[x] <= last_sequence \/ (bg_error /\ x \notin Filed)
        BY Zenon, <3>3 DEF Inv3, NumberInv
      <4>2. seqno[x] \in Nat
        BY Zenon, <1>4
      <4>3. CASE seqno[x] <= last_sequence
        BY <1>4, <2>1, <4>2, <4>3
      <4> QED BY Zenon, <1>1, <4>1, <4>3
    <3> QED BY Zenon, <3>1, <3>2, <3>3
  <2>3. manifest.seq <= last_sequence'
    <3>1. manifest.seq <= last_sequence
      BY Zenon DEF Inv3, NumberInv
    <3> QED BY <1>4, <2>1, <3>1
  <2>4. \A x \in Touched' \ Group' : seqno'[x] <= last_sequence' \/ (bg_error' /\ x \notin Filed')
    BY Zenon, <1>1, <1>6, <2>2
  <2>5. \A x, y \in Touched' \cup Group' : seqno'[x] = seqno'[y] => x = y
    BY Zenon, <1>1, <1>6, <1>7 DEF Inv3, NumberInv
  <2>6. \A x \in manifest'.tables : seqno'[x] <= manifest'.seq
    BY Zenon, <1>1 DEF Inv3, NumberInv
  <2> QED BY Zenon, <1>1, <1>9, <2>3, <2>4, <2>5, <2>6 DEF NumberInv
<1>16. CallInv'
  <2>1. ASSUME NEW x \in Writers, wpc'[x] = "follow", result'[x] = "ok" PROVE x \in Stored
    <3>1. CASE x \in Group
      <4>1. x # w /\ Status = "ok"
        BY Zenon, <1>5, <1>8, <1>12, <2>1, <3>1
      <4> QED BY Zenon, <1>8, <3>1, <4>1
    <3>2. CASE x \notin Group
      BY Zenon, <1>11, <2>1, <3>2 DEF Inv3, CallInv
    <3> QED BY Zenon, <3>1, <3>2
  <2>2. ASSUME NEW x \in Writers, wpc'[x] = "follow", result'[x] = "err" PROVE x \notin Filed
    <3>1. CASE x \in Group
      <4>1. x # w /\ Status = "err"
        BY Zenon, <1>5, <1>8, <1>12, <2>2, <3>1
      <4> QED BY Zenon, <1>8, <3>1, <4>1
    <3>2. CASE x \notin Group
      BY Zenon, <1>11, <2>2, <3>2 DEF Inv3, CallInv
    <3> QED BY Zenon, <3>1, <3>2
  <2>3. ASSUME NEW x \in Writers, wal[x] # 0, wpc'[x] \in {"ok", "dead"} PROVE x \in Stored
    <3>1. CASE x \in Group
      BY Zenon, <1>5, <1>8, <1>12, <2>3, <3>1
    <3>2. CASE x \notin Group
      BY Zenon, <1>11, <2>3, <3>2 DEF Inv3, CallInv
    <3> QED BY Zenon, <3>1, <3>2
  <2>4. FlushGaveUp => FlushGaveUp'
    BY Zenon, <1>1 DEF FlushGaveUp
  <2> QED BY Zenon, <1>1, <1>6, <2>1, <2>2, <2>3, <2>4 DEF Inv3, CallInv
<1> QED BY Zenon, <1>13, <1>14, <1>15, <1>16 DEF Inv3

(* The steps of the background thread that leave the batches where they are. *)
LEMMA BgQuietInv3 ==
    ASSUME Inv1, Inv2, Inv3,
           \/ BgParks \/ BgUnparked \/ BgRefuses \/ BgStarts \/ BgLooksAtImm \/ BgFindsNothing \/ BgCollects
           \/ BgBuilds \/ BgPicks \/ BgOpensOutput \/ BgCompacts \/ BgCompactFails \/ BgEnds \/ SpuriousWakeup
           \/ \E w \in Writers : FollowerWaits(w)
           \/ UNCHANGED vars
    PROVE  Inv3'
<1> DEFINE Kept == /\ 0 \notin logs' /\ (bg_error => bg_error')
                   /\ UNCHANGED <<writers, wpc, result, glen, cstatus, mem, imm, tables, last_sequence, seqno, wal, lost>>
                   /\ manifest'.tables = manifest.tables /\ manifest'.seq \in {manifest.seq, last_sequence}
                   /\ (manifest.tables = tables \/ (FlushGaveUp => FlushGaveUp'))
<1> USE DEF queueVars, groupVars, memVars, verVars, seqVars, diskVars, bgVars
<1>1. 0 \notin logs /\ SeqType /\ VerType
  BY Zenon DEF Inv3, FreshInv, Inv1, TypeOK
<1>2. ASSUME BgParks PROVE Kept
  BY Zenon, <1>1, <1>2 DEF BgParks, FlushGaveUp
<1>3. ASSUME BgUnparked PROVE Kept
  BY Zenon, <1>1, <1>3 DEF BgUnparked, FlushGaveUp
<1>4. ASSUME BgRefuses PROVE Kept
  BY Zenon, <1>1, <1>4 DEF BgRefuses, FlushGaveUp
<1>5. ASSUME BgStarts PROVE Kept
  BY Zenon, <1>1, <1>5 DEF BgStarts, FlushGaveUp
<1>6. ASSUME BgLooksAtImm PROVE Kept
  BY Zenon, <1>1, <1>6 DEF BgLooksAtImm, FlushGaveUp
<1>7. ASSUME BgFindsNothing PROVE Kept
  BY Zenon, <1>1, <1>7 DEF BgFindsNothing, ClearImm, FlushGaveUp
<1>8. ASSUME BgCollects PROVE Kept
  BY Zenon, <1>1, <1>8 DEF BgCollects, FlushGaveUp
<1>9. ASSUME BgBuilds PROVE Kept
  BY Zenon, <1>1, <1>9 DEF BgBuilds, FlushGaveUp
<1>10. ASSUME BgPicks PROVE Kept
  BY Zenon, <1>1, <1>10 DEF BgPicks, FlushGaveUp
<1>11. ASSUME BgOpensOutput PROVE Kept
  BY Zenon, <1>1, <1>11 DEF BgOpensOutput, FlushGaveUp
<1>12. ASSUME BgEnds PROVE Kept
  BY Zenon, <1>1, <1>12 DEF BgEnds, FlushGaveUp
<1>13. ASSUME SpuriousWakeup PROVE Kept
  BY Zenon, <1>1, <1>13 DEF SpuriousWakeup, FlushGaveUp
<1>14. ASSUME BgCompacts \/ BgCompactFails PROVE Kept
  <2>1. /\ bgpc = "compact"
        /\ UNCHANGED <<writers, wpc, result, glen, cstatus, mem, imm, tables, last_sequence, seqno, wal, logs, lost, bg_error>>
        /\ manifest' = manifest \/ \E n \in 0..(l0 - 1) : manifest' = Compacted(n)
    BY Zenon, <1>14 DEF BgCompacts, BgCompactFails
  <2>2. ~FlushGaveUp
    BY Zenon, <2>1 DEF FlushGaveUp
  <2>3. manifest.tables = tables
    BY Zenon, <2>2 DEF Inv3, CallInv
  <2>4. manifest'.tables = manifest.tables /\ manifest'.seq \in {manifest.seq, last_sequence}
    BY <2>1, <2>3 DEF Compacted
  <2> QED BY Zenon, <1>1, <2>1, <2>3, <2>4
<1>15. ASSUME \E w \in Writers : FollowerWaits(w) PROVE Kept
  <2>1. PICK w \in Writers : FollowerWaits(w)
    BY Zenon, <1>15
  <2>2. UNCHANGED <<manifest, bgpc, bg_error, logs, writers, wpc, result, glen, cstatus, mem, imm, tables,
                    last_sequence, seqno, wal, lost>>
    BY Zenon, <2>1 DEF FollowerWaits
  <2> QED BY Zenon, <1>1, <2>2 DEF FlushGaveUp
<1>16. ASSUME UNCHANGED vars PROVE Kept
  BY Zenon, <1>1, <1>16 DEF vars, FlushGaveUp
<1>17. Kept
  BY Zenon, <1>2, <1>3, <1>4, <1>5, <1>6, <1>7, <1>8, <1>9, <1>10, <1>11, <1>12, <1>13, <1>14, <1>15, <1>16
<1> QED BY Zenon, <1>1, <1>17, QuietInv3

(***************************************************************************)
(* The MANIFEST gets the edit of a flush, and so does the current version  *)
(* unless log_and_apply fails.                                             *)
(***************************************************************************)
LEMMA InstallInv3 ==
    ASSUME Inv1, Inv3, ~FlushGaveUp, 0 \notin logs', tables' \cup imm' = tables \cup imm,
           imm' \subseteq imm,
           manifest' = manifest \/ (manifest'.tables = tables \cup imm /\ manifest'.seq = last_sequence),
           manifest'.tables = tables' \/ (FlushGaveUp' /\ manifest'.tables = tables' \cup imm'),
           UNCHANGED <<writers, wpc, result, glen, cstatus, mem, last_sequence, seqno, wal, lost, bg_error>>
    PROVE  Inv3'
<1>1. manifest.tables = tables
  BY Zenon DEF Inv3, CallInv
<1>2. Stored' = Stored /\ Filed' = Filed /\ Touched' = Touched /\ Group' = Group
  <2>1. Stored' = Stored
    BY Zenon DEF Stored
  <2>2. manifest.tables \subseteq Stored /\ manifest'.tables \subseteq Stored
    BY Zenon, <1>1 DEF Stored
  <2>3. Filed' = Filed
    BY Zenon, <2>1, <2>2 DEF Filed
  <2> QED BY Zenon, <2>1, <2>3 DEF Touched, Group
<1>3. Group \cap (imm \cup tables) = {} /\ imm \cup tables \subseteq Filed /\ Filed \subseteq Touched
  <2>1. CASE \A x \in Writers : wpc[x] \notin Committing
    <3>1. glen = 0
      BY Zenon, <2>1 DEF Inv3, OrderInv
    <3>2. Group = {}
      BY <3>1 DEF Group
    <3> QED BY Zenon, <3>2 DEF Filed, Stored, Touched
  <2>2. CASE \E x \in Writers : wpc[x] \in Committing
    <3>1. Group \cap (imm \cup tables \cup manifest.tables \cup lost) = {}
      BY Zenon, <2>2 DEF Inv3, FreshInv
    <3> QED BY Zenon, <3>1 DEF Filed, Stored, Touched
  <2> QED BY Zenon, <2>1, <2>2
<1>4. OrderInv'
  BY Zenon DEF Inv3, OrderInv
<1>5. FreshInv'
  <2>1. ASSUME NEW w \in Writers, wpc[w] \in Committing
        PROVE  Group \cap (imm' \cup tables' \cup manifest'.tables \cup lost') = {}
    <3>1. Group \cap lost = {}
      BY Zenon, <2>1 DEF Inv3, FreshInv
    <3>2. imm' \cup tables' \cup manifest'.tables \subseteq imm \cup tables
      BY Zenon, <1>1
    <3> QED BY Zenon, <1>3, <3>1, <3>2
  <2> QED BY Zenon, <1>2, <2>1 DEF Inv3, FreshInv
<1>6. NumberInv'
  <2>1. \A x \in imm \cup tables : seqno[x] <= last_sequence
    BY Zenon, <1>3 DEF Inv3, NumberInv
  <2>2. last_sequence <= last_sequence
    BY DEF Inv1, TypeOK, SeqType
  <2>3. manifest'.seq <= last_sequence /\ \A x \in manifest'.tables : seqno[x] <= manifest'.seq
    BY Zenon, <2>1, <2>2 DEF Inv3, NumberInv
  <2> QED BY Zenon, <1>2, <2>3 DEF Inv3, NumberInv
<1>7. CallInv'
  BY Zenon, <1>2 DEF Inv3, CallInv
<1> QED BY Zenon, <1>4, <1>5, <1>6, <1>7 DEF Inv3

LEMMA BgInstallsInv3 ==
    ASSUME Inv1, Inv2, Inv3, BgInstalls \/ BgInstallFails
    PROVE  Inv3'
<1>1. bgpc = "install" /\ 0 \notin logs
  BY Zenon DEF BgInstalls, BgInstallFails, Inv3, FreshInv
<1>2. ~FlushGaveUp
  BY Zenon, <1>1 DEF FlushGaveUp
<1>3. flush.entries = imm
  BY Zenon, <1>1 DEF Inv2, FlushInv
<1>4. \A k : Flushed(k).tables = tables \cup imm /\ Flushed(k).seq = last_sequence
  BY Zenon, <1>3 DEF Flushed
<1>5. UNCHANGED <<writers, wpc, result, glen, cstatus, mem, last_sequence, seqno, wal, lost, bg_error>>
  BY Zenon DEF BgInstalls, BgInstallFails, queueVars, groupVars, memVars, seqVars, diskVars
<1>6. CASE BgInstalls
  <2>1. /\ imm' = {} /\ tables' = tables \cup imm /\ logs' = {n \in logs : n >= log_file_number}
        /\ \E d \in {0, 1} : manifest' = Flushed(l0 + d)
    BY Zenon, <1>3, <1>6 DEF BgInstalls, ClearImm, LiveLogs
  <2>2. manifest'.tables = tables \cup imm /\ manifest'.seq = last_sequence
    BY Zenon, <1>4, <2>1
  <2>3. 0 \notin logs' /\ tables' \cup imm' = tables \cup imm /\ imm' \subseteq imm
    BY Zenon, <1>1, <2>1
  <2> QED BY Zenon, <1>2, <1>5, <2>1, <2>2, <2>3, InstallInv3
<1>7. CASE BgInstallFails
  <2>1. /\ imm' = imm /\ tables' = tables /\ logs' = logs /\ bgpc' = "fail"
        /\ manifest' = manifest \/ \E d \in {0, 1} : manifest' = Flushed(l0 + d)
    BY Zenon, <1>7 DEF BgInstallFails, memVars, diskVars
  <2>2. manifest' = manifest \/ (manifest'.tables = tables \cup imm /\ manifest'.seq = last_sequence)
    BY Zenon, <1>4, <2>1
  <2>3. manifest.tables = tables /\ FlushGaveUp'
    BY Zenon, <1>2, <2>1 DEF Inv3, CallInv, FlushGaveUp
  <2>4. manifest'.tables = tables' \/ (FlushGaveUp' /\ manifest'.tables = tables' \cup imm')
    BY Zenon, <2>1, <2>2, <2>3
  <2>5. 0 \notin logs' /\ tables' \cup imm' = tables \cup imm /\ imm' \subseteq imm
    BY Zenon, <1>1, <2>1
  <2> QED BY Zenon, <1>2, <1>5, <2>2, <2>4, <2>5, InstallInv3
<1> QED BY Zenon, <1>6, <1>7

(***************************************************************************)
(* What a crash and the next open make of the batches: the tables hold     *)
(* what the MANIFEST named and what was replayed.                          *)
(***************************************************************************)
LEMMA CrashIs ==
    ASSUME Inv1, Inv3, CrashAndOpen
    PROVE  \E K \in SUBSET Replayable :
              /\ Survive(K) /\ tables' = manifest.tables \cup K /\ manifest'.tables = tables' /\ manifest'.seq = last_sequence'
              /\ mem' = {} /\ imm' = {} /\ lost' = lost \cup (Replayable \ K) /\ seqno' = seqno
              /\ \A x \in Writers : wal'[x] = 0 \/ (x \in K /\ wal'[x] = wal[x])
              /\ Replayable \subseteq {x \in Writers : wal[x] # 0}
              /\ last_sequence' \in Nat /\ \A x \in tables' : seqno[x] <= last_sequence'
              /\ 0 \notin logs'
<1>1. PICK K \in SUBSET Replayable : Survive(K) /\ Reopen(K)
  BY Zenon DEF CrashAndOpen
<1>2. seqno' = seqno
  BY Zenon DEF CrashAndOpen
<1>3. /\ tables' = manifest.tables \cup K /\ mem' = {} /\ imm' = {} /\ lost' = lost \cup (Replayable \ K)
      /\ wal' = [x \in Writers |-> IF x \in K /\ wal[x] > OpenLog(K) THEN wal[x] ELSE 0]
      /\ logs' = {OpenLog(K)} \cup {n \in logs : n > OpenLog(K)}
      /\ manifest' = [log |-> OpenLog(K), tables |-> tables', l0 |-> l0', seq |-> last_sequence', next |-> OpenLog(K) + 1]
      /\ \E m \in {manifest.seq} \cup {seqno[x] : x \in K} :
            m >= manifest.seq /\ (\A x \in K : m >= seqno[x]) /\ last_sequence' = m
  BY Zenon, <1>1 DEF Reopen
<1>4. manifest'.tables = tables' /\ manifest'.seq = last_sequence'
  BY Zenon, <1>3
<1>5. \A x \in Writers : wal'[x] = 0 \/ (x \in K /\ wal'[x] = wal[x])
  BY Zenon, <1>3
<1>6. 0 \notin logs
  BY Zenon DEF Inv3, FreshInv
<1>7. Replayable \subseteq {x \in Writers : wal[x] # 0}
  BY Zenon, <1>6 DEF Replayable
<1>8. manifest.seq \in Nat /\ seqno \in [Writers -> Nat] /\ manifest.tables \subseteq Writers /\ OpenLog(K) \in Nat \ {0}
  <2>1. manifest.next \in Nat \ {0}
    BY Zenon DEF Inv1, TypeOK, VerType, QueueInv
  <2> QED BY <2>1 DEF Inv1, TypeOK, VerType, SeqType, OpenLog
<1>9. K \subseteq Writers
  BY Zenon, <1>7
<1>10. last_sequence' \in Nat /\ manifest.seq <= last_sequence' /\ \A x \in K : seqno[x] <= last_sequence'
  BY Zenon, <1>3, <1>8, <1>9
<1>11. ASSUME NEW x \in tables' PROVE seqno[x] <= last_sequence'
  <2>1. CASE x \in K
    BY Zenon, <1>10, <2>1
  <2>2. CASE x \in manifest.tables
    <3>1. seqno[x] <= manifest.seq /\ seqno[x] \in Nat
      BY Zenon, <1>8, <2>2 DEF Inv3, NumberInv
    <3> QED BY <1>8, <1>10, <3>1
  <2> QED BY Zenon, <1>3, <2>1, <2>2
<1>12. 0 \notin logs'
  BY <1>3, <1>6, <1>8
<1> QED BY Zenon, <1>1, <1>2, <1>3, <1>4, <1>5, <1>7, <1>10, <1>11, <1>12

LEMMA CrashAndOpenInv3 ==
    ASSUME Inv1, Inv2, Inv3, CrashAndOpen
    PROVE  Inv3'
<1>1. PICK K \in SUBSET Replayable :
         /\ Survive(K) /\ tables' = manifest.tables \cup K /\ manifest'.tables = tables' /\ manifest'.seq = last_sequence'
         /\ mem' = {} /\ imm' = {} /\ lost' = lost \cup (Replayable \ K) /\ seqno' = seqno
         /\ \A x \in Writers : wal'[x] = 0 \/ (x \in K /\ wal'[x] = wal[x])
         /\ Replayable \subseteq {x \in Writers : wal[x] # 0}
         /\ last_sequence' \in Nat /\ \A x \in tables' : seqno[x] <= last_sequence'
         /\ 0 \notin logs'
  BY Zenon, CrashIs
<1>2. /\ writers' = <<>> /\ result' = [w \in Writers |-> "none"] /\ glen' = 0 /\ cstatus' = "ok" /\ bg_error' = FALSE
      /\ wpc' = [w \in Writers |-> IF wpc[w] \in {"idle", "ok", "err"} THEN wpc[w] ELSE "dead"]
  BY Zenon DEF CrashAndOpen
<1>3. \A x \in Writers : /\ result'[x] = "none"
                         /\ wpc'[x] = IF wpc[x] \in {"idle", "ok", "err"} THEN wpc[x] ELSE "dead"
  BY Zenon, <1>2
<1>4. \A x \in Writers : wpc'[x] \notin Committing \cup {"follow"} /\ (wpc'[x] = "idle" => wpc[x] = "idle")
  BY Zenon, <1>3
<1>5. Group' = {} /\ Len(writers') = 0 /\ (\A i \in 1..Len(writers') : FALSE)
      /\ \A i \in (glen' + 1)..Len(writers') : FALSE
  BY <1>2 DEF Group
<1>6. Stored' = tables' /\ Filed' = tables' /\ manifest.tables \subseteq Filed
  BY Zenon, <1>1 DEF Stored, Filed
<1>7. Touched' = tables'
  BY Zenon, <1>1, <1>6 DEF Touched
<1>8. tables' \subseteq Touched /\ lost' \subseteq Touched \cup lost
  BY Zenon, <1>1, <1>6 DEF Touched
<1>9. OrderInv'
  <2>1. cstatus' # "err"
    BY <1>2
  <2> QED BY Zenon, <1>2, <1>3, <1>5, <2>1 DEF OrderInv
<1>10. FreshInv'
  <2>1. ASSUME NEW x \in Writers, wpc'[x] = "idle" PROVE x \notin Touched' \cup lost'
    <3>1. x \notin Touched \cup lost
      BY Zenon, <1>4, <2>1 DEF Inv3, FreshInv
    <3> QED BY Zenon, <1>7, <1>8, <3>1
  <2>2. \A x \in Writers : wpc'[x] \notin Committing
    BY Zenon, <1>4
  <2> QED BY Zenon, <1>1, <1>5, <2>1, <2>2 DEF FreshInv
<1>11. NumberInv'
  <2>1. last_sequence' <= last_sequence'
    BY <1>1
  <2>2. \A x, y \in Touched' \cup Group' : seqno'[x] = seqno'[y] => x = y
    BY Zenon, <1>1, <1>5, <1>7, <1>8 DEF Inv3, NumberInv
  <2>3. \A x \in Writers : wpc'[x] \notin Committing
    BY Zenon, <1>4
  <2>4. \A x \in tables' : seqno'[x] <= last_sequence'
    BY Zenon, <1>1
  <2>5. manifest'.tables = tables' /\ manifest'.seq = last_sequence'
    BY Zenon, <1>1
  <2> QED BY Zenon, <1>7, <2>1, <2>2, <2>3, <2>4, <2>5 DEF NumberInv
<1>12. CallInv'
  <2>1. ASSUME NEW x \in lost' PROVE wal'[x] = 0
    <3>1. x \in Writers
      BY Zenon, <1>1 DEF Inv1, TypeOK, DiskType
    <3>2. CASE wal'[x] # 0
      <4>1. x \in K /\ wal[x] # 0
        BY Zenon, <1>1, <3>1, <3>2
      <4>2. x \in lost
        BY Zenon, <1>1, <2>1, <4>1
      <4> QED BY Zenon, <4>1, <4>2 DEF Inv3, CallInv
    <3> QED BY Zenon, <3>2
  <2>2. \A x \in Writers : wal'[x] # 0 => x \in Stored'
    BY Zenon, <1>1, <1>6
  <2>3. \A x \in Writers : wpc'[x] # "follow"
    BY Zenon, <1>4
  <2> QED BY Zenon, <1>1, <2>1, <2>2, <2>3 DEF CallInv
<1> QED BY Zenon, <1>9, <1>10, <1>11, <1>12 DEF Inv3

LEMMA Init3 == Init => Inv3
<1> SUFFICES ASSUME Init PROVE Inv3
  OBVIOUS
<1>1. /\ writers = <<>> /\ wpc = [w \in Writers |-> "idle"] /\ result = [w \in Writers |-> "none"] /\ glen = 0
      /\ cstatus = "ok" /\ mem = {} /\ imm = {} /\ tables = {} /\ last_sequence = 0 /\ lost = {} /\ logs = {2}
      /\ wal = [w \in Writers |-> 0]
      /\ manifest = [log |-> 2, tables |-> {}, l0 |-> l0, seq |-> 0, next |-> 3]
  BY Zenon DEF Init
<1>2. manifest.tables = {} /\ manifest.seq = 0
  BY Zenon, <1>1
<1>3. Stored = {} /\ Filed = {} /\ Touched = {}
  BY Zenon, <1>1, <1>2 DEF Stored, Filed, Touched
<1>4. Group = {} /\ (\A i \in 1..Len(writers) : FALSE) /\ \A i \in (glen + 1)..Len(writers) : FALSE
  BY <1>1 DEF Group
<1>5. \A w \in Writers : wpc[w] = "idle" /\ result[w] = "none" /\ wpc[w] \notin Committing \cup {"follow", "ok", "dead"}
  BY Zenon, <1>1
<1>6. cstatus # "err" /\ 0 \notin logs /\ manifest.seq <= last_sequence
  BY <1>1, <1>2
<1>7. OrderInv
  BY Zenon, <1>1, <1>4, <1>5, <1>6 DEF OrderInv
<1>8. FreshInv
  BY Zenon, <1>1, <1>3, <1>4, <1>5, <1>6 DEF FreshInv
<1>9. NumberInv
  BY Zenon, <1>2, <1>3, <1>4, <1>5, <1>6 DEF NumberInv
<1>10. CallInv
  BY Zenon, <1>1, <1>2, <1>3, <1>5 DEF CallInv
<1> QED BY Zenon, <1>7, <1>8, <1>9, <1>10 DEF Inv3

LEMMA Next3 ==
    ASSUME Flushers = {}, "append" \notin Faults
    PROVE  Inv1 /\ Inv2 /\ Inv3 /\ [Next]_vars => Inv3'
<1> SUFFICES ASSUME Inv1, Inv2, Inv3, [Next]_vars PROVE Inv3'
  OBVIOUS
<1>1. ASSUME NEW w \in Writers, EnqueueLead(w) PROVE Inv3'
  <2>1. wpc[w] = "idle" /\ writers = <<>> /\ Lead(w, <<w>>)
    BY Zenon, <1>1 DEF EnqueueLead
  <2> QED BY Zenon, <2>1, EnqueueCanLead, LeadInv3
<1>2. ASSUME NEW w \in Writers, TakeLead(w) PROVE Inv3'
  <2>1. wpc[w] \in {"follow", "room"} /\ AtFront(w) /\ Lead(w, writers)
    BY Zenon, <1>2 DEF TakeLead
  <2> QED BY Zenon, <2>1, TakeCanLead, LeadInv3
<1>3. CASE Calls
  BY Zenon, <1>1, <1>3, EnqueueFollowInv3 DEF Calls
<1>4. ASSUME NEW w \in Writers, WriterSteps(w) PROVE Inv3'
  <2>1. ~AppendWalFails(w)
    BY Zenon DEF AppendWalFails, Fault
  <2> QED
    BY Zenon, <1>2, <1>4, <2>1, FollowerReturnsInv3, BgQuietInv3, WriterCommitsInv3, FinishGroupInv3 DEF WriterSteps
<1>5. CASE BgSteps
  BY Zenon, <1>5, BgQuietInv3, BgInstallsInv3 DEF BgSteps
<1>6. CASE SpuriousWakeup \/ CrashAndOpen \/ UNCHANGED vars
  BY Zenon, <1>6, BgQuietInv3, CrashAndOpenInv3
<1> QED BY Zenon, <1>3, <1>4, <1>5, <1>6 DEF Next

(* Reads see what is stored and not being committed. *)
LEMMA VisibleIs ==
    ASSUME Inv1, Inv3
    PROVE  /\ \A x \in Stored : seqno[x] > last_sequence <=> x \in Group
           /\ Visible = Stored \ Group
<1>1. last_sequence \in Nat /\ seqno \in [Writers -> Nat] /\ Stored \subseteq Writers
  BY Zenon DEF Inv1, TypeOK, SeqType, MemType, VerType, Stored
<1>2. ASSUME NEW x \in Group PROVE seqno[x] > last_sequence
  <2>1. PICK i \in 1..glen : x = writers[i]
    BY Zenon DEF Group
  <2>2. glen # 0
    BY <2>1
  <2>3. PICK w \in Writers : wpc[w] \in Committing
    BY Zenon, <2>2 DEF Inv3, OrderInv
  <2>4. seqno[x] = last_sequence + i
    BY Zenon, <2>1, <2>3 DEF Inv3, NumberInv
  <2> QED BY <1>1, <2>4
<1>3. ASSUME NEW x \in Stored, x \notin Group PROVE seqno[x] <= last_sequence
  BY Zenon, <1>3 DEF Inv3, NumberInv, Touched, Filed
<1>4. \A x \in Stored : seqno[x] \in Nat
  BY Zenon, <1>1
<1>5. \A x \in Stored : seqno[x] > last_sequence <=> ~(seqno[x] <= last_sequence)
  BY <1>1, <1>4
<1> QED BY Zenon, <1>2, <1>3, <1>5 DEF Visible

LEMMA VisibleThen == (Inv1 /\ Inv3 => Visible = Stored \ Group)'
<1>1. Inv1 /\ Inv3 => Visible = Stored \ Group
  BY Zenon, VisibleIs
<1> QED BY <1>1, PTL

(***************************************************************************)
(* Under the same conditions no read sees a part of a group: its sequence  *)
(* numbers lie above last_sequence until the leader publishes them, and no *)
(* two stored batches share a number, however many groups failed to sync   *)
(* and however often the numbers were rebuilt by an open.                  *)
(***************************************************************************)
THEOREM WholeGroups ==
    ASSUME Flushers = {}, "append" \notin Faults
    PROVE  Spec => []ReadsSeeWholeGroups
<1>1. Inv1 /\ Inv3 => ReadsSeeWholeGroups
  <2> SUFFICES ASSUME Inv1, Inv3 PROVE ReadsSeeWholeGroups
    OBVIOUS
  <2>1. \A x, y \in Stored : seqno[x] = seqno[y] => x = y
    BY Zenon DEF Inv3, NumberInv, Touched, Filed
  <2> QED BY Zenon, <2>1, VisibleIs DEF ReadsSeeWholeGroups
<1> QED
  BY <1>1, Inv1Holds, Init2, Next2, Init3, Next3, PTL DEF Spec

(***************************************************************************)
(* The write path implements DurableStore.  First, what the steps do to    *)
(* what the callers know.                                                  *)
(***************************************************************************)
LEMMA CallsMove ==
    ASSUME wpc \in [Writers -> Pcs], NEW w \in Writers, NEW p, wpc' = [wpc EXCEPT ![w] = p]
    PROVE  /\ CallStatus' = [CallStatus EXCEPT ![w] = IF p \in {"idle", "ok", "err", "dead"} THEN p ELSE "pending"]
           /\ CallStatus[w] = (IF wpc[w] \in {"idle", "ok", "err", "dead"} THEN wpc[w] ELSE "pending")
           /\ CallStatus = [CallStatus EXCEPT ![w] = CallStatus[w]]
<1>1. \A x \in Writers : wpc'[x] = IF x = w THEN p ELSE wpc[x]
  BY Zenon
<1>2. CallStatus' = [x \in Writers |-> IF wpc'[x] \in {"idle", "ok", "err", "dead"} THEN wpc'[x] ELSE "pending"]
  BY Zenon DEF CallStatus
<1>3. CallStatus = [x \in Writers |-> IF wpc[x] \in {"idle", "ok", "err", "dead"} THEN wpc[x] ELSE "pending"]
  BY Zenon DEF CallStatus
<1> QED BY Zenon, <1>1, <1>2, <1>3

(* A call that goes on without returning. *)
LEMMA CallGoesOn ==
    ASSUME wpc \in [Writers -> Pcs], NEW w \in Writers, wpc[w] \in {"follow", "room"} \cup Committing,
           NEW p \in {"follow", "room"} \cup Committing, wpc' = [wpc EXCEPT ![w] = p]
    PROVE  CallStatus' = CallStatus
<1>1. ~(p \in {"idle", "ok", "err", "dead"}) /\ ~(wpc[w] \in {"idle", "ok", "err", "dead"})
  OBVIOUS
<1>2. CallStatus[w] = "pending" /\ CallStatus' = [CallStatus EXCEPT ![w] = "pending"]
  BY Zenon, <1>1, CallsMove
<1>3. CallStatus = [CallStatus EXCEPT ![w] = CallStatus[w]]
  BY Zenon, CallsMove
<1> QED BY Zenon, <1>2, <1>3

LEMMA CallBegins ==
    ASSUME wpc \in [Writers -> Pcs], NEW w \in Writers, wpc[w] = "idle",
           NEW p \in {"follow", "room"} \cup Committing, wpc' = [wpc EXCEPT ![w] = p], Visible' = Visible, Durable' = Durable
    PROVE  Store!Begin(w)
<1>1. ~(p \in {"idle", "ok", "err", "dead"})
  OBVIOUS
<1>2. CallStatus[w] = "idle" /\ CallStatus' = [CallStatus EXCEPT ![w] = "pending"]
  BY Zenon, <1>1, CallsMove
<1> QED BY Zenon, <1>2 DEF Store!Begin

LEMMA CallFails ==
    ASSUME wpc \in [Writers -> Pcs], NEW w \in Writers, wpc[w] \notin {"ok", "err", "dead"}, w \notin Visible,
           wpc' = [wpc EXCEPT ![w] = "err"], Visible' = Visible, Durable' = Durable
    PROVE  Store!Fail(w)
<1>1. CallStatus[w] \in {"idle", "pending"} /\ CallStatus' = [CallStatus EXCEPT ![w] = "err"]
  BY Zenon, CallsMove
<1> QED BY Zenon, <1>1 DEF Store!Fail

(* The durable batches, when at most the call of w has returned. *)
LEMMA DurableMoves ==
    ASSUME wpc \in [Writers -> Pcs], NEW w \in Writers, NEW p, wpc' = [wpc EXCEPT ![w] = p], manifest' = manifest,
           wpc[w] # "ok", SyncWriters \subseteq Writers
    PROVE  Durable' = IF p = "ok" THEN Durable \cup ({w} \cap SyncWriters) ELSE Durable
<1>1. \A x \in Writers : wpc'[x] = IF x = w THEN p ELSE wpc[x]
  BY Zenon
<1> QED BY Zenon, <1>1 DEF Durable

LEMMA LeadMaps ==
    ASSUME Inv1, Inv2, Inv3, Inv1', Inv3', NEW w \in Writers, NEW q, CanLead(w, q), Lead(w, q),
           SyncWriters \subseteq Writers
    PROVE  /\ Visible' = Visible /\ Durable' = Durable /\ w \notin Visible
           /\ \E p \in {"room", "append", "err"} : wpc' = [wpc EXCEPT ![w] = p]
<1>1. manifest' = manifest /\ tables' = tables
  BY Zenon DEF Lead, verVars
<1>2. /\ q \in Seq(Writers) /\ Len(q) \in Nat \ {0} /\ q[1] = w /\ Group = {}
      /\ \A i \in 1..Len(q) : q[i] \notin Stored
  BY Zenon DEF CanLead, Touched, Filed
<1>3. w \notin Visible
  <2>1. 1 \in 1..Len(q)
    BY <1>2
  <2> QED BY Zenon, <1>2, <2>1 DEF Visible
<1>4. wpc[w] # "ok" /\ wpc \in [Writers -> Pcs]
  BY Zenon DEF CanLead, Inv1, TypeOK, QueueType
<1>5. CASE LeadError(w, q) \/ LeadSleep(w, q) \/ LeadWait(w, q) \/ LeadRotateFails(w, q)
  <2>1. UNCHANGED <<mem, imm, last_sequence, seqno>>
    BY Zenon, <1>5 DEF LeadError, LeadSleep, LeadWait, LeadRotateFails, RotateFails, memVars, seqVars
  <2>2. PICK p \in {"room", "err"} : wpc' = [wpc EXCEPT ![w] = p]
    BY Zenon, <1>5 DEF LeadError, LeadSleep, LeadWait, LeadRotateFails, FailQueue
  <2>3. p # "ok" /\ p \in {"room", "append", "err"}
    BY Zenon, <2>2
  <2>4. Durable' = Durable
    BY Zenon, <1>1, <1>4, <2>2, <2>3, DurableMoves
  <2>5. Visible' = Visible
    BY Zenon, <1>1, <2>1 DEF Visible, Stored
  <2> QED BY Zenon, <1>3, <2>2, <2>3, <2>4, <2>5
<1>6. CASE LeadCommit(w, q) \/ LeadRotate(w, q)
  <2>1. PICK n \in 1..Len(q) : BeginCommit(w, q, n)
    BY Zenon, <1>6 DEF LeadCommit, LeadRotate
  <2>2. writers' = q /\ glen' = n /\ wpc' = [wpc EXCEPT ![w] = "append"]
    BY Zenon, <2>1 DEF BeginCommit
  <2>3. Stored' = Stored
    <3>1. CASE LeadCommit(w, q)
      BY Zenon, <1>1, <3>1 DEF LeadCommit, memVars, Stored
    <3>2. CASE LeadRotate(w, q)
      <4>1. ~has_imm /\ mem' = {} /\ imm' = mem
        BY Zenon, <3>2 DEF LeadRotate, Rotate
      <4>2. imm = {}
        BY Zenon, <4>1 DEF Inv2, MemInv
      <4> QED BY Zenon, <1>1, <4>1, <4>2 DEF Stored
    <3> QED BY Zenon, <1>6, <3>1, <3>2
  <2>4. \A i \in 1..n : i \in 1..Len(q)
    BY <1>2
  <2>5. Group' \cap Stored = {}
    BY Zenon, <1>2, <2>2, <2>4 DEF Group
  <2>6. Visible' = Stored' \ Group' /\ Visible = Stored \ Group
    BY Zenon, VisibleIs, VisibleThen
  <2>7. Visible' = Visible
    BY Zenon, <1>2, <2>3, <2>5, <2>6
  <2>8. "append" # "ok"
    OBVIOUS
  <2>9. Durable' = Durable
    BY Zenon, <1>1, <1>4, <2>2, <2>8, DurableMoves
  <2> QED BY Zenon, <1>3, <2>2, <2>7, <2>9
<1> QED BY Zenon, <1>5, <1>6 DEF Lead

Maps == [Store!Next]_(Store!storeVars)

LEMMA StutterMaps ==
    ASSUME CallStatus' = CallStatus, Visible' = Visible, Durable' = Durable
    PROVE  Maps
BY Zenon DEF Maps, Store!storeVars

LEMMA CallMaps ==
    ASSUME NEW w \in Writers, Store!Begin(w) \/ Store!Return(w) \/ Store!Fail(w)
    PROVE  Maps
BY Zenon DEF Maps, Store!Next

(* The make-room loop begins or fails the call, or goes unnoticed. *)
LEMMA LeadsMap ==
    ASSUME Inv1, Inv2, Inv3, Inv1', Inv3', NEW w \in Writers, NEW q, CanLead(w, q), Lead(w, q),
           SyncWriters \subseteq Writers
    PROVE  Maps
<1>1. PICK p \in {"room", "append", "err"} : wpc' = [wpc EXCEPT ![w] = p]
  BY Zenon, LeadMaps
<1>2. Visible' = Visible /\ Durable' = Durable /\ w \notin Visible
  BY Zenon, LeadMaps
<1>3. wpc \in [Writers -> Pcs] /\ wpc[w] \in {"idle", "follow", "room"}
  BY Zenon DEF Inv1, TypeOK, QueueType, CanLead
<1>4. CASE p = "err"
  <2>1. wpc[w] \notin {"ok", "err", "dead"}
    BY <1>3
  <2> QED BY Zenon, <1>1, <1>2, <1>3, <1>4, <2>1, CallFails, CallMaps
<1>5. CASE p # "err" /\ wpc[w] = "idle"
  <2>1. p \in {"follow", "room"} \cup Committing
    BY <1>5
  <2> QED BY Zenon, <1>1, <1>2, <1>3, <1>5, <2>1, CallBegins, CallMaps
<1>6. CASE p # "err" /\ wpc[w] # "idle"
  <2>1. p \in {"follow", "room"} \cup Committing /\ wpc[w] \in {"follow", "room"} \cup Committing
    BY Zenon, <1>3, <1>6
  <2>2. CallStatus' = CallStatus
    BY Zenon, <1>1, <1>3, <2>1, CallGoesOn
  <2> QED BY Zenon, <1>2, <2>2, StutterMaps
<1> QED BY Zenon, <1>4, <1>5, <1>6

(* A call joins the queue. *)
LEMMA EnqueueFollowMaps ==
    ASSUME Inv1, NEW w \in Writers, EnqueueFollow(w), SyncWriters \subseteq Writers
    PROVE  Maps
<1>1. /\ wpc[w] = "idle" /\ wpc' = [wpc EXCEPT ![w] = "follow"]
      /\ UNCHANGED <<mem, imm, tables, manifest, last_sequence, seqno>>
  BY Zenon DEF EnqueueFollow, memVars, verVars, seqVars
<1>2. wpc \in [Writers -> Pcs] /\ "follow" \in {"follow", "room"} \cup Committing
  BY Zenon DEF Inv1, TypeOK, QueueType
<1>3. wpc[w] # "ok" /\ "follow" # "ok"
  BY Zenon, <1>1
<1>4. Durable' = Durable
  BY Zenon, <1>1, <1>2, <1>3, DurableMoves
<1>5. Visible' = Visible
  BY Zenon, <1>1 DEF Visible, Stored
<1> QED BY Zenon, <1>1, <1>2, <1>4, <1>5, CallBegins, CallMaps

(* A follower returns what its leader left it. *)
LEMMA FollowerReturnsMaps ==
    ASSUME Inv1, Inv3, NEW w \in Writers, FollowerReturns(w), SyncWriters \subseteq Writers
    PROVE  Maps
<1>1. /\ wpc[w] = "follow" /\ wpc' = [wpc EXCEPT ![w] = result[w]] /\ result[w] # "none"
      /\ UNCHANGED <<mem, imm, tables, manifest, last_sequence, seqno>>
  BY Zenon DEF FollowerReturns, memVars, verVars, seqVars
<1>2. wpc \in [Writers -> Pcs] /\ result[w] \in {"ok", "err"}
  BY Zenon, <1>1 DEF Inv1, TypeOK, QueueType
<1>3. wpc[w] # "ok" /\ wpc[w] \notin {"idle", "ok", "err", "dead"} /\ "err" # "ok"
  BY Zenon, <1>1
<1>4. Visible' = Visible
  BY Zenon, <1>1 DEF Visible, Stored
<1>5. Visible = Stored \ Group
  BY Zenon, VisibleIs
<1>6. CASE result[w] = "ok"
  <2>1. w \in Stored
    BY Zenon, <1>1, <1>6 DEF Inv3, CallInv
  <2>2. w \notin Group
    <3>1. CASE \A x \in Writers : wpc[x] \notin Committing
      <4>1. glen = 0
        BY Zenon, <3>1 DEF Inv3, OrderInv
      <4> QED BY <4>1 DEF Group
    <3>2. CASE \E x \in Writers : wpc[x] \in Committing
      BY Zenon, <1>1, <3>2, GroupIs
    <3> QED BY Zenon, <3>1, <3>2
  <2>3. Durable' = Durable \cup ({w} \cap SyncWriters)
    BY Zenon, <1>1, <1>2, <1>3, <1>6, DurableMoves
  <2>4. CallStatus[w] = "pending" /\ CallStatus' = [CallStatus EXCEPT ![w] = "ok"]
    BY Zenon, <1>1, <1>2, <1>3, <1>6, CallsMove
  <2>5. Store!Return(w)
    BY Zenon, <1>4, <1>5, <2>1, <2>2, <2>3, <2>4 DEF Store!Return
  <2> QED BY Zenon, <2>5, CallMaps
<1>7. CASE result[w] = "err"
  <2>1. w \notin Visible
    BY Zenon, <1>1, <1>7 DEF Inv3, CallInv, Filed, Visible
  <2>2. Durable' = Durable
    BY Zenon, <1>1, <1>2, <1>3, <1>7, DurableMoves
  <2>3. wpc[w] \notin {"ok", "err", "dead"}
    BY Zenon, <1>3
  <2> QED BY Zenon, <1>1, <1>2, <1>4, <1>7, <2>1, <2>2, <2>3, CallFails, CallMaps
<1> QED BY Zenon, <1>2, <1>6, <1>7

(* The steps of the unlocked part go unnoticed. *)
LEMMA WriterCommitsMaps ==
    ASSUME Inv1, Inv2, Inv3, Inv1', Inv3', NEW w \in Writers, SyncWriters \subseteq Writers,
           AppendWal(w) \/ SyncWal(w) \/ SyncWalFails(w) \/ InsertMem(w)
    PROVE  Maps
<1>1. /\ wpc[w] \in {"append", "sync", "insert"} /\ (InsertMem(w) => wpc[w] = "insert")
      /\ \E p \in {"sync", "insert", "finish"} : wpc' = [wpc EXCEPT ![w] = p]
      /\ UNCHANGED <<writers, glen, tables, manifest, last_sequence, seqno>>
  BY Zenon DEF AppendWal, SyncWal, SyncWalFails, InsertMem, groupVars, verVars, seqVars
<1>2. PICK p \in {"sync", "insert", "finish"} : wpc' = [wpc EXCEPT ![w] = p]
  BY Zenon, <1>1
<1>3. /\ wpc \in [Writers -> Pcs] /\ p \in {"follow", "room"} \cup Committing /\ p # "ok" /\ wpc[w] # "ok"
      /\ wpc[w] \in {"follow", "room"} \cup Committing
  BY Zenon, <1>1, <1>2 DEF Inv1, TypeOK, QueueType
<1>4. CallStatus' = CallStatus
  BY Zenon, <1>2, <1>3, CallGoesOn
<1>5. Durable' = Durable
  BY Zenon, <1>1, <1>2, <1>3, DurableMoves
<1>6. Group' = Group
  BY Zenon, <1>1 DEF Group
<1>7. Stored' \ Group = Stored \ Group
  <2>1. CASE InsertMem(w)
    <3>1. wpc[w] \in Committing
      BY Zenon, <2>1 DEF InsertMem
    <3>2. target = "mem"
      BY Zenon, <3>1 DEF Inv2, CommitInv
    <3>3. mem' = mem \cup Group /\ imm' = imm
      BY <2>1, <3>2 DEF InsertMem
    <3> QED BY Zenon, <1>1, <3>3 DEF Stored
  <2>2. CASE ~InsertMem(w)
    <3>1. UNCHANGED <<mem, imm>>
      BY Zenon, <2>2 DEF AppendWal, SyncWal, SyncWalFails, memVars
    <3> QED BY Zenon, <1>1, <3>1 DEF Stored
  <2> QED BY Zenon, <2>1, <2>2
<1>8. Visible' = Visible
  BY Zenon, <1>6, <1>7, VisibleIs, VisibleThen
<1> QED BY Zenon, <1>4, <1>5, <1>8, StutterMaps

(* The leader publishes its group as a whole, or fails. *)
LEMMA FinishGroupMaps ==
    ASSUME Inv1, Inv2, Inv3, Inv1', Inv3', NEW w \in Writers, FinishGroup(w), SyncWriters \subseteq Writers
    PROVE  Maps
<1>1. /\ wpc[w] = "finish" /\ glen' = 0 /\ wpc' = [wpc EXCEPT ![w] = Status]
      /\ UNCHANGED <<mem, imm, tables, manifest>>
  BY Zenon DEF FinishGroup, verVars
<1>2. wpc[w] \in Committing /\ wpc \in [Writers -> Pcs] /\ wpc[w] # "ok" /\ wpc[w] \notin {"idle", "ok", "err", "dead"}
  BY Zenon, <1>1 DEF Inv1, TypeOK, QueueType
<1>3. Group \subseteq Writers /\ w \in Group /\ \A x \in Group : x = w \/ wpc[x] = "follow"
  BY Zenon, <1>2, GroupIs
<1>4. Group' = {}
  BY <1>1 DEF Group
<1>5. Stored' = Stored /\ Visible = Stored \ Group
  BY Zenon, <1>1, VisibleIs DEF Stored
<1>6. Visible' = Stored
  BY Zenon, <1>4, <1>5, VisibleThen
<1>7. CASE cstatus = "ok"
  <2>1. Group \subseteq mem /\ Status = "ok"
    BY Zenon, <1>1, <1>2, <1>7 DEF Inv2, CommitInv, Status
  <2>2. Visible' = Visible \cup Group
    BY Zenon, <1>5, <1>6, <2>1 DEF Stored
  <2>3. ASSUME NEW x \in Group PROVE CallStatus[x] = "pending" /\ x \notin Visible
    <3>1. x \in Writers /\ wpc[x] \notin {"idle", "ok", "err", "dead"}
      BY <1>2, <1>3
    <3> QED BY Zenon, <1>5, <3>1 DEF CallStatus
  <2>4. CallStatus' = [CallStatus EXCEPT ![w] = "ok"]
    BY Zenon, <1>1, <1>2, <2>1, CallsMove
  <2>5. Durable' = Durable \cup ({w} \cap SyncWriters)
    BY Zenon, <1>1, <1>2, <2>1, DurableMoves
  <2>6. Store!Commit(w, Group)
    BY Zenon, <1>3, <2>2, <2>3, <2>4, <2>5 DEF Store!Commit
  <2>7. Group \in SUBSET Writers
    BY Zenon, <1>3
  <2> QED BY Zenon, <1>3, <2>6, <2>7 DEF Maps, Store!Next
<1>8. CASE cstatus # "ok"
  <2>1. Group \cap (imm \cup tables \cup manifest.tables \cup lost) = {} /\ Group \cap mem = {} /\ Status = "err"
    BY Zenon, <1>2, <1>8 DEF Inv3, FreshInv, Status
  <2>2. Visible' = Visible /\ w \notin Visible
    BY Zenon, <1>3, <1>5, <1>6, <2>1 DEF Stored
  <2>3. Status # "ok" /\ wpc[w] \notin {"ok", "err", "dead"}
    BY Zenon, <1>2, <2>1
  <2>4. Durable' = Durable
    BY Zenon, <1>1, <1>2, <2>3, DurableMoves
  <2> QED BY Zenon, <1>1, <1>2, <2>1, <2>2, <2>3, <2>4, CallFails, CallMaps
<1> QED BY Zenon, <1>7, <1>8

(* Nothing the callers know of moves. *)
LEMMA BgQuietMaps ==
    ASSUME Inv3,
           \/ BgParks \/ BgUnparked \/ BgRefuses \/ BgStarts \/ BgLooksAtImm \/ BgFindsNothing \/ BgCollects
           \/ BgBuilds \/ BgPicks \/ BgOpensOutput \/ BgCompacts \/ BgCompactFails \/ BgEnds \/ SpuriousWakeup
           \/ \E w \in Writers : FollowerWaits(w)
           \/ UNCHANGED vars
    PROVE  Maps
<1> DEFINE Kept == UNCHANGED <<wpc, mem, imm, tables, last_sequence, seqno>> /\ manifest'.tables = manifest.tables
<1> USE DEF queueVars, groupVars, memVars, verVars, seqVars, diskVars, bgVars
<1>1. ASSUME BgParks PROVE Kept
  BY Zenon, <1>1 DEF BgParks
<1>2. ASSUME BgUnparked PROVE Kept
  BY Zenon, <1>2 DEF BgUnparked
<1>3. ASSUME BgRefuses PROVE Kept
  BY Zenon, <1>3 DEF BgRefuses
<1>4. ASSUME BgStarts PROVE Kept
  BY Zenon, <1>4 DEF BgStarts
<1>5. ASSUME BgLooksAtImm PROVE Kept
  BY Zenon, <1>5 DEF BgLooksAtImm
<1>6. ASSUME BgFindsNothing PROVE Kept
  BY Zenon, <1>6 DEF BgFindsNothing, ClearImm
<1>7. ASSUME BgCollects PROVE Kept
  BY Zenon, <1>7 DEF BgCollects
<1>8. ASSUME BgBuilds PROVE Kept
  BY Zenon, <1>8 DEF BgBuilds
<1>9. ASSUME BgPicks PROVE Kept
  BY Zenon, <1>9 DEF BgPicks
<1>10. ASSUME BgOpensOutput PROVE Kept
  BY Zenon, <1>10 DEF BgOpensOutput
<1>11. ASSUME BgEnds PROVE Kept
  BY Zenon, <1>11 DEF BgEnds
<1>12. ASSUME SpuriousWakeup PROVE Kept
  BY Zenon, <1>12 DEF SpuriousWakeup
<1>13. ASSUME BgCompacts \/ BgCompactFails PROVE Kept
  <2>1. /\ bgpc = "compact" /\ UNCHANGED <<wpc, mem, imm, tables, last_sequence, seqno>>
        /\ manifest' = manifest \/ \E n \in 0..(l0 - 1) : manifest' = Compacted(n)
    BY Zenon, <1>13 DEF BgCompacts, BgCompactFails
  <2>2. ~FlushGaveUp
    BY Zenon, <2>1 DEF FlushGaveUp
  <2>3. manifest.tables = tables
    BY Zenon, <2>2 DEF Inv3, CallInv
  <2>4. manifest'.tables = manifest.tables
    BY <2>1, <2>3 DEF Compacted
  <2> QED BY Zenon, <2>1, <2>4
<1>14. ASSUME \E w \in Writers : FollowerWaits(w) PROVE Kept
  <2>1. PICK w \in Writers : FollowerWaits(w)
    BY Zenon, <1>14
  <2> QED BY Zenon, <2>1 DEF FollowerWaits
<1>15. ASSUME UNCHANGED vars PROVE Kept
  BY Zenon, <1>15 DEF vars
<1>16. Kept
  BY Zenon, <1>1, <1>2, <1>3, <1>4, <1>5, <1>6, <1>7, <1>8, <1>9, <1>10, <1>11, <1>12, <1>13, <1>14, <1>15
<1>17. CallStatus' = CallStatus /\ Visible' = Visible /\ Durable' = Durable
  BY Zenon, <1>16 DEF CallStatus, Visible, Stored, Durable
<1> QED BY Zenon, <1>17, StutterMaps

(* A flush makes what imm holds durable; reads go on seeing it. *)
LEMMA BgInstallsMaps ==
    ASSUME Inv1, Inv2, Inv3, BgInstalls \/ BgInstallFails
    PROVE  Maps
<1>1. bgpc = "install"
  BY Zenon DEF BgInstalls, BgInstallFails
<1>2. ~FlushGaveUp
  BY Zenon, <1>1 DEF FlushGaveUp
<1>3. manifest.tables = tables /\ flush.entries = imm
  BY Zenon, <1>1, <1>2 DEF Inv2, FlushInv, Inv3, CallInv
<1>4. \A k : Flushed(k).tables = tables \cup imm
  BY Zenon, <1>3 DEF Flushed
<1>5. UNCHANGED <<wpc, mem, last_sequence, seqno>> /\ tables' \cup imm' = tables \cup imm
  BY Zenon, <1>3 DEF BgInstalls, BgInstallFails, ClearImm, queueVars, memVars, seqVars
<1>6. manifest' = manifest \/ manifest'.tables = tables \cup imm
  BY Zenon, <1>4 DEF BgInstalls, BgInstallFails
<1>7. CallStatus' = CallStatus /\ Stored' = Stored
  BY Zenon, <1>5 DEF CallStatus, Stored
<1>8. Visible' = Visible
  BY Zenon, <1>5, <1>7 DEF Visible
<1>9. CASE manifest' = manifest
  <2>1. Durable' = Durable
    BY Zenon, <1>5, <1>9 DEF Durable
  <2> QED BY Zenon, <1>7, <1>8, <2>1, StutterMaps
<1>10. CASE manifest'.tables = tables \cup imm
  <2>1. Durable' = Durable \cup imm
    BY Zenon, <1>3, <1>5, <1>10 DEF Durable
  <2>2. imm \subseteq Visible
    <3>1. Group \cap imm = {}
      <4>1. CASE \A x \in Writers : wpc[x] \notin Committing
        <5>1. glen = 0
          BY Zenon, <4>1 DEF Inv3, OrderInv
        <5> QED BY <5>1 DEF Group
      <4>2. CASE \E x \in Writers : wpc[x] \in Committing
        BY Zenon, <4>2 DEF Inv3, FreshInv
      <4> QED BY Zenon, <4>1, <4>2
    <3> QED BY Zenon, <3>1, VisibleIs DEF Stored
  <2>3. Store!Harden(imm)
    BY Zenon, <1>7, <1>8, <2>1, <2>2 DEF Store!Harden
  <2>4. imm \in SUBSET Writers
    BY Zenon DEF Inv1, TypeOK, MemType
  <2> QED BY Zenon, <2>3, <2>4 DEF Maps, Store!Next
<1> QED BY Zenon, <1>6, <1>9, <1>10

(***************************************************************************)
(* A crash leaves what was durable and some of what was visible, pending   *)
(* or failed.                                                              *)
(***************************************************************************)
LEMMA CrashMaps ==
    ASSUME Inv1, Inv2, Inv3, Inv1', Inv3', CrashAndOpen, SyncWriters \subseteq Writers
    PROVE  Maps
<1>1. PICK K \in SUBSET Replayable :
         /\ Survive(K) /\ tables' = manifest.tables \cup K /\ manifest'.tables = tables' /\ mem' = {} /\ imm' = {}
         /\ Replayable \subseteq {x \in Writers : wal[x] # 0}
  BY Zenon, CrashIs
<1>2. glen' = 0 /\ wpc' = [w \in Writers |-> IF wpc[w] \in {"idle", "ok", "err"} THEN wpc[w] ELSE "dead"]
  BY Zenon DEF CrashAndOpen
<1>3. \A x \in Writers : wpc'[x] = IF wpc[x] \in {"idle", "ok", "err"} THEN wpc[x] ELSE "dead"
  BY Zenon, <1>2
<1>4. wpc \in [Writers -> Pcs] /\ tables' \in SUBSET Writers
  BY Zenon DEF Inv1, TypeOK, QueueType, VerType
<1>5. Group' = {}
  BY <1>2 DEF Group
<1>6. Visible' = tables'
  BY Zenon, <1>1, <1>5, VisibleThen DEF Stored
<1>7. \A x \in SyncWriters : wpc[x] = "ok" => x \in tables'
  <2>1. ASSUME NEW x \in SyncWriters, wpc[x] = "ok" PROVE x \in tables'
    <3>1. x \in Writers
      BY Zenon
    <3>2. x \in Stored
      BY Zenon, <2>1, <3>1 DEF Inv2, AckInv
    <3>3. x \in tables => x \in manifest.tables
      BY Zenon DEF Inv2, MemInv
    <3>4. x \in mem \cup imm => x \in manifest.tables \/ x \in Replayable \cap synced
      BY Zenon, MemtablesDurable
    <3> QED BY Zenon, <1>1, <3>2, <3>3, <3>4 DEF Survive, Stored
  <2> QED BY Zenon, <2>1
<1>8. Durable' = tables' /\ Durable \subseteq tables'
  <2>1. \A x \in Writers : wpc'[x] = "ok" => wpc[x] = "ok"
    BY Zenon, <1>3
  <2>2. manifest.tables \subseteq tables' /\ manifest'.tables = tables'
    BY Zenon, <1>1
  <2> QED BY Zenon, <1>7, <2>1, <2>2 DEF Durable
<1>9. CallStatus' = [x \in Writers |-> IF CallStatus[x] = "pending" THEN "dead" ELSE CallStatus[x]]
  <2>1. ASSUME NEW x \in Writers
        PROVE  (IF wpc'[x] \in {"idle", "ok", "err", "dead"} THEN wpc'[x] ELSE "pending")
               = (IF CallStatus[x] = "pending" THEN "dead" ELSE CallStatus[x])
    <3>1. CallStatus[x] = IF wpc[x] \in {"idle", "ok", "err", "dead"} THEN wpc[x] ELSE "pending"
      BY Zenon DEF CallStatus
    <3>2. wpc'[x] = IF wpc[x] \in {"idle", "ok", "err"} THEN wpc[x] ELSE "dead"
      BY Zenon, <1>3
    <3> QED BY Zenon, <3>1, <3>2
  <2>2. CallStatus' = [x \in Writers |-> IF wpc'[x] \in {"idle", "ok", "err", "dead"} THEN wpc'[x] ELSE "pending"]
    BY Zenon DEF CallStatus
  <2> QED BY Zenon, <2>1, <2>2
<1>10. Visible = Stored \ Group
  BY Zenon, VisibleIs
<1>11. ASSUME NEW x \in tables', x \notin Visible PROVE CallStatus[x] \in {"pending", "err"}
  <2>1. x \in Writers
    BY Zenon, <1>4
  <2>2. CASE x \in Group
    <3>1. PICK w \in Writers : wpc[w] \in Committing
      <4>1. CASE \A y \in Writers : wpc[y] \notin Committing
        <5>1. glen = 0
          BY Zenon, <4>1 DEF Inv3, OrderInv
        <5> QED BY <2>2, <5>1 DEF Group
      <4> QED BY Zenon, <4>1
    <3>2. wpc[x] = "follow" \/ wpc[x] \in Committing
      BY Zenon, <2>2, <3>1, GroupIs
    <3>3. wpc[x] \notin {"idle", "ok", "err", "dead"}
      BY <3>2
    <3> QED BY Zenon, <2>1, <3>3 DEF CallStatus
  <2>3. CASE x \notin Group
    <3>1. x \notin Stored
      BY Zenon, <1>10, <1>11, <2>3
    <3>2. x \notin manifest.tables
      BY Zenon, <3>1 DEF Inv3, CallInv, Stored
    <3>3. x \in K /\ wal[x] # 0 /\ x \in Touched
      BY Zenon, <1>1, <2>1, <3>2 DEF Touched
    <3>4. wpc[x] \notin {"ok", "dead"}
      BY Zenon, <2>1, <3>1, <3>3 DEF Inv3, CallInv
    <3>5. wpc[x] # "idle"
      BY Zenon, <2>1, <3>3 DEF Inv3, FreshInv
    <3> QED BY <2>1, <3>4, <3>5 DEF CallStatus
  <2> QED BY Zenon, <2>2, <2>3
<1>12. Store!Crash(tables')
  BY Zenon, <1>4, <1>6, <1>8, <1>9, <1>11 DEF Store!Crash
<1> QED BY Zenon, <1>4, <1>12 DEF Maps, Store!Next

LEMMA InitMaps == Init => Store!Init
<1> SUFFICES ASSUME Init PROVE Store!Init
  OBVIOUS
<1>1. /\ wpc = [w \in Writers |-> "idle"] /\ mem = {} /\ imm = {} /\ tables = {}
      /\ manifest = [log |-> 2, tables |-> {}, l0 |-> l0, seq |-> 0, next |-> 3]
  BY Zenon DEF Init
<1>2. \A w \in Writers : wpc[w] = "idle" /\ wpc[w] # "ok"
  BY Zenon, <1>1
<1>3. manifest.tables = {}
  BY Zenon, <1>1
<1>4. SyncWriters \subseteq Writers
  BY Zenon, WritePathAssumption DEF WritePathAssumption
<1>5. Visible = {} /\ Durable = {}
  BY Zenon, <1>1, <1>2, <1>3, <1>4 DEF Visible, Stored, Durable
<1>6. CallStatus = [w \in Writers |-> "idle"]
  BY Zenon, <1>2 DEF CallStatus
<1> QED BY Zenon, <1>5, <1>6 DEF Store!Init

LEMMA NextMaps ==
    ASSUME Flushers = {}, "append" \notin Faults
    PROVE  Inv1 /\ Inv2 /\ Inv3 /\ Inv1' /\ Inv3' /\ [Next]_vars => Maps
<1> SUFFICES ASSUME Inv1, Inv2, Inv3, Inv1', Inv3', [Next]_vars PROVE Maps
  OBVIOUS
<1> SyncWriters \subseteq Writers
  BY Zenon, WritePathAssumption DEF WritePathAssumption
<1>1. ASSUME NEW w \in Writers, EnqueueLead(w) PROVE Maps
  <2>1. wpc[w] = "idle" /\ writers = <<>> /\ Lead(w, <<w>>)
    BY Zenon, <1>1 DEF EnqueueLead
  <2> QED BY Zenon, <2>1, EnqueueCanLead, LeadsMap
<1>2. ASSUME NEW w \in Writers, TakeLead(w) PROVE Maps
  <2>1. wpc[w] \in {"follow", "room"} /\ AtFront(w) /\ Lead(w, writers)
    BY Zenon, <1>2 DEF TakeLead
  <2> QED BY Zenon, <2>1, TakeCanLead, LeadsMap
<1>3. CASE Calls
  BY Zenon, <1>1, <1>3, EnqueueFollowMaps DEF Calls
<1>4. ASSUME NEW w \in Writers, WriterSteps(w) PROVE Maps
  <2>1. ~AppendWalFails(w)
    BY Zenon DEF AppendWalFails, Fault
  <2> QED
    BY Zenon, <1>2, <1>4, <2>1, FollowerReturnsMaps, BgQuietMaps, WriterCommitsMaps, FinishGroupMaps DEF WriterSteps
<1>5. CASE BgSteps
  BY Zenon, <1>5, BgQuietMaps, BgInstallsMaps DEF BgSteps
<1>6. CASE SpuriousWakeup \/ CrashAndOpen \/ UNCHANGED vars
  BY Zenon, <1>6, BgQuietMaps, CrashMaps
<1> QED BY Zenon, <1>3, <1>4, <1>5, <1>6 DEF Next

(***************************************************************************)
(* Under the same conditions the write path is a DurableStore, step by     *)
(* step: group commit, rotation, flush, compaction and recovery show their *)
(* callers nothing but atomic writes that become visible before they are   *)
(* acknowledged, are durable when they are acknowledged if they are sync   *)
(* writes, and are never half there after a crash.                         *)
(***************************************************************************)
THEOREM StoreRefinement ==
    ASSUME Flushers = {}, "append" \notin Faults
    PROVE  Spec => ImplementsDurableStore
<1>1. Inv1 /\ Inv2 /\ Inv3 /\ [Next]_vars => Maps
  BY Zenon, Next1, Next3, NextMaps
<1>2. Inv1 /\ Inv2 /\ Inv3 /\ [Next]_vars => [Store!Next]_(Store!storeVars)
  BY Zenon, <1>1 DEF Maps
<1> QED
  BY <1>2, Inv1Holds, Init2, Next2, Init3, Next3, InitMaps, PTL DEF Spec, ImplementsDurableStore, Store!Spec

----------------------------------------------------------------------------
(***************************************************************************)
(* What open replays.  A batch in the MANIFEST's tables is in no log that  *)
(* the MANIFEST still wants replayed, and what is in imm is in a log older *)
(* than the one the flush of imm will name.                                *)
(***************************************************************************)
OnceInv ==
    /\ \A x \in manifest.tables : wal[x] \notin logs \/ wal[x] < manifest.log
    /\ \A x \in imm : wal[x] < log_file_number

(* A step that adds no log with old records to the directory, and moves    *)
(* nothing into imm or the MANIFEST's tables.                              *)
Settled ==
    /\ manifest'.tables \subseteq manifest.tables /\ manifest'.log = manifest.log
    /\ imm' \subseteq imm /\ log_file_number' = log_file_number
    /\ \A x \in manifest.tables \cup imm : wal'[x] \in {0, wal[x]}
    /\ 0 \notin logs'
    /\ \/ logs' \subseteq logs
       \/ \E n : logs' = logs \cup {n} /\ \A x \in manifest.tables : wal'[x] # n

LEMMA SettledOnce ==
    ASSUME Inv1, OnceInv, Settled
    PROVE  OnceInv'
<1>1. ASSUME NEW x \in manifest'.tables PROVE wal'[x] \notin logs' \/ wal'[x] < manifest'.log
  <2>1. /\ x \in manifest.tables /\ wal'[x] \in {0, wal[x]} /\ 0 \notin logs' /\ manifest'.log = manifest.log
        /\ wal'[x] \in logs' => wal'[x] \in logs
    BY Zenon, <1>1 DEF Settled
  <2> QED BY Zenon, <2>1 DEF OnceInv
<1>2. ASSUME NEW x \in imm' PROVE wal'[x] < log_file_number'
  <2>1. x \in imm /\ wal'[x] \in {0, wal[x]} /\ log_file_number' = log_file_number
    BY Zenon, <1>2 DEF Settled
  <2>2. wal[x] < log_file_number /\ wal[x] \in Nat /\ log_file_number \in Nat
    BY Zenon, <2>1 DEF OnceInv, Inv1, TypeOK, MemType, DiskType, LogType
  <2> QED BY <2>1, <2>2
<1> QED BY Zenon, <1>1, <1>2 DEF OnceInv

(* A step that leaves memtables, logs and the MANIFEST's tables alone. *)
LEMMA UntouchedOnce ==
    ASSUME Inv1, Inv3, OnceInv, UNCHANGED <<imm, log_file_number, wal, logs>>,
           manifest'.tables = manifest.tables, manifest'.log = manifest.log
    PROVE  OnceInv'
<1>1. Settled
  BY Zenon DEF Settled, Inv3, FreshInv
<1> QED BY Zenon, <1>1, SettledOnce

(***************************************************************************)
(* The make-room loop.  A rotation makes mem, whose records are in the     *)
(* current log, the imm of a later one; a file of the new log's number     *)
(* that was there before is truncated.                                     *)
(***************************************************************************)
LEMMA RotateOnce ==
    ASSUME Inv1, Inv2, Inv3, OnceInv, Rotate, manifest' = manifest
    PROVE  OnceInv'
<1> DEFINE n == next_file_number
<1>1. /\ log_file_number' = n /\ logs' = logs \cup {n} /\ imm' = mem
      /\ wal' = [x \in Writers |-> IF wal[x] = n THEN 0 ELSE wal[x]]
  BY Zenon DEF Rotate
<1>2. /\ n \in Nat /\ n # 0 /\ log_file_number < n /\ 0 \notin logs
      /\ mem \subseteq Writers /\ manifest.tables \subseteq Writers /\ \A x \in mem : wal[x] = log_file_number
  BY Zenon DEF Inv1, TypeOK, LogType, MemType, VerType, QueueInv, Inv2, LogInv, MemInv, Inv3, FreshInv
<1>3. log_file_number \in Nat
  BY Zenon DEF Inv1, TypeOK, LogType
<1> HIDE DEF n
<1>4. ASSUME NEW x \in manifest.tables PROVE wal'[x] \notin logs' \/ wal'[x] < manifest'.log
  <2>1. wal'[x] = IF wal[x] = n THEN 0 ELSE wal[x]
    BY Zenon, <1>1, <1>2
  <2>2. wal[x] \notin logs \/ wal[x] < manifest.log
    BY Zenon DEF OnceInv
  <2>3. CASE wal[x] = n
    <3>1. wal'[x] = 0
      BY Zenon, <2>1, <2>3
    <3> QED BY <1>1, <1>2, <3>1
  <2>4. CASE wal[x] # n
    <3>1. wal'[x] = wal[x]
      BY Zenon, <2>1, <2>4
    <3>2. manifest'.log = manifest.log /\ (wal'[x] \in logs' => wal[x] \in logs)
      BY <1>1, <2>4, <3>1
    <3> QED BY Zenon, <2>2, <3>1, <3>2
  <2> QED BY Zenon, <2>3, <2>4
<1>5. ASSUME NEW x \in imm' PROVE wal'[x] < log_file_number'
  <2>1. wal[x] = log_file_number /\ x \in Writers
    BY Zenon, <1>1, <1>2
  <2>2. wal'[x] = IF wal[x] = n THEN 0 ELSE wal[x]
    BY Zenon, <1>1, <2>1
  <2> QED BY <1>1, <1>2, <1>3, <2>1, <2>2
<1> QED BY Zenon, <1>4, <1>5 DEF OnceInv

(* A failed switch_active_log leaves an empty log behind, or none. *)
LEMMA RotateFailsOnce ==
    ASSUME Inv1, Inv3, OnceInv, RotateFails, manifest' = manifest
    PROVE  OnceInv'
<1> DEFINE n == next_file_number
<1>1. /\ imm' = imm /\ log_file_number' = log_file_number
      /\ \/ UNCHANGED <<logs, wal>>
         \/ logs' = logs \cup {n} /\ wal' = [x \in Writers |-> IF wal[x] = n THEN 0 ELSE wal[x]]
  BY Zenon DEF RotateFails, memVars
<1>2. n # 0 /\ 0 \notin logs /\ imm \subseteq Writers /\ manifest.tables \subseteq Writers
  BY Zenon DEF Inv1, TypeOK, MemType, VerType, QueueInv, Inv3, FreshInv
<1> HIDE DEF n
<1>3. CASE UNCHANGED <<logs, wal>>
  BY Zenon, <1>1, <1>3, UntouchedOnce
<1>4. CASE logs' = logs \cup {n} /\ wal' = [x \in Writers |-> IF wal[x] = n THEN 0 ELSE wal[x]]
  <2>1. \A x \in manifest.tables \cup imm : wal'[x] \in {0, wal[x]} /\ wal'[x] # n
    BY Zenon, <1>2, <1>4
  <2>2. 0 \notin logs'
    BY Zenon, <1>2, <1>4
  <2>3. Settled
    BY Zenon, <1>1, <1>4, <2>1, <2>2 DEF Settled
  <2> QED BY Zenon, <2>3, SettledOnce
<1> QED BY Zenon, <1>1, <1>3, <1>4

(* The loop as a whole. *)
LEMMA LeadOnce ==
    ASSUME Inv1, Inv2, Inv3, OnceInv, NEW w, NEW q, Lead(w, q)
    PROVE  OnceInv'
<1>1. manifest' = manifest
  BY Zenon DEF Lead, verVars
<1>2. CASE LeadError(w, q) \/ LeadSleep(w, q) \/ LeadWait(w, q) \/ LeadCommit(w, q)
  <2>1. UNCHANGED <<memVars, log_file_number, diskVars>>
    BY Zenon, <1>2 DEF LeadError, LeadSleep, LeadWait, LeadCommit, logVars
  <2> QED BY Zenon, <1>1, <2>1, UntouchedOnce DEF memVars, diskVars
<1>3. CASE LeadRotate(w, q)
  BY Zenon, <1>1, <1>3, RotateOnce DEF LeadRotate
<1>4. CASE LeadRotateFails(w, q)
  BY Zenon, <1>1, <1>4, RotateFailsOnce DEF LeadRotateFails
<1> QED BY Zenon, <1>2, <1>3, <1>4 DEF Lead

(* The batches a leader appends are in no table and not in imm. *)
LEMMA AppendOnce ==
    ASSUME Inv1, Inv3, OnceInv, NEW w \in Writers, AppendWal(w)
    PROVE  OnceInv'
<1>1. wpc[w] = "append" /\ wal' = Logged /\ UNCHANGED <<imm, manifest, log_file_number, logs>>
  BY Zenon DEF AppendWal, memVars, verVars, logVars
<1>2. Group \cap (imm \cup manifest.tables) = {} /\ 0 \notin logs
  BY Zenon, <1>1 DEF Inv3, FreshInv
<1>3. imm \subseteq Writers /\ manifest.tables \subseteq Writers
  BY Zenon DEF Inv1, TypeOK, MemType, VerType
<1>4. \A x \in manifest.tables \cup imm : wal'[x] = wal[x]
  BY Zenon, <1>1, <1>2, <1>3 DEF Logged
<1>5. Settled
  BY Zenon, <1>1, <1>2, <1>4 DEF Settled
<1> QED BY Zenon, <1>5, SettledOnce

(* The other steps of a writer leave imm alone: what is inserted goes to mem. *)
LEMMA WriterOnce ==
    ASSUME Inv1, Inv2, Inv3, OnceInv, NEW w \in Writers,
           \/ EnqueueFollow(w) \/ FollowerReturns(w) \/ FollowerWaits(w)
           \/ SyncWal(w) \/ SyncWalFails(w) \/ InsertMem(w) \/ FinishGroup(w)
    PROVE  OnceInv'
<1>1. UNCHANGED <<manifest, log_file_number, wal, logs>>
  BY Zenon DEF EnqueueFollow, FollowerReturns, FollowerWaits, SyncWal, SyncWalFails, InsertMem,
     FinishGroup, verVars, logVars, diskVars
<1>2. imm' = imm
  <2>1. CASE InsertMem(w)
    <3>1. wpc[w] = "insert" /\ imm' = IF target = "imm" THEN imm \cup Group ELSE imm
      BY Zenon, <2>1 DEF InsertMem
    <3>2. target = "mem"
      BY Zenon, <3>1 DEF Inv2, CommitInv
    <3> QED BY <3>1, <3>2
  <2>2. CASE ~InsertMem(w)
    BY Zenon, <2>2 DEF EnqueueFollow, FollowerReturns, FollowerWaits, SyncWal, SyncWalFails,
       FinishGroup, memVars
  <2> QED BY Zenon, <2>1, <2>2
<1> QED BY Zenon, <1>1, <1>2, UntouchedOnce

(***************************************************************************)
(* The background thread: a flush names the log that follows imm's, and a  *)
(* compaction records the tables the MANIFEST has.                         *)
(***************************************************************************)
LEMMA BgQuietOnce ==
    ASSUME Inv1, Inv2, Inv3, OnceInv,
           \/ BgParks \/ BgUnparked \/ BgRefuses \/ BgStarts \/ BgLooksAtImm \/ BgFindsNothing
           \/ BgCollects \/ BgBuilds \/ BgPicks \/ BgOpensOutput \/ BgEnds \/ SpuriousWakeup
           \/ UNCHANGED vars
    PROVE  OnceInv'
<1>1. UNCHANGED <<manifest, log_file_number, wal, logs>>
  <2>1. CASE BgParks \/ BgUnparked \/ BgRefuses \/ BgStarts \/ BgLooksAtImm \/ BgFindsNothing
    BY Zenon, <2>1 DEF BgParks, BgUnparked, BgRefuses, BgStarts, BgLooksAtImm, BgFindsNothing,
       verVars, logVars, diskVars
  <2>2. CASE BgCollects \/ BgBuilds \/ BgPicks \/ BgOpensOutput \/ BgEnds \/ SpuriousWakeup
    BY Zenon, <2>2 DEF BgCollects, BgBuilds, BgPicks, BgOpensOutput, BgEnds, SpuriousWakeup,
       verVars, logVars, diskVars
  <2>3. CASE UNCHANGED vars
    BY Zenon, <2>3 DEF vars, verVars, logVars, diskVars
  <2> QED BY Zenon, <2>1, <2>2, <2>3
<1>2. imm' = imm
  <2>1. CASE BgParks \/ BgUnparked \/ BgRefuses \/ BgStarts \/ BgLooksAtImm
    BY Zenon, <2>1 DEF BgParks, BgUnparked, BgRefuses, BgStarts, BgLooksAtImm, memVars
  <2>2. CASE BgCollects \/ BgBuilds \/ BgPicks \/ BgOpensOutput \/ BgEnds \/ SpuriousWakeup
    BY Zenon, <2>2 DEF BgCollects, BgBuilds, BgPicks, BgOpensOutput, BgEnds, SpuriousWakeup, memVars
  <2>3. CASE UNCHANGED vars
    BY Zenon, <2>3 DEF vars, memVars
  <2>4. CASE BgFindsNothing
    BY Zenon, <2>4 DEF BgFindsNothing, ClearImm
  <2> QED BY Zenon, <2>1, <2>2, <2>3, <2>4
<1> QED BY Zenon, <1>1, <1>2, UntouchedOnce

LEMMA CompactOnce ==
    ASSUME Inv1, Inv3, OnceInv, BgCompacts \/ BgCompactFails
    PROVE  OnceInv'
<1>1. /\ bgpc = "compact" /\ UNCHANGED <<imm, log_file_number, wal, logs>>
      /\ manifest' = manifest \/ \E n \in 0..(l0 - 1) : manifest' = Compacted(n)
  BY Zenon DEF BgCompacts, BgCompactFails, memVars, logVars, diskVars
<1>2. manifest.tables = tables
  BY Zenon, <1>1 DEF Inv3, CallInv, FlushGaveUp
<1>3. \A n : Compacted(n).tables = tables /\ Compacted(n).log = manifest.log
  BY Zenon DEF Compacted
<1>4. manifest'.tables = manifest.tables /\ manifest'.log = manifest.log
  BY Zenon, <1>1, <1>2, <1>3
<1> QED BY Zenon, <1>1, <1>4, UntouchedOnce

LEMMA InstallOnce ==
    ASSUME Inv1, Inv2, Inv3, OnceInv, BgInstalls \/ BgInstallFails
    PROVE  OnceInv'
<1>1. /\ bgpc = "install" /\ logs' \subseteq logs /\ imm' \subseteq imm /\ UNCHANGED <<log_file_number, wal>>
      /\ manifest' = manifest \/ \E d \in {0, 1} : manifest' = Flushed(l0 + d)
  <2>1. CASE BgInstalls
    BY Zenon, <2>1 DEF BgInstalls, ClearImm, LiveLogs, logVars
  <2>2. CASE BgInstallFails
    BY Zenon, <2>2 DEF BgInstallFails, memVars, logVars, diskVars
  <2> QED BY Zenon, <2>1, <2>2
<1>2. flush.entries = imm /\ flush.log = log_file_number
  BY Zenon, <1>1 DEF Inv2, FlushInv
<1>3. \A k : Flushed(k).tables = tables \cup imm /\ Flushed(k).log = log_file_number
  BY Zenon, <1>2 DEF Flushed
<1>4. manifest' = manifest \/ (manifest'.tables = tables \cup imm /\ manifest'.log = log_file_number)
  BY Zenon, <1>1, <1>3
<1>5. tables \subseteq manifest.tables /\ manifest.tables \subseteq Writers /\ imm \subseteq Writers
  BY Zenon DEF Inv1, TypeOK, MemType, VerType, Inv2, MemInv
<1>6. ASSUME NEW x \in manifest'.tables PROVE wal'[x] \notin logs' \/ wal'[x] < manifest'.log
  <2>1. CASE manifest' = manifest
    BY Zenon, <1>1, <1>6, <2>1 DEF OnceInv
  <2>2. CASE manifest'.tables = tables \cup imm /\ manifest'.log = log_file_number
    <3>1. CASE x \in imm
      BY Zenon, <1>1, <2>2, <3>1 DEF OnceInv
    <3>2. CASE x \in tables
      <4>1. x \in Writers /\ (wal[x] \notin logs \/ wal[x] < manifest.log)
        BY Zenon, <1>5, <3>2 DEF OnceInv
      <4>2. /\ wal[x] \in Nat /\ manifest.log \in Nat /\ log_file_number \in Nat
            /\ log_file_number >= manifest.log
        BY Zenon, <4>1 DEF Inv1, TypeOK, DiskType, VerType, LogType, Inv2, LogInv
      <4>3. wal[x] < manifest.log => wal[x] < log_file_number
        BY <4>2
      <4> QED BY Zenon, <1>1, <2>2, <4>1, <4>3
    <3> QED BY Zenon, <1>6, <2>2, <3>1, <3>2
  <2> QED BY Zenon, <1>4, <2>1, <2>2
<1> QED BY Zenon, <1>1, <1>6 DEF OnceInv

(* A crash, when no replayed log is numbered beyond the new one: no record *)
(* is left that the next open would replay.                                *)
LEMMA CrashOnce ==
    ASSUME Inv1, Inv3, CrashAndOpen,
           \A x \in Replayable \cap tables' : wal[x] <= log_file_number'
    PROVE  OnceInv'
<1>1. PICK K \in SUBSET Replayable : Survive(K) /\ Reopen(K)
  BY Zenon DEF CrashAndOpen
<1> DEFINE n == OpenLog(K)
<1>2. /\ tables' = manifest.tables \cup K /\ imm' = {} /\ log_file_number' = n
      /\ wal' = [x \in Writers |-> IF x \in K /\ wal[x] > n THEN wal[x] ELSE 0]
      /\ manifest'.tables = tables'
  BY Zenon, <1>1 DEF Reopen
<1>3. 0 \notin logs' /\ manifest.tables \subseteq Writers /\ Replayable \subseteq Writers
  BY Zenon, CrashIs DEF Inv1, TypeOK, VerType, Replayable
<1>4. n \in Nat /\ wal \in [Writers -> Nat]
  BY DEF Inv1, TypeOK, VerType, DiskType, OpenLog
<1> HIDE DEF n
<1>5. ASSUME NEW x \in manifest'.tables PROVE wal'[x] = 0
  <2>1. x \in Writers
    BY Zenon, <1>1, <1>2, <1>3, <1>5
  <2>2. wal'[x] = IF x \in K /\ wal[x] > n THEN wal[x] ELSE 0
    BY Zenon, <1>2, <2>1
  <2>3. CASE x \in K
    <3>1. wal[x] <= n /\ wal[x] \in Nat
      BY Zenon, <1>1, <1>2, <1>4, <2>1, <2>3
    <3> QED BY <1>4, <2>2, <3>1
  <2>4. CASE x \notin K
    BY Zenon, <2>2, <2>4
  <2> QED BY Zenon, <2>3, <2>4
<1> QED BY Zenon, <1>2, <1>3, <1>5 DEF OnceInv

LEMMA InitOnce == Init => OnceInv
<1> SUFFICES ASSUME Init PROVE OnceInv
  OBVIOUS
<1>1. imm = {} /\ manifest = [log |-> 2, tables |-> {}, l0 |-> l0, seq |-> 0, next |-> 3]
  BY Zenon DEF Init
<1>2. manifest.tables = {}
  BY Zenon, <1>1
<1> QED BY Zenon, <1>1, <1>2 DEF OnceInv

LEMMA NextOnce ==
    ASSUME Flushers = {}, "append" \notin Faults, Inv1, Inv2, Inv3, OnceInv, [Next]_vars,
           CrashAndOpen => \A x \in Replayable \cap tables' : wal[x] <= log_file_number'
    PROVE  OnceInv'
<1>1. CASE Calls
  BY Zenon, <1>1, LeadOnce, WriterOnce DEF Calls, EnqueueLead
<1>2. ASSUME NEW w \in Writers, WriterSteps(w) PROVE OnceInv'
  <2>1. ~AppendWalFails(w)
    BY Zenon DEF AppendWalFails, Fault
  <2>2. CASE TakeLead(w)
    BY Zenon, <2>2, LeadOnce DEF TakeLead
  <2> QED BY Zenon, <1>2, <2>1, <2>2, AppendOnce, WriterOnce DEF WriterSteps
<1>3. CASE BgSteps
  BY Zenon, <1>3, BgQuietOnce, CompactOnce, InstallOnce DEF BgSteps
<1>4. CASE SpuriousWakeup \/ UNCHANGED vars
  BY Zenon, <1>4, BgQuietOnce
<1>5. CASE CrashAndOpen
  BY Zenon, <1>5, CrashOnce
<1> QED BY Zenon, <1>1, <1>2, <1>3, <1>4, <1>5 DEF Next

LEMMA OnceIs ==
    ASSUME Inv1, OnceInv
    PROVE  NoDoubleReplay
<1> SUFFICES ASSUME NEW x \in manifest.tables, x \in Replayable PROVE FALSE
  BY Zenon DEF NoDoubleReplay
<1>1. x \in Writers /\ wal[x] \in logs /\ wal[x] >= manifest.log /\ wal[x] < manifest.log
  BY Zenon DEF Replayable, OnceInv
<1>2. wal[x] \in Nat /\ manifest.log \in Nat
  BY Zenon, <1>1 DEF Inv1, TypeOK, DiskType, VerType
<1> QED BY <1>1, <1>2

(***************************************************************************)
(* With no force_flush call racing the writers and no failed WAL append,   *)
(* the number open gives its new log is all that a double replay hangs on: *)
(* as long as that log is numbered beyond every log whose records were     *)
(* replayed, which open's comment claims and open does not ensure, no      *)
(* batch of the MANIFEST's tables is in a log that the next open replays.  *)
(***************************************************************************)
THEOREM ReplayedOnce ==
    ASSUME Flushers = {}, "append" \notin Faults
    PROVE  Spec /\ FreshLogBeyondReplayed => []NoDoubleReplay
<1>1. /\ Inv1 /\ Inv2 /\ Inv3 /\ OnceInv /\ [Next]_vars
      /\ [crashes' # crashes =>
            \A x \in Replayable \cap tables' : wal[x] < log_file_number']_vars
      => OnceInv'
  <2> SUFFICES ASSUME Inv1, Inv2, Inv3, OnceInv, [Next]_vars,
                      [crashes' # crashes =>
                         \A x \in Replayable \cap tables' : wal[x] < log_file_number']_vars
               PROVE  OnceInv'
    OBVIOUS
  <2>1. ASSUME CrashAndOpen, NEW x \in Replayable \cap tables' PROVE wal[x] <= log_file_number'
    <3>1. crashes' = crashes + 1 /\ crashes \in Nat
      BY Zenon, <2>1 DEF CrashAndOpen, Inv1, TypeOK
    <3>2. crashes' # crashes
      BY <3>1
    <3>3. wal[x] < log_file_number'
      BY Zenon, <2>1, <3>2 DEF vars
    <3>4. Inv1'
      BY Zenon, <2>1, CrashAndOpenInv1
    <3>5. wal[x] \in Nat /\ log_file_number' \in Nat
      BY Zenon, <2>1, <3>4 DEF Inv1, TypeOK, LogType, DiskType, Replayable
    <3> QED BY <3>3, <3>5
  <2> QED BY Zenon, <2>1, NextOnce
<1>2. Inv1 /\ OnceInv => NoDoubleReplay
  BY Zenon, OnceIs
<1> QED
  BY <1>1, <1>2, Inv1Holds, Init2, Next2, Init3, Next3, InitOnce, PTL
     DEF Spec, FreshLogBeyondReplayed

(***************************************************************************)
(* The file numbers taken since the MANIFEST's last edit.  While there is  *)
(* no imm, open's own tail and the outputs of the running compaction took  *)
(* them all; the log gets the next one, and a rotation fills imm, which    *)
(* only a flush edit clears.                                               *)
(***************************************************************************)
NumbersInv ==
    /\ \A x \in Writers : wal[x] <= log_file_number
    /\ log_file_number <= manifest.next + 2
    /\ ~has_imm /\ ~bg_error =>
          next_file_number <= manifest.next + (IF bgpc \in {"compact", "fail"} THEN outputs + 1 ELSE 1)
    /\ mem_memory_usage # 0 => mem # {}
    /\ has_imm => imm # {}

(* The numbers of the log and the next file, and what is in the logs. *)
LEMMA NumbersTypes ==
    ASSUME Inv1
    PROVE  /\ wal \in [Writers -> Nat] /\ log_file_number \in Nat /\ next_file_number \in Nat
           /\ manifest.next \in Nat /\ outputs \in Nat /\ mem_memory_usage \in Nat
           /\ has_imm \in BOOLEAN /\ bg_error \in BOOLEAN
  BY Zenon DEF Inv1, TypeOK, DiskType, LogType, VerType, BgType, MemType

(* A step that takes no number and records no edit. *)
LEMMA IdleNumbers ==
    ASSUME NumbersInv,
           UNCHANGED <<wal, log_file_number, next_file_number, manifest, has_imm, imm, mem,
                       mem_memory_usage>>,
           bg_error => bg_error',
           \/ UNCHANGED <<bgpc, outputs>>
           \/ bgpc \notin {"compact", "fail"} /\ (bgpc' = "compact" => outputs' = 0) /\ (bgpc' = "fail" => has_imm)
           \/ bg_error'
           \/ bgpc = "compact" /\ bgpc' = "fail" /\ outputs' = outputs
    PROVE  NumbersInv'
<1>1. /\ \A x \in Writers : wal'[x] <= log_file_number'
      /\ log_file_number' <= manifest'.next + 2
      /\ (mem_memory_usage' # 0 => mem' # {}) /\ (has_imm' => imm' # {})
  BY Zenon DEF NumbersInv
<1>2. ASSUME ~has_imm', ~bg_error'
      PROVE  next_file_number' <= manifest'.next + (IF bgpc' \in {"compact", "fail"} THEN outputs' + 1 ELSE 1)
  <2>1. next_file_number <= manifest.next + (IF bgpc \in {"compact", "fail"} THEN outputs + 1 ELSE 1)
    BY Zenon, <1>2 DEF NumbersInv
  <2>2. (IF bgpc' \in {"compact", "fail"} THEN outputs' + 1 ELSE 1)
           = (IF bgpc \in {"compact", "fail"} THEN outputs + 1 ELSE 1)
    BY <1>2
  <2> QED BY Zenon, <2>1, <2>2
<1> QED BY Zenon, <1>1, <1>2 DEF NumbersInv

(* An edit reaches the MANIFEST: it records the next file number. *)
LEMMA EditNumbers ==
    ASSUME Inv1, Inv2, NumbersInv, manifest'.next = next_file_number,
           UNCHANGED <<wal, log_file_number, next_file_number, mem, mem_memory_usage, outputs>>,
           UNCHANGED <<imm, has_imm>> \/ ~has_imm'
    PROVE  NumbersInv'
<1>1. /\ \A x \in Writers : wal'[x] <= log_file_number'
      /\ mem_memory_usage' # 0 => mem' # {}
  BY Zenon DEF NumbersInv
<1>2. has_imm' => imm' # {}
  <2>1. has_imm => imm # {}
    BY Zenon DEF NumbersInv
  <2> QED BY Zenon, <2>1
<1>3. log_file_number < next_file_number
  BY Zenon DEF Inv2, LogInv
<1>4. /\ log_file_number' <= manifest'.next + 2
      /\ next_file_number' <= manifest'.next + (IF bgpc' \in {"compact", "fail"} THEN outputs' + 1 ELSE 1)
  BY <1>3, NumbersTypes
<1> QED BY Zenon, <1>1, <1>2, <1>4 DEF NumbersInv

(* A rotation needs an empty imm, a full mem and no error. *)
LEMMA LeadNumbers ==
    ASSUME "switch" \notin Faults, Inv1, Inv2, NumbersInv, outputs <= 1, NEW w, NEW q, Lead(w, q)
    PROVE  NumbersInv'
<1>1. UNCHANGED <<manifest, bg_error>>
  BY Zenon DEF Lead, verVars
<1>2. CASE LeadError(w, q) \/ LeadSleep(w, q) \/ LeadWait(w, q) \/ LeadCommit(w, q)
  <2>1. UNCHANGED <<memVars, log_file_number, next_file_number, diskVars, bgVars>>
    BY Zenon, <1>2 DEF LeadError, LeadSleep, LeadWait, LeadCommit, logVars
  <2> QED BY Zenon, <1>1, <2>1, IdleNumbers DEF memVars, diskVars, bgVars
<1>3. CASE LeadRotate(w, q)
  <2>1. /\ ~bg_error /\ MemFull /\ ~has_imm
        /\ log_file_number' = next_file_number /\ has_imm' = TRUE /\ imm' = mem /\ mem_memory_usage' = 0
        /\ wal' = [x \in Writers |-> IF wal[x] = next_file_number THEN 0 ELSE wal[x]]
    BY Zenon, <1>3 DEF LeadRotate, Rotate
  <2>2. mem # {}
    <3>1. WriteBufferSize \in Nat /\ mem_memory_usage > WriteBufferSize
      BY Zenon, <2>1, WritePathAssumption DEF WritePathAssumption, MemFull
    <3>2. mem_memory_usage # 0
      BY <3>1, NumbersTypes
    <3> QED BY Zenon, <3>2 DEF NumbersInv
  <2>3. log_file_number' <= manifest'.next + 2
    <3>1. next_file_number <= manifest.next + (IF bgpc \in {"compact", "fail"} THEN outputs + 1 ELSE 1)
      BY Zenon, <2>1 DEF NumbersInv
    <3> QED BY <1>1, <2>1, <3>1, NumbersTypes
  <2>4. ASSUME NEW x \in Writers PROVE wal'[x] <= log_file_number'
    <3>1. wal[x] \in Nat /\ wal[x] <= log_file_number /\ log_file_number < next_file_number
      BY Zenon, NumbersTypes DEF NumbersInv, Inv2, LogInv
    <3>2. wal'[x] \in {0, wal[x]}
      BY Zenon, <2>1
    <3> QED BY <2>1, <3>1, <3>2, NumbersTypes
  <2> QED BY Zenon, <2>1, <2>2, <2>3, <2>4 DEF NumbersInv
<1>4. ~LeadRotateFails(w, q)
  BY Zenon DEF LeadRotateFails, RotateFails, Fault
<1> QED BY Zenon, <1>2, <1>3, <1>4 DEF Lead

(* Records go to the current log, and what counts as used memory is in mem. *)
LEMMA WriterNumbers ==
    ASSUME Inv1, Inv2, NumbersInv, NEW w \in Writers,
           \/ EnqueueFollow(w) \/ FollowerReturns(w) \/ FollowerWaits(w) \/ AppendWal(w)
           \/ SyncWal(w) \/ SyncWalFails(w) \/ InsertMem(w) \/ FinishGroup(w)
    PROVE  NumbersInv'
<1>1. CASE EnqueueFollow(w) \/ FollowerReturns(w) \/ FollowerWaits(w) \/ SyncWal(w) \/ SyncWalFails(w)
  <2>1. UNCHANGED <<memVars, manifest, log_file_number, next_file_number, wal, bg_error, bgVars>>
    BY Zenon, <1>1 DEF EnqueueFollow, FollowerReturns, FollowerWaits, SyncWal, SyncWalFails,
       verVars, logVars, diskVars
  <2> QED BY Zenon, <2>1, IdleNumbers DEF memVars, bgVars
<1>2. CASE AppendWal(w)
  <2>1. /\ wpc[w] = "append" /\ wal' = Logged
        /\ UNCHANGED <<memVars, manifest, log_file_number, next_file_number, bg_error, bgVars>>
    BY Zenon, <1>2 DEF AppendWal, verVars, logVars
  <2>2. held = log_file_number
    BY Zenon, <2>1 DEF Inv2, CommitInv
  <2>3. log_file_number <= log_file_number
    BY NumbersTypes
  <2>4. \A x \in Writers : wal'[x] <= log_file_number'
    BY Zenon, <2>1, <2>2, <2>3 DEF NumbersInv, Logged
  <2> QED BY Zenon, <2>1, <2>4 DEF NumbersInv, memVars, bgVars
<1>3. CASE InsertMem(w)
  <2>1. /\ wpc[w] = "insert" /\ mem \subseteq mem' /\ imm \subseteq imm'
        /\ UNCHANGED <<has_imm, mem_memory_usage, manifest, log_file_number, next_file_number, wal,
                       bg_error, bgpc, outputs>>
    BY Zenon, <1>3 DEF InsertMem, verVars, logVars, diskVars, bgVars
  <2> QED BY Zenon, <2>1 DEF NumbersInv
<1>4. CASE FinishGroup(w)
  <2>1. /\ wpc[w] = "finish" /\ bg_error' = (bg_error \/ cstatus = "sync_err")
        /\ mem_memory_usage' = IF cstatus = "ok" THEN mem_memory_usage + glen ELSE mem_memory_usage
        /\ UNCHANGED <<mem, imm, has_imm, manifest, log_file_number, next_file_number, wal, bgpc, outputs>>
    BY Zenon, <1>4 DEF FinishGroup, verVars, diskVars, bgVars
  <2>2. cstatus = "ok" => mem # {}
    <3>1. glen \in 1..Len(writers) /\ (cstatus = "ok" => Group \subseteq mem)
      BY Zenon, <2>1, GroupInWriters DEF Inv2, CommitInv
    <3>2. Len(writers) \in Nat
      BY DEF Inv1, TypeOK, QueueType
    <3>3. 1 \in 1..glen
      BY <3>1, <3>2
    <3>4. writers[1] \in Group
      BY Zenon, <3>3 DEF Group
    <3> QED BY Zenon, <3>1, <3>4
  <2>3. mem_memory_usage' # 0 => mem' # {}
    BY Zenon, <2>1, <2>2 DEF NumbersInv
  <2> QED BY Zenon, <2>1, <2>3 DEF NumbersInv
<1> QED BY Zenon, <1>1, <1>2, <1>3, <1>4

(* The background thread: a full imm is never found empty, the numbers a   *)
(* flush takes are behind an imm, and those of outputs are counted.        *)
LEMMA BgNumbers ==
    ASSUME Inv1, Inv2, NumbersInv, BgSteps \/ SpuriousWakeup \/ UNCHANGED vars
    PROVE  NumbersInv'
<1> DEFINE Still == UNCHANGED <<wal, log_file_number, next_file_number, manifest, has_imm, imm, mem,
                                mem_memory_usage>>
<1>1. ASSUME BgParks \/ BgUnparked \/ BgRefuses \/ BgStarts \/ BgLooksAtImm PROVE NumbersInv'
  <2>1. Still /\ bg_error' = bg_error /\ outputs' = outputs
    BY Zenon, <1>1 DEF BgParks, BgUnparked, BgRefuses, BgStarts, BgLooksAtImm,
       memVars, verVars, logVars, diskVars
  <2>2. bgpc' = bgpc \/ (bgpc \in {"check", "park", "step"} /\ bgpc' \in {"check", "park", "step", "collect", "drain"})
    BY Zenon, <1>1 DEF BgParks, BgUnparked, BgRefuses, BgStarts, BgLooksAtImm
  <2>3. bgpc' = bgpc \/ (bgpc \notin {"compact", "fail"} /\ bgpc' # "compact" /\ bgpc' # "fail")
    BY <2>2
  <2>4. CASE bgpc' = bgpc
    BY Zenon, <2>1, <2>4, IdleNumbers
  <2>5. CASE bgpc \notin {"compact", "fail"} /\ bgpc' # "compact" /\ bgpc' # "fail"
    BY Zenon, <2>1, <2>5, IdleNumbers
  <2> QED BY Zenon, <2>3, <2>4, <2>5
<1>2. ASSUME BgBuilds \/ BgPicks \/ BgEnds \/ SpuriousWakeup PROVE NumbersInv'
  <2>1. Still /\ (bg_error => bg_error')
    <3>1. Still
      BY Zenon, <1>2 DEF BgBuilds, BgPicks, BgEnds, SpuriousWakeup, memVars, verVars, logVars, diskVars
    <3>2. BgEnds => (bg_error => bg_error')
      BY Zenon DEF BgEnds
    <3>3. BgBuilds \/ BgPicks \/ SpuriousWakeup => bg_error' = bg_error
      BY Zenon DEF BgBuilds, BgPicks, SpuriousWakeup
    <3>4. bg_error => bg_error'
      BY Zenon, <1>2, <3>2, <3>3
    <3> QED BY Zenon, <3>1, <3>4
  <2>2. CASE BgBuilds
    <3>1. bgpc = "build" /\ bgpc' \in {"install", "fail"} /\ has_imm
      BY Zenon, <2>2 DEF BgBuilds, Inv2, FlushInv
    <3>2. bgpc \notin {"compact", "fail"} /\ bgpc' # "compact"
      BY <3>1
    <3> QED BY Zenon, <2>1, <3>1, <3>2, IdleNumbers
  <2>3. CASE BgPicks
    <3>1. bgpc = "drain" /\ bgpc' \in {"compact", "done"} /\ outputs' = 0
      BY Zenon, <2>3 DEF BgPicks
    <3>2. bgpc \notin {"compact", "fail"} /\ bgpc' # "fail"
      BY <3>1
    <3> QED BY Zenon, <2>1, <3>1, <3>2, IdleNumbers
  <2>4. CASE BgEnds
    <3>1. bgpc \in {"done", "fail"} /\ bgpc' = "check" /\ bg_error' = (bg_error \/ bgpc = "fail")
      BY Zenon, <2>4 DEF BgEnds
    <3>2. bg_error' \/ (bgpc \notin {"compact", "fail"} /\ bgpc' # "fail" /\ bgpc' # "compact")
      BY Zenon, <3>1
    <3> QED BY Zenon, <2>1, <3>2, IdleNumbers
  <2>5. CASE SpuriousWakeup
    <3>1. outputs' = outputs /\ (bgpc' = bgpc \/ (bgpc = "park" /\ bgpc' = "check"))
      BY Zenon, <2>5 DEF SpuriousWakeup
    <3>2. bgpc' = bgpc \/ (bgpc \notin {"compact", "fail"} /\ bgpc' # "fail" /\ bgpc' # "compact")
      BY <3>1
    <3> QED BY Zenon, <2>1, <3>1, <3>2, IdleNumbers
  <2> QED BY Zenon, <1>2, <2>2, <2>3, <2>4, <2>5
<1>3. ASSUME BgFindsNothing PROVE NumbersInv'
  <2>1. bgpc = "collect" /\ imm = {}
    BY Zenon, <1>3 DEF BgFindsNothing
  <2> QED BY Zenon, <2>1 DEF Inv2, FlushInv, NumbersInv
<1>4. ASSUME BgCollects PROVE NumbersInv'
  <2>1. /\ bgpc = "collect"
        /\ UNCHANGED <<wal, log_file_number, manifest, has_imm, imm, mem, mem_memory_usage, bg_error>>
    BY Zenon, <1>4 DEF BgCollects, memVars, verVars, diskVars
  <2>2. has_imm
    BY Zenon, <2>1 DEF Inv2, FlushInv
  <2> QED BY Zenon, <2>1, <2>2 DEF NumbersInv
<1>5. ASSUME BgOpensOutput PROVE NumbersInv'
  <2>1. /\ bgpc = "compact" /\ bgpc' = bgpc /\ outputs' = outputs + 1 /\ next_file_number' = next_file_number + 1
        /\ UNCHANGED <<wal, log_file_number, manifest, has_imm, imm, mem, mem_memory_usage, bg_error>>
    BY Zenon, <1>5 DEF BgOpensOutput, memVars, verVars, diskVars
  <2>2. ASSUME ~has_imm, ~bg_error
        PROVE  next_file_number' <= manifest'.next + (IF bgpc' \in {"compact", "fail"} THEN outputs' + 1 ELSE 1)
    <3>1. next_file_number <= manifest.next + (IF bgpc \in {"compact", "fail"} THEN outputs + 1 ELSE 1)
      BY Zenon, <2>2 DEF NumbersInv
    <3> QED BY <2>1, <3>1, NumbersTypes
  <2> QED BY Zenon, <2>1, <2>2 DEF NumbersInv
<1>6. ASSUME BgInstalls \/ BgCompacts PROVE NumbersInv'
  <2>1. \A k : Flushed(k).next = next_file_number /\ Compacted(k).next = next_file_number
    BY Zenon DEF Flushed, Compacted
  <2>2. manifest'.next = next_file_number
    BY Zenon, <1>6, <2>1 DEF BgInstalls, BgCompacts
  <2>3. /\ UNCHANGED <<wal, log_file_number, next_file_number, mem, mem_memory_usage, outputs>>
        /\ UNCHANGED <<imm, has_imm>> \/ ~has_imm'
    BY Zenon, <1>6 DEF BgInstalls, BgCompacts, ClearImm, memVars, logVars, diskVars
  <2> QED BY Zenon, <2>2, <2>3, EditNumbers
<1>7. ASSUME BgInstallFails \/ BgCompactFails PROVE NumbersInv'
  <2>1. \A k : Flushed(k).next = next_file_number /\ Compacted(k).next = next_file_number
    BY Zenon DEF Flushed, Compacted
  <2>2. manifest' = manifest \/ manifest'.next = next_file_number
    BY Zenon, <1>7, <2>1 DEF BgInstallFails, BgCompactFails
  <2>3. /\ UNCHANGED <<wal, log_file_number, next_file_number, imm, has_imm, mem, mem_memory_usage, outputs, bg_error>>
        /\ bgpc \in {"install", "compact"} /\ bgpc' = "fail"
    BY Zenon, <1>7 DEF BgInstallFails, BgCompactFails, memVars, logVars, diskVars
  <2>4. CASE manifest'.next = next_file_number
    BY Zenon, <2>3, <2>4, EditNumbers
  <2>5. CASE manifest' = manifest
    <3>1. bgpc = "install" => has_imm
      BY Zenon DEF Inv2, FlushInv
    <3>2. bgpc = "compact" \/ (bgpc \notin {"compact", "fail"} /\ bgpc' # "compact" /\ has_imm)
      BY <2>3, <3>1
    <3> QED BY Zenon, <2>3, <2>5, <3>2, IdleNumbers
  <2> QED BY Zenon, <2>2, <2>4, <2>5
<1>8. ASSUME UNCHANGED vars PROVE NumbersInv'
  BY Zenon, <1>8, IdleNumbers DEF vars, memVars, verVars, logVars, diskVars, bgVars
<1> QED BY Zenon, <1>1, <1>2, <1>3, <1>4, <1>5, <1>6, <1>7, <1>8 DEF BgSteps

(* When open replays something, a table and the new MANIFEST take numbers  *)
(* before the new log does.                                                *)
LEMMA CrashNumbers ==
    ASSUME Inv1, OnceInv, NumbersInv, CrashAndOpen
    PROVE  NumbersInv' /\ \A x \in Replayable \cap tables' : wal[x] <= log_file_number'
<1>1. PICK K \in SUBSET Replayable : Survive(K) /\ Reopen(K)
  BY Zenon DEF CrashAndOpen
<1> DEFINE n == OpenLog(K)
<1>2. /\ tables' = manifest.tables \cup K /\ mem_memory_usage' = 0 /\ has_imm' = FALSE
      /\ log_file_number' = n /\ next_file_number' = IF K = {} THEN n + 2 ELSE n + 1
      /\ wal' = [x \in Writers |-> IF x \in K /\ wal[x] > n THEN wal[x] ELSE 0]
      /\ manifest'.next = n + 1
  BY Zenon, <1>1 DEF Reopen
<1>3. bgpc' = "check"
  BY Zenon DEF CrashAndOpen
<1>4. n \in Nat /\ Replayable \subseteq Writers
  BY NumbersTypes DEF OpenLog, Replayable
<1>5. ASSUME NEW x \in K PROVE wal[x] <= n
  <2>1. n = manifest.next + 2
    BY DEF OpenLog
  <2>2. wal[x] \in Nat /\ wal[x] <= log_file_number /\ log_file_number <= manifest.next + 2
    BY Zenon, <1>1, <1>4, NumbersTypes DEF NumbersInv
  <2> QED BY <2>1, <2>2, NumbersTypes
<1> HIDE DEF n
<1>6. ASSUME NEW x \in Writers PROVE wal'[x] <= log_file_number'
  <2>1. wal'[x] = IF x \in K /\ wal[x] > n THEN wal[x] ELSE 0
    BY Zenon, <1>2
  <2>2. CASE x \in K
    BY <1>2, <1>4, <1>5, <2>1, <2>2, NumbersTypes
  <2>3. CASE x \notin K
    BY <1>2, <1>4, <2>1, <2>3
  <2> QED BY Zenon, <2>2, <2>3
<1>7. /\ log_file_number' <= manifest'.next + 2
      /\ next_file_number' <= manifest'.next + (IF bgpc' \in {"compact", "fail"} THEN outputs' + 1 ELSE 1)
  BY <1>2, <1>3, <1>4
<1>8. NumbersInv'
  BY Zenon, <1>2, <1>6, <1>7 DEF NumbersInv
<1>9. ASSUME NEW x \in Replayable \cap tables' PROVE wal[x] <= log_file_number'
  <2>1. x \notin manifest.tables
    BY Zenon, <1>9, OnceIs DEF NoDoubleReplay
  <2> QED BY Zenon, <1>2, <1>5, <1>9, <2>1
<1> QED BY Zenon, <1>8, <1>9

LEMMA InitNumbers == Init => NumbersInv
<1> SUFFICES ASSUME Init PROVE NumbersInv
  OBVIOUS
<1>1. /\ wal = [w \in Writers |-> 0] /\ log_file_number = 2 /\ next_file_number = 4 /\ bgpc = "check"
      /\ has_imm = FALSE /\ mem_memory_usage = 0
      /\ manifest = [log |-> 2, tables |-> {}, l0 |-> l0, seq |-> 0, next |-> 3]
  BY Zenon DEF Init
<1>2. manifest.next = 3 /\ \A x \in Writers : wal[x] = 0
  BY Zenon, <1>1
<1> QED BY <1>1, <1>2 DEF NumbersInv

LEMMA NextNumbers ==
    ASSUME Flushers = {}, "append" \notin Faults, "switch" \notin Faults,
           Inv1, Inv2, OnceInv, NumbersInv, outputs <= 1, [Next]_vars
    PROVE  NumbersInv' /\ (CrashAndOpen => \A x \in Replayable \cap tables' : wal[x] <= log_file_number')
<1>1. CrashAndOpen => NumbersInv' /\ \A x \in Replayable \cap tables' : wal[x] <= log_file_number'
  BY Zenon, CrashNumbers
<1>2. ASSUME Calls PROVE NumbersInv'
  <2>1. PICK w \in Writers : EnqueueLead(w) \/ EnqueueFollow(w)
    BY Zenon, <1>2 DEF Calls
  <2>2. CASE EnqueueLead(w)
    BY Zenon, <2>2, LeadNumbers DEF EnqueueLead
  <2> QED BY Zenon, <2>1, <2>2, WriterNumbers
<1>3. ASSUME NEW w \in Writers, WriterSteps(w) PROVE NumbersInv'
  <2>1. ~AppendWalFails(w)
    BY Zenon DEF AppendWalFails, Fault
  <2>2. CASE TakeLead(w)
    BY Zenon, <2>2, LeadNumbers DEF TakeLead
  <2> QED BY Zenon, <1>3, <2>1, <2>2, WriterNumbers DEF WriterSteps
<1>4. ASSUME BgSteps \/ SpuriousWakeup \/ UNCHANGED vars PROVE NumbersInv'
  BY Zenon, <1>4, BgNumbers
<1> QED BY Zenon, <1>1, <1>2, <1>3, <1>4 DEF Next

(***************************************************************************)
(* Under the same conditions, when moreover no switch_active_log fails and *)
(* no compaction writes more than one file, the numbers cannot overtake    *)
(* and no batch is ever replayed that a table of the MANIFEST holds.       *)
(***************************************************************************)
THEOREM SmallCompactionsReplayOnce ==
    ASSUME Flushers = {}, "append" \notin Faults, "switch" \notin Faults
    PROVE  Spec /\ [](outputs <= 1) => []NoDoubleReplay
<1>1. Inv1 /\ Inv2 /\ Inv3 /\ OnceInv /\ NumbersInv /\ outputs <= 1 /\ [Next]_vars
      => OnceInv' /\ NumbersInv'
  BY Zenon, NextNumbers, NextOnce
<1>2. Inv1 /\ OnceInv => NoDoubleReplay
  BY Zenon, OnceIs
<1> QED
  BY <1>1, <1>2, Inv1Holds, Init2, Next2, Init3, Next3, InitOnce, InitNumbers, PTL DEF Spec

=============================================================================
