-------------------------------- MODULE Log --------------------------------
(***************************************************************************)
(* The record log under the WAL and the MANIFEST (log/log.rs): LogWriter   *)
(* cuts records into fragments that never cross a block, and two readers,  *)
(* LogReader over bytes in memory and LogSequentialReader over a file,     *)
(* put them together again.  The file may lose its unsynced tail in a      *)
(* crash, and an append may fail half way.                                 *)
(*                                                                         *)
(* A byte is a record naming the fragment it was written for and its place *)
(* in it; a run of bytes decodes to a fragment exactly when it is that     *)
(* fragment, which is what the CRC over kind and payload stands for.       *)
(***************************************************************************)
EXTENDS Integers, Sequences, FiniteSetsExt

CONSTANTS BlockSize,    \* BLOCK_SIZE, 32768 in the code
          HeaderSize,   \* LogRecordHeader::SIZE, 7 in the code
          Lengths,      \* the lengths of records
          MaxRecords,   \* bound: records added
          MaxFaults     \* bound: appends that fail

ASSUME LogAssumption ==
    /\ HeaderSize \in Nat \ {0} /\ BlockSize \in Nat /\ BlockSize > HeaderSize
    /\ Lengths \subseteq Nat /\ MaxRecords \in Nat /\ MaxFaults \in Nat

VARIABLES file,          \* the bytes handed to the WritableFile, its buffer included
          synced,        \* how many of them the last sync made durable
          block_offset,  \* LogWriter::block_offset
          adding,        \* the record add_record_pair_to is cutting up, or NoRecord
          added,         \* history: the lengths of the records begun
          durable,       \* history: how many of them the last sync covers
          faults,        \* history: appends that failed
          torn,          \* history: the crash changed the file
          seqr,          \* the LogSequentialReader, once there is one
          memr           \* the LogReader over the same bytes

wvars == <<synced, block_offset, adding, added, durable, faults, torn>>
vars == <<file, wvars, seqr, memr>>

NoRecord == [rec |-> 0, off |-> 0, left |-> 0, begin |-> FALSE]

Zero == [kind |-> "zero", rec |-> 0, off |-> 0, len |-> 0, at |-> 0]

(* LogRecordHeader::encode and the payload: len bytes of record rec from off on. *)
Fragment(kind, rec, off, len) ==
    [i \in 1..HeaderSize + len |->
        [kind |-> kind, rec |-> rec, off |-> off, len |-> len, at |-> i]]

(* What a byte of a payload is to the reader: the byte of a record it carries. *)
Content(b) == <<b.rec, b.off + b.at - HeaderSize>>

Whole(rec) == [i \in 1..added[rec] |-> <<rec, i>>]

----------------------------------------------------------------------------
(* LogWriter::add_record_pair_to *)

Leftover == BlockSize - block_offset

(* Mutant: a block with room for just a header is taken for full. *)
NewBlockEarly == Leftover <= HeaderSize

(* Fewer than HEADER_SIZE bytes are left: zero them and start a block. *)
NewBlock == Leftover < HeaderSize

Padding == IF NewBlock THEN [i \in 1..Leftover |-> Zero] ELSE <<>>

Offset == IF NewBlock THEN 0 ELSE block_offset

FragmentLen == Min({adding.left, BlockSize - Offset - HeaderSize})

KindOf(begin, end) ==
    CASE begin /\ end -> "full"
      [] begin /\ ~end -> "first"
      [] ~begin /\ end -> "last"
      [] OTHER -> "middle"

NextFragment ==
    Fragment(KindOf(adding.begin, adding.left = FragmentLen),
             adding.rec, adding.off, FragmentLen)

BeginRecord(len) ==
    /\ seqr.end = "unopened"
    /\ adding = NoRecord
    /\ Len(added) < MaxRecords
    /\ adding' = [rec |-> Len(added) + 1, off |-> 0, left |-> len, begin |-> TRUE]
    /\ added' = Append(added, len)
    /\ UNCHANGED <<file, synced, block_offset, durable, faults, torn, seqr, memr>>

(* One turn of the loop: padding, header, payload, flush. *)
Emit ==
    /\ seqr.end = "unopened"
    /\ adding # NoRecord
    /\ file' = file \o Padding \o NextFragment
    /\ block_offset' = Offset + HeaderSize + FragmentLen
    /\ adding' = IF adding.left = FragmentLen THEN NoRecord
                 ELSE [adding EXCEPT !.off = @ + FragmentLen,
                                     !.left = @ - FragmentLen,
                                     !.begin = FALSE]
    /\ UNCHANGED <<synced, added, durable, faults, torn, seqr, memr>>

(* An append or the flush fails and `?` leaves the loop.  What the calls   *)
(* before it handed over stays in the file or its buffer; block_offset     *)
(* moves only past padding that was appended.                              *)
EmitFails ==
    /\ seqr.end = "unopened"
    /\ adding # NoRecord
    /\ faults < MaxFaults
    /\ \/ Padding # <<>> /\ UNCHANGED <<file, block_offset>>
       \/ /\ \E k \in 0..Len(NextFragment) :
                file' = file \o Padding \o SubSeq(NextFragment, 1, k)
          /\ block_offset' = Offset
    /\ adding' = NoRecord
    /\ faults' = faults + 1
    /\ UNCHANGED <<synced, added, durable, torn, seqr, memr>>

(* The caller's WritableFile::sync, between records. *)
Sync ==
    /\ seqr.end = "unopened"
    /\ adding = NoRecord
    /\ synced < Len(file)
    /\ synced' = Len(file)
    /\ durable' = Len(added)
    /\ UNCHANGED <<file, block_offset, adding, added, faults, torn, seqr, memr>>

----------------------------------------------------------------------------
(* The readers: LogReader and LogSequentialReader *)

Unopened == [block |-> 0, off |-> 0, scratch |-> <<>>, in_fragmented |-> FALSE,
             out |-> <<>>, end |-> "unopened"]

(* The process stops and the log is opened for replay.  Any part of what   *)
(* was not synced may be gone; the file may keep its length, with zeros    *)
(* where the data never reached the disk.                                  *)
Reopen ==
    /\ seqr.end = "unopened"
    /\ \E k \in synced..Len(file) :
          \/ file' = SubSeq(file, 1, k)
          \/ file' = SubSeq(file, 1, k) \o [i \in 1..Len(file) - k |-> Zero]
    /\ torn' = (file' # file \/ adding # NoRecord)
    /\ seqr' = [Unopened EXCEPT !.end = "reading"]
    /\ memr' = [Unopened EXCEPT !.end = "reading"]
    /\ UNCHANGED <<synced, block_offset, adding, added, durable, faults>>

Result(kind, data) == [kind |-> kind, data |-> data]

(* Mutant: the CRC is not compared. *)
ParseNoCrc(bytes, o, avail) ==
    LET h == bytes[o + 1] IN
    IF /\ h.kind # "zero"
       /\ \A i \in 1..HeaderSize : bytes[o + i] = [h EXCEPT !.at = i]
       /\ h.len <= avail
       /\ o + HeaderSize + h.len <= Len(bytes)
    THEN Result(h.kind, [i \in 1..h.len |-> Content(bytes[o + HeaderSize + i])])
    ELSE Result("bad", <<>>)

(* The common part of the two read_physical: the header at o, its length   *)
(* against the block and the bytes, the CRC.  A header of zeros does not   *)
(* carry the CRC of an empty KIND_ZERO record and is refused like any      *)
(* other; bytes that are not the header of one fragment decode to a length *)
(* and a CRC that one of the checks refuses.                               *)
Parse(bytes, o, avail) ==
    LET h == bytes[o + 1] IN
    IF /\ h.kind # "zero"
       /\ \A i \in 1..HeaderSize : bytes[o + i] = [h EXCEPT !.at = i]
       /\ h.len <= avail
       /\ o + HeaderSize + h.len <= Len(bytes)
       /\ \A i \in 1..h.len : bytes[o + HeaderSize + i] = [h EXCEPT !.at = HeaderSize + i]
    THEN Result(h.kind, [i \in 1..h.len |-> Content(bytes[o + HeaderSize + i])])
    ELSE Result("bad", <<>>)

(* LogReader::read_physical: skip the end of a block too short for a header. *)
MemCursor(r) ==
    LET leftover == BlockSize - (r.off % BlockSize)
    IN  IF leftover < HeaderSize THEN r.off + leftover ELSE r.off

MemPhysical(c) ==
    IF c + HeaderSize > Len(file) THEN Result("none", <<>>)
    ELSE Parse(file, c, BlockSize - (c % BlockSize) - HeaderSize)

(* LogSequentialReader: the block-th read of BLOCK_SIZE bytes of the file. *)
Block(n) ==
    IF n = 0 THEN <<>>
    ELSE SubSeq(file, (n - 1) * BlockSize + 1, Min({n * BlockSize, Len(file)}))

(* Mutant: a header that ends a block is skipped. *)
SeqCursorGreedy(r) ==
    LET n == Len(Block(r.block))
    IN  IF n - r.off <= HeaderSize /\ (n = BlockSize \/ r.off >= n)
        THEN [block |-> r.block + 1, off |-> 0]
        ELSE [block |-> r.block, off |-> r.off]

(* fill_block once a block is used up, or too little of a full one is left. *)
SeqCursor(r) ==
    LET n == Len(Block(r.block))
    IN  IF n - r.off < HeaderSize /\ (n = BlockSize \/ r.off >= n)
        THEN [block |-> r.block + 1, off |-> 0]
        ELSE [block |-> r.block, off |-> r.off]

SeqPhysical(c) ==
    IF Len(Block(c.block)) - c.off < HeaderSize THEN Result("none", <<>>)
    ELSE Parse(Block(c.block), c.off, BlockSize - c.off - HeaderSize)

(* read_record, the same in both readers: one fragment p of its loop, from *)
(* the reader r moved past it.                                             *)
Assemble(r, p) ==
    CASE p.kind = "none" ->
           [r EXCEPT !.end = IF r.in_fragmented THEN "corrupt" ELSE "eof"]
      [] p.kind = "full" /\ ~r.in_fragmented ->
           [r EXCEPT !.out = Append(@, p.data)]
      [] p.kind = "first" /\ ~r.in_fragmented ->
           [r EXCEPT !.scratch = p.data, !.in_fragmented = TRUE]
      [] p.kind = "middle" /\ r.in_fragmented ->
           [r EXCEPT !.scratch = @ \o p.data]
      [] p.kind = "last" /\ r.in_fragmented ->
           [r EXCEPT !.out = Append(@, r.scratch \o p.data),
                     !.scratch = <<>>, !.in_fragmented = FALSE]
      [] OTHER -> [r EXCEPT !.end = "corrupt"]

(* Both readers take their next fragment; replay stops at the first error. *)
Read ==
    /\ seqr.end = "reading" \/ memr.end = "reading"
    /\ seqr' = IF seqr.end # "reading" THEN seqr ELSE
               LET c == SeqCursor(seqr)
                   p == SeqPhysical(c)
               IN  Assemble([seqr EXCEPT !.block = c.block,
                                         !.off = c.off + HeaderSize + Len(p.data)], p)
    /\ memr' = IF memr.end # "reading" THEN memr ELSE
               LET c == MemCursor(memr)
                   p == MemPhysical(c)
               IN  Assemble([memr EXCEPT !.off = c + HeaderSize + Len(p.data)], p)
    /\ UNCHANGED <<file, wvars>>

----------------------------------------------------------------------------
Init ==
    /\ file = <<>> /\ synced = 0 /\ block_offset = 0 /\ adding = NoRecord
    /\ added = <<>> /\ durable = 0 /\ faults = 0 /\ torn = FALSE
    /\ seqr = Unopened /\ memr = Unopened

Next ==
    \/ \E len \in Lengths : BeginRecord(len)
    \/ Emit
    \/ EmitFails
    \/ Sync
    \/ Reopen
    \/ Read

Spec == Init /\ [][Next]_vars

----------------------------------------------------------------------------
(* read_record returns whole records only, in the order they were added    *)
(* and none twice, whatever a crash or a failed append left in the file:   *)
(* never the head of a torn record, never the bytes of one spliced to      *)
(* those of another.                                                       *)
WholeRecords ==
    \E rec \in [1..Len(seqr.out) -> 1..Len(added)] :
        /\ \A i, j \in 1..Len(seqr.out) : i < j => rec[i] < rec[j]
        /\ \A i \in 1..Len(seqr.out) : seqr.out[i] = Whole(rec[i])

(* As long as no append failed, replay gets every record a sync covered,   *)
(* as a prefix of what was added, and a log nobody tore is read to its end *)
(* without an error: paranoid_checks does not refuse it.                   *)
SyncedSurvive ==
    faults = 0 /\ seqr.end \in {"eof", "corrupt"} =>
        /\ \E n \in durable..Len(added) : seqr.out = [i \in 1..n |-> Whole(i)]
        /\ ~torn => seqr.end = "eof" /\ Len(seqr.out) = Len(added)

(* log.rs, on LogSequentialReader: "It preserves the same record framing   *)
(* and CRC behavior as LogReader".  Fragment by fragment the two return    *)
(* the same records and stop in the same way.                              *)
ReadersAgree ==
    /\ seqr.out = memr.out
    /\ seqr.end = memr.end
=============================================================================
