----------------------------- MODULE LogProofs -----------------------------
(***************************************************************************)
(* Proofs about the record log, for every size of block and header, every  *)
(* length of records and every number of failed appends:                   *)
(*   - the two readers return the same records and stop in the same way;   *)
(*   - a reader returns whole records only, in order and none twice;       *)
(*   - without failed appends, replay gets every record a sync covered.    *)
(*                                                                         *)
(* The argument is about the file: whatever failed appends and the crash   *)
(* leave in it, a byte is genuine, a continuation lies right behind the    *)
(* fragment it continues, and a reader never skips as much as a header.    *)
(***************************************************************************)
EXTENDS Log, TLAPS

Kinds == {"full", "first", "middle", "last"}
Byte == [kind : Kinds \cup {"zero"}, rec : Nat, off : Nat, len : Nat, at : Nat]
Data == Seq(Nat \X Nat)
Reader == [block : Nat, off : Nat, scratch : Data, in_fragmented : BOOLEAN,
           out : Seq(Data), end : {"unopened", "reading", "eof", "corrupt"}]

TypeOK ==
    /\ file \in Seq(Byte) /\ synced \in 0..Len(file)
    /\ block_offset \in 0..BlockSize
    /\ adding \in [rec : Nat, off : Nat, left : Nat, begin : BOOLEAN]
    /\ added \in Seq(Nat) /\ durable \in 0..Len(added)
    /\ faults \in Nat /\ torn \in BOOLEAN
    /\ seqr \in Reader /\ memr \in Reader

(* The two readers are at the same place of the file. *)
Agree ==
    /\ seqr.end = memr.end /\ seqr.out = memr.out
    /\ seqr.scratch = memr.scratch /\ seqr.in_fragmented = memr.in_fragmented
    /\ seqr.end = "unopened" => seqr.out = <<>>
    /\ seqr.end = "reading" =>
          /\ memr.off <= Len(file)
          /\ seqr.block = 0 => seqr.off = 0 /\ memr.off = 0
          /\ seqr.block > 0 => /\ seqr.off <= BlockSize
                               /\ memr.off = (seqr.block - 1) * BlockSize + seqr.off

(* A whole fragment lies behind the first s bytes of f. *)
FragmentAt(f, s) ==
    /\ s + HeaderSize <= Len(f)
    /\ s + HeaderSize + f[s + 1].len <= Len(f)
    /\ f[s + 1].kind # "zero"
    /\ \A i \in 1..HeaderSize + f[s + 1].len : f[s + i] = [f[s + 1] EXCEPT !.at = i]
EndOf(f, s) == s + HeaderSize + f[s + 1].len

(* Byte b belongs to a fragment of a record that was added. *)
Genuine(b, adds) ==
    /\ b.rec \in 1..Len(adds) /\ b.at \in 1..HeaderSize + b.len
    /\ b.off + b.len <= adds[b.rec]
    /\ b.kind \in {"full", "first"} => b.off = 0
    /\ b.kind \in {"full", "last"} <=> b.off + b.len = adds[b.rec]

(* The fragment at s is one that the fragment starting with b continues. *)
Continues(f, s, rec, off) ==
    /\ FragmentAt(f, s)
    /\ f[s + 1].kind \in {"first", "middle"}
    /\ f[s + 1].rec = rec /\ f[s + 1].off + f[s + 1].len = off

Bytes(f, adds) == \A i \in 1..Len(f) : f[i].kind # "zero" => Genuine(f[i], adds)
Ordered(f) ==
    \A i, j \in 1..Len(f) :
        i < j /\ f[i].kind # "zero" /\ f[j].kind # "zero" => f[i].rec <= f[j].rec
Starts(f) ==
    \A i, j \in 1..Len(f) :
        i < j /\ f[i].kind # "zero" /\ f[j].kind \in {"full", "first"} /\ f[j].at = 1
            => f[i].rec < f[j].rec
Linked(f) ==
    \A q \in 0..Len(f) - 1 :
        f[q + 1].kind \in {"middle", "last"} /\ f[q + 1].at = 1 =>
            \E s \in 0..q : /\ Continues(f, s, f[q + 1].rec, f[q + 1].off)
                            /\ EndOf(f, s) <= q
                            /\ \A i \in EndOf(f, s) + 1..q : f[i].kind = "zero"

FileInv ==
    /\ Bytes(file, added) /\ Ordered(file) /\ Starts(file) /\ Linked(file)
    /\ \A i \in synced + 1..Len(file) : file[i].kind # "zero" => file[i].rec > durable

(* The record being cut up, and what of it is in the file. *)
AddingInv ==
    seqr.end = "unopened" /\ adding # NoRecord =>
        /\ adding.rec = Len(added) /\ durable < adding.rec
        /\ adding.off + adding.left = added[adding.rec]
        /\ adding.begin => /\ adding.off = 0
                           /\ \A i \in 1..Len(file) : file[i].kind # "zero" => file[i].rec < adding.rec
        /\ ~adding.begin => \E s \in 0..Len(file) : /\ Continues(file, s, adding.rec, adding.off)
                                                    /\ EndOf(file, s) = Len(file)

(* The first k bytes of record n; out has some of the first m records. *)
Opening(n, k) == [i \in 1..k |-> <<n, i>>]
Picks(adds, m, out, rec) ==
    /\ rec \in [1..Len(out) -> 1..m]
    /\ \A i, j \in 1..Len(out) : i < j => rec[i] < rec[j]
    /\ \A i \in 1..Len(out) : out[i] = Opening(rec[i], adds[rec[i]])
Picked(adds, m, out) == \E rec : Picks(adds, m, out, rec)

(* What a reader has returned and gathered, by the fragment it read last. *)
ReadUpTo(f, adds, r, s) ==
    /\ FragmentAt(f, s) /\ EndOf(f, s) = r.off
    /\ r.in_fragmented <=> f[s + 1].kind \in {"first", "middle"}
    /\ r.in_fragmented => r.scratch = Opening(f[s + 1].rec, f[s + 1].off + f[s + 1].len)
    /\ Picked(adds, f[s + 1].rec, r.out)
    /\ r.in_fragmented => Picked(adds, f[s + 1].rec - 1, r.out)
ReadInv ==
    memr.end = "reading" =>
        \/ memr.off = 0 /\ memr.out = <<>> /\ ~memr.in_fragmented
        \/ \E s \in 0..Len(file) : ReadUpTo(file, added, memr, s)

(* Where a reader that has read s bytes looks for the next fragment. *)
Skip(s) ==
    LET leftover == BlockSize - (s % BlockSize)
    IN  IF leftover < HeaderSize THEN s + leftover ELSE s

(* A fragment ends with the s-th byte, or the file starts there. *)
Boundary(f, s) == s = 0 \/ (f[s].kind # "zero" /\ f[s].at = HeaderSize + f[s].len)

(* b starts the fragment due after the first s bytes. *)
Follows(f, s, b) ==
    IF s = 0 \/ f[s].kind \in {"full", "last"}
    THEN b.kind \in {"full", "first"} /\ b.rec = (IF s = 0 THEN 0 ELSE f[s].rec) + 1
    ELSE b.kind \in {"middle", "last"} /\ b.rec = f[s].rec

InOrder(f) ==
    \A s \in 0..Len(f) :
        Boundary(f, s) /\ Skip(s) < Len(f) /\ f[Skip(s) + 1].kind # "zero" =>
            Follows(f, s, f[Skip(s) + 1])

(* The first n bytes are whole fragments that a reader finds one by one. *)
Present(f, n) ==
    \A s \in 0..n - 1 :
        Boundary(f, s) =>
            /\ FragmentAt(f, Skip(s)) /\ EndOf(f, Skip(s)) <= n
            /\ f[Skip(s) + 1].len <= BlockSize - (Skip(s) % BlockSize) - HeaderSize

(* The first n bytes end with the end of record r. *)
Closed(f, n, r) ==
    IF n = 0 THEN r = 0 ELSE Boundary(f, n) /\ f[n].kind \in {"full", "last"} /\ f[n].rec = r

(* How many records a reader has returned, and the first n records. *)
Returned(f, r) ==
    IF r.off = 0 THEN 0
    ELSE IF r.in_fragmented THEN f[r.off].rec - 1 ELSE f[r.off].rec
FirstOf(adds, n) == [i \in 1..n |-> Opening(i, adds[i])]

CleanInv ==
    faults = 0 =>
        /\ InOrder(file) /\ Present(file, synced) /\ Closed(file, synced, durable)
        /\ seqr.end = "unopened" =>
              /\ Present(file, Len(file))
              /\ Len(file) % BlockSize = block_offset % BlockSize
              /\ adding = NoRecord => Closed(file, Len(file), Len(added))
              /\ adding # NoRecord /\ adding.begin => Closed(file, Len(file), Len(added) - 1)
        /\ seqr.end # "unopened" /\ ~torn =>
              Present(file, Len(file)) /\ Closed(file, Len(file), Len(added))
        /\ memr.end = "reading" => memr.out = FirstOf(added, Returned(file, memr))

(* The inductive invariant. *)
LogInv == TypeOK /\ Agree /\ FileInv /\ AddingInv /\ ReadInv /\ CleanInv /\ WholeRecords /\ SyncedSurvive

----------------------------------------------------------------------------
(* Sequences. *)
LEMMA SeqLen ==
  ASSUME NEW S, NEW s \in Seq(S)
  PROVE  Len(s) \in Nat /\ DOMAIN s = 1..Len(s) /\ s \in [1..Len(s) -> S]
OBVIOUS

(* An element of a sequence. *)
LEMMA SeqElement ==
  ASSUME NEW S, NEW s \in Seq(S), NEW i \in 1..Len(s)
  PROVE  s[i] \in S
OBVIOUS

(* The empty sequence. *)
LEMMA SeqEmpty ==
  ASSUME NEW S
  PROVE  <<>> \in Seq(S) /\ Len(<<>>) = 0 /\ \A s \in Seq(S) : s # <<>> => Len(s) \in Nat \ {0}
OBVIOUS

(* Sequences with the same elements are the same. *)
LEMMA SeqSame ==
  ASSUME NEW S, NEW s \in Seq(S), NEW t \in Seq(S), Len(s) = Len(t), \A i \in 1..Len(s) : s[i] = t[i]
  PROVE  s = t
<1>1. s \in [1..Len(s) -> S] /\ t \in [1..Len(s) -> S]
  BY SeqLen
<1> QED BY <1>1

(* What concatenation gives. *)
LEMMA SeqConcat ==
  ASSUME NEW S, NEW s \in Seq(S), NEW t \in Seq(S)
  PROVE  /\ s \o t \in Seq(S) /\ Len(s \o t) = Len(s) + Len(t)
         /\ \A i \in 1..Len(s) + Len(t) : (s \o t)[i] = IF i <= Len(s) THEN s[i] ELSE t[i - Len(s)]
OBVIOUS

(* What Append gives. *)
LEMMA SeqAppend ==
  ASSUME NEW S, NEW s \in Seq(S), NEW e \in S
  PROVE  /\ Append(s, e) \in Seq(S) /\ Len(Append(s, e)) = Len(s) + 1
         /\ \A i \in 1..Len(s) : Append(s, e)[i] = s[i]
         /\ Append(s, e)[Len(s) + 1] = e
OBVIOUS

(* What SubSeq gives. *)
LEMMA SeqCut ==
  ASSUME NEW S, NEW s, NEW m \in Int, NEW n \in Int, \A i \in m..n : s[i] \in S
  PROVE  /\ SubSeq(s, m, n) \in Seq(S)
         /\ Len(SubSeq(s, m, n)) = IF m <= n THEN n - m + 1 ELSE 0
         /\ \A i \in 1..n - m + 1 : SubSeq(s, m, n)[i] = s[m + i - 1]
OBVIOUS

(* Blocks: quotients and remainders. *)
LEMMA MulGap ==
  ASSUME NEW b \in Nat \ {0}, NEW p \in Int, NEW q \in Int, p < q
  PROVE  b * p + b <= b * q
<1>1. q - p - 1 \in Nat
  OBVIOUS
<1>2. b * (q - p - 1) >= 0
  BY <1>1
<1>3. b * (q - p - 1) = b * q - b * p - b
  OBVIOUS
<1> QED BY <1>2, <1>3

(* A number is so many blocks and a remainder. *)
LEMMA ModParts ==
  ASSUME NEW x \in Nat, NEW b \in Nat \ {0}
  PROVE  x \div b \in Nat /\ x = b * (x \div b) + (x % b) /\ x % b \in 0..b - 1
OBVIOUS

(* There is one way to write it so. *)
LEMMA ModUnique ==
  ASSUME NEW x \in Nat, NEW b \in Nat \ {0}, NEW q \in Nat, NEW r \in 0..b - 1, x = b * q + r
  PROVE  x % b = r
<1> DEFINE p == x \div b
           s == x % b
<1>1. p \in Nat /\ x = b * p + s /\ s \in 0..b - 1
  BY Zenon, ModParts
<1> HIDE DEF p, s
<1>2. b * p \in Int /\ b * q \in Int
  BY <1>1
<1>3. ~ (p < q)
  <2> SUFFICES ASSUME p < q PROVE FALSE
    OBVIOUS
  <2>1. b * p + b <= b * q
    BY <1>1, MulGap
  <2> QED BY <2>1, <1>1, <1>2
<1>4. ~ (q < p)
  <2> SUFFICES ASSUME q < p PROVE FALSE
    OBVIOUS
  <2>1. b * q + b <= b * p
    BY <1>1, MulGap
  <2> QED BY <2>1, <1>1, <1>2
<1>5. p = q
  BY <1>1, <1>3, <1>4
<1> QED BY <1>1, <1>5, <1>2 DEF s

(* An offset that stays in its block moves by as much. *)
LEMMA ModSame ==
  ASSUME NEW a \in Nat, NEW b \in Nat \ {0}, NEW d \in Nat, (a % b) + d < b
  PROVE  (a + d) % b = (a % b) + d
<1>1. a \div b \in Nat /\ a = b * (a \div b) + (a % b) /\ a % b \in 0..b - 1
  BY Zenon, ModParts
<1>2. PICK q \in Nat, r \in 0..b - 1 : q = a \div b /\ r = a % b
  BY Zenon, <1>1
<1>3. b * q \in Int /\ a = b * q + r
  BY <1>1, <1>2
<1>4. a + d \in Nat /\ a + d = b * q + (r + d) /\ r + d \in 0..b - 1
  BY <1>2, <1>3
<1> QED BY Zenon, <1>2, <1>4, ModUnique

(* Filling a block up brings the offset back to zero. *)
LEMMA ModWrap ==
  ASSUME NEW a \in Nat, NEW b \in Nat \ {0}, NEW d \in Nat, (a % b) + d = b
  PROVE  (a + d) % b = 0
<1>1. a \div b \in Nat /\ a = b * (a \div b) + (a % b) /\ a % b \in 0..b - 1
  BY Zenon, ModParts
<1>2. PICK q \in Nat : q = a \div b
  BY Zenon, <1>1
<1>3. b * q \in Int /\ b * (q + 1) = b * q + b
  BY <1>2
<1>4. PICK p \in Nat, x \in Nat, r \in 0..b - 1 : p = q + 1 /\ x = a + d /\ r = 0
  BY <1>2
<1>5. x = b * p + r
  BY <1>1, <1>2, <1>3, <1>4
<1>6. x % b = r
  BY Zenon, <1>5, ModUnique
<1> QED BY Zenon, <1>4, <1>6

(* An offset is in its block. *)
LEMMA ModRange ==
  ASSUME NEW a \in Nat, NEW b \in Nat \ {0}
  PROVE  a % b \in 0..b - 1
OBVIOUS

(* A block starts at offset zero. *)
LEMMA ModMul ==
  ASSUME NEW a \in Nat, NEW b \in Nat \ {0}
  PROVE  (a * b) % b = 0
OBVIOUS

(* The smaller of two numbers. *)
LEMMA MinTwo ==
  ASSUME NEW a \in Nat, NEW b \in Nat
  PROVE  Min({a, b}) = IF a <= b THEN a ELSE b
BY DEF Min

(* A function on 1..n is a sequence. *)
LEMMA FunctionIsSeq ==
  ASSUME NEW S, NEW n \in Nat, NEW f \in [1..n -> S]
  PROVE  f \in Seq(S) /\ Len(f) = n
OBVIOUS

----------------------------------------------------------------------------
(* Fragments in a sequence of bytes. *)

(* A byte of the fragment of h: only its place differs. *)
LEMMA ByteExcept ==
  ASSUME NEW h \in Byte, NEW i \in Nat
  PROVE  LET b == [h EXCEPT !.at = i]
         IN  b \in Byte /\ b.kind = h.kind /\ b.rec = h.rec /\ b.off = h.off /\ b.len = h.len /\ b.at = i
BY DEF Byte

(* The fields of a byte. *)
LEMMA ByteFields ==
  ASSUME NEW b \in Byte
  PROVE  b.kind \in Kinds \cup {"zero"} /\ b.rec \in Nat /\ b.off \in Nat /\ b.len \in Nat /\ b.at \in Nat
BY DEF Byte

(* A byte of the file. *)
LEMMA ByteAt ==
  ASSUME NEW f \in Seq(Byte), NEW i \in 1..Len(f)
  PROVE  f[i] \in Byte
BY SeqElement

(* The bytes of a fragment, and where it ends. *)
LEMMA FragmentBytes ==
  ASSUME NEW f \in Seq(Byte), NEW s \in Nat, FragmentAt(f, s)
  PROVE  /\ s + 1 \in 1..Len(f) /\ f[s + 1] \in Byte
         /\ EndOf(f, s) \in 1..Len(f) /\ EndOf(f, s) > s
         /\ \A i \in 1..HeaderSize + f[s + 1].len :
               /\ s + i \in 1..Len(f)
               /\ f[s + i].kind = f[s + 1].kind /\ f[s + i].rec = f[s + 1].rec
               /\ f[s + i].off = f[s + 1].off /\ f[s + i].len = f[s + 1].len
               /\ f[s + i].at = i
<1>1. Len(f) \in Nat /\ HeaderSize \in Nat \ {0}
  BY SeqLen, LogAssumption
<1>2. s + 1 \in 1..Len(f)
  BY <1>1 DEF FragmentAt
<1>3. f[s + 1] \in Byte
  BY <1>2, ByteAt
<1>4. f[s + 1].len \in Nat
  BY <1>3, ByteFields
<1>5. EndOf(f, s) \in 1..Len(f) /\ EndOf(f, s) > s
  BY <1>1, <1>4 DEF FragmentAt, EndOf
<1>6. ASSUME NEW i \in 1..HeaderSize + f[s + 1].len
      PROVE  /\ s + i \in 1..Len(f)
             /\ f[s + i].kind = f[s + 1].kind /\ f[s + i].rec = f[s + 1].rec
             /\ f[s + i].off = f[s + 1].off /\ f[s + i].len = f[s + 1].len
             /\ f[s + i].at = i
  <2>1. s + i \in 1..Len(f) /\ i \in Nat
    BY <1>1, <1>4 DEF FragmentAt
  <2>2. f[s + i] = [f[s + 1] EXCEPT !.at = i]
    BY Zenon DEF FragmentAt
  <2> QED BY <2>1, <2>2, <1>3, ByteExcept
<1> QED BY Zenon, <1>2, <1>3, <1>5, <1>6

(* The first n bytes of f and g are the same. *)
SameUpTo(f, g, n) == n <= Len(f) /\ n <= Len(g) /\ \A i \in 1..n : g[i] = f[i]

(* A fragment stays where its bytes stay. *)
LEMMA FragmentKept ==
  ASSUME NEW f \in Seq(Byte), NEW g \in Seq(Byte), NEW n \in Nat, SameUpTo(f, g, n),
         NEW s \in Nat, FragmentAt(f, s), EndOf(f, s) <= n
  PROVE  FragmentAt(g, s) /\ EndOf(g, s) = EndOf(f, s) /\ g[s + 1] = f[s + 1]
<1>1. Len(f) \in Nat /\ Len(g) \in Nat /\ HeaderSize \in Nat \ {0}
  BY SeqLen, LogAssumption
<1>2. f[s + 1] \in Byte /\ f[s + 1].len \in Nat
  BY FragmentBytes, ByteFields
<1>3. s + 1 \in 1..n
  BY <1>1, <1>2 DEF EndOf
<1>4. g[s + 1] = f[s + 1]
  BY <1>3 DEF SameUpTo
<1>5. EndOf(g, s) = EndOf(f, s)
  BY Zenon, <1>4 DEF EndOf
<1>6. ASSUME NEW i \in 1..HeaderSize + f[s + 1].len
      PROVE  g[s + i] = [f[s + 1] EXCEPT !.at = i]
  <2>1. s + i \in 1..n
    BY <1>1, <1>2 DEF EndOf
  <2>2. g[s + i] = f[s + i]
    BY Zenon, <2>1 DEF SameUpTo
  <2> QED BY Zenon, <2>2 DEF FragmentAt
<1>7. s + HeaderSize <= Len(g) /\ s + HeaderSize + f[s + 1].len <= Len(g)
  BY <1>1, <1>2 DEF SameUpTo, EndOf
<1>8. f[s + 1].kind # "zero"
  BY Zenon DEF FragmentAt
<1> QED BY Zenon, <1>4, <1>5, <1>6, <1>7, <1>8 DEF FragmentAt

(* What Parse makes of the bytes at o. *)
LEMMA ParseResult ==
  ASSUME NEW f \in Seq(Byte), NEW o \in Nat, NEW avail \in Int, o + HeaderSize <= Len(f)
  PROVE  Parse(f, o, avail) =
            IF FragmentAt(f, o) /\ f[o + 1].len <= avail
            THEN Result(f[o + 1].kind, [i \in 1..f[o + 1].len |-> <<f[o + 1].rec, f[o + 1].off + i>>])
            ELSE Result("bad", <<>>)
<1>1. Len(f) \in Nat /\ HeaderSize \in Nat \ {0}
  BY SeqLen, LogAssumption
<1>2. o + 1 \in 1..Len(f)
  BY <1>1
<1>3. f[o + 1] \in Byte /\ f[o + 1].len \in Nat /\ f[o + 1].off \in Nat
  BY <1>2, ByteAt, ByteFields
<1> DEFINE h == f[o + 1]
           Header == \A i \in 1..HeaderSize : f[o + i] = [h EXCEPT !.at = i]
           Payload == \A i \in 1..h.len : f[o + HeaderSize + i] = [h EXCEPT !.at = HeaderSize + i]
           All == \A i \in 1..HeaderSize + h.len : f[o + i] = [h EXCEPT !.at = i]
<1>4. Header /\ Payload <=> All
  <2>1. ASSUME All PROVE Header /\ Payload
    <3>1. \A i \in 1..HeaderSize : i \in 1..HeaderSize + h.len
      BY <1>1, <1>3
    <3>2. \A i \in 1..h.len : HeaderSize + i \in 1..HeaderSize + h.len /\ o + (HeaderSize + i) = o + HeaderSize + i
      BY <1>1, <1>3
    <3>3. Header
      BY Zenon, <2>1, <3>1
    <3>4. Payload
      <4> SUFFICES ASSUME NEW i \in 1..h.len PROVE f[o + HeaderSize + i] = [h EXCEPT !.at = HeaderSize + i]
        OBVIOUS
      <4>1. f[o + (HeaderSize + i)] = [h EXCEPT !.at = HeaderSize + i]
        BY Zenon, <2>1, <3>2
      <4> QED BY Zenon, <4>1, <3>2
    <3> QED BY Zenon, <3>3, <3>4
  <2>2. ASSUME Header, Payload PROVE All
    <3> SUFFICES ASSUME NEW i \in 1..HeaderSize + h.len PROVE f[o + i] = [h EXCEPT !.at = i]
      OBVIOUS
    <3>1. CASE i <= HeaderSize
      <4>1. i \in 1..HeaderSize
        BY <3>1, <1>1, <1>3
      <4> QED BY Zenon, <4>1, <2>2
    <3>2. CASE ~ (i <= HeaderSize)
      <4> DEFINE j == i - HeaderSize
      <4>1. j \in 1..h.len /\ o + HeaderSize + j = o + i /\ HeaderSize + j = i
        BY <3>2, <1>1, <1>3
      <4> HIDE DEF j
      <4>2. f[o + HeaderSize + j] = [h EXCEPT !.at = HeaderSize + j]
        BY Zenon, <4>1, <2>2
      <4> QED BY Zenon, <4>1, <4>2
    <3> QED BY Zenon, <3>1, <3>2
  <2> QED BY Zenon, <2>1, <2>2
<1>5. Payload => [i \in 1..h.len |-> Content(f[o + HeaderSize + i])] = [i \in 1..h.len |-> <<h.rec, h.off + i>>]
  <2> SUFFICES ASSUME Payload, NEW i \in 1..h.len
               PROVE  Content(f[o + HeaderSize + i]) = <<h.rec, h.off + i>>
    OBVIOUS
  <2>1. f[o + HeaderSize + i] = [h EXCEPT !.at = HeaderSize + i] /\ HeaderSize + i \in Nat
    BY <1>1, <1>3
  <2>2. f[o + HeaderSize + i].rec = h.rec /\ f[o + HeaderSize + i].off = h.off /\ f[o + HeaderSize + i].at = HeaderSize + i
    BY <2>1, <1>3, ByteExcept
  <2>3. h.off + (HeaderSize + i) - HeaderSize = h.off + i
    BY <1>1, <1>3
  <2> QED BY Zenon, <2>2, <2>3 DEF Content
<1>6. o + HeaderSize + h.len <= Len(f) /\ h.kind # "zero" /\ All <=> FragmentAt(f, o)
  BY Zenon DEF FragmentAt
<1>7. Parse(f, o, avail) =
         IF h.kind # "zero" /\ Header /\ h.len <= avail /\ o + HeaderSize + h.len <= Len(f) /\ Payload
         THEN Result(h.kind, [i \in 1..h.len |-> Content(f[o + HeaderSize + i])])
         ELSE Result("bad", <<>>)
  BY Zenon DEF Parse
<1> HIDE DEF h, Header, Payload, All
<1>8. CASE FragmentAt(f, o) /\ h.len <= avail
  <2>1. h.kind # "zero" /\ Header /\ h.len <= avail /\ o + HeaderSize + h.len <= Len(f) /\ Payload
    BY Zenon, <1>8, <1>4, <1>6
  <2> QED BY Zenon, <2>1, <1>8, <1>5, <1>7 DEF h
<1>9. CASE ~ (FragmentAt(f, o) /\ h.len <= avail)
  <2>1. ~ (h.kind # "zero" /\ Header /\ h.len <= avail /\ o + HeaderSize + h.len <= Len(f) /\ Payload)
    BY Zenon, <1>9, <1>4, <1>6
  <2> QED BY Zenon, <2>1, <1>9, <1>7 DEF h
<1> QED BY Zenon, <1>8, <1>9 DEF h

----------------------------------------------------------------------------
(* Where the readers look. *)

(* The sizes of block and header. *)
LEMMA Sizes == HeaderSize \in Nat \ {0} /\ BlockSize \in Nat \ {0} /\ HeaderSize < BlockSize
BY LogAssumption

(* A reader skips less than a header and lands where a header fits the block. *)
LEMMA SkipPlace ==
  ASSUME NEW p \in Nat
  PROVE  /\ Skip(p) \in Nat /\ p <= Skip(p) /\ Skip(p) < p + HeaderSize
         /\ (Skip(p) % BlockSize) + HeaderSize <= BlockSize
<1> DEFINE o == p % BlockSize
           leftover == BlockSize - o
<1>1. o \in 0..BlockSize - 1
  BY Sizes, ModRange
<1>2. Skip(p) = IF leftover < HeaderSize THEN p + leftover ELSE p
  BY Zenon DEF Skip
<1>3. CASE leftover < HeaderSize
  <2>1. Skip(p) = p + leftover
    BY Zenon, <1>2, <1>3
  <2>2. leftover \in Nat /\ o + leftover = BlockSize
    BY <1>1, Sizes
  <2>3. (p + leftover) % BlockSize = 0
    BY Zenon, <2>2, Sizes, ModWrap
  <2> HIDE DEF leftover, o
  <2> QED BY <2>1, <2>2, <2>3, <1>3, Sizes
<1>4. CASE ~ (leftover < HeaderSize)
  <2>1. Skip(p) = p
    BY Zenon, <1>2, <1>4
  <2>2. o + HeaderSize <= BlockSize
    BY <1>1, <1>4, Sizes
  <2>3. (Skip(p) % BlockSize) + HeaderSize <= BlockSize
    BY Zenon, <2>1, <2>2
  <2> HIDE DEF leftover, o
  <2> QED BY <2>1, <2>3, Sizes
<1> QED BY Zenon, <1>3, <1>4

(* c and d are places from which the readers go on alike. *)
SamePlace(c, d) ==
    /\ SeqPhysical(c) = MemPhysical(d)
    /\ MemPhysical(d).kind # "none" =>
          /\ c.block > 0 /\ d = (c.block - 1) * BlockSize + c.off
          /\ c.off + HeaderSize <= BlockSize /\ d % BlockSize = c.off

----------------------------------------------------------------------------
(* read_record's loop, one fragment at a time. *)

Found == [kind : Kinds \cup {"bad", "none"}, data : Data]

(* read_record goes on with a fragment of this kind. *)
Accepts(in_fragmented, kind) ==
    IF in_fragmented THEN kind \in {"middle", "last"} ELSE kind \in {"full", "first"}

(* The types of what a reader gathers. *)
LEMMA DataTypes ==
  ASSUME NEW r \in Reader, NEW p \in Found
  PROVE  /\ r.out \in Seq(Data) /\ r.scratch \in Data /\ p.data \in Data
         /\ r.scratch \o p.data \in Data /\ <<>> \in Data
         /\ Append(r.out, p.data) \in Seq(Data) /\ Append(r.out, r.scratch \o p.data) \in Seq(Data)
<1>1. r.out \in Seq(Data) /\ r.scratch \in Data /\ p.data \in Data
  BY DEF Reader, Found
<1>2. r.scratch \o p.data \in Data /\ <<>> \in Data
  BY <1>1, SeqConcat, SeqEmpty DEF Data
<1> HIDE DEF Data
<1> QED BY <1>1, <1>2, SeqAppend

(* The fragment the reader in memory finds at d. *)
LEMMA PhysicalFound ==
  ASSUME file \in Seq(Byte), NEW d \in Nat, (d % BlockSize) + HeaderSize <= BlockSize
  PROVE  LET p == MemPhysical(d)
             there == FragmentAt(file, d) /\ file[d + 1].len <= BlockSize - (d % BlockSize) - HeaderSize
         IN  /\ p \in Found
             /\ p.kind = "none" <=> d + HeaderSize > Len(file)
             /\ p.kind \in Kinds <=> there
             /\ there => /\ p.kind = file[d + 1].kind
                         /\ p.data = [i \in 1..file[d + 1].len |-> <<file[d + 1].rec, file[d + 1].off + i>>]
                         /\ Len(p.data) = file[d + 1].len
             /\ ~there => p.data = <<>>
<1> DEFINE p == MemPhysical(d)
           avail == BlockSize - (d % BlockSize) - HeaderSize
           h == file[d + 1]
           there == FragmentAt(file, d) /\ h.len <= avail
           content == [i \in 1..h.len |-> <<h.rec, h.off + i>>]
<1>1. Len(file) \in Nat /\ d % BlockSize \in Nat /\ avail \in Int
  BY SeqLen, ModRange, Sizes
<1>2. <<>> \in Data
  BY SeqEmpty DEF Data
<1>3. CASE d + HeaderSize > Len(file)
  <2>1. p = Result("none", <<>>)
    BY Zenon, <1>3 DEF MemPhysical
  <2>2. ~ FragmentAt(file, d)
    BY <1>1, <1>3, Sizes DEF FragmentAt
  <2>3. p.kind = "none" /\ p.data = <<>> /\ p \in Found /\ p.kind \notin Kinds
    BY <2>1, <1>2 DEF Result, Found, Kinds
  <2> QED BY Zenon, <1>3, <2>2, <2>3
<1>4. CASE ~ (d + HeaderSize > Len(file))
  <2>1. d + HeaderSize <= Len(file)
    BY <1>1, <1>4, Sizes
  <2>2. p = Parse(file, d, avail)
    BY Zenon, <1>4 DEF MemPhysical
  <2>3. Parse(file, d, avail) = IF there THEN Result(h.kind, content) ELSE Result("bad", <<>>)
    BY Zenon, <1>1, <2>1, ParseResult
  <2>4. CASE there
    <3>1. h \in Byte /\ h.kind # "zero"
      BY <2>4, FragmentBytes DEF FragmentAt
    <3>2. h.kind \in Kinds /\ h.len \in Nat /\ h.rec \in Nat /\ h.off \in Nat
      BY <3>1, ByteFields
    <3> HIDE DEF h
    <3>3. content \in Data /\ Len(content) = h.len
      <4>1. content \in [1..h.len -> Nat \X Nat]
        BY <3>2
      <4> HIDE DEF content
      <4> QED BY Zenon, <4>1, <3>2, FunctionIsSeq DEF Data
    <3>4. p = Result(h.kind, content)
      BY Zenon, <2>2, <2>3, <2>4
    <3> HIDE DEF content
    <3>5. p.kind = h.kind /\ p.data = content /\ p \in Found /\ h.kind # "none"
      BY <3>2, <3>3, <3>4 DEF Result, Found, Kinds
    <3> QED BY Zenon, <3>2, <3>3, <3>5, <2>4, <1>4 DEF h, content
  <2>5. CASE ~ there
    <3>1. p = Result("bad", <<>>)
      BY Zenon, <2>2, <2>3, <2>5
    <3>2. p.kind = "bad" /\ p.data = <<>> /\ p \in Found /\ p.kind \notin Kinds /\ p.kind # "none"
      BY <3>1, <1>2 DEF Result, Found, Kinds
    <3> QED BY Zenon, <3>2, <2>5, <1>4
  <2> QED BY Zenon, <2>4, <2>5
<1> QED BY Zenon, <1>3, <1>4

(* The reader r has become a by the fragment p, which ends at off. *)
MovedTo(r, p, a, off) ==
    /\ a \in Reader /\ a.off = off
    /\ a.end = IF Accepts(r.in_fragmented, p.kind) THEN "reading"
               ELSE IF p.kind = "none" /\ ~r.in_fragmented THEN "eof" ELSE "corrupt"
    /\ a.out = IF Accepts(r.in_fragmented, p.kind) /\ p.kind = "full" THEN Append(r.out, p.data)
               ELSE IF Accepts(r.in_fragmented, p.kind) /\ p.kind = "last"
                    THEN Append(r.out, r.scratch \o p.data) ELSE r.out
    /\ a.scratch = IF Accepts(r.in_fragmented, p.kind) /\ p.kind = "first" THEN p.data
                   ELSE IF Accepts(r.in_fragmented, p.kind) /\ p.kind = "middle" THEN r.scratch \o p.data
                   ELSE IF Accepts(r.in_fragmented, p.kind) /\ p.kind = "last" THEN <<>> ELSE r.scratch
    /\ a.in_fragmented = IF Accepts(r.in_fragmented, p.kind) THEN p.kind \in {"first", "middle"}
                         ELSE r.in_fragmented

(* One step of the two readers: what the reader in memory does, and that   *)
(* the other stays beside it.                                              *)
LEMMA ReadMoves ==
  TypeOK /\ Agree /\ Read =>
    LET d == Skip(memr.off)
        p == MemPhysical(d)
    IN  /\ memr.end = "reading" /\ p \in Found
        /\ MovedTo(memr, p, memr', d + HeaderSize + Len(p.data))
        /\ seqr' \in Reader /\ Agree'
<1>1. ASSUME NEW r PROVE MemCursor(r) = Skip(r.off)
  BY Zenon, <1>1 DEF MemCursor, Skip
(* The bytes a read of a block gives. *)
<1>2. ASSUME file \in Seq(Byte), NEW n \in Nat \ {0}, NEW base \in Nat, base = (n - 1) * BlockSize
      PROVE  /\ Block(n) \in Seq(Byte)
             /\ Len(Block(n)) = IF base >= Len(file) THEN 0
                                ELSE IF base + BlockSize <= Len(file) THEN BlockSize ELSE Len(file) - base
             /\ \A i \in 1..Len(Block(n)) : base + i \in 1..Len(file) /\ Block(n)[i] = file[base + i]
  <2> USE <1>2
  <2>1. Len(file) \in Nat /\ BlockSize \in Nat \ {0}
    BY SeqLen, Sizes
  <2>2. n * BlockSize = base + BlockSize
    BY <2>1
  <2> DEFINE top == Min({n * BlockSize, Len(file)})
  <2>3. top = IF base + BlockSize <= Len(file) THEN base + BlockSize ELSE Len(file)
    BY <2>1, <2>2, MinTwo
  <2>4. Block(n) = SubSeq(file, base + 1, top)
    BY Zenon, <2>1 DEF Block
  <2> HIDE DEF top
  <2>5. top \in Nat /\ base + 1 \in Int /\ top <= Len(file)
    BY <2>3, <2>1
  <2>6. \A i \in base + 1 .. top : file[i] \in Byte
    BY <2>5, <2>1, ByteAt
  <2>7. /\ SubSeq(file, base + 1, top) \in Seq(Byte)
        /\ Len(SubSeq(file, base + 1, top)) = IF base + 1 <= top THEN top - (base + 1) + 1 ELSE 0
        /\ \A i \in 1 .. top - (base + 1) + 1 : SubSeq(file, base + 1, top)[i] = file[base + 1 + i - 1]
    BY <2>5, <2>6, SeqCut
  <2>8. Len(Block(n)) = IF base >= Len(file) THEN 0
                        ELSE IF base + BlockSize <= Len(file) THEN BlockSize ELSE Len(file) - base
    <3>1. Len(Block(n)) = IF base + 1 <= top THEN top - (base + 1) + 1 ELSE 0
      BY Zenon, <2>4, <2>7
    <3>2. \A L, B, t \in Nat :
             t = (IF base + B <= L THEN base + B ELSE L) /\ B # 0 =>
               (IF base + 1 <= t THEN t - (base + 1) + 1 ELSE 0) =
               (IF base >= L THEN 0 ELSE IF base + B <= L THEN B ELSE L - base)
      <4>1. base \in Nat
        OBVIOUS
      <4> QED BY <4>1
    <3> QED BY Zenon, <3>1, <3>2, <2>1, <2>3, <2>5
  <2>9. ASSUME NEW i \in 1..Len(Block(n))
        PROVE  base + i \in 1..Len(file) /\ Block(n)[i] = file[base + i]
    <3>1. i \in 1..(IF base + 1 <= top THEN top - (base + 1) + 1 ELSE 0)
      BY Zenon, <2>4, <2>7
    <3>2. PICK L \in Nat, t \in Nat : L = Len(file) /\ t = top /\ t <= L
      BY Zenon, <2>1, <2>5
    <3>3. i \in 1..(IF base + 1 <= t THEN t - (base + 1) + 1 ELSE 0)
      BY Zenon, <3>1, <3>2
    <3>4. i \in 1..t - (base + 1) + 1 /\ base + 1 + i - 1 = base + i /\ base + i \in 1..L
      BY <3>2, <3>3
    <3> QED BY Zenon, <3>2, <3>4, <2>4, <2>7
  <2> QED BY Zenon, <2>4, <2>7, <2>8, <2>9
(* The same bytes read from the file and from the block. *)
<1>3. ASSUME file \in Seq(Byte), NEW n \in Nat \ {0}, NEW base \in Nat, base = (n - 1) * BlockSize,
             NEW o \in Nat, o + HeaderSize <= Len(Block(n))
      PROVE  /\ Parse(Block(n), o, BlockSize - o - HeaderSize) = Parse(file, base + o, BlockSize - o - HeaderSize)
             /\ base + o + HeaderSize <= Len(file)
  <2> USE <1>3
  <2> DEFINE g == Block(n)
             avail == BlockSize - o - HeaderSize
  <2>1. /\ g \in Seq(Byte)
        /\ Len(g) = IF base >= Len(file) THEN 0
                    ELSE IF base + BlockSize <= Len(file) THEN BlockSize ELSE Len(file) - base
        /\ \A i \in 1..Len(g) : base + i \in 1..Len(file) /\ g[i] = file[base + i]
    BY Zenon, <1>2
  <2>2. Len(file) \in Nat /\ Len(g) \in Nat
    BY <2>1, SeqLen
  <2>3. avail \in Int /\ base + o \in Nat
    BY Sizes
  <2> HIDE DEF g
  <2>4. base + o + HeaderSize <= Len(file) /\ o + HeaderSize <= Len(g)
    BY <2>1, <2>2, Sizes DEF g
  <2>5. o + 1 \in 1..Len(g) /\ base + (o + 1) = (base + o) + 1
    BY <2>4, <2>2, Sizes
  <2>6. g[o + 1] = file[(base + o) + 1] /\ g[o + 1] \in Byte
    BY Zenon, <2>1, <2>5, ByteAt
  <2>7. PICK l \in Nat : l = g[o + 1].len
    BY Zenon, <2>6, ByteFields
  <2>8. l <= avail => (o + HeaderSize + l <= Len(g) <=> base + o + HeaderSize + l <= Len(file))
    BY <2>1, <2>2, Sizes
  <2>9. ASSUME o + HeaderSize + l <= Len(g), NEW i \in 1..HeaderSize + l
        PROVE  g[o + i] = file[(base + o) + i]
    <3>1. o + i \in 1..Len(g) /\ base + (o + i) = (base + o) + i
      BY <2>9, <2>2, Sizes
    <3> QED BY Zenon, <3>1, <2>1
  <2>10. l <= avail => (FragmentAt(g, o) <=> FragmentAt(file, base + o))
    <3> SUFFICES ASSUME l <= avail PROVE FragmentAt(g, o) <=> FragmentAt(file, base + o)
      OBVIOUS
    <3>1. ASSUME FragmentAt(g, o) PROVE FragmentAt(file, base + o)
      <4>1. o + HeaderSize + l <= Len(g) /\ base + o + HeaderSize + l <= Len(file)
        BY Zenon, <3>1, <2>7, <2>8 DEF FragmentAt
      <4>2. \A i \in 1..HeaderSize + l : file[(base + o) + i] = [file[(base + o) + 1] EXCEPT !.at = i]
        BY Zenon, <3>1, <2>6, <2>7, <2>9, <4>1 DEF FragmentAt
      <4>3. file[(base + o) + 1].kind # "zero" /\ l = file[(base + o) + 1].len
        BY Zenon, <3>1, <2>6, <2>7 DEF FragmentAt
      <4> QED BY Zenon, <4>1, <4>2, <4>3, <2>4 DEF FragmentAt
    <3>2. ASSUME FragmentAt(file, base + o) PROVE FragmentAt(g, o)
      <4>1. o + HeaderSize + l <= Len(g) /\ base + o + HeaderSize + l <= Len(file)
        BY Zenon, <3>2, <2>6, <2>7, <2>8 DEF FragmentAt
      <4>2. \A i \in 1..HeaderSize + l : g[o + i] = [g[o + 1] EXCEPT !.at = i]
        BY Zenon, <3>2, <2>6, <2>7, <2>9, <4>1 DEF FragmentAt
      <4>3. g[o + 1].kind # "zero"
        BY Zenon, <3>2, <2>6 DEF FragmentAt
      <4> QED BY Zenon, <4>1, <4>2, <4>3, <2>4, <2>7 DEF FragmentAt
    <3> QED BY Zenon, <3>1, <3>2
  <2>11. Parse(g, o, avail) =
            IF FragmentAt(g, o) /\ g[o + 1].len <= avail
            THEN Result(g[o + 1].kind, [i \in 1..g[o + 1].len |-> <<g[o + 1].rec, g[o + 1].off + i>>])
            ELSE Result("bad", <<>>)
    BY Zenon, ParseResult, <2>1, <2>3, <2>4
  <2>12. Parse(file, base + o, avail) =
            IF FragmentAt(file, base + o) /\ file[(base + o) + 1].len <= avail
            THEN Result(file[(base + o) + 1].kind,
                        [i \in 1..file[(base + o) + 1].len |-> <<file[(base + o) + 1].rec, file[(base + o) + 1].off + i>>])
            ELSE Result("bad", <<>>)
    BY Zenon, ParseResult, <2>3, <2>4
  <2> HIDE DEF avail
  <2>13. Parse(g, o, avail) = Parse(file, base + o, avail)
    <3>1. CASE l <= avail
      BY Zenon, <3>1, <2>6, <2>7, <2>10, <2>11, <2>12
    <3>2. CASE ~ (l <= avail)
      BY Zenon, <3>2, <2>6, <2>7, <2>11, <2>12
    <3> QED BY Zenon, <3>1, <3>2
  <2> QED BY Zenon, <2>13, <2>4 DEF g, avail
(* The place behind the first b + o bytes, b of them whole blocks and n the *)
(* bytes of the block after those.                                         *)
<1>4. ASSUME NEW b \in Nat, b % BlockSize = 0, NEW o \in Nat, o <= BlockSize, NEW L \in Nat, b + o <= L,
             NEW n, n = IF b >= L THEN 0 ELSE IF b + BlockSize <= L THEN BlockSize ELSE L - b
      PROVE  /\ n \in Nat /\ o <= n /\ n <= BlockSize
             /\ n - o >= HeaderSize => Skip(b + o) = b + o
             /\ n - o < HeaderSize /\ n = BlockSize => Skip(b + o) = b + BlockSize
             /\ n - o < HeaderSize /\ n # BlockSize => n = L - b /\ L < b + o + HeaderSize
  <2> USE <1>4
  <2>1. n \in Nat /\ o <= n /\ n <= BlockSize
    BY Sizes
  <2>2. ASSUME o < BlockSize PROVE (b + o) % BlockSize = o
    <3>1. (b % BlockSize) + o < BlockSize
      BY <2>2, Sizes
    <3>2. (b + o) % BlockSize = (b % BlockSize) + o
      BY Zenon, <3>1, Sizes, ModSame
    <3> QED BY <3>2
  <2>3. (b + BlockSize) % BlockSize = 0
    <3>1. (b % BlockSize) + BlockSize = BlockSize
      BY Sizes
    <3> QED BY Zenon, <3>1, Sizes, ModWrap
  <2>4. ASSUME n - o >= HeaderSize PROVE Skip(b + o) = b + o
    <3>1. o < BlockSize /\ ~ (BlockSize - o < HeaderSize)
      BY <2>1, <2>4, Sizes
    <3> QED BY Zenon, <3>1, <2>2 DEF Skip
  <2>5. ASSUME n - o < HeaderSize, n = BlockSize PROVE Skip(b + o) = b + BlockSize
    <3>1. CASE o = BlockSize
      <4>1. ~ (BlockSize - 0 < HeaderSize)
        BY Sizes
      <4> QED BY Zenon, <4>1, <3>1, <2>3 DEF Skip
    <3>2. CASE o # BlockSize
      <4>1. o < BlockSize /\ BlockSize - o < HeaderSize
        BY <3>2, <2>1, <2>5, Sizes
      <4>2. Skip(b + o) = (b + o) + (BlockSize - o)
        BY Zenon, <4>1, <2>2 DEF Skip
      <4> QED BY <4>2, Sizes
    <3> QED BY Zenon, <3>1, <3>2
  <2>6. ASSUME n - o < HeaderSize, n # BlockSize PROVE n = L - b /\ L < b + o + HeaderSize
    BY <2>1, <2>6, Sizes
  <2> QED BY Zenon, <2>1, <2>4, <2>5, <2>6
(* Fragments at the same place of the file, seen through block m. *)
<1>5. ASSUME file \in Seq(Byte), NEW m \in Nat \ {0}, NEW o \in Nat, NEW b \in Nat, b = (m - 1) * BlockSize,
             o + HeaderSize <= Len(Block(m)), NEW c, c.block = m, c.off = o
      PROVE  /\ SeqPhysical(c) = MemPhysical(b + o)
             /\ o + HeaderSize <= BlockSize /\ (b + o) % BlockSize = o
  <2> USE <1>5
  <2>1. Len(file) \in Nat
    BY SeqLen
  <2>2. /\ Block(m) \in Seq(Byte)
        /\ Len(Block(m)) = IF b >= Len(file) THEN 0 ELSE IF b + BlockSize <= Len(file) THEN BlockSize ELSE Len(file) - b
    BY Zenon, <1>2
  <2>3. Len(Block(m)) \in Nat
    BY <2>2, SeqLen
  <2>4. Len(Block(m)) <= BlockSize
    BY <2>2, <2>1, Sizes
  <2>5. o + HeaderSize <= BlockSize
    BY <2>3, <2>4, Sizes
  <2>6. b % BlockSize = 0
    <3>1. m - 1 \in Nat
      OBVIOUS
    <3> QED BY <3>1, Sizes, ModMul
  <2>7. (b + o) % BlockSize = o
    <3>1. (b % BlockSize) + o < BlockSize
      BY <2>5, <2>6, Sizes
    <3>2. (b + o) % BlockSize = (b % BlockSize) + o
      BY Zenon, <3>1, Sizes, ModSame
    <3> QED BY <3>2, <2>6
  <2>8. /\ Parse(Block(m), o, BlockSize - o - HeaderSize) = Parse(file, b + o, BlockSize - o - HeaderSize)
        /\ b + o + HeaderSize <= Len(file)
    BY Zenon, <1>3
  <2>9. ~ (b + o + HeaderSize > Len(file)) /\ ~ (Len(Block(m)) - o < HeaderSize)
    BY <2>8, <2>1, <2>3, Sizes
  <2>10. SeqPhysical(c) = Parse(Block(m), o, BlockSize - o - HeaderSize)
    BY Zenon, <2>9 DEF SeqPhysical
  <2>11. MemPhysical(b + o) = Parse(file, b + o, BlockSize - o - HeaderSize)
    BY Zenon, <2>7, <2>9 DEF MemPhysical
  <2> QED BY Zenon, <2>5, <2>7, <2>8, <2>10, <2>11
(* From block m on: a fragment both see, or the end of the file for both. *)
<1>6. ASSUME file \in Seq(Byte), NEW m \in Nat \ {0}, NEW o \in Nat, NEW b \in Nat, b = (m - 1) * BlockSize,
             NEW c, c.block = m, c.off = o, o = 0 \/ o + HeaderSize <= Len(Block(m))
      PROVE  SamePlace(c, b + o)
  <2> USE <1>6
  <2>1. CASE o + HeaderSize <= Len(Block(m))
    <3>1. /\ SeqPhysical(c) = MemPhysical(b + o)
          /\ o + HeaderSize <= BlockSize /\ (b + o) % BlockSize = o
      BY <2>1, <1>5
    <3>2. m > 0
      OBVIOUS
    <3> QED BY Zenon, <3>1, <3>2 DEF SamePlace
  <2>2. CASE ~ (o + HeaderSize <= Len(Block(m)))
    <3>1. Len(file) \in Nat
      BY SeqLen
    <3>2. /\ Block(m) \in Seq(Byte)
          /\ Len(Block(m)) = IF b >= Len(file) THEN 0
                             ELSE IF b + BlockSize <= Len(file) THEN BlockSize ELSE Len(file) - b
      BY Zenon, <1>2
    <3>3. Len(Block(m)) \in Nat /\ o = 0
      BY <3>2, <2>2, SeqLen
    <3>4. Len(Block(m)) - o < HeaderSize
      BY <3>3, <2>2, Sizes
    <3>5. b + o + HeaderSize > Len(file)
      BY <3>1, <3>2, <3>3, <2>2, Sizes
    <3>6. SeqPhysical(c) = Result("none", <<>>)
      BY Zenon, <3>4 DEF SeqPhysical
    <3>7. MemPhysical(b + o) = Result("none", <<>>)
      BY Zenon, <3>5 DEF MemPhysical
    <3>8. Result("none", <<>>).kind = "none"
      BY DEF Result
    <3> QED BY Zenon, <3>6, <3>7, <3>8 DEF SamePlace
  <2> QED BY Zenon, <2>1, <2>2
(* Too few bytes are left for a header. *)
<1>7. ASSUME NEW c, NEW d, Len(Block(c.block)) - c.off < HeaderSize, d + HeaderSize > Len(file)
      PROVE  SamePlace(c, d)
  <2> USE <1>7
  <2>1. SeqPhysical(c) = Result("none", <<>>)
    BY Zenon DEF SeqPhysical
  <2>2. MemPhysical(d) = Result("none", <<>>)
    BY Zenon DEF MemPhysical
  <2>3. Result("none", <<>>).kind = "none"
    BY DEF Result
  <2> QED BY Zenon, <2>1, <2>2, <2>3 DEF SamePlace
(* Both readers take the same fragment next, or find none. *)
<1>8. ASSUME TypeOK, Agree, seqr.end = "reading"
      PROVE  /\ SamePlace(SeqCursor(seqr), MemCursor(memr))
             /\ MemCursor(memr) \in Nat /\ SeqCursor(seqr).block \in Nat /\ SeqCursor(seqr).off \in Nat
  <2> USE <1>8
  <2> DEFINE c == SeqCursor(seqr)
             k == seqr.block
             o == seqr.off
             n == Len(Block(k))
             L == Len(file)
  <2>1. /\ L \in Nat /\ file \in Seq(Byte) /\ memr.off \in Nat /\ memr.off <= L /\ k \in Nat /\ o \in Nat
    BY SeqLen DEF TypeOK, Agree, Reader
  <2>2. MemCursor(memr) = Skip(memr.off) /\ Skip(memr.off) \in Nat /\ memr.off <= Skip(memr.off)
    BY Zenon, <2>1, SkipPlace, <1>1
  <2>3. c = IF n - o < HeaderSize /\ (n = BlockSize \/ o >= n)
            THEN [block |-> k + 1, off |-> 0] ELSE [block |-> k, off |-> o]
    BY Zenon DEF SeqCursor
  <2>4. IF n - o < HeaderSize /\ (n = BlockSize \/ o >= n)
        THEN c.block = k + 1 /\ c.off = 0 ELSE c.block = k /\ c.off = o
    BY <2>3
  <2>5. c.block \in Nat /\ c.off \in Nat
    BY <2>4, <2>1
  <2> SUFFICES SamePlace(c, Skip(memr.off))
    BY Zenon, <2>2, <2>5
  <2> HIDE DEF c
  <2>6. CASE k = 0
    <3>1. o = 0 /\ memr.off = 0
      BY Zenon, <2>6 DEF Agree
    <3>2. n = 0
      BY <2>6 DEF Block
    <3>3. n - o < HeaderSize /\ o >= n
      BY <3>1, <3>2, Sizes
    <3>4. c.block = 0 + 1 /\ c.off = 0
      BY Zenon, <2>4, <2>6, <3>3
    <3>5. Skip(0) = 0
      <4>1. BlockSize - (0 % BlockSize) = BlockSize
        BY Sizes
      <4> QED BY <4>1, Sizes DEF Skip
    <3>6. 0 + 1 \in Nat \ {0} /\ 0 \in Nat /\ 0 = ((0 + 1) - 1) * BlockSize /\ 0 + 0 = 0
      BY Sizes
    <3>7. SamePlace(c, 0 + 0)
      BY Zenon, <2>1, <3>4, <3>6, <1>6
    <3> QED BY Zenon, <3>1, <3>5, <3>6, <3>7
  <2>7. CASE k # 0
    <3>1. PICK b \in Nat : b = (k - 1) * BlockSize
      <4>1. k - 1 \in Nat
        BY <2>1, <2>7
      <4> QED BY <4>1, Sizes
    <3>2. k > 0 /\ k \in Nat \ {0} /\ k - 1 \in Nat
      BY <2>1, <2>7
    <3>3. o <= BlockSize /\ memr.off = b + o
      BY Zenon, <3>1, <3>2 DEF Agree
    <3>4. b % BlockSize = 0
      BY <3>1, <3>2, Sizes, ModMul
    <3>5. n = IF b >= L THEN 0 ELSE IF b + BlockSize <= L THEN BlockSize ELSE L - b
      BY Zenon, <2>1, <3>1, <3>2, <1>2
    <3>6. b + o <= L
      BY Zenon, <2>1, <3>3
    <3>7. /\ n \in Nat /\ o <= n /\ n <= BlockSize
          /\ n - o >= HeaderSize => Skip(b + o) = b + o
          /\ n - o < HeaderSize /\ n = BlockSize => Skip(b + o) = b + BlockSize
          /\ n - o < HeaderSize /\ n # BlockSize => n = L - b /\ L < b + o + HeaderSize
      BY <2>1, <3>3, <3>4, <3>5, <3>6, <1>4
    <3>8. /\ b + BlockSize \in Nat /\ b + BlockSize = ((k + 1) - 1) * BlockSize
          /\ (b + BlockSize) + 0 = b + BlockSize /\ k + 1 \in Nat \ {0} /\ 0 \in Nat
      <4>1. (k - 1) * BlockSize + BlockSize = ((k + 1) - 1) * BlockSize
        BY <3>2, Sizes
      <4> QED BY <4>1, <3>1, <3>2, Sizes
    <3>9. CASE n - o >= HeaderSize
      <4>1. ~ (n - o < HeaderSize) /\ o + HeaderSize <= n
        BY <3>7, <3>9, <2>1, Sizes
      <4>2. c.block = k /\ c.off = o
        BY Zenon, <4>1, <2>4
      <4>3. SamePlace(c, b + o)
        BY Zenon, <4>1, <4>2, <3>1, <3>2, <2>1, <1>6
      <4> QED BY Zenon, <4>3, <3>3, <3>7, <3>9
    <3>10. CASE n - o < HeaderSize /\ n = BlockSize
      <4>1. c.block = k + 1 /\ c.off = 0
        BY Zenon, <3>10, <2>4
      <4>2. SamePlace(c, (b + BlockSize) + 0)
        BY Zenon, <4>1, <3>8, <2>1, <1>6
      <4> QED BY Zenon, <4>2, <3>3, <3>7, <3>8, <3>10
    <3>11. CASE n - o < HeaderSize /\ n # BlockSize
      <4>1. n = L - b /\ L < b + o + HeaderSize
        BY Zenon, <3>7, <3>11
      <4>2. Skip(memr.off) + HeaderSize > L
        BY <4>1, <3>3, <2>1, <2>2, Sizes
      <4>3. Len(Block(c.block)) - c.off < HeaderSize
        <5>1. CASE o >= n
          <6>1. c.block = k + 1 /\ c.off = 0
            BY Zenon, <5>1, <3>11, <2>4
          <6>2. Len(Block(k + 1)) = IF b + BlockSize >= L THEN 0
                                    ELSE IF (b + BlockSize) + BlockSize <= L THEN BlockSize
                                    ELSE L - (b + BlockSize)
            BY Zenon, <3>8, <2>1, <1>2
          <6>3. b + BlockSize >= L
            BY <4>1, <3>7, <2>1, Sizes
          <6>4. Len(Block(k + 1)) = 0
            BY Zenon, <6>2, <6>3
          <6>5. 0 - 0 < HeaderSize
            BY Sizes
          <6> QED BY Zenon, <6>1, <6>4, <6>5
        <5>2. CASE ~ (o >= n)
          BY Zenon, <5>2, <3>11, <2>4
        <5> QED BY Zenon, <5>1, <5>2
      <4> QED BY Zenon, <4>2, <4>3, <1>7
    <3>12. n - o >= HeaderSize \/ n - o < HeaderSize
      BY <3>7, <2>1, Sizes
    <3> QED BY Zenon, <3>9, <3>10, <3>11, <3>12
  <2> QED BY Zenon, <2>6, <2>7
(* What the fragment p does to the reader r. *)
<1>9. ASSUME NEW r \in Reader, NEW p \in Found, p.kind = "none"
      PROVE  Assemble(r, p) = [r EXCEPT !.end = IF r.in_fragmented THEN "corrupt" ELSE "eof"]
  BY <1>9 DEF Assemble
<1>10. ASSUME NEW r \in Reader, NEW p \in Found, p.kind = "full", ~r.in_fragmented
       PROVE  Assemble(r, p) = [r EXCEPT !.out = Append(@, p.data)]
  BY <1>10 DEF Assemble
<1>11. ASSUME NEW r \in Reader, NEW p \in Found, p.kind = "first", ~r.in_fragmented
       PROVE  Assemble(r, p) = [r EXCEPT !.scratch = p.data, !.in_fragmented = TRUE]
  BY <1>11 DEF Assemble
<1>12. ASSUME NEW r \in Reader, NEW p \in Found, p.kind = "middle", r.in_fragmented
       PROVE  Assemble(r, p) = [r EXCEPT !.scratch = @ \o p.data]
  BY <1>12 DEF Assemble
<1>13. ASSUME NEW r \in Reader, NEW p \in Found, p.kind = "last", r.in_fragmented
       PROVE  Assemble(r, p) = [r EXCEPT !.out = Append(@, r.scratch \o p.data),
                                         !.scratch = <<>>, !.in_fragmented = FALSE]
  BY <1>13 DEF Assemble
<1>14. ASSUME NEW r \in Reader, NEW p \in Found,
              \/ p.kind = "bad"
              \/ r.in_fragmented /\ p.kind \in {"full", "first"}
              \/ ~r.in_fragmented /\ p.kind \in {"middle", "last"}
       PROVE  Assemble(r, p) = [r EXCEPT !.end = "corrupt"]
  BY <1>14 DEF Assemble, Reader
<1>15. ASSUME NEW r \in Reader, NEW p \in Found, r.end = "reading"
       PROVE  LET a == Assemble(r, p)
                  goes == Accepts(r.in_fragmented, p.kind)
              IN  /\ a \in Reader /\ a.block = r.block /\ a.off = r.off
                  /\ a.end = IF goes THEN "reading"
                             ELSE IF p.kind = "none" /\ ~r.in_fragmented THEN "eof" ELSE "corrupt"
                  /\ a.out = IF goes /\ p.kind = "full" THEN Append(r.out, p.data)
                             ELSE IF goes /\ p.kind = "last" THEN Append(r.out, r.scratch \o p.data) ELSE r.out
                  /\ a.scratch = IF goes /\ p.kind = "first" THEN p.data
                                 ELSE IF goes /\ p.kind = "middle" THEN r.scratch \o p.data
                                 ELSE IF goes /\ p.kind = "last" THEN <<>> ELSE r.scratch
                  /\ a.in_fragmented = IF goes THEN p.kind \in {"first", "middle"} ELSE r.in_fragmented
  <2> USE <1>15
  <2>1. /\ r.out \in Seq(Data) /\ r.scratch \in Data /\ p.data \in Data
        /\ r.scratch \o p.data \in Data /\ <<>> \in Data
        /\ Append(r.out, p.data) \in Seq(Data) /\ Append(r.out, r.scratch \o p.data) \in Seq(Data)
    BY DataTypes
  <2>2. r.in_fragmented \in BOOLEAN /\ p.kind \in {"full", "first", "middle", "last", "bad", "none"}
    BY DEF Reader, Found, Kinds
  <2>3. CASE p.kind = "none"
    <3>1. ~ Accepts(r.in_fragmented, p.kind)
      BY <2>3 DEF Accepts
    <3> QED BY <2>1, <2>2, <2>3, <3>1, <1>9 DEF Reader
  <2>4. CASE p.kind = "full" /\ ~r.in_fragmented
    <3>1. Accepts(r.in_fragmented, p.kind)
      BY <2>4 DEF Accepts
    <3>2. PICK x \in Seq(Data) : x = Append(r.out, p.data)
      BY Zenon, <2>1
    <3>3. Assemble(r, p) = [r EXCEPT !.out = x]
      BY <2>4, <3>2, <1>10
    <3>4. LET a == [r EXCEPT !.out = x]
          IN  /\ a \in Reader /\ a.block = r.block /\ a.off = r.off /\ a.end = "reading"
              /\ a.out = x /\ a.scratch = r.scratch /\ a.in_fragmented = r.in_fragmented
      BY <2>1, <2>2, <2>4 DEF Reader
    <3>5. p.kind \in {"first", "middle"} <=> FALSE
      BY <2>4
    <3> QED BY <2>2, <2>4, <3>1, <3>2, <3>3, <3>4, <3>5
  <2>5. CASE p.kind = "first" /\ ~r.in_fragmented
    <3>1. Accepts(r.in_fragmented, p.kind)
      BY <2>5 DEF Accepts
    <3>2. PICK x \in Data : x = p.data
      BY Zenon, <2>1
    <3>3. Assemble(r, p) = [r EXCEPT !.scratch = x, !.in_fragmented = TRUE]
      BY Zenon, <2>5, <3>2, <1>11
    <3>4. LET a == [r EXCEPT !.scratch = x, !.in_fragmented = TRUE]
          IN  /\ a \in Reader /\ a.block = r.block /\ a.off = r.off /\ a.end = "reading"
              /\ a.out = r.out /\ a.scratch = x /\ a.in_fragmented = TRUE
      BY Zenon, <2>1, <2>2, <2>5 DEF Reader
    <3>5. p.kind \in {"first", "middle"} <=> TRUE
      BY <2>5
    <3> QED BY Zenon, <2>2, <2>5, <3>1, <3>2, <3>3, <3>4, <3>5
  <2>6. CASE p.kind = "middle" /\ r.in_fragmented
    <3>1. Accepts(r.in_fragmented, p.kind)
      BY <2>6 DEF Accepts
    <3>2. PICK x \in Data : x = r.scratch \o p.data
      BY Zenon, <2>1
    <3>3. Assemble(r, p) = [r EXCEPT !.scratch = x]
      BY Zenon, <2>6, <3>2, <1>12
    <3>4. LET a == [r EXCEPT !.scratch = x]
          IN  /\ a \in Reader /\ a.block = r.block /\ a.off = r.off /\ a.end = "reading"
              /\ a.out = r.out /\ a.scratch = x /\ a.in_fragmented = r.in_fragmented
      BY Zenon, <2>1, <2>2, <2>6 DEF Reader
    <3>5. p.kind \in {"first", "middle"} <=> TRUE
      BY <2>6
    <3> QED BY Zenon, <2>2, <2>6, <3>1, <3>2, <3>3, <3>4, <3>5
  <2>7. CASE p.kind = "last" /\ r.in_fragmented
    <3>1. Accepts(r.in_fragmented, p.kind)
      BY <2>7 DEF Accepts
    <3>2. PICK x \in Seq(Data) : x = Append(r.out, r.scratch \o p.data)
      BY Zenon, <2>1
    <3>3. Assemble(r, p) = [r EXCEPT !.out = x, !.scratch = <<>>, !.in_fragmented = FALSE]
      BY Zenon, <2>7, <3>2, <1>13
    <3>4. LET a == [r EXCEPT !.out = x, !.scratch = <<>>, !.in_fragmented = FALSE]
          IN  /\ a \in Reader /\ a.block = r.block /\ a.off = r.off /\ a.end = "reading"
              /\ a.out = x /\ a.scratch = <<>> /\ a.in_fragmented = FALSE
      BY Zenon, <2>1, <2>2, <2>7 DEF Reader
    <3>5. p.kind \in {"first", "middle"} <=> FALSE
      BY <2>7
    <3>6. p.kind # "full" /\ p.kind # "first" /\ p.kind # "middle"
      BY <2>7
    <3>7. Assemble(r, p).in_fragmented = (p.kind \in {"first", "middle"})
      <4>1. Assemble(r, p).in_fragmented = FALSE
        BY Zenon, <3>3, <3>4
      <4>2. (p.kind \in {"first", "middle"}) = FALSE
        BY <2>7
      <4> QED BY Zenon, <4>1, <4>2
    <3> QED BY Zenon, <2>7, <3>1, <3>2, <3>3, <3>4, <3>6, <3>7
  <2>8. CASE \/ p.kind = "bad"
             \/ r.in_fragmented /\ p.kind \in {"full", "first"}
             \/ ~r.in_fragmented /\ p.kind \in {"middle", "last"}
    <3>1. ~ Accepts(r.in_fragmented, p.kind) /\ p.kind # "none"
      BY <2>8 DEF Accepts
    <3> QED BY <2>1, <2>2, <2>8, <3>1, <1>14 DEF Reader
  <2> QED BY Zenon, <2>2, <2>3, <2>4, <2>5, <2>6, <2>7, <2>8
(* Readers that differ in their place only stay alike. *)
<1>16. ASSUME NEW r \in Reader, NEW q \in Reader, NEW p \in Found, r.end = "reading", q.end = "reading",
              r.out = q.out, r.scratch = q.scratch, r.in_fragmented = q.in_fragmented
       PROVE  LET a == Assemble(r, p)
                  b == Assemble(q, p)
              IN  a.end = b.end /\ a.out = b.out /\ a.scratch = b.scratch /\ a.in_fragmented = b.in_fragmented
  <2> USE <1>16
  <2> DEFINE a == Assemble(r, p)
             b == Assemble(q, p)
             goes == Accepts(r.in_fragmented, p.kind)
  <2>1. /\ a.end = IF goes THEN "reading"
                   ELSE IF p.kind = "none" /\ ~r.in_fragmented THEN "eof" ELSE "corrupt"
        /\ a.out = IF goes /\ p.kind = "full" THEN Append(r.out, p.data)
                   ELSE IF goes /\ p.kind = "last" THEN Append(r.out, r.scratch \o p.data) ELSE r.out
        /\ a.scratch = IF goes /\ p.kind = "first" THEN p.data
                       ELSE IF goes /\ p.kind = "middle" THEN r.scratch \o p.data
                       ELSE IF goes /\ p.kind = "last" THEN <<>> ELSE r.scratch
        /\ a.in_fragmented = IF goes THEN p.kind \in {"first", "middle"} ELSE r.in_fragmented
    BY <1>15
  <2>2. /\ b.end = IF goes THEN "reading"
                   ELSE IF p.kind = "none" /\ ~r.in_fragmented THEN "eof" ELSE "corrupt"
        /\ b.out = IF goes /\ p.kind = "full" THEN Append(r.out, p.data)
                   ELSE IF goes /\ p.kind = "last" THEN Append(r.out, r.scratch \o p.data) ELSE r.out
        /\ b.scratch = IF goes /\ p.kind = "first" THEN p.data
                       ELSE IF goes /\ p.kind = "middle" THEN r.scratch \o p.data
                       ELSE IF goes /\ p.kind = "last" THEN <<>> ELSE r.scratch
        /\ b.in_fragmented = IF goes THEN p.kind \in {"first", "middle"} ELSE r.in_fragmented
    BY <1>15
  <2> HIDE DEF a, b, goes
  <2>3. a.end = b.end /\ a.out = b.out
    BY Zenon, <2>1, <2>2
  <2>4. a.scratch = b.scratch
    BY Zenon, <2>1, <2>2
  <2>5. a.in_fragmented = b.in_fragmented
    BY Zenon, <2>1, <2>2
  <2> QED BY Zenon, <2>3, <2>4, <2>5 DEF a, b
<1>17. ASSUME NEW r \in Reader, r.end = "reading", NEW p \in Found, NEW off \in Nat
       PROVE  MovedTo(r, p, Assemble([r EXCEPT !.off = off], p), off)
  <2> USE <1>17
  <2> DEFINE m == [r EXCEPT !.off = off]
  <2>1. m \in Reader /\ m.off = off /\ m.end = "reading" /\ m.out = r.out /\ m.scratch = r.scratch
        /\ m.in_fragmented = r.in_fragmented
    BY DEF Reader
  <2> HIDE DEF m
  <2> DEFINE a == Assemble(m, p)
  <2>2. /\ a \in Reader /\ a.off = m.off
        /\ a.end = IF Accepts(m.in_fragmented, p.kind) THEN "reading"
                   ELSE IF p.kind = "none" /\ ~m.in_fragmented THEN "eof" ELSE "corrupt"
        /\ a.out = IF Accepts(m.in_fragmented, p.kind) /\ p.kind = "full" THEN Append(m.out, p.data)
                   ELSE IF Accepts(m.in_fragmented, p.kind) /\ p.kind = "last"
                        THEN Append(m.out, m.scratch \o p.data) ELSE m.out
        /\ a.scratch = IF Accepts(m.in_fragmented, p.kind) /\ p.kind = "first" THEN p.data
                       ELSE IF Accepts(m.in_fragmented, p.kind) /\ p.kind = "middle" THEN m.scratch \o p.data
                       ELSE IF Accepts(m.in_fragmented, p.kind) /\ p.kind = "last" THEN <<>> ELSE m.scratch
        /\ a.in_fragmented = IF Accepts(m.in_fragmented, p.kind) THEN p.kind \in {"first", "middle"}
                             ELSE m.in_fragmented
    BY <2>1, <1>15
  <2> HIDE DEF a
  <2>3. MovedTo(r, p, a, off)
    BY Zenon, <2>1, <2>2 DEF MovedTo
  <2> QED BY Zenon, <2>3 DEF a, m
<1>18. ASSUME TypeOK, Agree, Read
       PROVE  LET d == Skip(memr.off)
                  p == MemPhysical(d)
              IN  /\ memr.end = "reading" /\ p \in Found
                  /\ MovedTo(memr, p, memr', d + HeaderSize + Len(p.data))
                  /\ seqr' \in Reader /\ Agree'
  <2> USE <1>18
  <2> DEFINE d == Skip(memr.off)
             p == MemPhysical(d)
             c == SeqCursor(seqr)
             off == d + HeaderSize + Len(p.data)
             ofs == c.off + HeaderSize + Len(p.data)
             r == [memr EXCEPT !.off = off]
             q == [seqr EXCEPT !.block = c.block, !.off = ofs]
  <2>1. memr.end = "reading" /\ seqr.end = "reading"
    BY Zenon DEF Read, Agree
  <2>2. file \in Seq(Byte) /\ memr \in Reader /\ seqr \in Reader /\ memr.off \in Nat /\ Len(file) \in Nat
    BY SeqLen DEF TypeOK, Reader
  <2>3. /\ SamePlace(c, MemCursor(memr)) /\ MemCursor(memr) = d
        /\ d \in Nat /\ c.block \in Nat /\ c.off \in Nat
    BY Zenon, <2>1, <1>8, <1>1
  <2>4. (d % BlockSize) + HeaderSize <= BlockSize
    BY Zenon, <2>2, SkipPlace
  <2>5. /\ p \in Found
        /\ p.kind = "none" <=> d + HeaderSize > Len(file)
        /\ p.kind \in Kinds <=> FragmentAt(file, d) /\ file[d + 1].len <= BlockSize - (d % BlockSize) - HeaderSize
        /\ p.kind \in Kinds => Len(p.data) = file[d + 1].len
    BY Zenon, <2>2, <2>3, <2>4, PhysicalFound
  <2>6. SeqPhysical(c) = p
    BY Zenon, <2>3 DEF SamePlace
  <2>7. memr' = Assemble(r, p) /\ seqr' = Assemble(q, p)
    <3>1. memr' = Assemble(r, p)
      BY Zenon, <2>1, <2>3 DEF Read
    <3>2. seqr' = Assemble(q, p)
      BY Zenon, <2>1, <2>6 DEF Read
    <3> QED BY Zenon, <3>1, <3>2
  <2>8. Len(p.data) \in Nat
    <3>1. p.data \in Seq(Nat \X Nat)
      BY <2>5 DEF Found, Data
    <3> QED BY <3>1, SeqLen
  <2> HIDE DEF p, d, c
  <2>20. PICK l \in Nat : l = Len(p.data)
    BY Zenon, <2>8
  <2>21. PICK o \in Nat : o = c.off
    BY Zenon, <2>3
  <2>22. off = d + HeaderSize + l /\ ofs = o + HeaderSize + l
    BY Zenon, <2>20, <2>21
  <2>23. d \in Nat
    BY Zenon, <2>3
  <2> HIDE DEF off, ofs
  <2>9. off \in Nat /\ ofs \in Nat
    BY <2>22, <2>23, Sizes
  <2>10. MovedTo(memr, p, memr', off)
    BY Zenon, <2>1, <2>2, <2>5, <2>7, <2>9, <1>17
  <2>11. /\ r \in Reader /\ r.out = memr.out /\ r.scratch = memr.scratch /\ r.end = "reading"
         /\ r.in_fragmented = memr.in_fragmented
         /\ q \in Reader /\ q.out = seqr.out /\ q.scratch = seqr.scratch /\ q.end = "reading"
         /\ q.in_fragmented = seqr.in_fragmented /\ q.block = c.block /\ q.off = ofs
    BY Zenon, <2>1, <2>2, <2>3, <2>9 DEF Reader
  <2> HIDE DEF r, q
  <2>12. /\ memr'.end = seqr'.end /\ memr'.out = seqr'.out
         /\ memr'.scratch = seqr'.scratch /\ memr'.in_fragmented = seqr'.in_fragmented
    <3>1. r.out = q.out /\ r.scratch = q.scratch /\ r.in_fragmented = q.in_fragmented
      BY Zenon, <2>11 DEF Agree
    <3> QED BY Zenon, <3>1, <2>5, <2>7, <2>11, <1>16
  <2>13. seqr' \in Reader /\ seqr'.block = c.block /\ seqr'.off = ofs
    BY <2>5, <2>7, <2>11, <1>15
  <2>14. memr'.end # "unopened"
    BY <2>10 DEF MovedTo
  <2>15. memr'.off = off
    BY Zenon, <2>10 DEF MovedTo
  <2>16. file' = file
    BY Zenon DEF Read
  <2>17. ASSUME memr'.end = "reading"
         PROVE  /\ off <= Len(file) /\ c.block > 0 /\ ofs <= BlockSize
                /\ off = (c.block - 1) * BlockSize + ofs
    <3>1. p.kind \in Kinds
      BY <2>10, <2>17 DEF MovedTo, Accepts, Kinds
    <3>2. FragmentAt(file, d) /\ file[d + 1].len <= BlockSize - (d % BlockSize) - HeaderSize
          /\ Len(p.data) = file[d + 1].len /\ p.kind # "none"
      <4>1. p.kind # "none"
        BY <3>1 DEF Kinds
      <4> QED BY Zenon, <3>1, <4>1, <2>5
    <3>3. d + HeaderSize + Len(p.data) <= Len(file)
      BY Zenon, <3>2 DEF FragmentAt
    <3>4. c.block > 0 /\ d = (c.block - 1) * BlockSize + c.off /\ d % BlockSize = c.off
      BY Zenon, <2>3, <3>2 DEF SamePlace, p
    <3>5. Len(p.data) <= BlockSize - c.off - HeaderSize
      BY Zenon, <3>2, <3>4
    <3>6. PICK b \in Int : b = (c.block - 1) * BlockSize
      BY <2>3, Sizes
    <3>7. off = b + ofs
      <4>1. d = b + o
        BY Zenon, <3>4, <3>6, <2>21
      <4> QED BY <4>1, <2>22, Sizes
    <3>8. ofs <= BlockSize
      <4>1. l <= BlockSize - o - HeaderSize
        BY Zenon, <3>5, <2>20, <2>21
      <4> QED BY <4>1, <2>22, Sizes
    <3> QED BY Zenon, <3>3, <3>4, <3>6, <3>7, <3>8 DEF off
  <2>18. Agree'
    <3>1. seqr'.block = 0 => ~ (memr'.end = "reading")
      BY <2>13, <2>17, <2>3
    <3> QED BY Zenon, <3>1, <2>12, <2>13, <2>14, <2>15, <2>16, <2>17 DEF Agree
  <2> QED BY Zenon, <2>1, <2>5, <2>10, <2>13, <2>18 DEF p, d, off
<1> QED BY Zenon, <1>18

----------------------------------------------------------------------------
(* What the writer does to the file: zeros up to m, then bytes of the      *)
(* fragment whose first byte is h.                                         *)
Grown(f, g, m, h) ==
    /\ SameUpTo(f, g, Len(f))
    /\ m \in Nat /\ Len(f) <= m /\ m <= Len(g) /\ Len(g) <= m + HeaderSize + h.len
    /\ \A i \in Len(f) + 1..m : g[i].kind = "zero"
    /\ \A i \in 1..Len(g) - m : g[m + i] = [h EXCEPT !.at = i]

(* What a byte of the grown file is: old, padding or new. *)
Old(f, g, j) == j \in 1..Len(f) /\ g[j] = f[j]
Pad(f, g, m, j) == j > Len(f) /\ j <= m /\ g[j].kind = "zero"
New(f, g, m, h, j) ==
    /\ j > Len(f) /\ j > m
    /\ g[j].kind = h.kind /\ g[j].rec = h.rec /\ g[j].off = h.off /\ g[j].len = h.len
    /\ g[j].at = j - m /\ g[j].at \in 1..HeaderSize + h.len

(* A byte of the grown file is an old one, a zero or one of the new fragment. *)
LEMMA GrownByte ==
  ASSUME NEW f \in Seq(Byte), NEW g \in Seq(Byte), NEW m, NEW h \in Byte, Grown(f, g, m, h),
         NEW j \in 1..Len(g)
  PROVE  Old(f, g, j) \/ Pad(f, g, m, j) \/ New(f, g, m, h, j)
<1>1. Len(f) \in Nat /\ Len(g) \in Nat /\ m \in Nat /\ h.len \in Nat /\ j \in Nat
  BY SeqLen, ByteFields DEF Grown
<1>2. Len(f) <= m /\ m <= Len(g) /\ Len(g) <= m + HeaderSize + h.len
  BY Zenon DEF Grown
<1>3. CASE j <= Len(f)
  <2>1. j \in 1..Len(f)
    BY <1>1, <1>3
  <2>2. g[j] = f[j]
    BY Zenon, <2>1 DEF Grown, SameUpTo
  <2> QED BY Zenon, <2>1, <2>2 DEF Old
<1>4. CASE j > Len(f) /\ j <= m
  <2>1. j \in Len(f) + 1..m
    BY <1>1, <1>4
  <2>2. g[j].kind = "zero"
    BY Zenon, <2>1 DEF Grown
  <2> QED BY Zenon, <1>4, <2>2 DEF Pad
<1>5. CASE j > m
  <2>1. PICK i \in Nat : i = j - m
    BY <1>1, <1>5
  <2>2. i \in 1..Len(g) - m /\ m + i = j /\ i \in 1..HeaderSize + h.len /\ j > Len(f)
    BY <2>1, <1>1, <1>2, <1>5, Sizes
  <2>3. g[m + i] = [h EXCEPT !.at = i]
    BY Zenon, <2>2 DEF Grown
  <2>4. LET b == [h EXCEPT !.at = i]
        IN  b.kind = h.kind /\ b.rec = h.rec /\ b.off = h.off /\ b.len = h.len /\ b.at = i
    BY <2>1, ByteExcept
  <2>5. g[j] = [h EXCEPT !.at = i]
    BY Zenon, <2>2, <2>3
  <2> QED BY Zenon, <2>1, <2>2, <2>4, <2>5, <1>5 DEF New
<1>6. j <= Len(f) \/ (j > Len(f) /\ j <= m) \/ j > m
  BY <1>1
<1> QED BY Zenon, <1>3, <1>4, <1>5, <1>6

(* The invariants of a file that is only written to and cut. *)
Sound(f, adds) == Bytes(f, adds) /\ Ordered(f) /\ Starts(f) /\ Linked(f)

(* h may be the first byte of what is written next. *)
MayFollow(f, h) ==
    /\ \A i \in 1..Len(f) : f[i].kind # "zero" => f[i].rec <= h.rec
    /\ h.kind \in {"full", "first"} => \A i \in 1..Len(f) : f[i].kind # "zero" => f[i].rec < h.rec
    /\ h.kind \in {"middle", "last"} =>
          \E s \in 0..Len(f) : Continues(f, s, h.rec, h.off) /\ EndOf(f, s) = Len(f)

(* A file that grew by the fragment due is as sound as it was. *)
LEMMA GrownSound ==
  ASSUME NEW f \in Seq(Byte), NEW g \in Seq(Byte), NEW m, NEW h \in Byte, Grown(f, g, m, h),
         NEW adds \in Seq(Nat), Sound(f, adds), h.kind # "zero", Genuine(h, adds), MayFollow(f, h)
  PROVE  Sound(g, adds)
<1>1. Len(f) \in Nat /\ Len(g) \in Nat /\ m \in Nat /\ Len(f) <= m /\ Len(f) <= Len(g)
  BY SeqLen DEF Grown, SameUpTo
<1>2. \A j \in 1..Len(g) : Old(f, g, j) \/ Pad(f, g, m, j) \/ New(f, g, m, h, j)
  BY Zenon, GrownByte
<1>3. Bytes(g, adds)
  <2> SUFFICES ASSUME NEW j \in 1..Len(g), g[j].kind # "zero" PROVE Genuine(g[j], adds)
    BY Zenon DEF Bytes
  <2>1. CASE Old(f, g, j)
    BY Zenon, <2>1 DEF Old, Sound, Bytes
  <2>2. CASE New(f, g, m, h, j)
    <3>1. /\ h.rec \in 1..Len(adds) /\ h.off + h.len <= adds[h.rec]
          /\ h.kind \in {"full", "first"} => h.off = 0
          /\ h.kind \in {"full", "last"} <=> h.off + h.len = adds[h.rec]
      BY Zenon DEF Genuine
    <3> QED BY Zenon, <2>2, <3>1 DEF New, Genuine
  <2> QED BY Zenon, <1>2, <2>1, <2>2 DEF Pad
<1>4. \A i \in 1..Len(f) : f[i].kind # "zero" => f[i].rec <= h.rec
  BY Zenon DEF MayFollow
<1>5. \A i \in 1..Len(f) : f[i].kind # "zero" /\ h.kind \in {"full", "first"} => f[i].rec < h.rec
  BY Zenon DEF MayFollow
<1>6. h.rec \in Nat /\ h.rec <= h.rec
  BY ByteFields
<1>7. Ordered(g)
  <2> SUFFICES ASSUME NEW i \in 1..Len(g), NEW j \in 1..Len(g), i < j, g[i].kind # "zero", g[j].kind # "zero"
               PROVE  g[i].rec <= g[j].rec
    BY Zenon DEF Ordered
  <2>1. CASE Old(f, g, i) /\ Old(f, g, j)
    BY Zenon, <2>1 DEF Old, Sound, Ordered
  <2>2. CASE Old(f, g, i) /\ New(f, g, m, h, j)
    BY Zenon, <2>2, <1>4 DEF Old, New
  <2>3. CASE New(f, g, m, h, i) /\ New(f, g, m, h, j)
    BY Zenon, <2>3, <1>6 DEF New
  <2>4. ~ (New(f, g, m, h, i) /\ Old(f, g, j))
    <3> SUFFICES ASSUME New(f, g, m, h, i), Old(f, g, j) PROVE FALSE
      OBVIOUS
    <3>1. i > Len(f) /\ j \in 1..Len(f)
      BY Zenon DEF New, Old
    <3> QED BY <3>1, <1>1
  <2> QED BY Zenon, <1>2, <2>1, <2>2, <2>3, <2>4 DEF Pad
<1>8. Starts(g)
  <2> SUFFICES ASSUME NEW i \in 1..Len(g), NEW j \in 1..Len(g), i < j, g[i].kind # "zero",
                      g[j].kind \in {"full", "first"}, g[j].at = 1
               PROVE  g[i].rec < g[j].rec
    BY Zenon DEF Starts
  <2>1. CASE Old(f, g, i) /\ Old(f, g, j)
    BY Zenon, <2>1 DEF Old, Sound, Starts
  <2>2. CASE Old(f, g, i) /\ New(f, g, m, h, j)
    BY Zenon, <2>2, <1>5 DEF Old, New
  <2>3. ~ New(f, g, m, h, i) \/ ~ New(f, g, m, h, j)
    <3> SUFFICES ASSUME New(f, g, m, h, i), New(f, g, m, h, j) PROVE FALSE
      OBVIOUS
    <3>1. i > m /\ j - m = 1
      BY Zenon DEF New
    <3> QED BY <3>1, <1>1
  <2>4. ~ (New(f, g, m, h, i) /\ Old(f, g, j))
    <3> SUFFICES ASSUME New(f, g, m, h, i), Old(f, g, j) PROVE FALSE
      OBVIOUS
    <3>1. i > Len(f) /\ j \in 1..Len(f)
      BY Zenon DEF New, Old
    <3> QED BY <3>1, <1>1
  <2>5. g[j].kind # "zero"
    OBVIOUS
  <2> QED BY Zenon, <1>2, <2>1, <2>2, <2>3, <2>4, <2>5 DEF Pad
<1>9. Linked(g)
  <2> SUFFICES ASSUME NEW q \in 0..Len(g) - 1, g[q + 1].kind \in {"middle", "last"}, g[q + 1].at = 1
               PROVE  \E s \in 0..q : /\ Continues(g, s, g[q + 1].rec, g[q + 1].off)
                                      /\ EndOf(g, s) <= q
                                      /\ \A i \in EndOf(g, s) + 1..q : g[i].kind = "zero"
    BY Zenon DEF Linked
  <2>1. q + 1 \in 1..Len(g) /\ q \in Nat
    BY <1>1
  <2>2. g[q + 1].kind # "zero"
    OBVIOUS
  <2>3. SameUpTo(f, g, Len(f))
    BY Zenon DEF Grown
  <2>4. CASE Old(f, g, q + 1)
    <3>1. g[q + 1] = f[q + 1] /\ q \in 0..Len(f) - 1
      BY <2>4, <1>1, <2>1 DEF Old
    <3>2. PICK s \in 0..q : /\ Continues(f, s, f[q + 1].rec, f[q + 1].off)
                            /\ EndOf(f, s) <= q
                            /\ \A i \in EndOf(f, s) + 1..q : f[i].kind = "zero"
      BY Zenon, <3>1 DEF Sound, Linked
    <3>3. s \in Nat /\ FragmentAt(f, s) /\ EndOf(f, s) \in Nat
      <4>1. s \in Nat
        BY <2>1
      <4>2. FragmentAt(f, s)
        BY Zenon, <3>2 DEF Continues
      <4> QED BY <4>1, <4>2, FragmentBytes
    <3>4. EndOf(f, s) <= Len(f)
      BY <3>1, <3>2, <3>3, <1>1, <2>1
    <3>5. FragmentAt(g, s) /\ EndOf(g, s) = EndOf(f, s) /\ g[s + 1] = f[s + 1]
      BY Zenon, <3>3, <3>4, <1>1, <2>3, FragmentKept
    <3>6. Continues(g, s, g[q + 1].rec, g[q + 1].off)
      BY Zenon, <3>1, <3>2, <3>5 DEF Continues
    <3>7. ASSUME NEW i \in EndOf(g, s) + 1..q PROVE g[i].kind = "zero"
      <4>1. i \in EndOf(f, s) + 1..q /\ i \in 1..Len(f)
        BY <3>1, <3>3, <3>5, <1>1, <2>1
      <4>2. g[i] = f[i]
        BY Zenon, <4>1, <2>3 DEF SameUpTo
      <4> QED BY Zenon, <4>1, <4>2, <3>2
    <3> QED BY Zenon, <3>2, <3>5, <3>6, <3>7
  <2>5. CASE New(f, g, m, h, q + 1)
    <3>1. h.kind \in {"middle", "last"} /\ g[q + 1].rec = h.rec /\ g[q + 1].off = h.off /\ (q + 1) - m = 1
      BY Zenon, <2>5 DEF New
    <3>2. q = m
      BY <3>1, <1>1, <2>1
    <3>3. PICK s \in 0..Len(f) : Continues(f, s, h.rec, h.off) /\ EndOf(f, s) = Len(f)
      BY Zenon, <3>1 DEF MayFollow
    <3>4. s \in Nat /\ FragmentAt(f, s) /\ s \in 0..q
      BY <3>2, <3>3, <1>1 DEF Continues
    <3>5. EndOf(f, s) <= Len(f)
      BY <3>3, <1>1
    <3>6. FragmentAt(g, s) /\ EndOf(g, s) = EndOf(f, s) /\ g[s + 1] = f[s + 1]
      BY Zenon, <3>4, <3>5, <1>1, <2>3, FragmentKept
    <3>7. Continues(g, s, g[q + 1].rec, g[q + 1].off)
      BY Zenon, <3>1, <3>3, <3>6 DEF Continues
    <3>8. \A i \in EndOf(g, s) + 1..q : g[i].kind = "zero"
      BY Zenon, <3>2, <3>3, <3>6 DEF Grown
    <3>9. EndOf(g, s) <= q
      BY Zenon, <3>2, <3>3, <3>6, <1>1
    <3> QED BY Zenon, <3>4, <3>7, <3>8, <3>9
  <2> QED BY Zenon, <1>2, <2>1, <2>2, <2>4, <2>5 DEF Pad
<1> QED BY Zenon, <1>3, <1>7, <1>8, <1>9 DEF Sound

(* A crash keeps the first k bytes, and perhaps the length of the file. *)
Torn(f, g, k) == SameUpTo(f, g, k) /\ \A i \in k + 1..Len(g) : g[i].kind = "zero"

(* A byte left by the crash is an old one or a zero. *)
LEMMA TornByte ==
  ASSUME NEW f \in Seq(Byte), NEW g \in Seq(Byte), NEW k \in Nat, Torn(f, g, k),
         NEW j \in 1..Len(g), g[j].kind # "zero"
  PROVE  j \in 1..k /\ j \in 1..Len(f) /\ g[j] = f[j]
<1>1. Len(f) \in Nat /\ Len(g) \in Nat /\ k <= Len(f)
  BY SeqLen DEF Torn, SameUpTo
<1>2. ~ (j \in k + 1..Len(g))
  BY Zenon DEF Torn
<1>3. j \in 1..k /\ j \in 1..Len(f)
  BY <1>1, <1>2
<1> QED BY Zenon, <1>3 DEF Torn, SameUpTo

(* What the crash leaves of a sound file is sound. *)
LEMMA TornSound ==
  ASSUME NEW f \in Seq(Byte), NEW g \in Seq(Byte), NEW k \in Nat, Torn(f, g, k),
         NEW adds, Sound(f, adds)
  PROVE  Sound(g, adds)
<1>1. Len(f) \in Nat /\ Len(g) \in Nat /\ k <= Len(f)
  BY SeqLen DEF Torn, SameUpTo
<1>2. \A j \in 1..Len(g) : g[j].kind # "zero" => j \in 1..k /\ j \in 1..Len(f) /\ g[j] = f[j]
  BY Zenon, TornByte
<1>3. Bytes(g, adds)
  BY Zenon, <1>2 DEF Bytes, Sound
<1>4. Ordered(g)
  BY Zenon, <1>2 DEF Ordered, Sound
<1>5. Starts(g)
  <2> SUFFICES ASSUME NEW i \in 1..Len(g), NEW j \in 1..Len(g), i < j, g[i].kind # "zero",
                      g[j].kind \in {"full", "first"}, g[j].at = 1
               PROVE  g[i].rec < g[j].rec
    BY Zenon DEF Starts
  <2>1. g[j].kind # "zero"
    OBVIOUS
  <2> QED BY Zenon, <2>1, <1>2 DEF Sound, Starts
<1>6. Linked(g)
  <2> SUFFICES ASSUME NEW q \in 0..Len(g) - 1, g[q + 1].kind \in {"middle", "last"}, g[q + 1].at = 1
               PROVE  \E s \in 0..q : /\ Continues(g, s, g[q + 1].rec, g[q + 1].off)
                                      /\ EndOf(g, s) <= q
                                      /\ \A i \in EndOf(g, s) + 1..q : g[i].kind = "zero"
    BY Zenon DEF Linked
  <2>1. q + 1 \in 1..Len(g) /\ q \in Nat
    BY <1>1
  <2>2. g[q + 1].kind # "zero"
    OBVIOUS
  <2>3. SameUpTo(f, g, k)
    BY Zenon DEF Torn
  <2>4. g[q + 1] = f[q + 1] /\ q + 1 \in 1..k
    BY Zenon, <2>1, <2>2, <1>2
  <2>5. q \in 0..Len(f) - 1 /\ q <= k
    BY <2>1, <2>4, <1>1
  <2>6. PICK s \in 0..q : /\ Continues(f, s, f[q + 1].rec, f[q + 1].off)
                          /\ EndOf(f, s) <= q
                          /\ \A i \in EndOf(f, s) + 1..q : f[i].kind = "zero"
    BY Zenon, <2>4, <2>5 DEF Sound, Linked
  <2>7. s \in Nat /\ FragmentAt(f, s) /\ EndOf(f, s) \in Nat
    <3>1. s \in Nat
      BY <2>1
    <3>2. FragmentAt(f, s)
      BY Zenon, <2>6 DEF Continues
    <3> QED BY <3>1, <3>2, FragmentBytes
  <2>8. EndOf(f, s) <= k
    BY <2>5, <2>6, <2>7, <2>1
  <2>9. FragmentAt(g, s) /\ EndOf(g, s) = EndOf(f, s) /\ g[s + 1] = f[s + 1]
    BY Zenon, <2>3, <2>7, <2>8, FragmentKept
  <2>10. Continues(g, s, g[q + 1].rec, g[q + 1].off)
    BY Zenon, <2>4, <2>6, <2>9 DEF Continues
  <2>11. ASSUME NEW i \in EndOf(g, s) + 1..q PROVE g[i].kind = "zero"
    <3>1. i \in EndOf(f, s) + 1..q /\ i \in 1..k
      BY <2>5, <2>7, <2>9, <1>1, <2>1
    <3>2. g[i] = f[i]
      BY Zenon, <3>1, <2>3 DEF SameUpTo
    <3>3. f[i].kind = "zero"
      BY Zenon, <3>1, <2>6
    <3> QED BY Zenon, <3>2, <3>3
  <2> QED BY Zenon, <2>6, <2>9, <2>10, <2>11
<1> QED BY Zenon, <1>3, <1>4, <1>5, <1>6 DEF Sound

----------------------------------------------------------------------------
(* The records a reader returned, when one more is appended. *)
LEMMA PickedNone == ASSUME NEW adds, NEW m PROVE Picked(adds, m, <<>>)
<1>1. 1..Len(<<>>) = {}
  OBVIOUS
<1>2. PICK rec : rec = [i \in {} |-> 1]
  OBVIOUS
<1>4. rec \in [{} -> 1..m]
  BY <1>2
<1>3. Picks(adds, m, <<>>, rec)
  BY Zenon, <1>1, <1>4 DEF Picks
<1> QED BY Zenon, <1>3 DEF Picked

(* Some of the first m records are some of the first k. *)
LEMMA PickedMore ==
  ASSUME NEW adds, NEW m \in Int, NEW k \in Int, m <= k, NEW out, Picked(adds, m, out)
  PROVE  Picked(adds, k, out)
<1>1. PICK rec : Picks(adds, m, out, rec)
  BY Zenon DEF Picked
<1>2. \A x \in 1..m : x \in 1..k
  OBVIOUS
<1>3. rec \in [1..Len(out) -> 1..k]
  BY Zenon, <1>1, <1>2 DEF Picks
<1>4. Picks(adds, k, out, rec)
  BY Zenon, <1>1, <1>3 DEF Picks
<1> QED BY Zenon, <1>4 DEF Picked

(* WholeRecords, by Picked. *)
LEMMA WholePicked ==
  /\ WholeRecords <=> Picked(added, Len(added), seqr.out)
  /\ WholeRecords' <=> Picked(added', Len(added'), seqr'.out)
<1>1. (\A n : Whole(n) = Opening(n, added[n])) /\ (\A n : Whole(n)' = Opening(n, added'[n]))
  BY Zenon DEF Whole, Opening
<1>2. WholeRecords <=> Picked(added, Len(added), seqr.out)
  BY Zenon, <1>1 DEF WholeRecords, Picked, Picks
<1>3. WholeRecords' <=> Picked(added', Len(added'), seqr'.out)
  BY Zenon, <1>1 DEF WholeRecords, Picked, Picks
<1> QED BY Zenon, <1>2, <1>3

(* The first byte of a fragment in the file. *)
LEMMA FragmentGenuine ==
  ASSUME NEW f \in Seq(Byte), NEW adds \in Seq(Nat), Sound(f, adds), NEW d \in Nat, FragmentAt(f, d)
  PROVE  LET h == f[d + 1]
         IN  /\ d + 1 \in 1..Len(f) /\ h \in Byte /\ h.kind \in Kinds /\ h.kind # "zero" /\ h.at = 1
             /\ h.rec \in Nat \ {0} /\ h.rec <= Len(adds) /\ h.off \in Nat /\ h.len \in Nat
             /\ adds[h.rec] \in Nat /\ h.off + h.len <= adds[h.rec]
             /\ h.kind \in {"full", "first"} => h.off = 0
             /\ h.kind \in {"full", "last"} <=> h.off + h.len = adds[h.rec]
<1> DEFINE h == f[d + 1]
<1>1. d + 1 \in 1..Len(f) /\ h \in Byte
  BY FragmentBytes
<1>2. h.kind # "zero"
  BY Zenon DEF FragmentAt
<1>3. Genuine(h, adds)
  BY Zenon, <1>1, <1>2 DEF Sound, Bytes
<1> HIDE DEF h
<1>4. h.kind \in Kinds /\ h.rec \in Nat /\ h.off \in Nat /\ h.len \in Nat
  BY <1>1, <1>2, ByteFields
<1>5. h.rec \in 1..Len(adds)
  BY Zenon, <1>3 DEF Genuine
<1>6. h.rec \in Nat \ {0} /\ h.rec <= Len(adds) /\ adds[h.rec] \in Nat
  BY <1>5, <1>4, SeqLen, SeqElement
<1>7. h.at = 1
  <2>1. 1 \in 1..HeaderSize + h.len
    BY <1>4, Sizes
  <2>2. f[d + 1] = [f[d + 1] EXCEPT !.at = 1]
    BY Zenon, <2>1 DEF FragmentAt, h
  <2>3. [f[d + 1] EXCEPT !.at = 1].at = 1
    BY <1>1, ByteExcept DEF h
  <2> QED BY Zenon, <2>2, <2>3 DEF h
<1>8. /\ h.off + h.len <= adds[h.rec]
      /\ h.kind \in {"full", "first"} => h.off = 0
      /\ h.kind \in {"full", "last"} <=> h.off + h.len = adds[h.rec]
  BY Zenon, <1>3 DEF Genuine
<1> QED BY Zenon, <1>1, <1>2, <1>4, <1>6, <1>7, <1>8 DEF h

(* What the reader holds fits in front of the fragment it takes next. *)
Ready(r, h) ==
    /\ r.in_fragmented => r.scratch = Opening(h.rec, h.off)
    /\ Picked(added, h.rec - 1, r.out)

(* What reading the fragment at d leaves. *)
Taken(a, h) ==
    a.out = IF h.kind \in {"full", "last"} THEN Append(memr.out, Opening(h.rec, added[h.rec])) ELSE memr.out

(* The reader either stops where it is or has read the fragment at d. *)
LEMMA ReadEither ==
  TypeOK /\ Agree /\ FileInv /\ ReadInv /\ Read =>
    LET d == Skip(memr.off)
    IN  /\ memr.end = "reading" /\ d \in Nat /\ file' = file /\ added' = added
        /\ memr' \in Reader /\ seqr' \in Reader /\ Agree'
        /\ \/ /\ memr'.end \in {"eof", "corrupt"} /\ memr'.out = memr.out
              /\ memr'.end = "corrupt" <=> (memr.in_fragmented \/ d + HeaderSize <= Len(file))
              /\ ~ (/\ FragmentAt(file, d) /\ Accepts(memr.in_fragmented, file[d + 1].kind)
                    /\ file[d + 1].len <= BlockSize - (d % BlockSize) - HeaderSize)
           \/ /\ memr'.end = "reading" /\ FragmentAt(file, d) /\ memr'.off = EndOf(file, d)
              /\ Accepts(memr.in_fragmented, file[d + 1].kind)
              /\ ReadUpTo(file, added, memr', d) /\ Taken(memr', file[d + 1])
(* Two fragments that share a byte are one. *)
<1>1. ASSUME NEW f \in Seq(Byte), NEW s \in Nat, NEW t \in Nat, FragmentAt(f, s), FragmentAt(f, t),
             NEW x \in Nat, s < x, x <= EndOf(f, s), t < x, x <= EndOf(f, t)
      PROVE  s = t
  <2> USE <1>1
  <2>1. HeaderSize \in Nat \ {0} /\ f[s + 1].len \in Nat /\ f[t + 1].len \in Nat
    BY FragmentBytes, ByteFields, LogAssumption
  <2> DEFINE l == f[s + 1].len
             m == f[t + 1].len
  <2>2. x <= s + HeaderSize + l /\ x <= t + HeaderSize + m
    BY Zenon DEF EndOf
  <2>3. l \in Nat /\ m \in Nat
    BY <2>1
  <2> HIDE DEF l, m
  <2>7. x - s \in 1..HeaderSize + l /\ s + (x - s) = x
    BY <2>1, <2>2, <2>3
  <2>8. x - t \in 1..HeaderSize + m /\ t + (x - t) = x
    BY <2>1, <2>2, <2>3
  <2>4. f[x].at = x - s
    <3>1. f[s + (x - s)].at = x - s
      BY Zenon, <2>7, FragmentBytes DEF l
    <3> QED BY Zenon, <3>1, <2>7
  <2>5. f[x].at = x - t
    <3>1. f[t + (x - t)].at = x - t
      BY Zenon, <2>8, FragmentBytes DEF m
    <3> QED BY Zenon, <3>1, <2>8
  <2> QED BY <2>4, <2>5
<1>2. ASSUME NEW adds, NEW n \in Nat \ {0}, NEW T, NEW out \in Seq(T), NEW d \in T,
             Picked(adds, n - 1, out), d = Opening(n, adds[n])
      PROVE  Picked(adds, n, Append(out, d))
  <2> USE <1>2
  <2>1. PICK rec : Picks(adds, n - 1, out, rec)
    BY Zenon DEF Picked
  <2>2. PICK l \in Nat : l = Len(out)
    BY SeqLen
  <2> DEFINE new == Append(out, d)
             next == [i \in 1..l + 1 |-> IF i = l + 1 THEN n ELSE rec[i]]
  <2>3. Len(new) = l + 1 /\ new[l + 1] = d /\ \A i \in 1..l : new[i] = out[i]
    BY <2>2, SeqAppend
  <2> HIDE DEF new
  <2>4. \A i \in 1..l : rec[i] \in 1..n - 1
    BY Zenon, <2>1, <2>2 DEF Picks
  <2>5. next[l + 1] = n /\ \A i \in 1..l : next[i] = rec[i]
    BY <2>2
  <2>6. next \in [1..l + 1 -> 1..n]
    <3>1. \A i \in 1..l + 1 : i = l + 1 \/ i \in 1..l
      BY <2>2
    <3>2. n \in 1..n /\ \A x \in 1..n - 1 : x \in 1..n
      OBVIOUS
    <3>3. \A i \in 1..l + 1 : next[i] \in 1..n
      BY Zenon, <2>4, <2>5, <3>1, <3>2
    <3> QED BY Zenon, <3>3
  <2> HIDE DEF next
  <2>7. ASSUME NEW i \in 1..l + 1, NEW j \in 1..l + 1, i < j PROVE next[i] < next[j]
    <3>1. i \in 1..l
      BY <2>7
    <3>2. next[i] = rec[i] /\ rec[i] \in 1..n - 1
      BY Zenon, <3>1, <2>4, <2>5
    <3>3. CASE j = l + 1
      BY <3>2, <3>3, <2>5
    <3>4. CASE j # l + 1
      <4>1. j \in 1..l
        BY <3>4
      <4> QED BY Zenon, <3>1, <3>2, <4>1, <2>1, <2>2, <2>5, <2>7 DEF Picks
    <3> QED BY Zenon, <3>3, <3>4
  <2>8. ASSUME NEW i \in 1..l + 1 PROVE new[i] = Opening(next[i], adds[next[i]])
    <3>1. CASE i = l + 1
      BY Zenon, <3>1, <2>3, <2>5
    <3>2. CASE i # l + 1
      <4>1. i \in 1..l
        BY <3>2
      <4> QED BY Zenon, <4>1, <2>1, <2>2, <2>3, <2>5 DEF Picks
    <3> QED BY Zenon, <3>1, <3>2
  <2>9. Picks(adds, n, new, next)
    BY Zenon, <2>3, <2>6, <2>7, <2>8 DEF Picks
  <2> QED BY Zenon, <2>9 DEF Picked, new
<1>3. ASSUME NEW n, NEW k \in Nat, NEW l \in Nat
      PROVE  Opening(n, k) \o [i \in 1..l |-> <<n, k + i>>] = Opening(n, k + l)
  <2> USE <1>3
  <2> DEFINE a == Opening(n, k)
             b == [i \in 1..l |-> <<n, k + i>>]
             c == Opening(n, k + l)
             T == {n} \X Nat
  <2>1. a \in Seq(T) /\ Len(a) = k /\ \A i \in 1..k : a[i] = <<n, i>>
    BY FunctionIsSeq DEF Opening
  <2>2. b \in Seq(T) /\ Len(b) = l /\ \A i \in 1..l : b[i] = <<n, k + i>>
    BY FunctionIsSeq
  <2>3. c \in Seq(T) /\ Len(c) = k + l /\ \A i \in 1..k + l : c[i] = <<n, i>>
    BY FunctionIsSeq DEF Opening
  <2> HIDE DEF a, b, c, T
  <2>4. a \o b \in Seq(T) /\ Len(a \o b) = k + l
        /\ \A i \in 1..Len(a) + Len(b) : (a \o b)[i] = IF i <= Len(a) THEN a[i] ELSE b[i - Len(a)]
    BY Zenon, <2>1, <2>2, SeqConcat
  <2>5. ASSUME NEW i \in 1..k + l PROVE (a \o b)[i] = c[i]
    <3>1. i \in 1..Len(a) + Len(b) /\ c[i] = <<n, i>>
      BY <2>1, <2>2, <2>3
    <3>2. CASE i <= k
      <4>1. i \in 1..k
        BY <3>2
      <4> QED BY Zenon, <4>1, <3>1, <3>2, <2>1, <2>4
    <3>3. CASE ~ (i <= k)
      <4>1. i - k \in 1..l /\ k + (i - k) = i
        BY <3>3
      <4>2. b[i - k] = <<n, i>>
        BY Zenon, <4>1, <2>2
      <4> QED BY Zenon, <4>2, <3>1, <3>3, <2>1, <2>4
    <3> QED BY Zenon, <3>2, <3>3
  <2>6. a \o b = c
    BY <2>3, <2>4, <2>5, SeqSame
  <2> QED BY Zenon, <2>6 DEF a, b, c
<1>4. ASSUME NEW f \in Seq(Byte), NEW s \in Nat, NEW t \in Nat, NEW d \in Nat, FragmentAt(f, s), FragmentAt(f, t),
             EndOf(f, s) <= d, d < EndOf(f, s) + HeaderSize,
             EndOf(f, t) <= d, \A i \in EndOf(f, t) + 1..d : f[i].kind = "zero"
      PROVE  s = t
  <2> USE <1>4
  <2>1. PICK x \in Nat : x = EndOf(f, s) /\ x > s /\ x \in 1..Len(f)
    BY FragmentBytes
  <2>2. PICK y \in Nat : y = EndOf(f, t) /\ y > t
    BY FragmentBytes
  <2>3. f[s + 1].len \in Nat /\ f[t + 1].len \in Nat /\ f[s + 1].kind # "zero"
    BY Zenon, FragmentBytes, ByteFields DEF FragmentAt
  <2>4. f[x].kind # "zero"
    <3>1. PICK l \in Nat : l = f[s + 1].len
      BY <2>3
    <3>2. x = s + HeaderSize + l
      BY Zenon, <2>1, <3>1 DEF EndOf
    <3>3. HeaderSize + l \in 1..HeaderSize + f[s + 1].len /\ s + (HeaderSize + l) = x
      <4>1. \A k \in Nat \ {0} : k + l \in 1..k + l /\ s + (k + l) = s + k + l
        OBVIOUS
      <4> QED BY Zenon, <4>1, <3>1, <3>2, Sizes
    <3>4. f[s + (HeaderSize + l)].kind = f[s + 1].kind
      BY Zenon, <3>3, FragmentBytes
    <3> QED BY Zenon, <3>3, <3>4, <2>3
  <2>5. ~ (x \in y + 1..d)
    BY Zenon, <2>2, <2>4
  <2>6. x <= y
    BY <2>1, <2>2, <2>5
  <2>7. t < x
    <3>1. PICK l \in Nat : l = f[t + 1].len
      BY <2>3
    <3>2. y = t + HeaderSize + l
      BY Zenon, <2>2, <3>1 DEF EndOf
    <3> QED BY <3>2, <2>1, <2>2, Sizes
  <2>8. x <= x
    BY <2>1
  <2> QED BY <2>1, <2>2, <2>6, <2>7, <2>8, <1>1
<1>5. ASSUME TypeOK, FileInv, ReadInv, memr.end = "reading", NEW d, d = Skip(memr.off), FragmentAt(file, d),
             Accepts(memr.in_fragmented, file[d + 1].kind)
      PROVE  Ready(memr, file[d + 1])
  <2> USE <1>5
  <2> DEFINE h == file[d + 1]
  <2>1. file \in Seq(Byte) /\ added \in Seq(Nat) /\ memr \in Reader /\ Sound(file, added)
    BY Zenon DEF TypeOK, FileInv, Sound
  <2>2. memr.off \in Nat /\ memr.in_fragmented \in BOOLEAN
    BY <2>1 DEF Reader
  <2>3. d \in Nat /\ memr.off <= d /\ d < memr.off + HeaderSize
    BY Zenon, <2>2, SkipPlace
  <2>4. /\ d + 1 \in 1..Len(file) /\ h.kind \in Kinds /\ h.at = 1
        /\ h.rec \in Nat \ {0} /\ h.off \in Nat /\ h.len \in Nat
    BY Zenon, <2>1, <2>3, FragmentGenuine
  <2>5. CASE memr.off = 0 /\ memr.out = <<>> /\ ~memr.in_fragmented
    <3>1. Picked(added, h.rec - 1, memr.out)
      BY Zenon, <2>5, PickedNone
    <3> QED BY Zenon, <3>1, <2>5 DEF Ready
  <2>6. CASE \E s \in 0..Len(file) : ReadUpTo(file, added, memr, s)
    <3>1. PICK s \in 0..Len(file) : ReadUpTo(file, added, memr, s)
      BY Zenon, <2>6
    <3> DEFINE g == file[s + 1]
    <3>2. s \in Nat
      BY SeqLen, <2>1
    <3>3. FragmentAt(file, s) /\ EndOf(file, s) = memr.off
      BY Zenon, <3>1 DEF ReadUpTo
    <3>4. s + 1 \in 1..Len(file) /\ EndOf(file, s) > s
      BY <3>2, <3>3, <2>1, FragmentBytes
    <3>5. g.kind # "zero" /\ g.rec \in Nat \ {0}
      BY Zenon, <2>1, <3>2, <3>3, FragmentGenuine
    <3>6. Picked(added, g.rec, memr.out) /\ (memr.in_fragmented => Picked(added, g.rec - 1, memr.out))
      BY Zenon, <3>1 DEF ReadUpTo
    <3>7. CASE ~memr.in_fragmented
      <4>1. h.kind \in {"full", "first"}
        BY Zenon, <3>7 DEF Accepts
      <4>2. s + 1 < d + 1
        BY <3>2, <3>3, <3>4, <2>2, <2>3
      <4>3. g.rec < h.rec
        BY Zenon, <2>1, <2>4, <3>4, <3>5, <4>1, <4>2 DEF Sound, Starts
      <4>4. g.rec \in Int /\ h.rec - 1 \in Int /\ g.rec <= h.rec - 1
        BY <4>3, <3>5, <2>4
      <4>5. Picked(added, h.rec - 1, memr.out)
        BY Zenon, <4>4, <3>6, PickedMore
      <4> QED BY Zenon, <4>5, <3>7 DEF Ready
    <3>8. CASE memr.in_fragmented
      <4>1. h.kind \in {"middle", "last"}
        BY Zenon, <3>8 DEF Accepts
      <4>2. d \in 0..Len(file) - 1
        BY <2>3, <2>4
      <4>3. PICK t \in 0..d : /\ Continues(file, t, h.rec, h.off) /\ EndOf(file, t) <= d
                              /\ \A i \in EndOf(file, t) + 1..d : file[i].kind = "zero"
        BY Zenon, <2>1, <2>4, <4>1, <4>2 DEF Sound, Linked
      <4>4. t \in Nat /\ FragmentAt(file, t)
        BY <2>3, <4>3 DEF Continues
      <4>5. EndOf(file, s) <= d /\ d < EndOf(file, s) + HeaderSize
        BY Zenon, <2>3, <3>3
      <4>6. s = t
        BY Zenon, <2>1, <2>3, <3>2, <3>3, <4>3, <4>4, <4>5, <1>4
      <4>7. g.rec = h.rec /\ g.off + g.len = h.off
        BY Zenon, <4>3, <4>6 DEF Continues
      <4>8. memr.scratch = Opening(h.rec, h.off)
        BY Zenon, <3>1, <3>8, <4>7 DEF ReadUpTo
      <4>9. Picked(added, h.rec - 1, memr.out)
        BY Zenon, <4>7, <3>6, <3>8
      <4> QED BY Zenon, <4>8, <4>9 DEF Ready
    <3> QED BY Zenon, <3>7, <3>8
  <2> QED BY Zenon, <2>5, <2>6 DEF ReadInv
<1>6. ASSUME TypeOK, FileInv, NEW d \in Nat, FragmentAt(file, d), Accepts(memr.in_fragmented, file[d + 1].kind),
             Ready(memr, file[d + 1]), NEW p \in Found, p.kind = file[d + 1].kind,
             p.data = [i \in 1..file[d + 1].len |-> <<file[d + 1].rec, file[d + 1].off + i>>],
             NEW a, MovedTo(memr, p, a, EndOf(file, d))
      PROVE  ReadUpTo(file, added, a, d) /\ Taken(a, file[d + 1])
  <2> USE <1>6
  <2> DEFINE h == file[d + 1]
  <2>1. file \in Seq(Byte) /\ added \in Seq(Nat) /\ memr \in Reader /\ Sound(file, added)
    BY Zenon DEF TypeOK, FileInv, Sound
  <2>2. /\ h.kind \in Kinds /\ h.rec \in Nat \ {0} /\ h.off \in Nat /\ h.len \in Nat
        /\ h.kind \in {"full", "first"} => h.off = 0
        /\ h.kind \in {"full", "last"} <=> h.off + h.len = added[h.rec]
    BY Zenon, <2>1, FragmentGenuine
  <2>3. Picked(added, h.rec - 1, memr.out)
    BY Zenon DEF Ready
  <2>4. Picked(added, h.rec, memr.out)
    <3>1. h.rec - 1 \in Int /\ h.rec \in Int /\ h.rec - 1 <= h.rec
      BY <2>2
    <3> HIDE DEF h
    <3> QED BY Zenon, <3>1, <2>3, PickedMore
  <2>5. memr.in_fragmented \in BOOLEAN /\ memr.out \in Seq(Data) /\ p.data \in Data /\ memr.scratch \o p.data \in Data
    BY <2>1, DataTypes DEF Reader
  <2>6. a.off = EndOf(file, d) /\ a.in_fragmented = IF Accepts(memr.in_fragmented, p.kind)
                                                     THEN p.kind \in {"first", "middle"} ELSE memr.in_fragmented
    BY Zenon DEF MovedTo
  <2>7. a.in_fragmented <=> h.kind \in {"first", "middle"}
    BY Zenon, <2>6
  <2>8. CASE h.kind = "full"
    <3>1. h.off = 0 /\ added[h.rec] = h.len /\ a.out = Append(memr.out, p.data) /\ ~a.in_fragmented
      <4>1. h.off = 0 /\ h.off + h.len = added[h.rec]
        BY Zenon, <2>2, <2>8
      <4>2. added[h.rec] = h.len
        BY <4>1, <2>2
      <4>3. a.out = Append(memr.out, p.data)
        BY Zenon, <2>8 DEF MovedTo
      <4>4. ~ (h.kind \in {"first", "middle"})
        BY Zenon, <2>8
      <4> QED BY Zenon, <4>1, <4>2, <4>3, <4>4, <2>7
    <3>2. p.data = Opening(h.rec, added[h.rec])
      BY <3>1, <2>2 DEF Opening
    <3>3. Picked(added, h.rec, Append(memr.out, p.data))
      BY <3>2, <2>2, <2>3, <2>5, <1>2
    <3>4. Taken(a, h)
      BY Zenon, <3>1, <3>2, <2>8 DEF Taken
    <3> QED BY Zenon, <3>1, <3>3, <3>4, <2>4, <2>6, <2>7 DEF ReadUpTo
  <2>9. CASE h.kind = "first"
    <3>1. h.off = 0 /\ a.out = memr.out /\ a.scratch = p.data
      <4>1. h.off = 0
        BY Zenon, <2>2, <2>9
      <4>2. "first" # "full" /\ "first" # "last"
        OBVIOUS
      <4>3. a.out = memr.out /\ a.scratch = p.data
        BY Zenon, <2>9, <4>2 DEF MovedTo
      <4> QED BY Zenon, <4>1, <4>3
    <3>2. a.scratch = Opening(h.rec, h.off + h.len)
      BY <3>1, <2>2 DEF Opening
    <3>3. ~ (h.kind \in {"full", "last"})
      BY <2>9
    <3>4. Taken(a, h)
      BY Zenon, <3>1, <3>3 DEF Taken
    <3> QED BY Zenon, <3>1, <3>2, <3>4, <2>3, <2>4, <2>6, <2>7 DEF ReadUpTo
  <2>10. CASE h.kind \in {"middle", "last"}
    <3>1. memr.in_fragmented
      <4>1. ~ (h.kind \in {"full", "first"})
        BY <2>10
      <4> QED BY Zenon, <4>1 DEF Accepts
    <3>2. memr.scratch \o p.data = Opening(h.rec, h.off + h.len)
      <4>1. memr.scratch = Opening(h.rec, h.off)
        BY Zenon, <3>1 DEF Ready
      <4>2. Opening(h.rec, h.off) \o [i \in 1..h.len |-> <<h.rec, h.off + i>>] = Opening(h.rec, h.off + h.len)
        <5>1. PICK n, k \in Nat, l \in Nat : n = h.rec /\ k = h.off /\ l = h.len
          BY Zenon, <2>2
        <5>2. Opening(n, k) \o [i \in 1..l |-> <<n, k + i>>] = Opening(n, k + l)
          BY Zenon, <1>3
        <5> QED BY Zenon, <5>1, <5>2
      <4> QED BY Zenon, <4>1, <4>2
    <3>3. CASE h.kind = "middle"
      <4>1. "middle" # "full" /\ "middle" # "last" /\ "middle" # "first"
        OBVIOUS
      <4>2. a.out = memr.out /\ a.scratch = memr.scratch \o p.data
        BY Zenon, <3>3, <4>1 DEF MovedTo
      <4>3. ~ (h.kind \in {"full", "last"})
        BY <3>3
      <4>4. Taken(a, h)
        BY Zenon, <4>2, <4>3 DEF Taken
      <4> QED BY Zenon, <3>2, <4>2, <4>4, <2>3, <2>4, <2>6, <2>7 DEF ReadUpTo
    <3>4. CASE h.kind = "last"
      <4>1. "last" # "full" /\ "last" # "middle" /\ "last" # "first"
        OBVIOUS
      <4>2. a.out = Append(memr.out, memr.scratch \o p.data) /\ ~a.in_fragmented
        BY Zenon, <3>4, <4>1, <2>7 DEF MovedTo
      <4>3. memr.scratch \o p.data = Opening(h.rec, added[h.rec])
        BY Zenon, <3>2, <3>4, <2>2
      <4>4. Picked(added, h.rec, Append(memr.out, memr.scratch \o p.data))
        BY Zenon, <4>3, <2>2, <2>3, <2>5, <1>2
      <4>5. Taken(a, h)
        BY Zenon, <4>2, <4>3, <3>4 DEF Taken
      <4> QED BY Zenon, <4>2, <4>4, <4>5, <2>4, <2>6, <2>7 DEF ReadUpTo
    <3> QED BY Zenon, <3>3, <3>4, <2>10
  <2> QED BY Zenon, <2>2, <2>8, <2>9, <2>10 DEF Kinds
<1>7. ASSUME TypeOK, Agree, FileInv, ReadInv, Read
      PROVE  LET d == Skip(memr.off)
             IN  /\ memr.end = "reading" /\ d \in Nat /\ file' = file /\ added' = added
                 /\ memr' \in Reader /\ seqr' \in Reader /\ Agree'
                 /\ \/ /\ memr'.end \in {"eof", "corrupt"} /\ memr'.out = memr.out
                       /\ memr'.end = "corrupt" <=> (memr.in_fragmented \/ d + HeaderSize <= Len(file))
                       /\ ~ (/\ FragmentAt(file, d) /\ Accepts(memr.in_fragmented, file[d + 1].kind)
                             /\ file[d + 1].len <= BlockSize - (d % BlockSize) - HeaderSize)
                    \/ /\ memr'.end = "reading" /\ FragmentAt(file, d) /\ memr'.off = EndOf(file, d)
                       /\ Accepts(memr.in_fragmented, file[d + 1].kind)
                       /\ ReadUpTo(file, added, memr', d) /\ Taken(memr', file[d + 1])
  <2> USE <1>7
  <2> DEFINE d == Skip(memr.off)
             p == MemPhysical(d)
             h == file[d + 1]
             goes == Accepts(memr.in_fragmented, p.kind)
             fits == h.len <= BlockSize - (d % BlockSize) - HeaderSize
             there == FragmentAt(file, d) /\ fits
  <2>1. /\ memr.end = "reading" /\ p \in Found
        /\ MovedTo(memr, p, memr', d + HeaderSize + Len(p.data))
        /\ seqr' \in Reader /\ Agree'
    BY Zenon, ReadMoves
  <2>2. file \in Seq(Byte) /\ memr \in Reader /\ file' = file /\ added' = added
    BY Zenon DEF TypeOK, Read, wvars
  <2>3. memr.off \in Nat /\ memr.in_fragmented \in BOOLEAN
    BY <2>2 DEF Reader
  <2>4. d \in Nat /\ (d % BlockSize) + HeaderSize <= BlockSize
    BY Zenon, <2>3, SkipPlace
  <2>5. /\ p.kind = "none" <=> d + HeaderSize > Len(file)
        /\ p.kind \in Kinds <=> there
        /\ there => /\ p.kind = h.kind
                    /\ p.data = [i \in 1..h.len |-> <<h.rec, h.off + i>>]
                    /\ Len(p.data) = h.len
    BY Zenon, <2>2, <2>4, PhysicalFound
  <2>6. memr' \in Reader
    BY Zenon, <2>1 DEF MovedTo
  <2> HIDE DEF p
  <2>7. goes => p.kind \in Kinds
    BY DEF Accepts, Kinds
  <2>8. CASE goes
    <3>1. FragmentAt(file, d) /\ p.kind = h.kind /\ p.data = [i \in 1..h.len |-> <<h.rec, h.off + i>>] /\ Len(p.data) = h.len
      BY Zenon, <2>5, <2>7, <2>8
    <3>2. Accepts(memr.in_fragmented, h.kind)
      BY Zenon, <3>1, <2>8
    <3>3. Ready(memr, h)
      BY Zenon, <3>1, <3>2, <2>1, <1>5
    <3>4. d + HeaderSize + Len(p.data) = EndOf(file, d)
      BY Zenon, <3>1 DEF EndOf
    <3>5. MovedTo(memr, p, memr', EndOf(file, d))
      BY Zenon, <3>4, <2>1
    <3>6. ReadUpTo(file, added, memr', d) /\ Taken(memr', h)
      BY Zenon, <3>1, <3>2, <3>3, <3>5, <2>1, <2>4, <1>6
    <3>7. memr'.end = "reading" /\ memr'.off = EndOf(file, d)
      BY Zenon, <3>5, <2>8 DEF MovedTo
    <3> QED BY Zenon, <3>1, <3>2, <3>6, <3>7, <2>1, <2>2, <2>4, <2>6
  <2>9. CASE ~goes
    <3>1. memr'.out = memr.out /\ memr'.end = IF p.kind = "none" /\ ~memr.in_fragmented THEN "eof" ELSE "corrupt"
      BY Zenon, <2>1, <2>9 DEF MovedTo
    <3>2. memr'.end \in {"eof", "corrupt"} /\ (memr'.end = "corrupt" <=> (memr.in_fragmented \/ p.kind # "none"))
      <4>1. "eof" # "corrupt"
        OBVIOUS
      <4> QED BY Zenon, <3>1, <4>1
    <3>3. p.kind # "none" <=> d + HeaderSize <= Len(file)
      BY <2>2, <2>4, <2>5, SeqLen, Sizes
    <3>4. ~ (FragmentAt(file, d) /\ Accepts(memr.in_fragmented, h.kind) /\ fits)
      BY Zenon, <2>5, <2>9
    <3>5. memr'.end = "corrupt" <=> (memr.in_fragmented \/ d + HeaderSize <= Len(file))
      BY Zenon, <3>2, <3>3
    <3> QED BY Zenon, <3>1, <3>2, <3>4, <3>5, <2>1, <2>2, <2>4, <2>6
  <2> QED BY Zenon, <2>8, <2>9
<1> QED BY Zenon, <1>7

(* A read returns whole records only. *)
LEMMA ReadWhole ==
  ASSUME TypeOK, Agree, FileInv, ReadInv, WholeRecords, Read
  PROVE  ReadInv' /\ WholeRecords'
<1> DEFINE d == Skip(memr.off)
<1>1. d \in Nat /\ file' = file /\ added' = added /\ Agree' /\ file \in Seq(Byte) /\ added \in Seq(Nat)
      /\ Sound(file, added)
  BY Zenon, ReadEither DEF TypeOK, Sound, FileInv
<1>2. seqr'.out = memr'.out /\ seqr.out = memr.out
  BY Zenon, <1>1 DEF Agree
<1>3. CASE memr'.end \in {"eof", "corrupt"} /\ memr'.out = memr.out
  <2>1. memr'.end # "reading"
    BY <1>3
  <2>2. ReadInv'
    BY Zenon, <2>1 DEF ReadInv
  <2>3. Picked(added', Len(added'), seqr'.out)
    BY Zenon, <1>1, <1>2, <1>3, WholePicked
  <2> QED BY Zenon, <2>2, <2>3, WholePicked
<1>4. CASE FragmentAt(file, d) /\ ReadUpTo(file, added, memr', d)
  <2>1. d \in 0..Len(file) /\ file[d + 1].rec \in Nat /\ file[d + 1].rec <= Len(added)
    <3>1. d + 1 \in 1..Len(file) /\ file[d + 1].rec \in Nat /\ file[d + 1].rec <= Len(added)
      BY Zenon, <1>1, <1>4, FragmentGenuine
    <3> QED BY <3>1, <1>1, SeqLen
  <2>2. ReadInv'
    <3>1. d \in 0..Len(file') /\ ReadUpTo(file', added', memr', d)
      BY Zenon, <2>1, <1>1, <1>4
    <3> HIDE DEF d
    <3> QED BY Zenon, <3>1 DEF ReadInv
  <2>3. Picked(added, file[d + 1].rec, memr'.out)
    BY Zenon, <1>4 DEF ReadUpTo
  <2>4. file[d + 1].rec \in Int /\ Len(added) \in Int
    BY <2>1, <1>1, SeqLen
  <2>5. Picked(added, Len(added), memr'.out)
    BY Zenon, <2>1, <2>3, <2>4, PickedMore
  <2>6. Picked(added', Len(added'), seqr'.out)
    BY Zenon, <2>5, <1>1, <1>2
  <2> QED BY Zenon, <2>2, <2>6, WholePicked
<1> QED BY Zenon, ReadEither, <1>3, <1>4

----------------------------------------------------------------------------
(* The writer: what one turn of the loop puts into the file. *)
Kind == KindOf(adding.begin, adding.left = FragmentLen)
Lead == [kind |-> Kind, rec |-> adding.rec, off |-> adding.off, len |-> FragmentLen, at |-> 1]

(* Where the writer puts the next fragment. *)
LEMMA WriterPlace ==
  ASSUME TypeOK
  PROVE  /\ block_offset \in Nat /\ block_offset <= BlockSize
         /\ adding.rec \in Nat /\ adding.off \in Nat /\ adding.left \in Nat /\ adding.begin \in BOOLEAN
         /\ Offset \in Nat /\ Offset + HeaderSize <= BlockSize
         /\ FragmentLen \in Nat /\ FragmentLen <= adding.left
         /\ Offset + HeaderSize + FragmentLen <= BlockSize
<1>1. block_offset \in Nat /\ block_offset <= BlockSize
  <2>1. block_offset \in 0..BlockSize
    BY Zenon DEF TypeOK
  <2> QED BY <2>1, Sizes
<1>2. adding.rec \in Nat /\ adding.off \in Nat /\ adding.left \in Nat /\ adding.begin \in BOOLEAN
  BY DEF TypeOK
<1>3. Offset \in Nat /\ Offset + HeaderSize <= BlockSize
  BY <1>1, Sizes DEF Offset, NewBlock, Leftover
<1>4. PICK l \in Nat, o \in Nat : l = adding.left /\ o = Offset
  BY Zenon, <1>2, <1>3
<1>5. BlockSize - o - HeaderSize \in Nat
  BY <1>3, <1>4, Sizes
<1>6. FragmentLen = Min({l, BlockSize - o - HeaderSize})
  BY Zenon, <1>4 DEF FragmentLen
<1>7. FragmentLen = IF l <= BlockSize - o - HeaderSize THEN l ELSE BlockSize - o - HeaderSize
  BY Zenon, <1>5, <1>6, MinTwo
<1>8. FragmentLen \in Nat /\ FragmentLen <= l /\ o + HeaderSize + FragmentLen <= BlockSize
  BY <1>5, <1>7, Sizes
<1> QED BY Zenon, <1>1, <1>2, <1>3, <1>4, <1>8

(* The zeroes that fill the block up. *)
LEMMA PaddingBytes ==
  ASSUME TypeOK
  PROVE  /\ Padding \in Seq(Byte)
         /\ Len(Padding) = IF NewBlock THEN Leftover ELSE 0
         /\ \A i \in 1..Len(Padding) : Padding[i].kind = "zero"
<1>1. Zero \in Byte /\ Zero.kind = "zero"
  BY DEF Zero, Byte
<1>2. CASE NewBlock
  <2>1. PICK n \in Nat : n = Leftover
    BY WriterPlace, Sizes DEF Leftover
  <2>2. Padding = [i \in 1..n |-> Zero]
    BY Zenon, <1>2, <2>1 DEF Padding
  <2>3. [i \in 1..n |-> Zero] \in [1..n -> Byte]
    BY Zenon, <1>1
  <2>4. Padding \in Seq(Byte) /\ Len(Padding) = n
    BY Zenon, <2>2, <2>3, FunctionIsSeq
  <2> QED BY Zenon, <2>1, <2>2, <2>4, <1>1, <1>2
<1>3. CASE ~NewBlock
  <2>1. Padding = <<>>
    BY Zenon, <1>3 DEF Padding
  <2>2. Padding \in Seq(Byte) /\ Len(Padding) = 0
    BY <2>1, SeqEmpty
  <2>3. 1..0 = {}
    OBVIOUS
  <2> QED BY Zenon, <2>2, <2>3, <1>3
<1> QED BY Zenon, <1>2, <1>3

(* The first byte of the next fragment. *)
LEMMA LeadFields ==
  ASSUME TypeOK
  PROVE  /\ Lead \in Byte /\ Lead.kind = Kind /\ Lead.rec = adding.rec /\ Lead.off = adding.off
         /\ Lead.len = FragmentLen /\ Lead.at = 1 /\ Lead.kind \in Kinds /\ Lead.kind # "zero"
         /\ Lead.kind \in {"full", "first"} <=> adding.begin
         /\ Lead.kind \in {"full", "last"} <=> adding.left = FragmentLen
<1>1. Kind = IF adding.begin THEN IF adding.left = FragmentLen THEN "full" ELSE "first"
             ELSE IF adding.left = FragmentLen THEN "last" ELSE "middle"
  BY WriterPlace DEF Kind, KindOf
<1>2. /\ Kind \in Kinds /\ Kind # "zero"
      /\ Kind \in {"full", "first"} <=> adding.begin
      /\ Kind \in {"full", "last"} <=> adding.left = FragmentLen
  BY <1>1 DEF Kinds
<1> HIDE DEF Kind
<1>3. Lead.kind = Kind /\ Lead.rec = adding.rec /\ Lead.off = adding.off /\ Lead.len = FragmentLen /\ Lead.at = 1
  BY DEF Lead
<1>4. Lead \in Byte
  BY <1>2, WriterPlace DEF Lead, Byte
<1> QED BY Zenon, <1>2, <1>3, <1>4

(* The bytes of the next fragment. *)
LEMMA NextBytes ==
  ASSUME TypeOK
  PROVE  /\ NextFragment \in Seq(Byte) /\ Len(NextFragment) = HeaderSize + FragmentLen
         /\ \A i \in 1..HeaderSize + FragmentLen : NextFragment[i] = [Lead EXCEPT !.at = i]
<1>1. PICK n \in Nat : n = HeaderSize + FragmentLen
  BY WriterPlace, Sizes
<1>2. NextFragment = [i \in 1..n |-> [kind |-> Kind, rec |-> adding.rec, off |-> adding.off,
                                       len |-> FragmentLen, at |-> i]]
  BY Zenon, <1>1 DEF NextFragment, Fragment, Kind
<1>3. \A i : [kind |-> Kind, rec |-> adding.rec, off |-> adding.off, len |-> FragmentLen, at |-> i]
             = [Lead EXCEPT !.at = i]
  BY DEF Lead
<1>4. \A i \in 1..n : [Lead EXCEPT !.at = i] \in Byte
  <2>1. \A i \in 1..n : i \in Nat
    OBVIOUS
  <2> QED BY Zenon, <2>1, LeadFields, ByteExcept
<1>5. NextFragment \in [1..n -> Byte] /\ \A i \in 1..n : NextFragment[i] = [Lead EXCEPT !.at = i]
  BY Zenon, <1>2, <1>3, <1>4
<1>6. NextFragment \in Seq(Byte) /\ Len(NextFragment) = n
  BY Zenon, <1>5, FunctionIsSeq
<1> QED BY Zenon, <1>1, <1>5, <1>6

(* What is written grows the file by the first t of those bytes. *)
LEMMA EmittedGrows ==
  ASSUME TypeOK, NEW k \in Nat, k <= HeaderSize + FragmentLen, NEW t \in Seq(Byte), Len(t) = k,
         \A i \in 1..k : t[i] = NextFragment[i], NEW g, g = file \o Padding \o t
  PROVE  LET m == Len(file) + Len(Padding)
         IN  g \in Seq(Byte) /\ Len(g) = m + k /\ Grown(file, g, m, Lead) /\ m \in Nat
<1>1. file \in Seq(Byte) /\ Padding \in Seq(Byte)
  BY Zenon, PaddingBytes DEF TypeOK
<1>2. PICK a \in Nat, b \in Nat : a = Len(file) /\ b = Len(Padding)
  BY Zenon, <1>1, SeqLen
<1> DEFINE q == file \o Padding
<1>3. q \in Seq(Byte) /\ Len(q) = a + b
      /\ \A i \in 1..a + b : q[i] = IF i <= a THEN file[i] ELSE Padding[i - a]
  BY <1>1, <1>2, SeqConcat
<1> HIDE DEF q
<1>4. g = q \o t
  BY Zenon DEF q
<1>5. g \in Seq(Byte) /\ Len(g) = (a + b) + k
      /\ \A i \in 1..(a + b) + k : g[i] = IF i <= a + b THEN q[i] ELSE t[i - (a + b)]
  <2>1. q \o t \in Seq(Byte) /\ Len(q \o t) = Len(q) + Len(t)
        /\ \A i \in 1..Len(q) + Len(t) : (q \o t)[i] = IF i <= Len(q) THEN q[i] ELSE t[i - Len(q)]
    BY Zenon, <1>3, SeqConcat
  <2>2. Len(q) = a + b /\ Len(t) = k
    BY Zenon, <1>3
  <2> QED BY Zenon, <2>1, <2>2, <1>4
<1>6. SameUpTo(file, g, a)
  <2>1. a <= Len(file) /\ a <= Len(g)
    BY <1>2, <1>5
  <2>2. ASSUME NEW i \in 1..a PROVE g[i] = file[i]
    <3>1. i \in 1..(a + b) + k /\ i <= a + b /\ i \in 1..a + b /\ i <= a
      OBVIOUS
    <3> QED BY Zenon, <3>1, <1>3, <1>5
  <2> QED BY Zenon, <2>1, <2>2 DEF SameUpTo
<1>7. ASSUME NEW i \in a + 1..a + b PROVE g[i].kind = "zero"
  <2>1. i \in 1..(a + b) + k /\ i <= a + b /\ i \in 1..a + b /\ ~ (i <= a) /\ i - a \in 1..b
    OBVIOUS
  <2>2. g[i] = Padding[i - a]
    BY Zenon, <2>1, <1>3, <1>5
  <2> QED BY Zenon, <2>1, <2>2, <1>2, PaddingBytes
<1>8. ASSUME NEW i \in 1..k PROVE g[(a + b) + i] = [Lead EXCEPT !.at = i]
  <2>1. (a + b) + i \in 1..(a + b) + k /\ ~ ((a + b) + i <= a + b) /\ ((a + b) + i) - (a + b) = i
    OBVIOUS
  <2>2. i \in 1..HeaderSize + FragmentLen
    BY WriterPlace, Sizes
  <2>3. g[(a + b) + i] = t[i]
    BY Zenon, <2>1, <1>5
  <2> QED BY Zenon, <2>2, <2>3, NextBytes
<1>9. PICK l \in Nat : l = FragmentLen
  BY Zenon, WriterPlace
<1>10. a <= a + b /\ a + b <= Len(g) /\ Len(g) <= (a + b) + HeaderSize + l /\ a + b \in Nat /\ Len(g) - (a + b) = k
  BY <1>5, <1>9, Sizes
<1>11. Lead.len = l
  BY Zenon, <1>9, LeadFields
<1>12. Grown(file, g, a + b, Lead)
  BY Zenon, <1>2, <1>6, <1>7, <1>8, <1>10, <1>11 DEF Grown
<1> QED BY Zenon, <1>2, <1>5, <1>10, <1>12

(* The fragment due may follow what is in the file. *)
LEMMA LeadFollows ==
  ASSUME TypeOK, FileInv, AddingInv, seqr.end = "unopened", adding # NoRecord
  PROVE  Genuine(Lead, added) /\ MayFollow(file, Lead) /\ Lead.rec = Len(added) /\ Lead.rec > durable
<1>1. /\ adding.rec = Len(added) /\ durable < adding.rec
      /\ adding.off + adding.left = added[adding.rec]
      /\ adding.begin => /\ adding.off = 0
                         /\ \A i \in 1..Len(file) : file[i].kind # "zero" => file[i].rec < adding.rec
      /\ ~adding.begin => \E s \in 0..Len(file) : /\ Continues(file, s, adding.rec, adding.off)
                                                  /\ EndOf(file, s) = Len(file)
  BY Zenon DEF AddingInv
<1>2. PICK n \in Nat, o \in Nat, l \in Nat, w \in Nat, u \in Nat :
         n = adding.rec /\ o = adding.off /\ l = adding.left /\ w = FragmentLen /\ u = durable /\ w <= l
  <2>1. durable \in Nat
    BY SeqLen DEF TypeOK
  <2> QED BY Zenon, <2>1, WriterPlace
<1>3. n \in 1..Len(added) /\ o + w <= o + l /\ (l = w <=> o + w = o + l) /\ 1 \in 1..HeaderSize + w /\ n > u
  BY <1>1, <1>2, SeqLen, Sizes
<1>4. Genuine(Lead, added)
  <2>1. Lead.rec \in 1..Len(added) /\ Lead.at \in 1..HeaderSize + Lead.len
    BY Zenon, <1>2, <1>3, LeadFields
  <2>2. Lead.off + Lead.len <= added[Lead.rec]
    BY Zenon, <1>1, <1>2, <1>3, LeadFields
  <2>3. Lead.kind \in {"full", "first"} => Lead.off = 0
    BY Zenon, <1>1, LeadFields
  <2>4. Lead.kind \in {"full", "last"} <=> Lead.off + Lead.len = added[Lead.rec]
    BY Zenon, <1>1, <1>2, <1>3, LeadFields
  <2> QED BY Zenon, <2>1, <2>2, <2>3, <2>4 DEF Genuine
<1>5. MayFollow(file, Lead)
  <2>1. ASSUME NEW i \in 1..Len(file), file[i].kind # "zero" PROVE file[i].rec <= Lead.rec
    <3>1. Genuine(file[i], added)
      BY Zenon, <2>1 DEF FileInv, Bytes
    <3>2. file[i].rec \in 1..Len(added)
      BY Zenon, <3>1 DEF Genuine
    <3>3. file[i].rec <= Len(added)
      BY <3>2
    <3> QED BY Zenon, <3>3, <1>1, LeadFields
  <2>2. Lead.kind \in {"full", "first"} => \A i \in 1..Len(file) : file[i].kind # "zero" => file[i].rec < Lead.rec
    BY Zenon, <1>1, LeadFields
  <2>3. Lead.kind \in {"middle", "last"} =>
          \E s \in 0..Len(file) : Continues(file, s, Lead.rec, Lead.off) /\ EndOf(file, s) = Len(file)
    <3>1. Lead.kind \in {"middle", "last"} => ~ (Lead.kind \in {"full", "first"})
      OBVIOUS
    <3> QED BY Zenon, <3>1, <1>1, LeadFields
  <2> QED BY Zenon, <2>1, <2>2, <2>3 DEF MayFollow
<1> QED BY Zenon, <1>1, <1>2, <1>3, <1>4, <1>5, LeadFields

(* An untouched reader: nothing is returned yet. *)
LEMMA NothingRead ==
  ASSUME TypeOK, Agree, seqr.end = "unopened", seqr' = seqr, memr' = memr
  PROVE  /\ seqr' \in Reader /\ memr' \in Reader /\ seqr'.end = "unopened" /\ memr'.end = "unopened"
         /\ Agree' /\ ReadInv' /\ WholeRecords' /\ SyncedSurvive'
<1>1. seqr'.end = "unopened" /\ memr'.end = "unopened" /\ seqr'.out = <<>> /\ seqr' \in Reader /\ memr' \in Reader
      /\ seqr'.out = memr'.out /\ seqr'.scratch = memr'.scratch /\ seqr'.in_fragmented = memr'.in_fragmented
  BY Zenon DEF TypeOK, Agree
<1>2. seqr'.end # "reading" /\ memr'.end # "reading" /\ ~ (seqr'.end \in {"eof", "corrupt"})
  BY <1>1
<1>3. Agree'
  BY Zenon, <1>1, <1>2 DEF Agree
<1>4. ReadInv'
  BY Zenon, <1>2 DEF ReadInv
<1>5. SyncedSurvive'
  BY Zenon, <1>2 DEF SyncedSurvive
<1>6. WholeRecords'
  BY Zenon, <1>1, PickedNone, WholePicked
<1> QED BY Zenon, <1>1, <1>3, <1>4, <1>5, <1>6

(* Bytes written behind the file break none of what is known of it. *)
LEMMA WrittenFile ==
  ASSUME TypeOK, FileInv, AddingInv, seqr.end = "unopened", adding # NoRecord,
         NEW g \in Seq(Byte), NEW m, Grown(file, g, m, Lead)
  PROVE  /\ Sound(g, added) /\ synced \in 0..Len(g)
         /\ \A i \in synced + 1..Len(g) : g[i].kind # "zero" => g[i].rec > durable
<1>1. file \in Seq(Byte) /\ added \in Seq(Nat) /\ Sound(file, added)
  BY Zenon DEF TypeOK, FileInv, Sound
<1>2. Lead \in Byte /\ Lead.kind # "zero"
  BY Zenon, LeadFields
<1>3. Genuine(Lead, added) /\ MayFollow(file, Lead) /\ Lead.rec > durable
  BY Zenon, LeadFollows
<1>4. Sound(g, added)
  BY Zenon, <1>1, <1>2, <1>3, GrownSound
<1>5. Len(file) \in Nat /\ Len(g) \in Nat /\ Len(file) <= Len(g) /\ synced \in 0..Len(file)
  BY <1>1, SeqLen DEF TypeOK, Grown, SameUpTo
<1>6. synced \in 0..Len(g)
  BY <1>5
<1>7. ASSUME NEW i \in synced + 1..Len(g), g[i].kind # "zero" PROVE g[i].rec > durable
  <2>1. i \in 1..Len(g)
    BY <1>5
  <2>2. CASE Old(file, g, i)
    <3>1. i \in synced + 1..Len(file)
      BY <2>2, <1>5 DEF Old
    <3> QED BY Zenon, <3>1, <2>2, <1>7 DEF FileInv, Old
  <2>3. CASE New(file, g, m, Lead, i)
    BY Zenon, <2>3, <1>3 DEF New
  <2> QED BY Zenon, <1>1, <1>2, <1>7, <2>1, <2>2, <2>3, GrownByte DEF Pad
<1> QED BY Zenon, <1>4, <1>6, <1>7

(* A turn of the loop that succeeds. *)
LEMMA EmitFile ==
  ASSUME TypeOK, Emit
  PROVE  LET m == Len(file) + Len(Padding)
         IN  /\ file' \in Seq(Byte) /\ m \in Nat /\ Grown(file, file', m, Lead)
             /\ Len(file') = m + (HeaderSize + FragmentLen)
             /\ FragmentAt(file', m) /\ EndOf(file', m) = Len(file')
             /\ file'[m + 1].kind = Lead.kind /\ file'[m + 1].rec = Lead.rec
             /\ file'[m + 1].off = Lead.off /\ file'[m + 1].len = Lead.len
<1> DEFINE m == Len(file) + Len(Padding)
           g == file'
<1>1. PICK k \in Nat, l \in Nat : k = HeaderSize + l /\ l = FragmentLen
  BY WriterPlace, Sizes
<1>2. g = file \o Padding \o NextFragment /\ NextFragment \in Seq(Byte) /\ Len(NextFragment) = k
  BY Zenon, <1>1, NextBytes DEF Emit
<1>3. k <= HeaderSize + FragmentLen
  BY <1>1, Sizes
<1>4. g \in Seq(Byte) /\ Len(g) = m + k /\ Grown(file, g, m, Lead) /\ m \in Nat
  BY Zenon, <1>1, <1>2, <1>3, EmittedGrows
<1> HIDE DEF m, g
<1>5. Lead \in Byte /\ Lead.len = l /\ Lead.kind # "zero"
  BY Zenon, <1>1, LeadFields
<1>6. \A i \in 1..k : g[m + i] = [Lead EXCEPT !.at = i]
  <2>1. Len(g) - m = k
    BY <1>4
  <2> QED BY Zenon, <2>1, <1>4 DEF Grown
<1>7. 1 \in 1..k /\ m + HeaderSize <= Len(g) /\ m + HeaderSize + l = Len(g) /\ m + HeaderSize + l <= Len(g)
  BY <1>1, <1>4, Sizes
<1>8. g[m + 1] = [Lead EXCEPT !.at = 1]
  BY Zenon, <1>6, <1>7
<1>9. /\ g[m + 1].kind = Lead.kind /\ g[m + 1].rec = Lead.rec /\ g[m + 1].off = Lead.off /\ g[m + 1].len = Lead.len
  <2>1. LET b == [Lead EXCEPT !.at = 1]
        IN  b.kind = Lead.kind /\ b.rec = Lead.rec /\ b.off = Lead.off /\ b.len = Lead.len
    BY <1>5, ByteExcept
  <2> QED BY Zenon, <2>1, <1>8
<1>10. \A i : [g[m + 1] EXCEPT !.at = i] = [Lead EXCEPT !.at = i]
  <2>1. \A i : [[Lead EXCEPT !.at = 1] EXCEPT !.at = i] = [Lead EXCEPT !.at = i]
    BY Zenon, <1>5 DEF Byte
  <2> QED BY Zenon, <2>1, <1>8
<1>11. g[m + 1].len = l
  BY Zenon, <1>5, <1>9
<1>12. FragmentAt(g, m)
  BY Zenon, <1>1, <1>5, <1>6, <1>7, <1>9, <1>10, <1>11 DEF FragmentAt
<1>13. EndOf(g, m) = Len(g)
  BY Zenon, <1>7, <1>11 DEF EndOf
<1> QED BY Zenon, <1>1, <1>4, <1>9, <1>12, <1>13 DEF m, g

----------------------------------------------------------------------------
(* What holds whether or not an append failed, action by action. *)
Framing == TypeOK /\ Agree /\ FileInv /\ AddingInv /\ ReadInv /\ WholeRecords

(* FileInv by its parts. *)
LEMMA SoundFile == FileInv <=> /\ Sound(file, added)
                               /\ \A i \in synced + 1..Len(file) : file[i].kind # "zero" => file[i].rec > durable
BY Zenon DEF FileInv, Sound

(* The same after a step. *)
LEMMA SoundFileNext ==
  ASSUME Sound(file', added'), \A i \in synced' + 1..Len(file') : file'[i].kind # "zero" => file'[i].rec > durable'
  PROVE  FileInv'
BY Zenon DEF FileInv, Sound

(* Framing, action by action. *)
LEMMA InitFraming == Init => Framing /\ SyncedSurvive
<1> SUFFICES ASSUME Init PROVE Framing /\ SyncedSurvive
  OBVIOUS
<1>1. seqr = Unopened /\ memr = Unopened /\ file = <<>> /\ added = <<>> /\ adding = NoRecord
      /\ synced = 0 /\ block_offset = 0 /\ durable = 0 /\ faults = 0 /\ torn = FALSE
  BY Zenon DEF Init
<1>2. <<>> \in Seq(Byte) /\ <<>> \in Seq(Nat) /\ <<>> \in Data /\ <<>> \in Seq(Data) /\ Len(<<>>) = 0
  BY SeqEmpty DEF Data
<1>3. Unopened \in Reader /\ Unopened.end = "unopened" /\ Unopened.out = <<>>
  <2> HIDE DEF Data
  <2> QED BY <1>2 DEF Unopened, Reader
<1>4. TypeOK
  <2>1. adding \in [rec : Nat, off : Nat, left : Nat, begin : BOOLEAN]
    BY <1>1 DEF NoRecord
  <2>2. 0 \in 0..0 /\ 0 \in 0..BlockSize /\ 0 \in Nat /\ FALSE \in BOOLEAN
    BY Sizes
  <2> QED BY Zenon, <1>1, <1>2, <1>3, <2>1, <2>2 DEF TypeOK
<1>5. seqr.end # "reading" /\ memr.end # "reading" /\ ~ (seqr.end \in {"eof", "corrupt"})
  BY <1>1, <1>3
<1>6. Agree
  BY Zenon, <1>1, <1>3, <1>5 DEF Agree
<1>7. FileInv
  <2>1. 1..Len(file) = {} /\ 0..Len(file) - 1 = {} /\ synced + 1..Len(file) = {}
    BY <1>1, <1>2
  <2> QED BY Zenon, <2>1 DEF FileInv, Bytes, Ordered, Starts, Linked
<1>8. AddingInv
  BY Zenon, <1>1 DEF AddingInv
<1>9. ReadInv /\ SyncedSurvive
  BY Zenon, <1>5 DEF ReadInv, SyncedSurvive
<1>10. WholeRecords
  BY Zenon, <1>1, <1>3, PickedNone, WholePicked
<1> QED BY Zenon, <1>4, <1>6, <1>7, <1>8, <1>9, <1>10 DEF Framing

(* A record is begun. *)
LEMMA BeginRecordFraming ==
  \A len \in Lengths :
    Framing /\ BeginRecord(len) =>
      Framing' /\ SyncedSurvive'
<1>1. ASSUME NEW adds \in Seq(Nat), NEW len \in Nat, NEW b, Genuine(b, adds)
      PROVE  Genuine(b, Append(adds, len))
  <2> USE <1>1
  <2>1. b.rec \in 1..Len(adds)
    BY Zenon DEF Genuine
  <2>2. b.rec \in 1..Len(Append(adds, len)) /\ Append(adds, len)[b.rec] = adds[b.rec]
    BY <2>1, SeqAppend
  <2> QED BY Zenon, <2>2 DEF Genuine
<1>2. ASSUME Framing, NEW len \in Lengths, BeginRecord(len)
      PROVE  Framing' /\ SyncedSurvive'
  <2> USE <1>2
  <2>1. TypeOK /\ Agree /\ FileInv /\ Sound(file, added)
    BY Zenon, SoundFile DEF Framing
  <2>2. /\ seqr.end = "unopened" /\ added' = Append(added, len)
        /\ adding' = [rec |-> Len(added) + 1, off |-> 0, left |-> len, begin |-> TRUE]
        /\ file' = file /\ synced' = synced /\ block_offset' = block_offset /\ durable' = durable
        /\ faults' = faults /\ torn' = torn /\ seqr' = seqr /\ memr' = memr
    BY Zenon DEF BeginRecord
  <2>3. len \in Nat /\ added \in Seq(Nat) /\ Len(added) \in Nat /\ durable \in 0..Len(added)
    BY LogAssumption, SeqLen, <2>1 DEF TypeOK
  <2>4. added' \in Seq(Nat) /\ Len(added') = Len(added) + 1 /\ added'[Len(added) + 1] = len
    BY <2>2, <2>3, SeqAppend
  <2>5. Bytes(file, added')
    BY Zenon, <2>1, <2>2, <2>3, <1>1 DEF Sound, Bytes
  <2>6. FileInv'
    <3>1. Sound(file', added')
      BY Zenon, <2>1, <2>2, <2>5 DEF Sound
    <3>2. \A i \in synced' + 1..Len(file') : file'[i].kind # "zero" => file'[i].rec > durable'
      BY Zenon, <2>1, <2>2 DEF FileInv
    <3> QED BY Zenon, <3>1, <3>2, SoundFileNext
  <2>7. adding'.rec = Len(added) + 1 /\ adding'.off = 0 /\ adding'.left = len /\ adding'.begin = TRUE
        /\ adding' \in [rec : Nat, off : Nat, left : Nat, begin : BOOLEAN]
    BY <2>2, <2>3
  <2>8. AddingInv'
    <3>1. durable < Len(added) + 1 /\ 0 + len = len
      BY <2>3
    <3>2. ASSUME NEW i \in 1..Len(file), file[i].kind # "zero" PROVE file[i].rec < Len(added) + 1
      <4>1. Genuine(file[i], added)
        BY Zenon, <2>1, <3>2 DEF Sound, Bytes
      <4>2. file[i].rec \in 1..Len(added)
        BY Zenon, <4>1 DEF Genuine
      <4> QED BY <4>2, <2>3
    <3>3. adding'.rec = Len(added') /\ durable' < adding'.rec /\ adding'.off + adding'.left = added'[adding'.rec]
      BY Zenon, <2>2, <2>4, <2>7, <3>1
    <3>4. \A i \in 1..Len(file') : file'[i].kind # "zero" => file'[i].rec < adding'.rec
      BY Zenon, <2>2, <2>7, <3>2
    <3> QED BY Zenon, <2>7, <3>3, <3>4 DEF AddingInv
  <2>9. durable \in 0..Len(added')
    BY <2>3, <2>4
  <2>10. /\ seqr' \in Reader /\ memr' \in Reader /\ Agree' /\ ReadInv' /\ WholeRecords' /\ SyncedSurvive'
    BY Zenon, <2>1, <2>2, NothingRead
  <2>11. TypeOK'
    BY Zenon, <2>1, <2>2, <2>4, <2>7, <2>9, <2>10 DEF TypeOK
  <2> QED BY Zenon, <2>6, <2>8, <2>10, <2>11 DEF Framing
<1> QED BY Zenon, <1>2

(* A fragment is written. *)
LEMMA EmitFraming ==
  ASSUME Framing, Emit
  PROVE  Framing' /\ SyncedSurvive'
<1>1. TypeOK /\ Agree /\ FileInv /\ AddingInv
  BY Zenon DEF Framing
<1>2. /\ seqr.end = "unopened" /\ adding # NoRecord
      /\ block_offset' = Offset + HeaderSize + FragmentLen
      /\ adding' = IF adding.left = FragmentLen THEN NoRecord
                   ELSE [adding EXCEPT !.off = @ + FragmentLen, !.left = @ - FragmentLen, !.begin = FALSE]
      /\ synced' = synced /\ added' = added /\ durable' = durable
      /\ faults' = faults /\ torn' = torn /\ seqr' = seqr /\ memr' = memr
  BY Zenon DEF Emit
<1> DEFINE m == Len(file) + Len(Padding)
<1>3. /\ file' \in Seq(Byte) /\ m \in Nat /\ Grown(file, file', m, Lead)
      /\ Len(file') = m + (HeaderSize + FragmentLen)
      /\ FragmentAt(file', m) /\ EndOf(file', m) = Len(file')
      /\ file'[m + 1].kind = Lead.kind /\ file'[m + 1].rec = Lead.rec
      /\ file'[m + 1].off = Lead.off /\ file'[m + 1].len = Lead.len
  BY Zenon, <1>1, EmitFile
<1> HIDE DEF m
<1>4. /\ Sound(file', added) /\ synced \in 0..Len(file')
      /\ \A i \in synced + 1..Len(file') : file'[i].kind # "zero" => file'[i].rec > durable
  BY Zenon, <1>1, <1>2, <1>3, WrittenFile
<1>5. FileInv'
  BY Zenon, <1>2, <1>4, SoundFileNext
<1>6. PICK n \in Nat, o \in Nat, l \in Nat, w \in Nat :
         n = adding.rec /\ o = adding.off /\ l = adding.left /\ w = FragmentLen /\ w <= l
  BY Zenon, <1>1, WriterPlace
<1>7. adding.left # FragmentLen =>
         /\ adding'.rec = n /\ adding'.off = o + w /\ adding'.left = l - w /\ adding'.begin = FALSE
         /\ adding' \in [rec : Nat, off : Nat, left : Nat, begin : BOOLEAN]
  <2> SUFFICES ASSUME adding.left # FragmentLen
               PROVE  /\ adding'.rec = n /\ adding'.off = o + w /\ adding'.left = l - w /\ adding'.begin = FALSE
                      /\ adding' \in [rec : Nat, off : Nat, left : Nat, begin : BOOLEAN]
    BY Zenon
  <2>1. adding' = [adding EXCEPT !.off = @ + w, !.left = @ - w, !.begin = FALSE]
    BY Zenon, <1>2, <1>6
  <2>2. adding \in [rec : Nat, off : Nat, left : Nat, begin : BOOLEAN]
    BY Zenon, <1>1 DEF TypeOK
  <2>3. l - w \in Nat /\ o + w \in Nat
    BY <1>6
  <2> QED BY Zenon, <2>1, <2>2, <2>3, <1>6
<1>8. adding' \in [rec : Nat, off : Nat, left : Nat, begin : BOOLEAN]
  <2>1. NoRecord \in [rec : Nat, off : Nat, left : Nat, begin : BOOLEAN]
    BY DEF NoRecord
  <2> QED BY Zenon, <2>1, <1>2, <1>7
<1>9. AddingInv'
  <2> SUFFICES ASSUME adding' # NoRecord
               PROVE  /\ adding'.rec = Len(added') /\ durable' < adding'.rec
                      /\ adding'.off + adding'.left = added'[adding'.rec]
                      /\ ~adding'.begin
                      /\ \E s \in 0..Len(file') : /\ Continues(file', s, adding'.rec, adding'.off)
                                                  /\ EndOf(file', s) = Len(file')
    BY Zenon DEF AddingInv
  <2>1. adding.left # FragmentLen /\ adding'.rec = n /\ adding'.off = o + w /\ adding'.left = l - w /\ ~adding'.begin
    BY Zenon, <1>2, <1>7
  <2>2. adding.rec = Len(added) /\ durable < adding.rec /\ adding.off + adding.left = added[adding.rec]
    BY Zenon, <1>1, <1>2 DEF AddingInv
  <2>3. (o + w) + (l - w) = o + l
    BY <1>6
  <2>4. adding'.rec = Len(added') /\ durable' < adding'.rec /\ adding'.off + adding'.left = added'[adding'.rec]
    BY Zenon, <1>2, <1>6, <2>1, <2>2, <2>3
  <2>5. Lead.kind \in {"first", "middle"}
    <3>1. ~ (Lead.kind \in {"full", "last"}) /\ Lead.kind \in Kinds
      BY Zenon, <1>1, <2>1, LeadFields
    <3> QED BY <3>1 DEF Kinds
  <2>6. Lead.rec = n /\ Lead.off + Lead.len = o + w
    BY Zenon, <1>1, <1>6, LeadFields
  <2>7. Continues(file', m, adding'.rec, adding'.off)
    BY Zenon, <1>3, <2>1, <2>5, <2>6 DEF Continues
  <2>8. m \in 0..Len(file')
    BY <1>3, <1>6, Sizes
  <2> QED BY Zenon, <1>3, <2>1, <2>4, <2>7, <2>8
<1>10. block_offset' \in 0..BlockSize
  <2>1. Offset \in Nat /\ FragmentLen \in Nat /\ Offset + HeaderSize + FragmentLen <= BlockSize
    BY Zenon, <1>1, WriterPlace
  <2> QED BY <2>1, <1>2, Sizes
<1>11. /\ seqr' \in Reader /\ memr' \in Reader /\ Agree' /\ ReadInv' /\ WholeRecords' /\ SyncedSurvive'
  BY Zenon, <1>1, <1>2, NothingRead
<1>12. TypeOK'
  BY Zenon, <1>1, <1>2, <1>3, <1>4, <1>8, <1>10, <1>11 DEF TypeOK
<1> QED BY Zenon, <1>5, <1>9, <1>11, <1>12 DEF Framing

(* A fragment is written in part, or not at all. *)
LEMMA EmitFailsFraming ==
  ASSUME Framing, EmitFails
  PROVE  Framing' /\ SyncedSurvive'
<1>1. TypeOK /\ Agree /\ FileInv /\ AddingInv
  BY Zenon DEF Framing
<1>2. /\ seqr.end = "unopened" /\ adding # NoRecord /\ adding' = NoRecord /\ faults' = faults + 1
      /\ synced' = synced /\ added' = added /\ durable' = durable
      /\ torn' = torn /\ seqr' = seqr /\ memr' = memr
  BY Zenon DEF EmitFails
<1>3. /\ file' \in Seq(Byte) /\ Sound(file', added) /\ synced \in 0..Len(file') /\ block_offset' \in 0..BlockSize
      /\ \A i \in synced + 1..Len(file') : file'[i].kind # "zero" => file'[i].rec > durable
  <2>1. CASE UNCHANGED <<file, block_offset>>
    BY Zenon, <2>1, <1>1, SoundFile DEF TypeOK, FileInv
  <2>2. CASE /\ \E k \in 0..Len(NextFragment) : file' = file \o Padding \o SubSeq(NextFragment, 1, k)
             /\ block_offset' = Offset
    <3>1. PICK k \in 0..Len(NextFragment) : file' = file \o Padding \o SubSeq(NextFragment, 1, k)
      BY Zenon, <2>2
    <3> DEFINE t == SubSeq(NextFragment, 1, k)
               m == Len(file) + Len(Padding)
    <3>2. NextFragment \in Seq(Byte) /\ Len(NextFragment) = HeaderSize + FragmentLen /\ FragmentLen \in Nat
      BY Zenon, <1>1, NextBytes, WriterPlace
    <3>3. k \in Nat /\ k <= HeaderSize + FragmentLen /\ k <= Len(NextFragment)
      BY <3>2, Sizes
    <3>4. t \in Seq(Byte) /\ Len(t) = k /\ \A i \in 1..k : t[i] = NextFragment[i]
      BY <3>2, <3>3, SeqCut
    <3>5. file' \in Seq(Byte) /\ Grown(file, file', m, Lead)
      BY Zenon, <1>1, <3>1, <3>3, <3>4, EmittedGrows
    <3>6. /\ Sound(file', added) /\ synced \in 0..Len(file')
          /\ \A i \in synced + 1..Len(file') : file'[i].kind # "zero" => file'[i].rec > durable
      BY Zenon, <1>1, <1>2, <3>5, WrittenFile
    <3>7. block_offset' \in 0..BlockSize
      BY <1>1, <2>2, WriterPlace, Sizes
    <3> QED BY Zenon, <3>5, <3>6, <3>7
  <2> QED BY Zenon, <2>1, <2>2 DEF EmitFails
<1>4. FileInv'
  BY Zenon, <1>2, <1>3, SoundFileNext
<1>5. AddingInv'
  BY Zenon, <1>2 DEF AddingInv
<1>6. /\ seqr' \in Reader /\ memr' \in Reader /\ Agree' /\ ReadInv' /\ WholeRecords' /\ SyncedSurvive'
  BY Zenon, <1>1, <1>2, NothingRead
<1>7. NoRecord \in [rec : Nat, off : Nat, left : Nat, begin : BOOLEAN] /\ faults + 1 \in Nat
  BY <1>1 DEF NoRecord, TypeOK
<1>8. TypeOK'
  BY Zenon, <1>1, <1>2, <1>3, <1>6, <1>7 DEF TypeOK
<1> QED BY Zenon, <1>4, <1>5, <1>6, <1>8 DEF Framing

(* The file is synced. *)
LEMMA SyncFraming ==
  ASSUME Framing, Sync
  PROVE  Framing' /\ SyncedSurvive'
<1>1. TypeOK /\ Agree /\ FileInv /\ Sound(file, added)
  BY Zenon, SoundFile DEF Framing
<1>2. /\ seqr.end = "unopened" /\ adding = NoRecord /\ synced' = Len(file) /\ durable' = Len(added)
      /\ file' = file /\ block_offset' = block_offset /\ adding' = adding /\ added' = added
      /\ faults' = faults /\ torn' = torn /\ seqr' = seqr /\ memr' = memr
  BY Zenon DEF Sync
<1>3. Len(file) \in 0..Len(file) /\ Len(added) \in 0..Len(added) /\ Len(file) + 1..Len(file) = {}
  <2>1. Len(file) \in Nat /\ Len(added) \in Nat
    BY Zenon, <1>1, SeqLen DEF TypeOK
  <2> QED BY <2>1
<1>4. FileInv'
  BY Zenon, <1>1, <1>2, <1>3, SoundFileNext
<1>5. AddingInv'
  BY Zenon, <1>2 DEF AddingInv
<1>6. /\ seqr' \in Reader /\ memr' \in Reader /\ Agree' /\ ReadInv' /\ WholeRecords' /\ SyncedSurvive'
  BY Zenon, <1>1, <1>2, NothingRead
<1>7. TypeOK'
  BY Zenon, <1>1, <1>2, <1>3, <1>6 DEF TypeOK
<1> QED BY Zenon, <1>4, <1>5, <1>6, <1>7 DEF Framing

(* What the crash leaves of the file. *)
LEMMA ReopenTears ==
  ASSUME TypeOK, Reopen
  PROVE  file' \in Seq(Byte) /\ \E k \in synced..Len(file) : Torn(file, file', k)
<1>1. file \in Seq(Byte) /\ synced \in 0..Len(file) /\ Len(file) \in Nat
  BY Zenon, SeqLen DEF TypeOK
<1>2. PICK k \in synced..Len(file) :
         \/ file' = SubSeq(file, 1, k)
         \/ file' = SubSeq(file, 1, k) \o [i \in 1..Len(file) - k |-> Zero]
  BY Zenon DEF Reopen
<1>3. k \in Nat /\ k <= Len(file)
  BY <1>1
<1> DEFINE t == SubSeq(file, 1, k)
<1>4. t \in Seq(Byte) /\ Len(t) = k /\ \A i \in 1..k : t[i] = file[i]
  BY <1>1, <1>3, SeqCut
<1> HIDE DEF t
<1>5. CASE file' = t
  <2>1. file' \in Seq(Byte) /\ Len(file') = k /\ k <= k /\ k + 1..k = {}
    BY <1>3, <1>4, <1>5
  <2>2. Torn(file, file', k)
    BY Zenon, <2>1, <1>3, <1>4, <1>5 DEF Torn, SameUpTo
  <2> QED BY Zenon, <2>1, <2>2
<1>6. CASE file' = t \o [i \in 1..Len(file) - k |-> Zero]
  <2>1. PICK n \in Nat : n = Len(file) - k
    BY <1>1, <1>3
  <2> DEFINE z == [i \in 1..n |-> Zero]
  <2>2. Zero \in Byte /\ Zero.kind = "zero"
    BY DEF Zero, Byte
  <2>3. z \in [1..n -> Byte]
    BY Zenon, <2>2
  <2>4. z \in Seq(Byte) /\ Len(z) = n /\ \A i \in 1..n : z[i].kind = "zero"
    BY Zenon, <2>2, <2>3, FunctionIsSeq
  <2>5. file' = t \o z
    BY Zenon, <1>6, <2>1
  <2> HIDE DEF z
  <2>6. t \o z \in Seq(Byte) /\ Len(t \o z) = Len(t) + Len(z)
        /\ \A i \in 1..Len(t) + Len(z) : (t \o z)[i] = IF i <= Len(t) THEN t[i] ELSE z[i - Len(t)]
    BY Zenon, <1>4, <2>4, SeqConcat
  <2>7. file' \in Seq(Byte) /\ Len(file') = k + n
        /\ \A i \in 1..k + n : file'[i] = IF i <= k THEN t[i] ELSE z[i - k]
    BY Zenon, <1>4, <2>4, <2>5, <2>6
  <2>8. SameUpTo(file, file', k)
    <3>1. k <= Len(file') /\ \A i \in 1..k : i \in 1..k + n /\ i <= k
      BY <1>3, <2>7
    <3> QED BY Zenon, <3>1, <1>3, <1>4, <2>7 DEF SameUpTo
  <2>9. ASSUME NEW i \in k + 1..Len(file') PROVE file'[i].kind = "zero"
    <3>1. i \in 1..k + n /\ ~ (i <= k) /\ i - k \in 1..n
      BY <1>3, <2>7
    <3> QED BY Zenon, <3>1, <2>4, <2>7
  <2>10. Torn(file, file', k)
    BY Zenon, <2>8, <2>9 DEF Torn
  <2> QED BY Zenon, <2>7, <2>10
<1> QED BY Zenon, <1>2, <1>5, <1>6 DEF t

(* The crash and the restart. *)
LEMMA ReopenFraming ==
  ASSUME Framing, Reopen
  PROVE  Framing' /\ SyncedSurvive'
<1>1. TypeOK /\ FileInv /\ Sound(file, added) /\ file \in Seq(Byte) /\ added \in Seq(Nat)
  BY Zenon, SoundFile DEF Framing, TypeOK
<1>2. /\ seqr' = [Unopened EXCEPT !.end = "reading"] /\ memr' = [Unopened EXCEPT !.end = "reading"]
      /\ torn' = (file' # file \/ adding # NoRecord)
      /\ synced' = synced /\ block_offset' = block_offset /\ adding' = adding /\ added' = added
      /\ durable' = durable /\ faults' = faults
  BY Zenon DEF Reopen
<1>3. /\ seqr' \in Reader /\ seqr'.end = "reading" /\ seqr'.out = <<>> /\ seqr'.in_fragmented = FALSE
      /\ seqr'.block = 0 /\ seqr'.off = 0
  <2>1. <<>> \in Data /\ <<>> \in Seq(Data)
    BY SeqEmpty DEF Data
  <2> HIDE DEF Data
  <2> QED BY Zenon, <2>1, <1>2 DEF Unopened, Reader
<1>4. memr' = seqr'
  BY Zenon, <1>2
<1>5. PICK k \in synced..Len(file) : file' \in Seq(Byte) /\ Torn(file, file', k)
  BY Zenon, <1>1, ReopenTears
<1>6. k \in Nat /\ synced \in Nat /\ Len(file) \in Nat /\ Len(file') \in Nat /\ synced <= k /\ k <= Len(file')
  <2>1. synced \in 0..Len(file) /\ Len(file) \in Nat /\ Len(file') \in Nat /\ k <= Len(file')
    BY Zenon, <1>1, <1>5, SeqLen DEF TypeOK, Torn, SameUpTo
  <2> QED BY <2>1
<1>7. synced \in 0..Len(file')
  BY <1>6
<1>8. FileInv'
  <2>1. Sound(file', added')
    BY Zenon, <1>1, <1>2, <1>5, <1>6, TornSound
  <2>2. ASSUME NEW i \in synced + 1..Len(file'), file'[i].kind # "zero" PROVE file'[i].rec > durable
    <3>1. i \in 1..Len(file')
      BY <1>6
    <3>2. i \in 1..k /\ i \in 1..Len(file) /\ file'[i] = file[i]
      BY Zenon, <3>1, <2>2, <1>1, <1>5, <1>6, TornByte
    <3>3. i \in synced + 1..Len(file)
      BY <3>2, <1>6
    <3> QED BY Zenon, <3>2, <3>3, <2>2, <1>1 DEF FileInv
  <2> QED BY Zenon, <2>1, <2>2, <1>2, SoundFileNext
<1>9. seqr'.end # "unopened" /\ ~ (seqr'.end \in {"eof", "corrupt"})
  BY <1>3
<1>10. AddingInv' /\ SyncedSurvive'
  BY Zenon, <1>9 DEF AddingInv, SyncedSurvive
<1>11. Agree'
  <2>1. 0 <= Len(file') /\ ~ (0 > 0)
    BY <1>6
  <2> QED BY Zenon, <2>1, <1>3, <1>4, <1>9 DEF Agree
<1>12. ReadInv'
  BY Zenon, <1>3, <1>4 DEF ReadInv
<1>13. WholeRecords'
  BY Zenon, <1>3, PickedNone, WholePicked
<1>14. torn' \in BOOLEAN
  BY <1>2
<1>15. TypeOK'
  BY Zenon, <1>1, <1>2, <1>3, <1>4, <1>5, <1>7, <1>14 DEF TypeOK
<1> QED BY Zenon, <1>8, <1>10, <1>11, <1>12, <1>13, <1>15 DEF Framing

(* Both readers go one step. *)
LEMMA ReadFraming ==
  ASSUME Framing, Read
  PROVE  Framing'
<1>1. TypeOK /\ Agree /\ FileInv /\ AddingInv /\ ReadInv /\ WholeRecords
  BY Zenon DEF Framing
<1>2. ReadInv' /\ WholeRecords'
  BY Zenon, <1>1, ReadWhole
<1>3. /\ memr.end = "reading" /\ file' = file /\ added' = added
      /\ memr' \in Reader /\ seqr' \in Reader /\ Agree' /\ memr'.end \in {"reading", "eof", "corrupt"}
  BY Zenon, <1>1, ReadEither
<1>4. /\ synced' = synced /\ block_offset' = block_offset /\ adding' = adding
      /\ durable' = durable /\ faults' = faults /\ torn' = torn
  BY Zenon DEF Read, wvars
<1>5. TypeOK'
  BY Zenon, <1>1, <1>3, <1>4 DEF TypeOK
<1>6. FileInv'
  BY Zenon, <1>1, <1>3, <1>4 DEF FileInv
<1>7. seqr'.end = memr'.end /\ seqr'.end # "unopened"
  BY <1>3 DEF Agree
<1>8. AddingInv'
  BY Zenon, <1>7 DEF AddingInv
<1> QED BY Zenon, <1>2, <1>3, <1>5, <1>6, <1>8 DEF Framing

(* A step that changes nothing. *)
LEMMA SameVariables ==
  ASSUME UNCHANGED vars
  PROVE  /\ file' = file /\ synced' = synced /\ block_offset' = block_offset /\ adding' = adding /\ added' = added
         /\ durable' = durable /\ faults' = faults /\ torn' = torn /\ seqr' = seqr /\ memr' = memr
BY Zenon DEF vars, wvars

(* Framing over such a step. *)
LEMMA StutterFraming ==
  ASSUME Framing, UNCHANGED vars
  PROVE  Framing'
<1>1. TypeOK'
  BY Zenon, SameVariables DEF Framing, TypeOK
<1>2. Agree'
  BY Zenon, SameVariables DEF Framing, Agree
<1>3. FileInv'
  BY Zenon, SameVariables DEF Framing, FileInv
<1>4. AddingInv'
  BY Zenon, SameVariables DEF Framing, AddingInv
<1>5. ReadInv'
  BY Zenon, SameVariables DEF Framing, ReadInv
<1>6. WholeRecords'
  <2>1. \A n : Whole(n)' = Whole(n)
    BY Zenon, SameVariables DEF Whole
  <2> QED BY Zenon, <2>1, SameVariables DEF Framing, WholeRecords
<1> QED BY Zenon, <1>1, <1>2, <1>3, <1>4, <1>5, <1>6 DEF Framing

(* Framing is inductive. *)
LEMMA FramingStep == Framing /\ [Next]_vars => Framing'
<1> SUFFICES ASSUME Framing, [Next]_vars PROVE Framing'
  OBVIOUS
<1>1. ASSUME NEW len \in Lengths, BeginRecord(len) PROVE Framing'
  BY Zenon, <1>1, BeginRecordFraming
<1>2. CASE Emit
  BY Zenon, <1>2, EmitFraming
<1>3. CASE EmitFails
  BY Zenon, <1>3, EmitFailsFraming
<1>4. CASE Sync
  BY Zenon, <1>4, SyncFraming
<1>5. CASE Reopen
  BY Zenon, <1>5, ReopenFraming
<1>6. CASE Read
  BY Zenon, <1>6, ReadFraming
<1>7. CASE UNCHANGED vars
  BY Zenon, <1>7, StutterFraming
<1> QED BY Zenon, <1>1, <1>2, <1>3, <1>4, <1>5, <1>6, <1>7 DEF Next

(* Framing always holds. *)
LEMMA AlwaysFraming == Spec => []Framing
<1>1. Init => Framing
  BY Zenon, InitFraming
<1> QED BY <1>1, FramingStep, PTL DEF Spec

(***************************************************************************)
(* ReadersAgree: the reader of blocks and the reader in memory return the  *)
(* same records and stop the same way, whatever failed appends and the     *)
(* crash left in the file.                                                 *)
(***************************************************************************)
THEOREM ReadersAlwaysAgree == Spec => []ReadersAgree
<1>1. Framing => ReadersAgree
  BY Zenon DEF Framing, Agree, ReadersAgree
<1> QED BY <1>1, AlwaysFraming, PTL

(***************************************************************************)
(* WholeRecords: whatever failed appends and the crash left in the file, a *)
(* reader returns records that were added, whole, in order and none twice. *)
(***************************************************************************)
THEOREM OnlyWholeRecords == Spec => []WholeRecords
<1>1. Framing => WholeRecords
  BY Zenon DEF Framing
<1> QED BY <1>1, AlwaysFraming, PTL

----------------------------------------------------------------------------

(* The last byte of a fragment. *)
LEMMA LastByte ==
  ASSUME NEW f \in Seq(Byte), NEW s \in Nat, FragmentAt(f, s)
  PROVE  LET e == EndOf(f, s)
         IN  /\ e \in Nat \ {0} /\ e \in 1..Len(f) /\ f[e].kind = f[s + 1].kind /\ f[e].rec = f[s + 1].rec
             /\ f[e].kind # "zero" /\ Boundary(f, e)
<1>1. f[s + 1].len \in Nat /\ f[s + 1].kind # "zero"
  BY FragmentBytes, ByteFields DEF FragmentAt
<1>2. PICK l \in Nat : l = f[s + 1].len
  BY Zenon, <1>1
<1>3. PICK e \in Nat : e = EndOf(f, s) /\ e = s + HeaderSize + l
  BY <1>2, Sizes DEF EndOf
<1>4. HeaderSize + l \in 1..HeaderSize + l /\ s + (HeaderSize + l) = e /\ e # 0
  BY <1>3, Sizes
<1>5. /\ f[e].kind = f[s + 1].kind /\ f[e].rec = f[s + 1].rec /\ f[e].len = f[s + 1].len /\ f[e].at = HeaderSize + l
      /\ e \in 1..Len(f)
  <2>1. HeaderSize + l \in 1..HeaderSize + f[s + 1].len
    BY Zenon, <1>2, <1>4
  <2> HIDE DEF EndOf
  <2>2. LET i == HeaderSize + l
        IN  /\ s + i \in 1..Len(f) /\ f[s + i].kind = f[s + 1].kind /\ f[s + i].rec = f[s + 1].rec
            /\ f[s + i].len = f[s + 1].len /\ f[s + i].at = i
    BY <2>1, FragmentBytes
  <2> QED BY Zenon, <2>2, <1>4
<1>6. Boundary(f, e)
  BY Zenon, <1>1, <1>2, <1>5 DEF Boundary
<1> QED BY Zenon, <1>1, <1>3, <1>4, <1>5, <1>6

(* What is known of the first n bytes stays known while they stay. *)
LEMMA BoundarySame ==
  ASSUME NEW f, NEW g, NEW n \in Nat, SameUpTo(f, g, n), NEW s \in Nat, s <= n
  PROVE  (Boundary(g, s) <=> Boundary(f, s)) /\ (s # 0 => g[s] = f[s])
<1>1. s = 0 \/ s \in 1..n
  OBVIOUS
<1>2. s # 0 => g[s] = f[s]
  BY Zenon, <1>1 DEF SameUpTo
<1> QED BY Zenon, <1>2 DEF Boundary

(* Fragments found stay found. *)
LEMMA PresentKept ==
  ASSUME NEW f \in Seq(Byte), NEW g \in Seq(Byte), NEW n \in Nat, SameUpTo(f, g, n),
         NEW k \in Nat, k <= n, Present(f, k)
  PROVE  Present(g, k)
<1> SUFFICES ASSUME NEW s \in 0..k - 1, Boundary(g, s)
             PROVE  /\ FragmentAt(g, Skip(s)) /\ EndOf(g, Skip(s)) <= k
                    /\ g[Skip(s) + 1].len <= BlockSize - (Skip(s) % BlockSize) - HeaderSize
  BY Zenon DEF Present
<1>1. s \in Nat /\ s <= n
  OBVIOUS
<1>2. Boundary(f, s)
  BY Zenon, <1>1, BoundarySame
<1>3. /\ FragmentAt(f, Skip(s)) /\ EndOf(f, Skip(s)) <= k
      /\ f[Skip(s) + 1].len <= BlockSize - (Skip(s) % BlockSize) - HeaderSize
  BY Zenon, <1>2 DEF Present
<1>4. PICK d \in Nat : d = Skip(s)
  BY Zenon, <1>1, SkipPlace
<1>5. EndOf(f, d) \in Nat
  BY Zenon, <1>3, <1>4, LastByte
<1>6. EndOf(f, d) <= n /\ FragmentAt(f, d)
  <2>1. EndOf(f, d) <= k /\ FragmentAt(f, d)
    BY Zenon, <1>3, <1>4
  <2> QED BY <2>1, <1>5
<1>7. FragmentAt(g, d) /\ EndOf(g, d) = EndOf(f, d) /\ g[d + 1] = f[d + 1]
  BY Zenon, <1>6, FragmentKept
<1> QED BY Zenon, <1>3, <1>4, <1>7

(* The end of a record stays one. *)
LEMMA ClosedKept ==
  ASSUME NEW f, NEW g, NEW n \in Nat, SameUpTo(f, g, n), NEW k \in Nat, k <= n, NEW r, Closed(f, k, r)
  PROVE  Closed(g, k, r)
<1>1. (Boundary(g, k) <=> Boundary(f, k)) /\ (k # 0 => g[k] = f[k])
  BY Zenon, BoundarySame
<1> QED BY Zenon, <1>1 DEF Closed

(* CleanInv, action by action. *)
LEMMA InitClean == Init => CleanInv
<1> SUFFICES ASSUME Init PROVE CleanInv
  OBVIOUS
<1>1. file = <<>> /\ added = <<>> /\ adding = NoRecord /\ synced = 0 /\ block_offset = 0 /\ durable = 0
      /\ seqr = Unopened /\ memr = Unopened
  BY Zenon DEF Init
<1>2. Len(file) = 0 /\ Len(added) = 0 /\ seqr.end = "unopened" /\ memr.end # "reading"
  BY <1>1 DEF Unopened
<1>3. InOrder(file)
  <2>1. ASSUME NEW s \in 0..Len(file) PROVE ~ (Skip(s) < Len(file))
    <3>1. s \in Nat /\ s = 0
      BY <1>2
    <3>2. Skip(s) \in Nat
      BY Zenon, <3>1, SkipPlace
    <3> QED BY <3>2, <1>2
  <2> QED BY Zenon, <2>1 DEF InOrder
<1>4. Present(file, 0)
  <2>1. 0..0 - 1 = {}
    OBVIOUS
  <2> QED BY Zenon, <2>1 DEF Present
<1>5. Closed(file, 0, 0)
  BY Zenon DEF Closed
<1> QED BY Zenon, <1>1, <1>2, <1>3, <1>4, <1>5 DEF CleanInv

(* What the writer knows of the file between two turns of its loop. *)
Tidy(f, place, a, adds) ==
    /\ InOrder(f) /\ Present(f, Len(f)) /\ Len(f) % BlockSize = place % BlockSize
    /\ a = NoRecord => Closed(f, Len(f), Len(adds))
    /\ a # NoRecord /\ a.begin => Closed(f, Len(f), Len(adds) - 1)

(* CleanInv while the log is written. *)
LEMMA CleanWriter ==
  ASSUME CleanInv, faults = 0, seqr.end = "unopened"
  PROVE  Tidy(file, block_offset, adding, added) /\ Present(file, synced) /\ Closed(file, synced, durable)
BY Zenon DEF CleanInv, Tidy

(* The same after a step. *)
LEMMA CleanWriterNext ==
  ASSUME seqr'.end = "unopened", memr'.end = "unopened", Tidy(file', block_offset', adding', added'),
         Present(file', synced'), Closed(file', synced', durable')
  PROVE  CleanInv'
<1>1. memr'.end # "reading"
  OBVIOUS
<1> QED BY Zenon, <1>1 DEF CleanInv, Tidy

(* A record is begun. *)
LEMMA BeginRecordClean ==
  ASSUME Framing, CleanInv, NEW len \in Lengths, BeginRecord(len)
  PROVE  CleanInv'
<1> SUFFICES ASSUME faults = 0 PROVE CleanInv'
  BY Zenon DEF CleanInv, BeginRecord
<1>1. /\ seqr.end = "unopened" /\ added' = Append(added, len) /\ adding = NoRecord
      /\ adding' = [rec |-> Len(added) + 1, off |-> 0, left |-> len, begin |-> TRUE]
      /\ file' = file /\ synced' = synced /\ block_offset' = block_offset /\ durable' = durable
      /\ seqr' = seqr /\ memr' = memr
  BY Zenon DEF BeginRecord
<1>2. Tidy(file, block_offset, adding, added) /\ Present(file, synced) /\ Closed(file, synced, durable)
  BY Zenon, <1>1, CleanWriter
<1>3. Len(added') - 1 = Len(added)
  <2>1. added \in Seq(Nat) /\ len \in Nat /\ Len(added) \in Nat
    BY LogAssumption, SeqLen DEF Framing, TypeOK
  <2> QED BY <2>1, <1>1, SeqAppend
<1>4. adding' # NoRecord
  <2>1. adding'.begin = TRUE /\ NoRecord.begin = FALSE
    BY <1>1 DEF NoRecord
  <2> QED BY Zenon, <2>1
<1>5. Tidy(file', block_offset', adding', added')
  BY Zenon, <1>1, <1>2, <1>3, <1>4 DEF Tidy
<1>6. seqr'.end = "unopened" /\ memr'.end = "unopened"
  BY Zenon, <1>1, NothingRead DEF Framing
<1> QED BY Zenon, <1>1, <1>2, <1>5, <1>6, CleanWriterNext

(* The file is synced. *)
LEMMA SyncClean ==
  ASSUME Framing, CleanInv, Sync
  PROVE  CleanInv'
<1> SUFFICES ASSUME faults = 0 PROVE CleanInv'
  BY Zenon DEF CleanInv, Sync
<1>1. /\ seqr.end = "unopened" /\ adding = NoRecord /\ synced' = Len(file) /\ durable' = Len(added)
      /\ file' = file /\ block_offset' = block_offset /\ adding' = adding /\ added' = added
      /\ seqr' = seqr /\ memr' = memr
  BY Zenon DEF Sync
<1>2. Tidy(file, block_offset, adding, added)
  BY Zenon, <1>1, CleanWriter
<1>3. Tidy(file', block_offset', adding', added') /\ Present(file', synced') /\ Closed(file', synced', durable')
  BY Zenon, <1>1, <1>2 DEF Tidy
<1>4. seqr'.end = "unopened" /\ memr'.end = "unopened"
  BY Zenon, <1>1, NothingRead DEF Framing
<1> QED BY Zenon, <1>3, <1>4, CleanWriterNext

(* A fragment is written: it lies where the reader looks for it. *)
LEMMA EmitClean ==
  Framing /\ CleanInv /\ Emit =>
    CleanInv'
(* As long as no append fails: the writer is where the reader will look. *)
<1>1. ASSUME TypeOK, Len(file) % BlockSize = block_offset % BlockSize
      PROVE  LET m == Len(file) + Len(Padding) IN Skip(Len(file)) = m /\ m % BlockSize = Offset
  <2> USE <1>1
  <2>1. PICK n \in Nat, o \in Nat : n = Len(file) /\ o = block_offset /\ o <= BlockSize
    BY Zenon, SeqLen, WriterPlace DEF TypeOK
  <2>2. n % BlockSize = o % BlockSize
    BY Zenon, <2>1
  <2>3. Len(Padding) = (IF BlockSize - o < HeaderSize THEN BlockSize - o ELSE 0)
        /\ Offset = (IF BlockSize - o < HeaderSize THEN 0 ELSE o)
    BY Zenon, <2>1, PaddingBytes DEF NewBlock, Leftover, Offset
  <2>4. Skip(n) = IF BlockSize - (n % BlockSize) < HeaderSize THEN n + (BlockSize - (n % BlockSize)) ELSE n
    BY Zenon DEF Skip
  <2>5. CASE o = BlockSize
    <3>1. o % BlockSize = 0
      <4>1. 0 \in Nat /\ 0 % BlockSize = 0 /\ (0 % BlockSize) + BlockSize = BlockSize /\ 0 + BlockSize = o
        BY <2>5, Sizes
      <4>2. (0 + BlockSize) % BlockSize = 0
        BY Zenon, <4>1, Sizes, ModWrap
      <4> QED BY Zenon, <4>1, <4>2
    <3>2. PICK r \in Nat : r = n % BlockSize /\ r = 0
      <4>1. 0 \in Nat
        OBVIOUS
      <4> QED BY Zenon, <4>1, <3>1, <2>2
    <3>3. Skip(n) = n /\ Len(Padding) = 0 /\ Offset = 0 /\ n + 0 = n
      BY <3>2, <2>3, <2>4, <2>5, Sizes
    <3> QED BY Zenon, <3>2, <3>3, <2>1
  <2>6. CASE o < BlockSize
    <3>1. o % BlockSize = o
      BY <2>6, Sizes, ModUnique, o \in 0..BlockSize - 1, 0 \in Nat, o = BlockSize * 0 + o
    <3>2. n % BlockSize = o
      BY Zenon, <3>1, <2>2
    <3>3. CASE BlockSize - o < HeaderSize
      <4>1. PICK w \in Nat : w = BlockSize - o
        BY <2>6, Sizes
      <4>2. Skip(n) = n + w /\ Len(Padding) = w /\ Offset = 0
        BY Zenon, <4>1, <3>2, <3>3, <2>3, <2>4
      <4>3. (n % BlockSize) + w = BlockSize
        <5>1. o + w = BlockSize
          BY <4>1, Sizes
        <5> QED BY Zenon, <5>1, <3>2
      <4>4. (n + w) % BlockSize = 0
        BY Zenon, <4>3, Sizes, ModWrap
      <4> QED BY Zenon, <4>2, <4>4, <2>1
    <3>4. CASE ~ (BlockSize - o < HeaderSize)
      <4>1. Skip(n) = n /\ Len(Padding) = 0 /\ Offset = o
        BY Zenon, <3>2, <3>4, <2>3, <2>4
      <4>2. n + 0 = n
        OBVIOUS
      <4> QED BY Zenon, <4>1, <4>2, <3>2, <2>1
    <3> QED BY Zenon, <3>3, <3>4
  <2> QED BY <2>1, <2>5, <2>6, Sizes
<1>2. ASSUME TypeOK, NEW m \in Nat, m % BlockSize = Offset
      PROVE  (m + (HeaderSize + FragmentLen)) % BlockSize = (Offset + HeaderSize + FragmentLen) % BlockSize
  <2> USE <1>2
  <2>1. PICK o \in Nat, w \in Nat : o = Offset /\ w = HeaderSize + FragmentLen /\ o + w <= BlockSize
        /\ Offset + HeaderSize + FragmentLen = o + w
    BY WriterPlace, Sizes
  <2>2. m % BlockSize = o
    BY Zenon, <2>1
  <2>3. CASE o + w < BlockSize
    <3>1. (m + w) % BlockSize = o + w
      BY Zenon, <2>2, <2>3, Sizes, ModSame
    <3>2. (o + w) % BlockSize = o + w
      BY <2>3, Sizes, ModUnique, o + w \in Nat, o + w \in 0..BlockSize - 1, 0 \in Nat, o + w = BlockSize * 0 + (o + w)
    <3> QED BY Zenon, <3>1, <3>2, <2>1
  <2>4. CASE o + w = BlockSize
    <3>1. (m + w) % BlockSize = 0
      BY Zenon, <2>2, <2>4, Sizes, ModWrap
    <3>2. (o + w) % BlockSize = 0
      <4>1. 0 \in Nat /\ 0 % BlockSize = 0 /\ (0 % BlockSize) + (o + w) = BlockSize /\ 0 + (o + w) = o + w /\ o + w \in Nat
        BY <2>4, Sizes
      <4>2. (0 + (o + w)) % BlockSize = 0
        BY Zenon, <4>1, Sizes, ModWrap
      <4> QED BY Zenon, <4>1, <4>2
    <3> QED BY Zenon, <3>1, <3>2, <2>1
  <2>5. o + w < BlockSize \/ o + w = BlockSize
    BY <2>1, Sizes
  <2> QED BY Zenon, <2>3, <2>4, <2>5
(* The fragment written is the one due. *)
<1>3. ASSUME TypeOK, FileInv, AddingInv, seqr.end = "unopened", adding # NoRecord,
             Tidy(file, block_offset, adding, added), NEW g, SameUpTo(file, g, Len(file)),
             NEW b, b.kind = Lead.kind, b.rec = Lead.rec
      PROVE  Follows(g, Len(file), b)
  <2> USE <1>3
  <2>1. file \in Seq(Byte) /\ added \in Seq(Nat)
    BY Zenon DEF TypeOK
  <2>2. PICK n \in Nat, r \in Nat : n = Len(file) /\ r = Len(added)
    BY Zenon, <2>1, SeqLen
  <2>3. n # 0 => g[n] = file[n]
    <3>1. n # 0 => n \in 1..n
      OBVIOUS
    <3> QED BY Zenon, <3>1, <2>2 DEF SameUpTo
  <2>4. Lead.rec = r /\ adding.rec = r
    BY Zenon, <2>2, LeadFields, LeadFollows
  <2>5. CASE adding.begin
    <3>1. b.kind \in {"full", "first"}
      BY Zenon, <2>5, LeadFields
    <3>2. Closed(file, n, r - 1)
      BY Zenon, <2>2, <2>5 DEF Tidy
    <3>3. CASE n = 0
      <4>1. r - 1 = 0
        BY Zenon, <3>2, <3>3 DEF Closed
      <4>2. r = 0 + 1
        BY <4>1
      <4> QED BY Zenon, <2>2, <2>4, <3>1, <3>3, <4>2 DEF Follows
    <3>4. CASE n # 0
      <4>1. file[n].kind \in {"full", "last"} /\ file[n].rec = r - 1
        BY Zenon, <3>2, <3>4 DEF Closed
      <4>2. r = (r - 1) + 1
        OBVIOUS
      <4> QED BY Zenon, <2>2, <2>3, <2>4, <3>1, <3>4, <4>1, <4>2 DEF Follows
    <3> QED BY Zenon, <3>3, <3>4
  <2>6. CASE ~adding.begin
    <3>1. PICK s \in 0..Len(file) : Continues(file, s, adding.rec, adding.off) /\ EndOf(file, s) = Len(file)
      BY Zenon, <2>6 DEF AddingInv
    <3>2. s \in Nat /\ FragmentAt(file, s) /\ file[s + 1].kind \in {"first", "middle"} /\ file[s + 1].rec = r
      <4>1. s \in Nat
        BY <2>2
      <4> QED BY Zenon, <4>1, <3>1, <2>4 DEF Continues
    <3>3. n # 0 /\ file[n].kind = file[s + 1].kind /\ file[n].rec = r
      <4>1. EndOf(file, s) \in Nat \ {0} /\ file[EndOf(file, s)].kind = file[s + 1].kind
            /\ file[EndOf(file, s)].rec = file[s + 1].rec
        BY Zenon, <2>1, <3>2, LastByte
      <4>2. EndOf(file, s) = n
        BY Zenon, <2>2, <3>1
      <4> HIDE DEF EndOf
      <4>3. n \in Nat \ {0} /\ file[n].kind = file[s + 1].kind /\ file[n].rec = file[s + 1].rec
        BY Zenon, <4>1, <4>2
      <4> QED BY Zenon, <4>3, <3>2
    <3>4. ~ (file[n].kind \in {"full", "last"})
      BY <3>2, <3>3
    <3>5. b.kind \in {"middle", "last"}
      <4>1. ~ (b.kind \in {"full", "first"}) /\ b.kind \in Kinds
        BY Zenon, <2>6, LeadFields
      <4> QED BY <4>1 DEF Kinds
    <3> QED BY Zenon, <2>2, <2>3, <2>4, <3>3, <3>4, <3>5 DEF Follows
  <2>7. adding.begin \in BOOLEAN
    BY Zenon, WriterPlace
  <2> QED BY Zenon, <2>5, <2>6, <2>7
(* The places where a fragment of the grown file ends. *)
<1>4. ASSUME NEW f \in Seq(Byte), NEW g \in Seq(Byte), NEW m, NEW h \in Byte, Grown(f, g, m, h),
             Len(g) = m + (HeaderSize + h.len), NEW s \in 0..Len(g), Boundary(g, s)
      PROVE  (s < Len(f) /\ Boundary(f, s)) \/ s = Len(f) \/ s = Len(g)
  <2> USE <1>4
  <2>1. Len(f) \in Nat /\ Len(g) \in Nat /\ m \in Nat /\ h.len \in Nat /\ s \in Nat
    BY SeqLen, ByteFields DEF Grown
  <2>2. CASE s <= Len(f)
    <3>1. Boundary(f, s)
      BY Zenon, <2>1, <2>2, BoundarySame DEF Grown
    <3>2. s < Len(f) \/ s = Len(f)
      BY <2>1, <2>2
    <3> QED BY Zenon, <3>1, <3>2
  <2>3. CASE s > Len(f)
    <3>1. s \in 1..Len(g) /\ s # 0 /\ ~ (s \in 1..Len(f))
      BY <2>1, <2>3
    <3>2. g[s].kind # "zero" /\ g[s].at = HeaderSize + g[s].len
      BY Zenon, <3>1 DEF Boundary
    <3>3. New(f, g, m, h, s)
      BY Zenon, <3>1, <3>2, GrownByte DEF Old, Pad
    <3>4. s - m = HeaderSize + h.len
      BY Zenon, <3>2, <3>3 DEF New
    <3>5. PICK l \in Nat : l = h.len
      BY Zenon, <2>1
    <3>6. s = m + (HeaderSize + l)
      BY <3>4, <3>5, <2>1, Sizes
    <3> QED BY Zenon, <3>5, <3>6
  <2> QED BY <2>1, <2>2, <2>3
<1>5. ASSUME Framing, CleanInv, Emit
      PROVE  CleanInv'
  <2> USE <1>5
  <2> SUFFICES ASSUME faults = 0 PROVE CleanInv'
    BY Zenon DEF CleanInv, Emit
  <2>1. TypeOK /\ Agree /\ FileInv /\ AddingInv /\ file \in Seq(Byte) /\ Len(file) \in Nat
    BY Zenon, SeqLen DEF Framing, TypeOK
  <2>2. /\ seqr.end = "unopened" /\ adding # NoRecord
        /\ block_offset' = Offset + HeaderSize + FragmentLen
        /\ adding' = IF adding.left = FragmentLen THEN NoRecord
                     ELSE [adding EXCEPT !.off = @ + FragmentLen, !.left = @ - FragmentLen, !.begin = FALSE]
        /\ synced' = synced /\ added' = added /\ durable' = durable /\ seqr' = seqr /\ memr' = memr
    BY Zenon DEF Emit
  <2> DEFINE m == Len(file) + Len(Padding)
             f == file
             g == file'
  <2>3. /\ g \in Seq(Byte) /\ m \in Nat /\ Grown(f, g, m, Lead)
        /\ Len(g) = m + (HeaderSize + FragmentLen)
        /\ FragmentAt(g, m) /\ EndOf(g, m) = Len(g)
        /\ g[m + 1].kind = Lead.kind /\ g[m + 1].rec = Lead.rec
        /\ g[m + 1].off = Lead.off /\ g[m + 1].len = Lead.len
    BY Zenon, <2>1, EmitFile
  <2>4. /\ Tidy(f, block_offset, adding, added) /\ Present(f, synced) /\ Closed(f, synced, durable)
    BY Zenon, <2>2, CleanWriter
  <2>5. Skip(Len(f)) = m /\ m % BlockSize = Offset
    BY Zenon, <2>1, <2>4, <1>1 DEF Tidy
  <2>6. InOrder(f) /\ Present(f, Len(f))
    BY Zenon, <2>4 DEF Tidy
  <2>7. Lead \in Byte /\ Lead.len = FragmentLen /\ SameUpTo(f, g, Len(f))
    BY Zenon, <2>1, <2>3, LeadFields DEF Grown
  <2>8. Follows(g, Len(f), g[m + 1])
    BY Zenon, <2>1, <2>2, <2>3, <2>4, <2>7, <1>3
  <2> HIDE DEF m, f, g
  <2>9. Len(f) \in Nat /\ Len(g) \in Nat /\ Len(f) <= Len(g) /\ synced \in Nat /\ synced <= Len(f)
    <3>1. f \in Seq(Byte) /\ synced \in 0..Len(f) /\ Len(f) <= Len(g)
      BY Zenon, <2>1, <2>7 DEF f, TypeOK, SameUpTo
    <3> QED BY <3>1, <2>3, SeqLen
  <2>10. f \in Seq(Byte)
    BY Zenon, <2>1 DEF f
  <2>11. \A s \in 0..Len(g) : Boundary(g, s) => (s < Len(f) /\ Boundary(f, s)) \/ s = Len(f) \/ s = Len(g)
    BY Zenon, <2>3, <2>7, <2>10, <1>4
  <2>12. ASSUME NEW s \in 0..Len(g), s < Len(f), Boundary(f, s)
         PROVE  /\ Skip(s) \in Nat /\ FragmentAt(f, Skip(s)) /\ EndOf(f, Skip(s)) <= Len(f)
                /\ FragmentAt(g, Skip(s)) /\ EndOf(g, Skip(s)) = EndOf(f, Skip(s)) /\ g[Skip(s) + 1] = f[Skip(s) + 1]
                /\ f[Skip(s) + 1].len <= BlockSize - (Skip(s) % BlockSize) - HeaderSize
                /\ Skip(s) < Len(f) /\ f[Skip(s) + 1].kind # "zero"
    <3>1. s \in 0..Len(f) - 1 /\ s \in Nat
      BY <2>9, <2>12
    <3>2. Skip(s) \in Nat
      BY Zenon, <3>1, SkipPlace
    <3>3. /\ FragmentAt(f, Skip(s)) /\ EndOf(f, Skip(s)) <= Len(f)
          /\ f[Skip(s) + 1].len <= BlockSize - (Skip(s) % BlockSize) - HeaderSize
      BY Zenon, <3>1, <2>6, <2>12 DEF Present
    <3>4. FragmentAt(g, Skip(s)) /\ EndOf(g, Skip(s)) = EndOf(f, Skip(s)) /\ g[Skip(s) + 1] = f[Skip(s) + 1]
      BY Zenon, <3>2, <3>3, <2>3, <2>7, <2>9, <2>10, FragmentKept
    <3>5. Skip(s) < Len(f)
      <4>1. Skip(s) + HeaderSize <= Len(f)
        BY Zenon, <3>3 DEF FragmentAt
      <4> QED BY <4>1, <3>2, <2>9, Sizes
    <3>6. f[Skip(s) + 1].kind # "zero"
      BY Zenon, <3>3 DEF FragmentAt
    <3> QED BY Zenon, <3>2, <3>3, <3>4, <3>5, <3>6
  <2>13. InOrder(g)
    <3> SUFFICES ASSUME NEW s \in 0..Len(g), Boundary(g, s), Skip(s) < Len(g), g[Skip(s) + 1].kind # "zero"
                 PROVE  Follows(g, s, g[Skip(s) + 1])
      BY Zenon DEF InOrder
    <3>1. CASE s < Len(f) /\ Boundary(f, s)
      <4>1. g[Skip(s) + 1] = f[Skip(s) + 1] /\ Skip(s) < Len(f) /\ f[Skip(s) + 1].kind # "zero"
        BY Zenon, <3>1, <2>12
      <4>2. s \in 0..Len(f) /\ s \in Nat /\ s <= Len(f)
        BY <3>1, <2>9
      <4>3. Follows(f, s, f[Skip(s) + 1])
        BY Zenon, <4>1, <4>2, <3>1, <2>6 DEF InOrder
      <4>4. s # 0 => g[s] = f[s]
        BY Zenon, <4>2, <2>7, <2>9, BoundarySame
      <4> QED BY Zenon, <4>1, <4>3, <4>4 DEF Follows
    <3>2. CASE s = Len(f)
      BY Zenon, <3>2, <2>5, <2>8
    <3>3. s # Len(g)
      <4>1. s \in Nat
        BY <2>9
      <4>2. Skip(s) \in Nat /\ s <= Skip(s)
        BY Zenon, <4>1, SkipPlace
      <4> QED BY <4>1, <4>2, <2>9
    <3> QED BY Zenon, <3>1, <3>2, <3>3, <2>11
  <2>14. Present(g, Len(g))
    <3> SUFFICES ASSUME NEW s \in 0..Len(g) - 1, Boundary(g, s)
                 PROVE  /\ FragmentAt(g, Skip(s)) /\ EndOf(g, Skip(s)) <= Len(g)
                        /\ g[Skip(s) + 1].len <= BlockSize - (Skip(s) % BlockSize) - HeaderSize
      BY Zenon DEF Present
    <3>1. s \in 0..Len(g) /\ s # Len(g)
      BY <2>9
    <3>2. CASE s < Len(f) /\ Boundary(f, s)
      <4>1. /\ Skip(s) \in Nat /\ FragmentAt(f, Skip(s)) /\ EndOf(f, Skip(s)) <= Len(f)
            /\ FragmentAt(g, Skip(s)) /\ EndOf(g, Skip(s)) = EndOf(f, Skip(s)) /\ g[Skip(s) + 1] = f[Skip(s) + 1]
            /\ f[Skip(s) + 1].len <= BlockSize - (Skip(s) % BlockSize) - HeaderSize
        BY Zenon, <3>1, <3>2, <2>12
      <4>2. PICK e \in Nat : e = EndOf(f, Skip(s))
        BY Zenon, <4>1, <2>10, LastByte
      <4>3. e <= Len(g)
        BY <4>1, <4>2, <2>9
      <4> QED BY Zenon, <4>1, <4>2, <4>3
    <3>3. CASE s = Len(f)
      <4>1. Skip(s) = m
        BY Zenon, <3>3, <2>5
      <4>2. FragmentLen <= BlockSize - Offset - HeaderSize
        BY <2>1, WriterPlace, Sizes
      <4>3. Len(g) <= Len(g)
        BY <2>9
      <4>4. FragmentAt(g, m) /\ EndOf(g, m) <= Len(g)
        BY Zenon, <4>3, <2>3
      <4>5. g[m + 1].len <= BlockSize - (m % BlockSize) - HeaderSize
        BY Zenon, <4>2, <2>3, <2>5, <2>7
      <4> QED BY Zenon, <4>1, <4>4, <4>5
    <3> QED BY Zenon, <3>1, <3>2, <3>3, <2>11
  <2>15. Len(g) % BlockSize = block_offset' % BlockSize
    BY Zenon, <2>1, <2>2, <2>3, <2>5, <1>2
  <2>16. adding' = NoRecord => Closed(g, Len(g), Len(added'))
    <3> SUFFICES ASSUME adding' = NoRecord PROVE Closed(g, Len(g), Len(added'))
      OBVIOUS
    <3>1. adding.left = FragmentLen
      <4> SUFFICES ASSUME adding.left # FragmentLen PROVE FALSE
        OBVIOUS
      <4>1. adding' = [adding EXCEPT !.off = @ + FragmentLen, !.left = @ - FragmentLen, !.begin = FALSE]
        BY Zenon, <2>2
      <4>2. PICK l \in Nat, w \in Nat : l = adding.left /\ w = FragmentLen /\ w <= l /\ w # l
        BY Zenon, <2>1, WriterPlace
      <4>3. adding'.left = l - w
        BY <4>1, <4>2, <2>1 DEF TypeOK
      <4>4. adding'.left = 0
        BY DEF NoRecord
      <4> QED BY <4>2, <4>3, <4>4
    <3>2. Lead.kind \in {"full", "last"} /\ Lead.rec = Len(added)
      BY Zenon, <3>1, <2>1, <2>2, LeadFields, LeadFollows
    <3>3. EndOf(g, m) \in Nat \ {0} /\ g[EndOf(g, m)].kind = g[m + 1].kind /\ g[EndOf(g, m)].rec = g[m + 1].rec
          /\ Boundary(g, EndOf(g, m))
      BY Zenon, <2>3, LastByte
    <3> HIDE DEF EndOf
    <3>4. Len(g) # 0 /\ g[Len(g)].kind = Lead.kind /\ g[Len(g)].rec = Lead.rec /\ Boundary(g, Len(g))
      <4>1. Len(g) \in Nat \ {0} /\ g[Len(g)].kind = g[m + 1].kind /\ g[Len(g)].rec = g[m + 1].rec
            /\ Boundary(g, Len(g))
        BY Zenon, <3>3, <2>3
      <4> QED BY Zenon, <4>1, <2>3
    <3> QED BY Zenon, <3>2, <3>4, <2>2 DEF Closed
  <2>17. ~ (adding' # NoRecord /\ adding'.begin)
    <3>1. CASE adding.left = FragmentLen
      BY Zenon, <3>1, <2>2
    <3>2. CASE adding.left # FragmentLen
      <4>1. adding' = [adding EXCEPT !.off = @ + FragmentLen, !.left = @ - FragmentLen, !.begin = FALSE]
        BY Zenon, <3>2, <2>2
      <4>2. adding'.begin = FALSE
        BY <4>1, <2>1 DEF TypeOK
      <4> QED BY Zenon, <4>2
    <3> QED BY Zenon, <3>1, <3>2
  <2>18. Tidy(file', block_offset', adding', added')
    BY Zenon, <2>13, <2>14, <2>15, <2>16, <2>17 DEF Tidy, g
  <2>19. Present(g, synced) /\ Closed(g, synced, durable)
    BY Zenon, <2>3, <2>4, <2>7, <2>9, <2>10, PresentKept, ClosedKept
  <2>20. seqr'.end = "unopened" /\ memr'.end = "unopened"
    BY Zenon, <2>1, <2>2, NothingRead
  <2> QED BY Zenon, <2>2, <2>18, <2>19, <2>20, CleanWriterNext DEF g
<1> QED BY Zenon, <1>5

(* A failed append: CleanInv says nothing any more. *)
LEMMA EmitFailsClean ==
  ASSUME Framing, EmitFails
  PROVE  CleanInv'
<1>1. faults' = faults + 1 /\ faults \in Nat
  BY Zenon DEF EmitFails, Framing, TypeOK
<1>2. faults' # 0
  BY <1>1
<1> QED BY Zenon, <1>2 DEF CleanInv

(* The crash and the restart: what was synced is still there. *)
LEMMA ReopenClean ==
  Framing /\ CleanInv /\ Reopen =>
    CleanInv'
<1>1. ASSUME NEW adds PROVE FirstOf(adds, 0) = <<>>
  <2> USE <1>1
  <2>1. 1..0 = {}
    OBVIOUS
  <2>2. FirstOf(adds, 0) \in [1..0 -> {Opening(i, adds[i]) : i \in 1..0}]
    BY Zenon DEF FirstOf
  <2>3. FirstOf(adds, 0) \in Seq({Opening(i, adds[i]) : i \in 1..0}) /\ Len(FirstOf(adds, 0)) = 0
    BY <2>2, FunctionIsSeq
  <2> QED BY <2>3, SeqEmpty
<1>2. ASSUME Framing, CleanInv, Reopen
      PROVE  CleanInv'
  <2> USE <1>2
  <2> SUFFICES ASSUME faults = 0 PROVE CleanInv'
    BY Zenon DEF CleanInv, Reopen
  <2>1. TypeOK /\ file \in Seq(Byte)
    BY Zenon DEF Framing, TypeOK
  <2>2. /\ seqr' = [Unopened EXCEPT !.end = "reading"] /\ memr' = [Unopened EXCEPT !.end = "reading"]
        /\ torn' = (file' # file \/ adding # NoRecord) /\ seqr.end = "unopened"
        /\ synced' = synced /\ added' = added /\ durable' = durable
    BY Zenon DEF Reopen
  <2>3. seqr'.end # "unopened" /\ memr'.off = 0 /\ memr'.out = <<>>
    BY <2>2 DEF Unopened
  <2> DEFINE f == file
             g == file'
  <2>4. PICK k \in synced..Len(f) : g \in Seq(Byte) /\ Torn(f, g, k)
    BY Zenon, <2>1, ReopenTears
  <2>5. Tidy(f, block_offset, adding, added) /\ Present(f, synced) /\ Closed(f, synced, durable)
    BY Zenon, <2>2, CleanWriter
  <2>6. InOrder(f) /\ Present(f, Len(f))
    BY Zenon, <2>5 DEF Tidy
  <2>7. k \in Nat /\ synced \in Nat /\ Len(f) \in Nat /\ Len(g) \in Nat /\ synced <= k /\ k <= Len(f) /\ SameUpTo(f, g, k)
    <3>1. synced \in 0..Len(f) /\ Len(f) \in Nat /\ Len(g) \in Nat /\ SameUpTo(f, g, k)
      BY Zenon, <2>1, <2>4, SeqLen DEF TypeOK, Torn
    <3>2. k \in Nat /\ synced \in Nat /\ synced <= k /\ k <= Len(f)
      BY <3>1
    <3> QED BY Zenon, <3>1, <3>2
  <2>8. InOrder(g)
    <3> SUFFICES ASSUME NEW s \in 0..Len(g), Boundary(g, s), Skip(s) < Len(g), g[Skip(s) + 1].kind # "zero"
                 PROVE  Follows(g, s, g[Skip(s) + 1])
      BY Zenon DEF InOrder
    <3>1. s \in Nat
      BY <2>7
    <3>2. PICK d \in Nat : d = Skip(s) /\ s <= d
      BY Zenon, <3>1, SkipPlace
    <3>3. d + 1 \in 1..Len(g)
      BY <3>2, <2>7
    <3>4. d + 1 \in 1..k /\ d + 1 \in 1..Len(f) /\ g[d + 1] = f[d + 1]
      BY Zenon, <3>2, <3>3, <2>1, <2>4, <2>7, TornByte
    <3>5. s <= k /\ s \in 0..Len(f) /\ d < Len(f)
      BY <3>1, <3>2, <3>4, <2>7
    <3>6. Boundary(f, s) /\ (s # 0 => g[s] = f[s])
      BY Zenon, <3>1, <3>5, <2>7, BoundarySame
    <3>7. Follows(f, s, f[d + 1])
      BY Zenon, <3>2, <3>4, <3>5, <3>6, <2>6 DEF InOrder
    <3>8. Follows(g, s, g[d + 1])
      BY Zenon, <3>4, <3>6, <3>7 DEF Follows
    <3> QED BY Zenon, <3>2, <3>8
  <2>9. Present(g, synced) /\ Closed(g, synced, durable)
    BY Zenon, <2>1, <2>4, <2>5, <2>7, PresentKept, ClosedKept
  <2>10. ~torn' => Present(g, Len(g)) /\ Closed(g, Len(g), Len(added))
    <3> SUFFICES ASSUME ~torn' PROVE Present(g, Len(g)) /\ Closed(g, Len(g), Len(added))
      BY Zenon
    <3>1. g = f /\ adding = NoRecord
      BY Zenon, <2>2
    <3> QED BY Zenon, <3>1, <2>5 DEF Tidy
  <2>11. memr'.out = FirstOf(added', Returned(file', memr'))
    <3>1. Returned(file', memr') = 0
      BY Zenon, <2>3 DEF Returned
    <3> QED BY Zenon, <3>1, <2>3, <1>1
  <2> QED BY Zenon, <2>2, <2>3, <2>8, <2>9, <2>10, <2>11 DEF CleanInv
<1> QED BY Zenon, <1>2

(* The reader finds the next fragment, or has returned what was synced. *)
LEMMA ReadClean ==
  Framing /\ CleanInv /\ Read =>
    CleanInv' /\ SyncedSurvive'
(* The reader stands at the end of a fragment. *)
<1>1. ASSUME TypeOK, FileInv, ReadInv, memr.end = "reading"
      PROVE  LET o == memr.off
             IN  /\ o \in Nat /\ o <= Len(file) /\ Boundary(file, o)
                 /\ o = 0 => ~memr.in_fragmented
                 /\ o # 0 => /\ o \in 1..Len(file) /\ file[o].kind \in Kinds /\ file[o].rec \in Nat \ {0}
                             /\ file[o].rec <= Len(added)
                             /\ memr.in_fragmented <=> file[o].kind \in {"first", "middle"}
  <2> USE <1>1
  <2> DEFINE o == memr.off
  <2>1. file \in Seq(Byte) /\ added \in Seq(Nat) /\ memr \in Reader /\ Sound(file, added) /\ Len(file) \in Nat
    BY Zenon, SoundFile, SeqLen DEF TypeOK
  <2>2. CASE o = 0 /\ ~memr.in_fragmented
    <3>1. 0 \in Nat /\ 0 <= Len(file)
      BY <2>1
    <3> QED BY Zenon, <3>1, <2>2 DEF Boundary
  <2>3. CASE \E s \in 0..Len(file) : ReadUpTo(file, added, memr, s)
    <3>1. PICK s \in 0..Len(file) : ReadUpTo(file, added, memr, s)
      BY Zenon, <2>3
    <3>2. s \in Nat
      BY <2>1
    <3>3. FragmentAt(file, s) /\ EndOf(file, s) = o /\ (memr.in_fragmented <=> file[s + 1].kind \in {"first", "middle"})
      BY Zenon, <3>1 DEF ReadUpTo
    <3>4. LET e == EndOf(file, s)
          IN  /\ e \in Nat \ {0} /\ e \in 1..Len(file) /\ file[e].kind = file[s + 1].kind
              /\ file[e].rec = file[s + 1].rec /\ Boundary(file, e)
      BY Zenon, <2>1, <3>2, <3>3, LastByte
    <3> HIDE DEF EndOf
    <3>5. /\ o \in Nat \ {0} /\ o \in 1..Len(file) /\ file[o].kind = file[s + 1].kind
          /\ file[o].rec = file[s + 1].rec /\ Boundary(file, o)
      BY Zenon, <3>3, <3>4
    <3>6. file[s + 1].kind \in Kinds /\ file[s + 1].rec \in Nat \ {0} /\ file[s + 1].rec <= Len(added)
      BY Zenon, <2>1, <3>2, <3>3, FragmentGenuine
    <3>7. o \in Nat /\ o # 0 /\ o <= Len(file)
      BY <3>5, <2>1
    <3> QED BY Zenon, <3>3, <3>5, <3>6, <3>7
  <2> QED BY Zenon, <2>2, <2>3 DEF ReadInv
(* The reader takes every fragment of a stretch that is present. *)
<1>2. ASSUME TypeOK, FileInv, ReadInv, memr.end = "reading", InOrder(file), NEW n \in Nat, n <= Len(file),
             Present(file, n), memr.off < n
      PROVE  LET d == Skip(memr.off)
             IN  /\ FragmentAt(file, d) /\ Accepts(memr.in_fragmented, file[d + 1].kind)
                 /\ file[d + 1].len <= BlockSize - (d % BlockSize) - HeaderSize
  <2> USE <1>2
  <2>1. PICK o \in Nat : o = memr.off /\ o <= Len(file) /\ Boundary(file, o)
    BY Zenon, <1>1
  <2>2. file \in Seq(Byte) /\ Len(file) \in Nat
    BY Zenon, SeqLen DEF TypeOK
  <2>3. PICK d \in Nat : d = Skip(o)
    BY Zenon, <2>1, SkipPlace
  <2>4. o \in 0..n - 1 /\ o \in 0..Len(file)
    BY <2>1, <2>2
  <2>5. FragmentAt(file, d) /\ file[d + 1].len <= BlockSize - (d % BlockSize) - HeaderSize
    BY Zenon, <2>1, <2>3, <2>4 DEF Present
  <2>6. d < Len(file)
    BY <2>2, <2>5, Sizes, FragmentBytes
  <2>7. Follows(file, o, file[d + 1])
    BY Zenon, <2>1, <2>3, <2>4, <2>5, <2>6 DEF InOrder, FragmentAt
  <2>8. memr.in_fragmented \in BOOLEAN
    BY DEF TypeOK, Reader
  <2>9. memr.in_fragmented <=> ~ (o = 0 \/ file[o].kind \in {"full", "last"})
    <3>1. CASE o = 0
      BY Zenon, <3>1, <2>1, <1>1
    <3>2. CASE o # 0
      <4>1. file[o].kind \in Kinds /\ (memr.in_fragmented <=> file[o].kind \in {"first", "middle"})
        BY Zenon, <3>2, <2>1, <1>1
      <4>2. file[o].kind \in {"first", "middle"} <=> ~ (file[o].kind \in {"full", "last"})
        BY <4>1 DEF Kinds
      <4> QED BY Zenon, <4>1, <4>2, <3>2
    <3> QED BY Zenon, <3>1, <3>2
  <2>10. Accepts(memr.in_fragmented, file[d + 1].kind)
    BY Zenon, <2>7, <2>9 DEF Follows, Accepts
  <2> QED BY Zenon, <2>1, <2>3, <2>5, <2>10
<1>3. ASSUME NEW adds, NEW n \in Nat
      PROVE  Append(FirstOf(adds, n), Opening(n + 1, adds[n + 1])) = FirstOf(adds, n + 1) /\ Len(FirstOf(adds, n)) = n
  <2> USE <1>3
  <2> DEFINE T == {Opening(i, adds[i]) : i \in 1..n + 1}
             a == FirstOf(adds, n)
             b == FirstOf(adds, n + 1)
             x == Opening(n + 1, adds[n + 1])
  <2>1. \A i \in 1..n : i \in 1..n + 1
    OBVIOUS
  <2>2. n + 1 \in 1..n + 1 /\ n + 1 \in Nat
    OBVIOUS
  <2>3. a \in [1..n -> T] /\ \A i \in 1..n : a[i] = Opening(i, adds[i])
    BY Zenon, <2>1 DEF FirstOf
  <2>4. b \in [1..n + 1 -> T] /\ \A i \in 1..n + 1 : b[i] = Opening(i, adds[i])
    BY Zenon DEF FirstOf
  <2>5. x \in T
    BY Zenon, <2>2
  <2> HIDE DEF T, a, b, x
  <2>6. a \in Seq(T) /\ Len(a) = n
    BY Zenon, <2>3, FunctionIsSeq
  <2>7. b \in Seq(T) /\ Len(b) = n + 1
    BY Zenon, <2>2, <2>4, FunctionIsSeq
  <2>8. Append(a, x) \in Seq(T) /\ Len(Append(a, x)) = n + 1 /\ Append(a, x)[n + 1] = x
        /\ \A i \in 1..n : Append(a, x)[i] = a[i]
    BY <2>5, <2>6, SeqAppend
  <2>9. ASSUME NEW i \in 1..n + 1 PROVE Append(a, x)[i] = b[i]
    <3>1. i \in 1..n \/ i = n + 1
      OBVIOUS
    <3>2. b[i] = Opening(i, adds[i])
      BY Zenon, <2>4
    <3>3. CASE i \in 1..n
      BY Zenon, <3>2, <3>3, <2>3, <2>8
    <3>4. CASE i = n + 1
      BY Zenon, <3>2, <3>4, <2>8 DEF x
    <3> QED BY Zenon, <3>1, <3>3, <3>4
  <2>10. Append(a, x) = b
    BY <2>7, <2>8, <2>9, SeqSame
  <2> QED BY Zenon, <2>6, <2>10 DEF a, b, x
(* The reader returned the first records, and it takes one more fragment. *)
<1>4. ASSUME TypeOK, FileInv, ReadInv, memr.end = "reading", InOrder(file), NEW d \in Nat, d = Skip(memr.off),
             FragmentAt(file, d), Accepts(memr.in_fragmented, file[d + 1].kind),
             memr.out = FirstOf(added, Returned(file, memr)),
             NEW a, a.off = EndOf(file, d), ReadUpTo(file, added, a, d), Taken(a, file[d + 1])
      PROVE  a.out = FirstOf(added, Returned(file, a))
  <2> USE <1>4
  <2> DEFINE h == file[d + 1]
  <2>1. file \in Seq(Byte) /\ added \in Seq(Nat) /\ Sound(file, added) /\ Len(file) \in Nat
    BY Zenon, SoundFile, SeqLen DEF TypeOK
  <2>2. h.kind \in Kinds /\ h.rec \in Nat \ {0}
    BY Zenon, <2>1, FragmentGenuine
  <2>3. PICK o \in Nat : o = memr.off /\ o <= Len(file) /\ Boundary(file, o)
    BY Zenon, <1>1
  <2>4. d < Len(file) /\ o \in 0..Len(file)
    BY <2>1, <2>3, Sizes, FragmentBytes
  <2>5. Follows(file, o, h)
    BY Zenon, <2>3, <2>4 DEF InOrder, FragmentAt
  <2>6. /\ a.off # 0 /\ file[a.off].rec = h.rec /\ (a.in_fragmented <=> h.kind \in {"first", "middle"})
    <3>1. EndOf(file, d) \in Nat \ {0} /\ file[EndOf(file, d)].rec = h.rec
      BY Zenon, <2>1, LastByte
    <3>2. EndOf(file, d) # 0
      BY <3>1
    <3>3. a.in_fragmented <=> h.kind \in {"first", "middle"}
      BY Zenon DEF ReadUpTo
    <3> HIDE DEF EndOf
    <3> QED BY Zenon, <3>1, <3>2, <3>3
  <2>7. Returned(file, a) = IF h.kind \in {"first", "middle"} THEN h.rec - 1 ELSE h.rec
    BY Zenon, <2>6 DEF Returned
  <2>8. Returned(file, memr) = h.rec - 1
    <3>1. CASE o = 0
      <4>1. h.rec = 0 + 1 /\ Returned(file, memr) = 0
        BY Zenon, <3>1, <2>3, <2>5 DEF Follows, Returned
      <4> QED BY <4>1
    <3>2. CASE o # 0
      <4>1. /\ file[o].kind \in Kinds /\ file[o].rec \in Nat \ {0}
            /\ memr.in_fragmented <=> file[o].kind \in {"first", "middle"}
        BY Zenon, <3>2, <2>3, <1>1
      <4>2. CASE file[o].kind \in {"first", "middle"}
        <5>1. ~ (file[o].kind \in {"full", "last"})
          BY <4>2
        <5>2. h.rec = file[o].rec
          BY Zenon, <5>1, <3>2, <2>5 DEF Follows
        <5>3. Returned(file, memr) = file[o].rec - 1
          BY Zenon, <4>1, <4>2, <3>2, <2>3 DEF Returned
        <5> QED BY Zenon, <5>2, <5>3
      <4>3. CASE ~ (file[o].kind \in {"first", "middle"})
        <5>1. file[o].kind \in {"full", "last"}
          BY <4>1, <4>3 DEF Kinds
        <5>2. h.rec = file[o].rec + 1
          BY Zenon, <5>1, <3>2, <2>5 DEF Follows
        <5>3. Returned(file, memr) = file[o].rec
          BY Zenon, <4>1, <4>3, <3>2, <2>3 DEF Returned
        <5>4. PICK r \in Nat : r = file[o].rec
          BY Zenon, <4>1
        <5>5. (r + 1) - 1 = r
          OBVIOUS
        <5> QED BY Zenon, <5>2, <5>3, <5>4, <5>5
      <4> QED BY Zenon, <4>2, <4>3
    <3> QED BY Zenon, <3>1, <3>2
  <2>9. CASE h.kind \in {"full", "last"}
    <3>1. ~ (h.kind \in {"first", "middle"})
      BY <2>9
    <3>2. PICK n \in Nat : n = h.rec - 1 /\ n + 1 = h.rec
      BY <2>2
    <3>3. Append(FirstOf(added, n), Opening(n + 1, added[n + 1])) = FirstOf(added, n + 1)
      BY Zenon, <1>3
    <3>4. a.out = Append(memr.out, Opening(h.rec, added[h.rec]))
      BY Zenon, <2>9 DEF Taken
    <3>5. a.out = FirstOf(added, n + 1)
      BY Zenon, <3>2, <3>3, <3>4, <2>8
    <3> QED BY Zenon, <3>1, <3>2, <3>5, <2>7
  <2>10. CASE ~ (h.kind \in {"full", "last"})
    <3>1. h.kind \in {"first", "middle"}
      BY <2>2, <2>10 DEF Kinds
    <3>2. a.out = memr.out
      BY Zenon, <2>10 DEF Taken
    <3> QED BY Zenon, <3>1, <3>2, <2>7, <2>8
  <2> QED BY Zenon, <2>9, <2>10
(* Where the reader stops, it has returned what was synced. *)
<1>5. ASSUME TypeOK, FileInv, ReadInv, memr.end = "reading", Closed(file, synced, durable), synced <= memr.off
      PROVE  LET n == Returned(file, memr) IN n \in Nat /\ durable <= n /\ n <= Len(added)
  <2> USE <1>5
  <2>1. file \in Seq(Byte) /\ added \in Seq(Nat) /\ Len(file) \in Nat /\ Len(added) \in Nat
        /\ synced \in 0..Len(file) /\ durable \in 0..Len(added)
    BY Zenon, SeqLen DEF TypeOK
  <2>2. PICK o \in Nat : o = memr.off /\ o <= Len(file)
    BY Zenon, <1>1
  <2>3. CASE o = 0
    <3>1. Returned(file, memr) = 0
      BY Zenon, <2>2, <2>3 DEF Returned
    <3>2. synced = 0
      BY <2>1, <2>2, <2>3
    <3>3. durable = 0
      BY Zenon, <3>2 DEF Closed
    <3> QED BY <3>1, <3>3, <2>1
  <2>4. CASE o # 0
    <3>1. /\ o \in 1..Len(file) /\ file[o].kind \in Kinds /\ file[o].rec \in Nat \ {0} /\ file[o].rec <= Len(added)
          /\ memr.in_fragmented <=> file[o].kind \in {"first", "middle"}
      BY Zenon, <2>2, <2>4, <1>1
    <3>2. PICK r \in Nat \ {0} : r = file[o].rec /\ r <= Len(added)
      BY Zenon, <3>1
    <3>3. Returned(file, memr) = IF memr.in_fragmented THEN r - 1 ELSE r
      BY Zenon, <3>2, <2>2, <2>4 DEF Returned
    <3>4. CASE o = synced
      <4>1. file[o].kind \in {"full", "last"} /\ r = durable
        BY Zenon, <3>2, <3>4, <2>4 DEF Closed
      <4>2. ~ (file[o].kind \in {"first", "middle"})
        BY <4>1
      <4>3. Returned(file, memr) = r
        BY Zenon, <4>2, <3>1, <3>3
      <4> QED BY <4>1, <4>3, <3>2, <2>1
    <3>5. CASE o # synced
      <4>1. o \in synced + 1..Len(file)
        BY <3>1, <3>5, <2>1, <2>2
      <4>2. file[o].kind # "zero"
        BY <3>1 DEF Kinds
      <4>3. r > durable
        BY Zenon, <4>1, <4>2, <3>2 DEF FileInv
      <4>4. PICK n \in Nat : n = Returned(file, memr) /\ (n = r - 1 \/ n = r)
        <5>1. r - 1 \in Nat /\ r \in Nat
          OBVIOUS
        <5> QED BY Zenon, <5>1, <3>3
      <4>5. PICK D \in Nat, L \in Nat : D = durable /\ L = Len(added)
        <5>1. \A k \in Nat : \A x \in 0..k : x \in Nat
          OBVIOUS
        <5>2. durable \in Nat
          BY Zenon, <5>1, <2>1
        <5> QED BY Zenon, <5>2, <2>1
      <4>6. r > D /\ r <= L
        BY Zenon, <4>3, <4>5, <3>2
      <4>7. D <= n /\ n <= L
        BY <4>4, <4>6
      <4> QED BY Zenon, <4>4, <4>5, <4>7
    <3> QED BY Zenon, <3>4, <3>5
  <2> QED BY Zenon, <2>3, <2>4
(* The records the first n of a log are, as SyncedSurvive writes them. *)
<1>6. ASSUME NEW n PROVE FirstOf(added, n) = [i \in 1..n |-> Whole(i)]
  <2> USE <1>6
  <2>1. \A i \in 1..n : Opening(i, added[i]) = Whole(i)
    BY Zenon DEF Whole, Opening
  <2> QED BY Zenon, <2>1 DEF FirstOf
<1>7. ASSUME Framing, CleanInv, Read
      PROVE  CleanInv' /\ SyncedSurvive'
  <2> USE <1>7
  <2> SUFFICES ASSUME faults = 0 PROVE CleanInv' /\ SyncedSurvive'
    BY Zenon DEF CleanInv, SyncedSurvive, Read, wvars
  <2>1. TypeOK /\ Agree /\ FileInv /\ ReadInv
    BY Zenon DEF Framing
  <2> DEFINE d == Skip(memr.off)
  <2>2. memr.end = "reading" /\ d \in Nat /\ file' = file /\ added' = added /\ Agree'
    BY Zenon, <2>1, ReadEither
  <2>3. synced' = synced /\ durable' = durable /\ faults' = faults /\ torn' = torn
    BY Zenon DEF Read, wvars
  <2>4. seqr.end # "unopened"
    BY <2>1, <2>2 DEF Agree
  <2>5. /\ InOrder(file) /\ Present(file, synced) /\ Closed(file, synced, durable)
        /\ ~torn => Present(file, Len(file)) /\ Closed(file, Len(file), Len(added))
        /\ memr.out = FirstOf(added, Returned(file, memr))
    BY Zenon, <2>2, <2>4 DEF CleanInv
  <2>6. seqr'.end = memr'.end /\ seqr'.out = memr'.out
    BY Zenon, <2>2 DEF Agree
  <2>7. file \in Seq(Byte) /\ Len(file) \in Nat /\ synced \in 0..Len(file) /\ added \in Seq(Nat) /\ Len(added) \in Nat
    BY Zenon, <2>1, SeqLen DEF TypeOK
  <2> HIDE DEF d
  <2>8. CASE /\ memr'.end \in {"eof", "corrupt"} /\ memr'.out = memr.out
             /\ memr'.end = "corrupt" <=> (memr.in_fragmented \/ d + HeaderSize <= Len(file))
             /\ ~ (/\ FragmentAt(file, d) /\ Accepts(memr.in_fragmented, file[d + 1].kind)
                   /\ file[d + 1].len <= BlockSize - (d % BlockSize) - HeaderSize)
    <3>1. memr'.end # "reading" /\ seqr'.end # "unopened"
      BY <2>6, <2>8
    <3>2. CleanInv'
      BY Zenon, <3>1, <2>2, <2>3, <2>5 DEF CleanInv
    <3>3. PICK o \in Nat : o = memr.off /\ o <= Len(file)
      BY Zenon, <2>1, <2>2, <1>1
    <3>4. ASSUME NEW n \in Nat, n <= Len(file), Present(file, n) PROVE n <= o
      <4>1. ~ (memr.off < n)
        BY Zenon, <3>4, <2>1, <2>2, <2>5, <2>8, <1>2 DEF d
      <4> QED BY <4>1, <3>3
    <3>5. synced <= memr.off
      <4>1. synced \in Nat /\ synced <= Len(file)
        BY <2>7
      <4> QED BY Zenon, <4>1, <3>3, <3>4, <2>5
    <3> DEFINE n == Returned(file, memr)
    <3>6. n \in Nat /\ durable <= n /\ n <= Len(added)
      BY Zenon, <3>5, <2>1, <2>2, <2>5, <1>5
    <3>7. memr'.out = FirstOf(added, n)
      BY Zenon, <2>5, <2>8
    <3> HIDE DEF n
    <3>8. n \in durable..Len(added)
      <4>1. durable \in Nat
        BY <2>1, <2>7 DEF TypeOK
      <4> QED BY <4>1, <3>6, <2>7
    <3>9. FirstOf(added, n) = [i \in 1..n |-> Whole(i)]
      BY Zenon, <1>6
    <3>10. \A i : Whole(i)' = Whole(i)
      BY Zenon, <2>2 DEF Whole
    <3>11. [i \in 1..n |-> Whole(i)'] = [i \in 1..n |-> Whole(i)]
      BY Zenon, <3>10
    <3>12. \E k \in durable'..Len(added') : seqr'.out = [i \in 1..k |-> Whole(i)']
      <4>1. n \in durable'..Len(added')
        BY Zenon, <3>8, <2>2, <2>3
      <4>2. seqr'.out = [i \in 1..n |-> Whole(i)']
        BY Zenon, <3>7, <3>9, <3>11, <2>6
      <4> QED BY Zenon, <4>1, <4>2
    <3>13. ~torn' => seqr'.end = "eof" /\ Len(seqr'.out) = Len(added')
      <4> SUFFICES ASSUME ~torn' PROVE seqr'.end = "eof" /\ Len(seqr'.out) = Len(added')
        BY Zenon
      <4>1. Present(file, Len(file)) /\ Closed(file, Len(file), Len(added))
        BY Zenon, <2>3, <2>5
      <4>2. o = Len(file)
        <5>1. Len(file) <= Len(file)
          BY <2>7
        <5>2. Len(file) <= o
          BY Zenon, <5>1, <4>1, <3>4, <2>7
        <5> QED BY <5>2, <3>3, <2>7
      <4>3. ~memr.in_fragmented /\ n = Len(added)
        <5>1. CASE o = 0
          <6>1. ~memr.in_fragmented
            BY Zenon, <5>1, <3>3, <2>1, <2>2, <1>1
          <6>2. Len(added) = 0
            BY Zenon, <5>1, <4>1, <4>2 DEF Closed
          <6>3. n = 0
            BY Zenon, <5>1, <3>3 DEF n, Returned
          <6> QED BY Zenon, <6>1, <6>2, <6>3
        <5>2. CASE o # 0
          <6>1. file[o].kind \in {"full", "last"} /\ file[o].rec = Len(added)
            BY Zenon, <5>2, <4>1, <4>2 DEF Closed
          <6>2. ~ (file[o].kind \in {"first", "middle"})
            BY <6>1
          <6>3. ~memr.in_fragmented
            BY Zenon, <6>2, <5>2, <3>3, <2>1, <2>2, <1>1
          <6>4. n = file[o].rec
            BY Zenon, <6>3, <5>2, <3>3 DEF n, Returned
          <6> QED BY Zenon, <6>1, <6>3, <6>4
        <5> QED BY Zenon, <5>1, <5>2
      <4>4. ~ (d + HeaderSize <= Len(file))
        <5>1. d \in Nat /\ o <= d
          BY Zenon, <3>3, SkipPlace DEF d
        <5> QED BY <5>1, <4>2, <2>7, Sizes
      <4>5. memr'.end = "eof"
        BY Zenon, <4>3, <4>4, <2>8
      <4>6. Len(FirstOf(added, n)) = n
        BY Zenon, <3>6, <1>3
      <4> QED BY Zenon, <4>3, <4>5, <4>6, <3>7, <2>2, <2>6
    <3>14. SyncedSurvive'
      BY Zenon, <3>12, <3>13 DEF SyncedSurvive
    <3> QED BY Zenon, <3>2, <3>14
  <2>9. CASE /\ memr'.end = "reading" /\ FragmentAt(file, d) /\ memr'.off = EndOf(file, d)
             /\ Accepts(memr.in_fragmented, file[d + 1].kind)
             /\ ReadUpTo(file, added, memr', d) /\ Taken(memr', file[d + 1])
    <3>1. memr'.out = FirstOf(added, Returned(file, memr'))
      BY Zenon, <2>1, <2>2, <2>5, <2>9, <1>4 DEF d
    <3>2. seqr'.end # "unopened" /\ ~ (seqr'.end \in {"eof", "corrupt"})
      BY <2>6, <2>9
    <3>3. CleanInv'
      BY Zenon, <3>1, <3>2, <2>2, <2>3, <2>5 DEF CleanInv
    <3>4. SyncedSurvive'
      BY Zenon, <3>2 DEF SyncedSurvive
    <3> QED BY Zenon, <3>3, <3>4
  <2> QED BY Zenon, <2>1, <2>8, <2>9, ReadEither DEF d
<1> QED BY Zenon, <1>7

(* A step that changes nothing. *)
LEMMA StutterClean ==
  ASSUME CleanInv, SyncedSurvive, UNCHANGED vars
  PROVE  CleanInv' /\ SyncedSurvive'
<1>1. CleanInv'
  BY Zenon, SameVariables DEF CleanInv
<1>2. \A n : Whole(n)' = Whole(n)
  BY Zenon, SameVariables DEF Whole
<1>3. \A n : [i \in 1..n |-> Whole(i)'] = [i \in 1..n |-> Whole(i)]
  BY Zenon, <1>2
<1>4. SyncedSurvive'
  BY Zenon, <1>3, SameVariables DEF SyncedSurvive
<1> QED BY Zenon, <1>1, <1>4

(* The invariant holds at first. *)
LEMMA LogInitially == Init => LogInv
BY Zenon, InitFraming, InitClean DEF LogInv, Framing

(* The invariant is inductive. *)
LEMMA LogStep == LogInv /\ [Next]_vars => LogInv'
<1> SUFFICES ASSUME LogInv, [Next]_vars PROVE LogInv'
  OBVIOUS
<1>1. Framing /\ CleanInv /\ SyncedSurvive
  BY Zenon DEF LogInv, Framing
<1>2. Framing'
  BY Zenon, <1>1, FramingStep
<1>3. CleanInv' /\ SyncedSurvive'
  <2>1. ASSUME NEW len \in Lengths, BeginRecord(len) PROVE CleanInv' /\ SyncedSurvive'
    BY Zenon, <2>1, <1>1, BeginRecordFraming, BeginRecordClean
  <2>2. CASE Emit
    BY Zenon, <2>2, <1>1, EmitFraming, EmitClean
  <2>3. CASE EmitFails
    BY Zenon, <2>3, <1>1, EmitFailsFraming, EmitFailsClean
  <2>4. CASE Sync
    BY Zenon, <2>4, <1>1, SyncFraming, SyncClean
  <2>5. CASE Reopen
    BY Zenon, <2>5, <1>1, ReopenFraming, ReopenClean
  <2>6. CASE Read
    BY Zenon, <2>6, <1>1, ReadClean
  <2>7. CASE UNCHANGED vars
    BY Zenon, <2>7, <1>1, StutterClean
  <2> QED BY Zenon, <2>1, <2>2, <2>3, <2>4, <2>5, <2>6, <2>7 DEF Next
<1> QED BY Zenon, <1>2, <1>3 DEF LogInv, Framing

(***************************************************************************)
(* SyncedSurvive: if no append failed, replay returns the records in order *)
(* from the first one on and at least those a sync covered, and reads a    *)
(* log that no crash tore to its end without an error.                     *)
(***************************************************************************)
THEOREM SyncedAlwaysSurvive == Spec => []SyncedSurvive
<1>1. LogInv => SyncedSurvive
  BY Zenon DEF LogInv
<1> QED BY <1>1, LogInitially, LogStep, PTL DEF Spec

=============================================================================
