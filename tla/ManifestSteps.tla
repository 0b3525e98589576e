---------------------------- MODULE ManifestSteps ---------------------------
(***************************************************************************)
(* The inductive invariant of Manifest, the facts its proof rests on (what *)
(* replaying the records of a MANIFEST gives, what a crash may leave of    *)
(* one, what each action does to each variable), and that every step       *)
(* preserves the parts of it that say where a process is, what its         *)
(* log_and_apply has written, and which file numbers are in use.           *)
(*                                                                         *)
(* The properties of Manifest hold together: which numbers are fresh       *)
(* depends on what the records of a MANIFEST name, what may be deleted on  *)
(* what can be read back, and what repair_db keeps on which tables were    *)
(* not overwritten.  IInv states what a process in each phase knows about  *)
(* the disk.                                                               *)
(***************************************************************************)
EXTENDS Manifest, WellFoundedInduction, TLAPS

Edits == [add : SUBSET Nat, del : SUBSET Nat, next : Nat]
Records == Edits \cup {Torn}
ManifestFile == [records : Seq(Records), synced : Nat]
Jobs == [step : {"create", "snapshot", "append", "sync", "current", "install"},
         who : {"open", "flush", "compact", "manual", "repair"}, edit : Edits, fresh : BOOLEAN]
Repairers == [step : {"none", "convert", "archive", "manifests", "apply"}, logs : SUBSET (0 .. MaxFile),
              log : Nat, manifests : SUBSET Nat, tables : SUBSET (0 .. MaxFile)]

Todos == {<<>>, <<"log">>, <<"table", "log">>}

(* Every variable has its type; numbers of tables and logs are bounded. *)
FilesTyped ==
    /\ DOMAIN manifests \subseteq Nat \ {0}
    /\ \A n \in DOMAIN manifests :
          manifests[n] \in ManifestFile /\ manifests[n].synced <= Len(manifests[n].records)
NumbersTyped ==
    /\ current \in Nat /\ manifest_log \in Nat /\ next_file_number \in Nat \ {0}
    /\ log_file_number \in 0 .. MaxFile /\ logs \subseteq 0 .. MaxFile
    /\ DOMAIN tables \subseteq 0 .. MaxFile /\ version \subseteq Nat
ProcTyped ==
    /\ db \in {"closed", "open", "running", "repair", "stuck"} /\ todo \in Todos
    /\ job \in Jobs \cup {NoJob} /\ failed \subseteq Edits /\ clobbered \in BOOLEAN
    /\ repairer \in Repairers
TypeInv == FilesTyped /\ NumbersTyped /\ ProcTyped

(* Which process runs, and where its log_and_apply is. *)
Phases ==
    /\ db \in {"closed", "stuck"} => job = NoJob
    /\ db = "running" => manifest_log # 0
    /\ db = "open" => failed = {}
    /\ db = "repair" => version = {}
    /\ (db \in {"open", "running"} /\ job = NoJob /\ manifest_log # 0) =>
          manifest_log = current /\ current \in DOMAIN manifests
    /\ (db = "open" /\ job = NoJob /\ manifest_log = 0) => todo # <<>>
    /\ (db = "open" /\ (job # NoJob \/ manifest_log # 0)) => todo # <<"table", "log">>
    /\ repairer.step = "none" <=> db # "repair"
    /\ db = "repair" => (repairer.step = "apply" <=> job # NoJob)
    /\ (db = "repair" /\ job = NoJob) => manifest_log = 0

JobPhases ==
    job # NoJob =>
        /\ db \in {"open", "running", "repair"}
        /\ job.who = "open" <=> db = "open"
        /\ job.who = "repair" <=> db = "repair"
        /\ db = "running" => ~job.fresh
        /\ db = "repair" => job.fresh
        /\ job.step \in {"create", "snapshot", "current"} => job.fresh
        /\ job.step = "create" => manifest_log = 0
        /\ job.step # "create" => manifest_log # 0 /\ manifest_log \in DOMAIN manifests
        /\ (~job.fresh \/ job.step = "install") => manifest_log = current
        /\ (job.fresh /\ job.step \notin {"create", "install"} /\ manifest_log = current) =>
              db = "repair" /\ clobbered

(* Of the tables tb: those numbered below n, and what those in S hold. *)
Below(tb, n) == {t \in DOMAIN tb : t < n}
HoldsIn(tb, S) == UNION {tb[n] : n \in S \cap DOMAIN tb}

(* The counter a record carries is beyond every number the MANIFEST names  *)
(* up to it, and not below the MANIFEST's own.                             *)
RecordsBounded(n, rs) ==
    \A i \in 1 .. Len(rs) : rs[i] # Torn =>
        /\ n <= rs[i].next
        /\ \A j \in 1 .. i : rs[j] # Torn => \A t \in rs[j].add : t < rs[i].next
AddsBelow(rs, n) == \A i \in 1 .. Len(rs) : rs[i] # Torn => \A t \in rs[i].add : t < n

(* The edit being applied, and what log_and_apply has written so far. *)
Written == manifests[manifest_log].records
JobEdit ==
    job # NoJob =>
        /\ job.edit.add \subseteq Below(tables, job.edit.next) /\ job.edit.next <= next_file_number
        /\ job.edit.del \subseteq version /\ job.edit.del \cap job.edit.add = {}
        /\ HoldsIn(tables, job.edit.del) \subseteq HoldsIn(tables, job.edit.add)
        /\ \A t \in version : t < job.edit.next
        /\ kept \subseteq HoldsIn(tables, Below(tables, job.edit.next))
        /\ db = "running" => /\ job.edit.add \cap version = {}
                             /\ \A d \in failed : (d.add \cup d.del) \cap job.edit.add = {}
        /\ (db = "open" /\ ~job.fresh) => job.edit.add = {} /\ job.edit.del = {}
        /\ db = "repair" => job.edit.add = DOMAIN tables
JobLog ==
    job # NoJob =>
        /\ job.step = "create" => job.edit.next = next_file_number
        /\ job.step # "create" => manifest_log <= job.edit.next
        /\ (job.fresh /\ job.step = "snapshot") => Written = <<>>
        /\ (job.fresh /\ job.step = "append") => Len(Written) = 1
        /\ (job.fresh /\ job.step \in {"sync", "current", "install"}) => Len(Written) = 2
        /\ (job.fresh /\ job.step \in {"append", "sync", "current", "install"}) =>
              Written[1] # Torn /\ Written[1].add = version /\ Written[1].del = {}
        /\ job.step \in {"sync", "current", "install"} => Written # <<>> /\ Written[Len(Written)] = job.edit
        /\ job.step \in {"current", "install"} => manifests[manifest_log].synced = Len(Written)
        /\ (~job.fresh /\ job.step = "append") => AddsBelow(Written, job.edit.next)

FilesBounded == \A n \in DOMAIN manifests : RecordsBounded(n, manifests[n].records)
CurrentBounded ==
    (db \in {"open", "running"} /\ current \in DOMAIN manifests) =>
        AddsBelow(manifests[current].records, next_file_number)
Counters ==
    /\ manifest_log # 0 => manifest_log < next_file_number
    /\ db \in {"open", "running"} => \A t \in version : t < next_file_number
    /\ (db = "open" /\ manifest_log = 0) => current <= next_file_number
    /\ (db = "open" /\ manifest_log = 0 /\ job # NoJob) => current < next_file_number
    /\ db = "repair" => repairer.tables = DOMAIN tables /\ \A t \in DOMAIN tables : t < next_file_number
Numbers == FilesBounded /\ CurrentBounded /\ Counters

FailedEdits ==
    db = "running" => \A d \in failed :
        /\ \A t \in d.add \cup d.del : t < next_file_number
        /\ d.add \cap version = {}
        /\ HoldsIn(tables, d.del) \subseteq HoldsIn(tables, d.add)

(* What can be read back from a MANIFEST after a crash now, and from the   *)
(* one that CURRENT names.                                                 *)
Recoverable(m) == {rs \in {r.records : r \in Left(m)} : Readable(rs)}
Readings == IF current \in DOMAIN manifests THEN Recoverable(manifests[current]) ELSE {}

Exists ==
    /\ \A rs \in Readings : Replay(rs) \subseteq DOMAIN tables \cup damaged
    /\ db \in {"open", "running"} => version \subseteq DOMAIN tables \cup damaged

(* What is read back, R, is the version v with some edits of U applied,    *)
(* each as a whole.                                                        *)
Applied(v, es) == (v \ UNION {e.del : e \in es}) \cup UNION {e.add : e \in es}
Among(v, U, R) == \E es \in SUBSET U : R = Applied(v, es)
Atomic ==
    ~clobbered =>
        /\ db \in {"closed", "stuck", "repair"} => \A r, s \in Readings : Replay(r) = Replay(s)
        /\ db = "open" => \A rs \in Readings :
              Replay(rs) = IF job.step = "install" THEN Apply(version, job.edit) ELSE version
        /\ db = "running" => \A rs \in Readings : Among(version, Unapplied, Replay(rs))

Content ==
    /\ current = 0 => kept = {}
    /\ kept \subseteq HoldsIn(tables, DOMAIN tables)
    /\ db \in {"open", "running"} => kept \subseteq HoldsIn(tables, Below(tables, next_file_number))
    /\ \A rs \in Readings : rs # <<>> => kept \subseteq HoldsIn(tables, Below(tables, rs[Len(rs)].next))
    /\ ~clobbered => \A rs \in Readings : kept \subseteq HoldsIn(tables, Replay(rs))
    /\ (~clobbered /\ db \in {"open", "running"}) => kept \subseteq HoldsIn(tables, version)

IInv == /\ TypeInv /\ Phases /\ JobPhases /\ JobEdit /\ JobLog /\ Numbers /\ FailedEdits
        /\ Exists /\ Atomic /\ Content
-----------------------------------------------------------------------------
(* The least-number principle, and with it the maximum of a bounded set. *)
LEMMA Least == ASSUME NEW T, T \subseteq Nat, T # {} PROVE \E x \in T : \A y \in T : x <= y
<1> DEFINE R == OpToRel(<, Nat)
<1>1. IsWellFoundedOn(R, Nat)
  BY Zenon, NatLessThanWellFounded
<1>2. \A x \in Nat, y \in Nat : y < x => <<y, x>> \in R
  BY DEF OpToRel
<1> HIDE DEF R
<1>3. PICK x \in T : \A y \in T : ~(<<y, x>> \in R)
  BY Zenon, <1>1, WFMin
<1>4. \A y \in T : ~(y < x)
  BY Zenon, <1>2, <1>3
<1>5. \A y \in T : x <= y
  BY <1>4
<1> QED BY <1>5

LEMMA MaxExists ==
    ASSUME NEW N \in Nat, NEW S, S \subseteq 0 .. N, S # {}
    PROVE  Max(S) \in S /\ \A x \in S : x <= Max(S)
<1> DEFINE T == {k \in Nat : \A x \in S : x <= k}
<1>1. N \in T
  OBVIOUS
<1>2. PICK k \in T : \A y \in T : k <= y
  BY Zenon, <1>1, Least
<1>3. k \in S
  <2>1. SUFFICES ASSUME k \notin S PROVE FALSE
    OBVIOUS
  <2>2. \A x \in S : x <= k - 1
    BY <2>1
  <2>3. PICK x \in S : TRUE
    BY Zenon
  <2>4. k - 1 \in Nat
    BY <2>2, <2>3
  <2>5. k - 1 \in T
    BY <2>2, <2>4
  <2> QED BY <1>2, <2>5
<1>4. \E x \in S : \A y \in S : x >= y
  BY <1>3
<1> QED BY Zenon, <1>4 DEF Max

(* Replaying the records of a MANIFEST in order: nothing, then each edit   *)
(* applied to what came before it.                                         *)
LEMMA ReplayEmpty == Replay(<<>>) = {}
BY DEF Replay

LEMMA ReplayAppend ==
    ASSUME NEW X, NEW rs \in Seq(X), NEW e PROVE Replay(Append(rs, e)) = Apply(Replay(rs), e)
<1> DEFINE n == Len(rs)
           q == Append(rs, e)
<1>1. n \in Nat /\ Len(q) = n + 1 /\ q[n + 1] = e /\ \A i \in 1 .. n : q[i] = rs[i]
  OBVIOUS
<1> HIDE DEF n, q
<1>2. ASSUME NEW t \in Replay(q) PROVE t \in Apply(Replay(rs), e)
  <2>1. PICK i \in 1 .. n + 1 : t \in q[i].add /\ \A j \in i + 1 .. n + 1 : t \notin q[j].del
    BY <1>1, <1>2 DEF Replay
  <2>2. CASE i = n + 1
    BY <1>1, <2>1, <2>2 DEF Apply
  <2>3. CASE i \in 1 .. n
    <3>1. t \in rs[i].add /\ t \notin e.del
      BY <1>1, <2>1, <2>3
    <3>2. \A j \in i + 1 .. n : t \notin rs[j].del
      BY <1>1, <2>1, <2>3
    <3>3. t \in Replay(rs)
      BY <2>3, <3>1, <3>2 DEF Replay, n
    <3> QED BY <3>1, <3>3 DEF Apply
  <2> QED BY <1>1, <2>1, <2>2, <2>3
<1>3. ASSUME NEW t \in Apply(Replay(rs), e) PROVE t \in Replay(q)
  <2>1. CASE t \in e.add
    BY <1>1, <2>1 DEF Replay
  <2>2. CASE t \in Replay(rs) /\ t \notin e.del
    <3>1. PICK i \in 1 .. n : t \in rs[i].add /\ \A j \in i + 1 .. n : t \notin rs[j].del
      BY <2>2 DEF Replay, n
    <3>2. t \in q[i].add /\ \A j \in i + 1 .. n + 1 : t \notin q[j].del
      BY <1>1, <2>2, <3>1
    <3> QED BY <1>1, <3>1, <3>2 DEF Replay
  <2> QED BY <1>3, <2>1, <2>2 DEF Apply
<1> QED BY Zenon, <1>2, <1>3 DEF q

(* What a crash may leave of a MANIFEST and recovery can read is a prefix  *)
(* of its records that includes the synced ones and no torn one.           *)
LEMMA Prefixes ==
    ASSUME NEW m \in ManifestFile, m.synced <= Len(m.records)
    PROVE  /\ \A k \in m.synced .. Len(m.records) :
                 Readable(SubSeq(m.records, 1, k)) => SubSeq(m.records, 1, k) \in Recoverable(m)
           /\ \A rs \in Recoverable(m) :
                 Readable(rs) /\ \E k \in m.synced .. Len(m.records) : rs = SubSeq(m.records, 1, k)
<1> DEFINE q == m.records
<1>1. q \in Seq(Records) /\ m.synced \in Nat
  BY DEF ManifestFile
<1>2. ASSUME NEW k \in m.synced .. Len(q), Readable(SubSeq(q, 1, k))
      PROVE  SubSeq(q, 1, k) \in Recoverable(m)
  <2> DEFINE r == Remnant(m, k, <<>>)
  <2>1. SubSeq(q, 1, k) \o <<>> = SubSeq(q, 1, k) /\ Len(SubSeq(q, 1, k)) = k
    BY <1>1
  <2>2. r \in Remains(m)
    BY DEF Remains
  <2>3. r \in Left(m)
    BY <1>1, <2>1, <2>2 DEF Left, Remnant
  <2> QED BY <1>2, <2>1, <2>3 DEF Recoverable, Remnant
<1>3. ASSUME NEW rs \in Recoverable(m)
      PROVE  Readable(rs) /\ \E k \in m.synced .. Len(q) : rs = SubSeq(q, 1, k)
  <2>1. PICK r \in Left(m) : rs = r.records
    BY DEF Recoverable
  <2>2. PICK k \in m.synced .. Len(q), t \in {<<>>} \cup {<<h>> : h \in Halves} :
            r = Remnant(m, k, t)
    BY DEF Left, Remains
  <2>3. Readable(rs)
    BY DEF Recoverable
  <2>4. SubSeq(q, 1, k) \in Seq(Records) /\ Len(SubSeq(q, 1, k)) = k
    BY <1>1
  <2> DEFINE p == SubSeq(q, 1, k)
  <2> HIDE DEF p, q
  <2>5. CASE t = <<>>
    BY <2>1, <2>2, <2>3, <2>4, <2>5 DEF p, q, Remnant
  <2>6. CASE t = <<Torn>>
    <3>1. Len(p \o <<Torn>>) = k + 1 /\ (p \o <<Torn>>)[k + 1] = Torn
      BY <1>1, <2>4 DEF p
    <3>2. rs = p \o <<Torn>>
      BY <2>1, <2>2, <2>6 DEF p, q, Remnant
    <3>3. k \in Nat
      BY <1>1 DEF q
    <3> QED BY <2>3, <3>1, <3>2, <3>3 DEF Readable
  <2> QED BY <2>5, <2>6 DEF Halves
<1> QED BY <1>2, <1>3

(* A readable sequence of records is one of edits. *)
LEMMA ReadableEdits ==
    ASSUME NEW rs \in Seq(Records), Readable(rs)
    PROVE  rs \in Seq(Edits) /\ \A i \in 1 .. Len(rs) : rs[i] \in Edits
<1>1. \A i \in 1 .. Len(rs) : rs[i] \in Edits
  BY DEF Records, Readable
<1> QED BY <1>1

(* The records as they are now, if they can be read, are one outcome. *)
LEMMA RecoverableAll ==
    ASSUME NEW m \in ManifestFile, m.synced <= Len(m.records), Readable(m.records)
    PROVE  m.records \in Recoverable(m)
<1>1. m.records \in Seq(Records) /\ m.synced \in Nat
  BY DEF ManifestFile
<1>2. SubSeq(m.records, 1, Len(m.records)) = m.records
  BY <1>1
<1>3. Len(m.records) \in m.synced .. Len(m.records)
  BY <1>1
<1> QED BY Zenon, <1>2, <1>3, Prefixes

(* Each outcome agrees with the records, as far as it goes. *)
LEMMA RecoverableIs ==
    ASSUME NEW m \in ManifestFile, m.synced <= Len(m.records), NEW rs \in Recoverable(m)
    PROVE  /\ rs \in Seq(Edits) /\ Readable(rs) /\ Len(rs) \in m.synced .. Len(m.records)
           /\ \A i \in 1 .. Len(rs) : rs[i] \in Edits /\ rs[i] = m.records[i]
<1>1. m.records \in Seq(Records) /\ m.synced \in Nat
  BY DEF ManifestFile
<1>2. PICK k \in m.synced .. Len(m.records) : rs = SubSeq(m.records, 1, k)
  BY Prefixes
<1>3. rs \in Seq(Records) /\ Len(rs) = k /\ \A i \in 1 .. k : rs[i] = m.records[i]
  BY <1>1, <1>2
<1>4. Readable(rs)
  BY Prefixes
<1> QED BY <1>3, <1>4, ReadableEdits

(* Nothing was written yet: there is nothing to read. *)
LEMMA RecoverableCreated ==
    ASSUME NEW rs \in Recoverable([records |-> <<>>, synced |-> 0]) PROVE rs = <<>>
<1> DEFINE m == [records |-> <<>>, synced |-> 0]
<1>1. m \in ManifestFile /\ m.synced <= Len(m.records) /\ Len(m.records) = 0
  BY DEF ManifestFile
<1> HIDE DEF m
<1>2. rs \in Seq(Edits) /\ Len(rs) = 0
  BY <1>1, RecoverableIs DEF m
<1> QED BY <1>2

(* A record is appended: it adds one outcome, itself after all the others. *)
LEMMA RecoverableAppend ==
    ASSUME NEW m \in ManifestFile, m.synced <= Len(m.records), NEW e \in Records, NEW M,
           M.records = Append(m.records, e), M.synced = m.synced, M \in ManifestFile,
           NEW rs \in Recoverable(M)
    PROVE  \/ rs \in Recoverable(m)
           \/ e # Torn /\ m.records \in Recoverable(m) /\ rs = Append(m.records, e)
<1> DEFINE q == m.records
<1>1. q \in Seq(Records) /\ m.synced \in Nat /\ Len(q) \in Nat
  BY DEF ManifestFile
<1>2. Len(Append(q, e)) = Len(q) + 1
  BY <1>1
<1>3. Readable(rs) /\ \E k \in m.synced .. Len(q) + 1 : rs = SubSeq(Append(q, e), 1, k)
  BY SMTT(30), <1>1, <1>2, Prefixes
<1>4. PICK k \in m.synced .. Len(q) + 1 : rs = SubSeq(Append(q, e), 1, k)
  BY <1>3
<1>5. CASE k \in m.synced .. Len(q)
  <2>1. SubSeq(Append(q, e), 1, k) = SubSeq(q, 1, k)
    BY <1>1, <1>5
  <2> QED BY Zenon, <1>3, <1>4, <1>5, <2>1, Prefixes
<1>6. CASE k = Len(q) + 1
  <2>1. rs = Append(q, e)
    BY <1>1, <1>4, <1>6
  <2>2. Readable(q) /\ e # Torn
    BY <1>1, <1>2, <1>3, <2>1 DEF Readable
  <2> QED BY <2>1, <2>2, RecoverableAll
<1> QED BY <1>1, <1>4, <1>5, <1>6

(* Once all is synced there is one outcome. *)
LEMMA RecoverableSynced ==
    ASSUME NEW m \in ManifestFile, m.synced = Len(m.records), NEW rs \in Recoverable(m)
    PROVE  rs = m.records
<1>1. m.records \in Seq(Records) /\ m.synced \in Nat
  BY DEF ManifestFile
<1>2. PICK k \in m.synced .. Len(m.records) : rs = SubSeq(m.records, 1, k)
  BY <1>1, Prefixes
<1>3. k = Len(m.records)
  BY <1>1, <1>2
<1> QED BY <1>1, <1>2, <1>3

(* A crash only removes outcomes, and of those that remain there is one. *)
LEMMA RecoverableLeft ==
    ASSUME NEW m \in ManifestFile, m.synced <= Len(m.records), NEW M \in Left(m)
    PROVE  /\ M \in ManifestFile /\ M.synced <= Len(M.records)
           /\ Recoverable(M) \subseteq Recoverable(m)
           /\ \A r, s \in Recoverable(M) : r = s
           /\ \A i \in 1 .. Len(M.records) : M.records[i] # Torn =>
                 i \in 1 .. Len(m.records) /\ M.records[i] = m.records[i]
<1> DEFINE q == m.records
<1>1. q \in Seq(Records) /\ m.synced \in Nat /\ Len(q) \in Nat
  BY DEF ManifestFile
<1>2. PICK k \in m.synced .. Len(q), t \in {<<>>} \cup {<<h>> : h \in Halves} : M = Remnant(m, k, t)
  BY DEF Left, Remains
<1> DEFINE p == SubSeq(q, 1, k)
<1>3. p \in Seq(Records) /\ Len(p) = k /\ k \in Nat /\ \A i \in 1 .. k : p[i] = q[i]
  BY <1>1
<1>4. M.records = p \o t /\ M.synced = k /\ M = [records |-> p \o t, synced |-> k]
  BY <1>2 DEF Remnant
<1>5. ASSUME NEW rs \in Recoverable(M), rs = p PROVE rs \in Recoverable(m)
  BY <1>5, Prefixes DEF Recoverable
<1> HIDE DEF p, q
<1>6. CASE t = <<>>
  <2>1. M.records = p /\ M \in ManifestFile
    BY <1>3, <1>4, <1>6 DEF ManifestFile
  <2>2. \A rs \in Recoverable(M) : rs = p
    BY Zenon, <1>3, <1>4, <2>1, RecoverableSynced
  <2>3. M.synced <= Len(M.records)
    BY <1>3, <1>4, <2>1
  <2>4. \A i \in 1 .. Len(M.records) : i \in 1 .. Len(q) /\ M.records[i] = q[i]
    BY <1>1, <1>2, <1>3, <2>1
  <2> QED BY <1>5, <2>1, <2>2, <2>3, <2>4 DEF q
<1>7. CASE t = <<Torn>>
  <2>1. /\ M.records \in Seq(Records) /\ Len(M.records) = k + 1 /\ M.records[k + 1] = Torn
        /\ \A i \in 1 .. k : M.records[i] = p[i]
    <3>1. Torn \in Records
      BY DEF Records
    <3>2. M.records = p \o <<Torn>>
      BY <1>4, <1>7
    <3> HIDE DEF Torn
    <3> QED BY <1>3, <3>1, <3>2
  <2>2. M \in ManifestFile /\ M.synced <= Len(M.records)
    BY <1>3, <1>4, <2>1 DEF ManifestFile
  <2>3. ASSUME NEW rs \in Recoverable(M) PROVE rs = p
    <3>1. PICK j \in k .. k + 1 : rs = SubSeq(M.records, 1, j)
      BY Zenon, <1>4, <2>1, <2>2, Prefixes
    <3>2. Readable(rs)
      BY DEF Recoverable
    <3>3. j # k + 1
      BY <1>3, <2>1, <3>1, <3>2 DEF Readable
    <3>4. Len(rs) = k /\ rs \in Seq(Records) /\ \A i \in 1 .. k : rs[i] = p[i]
      BY <1>3, <2>1, <3>1, <3>3
    <3> QED BY <1>3, <3>4
  <2>4. \A i \in 1 .. Len(M.records) : M.records[i] # Torn => i \in 1 .. Len(q) /\ M.records[i] = q[i]
    BY <1>1, <1>2, <1>3, <2>1
  <2> QED BY <1>5, <2>2, <2>3, <2>4 DEF q
<1> QED BY <1>6, <1>7 DEF Halves
-----------------------------------------------------------------------------
(* A log_and_apply is under way exactly when it has a step. *)
LEMMA JobIs ==
    ASSUME TypeInv
    PROVE  /\ job # NoJob <=> job.step # "none"
           /\ job # NoJob => job \in Jobs /\ job.edit \in Edits
BY DEF TypeInv, FilesTyped, NumbersTyped, ProcTyped, Jobs, NoJob

(* What the steps of log_and_apply do to the job and to its MANIFEST. *)
JobBegins(who, add, del, next) ==
    /\ job' \in Jobs /\ job' # NoJob /\ job'.step = (IF manifest_log = 0 THEN "create" ELSE "append")
    /\ job'.who = who /\ job'.fresh = (manifest_log = 0)
    /\ job'.edit \in Edits /\ job'.edit.add = add /\ job'.edit.del = del /\ job'.edit.next = next
JobMoves(step) ==
    /\ job \in Jobs /\ job # NoJob /\ job.edit \in Edits /\ job' \in Jobs /\ job' # NoJob
    /\ job'.step = step /\ job'.who = job.who /\ job'.edit = job.edit /\ job'.fresh = job.fresh
FileIs(n, records, synced) ==
    /\ DOMAIN manifests' = DOMAIN manifests \cup {n}
    /\ manifests'[n] \in ManifestFile /\ manifests'[n].records = records /\ manifests'[n].synced = synced
    /\ \A k \in DOMAIN manifests \ {n} : manifests'[k] = manifests[k]

LEMMA BeginIs ==
    ASSUME TypeInv, NEW who \in {"open", "flush", "compact", "manual", "repair"},
           NEW add \in SUBSET Nat, NEW del \in SUBSET Nat, NEW next \in Nat, Begin(who, add, del, next)
    PROVE  JobBegins(who, add, del, next)
<1>1. manifest_log \in Nat
  BY DEF TypeInv, FilesTyped, NumbersTyped, ProcTyped
<1> QED BY <1>1 DEF JobBegins, Begin, Edit, Edits, Jobs, NoJob

LEMMA MoveIs ==
    ASSUME TypeInv, job.step # "none", NEW step \in {"snapshot", "append", "sync", "current", "install"},
           job' = [job EXCEPT !.step = step]
    PROVE  JobMoves(step)
<1>1. job \in Jobs /\ job # NoJob
  BY JobIs
<1> QED BY <1>1 DEF JobMoves, Jobs, NoJob

LEMMA AppendIs ==
    ASSUME TypeInv, NEW n \in DOMAIN manifests, NEW r \in Records, manifests' = Appended(n, r)
    PROVE  FileIs(n, Append(manifests[n].records, r), manifests[n].synced)
<1>1. manifests[n] \in ManifestFile
  BY DEF TypeInv, FilesTyped, NumbersTyped, ProcTyped
<1>2. manifests[n].records \in Seq(Records) /\ manifests[n].synced \in Nat
  BY <1>1 DEF ManifestFile
<1>3. Append(manifests[n].records, r) \in Seq(Records)
  BY <1>2
<1>4. manifests' = [manifests EXCEPT ![n] = [manifests[n] EXCEPT !.records = Append(manifests[n].records, r)]]
  BY DEF Appended
<1>5. manifests[n] = [records |-> manifests[n].records, synced |-> manifests[n].synced]
  BY <1>1 DEF ManifestFile
<1>6. manifests'[n] = [records |-> Append(manifests[n].records, r), synced |-> manifests[n].synced]
  BY Zenon, <1>4, <1>5
<1> QED BY Zenon, <1>2, <1>3, <1>4, <1>6 DEF FileIs, ManifestFile

LEMMA SyncIs ==
    ASSUME TypeInv, NEW n \in DOMAIN manifests,
           manifests' = [manifests EXCEPT ![n].synced = Len(manifests[n].records)]
    PROVE  FileIs(n, manifests[n].records, Len(manifests[n].records))
<1>1. manifests[n] \in ManifestFile
  BY DEF TypeInv, FilesTyped, NumbersTyped, ProcTyped
<1>2. manifests[n].records \in Seq(Records) /\ Len(manifests[n].records) \in Nat
  BY <1>1 DEF ManifestFile
<1>3. manifests[n] = [records |-> manifests[n].records, synced |-> manifests[n].synced]
  BY <1>1 DEF ManifestFile
<1>4. manifests'[n] = [records |-> manifests[n].records, synced |-> Len(manifests[n].records)]
  BY <1>3
<1> QED BY Zenon, <1>2, <1>4 DEF FileIs, ManifestFile

LEMMA CreateIs ==
    ASSUME NEW n, manifests' = Created(n) PROVE FileIs(n, <<>>, 0)
BY DEF Created, With, FileIs, ManifestFile

LEMMA Lengthened ==
    ASSUME NEW X, NEW q \in Seq(X), NEW e
    PROVE  /\ Len(q) \in Nat /\ Len(Append(q, e)) = Len(q) + 1 /\ Append(q, e)[Len(q) + 1] = e
           /\ \A i \in 1 .. Len(q) : Append(q, e)[i] = q[i]
OBVIOUS

(* A flush or a compaction, with what it takes from the version. *)
Starts(who, del, holds, n) ==
    /\ Change(who, del, holds, n)
    /\ who \in {"flush", "compact", "manual"}
    /\ n \in Nat /\ n >= next_file_number
    /\ del \subseteq version /\ Holds(del) \subseteq holds
    /\ log_file_number' \in 0 .. MaxFile /\ logs' \subseteq 0 .. MaxFile
LEMMA ChangeStarts ==
    ASSUME TypeInv, Flush \/ Compact \/ ManualCompact
    PROVE  \E who, del, holds, n : Starts(who, del, holds, n)
<1>1. MaxFile \in Nat /\ next_file_number \in Nat /\ log_file_number \in 0 .. MaxFile /\ logs \subseteq 0 .. MaxFile
  BY ManifestAssumption DEF TypeInv, FilesTyped, NumbersTyped, ProcTyped
<1>2. CASE Flush
  <2> DEFINE n == next_file_number
  <2>1. Change("flush", {}, {n + 1}, n + 1) /\ log_file_number' = n /\ logs' = logs \cup {n}
    BY <1>2 DEF Flush
  <2>2. n + 1 < MaxFile
    BY <2>1 DEF Change
  <2>3. Holds({}) \subseteq {n + 1}
    BY DEF Holds
  <2>4. Starts("flush", {}, {n + 1}, n + 1)
    BY <1>1, <2>1, <2>2, <2>3 DEF Starts
  <2> QED BY <2>4
<1>3. ASSUME NEW who \in {"compact", "manual"}, NEW f \in version \cap DOMAIN tables, Compacts(who, f)
      PROVE  Starts(who, {f}, tables[f], next_file_number)
  <2>1. Holds({f}) \subseteq tables[f]
    BY DEF Holds
  <2> QED BY <1>1, <1>3, <2>1 DEF Starts, Compacts
<1> QED BY Zenon, <1>2, <1>3 DEF Compact, ManualCompact

LEMMA NextCases ==
    ASSUME TypeInv, Next
    PROVE  \/ OpenNew \/ OpenExisting \/ OpenFails \/ OpenTable \/ OpenLog \/ Opened
           \/ FindFiles \/ (\E l \in repairer.logs : ConvertLog(l)) \/ ArchiveLog \/ ExtractMetadata
           \/ (\E n \in repairer.manifests : ArchiveManifest(n)) \/ WriteDescriptor
           \/ CreateManifest \/ AppendSnapshot \/ AppendEdit \/ SyncManifest \/ SetCurrent \/ Install
           \/ (\E who, del, holds, n : Starts(who, del, holds, n)) \/ Fail \/ Crash
BY ChangeStarts, Zenon DEF Next, OpenStep, RepairStep, ApplyStep

(* What an action does to each variable, once for all the invariants. *)
TableIs(n, x) ==
    /\ DOMAIN tables' = DOMAIN tables \cup {n} /\ tables'[n] = x
    /\ \A k \in DOMAIN tables \ {n} : tables'[k] = tables[k]
TablesDropped(S) ==
    /\ DOMAIN tables' = DOMAIN tables \ S
    /\ \A k \in DOMAIN tables \ S : tables'[k] = tables[k]
LEMMA WithIs == ASSUME NEW n, NEW x, tables' = With(tables, n, x) PROVE TableIs(n, x)
BY DEF With, TableIs
LEMMA WithoutIs == ASSUME NEW S, tables' = Without(tables, S) PROVE TablesDropped(S)
BY DEF Without, Restrict, TablesDropped

LEMMA ReplayType == ASSUME NEW rs \in Seq(Edits) PROVE Replay(rs) \subseteq Nat
<1>1. ASSUME NEW i \in 1 .. Len(rs) PROVE rs[i].add \subseteq Nat
  <2>1. rs[i] \in Edits
    OBVIOUS
  <2> QED BY <2>1 DEF Edits
<1> QED BY <1>1 DEF Replay

LEMMA OpenExistingIs ==
    ASSUME TypeInv, Numbers, OpenExisting
    PROVE  \E rs \in Readings :
              /\ current \in DOMAIN manifests /\ current # 0
              /\ rs = manifests[current].records /\ rs \in Seq(Edits) /\ Len(rs) \in Nat \ {0}
              /\ version' = Replay(rs) /\ version' \subseteq Nat
              /\ next_file_number' = rs[Len(rs)].next /\ next_file_number' \in Nat \ {0}
              /\ current <= next_file_number'
              /\ \A i \in 1 .. Len(rs) : rs[i] # Torn /\ \A t \in rs[i].add : t < next_file_number'
<1> DEFINE m == manifests[current]
           rs == m.records
<1>1. current \in DOMAIN manifests /\ rs # <<>> /\ Readable(rs) /\ current # 0
  BY DEF OpenExisting, Intact
<1>2. m \in ManifestFile /\ m.synced <= Len(rs) /\ current \in Nat
  BY <1>1 DEF TypeInv, FilesTyped, NumbersTyped, ProcTyped
<1>3. rs \in Seq(Records)
  BY <1>2 DEF ManifestFile
<1>4. rs \in Seq(Edits) /\ \A i \in 1 .. Len(rs) : rs[i] \in Edits
  BY <1>1, <1>3, ReadableEdits
<1>5. Len(rs) \in Nat \ {0}
  BY <1>1, <1>3
<1>6. rs \in Readings
  BY <1>1, <1>2, RecoverableAll DEF Readings
<1>7. version' = Replay(rs) /\ next_file_number' = rs[Len(rs)].next
  BY DEF OpenExisting
<1>8. version' \subseteq Nat
  BY <1>4, <1>7, ReplayType
<1>9. RecordsBounded(current, rs)
  BY <1>1 DEF Numbers, FilesBounded
<1> HIDE DEF rs
<1>10. \A i \in 1 .. Len(rs) : rs[i] # Torn
  BY <1>1 DEF Readable
<1>11. rs[Len(rs)] \in Edits /\ rs[Len(rs)] # Torn
  BY <1>4, <1>5, <1>10
<1>12. next_file_number' \in Nat /\ current <= next_file_number'
  BY <1>5, <1>7, <1>9, <1>11 DEF RecordsBounded, Edits
<1>13. \A i \in 1 .. Len(rs) : \A t \in rs[i].add : t < next_file_number'
  BY <1>5, <1>7, <1>9, <1>10, <1>11 DEF RecordsBounded
<1> QED BY <1>1, <1>2, <1>4, <1>5, <1>6, <1>7, <1>8, <1>10, <1>12, <1>13 DEF rs

LEMMA OpenTableIs ==
    ASSUME TypeInv, OpenTable
    PROVE  /\ db = "open" /\ job = NoJob /\ todo = <<"table", "log">> /\ todo' = <<"log">>
           /\ next_file_number < MaxFile /\ next_file_number' = next_file_number + 1
           /\ TableIs(next_file_number, {next_file_number})
           /\ JobBegins("open", {next_file_number}, {}, next_file_number + 1)
           /\ UNCHANGED <<current, manifests, logs, db, version, log_file_number, manifest_log, bg_error,
                          failed, repairer, kept, damaged, clobbered>>
<1>1. next_file_number \in Nat /\ todo \in {<<>>, <<"log">>, <<"table", "log">>}
  BY DEF TypeInv, NumbersTyped, ProcTyped, Todos
<1>2. Begin("open", {next_file_number}, {}, next_file_number + 1) /\ todo # <<>> /\ Head(todo) = "table"
  BY DEF OpenTable
<1>3. todo = <<"table", "log">>
  BY <1>1, <1>2
<1>4. todo' = <<"log">>
  BY <1>3 DEF OpenTable
<1>5. JobBegins("open", {next_file_number}, {}, next_file_number + 1)
  BY <1>1, <1>2, BeginIs
<1> QED BY <1>3, <1>4, <1>5, WithIs DEF OpenTable, repVars

LEMMA OpenLogIs ==
    ASSUME TypeInv, OpenLog
    PROVE  /\ db = "open" /\ job = NoJob /\ todo = <<"log">> /\ todo' = <<>>
           /\ next_file_number < MaxFile /\ next_file_number' = next_file_number + 1
           /\ log_file_number' = next_file_number
           /\ JobBegins("open", {}, {}, next_file_number + 1)
           /\ UNCHANGED <<current, manifests, tables, logs, db, version, manifest_log, bg_error,
                          failed, repairer, kept, damaged, clobbered>>
<1>1. next_file_number \in Nat /\ todo \in {<<>>, <<"log">>, <<"table", "log">>}
  BY DEF TypeInv, NumbersTyped, ProcTyped, Todos
<1>2. Begin("open", {}, {}, next_file_number + 1) /\ todo # <<>> /\ Head(todo) = "log"
  BY DEF OpenLog
<1>3. todo = <<"log">>
  BY <1>1, <1>2
<1>4. todo' = <<>>
  BY <1>3 DEF OpenLog
<1>5. JobBegins("open", {}, {}, next_file_number + 1)
  BY <1>1, <1>2, BeginIs
<1> QED BY <1>3, <1>4, <1>5 DEF OpenLog, repVars, diskVars

LEMMA FindFilesIs ==
    ASSUME TypeInv, FindFiles
    PROVE  /\ db \in {"closed", "stuck"} /\ db' = "repair" /\ version' = {} /\ manifest_log' = 0 /\ failed' = {}
           /\ next_file_number' \in Nat \ {0} /\ \A t \in DOMAIN tables : t < next_file_number'
           /\ repairer' \in Repairers /\ repairer'.step = "convert" /\ repairer'.tables = DOMAIN tables
           /\ UNCHANGED <<current, manifests, tables, logs, todo, job, log_file_number, kept, damaged, clobbered>>
<1> DEFINE S == {0} \cup DOMAIN tables \cup logs
<1>1. DOMAIN tables \subseteq 0 .. MaxFile /\ logs \subseteq 0 .. MaxFile /\ DOMAIN manifests \subseteq Nat
  BY DEF TypeInv, FilesTyped, NumbersTyped, ProcTyped
<1>2. MaxFile \in Nat
  BY ManifestAssumption
<1>3. S \subseteq 0 .. MaxFile /\ S # {}
  <2>1. \A x \in S : x \in 0 .. MaxFile
    BY <1>1, <1>2
  <2>2. 0 \in S
    OBVIOUS
  <2> HIDE DEF S
  <2> QED BY <2>1, <2>2
<1> HIDE DEF S
<1>4. PICK k \in S : k = Max(S) /\ \A x \in S : x <= k
  BY Zenon, <1>2, <1>3, MaxExists
<1>5. next_file_number' = k + 1
  BY <1>4 DEF FindFiles, S
<1>6. k \in Nat
  BY <1>2, <1>3
<1>7. next_file_number' \in Nat \ {0} /\ \A x \in S : x < next_file_number'
  BY <1>2, <1>3, <1>4, <1>5, <1>6
<1>8. \A t \in DOMAIN tables : t < next_file_number'
  BY Zenon, <1>7 DEF S
<1>9. repairer' \in Repairers /\ repairer'.step = "convert" /\ repairer'.tables = DOMAIN tables
  BY <1>1 DEF FindFiles, Repairers
<1> QED BY Zenon, <1>7, <1>8, <1>9 DEF FindFiles, diskVars

LEMMA ConvertLogIs ==
    ASSUME TypeInv, NEW l \in repairer.logs, ConvertLog(l)
    PROVE  /\ repairer.step = "convert" /\ repairer' \in Repairers /\ repairer'.step = "archive"
           /\ next_file_number' \in {next_file_number, next_file_number + 1}
           /\ \/ /\ TableIs(next_file_number, {next_file_number}) /\ next_file_number < MaxFile
                 /\ next_file_number' = next_file_number + 1
                 /\ repairer'.tables = repairer.tables \cup {next_file_number}
              \/ tables' = tables /\ repairer'.tables = repairer.tables
           /\ UNCHANGED <<current, manifests, logs, db, todo, job, version, log_file_number, manifest_log, failed,
                          kept, damaged, clobbered>>
<1>1. next_file_number \in Nat /\ repairer \in Repairers /\ l \in Nat
  BY DEF TypeInv, FilesTyped, NumbersTyped, ProcTyped, Repairers
<1>2. repairer.step = "convert" /\ UNCHANGED <<current, manifests, logs, db, todo, job, version, log_file_number,
                                               manifest_log, failed, kept, damaged, clobbered>>
  BY DEF ConvertLog, RepairUnchanged
<1>3. CASE /\ next_file_number < MaxFile
           /\ tables' = With(tables, next_file_number, {next_file_number})
           /\ next_file_number' = next_file_number + 1
           /\ repairer' = [repairer EXCEPT !.step = "archive", !.log = l, !.tables = @ \cup {next_file_number}]
  <2>1. TableIs(next_file_number, {next_file_number})
    BY <1>3, WithIs
  <2>2. next_file_number \in 0 .. MaxFile
    BY <1>1, <1>3, ManifestAssumption
  <2>3. repairer' \in Repairers /\ repairer'.step = "archive"
        /\ repairer'.tables = repairer.tables \cup {next_file_number}
    BY Zenon, <1>1, <1>3, <2>2 DEF Repairers
  <2> QED BY <1>2, <1>3, <2>1, <2>3
<1>4. CASE /\ repairer' = [repairer EXCEPT !.step = "archive", !.log = l] /\ tables' = tables
           /\ next_file_number' \in {next_file_number, next_file_number + 1}
  BY Zenon, <1>1, <1>2, <1>4 DEF Repairers
<1> QED BY <1>3, <1>4 DEF ConvertLog

LEMMA ArchiveLogIs ==
    ASSUME TypeInv, ArchiveLog
    PROVE  /\ repairer.step = "archive" /\ repairer' \in Repairers /\ repairer'.step = "convert"
           /\ repairer'.tables = repairer.tables /\ logs' \subseteq logs
           /\ UNCHANGED <<current, manifests, tables, db, todo, job, version, next_file_number, log_file_number,
                          manifest_log, failed, kept, damaged, clobbered>>
<1>1. repairer \in Repairers
  BY DEF TypeInv, FilesTyped, NumbersTyped, ProcTyped
<1> QED BY Zenon, <1>1 DEF ArchiveLog, RepairUnchanged, Repairers

LEMMA ExtractMetadataIs ==
    ASSUME TypeInv, ExtractMetadata
    PROVE  /\ repairer.step = "convert" /\ repairer' \in Repairers /\ repairer'.step = "manifests"
           /\ \/ tables' = tables /\ kept' = kept /\ damaged' = damaged /\ repairer'.tables = repairer.tables
              \/ \E bad \in repairer.tables :
                    /\ TablesDropped({bad}) /\ damaged' = damaged \cup {bad} /\ kept' = kept \ tables[bad]
                    /\ repairer'.tables = repairer.tables \ {bad}
           /\ UNCHANGED <<current, manifests, logs, db, todo, job, version, next_file_number, log_file_number,
                          manifest_log, failed, clobbered>>
<1>1. repairer \in Repairers
  BY DEF TypeInv, FilesTyped, NumbersTyped, ProcTyped
<1>2. /\ repairer.step = "convert"
      /\ UNCHANGED <<current, manifests, logs, db, todo, job, version, next_file_number, log_file_number,
                     manifest_log, failed, clobbered>>
  BY Zenon DEF ExtractMetadata, RepairUnchanged
<1>3. CASE repairer' = [repairer EXCEPT !.step = "manifests"] /\ UNCHANGED <<tables, kept, damaged>>
  BY <1>1, <1>2, <1>3 DEF Repairers
<1>4. ASSUME NEW bad \in repairer.tables,
             /\ repairer' = [repairer EXCEPT !.step = "manifests", !.tables = @ \ {bad}]
             /\ tables' = Without(tables, {bad}) /\ damaged' = damaged \cup {bad} /\ kept' = kept \ tables[bad]
      PROVE  /\ repairer' \in Repairers /\ repairer'.step = "manifests"
             /\ TablesDropped({bad}) /\ damaged' = damaged \cup {bad} /\ kept' = kept \ tables[bad]
             /\ repairer'.tables = repairer.tables \ {bad}
  BY Zenon, <1>1, <1>4, WithoutIs DEF Repairers
<1>5. \/ repairer' = [repairer EXCEPT !.step = "manifests"] /\ UNCHANGED <<tables, kept, damaged>>
      \/ \E bad \in repairer.tables :
             /\ repairer' = [repairer EXCEPT !.step = "manifests", !.tables = @ \ {bad}]
             /\ tables' = Without(tables, {bad}) /\ damaged' = damaged \cup {bad} /\ kept' = kept \ tables[bad]
  BY Zenon DEF ExtractMetadata
<1> QED BY Zenon, <1>2, <1>3, <1>4, <1>5

LEMMA ArchiveManifestIs ==
    ASSUME TypeInv, NEW n \in repairer.manifests, ArchiveManifest(n)
    PROVE  /\ repairer.step = "manifests" /\ repairer' \in Repairers /\ repairer'.step = "manifests"
           /\ repairer'.tables = repairer.tables
           /\ DOMAIN manifests' \subseteq DOMAIN manifests
           /\ \A k \in DOMAIN manifests' : manifests'[k] = manifests[k]
           /\ UNCHANGED <<current, tables, logs, db, todo, job, version, next_file_number, log_file_number,
                          manifest_log, failed, kept, damaged, clobbered>>
<1>1. repairer \in Repairers
  BY DEF TypeInv, FilesTyped, NumbersTyped, ProcTyped
<1>2. repairer' = [repairer EXCEPT !.manifests = @ \ {n}] /\ repairer.step = "manifests"
  BY DEF ArchiveManifest
<1>3. repairer' \in Repairers /\ repairer'.step = "manifests" /\ repairer'.tables = repairer.tables
  BY <1>1, <1>2 DEF Repairers
<1>4. DOMAIN manifests' \subseteq DOMAIN manifests /\ \A k \in DOMAIN manifests' : manifests'[k] = manifests[k]
  BY DEF ArchiveManifest, Without, Restrict
<1> QED BY <1>2, <1>3, <1>4 DEF ArchiveManifest, RepairUnchanged

LEMMA WriteDescriptorIs ==
    ASSUME TypeInv, WriteDescriptor
    PROVE  /\ repairer.step = "manifests" /\ repairer' \in Repairers /\ repairer'.step = "apply"
           /\ repairer'.tables = repairer.tables
           /\ JobBegins("repair", repairer.tables, {}, next_file_number)
           /\ UNCHANGED <<current, manifests, tables, logs, db, todo, version, next_file_number, log_file_number,
                          manifest_log, failed, kept, damaged, clobbered>>
<1>1. repairer \in Repairers /\ next_file_number \in Nat /\ repairer.tables \subseteq 0 .. MaxFile
  BY DEF TypeInv, FilesTyped, NumbersTyped, ProcTyped, Repairers
<1>2. repairer.tables \in SUBSET Nat
  BY <1>1, ManifestAssumption
<1>3. JobBegins("repair", repairer.tables, {}, next_file_number)
  BY <1>1, <1>2, BeginIs DEF WriteDescriptor
<1> QED BY <1>1, <1>3 DEF WriteDescriptor, RepairUnchanged, Repairers

LEMMA EditNotTorn == \A e \in Edits : e # Torn /\ e \in Records
<1>1. ASSUME NEW e \in Edits PROVE e # Torn
  <2>1. DOMAIN e = {"add", "del", "next"} /\ DOMAIN Torn = {"torn"}
    BY DEF Edits, Torn
  <2>2. "torn" \notin {"add", "del", "next"}
    OBVIOUS
  <2> QED BY <2>1, <2>2
<1> QED BY <1>1 DEF Records

LEMMA CreateManifestIs ==
    ASSUME TypeInv, CreateManifest
    PROVE  /\ job.step = "create" /\ JobMoves("snapshot")
           /\ FileIs(next_file_number, <<>>, 0)
           /\ manifest_log' = next_file_number /\ next_file_number' = next_file_number + 1
           /\ clobbered' = (clobbered \/ (job.who = "repair" /\ next_file_number = current))
           /\ UNCHANGED <<current, tables, logs, db, todo, version, log_file_number, failed, repairer, kept, damaged>>
<1>1. JobMoves("snapshot")
  BY MoveIs DEF CreateManifest
<1> QED BY <1>1, CreateIs DEF CreateManifest

LEMMA AppendSnapshotIs ==
    ASSUME TypeInv, JobPhases, AppendSnapshot
    PROVE  /\ job.step = "snapshot" /\ JobMoves("append")
           /\ manifest_log \in DOMAIN manifests
           /\ \E e \in Edits : /\ e.add = version /\ e.del = {} /\ e.next = next_file_number
                               /\ FileIs(manifest_log, Append(Written, e), manifests[manifest_log].synced)
           /\ UNCHANGED <<current, tables, logs, db, todo, version, next_file_number, log_file_number, manifest_log,
                          failed, repairer, kept, damaged, clobbered>>
<1>1. job.step = "snapshot" /\ JobMoves("append")
  BY MoveIs DEF AppendSnapshot
<1>2. manifest_log \in DOMAIN manifests
  BY <1>1 DEF JobPhases, JobMoves
<1> DEFINE e == Edit(version, {}, next_file_number)
<1>3. e \in Edits /\ e.add = version /\ e.del = {} /\ e.next = next_file_number
  BY DEF Edit, Edits, TypeInv, NumbersTyped
<1>4. manifests' = Appended(manifest_log, e)
  BY DEF AppendSnapshot
<1> HIDE DEF e
<1>5. FileIs(manifest_log, Append(Written, e), manifests[manifest_log].synced)
  BY <1>2, <1>3, <1>4, AppendIs, EditNotTorn DEF Written
<1> QED BY <1>1, <1>2, <1>3, <1>5 DEF AppendSnapshot, procVars, repVars

LEMMA AppendEditIs ==
    ASSUME TypeInv, JobPhases, AppendEdit
    PROVE  /\ job.step = "append" /\ JobMoves("sync")
           /\ manifest_log \in DOMAIN manifests
           /\ FileIs(manifest_log, Append(Written, job.edit), manifests[manifest_log].synced)
           /\ UNCHANGED <<current, tables, logs, db, todo, version, next_file_number, log_file_number, manifest_log,
                          failed, repairer, kept, damaged, clobbered>>
<1>1. job.step = "append" /\ JobMoves("sync")
  BY MoveIs DEF AppendEdit
<1>2. manifest_log \in DOMAIN manifests /\ job.edit \in Records
  BY <1>1, EditNotTorn DEF JobPhases, JobMoves
<1>3. FileIs(manifest_log, Append(Written, job.edit), manifests[manifest_log].synced)
  BY <1>2, AppendIs DEF Written, AppendEdit
<1> QED BY <1>1, <1>2, <1>3 DEF AppendEdit, procVars, repVars

LEMMA SyncManifestIs ==
    ASSUME TypeInv, JobPhases, SyncManifest
    PROVE  /\ job.step = "sync" /\ JobMoves(IF job.fresh THEN "current" ELSE "install")
           /\ manifest_log \in DOMAIN manifests
           /\ FileIs(manifest_log, Written, Len(Written))
           /\ UNCHANGED <<current, tables, logs, db, todo, version, next_file_number, log_file_number, manifest_log,
                          failed, repairer, kept, damaged, clobbered>>
<1>1. job.step = "sync" /\ JobMoves(IF job.fresh THEN "current" ELSE "install")
  BY MoveIs DEF SyncManifest
<1>2. manifest_log \in DOMAIN manifests
  BY <1>1 DEF JobPhases, JobMoves
<1>3. FileIs(manifest_log, Written, Len(Written))
  BY Zenon, <1>2, SyncIs DEF Written, SyncManifest
<1> QED BY <1>1, <1>2, <1>3 DEF SyncManifest, procVars, repVars

LEMMA SetCurrentIs ==
    ASSUME TypeInv, JobPhases, SetCurrent
    PROVE  /\ job.step = "current" /\ JobMoves("install") /\ job.fresh
           /\ manifest_log \in DOMAIN manifests /\ manifest_log # 0 /\ current' = manifest_log
           /\ UNCHANGED <<manifests, tables, logs, db, todo, version, next_file_number, log_file_number, manifest_log,
                          failed, repairer, kept, damaged, clobbered>>
<1>1. job.step = "current" /\ JobMoves("install")
  BY MoveIs DEF SetCurrent
<1> QED BY <1>1 DEF SetCurrent, procVars, repVars, JobPhases, JobMoves

LEMMA InstallIs ==
    ASSUME TypeInv, JobPhases, Install
    PROVE  /\ job.step = "install" /\ job \in Jobs /\ job # NoJob /\ job.edit \in Edits /\ job' = NoJob
           /\ db \in {"open", "running", "repair"} /\ (job.who = "repair" <=> db = "repair")
           /\ version' = IF db = "repair" THEN {} ELSE Apply(version, job.edit)
           /\ db' = IF db = "repair" THEN "closed" ELSE db
           /\ repairer' = NoRepairer /\ kept' = kept \cup Holds(Apply(version, job.edit))
           /\ clobbered' = (clobbered /\ db # "repair")
           /\ TablesDropped(job.edit.del) /\ logs' \subseteq logs
           /\ UNCHANGED <<current, manifests, todo, next_file_number, log_file_number, manifest_log, failed, damaged>>
<1>1. job.step = "install" /\ job \in Jobs /\ job # NoJob /\ job.edit \in Edits
  BY JobIs DEF Install
<1>2. db \in {"open", "running", "repair"} /\ (job.who = "repair" <=> db = "repair")
  BY <1>1 DEF JobPhases
<1>3. TablesDropped(job.edit.del)
  BY WithoutIs DEF Install
<1> QED BY <1>1, <1>2, <1>3 DEF Install

LEMMA StartsIs ==
    ASSUME TypeInv, NEW who, NEW del, NEW holds, NEW n, Starts(who, del, holds, n)
    PROVE  /\ db = "running" /\ job = NoJob /\ who \in {"flush", "compact", "manual"}
           /\ n \in Nat /\ n >= next_file_number /\ n < MaxFile /\ next_file_number' = n + 1
           /\ del \subseteq version /\ Holds(del) \subseteq holds
           /\ TableIs(n, holds) /\ JobBegins(who, {n}, del, n + 1)
           /\ log_file_number' \in 0 .. MaxFile /\ logs' \subseteq 0 .. MaxFile
           /\ UNCHANGED <<current, manifests, db, todo, version, manifest_log, failed, repairer, kept, damaged, clobbered>>
<1>1. Change(who, del, holds, n) /\ who \in {"flush", "compact", "manual"} /\ n \in Nat /\ del \subseteq version
  BY DEF Starts
<1>2. del \in SUBSET Nat
  BY Zenon, <1>1 DEF TypeInv, FilesTyped, NumbersTyped, ProcTyped
<1>3. Begin(who, {n}, del, n + 1)
  BY <1>1 DEF Change
<1>4. JobBegins(who, {n}, del, n + 1)
  BY <1>1, <1>2, <1>3, BeginIs
<1>5. TableIs(n, holds)
  BY <1>1, WithIs DEF Change
<1> QED BY <1>1, <1>4, <1>5 DEF Starts, Change, repVars

LEMMA FailIs ==
    ASSUME TypeInv, JobPhases, Fail
    PROVE  /\ job \in Jobs /\ job # NoJob /\ job.edit \in Edits /\ job' = NoJob
           /\ job.step \in {"create", "snapshot", "append", "sync", "current"}
           /\ \/ manifests' = manifests
              \/ /\ job.step = "append" /\ manifest_log \in DOMAIN manifests
                 /\ \E r \in {job.edit, Torn} :
                       FileIs(manifest_log, Append(Written, r), manifests[manifest_log].synced)
           /\ next_file_number' \in {next_file_number, next_file_number + 1}
           /\ manifest_log' = IF job.fresh THEN 0 ELSE manifest_log
           /\ db \in {"open", "running", "repair"} /\ db' = IF db = "running" THEN db ELSE "closed"
           /\ failed' = failed \cup {job.edit} /\ repairer' = NoRepairer
           /\ UNCHANGED <<current, tables, logs, todo, version, log_file_number, kept, damaged, clobbered>>
<1>1. job \in Jobs /\ job # NoJob /\ job.edit \in Edits
  BY JobIs DEF Fail
<1>2. job.step \in {"create", "snapshot", "append", "sync", "current"}
  <2>1. FailedStep(job.step) # "install"
    BY ManifestAssumption DEF Fail
  <2> QED BY <1>1, <2>1 DEF FailedStep, Jobs
<1>3. db \in {"open", "running", "repair"} /\ db' = IF db = "running" THEN db ELSE "closed"
  BY <1>1 DEF JobPhases, Fail, Jobs
<1>4. \/ manifests' = manifests
      \/ /\ job.step = "append" /\ manifest_log \in DOMAIN manifests
         /\ \E r \in {job.edit, Torn} :
               FileIs(manifest_log, Append(Written, r), manifests[manifest_log].synced)
  <2>1. CASE job.step = "append"
    <3>1. manifest_log \in DOMAIN manifests
      BY <1>1, <2>1 DEF JobPhases
    <3>2. ASSUME NEW r \in {job.edit, Torn}, manifests' = Appended(manifest_log, r)
          PROVE  FileIs(manifest_log, Append(Written, r), manifests[manifest_log].synced)
      <4>1. r \in Records
        BY <1>1, EditNotTorn DEF Records
      <4> QED BY <3>1, <3>2, <4>1, AppendIs DEF Written
    <3>3. manifests' = manifests \/ \E r \in {job.edit, Torn} : manifests' = Appended(manifest_log, r)
      BY <2>1 DEF Fail, Halves
    <3> QED BY <2>1, <3>1, <3>2, <3>3
  <2>2. CASE job.step # "append"
    BY <2>2 DEF Fail
  <2> QED BY <2>1, <2>2
<1> QED BY <1>1, <1>2, <1>3, <1>4 DEF Fail

LEMMA CrashIs ==
    ASSUME Crash
    PROVE  /\ db \in {"open", "running", "repair"} /\ DOMAIN manifests' = DOMAIN manifests
           /\ \A n \in DOMAIN manifests : manifests'[n] \in Left(manifests[n])
           /\ db' = "closed" /\ todo' = <<>> /\ job' = NoJob /\ version' = {} /\ failed' = {}
           /\ next_file_number' = 2 /\ log_file_number' = 0 /\ manifest_log' = 0 /\ repairer' = NoRepairer
           /\ UNCHANGED <<current, tables, logs, kept, damaged, clobbered>>
BY DEF Crash

LEMMA NumbersAre ==
    ASSUME TypeInv
    PROVE  /\ next_file_number \in Nat \ {0} /\ next_file_number \in Nat /\ current \in Nat /\ manifest_log \in Nat
           /\ version \subseteq Nat /\ DOMAIN tables \subseteq Nat
           /\ next_file_number <= next_file_number /\ next_file_number <= next_file_number + 1
           /\ next_file_number + 1 \in Nat
BY ManifestAssumption DEF TypeInv, NumbersTyped

LEMMA NoRepairerIs == NoRepairer \in Repairers /\ NoRepairer.step = "none"
BY ManifestAssumption DEF NoRepairer, Repairers

-----------------------------------------------------------------------------
(* The steps: phases, log_and_apply, file numbers. *)
LEMMA FilesSame == ASSUME FilesTyped, manifests' = manifests PROVE FilesTyped'
BY Zenon DEF FilesTyped

LEMMA FileIsTyped ==
    ASSUME FilesTyped, NEW n \in Nat \ {0}, NEW rs, NEW k, FileIs(n, rs, k), k <= Len(rs)
    PROVE  FilesTyped'
BY Zenon DEF FilesTyped, FileIs

LEMMA AppendTyped ==
    ASSUME FilesTyped, NEW n \in DOMAIN manifests, NEW r,
           FileIs(n, Append(manifests[n].records, r), manifests[n].synced)
    PROVE  FilesTyped'
<1>1. n \in Nat \ {0} /\ manifests[n] \in ManifestFile /\ manifests[n].synced <= Len(manifests[n].records)
  BY Zenon DEF FilesTyped
<1>2. manifests[n].records \in Seq(Records) /\ manifests[n].synced \in Nat
  BY Zenon, <1>1 DEF ManifestFile
<1>3. manifests[n].synced <= Len(Append(manifests[n].records, r))
  BY <1>1, <1>2, Lengthened
<1> QED BY Zenon, <1>1, <1>3, FileIsTyped

LEMMA TypeStep == ASSUME IInv, Next PROVE TypeInv'
<1> TypeInv /\ Phases /\ JobPhases /\ Numbers
  BY Zenon DEF IInv
<1> FilesTyped /\ NumbersTyped /\ ProcTyped /\ MaxFile \in Nat
  BY Zenon, ManifestAssumption DEF TypeInv
<1>1. CASE OpenNew
  <2>1. todo' \in Todos
    BY Zenon, <1>1 DEF OpenNew, Todos
  <2>2. NumbersTyped' /\ ProcTyped'
    BY <1>1, <2>1 DEF NumbersTyped, ProcTyped, OpenNew, diskVars, repVars
  <2> QED BY Zenon, <1>1, <2>2, FilesSame DEF TypeInv, OpenNew, diskVars
<1>2. CASE OpenExisting
  <2>1. version' \subseteq Nat /\ next_file_number' \in Nat \ {0}
    BY Zenon, <1>2, OpenExistingIs
  <2>2. todo' \in Todos
    BY Zenon, <1>2 DEF OpenExisting, Todos
  <2>3. NumbersTyped' /\ ProcTyped'
    BY Zenon, <1>2, <2>1, <2>2 DEF NumbersTyped, ProcTyped, OpenExisting, diskVars, repVars
  <2> QED BY Zenon, <1>2, <2>3, FilesSame DEF TypeInv, OpenExisting, diskVars
<1>3. CASE OpenFails
  <2>1. NumbersTyped' /\ ProcTyped'
    BY Zenon, <1>3 DEF NumbersTyped, ProcTyped, OpenFails, diskVars, repVars
  <2> QED BY Zenon, <1>3, <2>1, FilesSame DEF TypeInv, OpenFails, diskVars
<1>4. CASE OpenTable
  <2>0. /\ next_file_number < MaxFile /\ next_file_number' = next_file_number + 1
        /\ DOMAIN tables' = DOMAIN tables \cup {next_file_number}
        /\ UNCHANGED <<current, manifest_log, logs, log_file_number, version>>
    BY Zenon, <1>4, OpenTableIs DEF TableIs
  <2>1. NumbersTyped'
    BY <2>0 DEF NumbersTyped
  <2>2. todo' \in Todos
    BY Zenon, <1>4, OpenTableIs DEF Todos
  <2>3. ProcTyped'
    BY Zenon, <1>4, <2>2, OpenTableIs DEF ProcTyped, JobBegins
  <2> QED BY Zenon, <1>4, <2>1, <2>3, FilesSame, OpenTableIs DEF TypeInv
<1>5. CASE OpenLog
  <2>1. NumbersTyped'
    <3>1. /\ next_file_number < MaxFile /\ next_file_number' = next_file_number + 1
          /\ log_file_number' = next_file_number /\ UNCHANGED <<current, manifest_log, logs, tables, version>>
      BY Zenon, <1>5, OpenLogIs
    <3> QED BY <3>1 DEF NumbersTyped
  <2>2. todo' \in Todos
    BY Zenon, <1>5, OpenLogIs DEF Todos
  <2>3. ProcTyped'
    BY Zenon, <1>5, <2>2, OpenLogIs DEF ProcTyped, JobBegins
  <2> QED BY Zenon, <1>5, <2>1, <2>3, FilesSame, OpenLogIs DEF TypeInv
<1>6. CASE Opened
  <2>1. manifest_log \in DOMAIN manifests
    BY Zenon, <1>6 DEF Phases, Opened
  <2>2. NumbersTyped' /\ ProcTyped'
    BY Zenon, <1>6 DEF NumbersTyped, ProcTyped, Opened, repVars
  <2>3. FilesTyped'
    BY Zenon, <1>6, <2>1 DEF FilesTyped, Opened
  <2> QED BY Zenon, <2>2, <2>3 DEF TypeInv
<1>7. CASE FindFiles
  <2>1. NumbersTyped' /\ ProcTyped'
    <3>1. /\ next_file_number' \in Nat \ {0} /\ manifest_log' = 0 /\ version' = {}
          /\ UNCHANGED <<current, logs, log_file_number, tables>>
      BY Zenon, <1>7, FindFilesIs
    <3>2. /\ db' = "repair" /\ failed' = {} /\ repairer' \in Repairers /\ UNCHANGED <<todo, job, clobbered>>
      BY Zenon, <1>7, FindFilesIs
    <3>3. NumbersTyped'
      BY Zenon, <3>1 DEF NumbersTyped
    <3> QED BY Zenon, <3>2, <3>3 DEF ProcTyped
  <2> QED BY Zenon, <1>7, <2>1, FilesSame, FindFilesIs DEF TypeInv
<1>8. ASSUME NEW l \in repairer.logs, ConvertLog(l) PROVE TypeInv'
  <2>1. NumbersTyped'
    <3>1. /\ next_file_number' \in {next_file_number, next_file_number + 1}
          /\ \/ next_file_number < MaxFile /\ DOMAIN tables' = DOMAIN tables \cup {next_file_number}
             \/ tables' = tables
          /\ UNCHANGED <<current, manifest_log, logs, log_file_number, version>>
      BY Zenon, <1>8, ConvertLogIs DEF TableIs
    <3> QED BY <3>1 DEF NumbersTyped
  <2>2. ProcTyped'
    BY Zenon, <1>8, ConvertLogIs DEF ProcTyped
  <2> QED BY Zenon, <1>8, <2>1, <2>2, FilesSame, ConvertLogIs DEF TypeInv
<1>9. CASE ArchiveLog
  <2>1. NumbersTyped' /\ ProcTyped'
    BY Zenon, <1>9, ArchiveLogIs DEF NumbersTyped, ProcTyped
  <2> QED BY Zenon, <1>9, <2>1, FilesSame, ArchiveLogIs DEF TypeInv
<1>10. CASE ExtractMetadata
  <2>1. NumbersTyped'
    BY Zenon, <1>10, ExtractMetadataIs DEF NumbersTyped, TablesDropped
  <2>2. ProcTyped'
    BY Zenon, <1>10, ExtractMetadataIs DEF ProcTyped
  <2> QED BY Zenon, <1>10, <2>1, <2>2, FilesSame, ExtractMetadataIs DEF TypeInv
<1>11. ASSUME NEW n \in repairer.manifests, ArchiveManifest(n) PROVE TypeInv'
  <2>1. NumbersTyped' /\ ProcTyped'
    BY Zenon, <1>11, ArchiveManifestIs DEF NumbersTyped, ProcTyped
  <2>2. FilesTyped'
    BY Zenon, <1>11, ArchiveManifestIs DEF FilesTyped
  <2> QED BY Zenon, <2>1, <2>2 DEF TypeInv
<1>12. CASE WriteDescriptor
  <2>1. NumbersTyped' /\ ProcTyped'
    BY Zenon, <1>12, WriteDescriptorIs DEF NumbersTyped, ProcTyped, JobBegins
  <2> QED BY Zenon, <1>12, <2>1, FilesSame, WriteDescriptorIs DEF TypeInv
<1>13. CASE CreateManifest
  <2>1. FilesTyped'
    <3>1. FileIs(next_file_number, <<>>, 0) /\ next_file_number \in Nat \ {0} /\ 0 <= Len(<<>>)
      BY <1>13, CreateManifestIs DEF NumbersTyped
    <3> QED BY Zenon, <3>1, FileIsTyped
  <2>2. NumbersTyped' /\ ProcTyped'
    <3>1. /\ manifest_log' = next_file_number /\ next_file_number' = next_file_number + 1
          /\ UNCHANGED <<current, tables, logs, log_file_number, version>>
      BY Zenon, <1>13, CreateManifestIs
    <3>2. job' \in Jobs /\ clobbered' \in BOOLEAN /\ UNCHANGED <<db, todo, failed, repairer>>
      BY Zenon, <1>13, CreateManifestIs DEF JobMoves, ProcTyped
    <3>3. NumbersTyped'
      BY <3>1 DEF NumbersTyped
    <3> QED BY Zenon, <3>2, <3>3 DEF ProcTyped
  <2> QED BY Zenon, <2>1, <2>2 DEF TypeInv
<1>14. CASE AppendSnapshot
  <2>1. FilesTyped'
    BY Zenon, <1>14, AppendSnapshotIs, AppendTyped DEF Written
  <2>2. NumbersTyped' /\ ProcTyped'
    BY Zenon, <1>14, AppendSnapshotIs DEF NumbersTyped, ProcTyped, JobMoves
  <2> QED BY Zenon, <2>1, <2>2 DEF TypeInv
<1>15. CASE AppendEdit
  <2>1. FilesTyped'
    BY Zenon, <1>15, AppendEditIs, AppendTyped DEF Written
  <2>2. NumbersTyped' /\ ProcTyped'
    BY Zenon, <1>15, AppendEditIs DEF NumbersTyped, ProcTyped, JobMoves
  <2> QED BY Zenon, <2>1, <2>2 DEF TypeInv
<1>16. CASE SyncManifest
  <2>1. FilesTyped'
    <3>1. manifest_log \in Nat \ {0} /\ FileIs(manifest_log, Written, Len(Written)) /\ Len(Written) <= Len(Written)
      <4>1. manifest_log \in DOMAIN manifests /\ FileIs(manifest_log, Written, Len(Written))
        BY Zenon, <1>16, SyncManifestIs
      <4>2. Len(Written) \in Nat
        BY <4>1 DEF FilesTyped, Written, ManifestFile
      <4> QED BY <4>1, <4>2 DEF FilesTyped
    <3> QED BY Zenon, <3>1, FileIsTyped
  <2>2. NumbersTyped' /\ ProcTyped'
    BY Zenon, <1>16, SyncManifestIs DEF NumbersTyped, ProcTyped, JobMoves
  <2> QED BY Zenon, <2>1, <2>2 DEF TypeInv
<1>17. CASE SetCurrent
  <2>1. NumbersTyped' /\ ProcTyped'
    BY Zenon, <1>17, SetCurrentIs DEF NumbersTyped, ProcTyped, JobMoves
  <2> QED BY Zenon, <1>17, <2>1, FilesSame, SetCurrentIs DEF TypeInv
<1>18. CASE Install
  <2>1. Apply(version, job.edit) \subseteq Nat
    BY Zenon, <1>18, InstallIs DEF NumbersTyped, Apply, Edits
  <2>2. NumbersTyped'
    BY Zenon, <1>18, <2>1, InstallIs DEF NumbersTyped, TablesDropped
  <2>3. ProcTyped'
    BY Zenon, <1>18, InstallIs, NoRepairerIs DEF ProcTyped
  <2> QED BY Zenon, <1>18, <2>2, <2>3, FilesSame, InstallIs DEF TypeInv
<1>19. ASSUME NEW who, NEW del, NEW holds, NEW n, Starts(who, del, holds, n) PROVE TypeInv'
  <2>1. NumbersTyped'
    <3>1. /\ n \in Nat /\ n < MaxFile /\ next_file_number' = n + 1 /\ DOMAIN tables' = DOMAIN tables \cup {n}
          /\ log_file_number' \in 0 .. MaxFile /\ logs' \subseteq 0 .. MaxFile
          /\ UNCHANGED <<current, manifest_log, version>>
      BY Zenon, <1>19, StartsIs DEF TableIs
    <3> QED BY <3>1 DEF NumbersTyped
  <2>2. ProcTyped'
    BY <1>19, StartsIs DEF ProcTyped, JobBegins
  <2> QED BY Zenon, <1>19, <2>1, <2>2, FilesSame, StartsIs DEF TypeInv
<1>20. CASE Fail
  <2>1. FilesTyped'
    BY Zenon, <1>20, FailIs, AppendTyped, FilesSame DEF Written
  <2>2. NumbersTyped'
    <3>1. /\ next_file_number' \in {next_file_number, next_file_number + 1}
          /\ manifest_log' \in {0, manifest_log} /\ UNCHANGED <<current, tables, logs, log_file_number, version>>
      BY Zenon, <1>20, FailIs
    <3> QED BY <3>1 DEF NumbersTyped
  <2>3. ProcTyped'
    BY Zenon, <1>20, FailIs, NoRepairerIs DEF ProcTyped
  <2> QED BY Zenon, <2>1, <2>2, <2>3 DEF TypeInv
<1>21. CASE Crash
  <2>1. FilesTyped'
    BY <1>21, CrashIs, RecoverableLeft DEF FilesTyped
  <2>2. NumbersTyped'
    <3>1. /\ next_file_number' = 2 /\ log_file_number' = 0 /\ manifest_log' = 0 /\ version' = {}
          /\ UNCHANGED <<current, tables, logs>>
      BY Zenon, <1>21, CrashIs
    <3> QED BY <3>1 DEF NumbersTyped
  <2>3. todo' \in Todos
    BY Zenon, <1>21, CrashIs DEF Todos
  <2>4. ProcTyped'
    BY Zenon, <1>21, <2>3, CrashIs, NoRepairerIs DEF ProcTyped
  <2> QED BY Zenon, <2>1, <2>2, <2>4 DEF TypeInv
<1> QED BY Zenon, <1>1, <1>2, <1>3, <1>4, <1>5, <1>6, <1>7, <1>8, <1>9, <1>10, <1>11, <1>12, <1>13, <1>14,
           <1>15, <1>16, <1>17, <1>18, <1>19, <1>20, <1>21, NextCases

LEMMA TodoFacts == <<"log">> # <<>> /\ <<"log">> # <<"table", "log">> /\ <<>> # <<"table", "log">>
OBVIOUS

LEMMA PhasesStep == ASSUME IInv, Next PROVE Phases'
<1> TypeInv /\ Phases /\ JobPhases
  BY Zenon DEF IInv
<1>1. CASE OpenNew
  BY Zenon, <1>1, TodoFacts DEF Phases, OpenNew, diskVars, repVars
<1>2. CASE OpenExisting
  BY Zenon, <1>2, TodoFacts DEF Phases, OpenExisting, diskVars, repVars
<1>3. CASE OpenFails
  BY Zenon, <1>3, TodoFacts DEF Phases, OpenFails, diskVars, repVars
<1>4. CASE OpenTable
  BY Zenon, <1>4, OpenTableIs, TodoFacts DEF Phases, JobBegins
<1>5. CASE OpenLog
  BY Zenon, <1>5, OpenLogIs, TodoFacts DEF Phases, JobBegins
<1>6. CASE Opened
  BY Zenon, <1>6, TodoFacts DEF Phases, Opened, diskVars, repVars
<1>7. CASE FindFiles
  BY Zenon, <1>7, FindFilesIs, TodoFacts DEF Phases
<1>8. ASSUME NEW l \in repairer.logs, ConvertLog(l) PROVE Phases'
  BY Zenon, <1>8, ConvertLogIs, TodoFacts DEF Phases
<1>9. CASE ArchiveLog
  BY Zenon, <1>9, ArchiveLogIs, TodoFacts DEF Phases
<1>10. CASE ExtractMetadata
  BY Zenon, <1>10, ExtractMetadataIs, TodoFacts DEF Phases
<1>11. ASSUME NEW n \in repairer.manifests, ArchiveManifest(n) PROVE Phases'
  BY Zenon, <1>11, ArchiveManifestIs, TodoFacts DEF Phases
<1>12. CASE WriteDescriptor
  <2>1. /\ repairer.step = "manifests" /\ repairer'.step = "apply" /\ job' # NoJob
        /\ UNCHANGED <<current, manifests, db, todo, version, manifest_log, failed>>
    BY Zenon, <1>12, WriteDescriptorIs DEF JobBegins
  <2> QED BY Zenon, <2>1 DEF Phases
<1>13. CASE CreateManifest
  <2>1. /\ job # NoJob /\ job' # NoJob /\ manifest_log' = next_file_number
        /\ UNCHANGED <<current, db, todo, version, failed, repairer>>
    BY Zenon, <1>13, CreateManifestIs DEF JobMoves
  <2>2. next_file_number # 0
    BY Zenon DEF TypeInv, NumbersTyped
  <2> QED BY Zenon, <2>1, <2>2 DEF Phases
<1>14. CASE AppendSnapshot
  BY Zenon, <1>14, AppendSnapshotIs, TodoFacts DEF Phases, JobMoves, FileIs
<1>15. CASE AppendEdit
  BY Zenon, <1>15, AppendEditIs, TodoFacts DEF Phases, JobMoves, FileIs
<1>16. CASE SyncManifest
  BY Zenon, <1>16, SyncManifestIs, TodoFacts DEF Phases, JobMoves, FileIs
<1>17. CASE SetCurrent
  <2>1. job # NoJob /\ job' # NoJob /\ UNCHANGED <<manifests, db, todo, version, manifest_log, failed, repairer>>
    BY Zenon, <1>17, SetCurrentIs DEF JobMoves
  <2> QED BY Zenon, <2>1 DEF Phases
<1>18. CASE Install
  <2>1. /\ job.step = "install" /\ job # NoJob /\ job' = NoJob /\ repairer'.step = "none"
        /\ db \in {"open", "running", "repair"} /\ db' = (IF db = "repair" THEN "closed" ELSE db)
        /\ UNCHANGED <<current, manifests, todo, manifest_log, failed>>
    BY Zenon, <1>18, InstallIs, NoRepairerIs
  <2>2. manifest_log = current /\ manifest_log # 0 /\ current \in DOMAIN manifests
    BY Zenon, <2>1 DEF JobPhases
  <2> QED BY Zenon, <2>1, <2>2 DEF Phases
<1>19. ASSUME NEW who, NEW del, NEW holds, NEW n, Starts(who, del, holds, n) PROVE Phases'
  <2>1. db = "running" /\ job' # NoJob /\ UNCHANGED <<current, manifests, db, todo, version, manifest_log, failed, repairer>>
    BY Zenon, <1>19, StartsIs DEF JobBegins
  <2> QED BY Zenon, <2>1 DEF Phases
<1>20. CASE Fail
  <2>1. /\ job # NoJob /\ job' = NoJob /\ job.step # "install" /\ repairer'.step = "none"
        /\ db \in {"open", "running", "repair"} /\ db' = (IF db = "running" THEN db ELSE "closed")
        /\ manifest_log' = (IF job.fresh THEN 0 ELSE manifest_log) /\ UNCHANGED <<current, todo>>
    BY Zenon, <1>20, FailIs, NoRepairerIs
  <2>2. \A n \in DOMAIN manifests : n \in DOMAIN manifests'
    BY Zenon, <1>20, FailIs DEF FileIs
  <2>3. db = "running" => /\ ~job.fresh /\ job.step # "create" /\ manifest_log = current
                          /\ manifest_log # 0 /\ current \in DOMAIN manifests
    BY Zenon, <2>1 DEF JobPhases
  <2> QED BY Zenon, <2>1, <2>2, <2>3 DEF Phases
<1>21. CASE Crash
  BY Zenon, <1>21, CrashIs, NoRepairerIs, TodoFacts DEF Phases
<1> QED BY ZenonT(30), <1>1, <1>2, <1>3, <1>4, <1>5, <1>6, <1>7, <1>8, <1>9, <1>10, <1>11, <1>12, <1>13,
           <1>14,
           <1>15, <1>16, <1>17, <1>18, <1>19, <1>20, <1>21, NextCases

LEMMA JobPhasesStep == ASSUME IInv, Next PROVE JobPhases'
<1> TypeInv /\ Phases /\ JobPhases /\ Numbers
  BY Zenon DEF IInv
<1>1. CASE OpenNew
  BY Zenon, <1>1 DEF JobPhases, OpenNew, diskVars, repVars
<1>2. CASE OpenExisting
  BY Zenon, <1>2 DEF JobPhases, OpenExisting, diskVars, repVars
<1>3. CASE OpenFails
  BY Zenon, <1>3 DEF JobPhases, OpenFails, diskVars, repVars
<1>4. CASE OpenTable
  <2>1. /\ db = "open" /\ job = NoJob /\ job'.who = "open" /\ job'.fresh = (manifest_log = 0)
        /\ job'.step = (IF manifest_log = 0 THEN "create" ELSE "append")
        /\ UNCHANGED <<current, manifests, db, manifest_log>>
    BY Zenon, <1>4, OpenTableIs DEF JobBegins
  <2>2. manifest_log # 0 => manifest_log = current /\ current \in DOMAIN manifests
    BY <2>1 DEF Phases
  <2> QED BY Zenon, <2>1, <2>2 DEF JobPhases
<1>5. CASE OpenLog
  <2>1. /\ db = "open" /\ job = NoJob /\ job'.who = "open" /\ job'.fresh = (manifest_log = 0)
        /\ job'.step = (IF manifest_log = 0 THEN "create" ELSE "append")
        /\ UNCHANGED <<current, manifests, db, manifest_log>>
    BY Zenon, <1>5, OpenLogIs DEF JobBegins
  <2>2. manifest_log # 0 => manifest_log = current /\ current \in DOMAIN manifests
    BY <2>1 DEF Phases
  <2> QED BY Zenon, <2>1, <2>2 DEF JobPhases
<1>6. CASE Opened
  BY Zenon, <1>6 DEF JobPhases, Opened, diskVars, repVars
<1>7. CASE FindFiles
  BY Zenon, <1>7, FindFilesIs DEF JobPhases
<1>8. ASSUME NEW l \in repairer.logs, ConvertLog(l) PROVE JobPhases'
  BY Zenon, <1>8, ConvertLogIs DEF JobPhases
<1>9. CASE ArchiveLog
  BY Zenon, <1>9, ArchiveLogIs DEF JobPhases
<1>10. CASE ExtractMetadata
  BY Zenon, <1>10, ExtractMetadataIs DEF JobPhases
<1>11. ASSUME NEW n \in repairer.manifests, ArchiveManifest(n) PROVE JobPhases'
  <2>1. repairer.step = "manifests" /\ job' = job
    BY Zenon, <1>11, ArchiveManifestIs
  <2>2. job' = NoJob
    BY Zenon, <2>1 DEF Phases
  <2> QED BY Zenon, <2>2 DEF JobPhases
<1>12. CASE WriteDescriptor
  <2>1. /\ repairer.step = "manifests" /\ job'.who = "repair" /\ job'.fresh = (manifest_log = 0)
        /\ job'.step = (IF manifest_log = 0 THEN "create" ELSE "append") /\ UNCHANGED <<db, manifest_log>>
    BY Zenon, <1>12, WriteDescriptorIs DEF JobBegins
  <2>2. db = "repair" /\ manifest_log = 0
    BY <2>1 DEF Phases
  <2> QED BY Zenon, <2>1, <2>2 DEF JobPhases
<1>13. CASE CreateManifest
  <2>1. /\ job.step = "create" /\ job # NoJob /\ job'.step = "snapshot" /\ job'.who = job.who /\ job'.fresh = job.fresh
        /\ manifest_log' = next_file_number /\ next_file_number \in DOMAIN manifests'
        /\ clobbered' = (clobbered \/ (job.who = "repair" /\ next_file_number = current))
        /\ UNCHANGED <<current, db>>
    BY Zenon, <1>13, CreateManifestIs DEF JobMoves, FileIs
  <2>2. /\ job.fresh /\ db \in {"open", "repair"} /\ (job.who = "open" <=> db = "open")
        /\ (job.who = "repair" <=> db = "repair") /\ manifest_log = 0
    BY Zenon, <2>1 DEF JobPhases
  <2>3. next_file_number # 0
    BY Zenon DEF TypeInv, NumbersTyped
  <2>4. db = "open" => next_file_number # current
    BY SMTT(30), <2>1, <2>2 DEF Numbers, Counters, TypeInv, NumbersTyped
  <2> QED BY Zenon, <2>1, <2>2, <2>3, <2>4 DEF JobPhases
<1>14. CASE AppendSnapshot
  BY Zenon, <1>14, AppendSnapshotIs DEF JobPhases, JobMoves, FileIs
<1>15. CASE AppendEdit
  BY Zenon, <1>15, AppendEditIs DEF JobPhases, JobMoves, FileIs
<1>16. CASE SyncManifest
  BY Zenon, <1>16, SyncManifestIs DEF JobPhases, JobMoves, FileIs
<1>17. CASE SetCurrent
  BY Zenon, <1>17, SetCurrentIs DEF JobPhases, JobMoves
<1>18. CASE Install
  BY Zenon, <1>18, InstallIs, NoRepairerIs DEF JobPhases
<1>19. ASSUME NEW who, NEW del, NEW holds, NEW n, Starts(who, del, holds, n) PROVE JobPhases'
  <2>1. /\ db = "running" /\ job = NoJob /\ who \in {"flush", "compact", "manual"} /\ job'.who = who
        /\ job'.fresh = (manifest_log = 0) /\ job'.step = (IF manifest_log = 0 THEN "create" ELSE "append")
        /\ UNCHANGED <<current, manifests, db, manifest_log>>
    BY Zenon, <1>19, StartsIs DEF JobBegins
  <2>2. manifest_log # 0 /\ manifest_log = current /\ current \in DOMAIN manifests
    BY <2>1 DEF Phases
  <2> QED BY Zenon, <2>1, <2>2 DEF JobPhases
<1>20. CASE Fail
  BY Zenon, <1>20, FailIs, NoRepairerIs DEF JobPhases, FileIs
<1>21. CASE Crash
  BY <1>21, CrashIs, NoRepairerIs DEF JobPhases
<1> QED BY ZenonT(30), <1>1, <1>2, <1>3, <1>4, <1>5, <1>6, <1>7, <1>8, <1>9, <1>10, <1>11, <1>12, <1>13,
           <1>14,
           <1>15, <1>16, <1>17, <1>18, <1>19, <1>20, <1>21, NextCases
-----------------------------------------------------------------------------
(* What a set of tables holds, when the set or the tables change. *)
LEMMA HoldsIs == \A S : Holds(S) = HoldsIn(tables, S)
BY Zenon DEF Holds, HoldsIn
LEMMA HoldsMono == \A tb, S, T : S \subseteq T => HoldsIn(tb, S) \subseteq HoldsIn(tb, T)
BY Zenon DEF HoldsIn
LEMMA HoldsSame ==
    ASSUME NEW tb, NEW tc, NEW S, \A t \in S : t \in DOMAIN tb => t \in DOMAIN tc /\ tc[t] = tb[t]
    PROVE  HoldsIn(tb, S) \subseteq HoldsIn(tc, S)
BY Zenon DEF HoldsIn
LEMMA HoldsUnion == \A tb, S, T : HoldsIn(tb, S \cup T) = HoldsIn(tb, S) \cup HoldsIn(tb, T)
BY Zenon DEF HoldsIn
LEMMA HoldsOne == \A tb, t : t \in DOMAIN tb => HoldsIn(tb, {t}) = tb[t]
BY Zenon DEF HoldsIn
LEMMA HoldsEmpty == \A tb : HoldsIn(tb, {}) = {}
BY Zenon DEF HoldsIn

(* A table with a number not below n is written: those below n are as they *)
(* were.                                                                   *)
LEMMA BelowKept ==
    ASSUME TypeInv, NEW n \in Nat, NEW k \in Nat, k >= n, NEW x, TableIs(k, x)
    PROVE  /\ HoldsIn(tables, Below(tables, n)) \subseteq HoldsIn(tables', Below(tables', n))
           /\ HoldsIn(tables, Below(tables, n)) \subseteq HoldsIn(tables', Below(tables', k + 1))
<1>1. DOMAIN tables \subseteq Nat
  BY ManifestAssumption DEF TypeInv, NumbersTyped
<1>2. \A t \in Below(tables, n) : t \in DOMAIN tables' /\ tables'[t] = tables[t]
  BY <1>1 DEF Below, TableIs
<1>3. HoldsIn(tables, Below(tables, n)) \subseteq HoldsIn(tables', Below(tables, n))
  BY Zenon, <1>2, HoldsSame
<1>4. Below(tables, n) \subseteq Below(tables', n) /\ Below(tables, n) \subseteq Below(tables', k + 1)
  BY SMTT(30), <1>1, <1>2 DEF Below
<1> QED BY Zenon, <1>3, <1>4, HoldsMono

(* The edit stays what it was while log_and_apply writes it. *)
LEMMA JobEditSame ==
    ASSUME TypeInv, JobEdit, job # NoJob, job'.edit = job.edit, job'.fresh = job.fresh,
           UNCHANGED <<tables, version, kept, failed, db>>,
           next_file_number' \in {next_file_number, next_file_number + 1}
    PROVE  JobEdit'
<1>1. next_file_number \in Nat /\ job.edit.next \in Nat
  BY Zenon, JobIs DEF TypeInv, NumbersTyped, Edits
<1>2. job.edit.next <= next_file_number'
  BY SMTT(30), <1>1 DEF JobEdit
<1> QED BY Zenon, <1>2 DEF JobEdit

LEMMA JobEditStep == ASSUME IInv, Next PROVE JobEdit'
<1> TypeInv /\ Phases /\ JobPhases /\ JobEdit /\ Numbers /\ FailedEdits /\ Content
  BY Zenon DEF IInv
<1> next_file_number \in Nat /\ version \subseteq Nat /\ DOMAIN tables \subseteq Nat
  BY Zenon, NumbersAre
<1>1. CASE OpenNew \/ OpenExisting \/ OpenFails \/ Opened
  <2>1. job' = NoJob
    BY Zenon, <1>1 DEF Phases, OpenNew, OpenExisting, OpenFails, Opened
  <2> QED BY Zenon, <2>1 DEF JobEdit
<1>4. CASE OpenTable
  <2> DEFINE n == next_file_number
  <2>1. /\ db = "open" /\ todo = <<"table", "log">> /\ TableIs(n, {n}) /\ next_file_number' = n + 1
        /\ job'.edit.add = {n} /\ job'.edit.del = {} /\ job'.edit.next = n + 1 /\ job'.fresh = (manifest_log = 0)
        /\ UNCHANGED <<version, kept, db>>
    BY Zenon, <1>4, OpenTableIs DEF JobBegins
  <2>2. manifest_log = 0
    BY Zenon, <2>1 DEF Phases
  <2>3. kept' \subseteq HoldsIn(tables', Below(tables', n + 1))
    BY <2>1, BelowKept DEF Content
  <2>4. {n} \subseteq Below(tables', n + 1)
    BY <2>1 DEF Below, TableIs
  <2>5. \A t \in version : t < n + 1
    <3>1. \A t \in version : t < n
      BY Zenon, <2>1 DEF Numbers, Counters
    <3> QED BY <3>1
  <2>6. job'.edit.next <= next_file_number'
    BY <2>1
  <2>7. job'.edit.add \subseteq Below(tables', job'.edit.next) /\ \A t \in version' : t < job'.edit.next
    BY Zenon, <2>1, <2>4, <2>5
  <2>8. /\ job'.edit.del \subseteq version' /\ job'.edit.del \cap job'.edit.add = {}
        /\ HoldsIn(tables', job'.edit.del) \subseteq HoldsIn(tables', job'.edit.add)
    BY Zenon, <2>1, HoldsEmpty
  <2> QED BY Zenon, <2>1, <2>2, <2>3, <2>6, <2>7, <2>8 DEF JobEdit
<1>5. CASE OpenLog
  <2> DEFINE n == next_file_number
  <2>1. /\ db = "open" /\ next_file_number' = n + 1 /\ job'.edit.add = {} /\ job'.edit.del = {}
        /\ job'.edit.next = n + 1 /\ UNCHANGED <<tables, version, kept, db>>
    BY Zenon, <1>5, OpenLogIs DEF JobBegins
  <2>2. Below(tables, n) \subseteq Below(tables, n + 1)
    BY DEF Below
  <2>3. kept' \subseteq HoldsIn(tables', Below(tables', n + 1))
    BY Zenon, <2>1, <2>2, HoldsMono DEF Content
  <2>4. \A t \in version : t < n
    BY Zenon, <2>1 DEF Numbers, Counters
  <2>5. n \in Nat /\ version \subseteq Nat
    BY Zenon
  <2> HIDE DEF n
  <2>6. \A t \in version : t < n + 1
    BY <2>4, <2>5
  <2> QED BY SMTT(30), <2>1, <2>3, <2>6, HoldsEmpty DEF JobEdit
<1>7. CASE FindFiles \/ ArchiveLog \/ ExtractMetadata
  <2>1. job' = NoJob
    BY ZenonT(30), <1>7, FindFilesIs, ArchiveLogIs, ExtractMetadataIs DEF Phases
  <2> QED BY Zenon, <2>1 DEF JobEdit
<1>8. ASSUME NEW l \in repairer.logs, ConvertLog(l) PROVE JobEdit'
  <2>1. job' = NoJob
    BY ZenonT(30), <1>8, ConvertLogIs DEF Phases
  <2> QED BY Zenon, <2>1 DEF JobEdit
<1>11. ASSUME NEW n \in repairer.manifests, ArchiveManifest(n) PROVE JobEdit'
  <2>1. job' = NoJob
    BY Zenon, <1>11, ArchiveManifestIs DEF Phases
  <2> QED BY Zenon, <2>1 DEF JobEdit
<1>12. CASE WriteDescriptor
  <2>1. /\ repairer.step = "manifests" /\ job'.edit.add = repairer.tables /\ job'.edit.del = {}
        /\ job'.edit.next = next_file_number /\ UNCHANGED <<db, tables, version, kept, next_file_number>>
    BY Zenon, <1>12, WriteDescriptorIs DEF JobBegins
  <2>2. db = "repair" /\ version = {}
    BY Zenon, <2>1 DEF Phases
  <2>3. repairer.tables = DOMAIN tables /\ Below(tables, next_file_number) = DOMAIN tables
    BY Zenon, <2>2 DEF Numbers, Counters, Below
  <2>4. kept \subseteq HoldsIn(tables, DOMAIN tables)
    BY Zenon DEF Content
  <2> QED BY SMTT(30), <2>1, <2>2, <2>3, <2>4, HoldsEmpty DEF JobEdit
<1>13. CASE CreateManifest
  BY ZenonT(30), <1>13, CreateManifestIs, JobEditSame DEF JobMoves
<1>14. CASE AppendSnapshot
  BY Zenon, <1>14, AppendSnapshotIs, JobEditSame DEF JobMoves
<1>15. CASE AppendEdit
  BY Zenon, <1>15, AppendEditIs, JobEditSame DEF JobMoves
<1>16. CASE SyncManifest
  BY Zenon, <1>16, SyncManifestIs, JobEditSame DEF JobMoves
<1>17. CASE SetCurrent
  BY Zenon, <1>17, SetCurrentIs, JobEditSame DEF JobMoves
<1>18. CASE Install \/ Fail \/ Crash
  <2>1. job' = NoJob
    BY Zenon, <1>18 DEF Install, Fail, Crash
  <2> QED BY Zenon, <2>1 DEF JobEdit
<1>19. ASSUME NEW who, NEW del, NEW holds, NEW n, Starts(who, del, holds, n) PROVE JobEdit'
  <2>1. /\ db = "running" /\ n \in Nat /\ n >= next_file_number /\ next_file_number' = n + 1
        /\ del \subseteq version /\ Holds(del) \subseteq holds /\ TableIs(n, holds)
        /\ job'.edit.add = {n} /\ job'.edit.del = del /\ job'.edit.next = n + 1
        /\ UNCHANGED <<version, kept, db, failed>>
    BY Zenon, <1>19, StartsIs DEF JobBegins
  <2>2. \A t \in version : t < n
    <3>1. \A t \in version : t < next_file_number
      BY Zenon, <2>1 DEF Numbers, Counters
    <3>2. next_file_number \in Nat /\ version \subseteq Nat /\ n \in Nat /\ n >= next_file_number
      BY Zenon, <2>1
    <3> QED BY <3>1, <3>2
  <2>3. kept' \subseteq HoldsIn(tables', Below(tables', n + 1))
    BY Zenon, <2>1, BelowKept DEF Content
  <2>4. HoldsIn(tables', del) \subseteq HoldsIn(tables, del)
    <3>1. \A t \in del : t \in DOMAIN tables' => t \in DOMAIN tables /\ tables[t] = tables'[t]
      BY <2>1, <2>2 DEF TableIs
    <3> QED BY Zenon, <3>1, HoldsSame
  <2>5. HoldsIn(tables', {n}) = holds
    BY Zenon, <2>1, HoldsOne DEF TableIs
  <2>6. HoldsIn(tables', del) \subseteq HoldsIn(tables', {n})
    BY ZenonT(30), <2>1, <2>4, <2>5, HoldsIs
  <2>7. \A d \in failed : (d.add \cup d.del) \cap {n} = {}
    BY <2>1 DEF FailedEdits
  <2>8. n \notin version /\ n \notin del
    BY SMTT(30), <2>1, <2>2
  <2>9. {n} \subseteq Below(tables', n + 1)
    BY <2>1 DEF Below, TableIs
  <2>10. \A t \in version : t < n + 1
    <3>1. n \in Nat
      BY Zenon, <2>1
    <3> QED BY <2>2, <3>1
  <2>11. n + 1 <= next_file_number'
    BY <2>1
  <2>12. job'.edit.add \subseteq Below(tables', job'.edit.next) /\ \A t \in version' : t < job'.edit.next
    BY Zenon, <2>1, <2>9, <2>10
  <2>13. /\ job'.edit.del \subseteq version' /\ job'.edit.del \cap job'.edit.add = {}
         /\ HoldsIn(tables', job'.edit.del) \subseteq HoldsIn(tables', job'.edit.add)
    BY Zenon, <2>1, <2>6, <2>8
  <2>14. job'.edit.add \cap version' = {} /\ \A d \in failed' : (d.add \cup d.del) \cap job'.edit.add = {}
    BY <2>1, <2>7, <2>8
  <2> QED BY Zenon, <2>1, <2>3, <2>11, <2>12, <2>13, <2>14 DEF JobEdit
<1> QED BY Zenon, <1>1, <1>4, <1>5, <1>7, <1>8, <1>11, <1>12, <1>13, <1>14, <1>15, <1>16, <1>17,
           <1>18, <1>19, NextCases

LEMMA JobLogStep == ASSUME IInv, Next PROVE JobLog'
<1> TypeInv /\ Phases /\ JobPhases /\ JobLog /\ Numbers
  BY Zenon DEF IInv
<1> next_file_number \in Nat /\ manifest_log \in Nat
  BY Zenon DEF TypeInv, NumbersTyped
<1> manifest_log \in DOMAIN manifests => Written \in Seq(Records) /\ Len(Written) \in Nat
  BY SMTT(30) DEF TypeInv, FilesTyped, ManifestFile, Written
<1>1. CASE OpenNew \/ OpenExisting \/ OpenFails \/ Opened
  <2>1. job' = NoJob
    BY <1>1 DEF Phases, OpenNew, OpenExisting, OpenFails, Opened
  <2> QED BY Zenon, <2>1 DEF JobLog
<1>2. ASSUME NEW n \in Nat, n >= next_file_number, db \in {"open", "running"}, job = NoJob,
             job'.edit.next = n, next_file_number' = n, job'.fresh = (manifest_log = 0),
             job'.step = (IF manifest_log = 0 THEN "create" ELSE "append"),
             UNCHANGED <<current, manifests, manifest_log>>
      PROVE  JobLog'
  <2>1. CASE manifest_log = 0
    BY Zenon, <1>2, <2>1 DEF JobLog
  <2>2. CASE manifest_log # 0
    <3>1. manifest_log = current /\ current \in DOMAIN manifests /\ manifest_log < next_file_number
      BY Zenon, <1>2, <2>2 DEF Phases, Numbers, Counters
    <3>2. Written' = Written /\ Written = manifests[current].records
      BY Zenon, <1>2, <3>1 DEF Written
    <3>3. ASSUME NEW i \in 1 .. Len(Written), Written[i] # Torn, NEW t \in Written[i].add PROVE t < n
      <4>1. t < next_file_number
        BY Zenon, <1>2, <3>1, <3>2, <3>3 DEF Numbers, CurrentBounded, AddsBelow
      <4>2. manifests[current] \in ManifestFile
        BY Zenon, <3>1 DEF TypeInv, FilesTyped
      <4>3. Written[i] \in Edits
        BY <3>2, <3>3, <4>2 DEF ManifestFile, Records
      <4>4. t \in Nat
        BY Zenon, <4>3 DEF Edits
      <4> QED BY SMTT(30), <1>2, <4>1, <4>4
    <3>4. manifest_log' <= job'.edit.next
      BY <1>2, <3>1
    <3> HIDE DEF Written
    <3>5. AddsBelow(Written, n)
      BY <3>3 DEF AddsBelow
    <3> QED BY Zenon, <1>2, <2>2, <3>2, <3>4, <3>5 DEF JobLog
  <2> QED BY Zenon, <2>1, <2>2
<1>4. CASE OpenTable
  <2>1. /\ db = "open" /\ job = NoJob /\ job'.edit.next = next_file_number + 1 /\ next_file_number' = next_file_number + 1
        /\ job'.fresh = (manifest_log = 0) /\ job'.step = (IF manifest_log = 0 THEN "create" ELSE "append")
        /\ UNCHANGED <<current, manifests, manifest_log>>
    BY Zenon, <1>4, OpenTableIs DEF JobBegins
  <2>2. next_file_number + 1 \in Nat /\ next_file_number + 1 >= next_file_number
    BY SMTT(30)
  <2> QED BY Zenon, <1>2, <2>1, <2>2
<1>5. CASE OpenLog
  <2>1. /\ db = "open" /\ job = NoJob /\ job'.edit.next = next_file_number + 1 /\ next_file_number' = next_file_number + 1
        /\ job'.fresh = (manifest_log = 0) /\ job'.step = (IF manifest_log = 0 THEN "create" ELSE "append")
        /\ UNCHANGED <<current, manifests, manifest_log>>
    BY Zenon, <1>5, OpenLogIs DEF JobBegins
  <2>2. next_file_number + 1 \in Nat /\ next_file_number + 1 >= next_file_number
    OBVIOUS
  <2> QED BY Zenon, <1>2, <2>1, <2>2
<1>7. CASE FindFiles \/ ArchiveLog \/ ExtractMetadata
  <2>1. job' = NoJob
    BY Zenon, <1>7, FindFilesIs, ArchiveLogIs, ExtractMetadataIs DEF Phases
  <2> QED BY Zenon, <2>1 DEF JobLog
<1>8. ASSUME NEW l \in repairer.logs, ConvertLog(l) PROVE JobLog'
  <2>1. job' = NoJob
    BY Zenon, <1>8, ConvertLogIs DEF Phases
  <2> QED BY Zenon, <2>1 DEF JobLog
<1>11. ASSUME NEW n \in repairer.manifests, ArchiveManifest(n) PROVE JobLog'
  <2>1. job' = NoJob
    BY Zenon, <1>11, ArchiveManifestIs DEF Phases
  <2> QED BY Zenon, <2>1 DEF JobLog
<1>12. CASE WriteDescriptor
  <2>1. /\ repairer.step = "manifests" /\ job'.edit.next = next_file_number /\ next_file_number' = next_file_number
        /\ job'.fresh = (manifest_log = 0) /\ job'.step = (IF manifest_log = 0 THEN "create" ELSE "append")
    BY Zenon, <1>12, WriteDescriptorIs DEF JobBegins
  <2>2. manifest_log = 0
    BY Zenon, <2>1 DEF Phases
  <2> QED BY Zenon, <2>1, <2>2 DEF JobLog
<1>13. CASE CreateManifest
  <2>1. /\ job.step = "create" /\ job # NoJob /\ job'.step = "snapshot" /\ job'.edit = job.edit
        /\ manifest_log' = next_file_number /\ manifests'[next_file_number].records = <<>>
    BY Zenon, <1>13, CreateManifestIs DEF JobMoves, FileIs
  <2>2. job.edit.next = next_file_number
    BY Zenon, <2>1 DEF JobLog
  <2> QED BY SMTT(30), <2>1, <2>2 DEF JobLog, Written
<1>14. CASE AppendSnapshot
  <2>1. /\ job.step = "snapshot" /\ job # NoJob /\ job'.step = "append" /\ job'.edit = job.edit /\ job'.fresh = job.fresh
        /\ UNCHANGED <<version, manifest_log>> /\ manifest_log \in DOMAIN manifests
    BY Zenon, <1>14, AppendSnapshotIs DEF JobMoves
  <2>2. PICK e \in Edits : e.add = version /\ e.del = {} /\ Written' = Append(Written, e)
    BY Zenon, <1>14, AppendSnapshotIs DEF FileIs, Written
  <2>3. job.fresh /\ Written = <<>> /\ manifest_log <= job.edit.next
    BY Zenon, <2>1 DEF JobPhases, JobLog
  <2>4. Len(Written') = 1 /\ Written'[1] = e
    BY <2>2, <2>3
  <2>5. e # Torn
    BY Zenon, EditNotTorn
  <2> QED BY Zenon, <2>1, <2>2, <2>3, <2>4, <2>5 DEF JobLog
<1>15. CASE AppendEdit
  <2>1. /\ job.step = "append" /\ job # NoJob /\ job'.step = "sync" /\ job'.edit = job.edit /\ job'.fresh = job.fresh
        /\ UNCHANGED <<version, manifest_log>> /\ manifest_log \in DOMAIN manifests
    BY Zenon, <1>15, AppendEditIs DEF JobMoves
  <2>2. Written' = Append(Written, job.edit)
    BY Zenon, <1>15, AppendEditIs DEF FileIs, Written
  <2>3. /\ manifest_log <= job.edit.next
        /\ job.fresh => Len(Written) = 1 /\ Written[1] # Torn /\ Written[1].add = version /\ Written[1].del = {}
    BY Zenon, <2>1 DEF JobLog
  <2>4. /\ Len(Written') = Len(Written) + 1 /\ Written'[Len(Written) + 1] = job.edit
        /\ \A i \in 1 .. Len(Written) : Written'[i] = Written[i]
    BY <2>1, <2>2, Lengthened
  <2>5. job.fresh => /\ Len(Written') = 2 /\ Written'[1] # Torn
                     /\ Written'[1].add = version /\ Written'[1].del = {}
    <3>1. SUFFICES ASSUME job.fresh
                   PROVE  Len(Written') = 2 /\ Written'[1] = Written[1]
      BY Zenon, <2>3
    <3>2. Len(Written) = 1
      BY Zenon, <2>3, <3>1
    <3> HIDE DEF Written
    <3> QED BY <2>4, <3>2
  <2>6. Written' # <<>> /\ Written'[Len(Written')] = job.edit
    BY SMTT(30), <2>1, <2>2, <2>4
  <2> QED BY Zenon, <2>1, <2>3, <2>5, <2>6 DEF JobLog
<1>16. CASE SyncManifest
  <2>1. /\ job.step = "sync" /\ job # NoJob /\ job'.step \in {"current", "install"} /\ job'.edit = job.edit
        /\ job'.fresh = job.fresh /\ UNCHANGED <<version, manifest_log>>
    BY Zenon, <1>16, SyncManifestIs DEF JobMoves
  <2>2. Written' = Written /\ manifests'[manifest_log].synced = Len(Written)
    BY Zenon, <1>16, SyncManifestIs DEF FileIs, Written
  <2>3. /\ manifest_log <= job.edit.next /\ Written # <<>> /\ Written[Len(Written)] = job.edit
        /\ job.fresh => /\ Len(Written) = 2 /\ Written[1] # Torn
                        /\ Written[1].add = version /\ Written[1].del = {}
    BY Zenon, <2>1 DEF JobLog
  <2> QED BY Zenon, <2>1, <2>2, <2>3 DEF JobLog
<1>17. CASE SetCurrent
  <2>1. /\ job.step = "current" /\ job # NoJob /\ job'.step = "install" /\ job'.edit = job.edit
        /\ job'.fresh = job.fresh /\ UNCHANGED <<version, manifest_log, manifests>>
    BY Zenon, <1>17, SetCurrentIs DEF JobMoves
  <2>2. Written' = Written
    BY Zenon, <2>1 DEF Written
  <2>3. /\ manifest_log <= job.edit.next /\ Written # <<>> /\ Written[Len(Written)] = job.edit
        /\ manifests[manifest_log].synced = Len(Written)
        /\ job.fresh => /\ Len(Written) = 2 /\ Written[1] # Torn
                        /\ Written[1].add = version /\ Written[1].del = {}
    BY Zenon, <2>1 DEF JobLog
  <2> QED BY Zenon, <2>1, <2>2, <2>3 DEF JobLog
<1>18. CASE Install \/ Fail \/ Crash
  <2>1. job' = NoJob
    BY Zenon, <1>18 DEF Install, Fail, Crash
  <2> QED BY Zenon, <2>1 DEF JobLog
<1>19. ASSUME NEW who, NEW del, NEW holds, NEW n, Starts(who, del, holds, n) PROVE JobLog'
  <2>1. /\ db = "running" /\ job = NoJob /\ n \in Nat /\ n >= next_file_number /\ job'.edit.next = n + 1
        /\ next_file_number' = n + 1
        /\ job'.fresh = (manifest_log = 0) /\ job'.step = (IF manifest_log = 0 THEN "create" ELSE "append")
        /\ UNCHANGED <<current, manifests, manifest_log>>
    BY Zenon, <1>19, StartsIs DEF JobBegins
  <2>2. n + 1 \in Nat /\ n + 1 >= next_file_number
    BY SMTT(30), <2>1
  <2> QED BY Zenon, <1>2, <2>1, <2>2
<1> QED BY Zenon, <1>1, <1>4, <1>5, <1>7, <1>8, <1>11, <1>12, <1>13, <1>14, <1>15, <1>16, <1>17, <1>18,
           <1>19,
           NextCases
-----------------------------------------------------------------------------
LEMMA BoundedAppend ==
    ASSUME NEW q \in Seq(Records), NEW n \in Nat, RecordsBounded(n, q),
           NEW e \in Edits, n <= e.next, AddsBelow(q, e.next), \A t \in e.add : t < e.next
    PROVE  RecordsBounded(n, Append(q, e))
<1>1. /\ Len(q) \in Nat /\ Len(Append(q, e)) = Len(q) + 1 /\ Append(q, e)[Len(q) + 1] = e
      /\ \A i \in 1 .. Len(q) : Append(q, e)[i] = q[i]
  BY Lengthened
<1> DEFINE p == Append(q, e)
<1> HIDE DEF p
<1>2. ASSUME NEW i \in 1 .. Len(q), q[i] # Torn
      PROVE  n <= p[i].next /\ \A j \in 1 .. i : p[j] # Torn => \A t \in p[j].add : t < p[i].next
  <2>1. p[i] = q[i] /\ \A j \in 1 .. i : p[j] = q[j]
    BY <1>1 DEF p
  <2> QED BY Zenon, <1>2, <2>1 DEF RecordsBounded
<1>3. n <= p[Len(q) + 1].next
      /\ \A j \in 1 .. Len(q) + 1 : p[j] # Torn => \A t \in p[j].add : t < p[Len(q) + 1].next
  BY <1>1 DEF p, AddsBelow
<1>4. \A i \in 1 .. Len(q) + 1 : i \in 1 .. Len(q) \/ i = Len(q) + 1
  BY <1>1
<1>5. \A i \in 1 .. Len(q) : p[i] = q[i]
  BY Zenon, <1>1 DEF p
<1>6. Len(p) = Len(q) + 1
  BY <1>1 DEF p
<1> QED BY Zenon, <1>2, <1>3, <1>4, <1>5, <1>6 DEF RecordsBounded, p

LEMMA BoundedTorn ==
    ASSUME NEW q \in Seq(Records), NEW n \in Nat, RecordsBounded(n, q) PROVE RecordsBounded(n, Append(q, Torn))
<1>1. /\ Len(q) \in Nat /\ Len(Append(q, Torn)) = Len(q) + 1 /\ Append(q, Torn)[Len(q) + 1] = Torn
      /\ \A i \in 1 .. Len(q) : Append(q, Torn)[i] = q[i]
  BY Lengthened
<1> DEFINE p == Append(q, Torn)
<1> HIDE DEF p
<1>2. Len(p) = Len(q) + 1 /\ p[Len(q) + 1] = Torn /\ \A i \in 1 .. Len(q) : p[i] = q[i]
  BY Zenon, <1>1 DEF p
<1>3. ASSUME NEW i \in 1 .. Len(p), p[i] # Torn PROVE i \in 1 .. Len(q)
  BY <1>1, <1>2, <1>3
<1>4. ASSUME NEW i \in 1 .. Len(q), p[i] # Torn
      PROVE  n <= p[i].next /\ \A j \in 1 .. i : p[j] # Torn => \A t \in p[j].add : t < p[i].next
  <2>1. p[i] = q[i] /\ \A j \in 1 .. i : p[j] = q[j]
    BY <1>1, <1>2
  <2> QED BY Zenon, <1>4, <2>1 DEF RecordsBounded
<1> QED BY Zenon, <1>3, <1>4 DEF RecordsBounded, p

LEMMA AddsAppend ==
    ASSUME NEW q \in Seq(Records), NEW n, NEW r, AddsBelow(q, n), r # Torn => \A t \in r.add : t < n
    PROVE  AddsBelow(Append(q, r), n)
<1>1. /\ Len(q) \in Nat /\ Len(Append(q, r)) = Len(q) + 1 /\ Append(q, r)[Len(q) + 1] = r
      /\ \A i \in 1 .. Len(q) : Append(q, r)[i] = q[i]
  BY Lengthened
<1>2. ASSUME NEW i \in 1 .. Len(q) + 1 PROVE i \in 1 .. Len(q) \/ i = Len(q) + 1
  BY <1>1
<1> QED BY Zenon, <1>1, <1>2 DEF AddsBelow

LEMMA AddsGrow ==
    ASSUME NEW q \in Seq(Records), NEW n \in Nat, NEW k \in Nat, n <= k, AddsBelow(q, n) PROVE AddsBelow(q, k)
<1>1. ASSUME NEW i \in 1 .. Len(q), q[i] # Torn, NEW t \in q[i].add PROVE t < k
  <2>1. q[i] \in Edits
    BY <1>1 DEF Records
  <2>2. t \in Nat
    BY Zenon, <2>1 DEF Edits
  <2>3. t < n
    BY Zenon, <1>1 DEF AddsBelow
  <2> QED BY <2>2, <2>3
<1> QED BY Zenon, <1>1 DEF AddsBelow

(* What holds of the edit under way and of the MANIFEST it goes to. *)
LEMMA JobBounds ==
    ASSUME IInv, job # NoJob, job.step # "create"
    PROVE  /\ manifest_log \in Nat /\ manifest_log \in DOMAIN manifests /\ Written \in Seq(Records)
           /\ RecordsBounded(manifest_log, Written)
           /\ job.edit \in Edits /\ job.edit.next \in Nat /\ job.edit.add \subseteq Nat
           /\ manifest_log <= job.edit.next
           /\ \A t \in job.edit.add : t < job.edit.next
           /\ job.step = "append" => AddsBelow(Written, job.edit.next)
<1> TypeInv /\ JobPhases /\ JobEdit /\ JobLog /\ Numbers
  BY Zenon DEF IInv
<1>1. manifest_log \in Nat /\ manifest_log \in DOMAIN manifests
  BY Zenon DEF JobPhases, TypeInv, NumbersTyped
<1>2. Written \in Seq(Records) /\ RecordsBounded(manifest_log, Written)
  BY Zenon, <1>1 DEF TypeInv, FilesTyped, ManifestFile, Written, Numbers, FilesBounded
<1>3. job.edit \in Edits /\ job.edit.next \in Nat /\ job.edit.add \subseteq Nat
  BY Zenon, JobIs DEF Edits
<1>4. \A t \in job.edit.add : t < job.edit.next
  BY Zenon DEF JobEdit, Below
<1>5. manifest_log <= job.edit.next
  BY Zenon DEF JobLog
<1>6. ASSUME job.step = "append" PROVE AddsBelow(Written, job.edit.next)
  <2>1. CASE ~job.fresh
    BY Zenon, <1>6, <2>1 DEF JobLog
  <2>2. CASE job.fresh
    <3>1. Len(Written) = 1 /\ Written[1].add = version
      BY Zenon, <1>6, <2>2 DEF JobLog
    <3>2. \A t \in version : t < job.edit.next
      BY Zenon DEF JobEdit
    <3>3. \A i \in 1 .. Len(Written) : i = 1
      BY SMTT(30), <3>1
    <3> HIDE DEF Written
    <3> QED BY Zenon, <3>1, <3>2, <3>3 DEF AddsBelow
  <2> QED BY Zenon, <2>1, <2>2
<1> QED BY Zenon, <1>1, <1>2, <1>3, <1>4, <1>5, <1>6

LEMMA FilesBoundedStep == ASSUME IInv, Next PROVE FilesBounded'
<1> TypeInv /\ Phases /\ JobPhases /\ JobLog /\ FilesBounded /\ Counters
  BY Zenon DEF IInv, Numbers
<1>1. ASSUME DOMAIN manifests' \subseteq DOMAIN manifests, \A k \in DOMAIN manifests' : manifests'[k] = manifests[k]
      PROVE  FilesBounded'
  BY Zenon, <1>1 DEF FilesBounded
<1>2. ASSUME manifests' = manifests PROVE FilesBounded'
  BY Zenon, <1>2 DEF FilesBounded
<1>3. ASSUME NEW n, NEW rs, NEW k, FileIs(n, rs, k), RecordsBounded(n, rs) PROVE FilesBounded'
  BY Zenon, <1>3 DEF FilesBounded, FileIs
<1>4. CASE Opened
  <2>1. manifest_log \in DOMAIN manifests
    BY Zenon, <1>4 DEF Phases, Opened
  <2> QED BY Zenon, <1>1, <1>4, <2>1 DEF Opened
<1>5. CASE OpenNew \/ OpenExisting \/ OpenFails \/ OpenTable \/ OpenLog
  BY Zenon, <1>2, <1>5 DEF OpenNew, OpenExisting, OpenFails, OpenTable, OpenLog, diskVars
<1>6. CASE FindFiles \/ ArchiveLog \/ ExtractMetadata \/ WriteDescriptor \/ SetCurrent \/ Install
  BY Zenon, <1>2, <1>6 DEF FindFiles, ArchiveLog, ExtractMetadata, WriteDescriptor, SetCurrent, Install,
     diskVars
<1>7. ASSUME NEW l \in repairer.logs, ConvertLog(l) PROVE FilesBounded'
  BY Zenon, <1>2, <1>7 DEF ConvertLog
<1>8. ASSUME NEW n \in repairer.manifests, ArchiveManifest(n) PROVE FilesBounded'
  BY Zenon, <1>1, <1>8, ArchiveManifestIs
<1>9. ASSUME NEW who, NEW del, NEW holds, NEW n, Starts(who, del, holds, n) PROVE FilesBounded'
  BY Zenon, <1>2, <1>9 DEF Starts, Change
<1>10. CASE CreateManifest
  <2>1. FileIs(next_file_number, <<>>, 0)
    BY Zenon, <1>10, CreateManifestIs
  <2>2. RecordsBounded(next_file_number, <<>>)
    BY DEF RecordsBounded
  <2> QED BY Zenon, <1>3, <2>1, <2>2
<1>11. CASE AppendSnapshot
  <2>1. job.step = "snapshot" /\ job # NoJob
    BY Zenon, <1>11, AppendSnapshotIs DEF JobMoves
  <2>2. PICK e \in Edits : /\ e.add = version /\ e.next = next_file_number
                           /\ FileIs(manifest_log, Append(Written, e), manifests[manifest_log].synced)
    BY Zenon, <1>11, AppendSnapshotIs
  <2>3. Written = <<>> /\ manifest_log # 0 /\ db \in {"open", "repair"}
    BY Zenon, <2>1 DEF JobPhases, JobLog
  <2>4. \A t \in version : t < next_file_number
    BY Zenon, <2>3 DEF Counters, Phases
  <2>5. manifest_log <= next_file_number /\ manifest_log \in Nat
    BY <2>3 DEF Counters, TypeInv, NumbersTyped
  <2>6. AddsBelow(<<>>, e.next) /\ RecordsBounded(manifest_log, <<>>) /\ <<>> \in Seq(Records)
    BY DEF AddsBelow, RecordsBounded
  <2>7. RecordsBounded(manifest_log, Append(<<>>, e))
    BY Zenon, <2>2, <2>4, <2>5, <2>6, BoundedAppend
  <2> QED BY Zenon, <1>3, <2>2, <2>3, <2>7
<1>12. CASE AppendEdit
  <2>1. /\ job.step = "append" /\ job # NoJob
        /\ FileIs(manifest_log, Append(Written, job.edit), manifests[manifest_log].synced)
    BY Zenon, <1>12, AppendEditIs DEF JobMoves
  <2>2. RecordsBounded(manifest_log, Append(Written, job.edit))
    BY Zenon, <2>1, JobBounds, BoundedAppend
  <2> QED BY Zenon, <1>3, <2>1, <2>2
<1>13. CASE SyncManifest
  <2>1. job.step = "sync" /\ job # NoJob /\ FileIs(manifest_log, Written, Len(Written))
    BY Zenon, <1>13, SyncManifestIs DEF JobMoves
  <2>2. RecordsBounded(manifest_log, Written)
    BY Zenon, <2>1, JobBounds
  <2> QED BY Zenon, <1>3, <2>1, <2>2
<1>14. CASE Fail
  <2>1. CASE manifests' = manifests
    BY Zenon, <1>2, <2>1
  <2>2. ASSUME NEW r \in {job.edit, Torn}, job # NoJob, job.step = "append",
               FileIs(manifest_log, Append(Written, r), manifests[manifest_log].synced)
        PROVE  FilesBounded'
    <3>1. RecordsBounded(manifest_log, Append(Written, r))
      BY Zenon, <2>2, JobBounds, BoundedAppend, BoundedTorn
    <3> QED BY Zenon, <1>3, <2>2, <3>1
  <2> QED BY Zenon, <1>14, <2>1, <2>2, FailIs
<1>15. CASE Crash
  <2>1. ASSUME NEW n \in DOMAIN manifests' PROVE RecordsBounded(n, manifests'[n].records)
    <3> DEFINE m == manifests[n]
               q == manifests'[n].records
    <3>1. n \in DOMAIN manifests /\ manifests'[n] \in Left(m)
      BY Zenon, <1>15, CrashIs
    <3>2. m \in ManifestFile /\ m.synced <= Len(m.records) /\ RecordsBounded(n, m.records)
      BY Zenon, <3>1 DEF TypeInv, FilesTyped, FilesBounded
    <3>3. \A i \in 1 .. Len(q) : q[i] # Torn => i \in 1 .. Len(m.records) /\ q[i] = m.records[i]
      BY Zenon, <3>1, <3>2, RecoverableLeft
    <3>4. manifests'[n] \in ManifestFile
      BY Zenon, <3>1, <3>2, RecoverableLeft
    <3>5. Len(q) \in Nat
      BY <3>4 DEF ManifestFile
    <3> HIDE DEF m, q
    <3>6. ASSUME NEW i \in 1 .. Len(q), NEW j \in 1 .. i PROVE j \in 1 .. Len(q)
      BY SMTT(30), <3>5
    <3> QED BY Zenon, <3>2, <3>3, <3>6 DEF RecordsBounded, q
  <2> QED BY Zenon, <2>1 DEF FilesBounded
<1> QED BY ZenonT(30), <1>4, <1>5, <1>6, <1>7, <1>8, <1>9, <1>10, <1>11, <1>12, <1>13, <1>14, <1>15,
           NextCases

LEMMA CurrentBoundedStep == ASSUME IInv, Next PROVE CurrentBounded'
<1> TypeInv /\ Phases /\ JobPhases /\ JobEdit /\ JobLog /\ CurrentBounded /\ Counters /\ Numbers
  BY Zenon DEF IInv, Numbers
<1> next_file_number \in Nat /\ current \in Nat /\ next_file_number <= next_file_number
  BY Zenon, NumbersAre
<1> current \in DOMAIN manifests => manifests[current].records \in Seq(Records)
  BY Zenon DEF TypeInv, FilesTyped, ManifestFile
<1>1. ASSUME db' \notin {"open", "running"} PROVE CurrentBounded'
  BY Zenon, <1>1 DEF CurrentBounded
<1>2. ASSUME db' = db, current' = current, next_file_number' \in Nat, next_file_number <= next_file_number',
             current \in DOMAIN manifests' =>
                current \in DOMAIN manifests /\ manifests'[current].records = manifests[current].records
      PROVE  CurrentBounded'
  <2>1. SUFFICES ASSUME db \in {"open", "running"}, current \in DOMAIN manifests'
                 PROVE  AddsBelow(manifests'[current].records, next_file_number')
    BY Zenon, <1>2 DEF CurrentBounded
  <2>2. AddsBelow(manifests[current].records, next_file_number)
    BY Zenon, <1>2, <2>1 DEF CurrentBounded
  <2>3. AddsBelow(manifests[current].records, next_file_number')
    BY Zenon, <1>2, <2>1, <2>2, AddsGrow
  <2> QED BY Zenon, <1>2, <2>1, <2>3
<1>3. ASSUME NEW r, NEW k, db \in {"open", "running"}, UNCHANGED <<db, current, next_file_number>>,
             manifest_log \in DOMAIN manifests, FileIs(manifest_log, Append(Written, r), k),
             manifest_log = current => (r # Torn => \A t \in r.add : t < next_file_number)
      PROVE  CurrentBounded'
  <2>1. CASE manifest_log # current
    BY Zenon, <1>2, <1>3, <2>1 DEF FileIs
  <2>2. CASE manifest_log = current
    <3>1. AddsBelow(Written, next_file_number) /\ Written \in Seq(Records)
      BY Zenon, <1>3, <2>2 DEF CurrentBounded, Written
    <3>2. AddsBelow(Append(Written, r), next_file_number)
      BY <1>3, <2>2, <3>1, AddsAppend
    <3> QED BY Zenon, <1>3, <2>2, <3>2 DEF CurrentBounded, FileIs
  <2> QED BY Zenon, <2>1, <2>2
<1>4. CASE OpenNew
  <2>1. current = 0 /\ UNCHANGED <<current, manifests>>
    BY Zenon, <1>4 DEF OpenNew, diskVars
  <2>2. 0 \notin DOMAIN manifests
    BY Zenon DEF TypeInv, FilesTyped
  <2> QED BY Zenon, <2>1, <2>2 DEF CurrentBounded
<1>5. CASE OpenExisting
  <2>1. UNCHANGED <<current, manifests>>
    BY Zenon, <1>5 DEF OpenExisting, diskVars
  <2>2. AddsBelow(manifests[current].records, next_file_number')
    BY ZenonT(30), <1>5, OpenExistingIs DEF AddsBelow
  <2> QED BY Zenon, <2>1, <2>2 DEF CurrentBounded
<1>6. CASE OpenFails \/ FindFiles \/ Crash
  BY Zenon, <1>1, <1>6 DEF OpenFails, FindFiles, Crash
<1>7. CASE OpenTable
  <2>1. next_file_number' = next_file_number + 1 /\ UNCHANGED <<db, current, manifests>>
    BY Zenon, <1>7, OpenTableIs
  <2> QED BY <1>2, <2>1
<1>8. CASE OpenLog
  <2>1. next_file_number' = next_file_number + 1 /\ UNCHANGED <<db, current, manifests>>
    BY Zenon, <1>8, OpenLogIs
  <2> QED BY <1>2, <2>1
<1>9. CASE Opened
  <2>1. manifest_log = current /\ current \in DOMAIN manifests /\ db = "open"
    BY Zenon, <1>9 DEF Phases, Opened
  <2>2. AddsBelow(manifests[current].records, next_file_number)
    BY Zenon, <2>1 DEF CurrentBounded
  <2>3. manifests'[current] = manifests[current] /\ UNCHANGED <<current, next_file_number>>
    BY <1>9, <2>1 DEF Opened
  <2> QED BY Zenon, <2>2, <2>3 DEF CurrentBounded
<1>10. CASE repairer.step \in {"convert", "archive", "manifests"} /\ db' = db
  BY Zenon, <1>1, <1>10 DEF Phases
<1>11. CASE ArchiveLog \/ ExtractMetadata \/ WriteDescriptor
  BY Zenon, <1>10, <1>11 DEF ArchiveLog, ExtractMetadata, WriteDescriptor, RepairUnchanged
<1>12. ASSUME NEW l \in repairer.logs, ConvertLog(l) PROVE CurrentBounded'
  BY Zenon, <1>10, <1>12 DEF ConvertLog, RepairUnchanged
<1>13. ASSUME NEW n \in repairer.manifests, ArchiveManifest(n) PROVE CurrentBounded'
  BY Zenon, <1>10, <1>13 DEF ArchiveManifest, RepairUnchanged
<1>14. ASSUME NEW who, NEW del, NEW holds, NEW n, Starts(who, del, holds, n) PROVE CurrentBounded'
  <2>1. n \in Nat /\ n >= next_file_number /\ next_file_number' = n + 1 /\ UNCHANGED <<db, current, manifests>>
    BY Zenon, <1>14, StartsIs
  <2> QED BY SMTT(30), <1>2, <2>1
<1>15. CASE CreateManifest
  <2>1. /\ job # NoJob /\ job.step = "create" /\ next_file_number' = next_file_number + 1 /\ UNCHANGED <<db, current>>
        /\ FileIs(next_file_number, <<>>, 0)
    BY Zenon, <1>15, CreateManifestIs DEF JobMoves
  <2>2. db \in {"open", "repair"} /\ manifest_log = 0
    BY Zenon, <2>1 DEF JobPhases
  <2>3. db = "open" => next_file_number # current
    BY SMTT(30), <2>1, <2>2 DEF Counters
  <2>4. db = "open" => (current \in DOMAIN manifests' =>
            current \in DOMAIN manifests /\ manifests'[current].records = manifests[current].records)
    BY Zenon, <2>1, <2>3 DEF FileIs
  <2> QED BY <1>1, <1>2, <2>1, <2>2, <2>4
<1>16. CASE AppendSnapshot
  <2>1. job.step = "snapshot" /\ job # NoJob /\ UNCHANGED <<db, current, next_file_number>> /\ manifest_log \in DOMAIN manifests
    BY Zenon, <1>16, AppendSnapshotIs DEF JobMoves
  <2>2. PICK e : FileIs(manifest_log, Append(Written, e), manifests[manifest_log].synced)
    BY Zenon, <1>16, AppendSnapshotIs
  <2>3. db \in {"open", "repair"} /\ (db = "open" => manifest_log # current)
    BY Zenon, <2>1 DEF JobPhases
  <2> QED BY SMTT(30), <1>1, <1>3, <2>1, <2>2, <2>3
<1>17. ASSUME job # NoJob, job.step # "create"
       PROVE  \A t \in job.edit.add : t < next_file_number
  <2>1. job.edit.next \in Nat /\ job.edit.add \subseteq Nat /\ \A t \in job.edit.add : t < job.edit.next
    BY Zenon, <1>17, JobBounds
  <2>2. job.edit.next <= next_file_number
    BY Zenon, <1>17 DEF JobEdit
  <2> QED BY SMTT(30), <2>1, <2>2
<1>18. CASE AppendEdit
  <2>1. /\ job.step = "append" /\ job # NoJob /\ UNCHANGED <<db, current, next_file_number>> /\ manifest_log \in DOMAIN manifests
        /\ FileIs(manifest_log, Append(Written, job.edit), manifests[manifest_log].synced)
    BY Zenon, <1>18, AppendEditIs DEF JobMoves
  <2>2. \A t \in job.edit.add : t < next_file_number
    BY Zenon, <1>17, <2>1
  <2>3. CASE db \in {"open", "running"}
    BY <1>3, <2>1, <2>2, <2>3
  <2> QED BY Zenon, <1>1, <2>1, <2>3
<1>19. CASE SyncManifest
  <2>1. /\ UNCHANGED <<db, current, next_file_number>> /\ manifest_log \in DOMAIN manifests
        /\ FileIs(manifest_log, Written, Len(Written))
    BY Zenon, <1>19, SyncManifestIs
  <2>2. current \in DOMAIN manifests' =>
            current \in DOMAIN manifests /\ manifests'[current].records = manifests[current].records
    BY <2>1 DEF FileIs, Written
  <2> QED BY Zenon, <1>2, <2>1, <2>2
<1>20. CASE SetCurrent
  <2>1. /\ job.step = "current" /\ job # NoJob /\ job.fresh /\ current' = manifest_log
        /\ manifest_log \in DOMAIN manifests /\ UNCHANGED <<db, manifests, next_file_number>>
    BY Zenon, <1>20, SetCurrentIs DEF JobMoves
  <2>2. Len(Written) = 2 /\ Written[1].add = version /\ Written[2] = job.edit
    BY Zenon, <2>1 DEF JobLog
  <2>3. db = "open" => \A t \in version : t < next_file_number
    BY Zenon DEF Counters
  <2>4. \A i \in 1 .. Len(Written) : i = 1 \/ i = 2
    BY <2>2
  <2>5. db = "open" => AddsBelow(Written, next_file_number)
    <3> HIDE DEF Written
    <3> QED BY Zenon, <1>17, <2>1, <2>2, <2>3, <2>4 DEF AddsBelow
  <2>6. db \in {"open", "repair"}
    BY <2>1 DEF JobPhases
  <2> QED BY Zenon, <2>1, <2>5, <2>6 DEF CurrentBounded, Written
<1>21. CASE Install
  <2>1. db' \in {db, "closed"} /\ UNCHANGED <<current, manifests, next_file_number>>
    BY ZenonT(30), <1>21 DEF Install
  <2> QED BY Zenon, <1>1, <1>2, <2>1
<1>22. CASE Fail
  <2>1. /\ job # NoJob /\ db' = (IF db = "running" THEN db ELSE "closed") /\ current' = current
        /\ next_file_number' \in {next_file_number, next_file_number + 1}
        /\ job.step # "create" => next_file_number' = next_file_number
    BY Zenon, <1>22, FailIs DEF Fail
  <2>2. CASE manifests' = manifests
    BY Zenon, <1>1, <1>2, <2>1, <2>2, NumbersAre
  <2>3. ASSUME NEW r \in {job.edit, Torn}, job.step = "append", manifest_log \in DOMAIN manifests,
               FileIs(manifest_log, Append(Written, r), manifests[manifest_log].synced)
        PROVE  CurrentBounded'
    <3>1. next_file_number' = next_file_number
      BY Zenon, <2>1, <2>3
    <3>2. (r # Torn => \A t \in r.add : t < next_file_number)
      BY Zenon, <1>17, <2>1, <2>3
    <3>3. CASE db = "running"
      BY <1>3, <2>1, <2>3, <3>1, <3>2, <3>3
    <3> QED BY Zenon, <1>1, <2>1, <3>3
  <2> QED BY <1>22, <2>2, <2>3, FailIs
<1> QED BY ZenonT(30), <1>4, <1>5, <1>6, <1>7, <1>8, <1>9, <1>11, <1>12, <1>13, <1>14, <1>15, <1>16,
           <1>18, <1>19,
           <1>20, <1>21, <1>22, NextCases

LEMMA CountersStep == ASSUME IInv, Next PROVE Counters'
<1> TypeInv /\ Phases /\ JobPhases /\ JobEdit /\ Counters /\ Numbers
  BY Zenon DEF IInv, Numbers
<1> next_file_number \in Nat \ {0} /\ current \in Nat /\ version \subseteq Nat /\ manifest_log \in Nat
      /\ DOMAIN tables \subseteq Nat
  BY Zenon, NumbersAre
<1>1. ASSUME UNCHANGED <<db, version, manifest_log, current>>, next_file_number' \in Nat,
             next_file_number <= next_file_number',
             db = "repair" => repairer'.tables = DOMAIN tables' /\ \A t \in DOMAIN tables' : t < next_file_number',
             (db = "open" /\ manifest_log = 0 /\ job' # NoJob) => current < next_file_number'
      PROVE  Counters'
  <2>1. manifest_log # 0 => manifest_log < next_file_number'
    BY SMTT(30), <1>1 DEF Counters
  <2>2. db \in {"open", "running"} => \A t \in version : t < next_file_number'
    BY SMTT(30), <1>1 DEF Counters
  <2>3. (db = "open" /\ manifest_log = 0) => current <= next_file_number'
    BY SMTT(30), <1>1 DEF Counters
  <2> QED BY Zenon, <1>1, <2>1, <2>2, <2>3 DEF Counters
<1>2. ASSUME UNCHANGED <<db, version, manifest_log, current, next_file_number, tables>>,
             repairer'.tables = repairer.tables, job # NoJob \/ job' = NoJob \/ db = "repair"
      PROVE  Counters'
  <2>1. db = "repair" => repairer'.tables = DOMAIN tables' /\ \A t \in DOMAIN tables' : t < next_file_number'
    BY Zenon, <1>2 DEF Counters
  <2>2. (db = "open" /\ manifest_log = 0 /\ job' # NoJob) => current < next_file_number'
    BY Zenon, <1>2 DEF Counters
  <2> QED BY SMTT(30), <1>1, <1>2, <2>1, <2>2
<1>4. CASE OpenNew
  <2>1. current' = 0 /\ job' = NoJob /\ db' = "open" /\ version' = {} /\ next_file_number' = 2 /\ manifest_log' = 0
    BY Zenon, <1>4 DEF OpenNew, diskVars, Phases
  <2> QED BY SMTT(30), <2>1 DEF Counters
<1>5. CASE OpenExisting
  <2>1. current' = current /\ job' = NoJob /\ db' = "open" /\ manifest_log' = 0
    BY Zenon, <1>5 DEF OpenExisting, diskVars, Phases
  <2>2. PICK rs \in Readings : /\ version' = Replay(rs) /\ current <= next_file_number'
                               /\ \A i \in 1 .. Len(rs) : \A t \in rs[i].add : t < next_file_number'
    BY Zenon, <1>5, OpenExistingIs
  <2>3. \A t \in version' : t < next_file_number'
    BY <2>2 DEF Replay
  <2> QED BY Zenon, <2>1, <2>2, <2>3 DEF Counters
<1>6. CASE OpenFails
  <2>1. db' = "stuck" /\ UNCHANGED <<manifest_log, next_file_number>>
    BY Zenon, <1>6 DEF OpenFails
  <2> QED BY Zenon, <2>1 DEF Counters
<1>7. CASE OpenTable
  <2>1. /\ next_file_number' = next_file_number + 1 /\ UNCHANGED <<db, version, manifest_log, current>>
        /\ db = "open"
    BY Zenon, <1>7, OpenTableIs
  <2>2. manifest_log = 0 => current <= next_file_number
    BY Zenon, <2>1 DEF Counters
  <2> QED BY SMTT(30), <1>1, <2>1, <2>2
<1>8. CASE OpenLog
  <2>1. /\ next_file_number' = next_file_number + 1 /\ UNCHANGED <<db, version, manifest_log, current>>
        /\ db = "open"
    BY Zenon, <1>8, OpenLogIs
  <2>2. manifest_log = 0 => current <= next_file_number
    BY Zenon, <2>1 DEF Counters
  <2> QED BY <1>1, <2>1, <2>2
<1>9. CASE Opened
  <2>1. db = "open" /\ db' = "running" /\ UNCHANGED <<manifest_log, next_file_number, version>>
    BY Zenon, <1>9 DEF Opened
  <2> QED BY Zenon, <2>1 DEF Counters
<1>10. CASE FindFiles
  <2>1. /\ db' = "repair" /\ manifest_log' = 0 /\ tables' = tables /\ repairer'.tables = DOMAIN tables
        /\ \A t \in DOMAIN tables : t < next_file_number'
    BY Zenon, <1>10, FindFilesIs
  <2> QED BY Zenon, <2>1 DEF Counters
<1>11. ASSUME NEW l \in repairer.logs, ConvertLog(l) PROVE Counters'
  <2>1. /\ repairer.step = "convert" /\ next_file_number' \in {next_file_number, next_file_number + 1}
        /\ UNCHANGED <<db, version, manifest_log, current>>
    BY Zenon, <1>11, ConvertLogIs
  <2>2. db = "repair" /\ repairer.tables = DOMAIN tables /\ \A t \in DOMAIN tables : t < next_file_number
    BY Zenon, <2>1 DEF Counters, Phases
  <2>3. \/ /\ DOMAIN tables' = DOMAIN tables \cup {next_file_number}
           /\ next_file_number' = next_file_number + 1
           /\ repairer'.tables = repairer.tables \cup {next_file_number}
        \/ tables' = tables /\ repairer'.tables = repairer.tables
    BY Zenon, <1>11, ConvertLogIs DEF TableIs
  <2>4. repairer'.tables = DOMAIN tables'
    BY Zenon, <2>2, <2>3
  <2>5. \A t \in DOMAIN tables' : t < next_file_number'
    BY SMTT(30), <2>1, <2>2, <2>3
  <2> QED BY SMTT(30), <1>1, <2>1, <2>2, <2>4, <2>5
<1>12. CASE ArchiveLog
  <2>1. /\ repairer.step = "archive" /\ repairer'.tables = repairer.tables
        /\ UNCHANGED <<db, version, manifest_log, current, next_file_number, tables>>
    BY Zenon, <1>12, ArchiveLogIs
  <2> QED BY Zenon, <1>2, <2>1 DEF Phases
<1>13. CASE ExtractMetadata
  <2>1. /\ repairer.step = "convert" /\ UNCHANGED <<db, version, manifest_log, current, next_file_number>>
    BY Zenon, <1>13, ExtractMetadataIs
  <2>2. db = "repair" /\ repairer.tables = DOMAIN tables /\ \A t \in DOMAIN tables : t < next_file_number
    BY Zenon, <2>1 DEF Counters, Phases
  <2>3. \/ tables' = tables /\ repairer'.tables = repairer.tables
        \/ \E bad : DOMAIN tables' = DOMAIN tables \ {bad} /\ repairer'.tables = repairer.tables \ {bad}
    BY Zenon, <1>13, ExtractMetadataIs DEF TablesDropped
  <2>4. repairer'.tables = DOMAIN tables' /\ DOMAIN tables' \subseteq DOMAIN tables
    BY Zenon, <2>2, <2>3
  <2> QED BY SMTT(30), <1>1, <2>1, <2>2, <2>4
<1>14. ASSUME NEW n \in repairer.manifests, ArchiveManifest(n) PROVE Counters'
  <2>1. /\ repairer.step = "manifests" /\ repairer'.tables = repairer.tables
        /\ UNCHANGED <<db, version, manifest_log, current, next_file_number, tables>>
    BY Zenon, <1>14, ArchiveManifestIs
  <2> QED BY Zenon, <1>2, <2>1 DEF Phases
<1>15. CASE WriteDescriptor
  <2>1. /\ repairer.step = "manifests" /\ repairer'.tables = repairer.tables
        /\ UNCHANGED <<db, version, manifest_log, current, next_file_number, tables>>
    BY Zenon, <1>15, WriteDescriptorIs
  <2> QED BY Zenon, <1>2, <2>1 DEF Phases
<1>16. ASSUME NEW who, NEW del, NEW holds, NEW n, Starts(who, del, holds, n) PROVE Counters'
  <2>1. /\ n \in Nat /\ n >= next_file_number /\ next_file_number' = n + 1 /\ db = "running"
        /\ UNCHANGED <<db, version, manifest_log, current>>
    BY Zenon, <1>16, StartsIs
  <2> QED BY SMTT(30), <1>1, <2>1
<1>17. CASE CreateManifest
  <2>1. /\ manifest_log' = next_file_number /\ next_file_number' = next_file_number + 1
        /\ UNCHANGED <<db, version, current, repairer, tables>>
    BY Zenon, <1>17, CreateManifestIs
  <2>2. db \in {"open", "running"} => \A t \in version : t < next_file_number'
    <3>1. db \in {"open", "running"} => \A t \in version : t < next_file_number
      BY Zenon DEF Counters
    <3>2. next_file_number' = next_file_number + 1
      BY Zenon, <2>1
    <3> QED BY SMTT(30), <3>1, <3>2
  <2>3. db = "repair" => repairer'.tables = DOMAIN tables' /\ \A t \in DOMAIN tables' : t < next_file_number'
    BY <2>1 DEF Counters
  <2>4. manifest_log' # 0 /\ manifest_log' < next_file_number'
    BY <2>1
  <2> QED BY Zenon, <2>1, <2>2, <2>3, <2>4 DEF Counters
<1>18. CASE AppendSnapshot
  <2>1. /\ job # NoJob /\ UNCHANGED <<db, version, manifest_log, current, next_file_number, tables, repairer>>
    BY Zenon, <1>18, AppendSnapshotIs DEF JobMoves
  <2> QED BY Zenon, <1>2, <2>1
<1>19. CASE AppendEdit
  <2>1. /\ job # NoJob /\ UNCHANGED <<db, version, manifest_log, current, next_file_number, tables, repairer>>
    BY Zenon, <1>19, AppendEditIs DEF JobMoves
  <2> QED BY Zenon, <1>2, <2>1
<1>20. CASE SyncManifest
  <2>1. /\ job # NoJob /\ UNCHANGED <<db, version, manifest_log, current, next_file_number, tables, repairer>>
    BY Zenon, <1>20, SyncManifestIs DEF JobMoves
  <2> QED BY Zenon, <1>2, <2>1
<1>21. CASE SetCurrent
  <2>1. manifest_log # 0 /\ UNCHANGED <<db, version, manifest_log, next_file_number, tables, repairer>>
    BY Zenon, <1>21, SetCurrentIs
  <2> QED BY Zenon, <2>1 DEF Counters
<1>22. CASE Install
  <2>1. /\ job.step = "install" /\ job # NoJob /\ db \in {"open", "running", "repair"}
        /\ version' = (IF db = "repair" THEN {} ELSE Apply(version, job.edit)) /\ job' = NoJob
        /\ db' = (IF db = "repair" THEN "closed" ELSE db) /\ UNCHANGED <<manifest_log, next_file_number>>
    BY Zenon, <1>22, InstallIs
  <2>2. manifest_log # 0
    BY Zenon, <2>1 DEF JobPhases
  <2>3. job.edit.add \subseteq Nat /\ job.edit.next \in Nat /\ \A t \in job.edit.add : t < job.edit.next
    BY Zenon, <2>1, JobBounds
  <2>4. \A t \in job.edit.add : t < next_file_number
    <3>1. job.edit.next <= next_file_number
      BY Zenon, <2>1 DEF JobEdit
    <3> QED BY SMTT(30), <2>3, <3>1
  <2>5. db \in {"open", "running"} => \A t \in Apply(version, job.edit) : t < next_file_number
    BY Zenon, <2>4 DEF Counters, Apply
  <2>6. manifest_log < next_file_number
    BY Zenon, <2>2 DEF Counters
  <2>7. db' # "repair"
    BY <2>1
  <2> QED BY Zenon, <2>1, <2>2, <2>5, <2>6, <2>7 DEF Counters
<1>23. CASE Fail
  <2>1. /\ next_file_number' \in {next_file_number, next_file_number + 1} /\ manifest_log' \in {0, manifest_log}
        /\ db' = (IF db = "running" THEN db ELSE "closed") /\ UNCHANGED version
    BY Zenon, <1>23, FailIs
  <2>2. manifest_log' # 0 => manifest_log' < next_file_number'
    BY <2>1 DEF Counters
  <2>3. db' \in {"open", "running"} => \A t \in version : t < next_file_number'
    BY SMTT(30), <2>1 DEF Counters
  <2> QED BY Zenon, <2>1, <2>2, <2>3 DEF Counters
<1>24. CASE Crash
  BY Zenon, <1>24, CrashIs DEF Counters
<1> QED BY ZenonT(30), <1>4, <1>5, <1>6, <1>7, <1>8, <1>9, <1>10, <1>11, <1>12, <1>13, <1>14, <1>15,
           <1>16, <1>17, <1>18,
           <1>19, <1>20, <1>21, <1>22, <1>23, <1>24, NextCases

LEMMA FailedEditsStep == ASSUME IInv, Next PROVE FailedEdits'
<1> TypeInv /\ Phases /\ JobPhases /\ JobEdit /\ Counters /\ FailedEdits
  BY Zenon DEF IInv, Numbers
<1> next_file_number \in Nat /\ version \subseteq Nat /\ failed \subseteq Edits /\ DOMAIN tables \subseteq Nat
  BY ManifestAssumption DEF TypeInv, NumbersTyped, ProcTyped
<1> \A d \in failed : d.add \subseteq Nat /\ d.del \subseteq Nat
  BY Zenon DEF Edits
<1>1. ASSUME db' # "running" PROVE FailedEdits'
  BY Zenon, <1>1 DEF FailedEdits
<1>2. ASSUME UNCHANGED <<db, failed, version, tables>>, next_file_number' \in {next_file_number, next_file_number + 1}
      PROVE  FailedEdits'
  <2>1. ASSUME db = "running", NEW d \in failed, NEW t \in d.add \cup d.del PROVE t < next_file_number'
    BY SMTT(30), <1>2, <2>1 DEF FailedEdits
  <2> QED BY Zenon, <1>2, <2>1 DEF FailedEdits
<1>3. CASE repairer.step # "none" /\ db' = db
  BY Zenon, <1>1, <1>3 DEF Phases
<1>4. CASE OpenNew \/ OpenExisting \/ OpenFails \/ FindFiles \/ Crash
  BY <1>1, <1>4, Zenon DEF OpenNew, OpenExisting, OpenFails, FindFiles, Crash
<1>5. CASE OpenTable \/ OpenLog
  BY <1>1, <1>5, ZenonT(30) DEF OpenTable, OpenLog
<1>6. CASE Opened
  <2>1. db = "open" /\ failed' = failed
    BY <1>6 DEF Opened
  <2> QED BY Zenon, <2>1 DEF FailedEdits, Phases
<1>7. CASE ArchiveLog \/ ExtractMetadata \/ WriteDescriptor
  BY <1>3, <1>7, Zenon DEF ArchiveLog, ExtractMetadata, WriteDescriptor, RepairUnchanged
<1>8. ASSUME NEW l \in repairer.logs, ConvertLog(l) PROVE FailedEdits'
  BY <1>3, <1>8, Zenon DEF ConvertLog, RepairUnchanged
<1>9. ASSUME NEW n \in repairer.manifests, ArchiveManifest(n) PROVE FailedEdits'
  BY <1>3, <1>9, Zenon DEF ArchiveManifest, RepairUnchanged
<1>10. ASSUME NEW who, NEW del, NEW holds, NEW n, Starts(who, del, holds, n) PROVE FailedEdits'
  <2>1. n \in Nat /\ n >= next_file_number /\ next_file_number' = n + 1 /\ db = "running"
    BY <1>10, StartsIs, Zenon
  <2>2. UNCHANGED <<db, failed, version>>
    BY <1>10, StartsIs, Zenon
  <2>3. DOMAIN tables' = DOMAIN tables \cup {n} /\ \A t \in DOMAIN tables \ {n} : tables'[t] = tables[t]
    BY <1>10, StartsIs, ZenonT(30) DEF TableIs
  <2>4. SUFFICES ASSUME NEW d \in failed
                 PROVE  /\ \A t \in d.add \cup d.del : t < next_file_number'
                        /\ d.add \cap version = {}
                        /\ HoldsIn(tables', d.del) \subseteq HoldsIn(tables', d.add)
    BY Zenon, <2>1, <2>2, <2>3 DEF FailedEdits
  <2>5. /\ \A t \in d.add \cup d.del : t < next_file_number
        /\ d.add \cap version = {}
        /\ HoldsIn(tables, d.del) \subseteq HoldsIn(tables, d.add)
    BY Zenon, <2>1 DEF FailedEdits
  <2>6. \A t \in d.add \cup d.del : t # n /\ t < next_file_number'
    BY SMTT(30), <2>1, <2>5
  <2>7. HoldsIn(tables', d.del) \subseteq HoldsIn(tables, d.del)
    <3>1. \A t \in d.del : t \in DOMAIN tables' => t \in DOMAIN tables /\ tables[t] = tables'[t]
      BY Zenon, <2>3, <2>6
    <3> QED BY Zenon, <3>1, HoldsSame
  <2>8. HoldsIn(tables, d.add) \subseteq HoldsIn(tables', d.add)
    <3>1. \A t \in d.add : t \in DOMAIN tables => t \in DOMAIN tables' /\ tables'[t] = tables[t]
      BY Zenon, <2>3, <2>6
    <3> QED BY Zenon, <3>1, HoldsSame
  <2> QED BY Zenon, <2>5, <2>6, <2>7, <2>8
<1>11. CASE CreateManifest
  <2>1. next_file_number' = next_file_number + 1 /\ UNCHANGED <<db, failed, version, tables>>
    BY Zenon, <1>11, CreateManifestIs
  <2> QED BY Zenon, <1>2, <2>1
<1>12. CASE AppendSnapshot
  <2>1. UNCHANGED <<db, failed, version, tables, next_file_number>>
    BY Zenon, <1>12, AppendSnapshotIs
  <2> QED BY Zenon, <1>2, <2>1
<1>13. CASE AppendEdit
  <2>1. UNCHANGED <<db, failed, version, tables, next_file_number>>
    BY Zenon, <1>13, AppendEditIs
  <2> QED BY Zenon, <1>2, <2>1
<1>14. CASE SyncManifest
  <2>1. UNCHANGED <<db, failed, version, tables, next_file_number>>
    BY Zenon, <1>14, SyncManifestIs
  <2> QED BY Zenon, <1>2, <2>1
<1>15. CASE SetCurrent
  <2>1. UNCHANGED <<db, failed, version, tables, next_file_number>>
    BY Zenon, <1>15, SetCurrentIs
  <2> QED BY Zenon, <1>2, <2>1
<1>16. CASE Install
  <2>1. /\ job # NoJob /\ db' = (IF db = "repair" THEN "closed" ELSE db)
        /\ version' = (IF db = "repair" THEN {} ELSE Apply(version, job.edit))
        /\ UNCHANGED <<next_file_number, failed>>
    BY Zenon, <1>16, InstallIs
  <2>2. DOMAIN tables' = DOMAIN tables \ job.edit.del /\ \A t \in DOMAIN tables' : tables'[t] = tables[t]
    BY Zenon, <1>16, InstallIs DEF TablesDropped
  <2>3. SUFFICES ASSUME db = "running", NEW d \in failed
                 PROVE  /\ \A t \in d.add \cup d.del : t < next_file_number
                        /\ d.add \cap version' = {}
                        /\ HoldsIn(tables', d.del) \subseteq HoldsIn(tables', d.add)
    BY Zenon, <2>1 DEF FailedEdits
  <2>4. /\ \A t \in d.add \cup d.del : t < next_file_number
        /\ d.add \cap version = {}
        /\ HoldsIn(tables, d.del) \subseteq HoldsIn(tables, d.add)
    BY Zenon, <2>3 DEF FailedEdits
  <2>5. job.edit.del \subseteq version /\ d.add \cap job.edit.add = {}
    BY Zenon, <2>1, <2>3 DEF JobEdit
  <2>6. d.add \cap version' = {}
    BY Zenon, <2>1, <2>3, <2>4, <2>5 DEF Apply
  <2>7. HoldsIn(tables', d.del) \subseteq HoldsIn(tables, d.del)
    <3>1. \A t \in d.del : t \in DOMAIN tables' => t \in DOMAIN tables /\ tables[t] = tables'[t]
      BY Zenon, <2>2
    <3> QED BY Zenon, <3>1, HoldsSame
  <2>8. HoldsIn(tables, d.add) \subseteq HoldsIn(tables', d.add)
    <3>1. \A t \in d.add : t \in DOMAIN tables => t \in DOMAIN tables' /\ tables'[t] = tables[t]
      BY Zenon, <2>2, <2>4, <2>5
    <3> QED BY <3>1, HoldsSame
  <2> QED BY Zenon, <2>4, <2>6, <2>7, <2>8
<1>17. CASE Fail
  <2>1. /\ job # NoJob /\ job.edit \in Edits /\ next_file_number' \in {next_file_number, next_file_number + 1}
        /\ db' = (IF db = "running" THEN db ELSE "closed") /\ failed' = failed \cup {job.edit}
        /\ UNCHANGED <<version, tables>>
    BY Zenon, <1>17, FailIs
  <2>2. SUFFICES ASSUME db = "running", NEW d \in failed \cup {job.edit}
                 PROVE  /\ \A t \in d.add \cup d.del : t < next_file_number'
                        /\ d.add \cap version = {}
                        /\ HoldsIn(tables, d.del) \subseteq HoldsIn(tables, d.add)
    BY Zenon, <2>1 DEF FailedEdits
  <2>3. ASSUME d \in failed
        PROVE  /\ \A t \in d.add \cup d.del : t < next_file_number
               /\ d.add \cap version = {}
               /\ HoldsIn(tables, d.del) \subseteq HoldsIn(tables, d.add)
    BY Zenon, <2>2, <2>3 DEF FailedEdits
  <2>4. ASSUME d = job.edit
        PROVE  /\ \A t \in d.add \cup d.del : t < next_file_number
               /\ d.add \cap version = {}
               /\ HoldsIn(tables, d.del) \subseteq HoldsIn(tables, d.add)
    <3>1. /\ d.add \subseteq Below(tables, d.next) /\ d.next <= next_file_number
          /\ d.del \subseteq version /\ d.add \cap version = {}
          /\ HoldsIn(tables, d.del) \subseteq HoldsIn(tables, d.add)
      BY Zenon, <2>1, <2>2, <2>4 DEF JobEdit
    <3>2. d.next \in Nat /\ d.add \subseteq Nat
      BY Zenon, <2>1, <2>4 DEF Edits
    <3>3. \A t \in d.add : t < next_file_number
      BY SMTT(30), <3>1, <3>2 DEF Below
    <3>4. \A t \in version : t < next_file_number
      BY Zenon, <2>2 DEF Counters
    <3> QED BY Zenon, <3>1, <3>3, <3>4
  <2>5. d.add \subseteq Nat /\ d.del \subseteq Nat
    BY Zenon, <2>1, <2>2 DEF Edits
  <2> QED BY SMTT(30), <2>1, <2>2, <2>3, <2>4, <2>5
<1> QED BY Zenon, <1>4, <1>5, <1>6, <1>7, <1>8, <1>9, <1>10, <1>11, <1>12, <1>13, <1>14, <1>15, <1>16,
           <1>17, NextCases
=============================================================================
