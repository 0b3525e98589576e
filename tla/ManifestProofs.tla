--------------------------- MODULE ManifestProofs ---------------------------
(***************************************************************************)
(* Proofs about Manifest, for every bound and every set of steps that may  *)
(* fail: log_and_apply is atomic across crashes and I/O errors, no table a *)
(* recovery needs is deleted or overwritten, and nothing that was          *)
(* installed is lost, repair_db included.                                  *)
(***************************************************************************)
EXTENDS ManifestSteps

(* The last edit of a MANIFEST has its full effect. *)
LEMMA ReplayLast ==
    ASSUME NEW rs \in Seq(Edits), rs # <<>>
    PROVE  /\ rs[Len(rs)].add \subseteq Replay(rs)
           /\ \A t \in Replay(rs) : t \in rs[Len(rs)].del => t \in rs[Len(rs)].add
<1>1. Len(rs) \in Nat /\ Len(rs) >= 1
  OBVIOUS
<1>2. rs[Len(rs)].add \subseteq Replay(rs)
  BY <1>1 DEF Replay
<1>3. ASSUME NEW t \in Replay(rs), t \in rs[Len(rs)].del PROVE t \in rs[Len(rs)].add
  <2>1. PICK i \in 1 .. Len(rs) : t \in rs[i].add /\ \A j \in i + 1 .. Len(rs) : t \notin rs[j].del
    BY Zenon, <1>3 DEF Replay
  <2>2. i = Len(rs)
    BY <1>1, <1>3, <2>1
  <2> QED BY Zenon, <2>1, <2>2
<1> QED BY Zenon, <1>2, <1>3

LEMMA ReadingsSame ==
    ASSUME current' = current,
           current \in DOMAIN manifests' => current \in DOMAIN manifests /\ manifests'[current] = manifests[current]
    PROVE  Readings' \subseteq Readings
<1>1. CASE current \in DOMAIN manifests'
  <2>1. Readings' = Recoverable(manifests'[current])
    BY <1>1 DEF Readings, Recoverable, Left, Remains, Readable
  <2>2. Readings = Recoverable(manifests[current])
    BY Zenon, <1>1 DEF Readings
  <2> QED BY Zenon, <1>1, <2>1, <2>2
<1>2. CASE current \notin DOMAIN manifests'
  BY Zenon, <1>2 DEF Readings
<1> QED BY Zenon, <1>1, <1>2

(* A record is appended to the MANIFEST that CURRENT names, or to another. *)
LEMMA ReadingsAppend ==
    ASSUME TypeInv, manifest_log \in DOMAIN manifests, current' = current, NEW e \in Records,
           FileIs(manifest_log, Append(Written, e), manifests[manifest_log].synced)
    PROVE  \/ Readings' \subseteq Readings
           \/ /\ manifest_log = current
              /\ \A rs \in Readings' : rs \in Readings \/
                    (e # Torn /\ Written \in Readings /\ Written \in Seq(Edits) /\ rs = Append(Written, e))
<1>1. CASE manifest_log # current
  BY Zenon, <1>1, ReadingsSame DEF FileIs
<1>2. CASE manifest_log = current
  <2> DEFINE m == manifests[current]
             M == manifests'[current]
  <2>1. m \in ManifestFile /\ m.synced <= Len(m.records) /\ Readings = Recoverable(m) /\ Written = m.records
    BY Zenon, <1>2 DEF TypeInv, FilesTyped, Readings, Written
  <2>2. M \in ManifestFile /\ M.records = Append(m.records, e) /\ M.synced = m.synced /\ current \in DOMAIN manifests'
    BY Zenon, <1>2 DEF FileIs, Written
  <2>3. Readings' = Recoverable(M)
    BY <2>2 DEF Readings, Recoverable, Left, Remains, Readable
  <2> HIDE DEF m, M
  <2>4. ASSUME NEW rs \in Readings'
        PROVE rs \in Readings \/
                    (e # Torn /\ Written \in Readings /\ Written \in Seq(Edits) /\ rs = Append(Written, e))
    <3>1. rs \in Recoverable(m) \/ (e # Torn /\ m.records \in Recoverable(m) /\ rs = Append(m.records, e))
      BY Zenon, <2>1, <2>2, <2>3, RecoverableAppend
    <3>2. m.records \in Recoverable(m) => m.records \in Seq(Edits)
      BY Zenon, <2>1, RecoverableIs
    <3> QED BY Zenon, <2>1, <3>1, <3>2
  <2> QED BY Zenon, <1>2, <2>4
<1> QED BY Zenon, <1>1, <1>2

(* How what can be read back changes: only log_and_apply, when it writes   *)
(* to the MANIFEST that CURRENT names or makes CURRENT name it, adds to    *)
(* it.                                                                     *)
EditRead(rs, e) == rs # <<>> /\ rs[Len(rs)] = e
Clobbers == CreateManifest /\ db = "repair" /\ clobbered' /\ \A rs \in Readings' : rs = <<>>
Snapshots ==
    /\ AppendSnapshot /\ db = "repair" /\ clobbered
    /\ \A rs \in Readings' :
          rs \in Readings \/ (rs # <<>> /\ rs[Len(rs)].next = next_file_number /\ Replay(rs) = {})
Writes ==
    /\ AppendEdit \/ Fail
    /\ job # NoJob /\ job.step = "append" /\ manifest_log = current
    /\ \A rs \in Readings' :
          rs \in Readings \/ (EditRead(rs, job.edit) /\ \E r \in Readings : Replay(rs) = Apply(Replay(r), job.edit))
Switches ==
    /\ SetCurrent
    /\ \A rs \in Readings' : EditRead(rs, job.edit) /\ Replay(rs) = Apply(version, job.edit)

LEMMA WritesIs ==
    ASSUME TypeInv, job # NoJob, job.step = "append", AppendEdit \/ Fail, current' = current,
           NEW e \in {job.edit, Torn}, manifest_log \in DOMAIN manifests,
           FileIs(manifest_log, Append(Written, e), manifests[manifest_log].synced)
    PROVE  Readings' \subseteq Readings \/ Writes
<1>1. job.edit \in Edits /\ e \in Records
  BY Zenon, JobIs DEF Records
<1>2. SUFFICES ASSUME manifest_log = current, NEW rs \in Readings',
                      e # Torn /\ Written \in Readings /\ Written \in Seq(Edits) /\ rs = Append(Written, e)
               PROVE  EditRead(rs, job.edit) /\ \E r \in Readings : Replay(rs) = Apply(Replay(r), job.edit)
  BY Zenon, <1>1, ReadingsAppend DEF Writes
<1>3. e = job.edit
  BY Zenon, <1>2
<1>4. Replay(rs) = Apply(Replay(Written), job.edit)
  BY Zenon, <1>2, <1>3, ReplayAppend
<1>5. rs # <<>> /\ rs[Len(rs)] = job.edit
  BY <1>1, <1>2, <1>3
<1> QED BY Zenon, <1>2, <1>4, <1>5 DEF EditRead

LEMMA TwoNonEmpty == ASSUME NEW w, Len(w) = 2 PROVE w # <<>>
  OBVIOUS

LEMMA SwitchesIs == ASSUME IInv, SetCurrent PROVE Switches
<1> TypeInv /\ JobPhases /\ JobLog
  BY Zenon DEF IInv
<1> \A n \in DOMAIN manifests : manifests[n] \in ManifestFile /\ manifests[n].synced <= Len(manifests[n].records)
  BY Zenon DEF TypeInv, FilesTyped
<1>1. /\ job.step = "current" /\ job # NoJob /\ job.fresh /\ manifest_log \in DOMAIN manifests
      /\ current' = manifest_log /\ manifests' = manifests /\ job.edit \in Edits
  BY Zenon, SetCurrentIs DEF JobMoves
<1>2. /\ manifests[manifest_log].synced = Len(Written) /\ Len(Written) = 2 /\ Written[Len(Written)] = job.edit
      /\ Written[1].add = version
  BY <1>1, Zenon DEF JobLog
<1>3. Readings' = Recoverable(manifests[manifest_log])
  BY <1>1 DEF Readings, Recoverable, Left, Remains, Readable
<1>4. manifests[manifest_log] \in ManifestFile
  BY Zenon, <1>1
<1>5. ASSUME NEW rs \in Readings' PROVE rs = Written
  BY Zenon, <1>2, <1>3, <1>4, <1>5, RecoverableSynced DEF Written
<1>6. Written # <<>>
  BY Zenon, <1>2, TwoNonEmpty
<1>7. Replay(Written) = Apply(version, job.edit)
  <2> DEFINE w == Written
  <2>1. Len(w) = 2 /\ w[1].add = version /\ w[2] = job.edit
    BY Zenon, <1>2
  <2> HIDE DEF w
  <2>2. Replay(w) = {t \in version \cup job.edit.add : t \in job.edit.add \/ t \notin job.edit.del}
    <3>1. 1 .. Len(w) = {1, 2} /\ 1 + 1 .. Len(w) = {2} /\ 2 + 1 .. Len(w) = {}
      BY <2>1
    <3>2. ASSUME NEW t PROVE t \in Replay(w) <=> \E i \in {1, 2} : t \in w[i].add /\ \A j \in i + 1 .. Len(w) : t \notin w[j].del
      BY Zenon, <3>1 DEF Replay
    <3> QED BY Zenon, <2>1, <3>1, <3>2
  <2>3. Replay(w) = Apply(version, job.edit)
    BY Zenon, <2>2 DEF Apply
  <2> QED BY <2>3 DEF w
<1> QED BY Zenon, <1>2, <1>5, <1>6, <1>7 DEF Switches, EditRead

LEMMA ReadingsStep ==
    ASSUME IInv, Next PROVE Readings' \subseteq Readings \/ Clobbers \/ Snapshots \/ Writes \/ Switches
<1> TypeInv /\ Phases /\ JobPhases /\ JobLog /\ Counters /\ Numbers
  BY Zenon DEF IInv, Numbers
<1> \A n \in DOMAIN manifests : manifests[n] \in ManifestFile /\ manifests[n].synced <= Len(manifests[n].records)
  BY Zenon DEF TypeInv, FilesTyped
<1>1. ASSUME UNCHANGED <<current, manifests>> PROVE Readings' \subseteq Readings
  BY Zenon, <1>1, ReadingsSame
<1>2. CASE OpenNew \/ OpenExisting \/ OpenFails \/ FindFiles
  BY <1>1, <1>2, Zenon DEF OpenNew, OpenExisting, OpenFails, FindFiles, diskVars
<1>3. CASE OpenTable \/ OpenLog
  BY <1>1, <1>3, Zenon DEF OpenTable, OpenLog, diskVars
<1>4. CASE ArchiveLog \/ ExtractMetadata \/ WriteDescriptor
  BY <1>1, <1>4, Zenon DEF ArchiveLog, ExtractMetadata, WriteDescriptor, RepairUnchanged
<1>5. ASSUME NEW l \in repairer.logs, ConvertLog(l) PROVE Readings' \subseteq Readings
  BY <1>1, <1>5, Zenon DEF ConvertLog, RepairUnchanged
<1>6. CASE Install
  BY <1>1, <1>6, Zenon DEF Install
<1>7. ASSUME NEW who, NEW del, NEW holds, NEW n, Starts(who, del, holds, n) PROVE Readings' \subseteq Readings
  BY <1>1, <1>7, Zenon DEF Starts, Change
<1>8. CASE Opened
  <2>1. manifest_log = current /\ current \in DOMAIN manifests
    BY Zenon, <1>8 DEF Phases, Opened
  <2>2. current' = current /\ manifests' = [n \in {current} |-> manifests[n]]
    BY Zenon, <1>8, <2>1 DEF Opened
  <2> QED BY Zenon, <2>1, <2>2, ReadingsSame
<1>9. ASSUME NEW n \in repairer.manifests, ArchiveManifest(n) PROVE Readings' \subseteq Readings
  <2>1. /\ DOMAIN manifests' \subseteq DOMAIN manifests
        /\ \A k \in DOMAIN manifests' : manifests'[k] = manifests[k]
        /\ current' = current
    BY Zenon, <1>9, ArchiveManifestIs
  <2> QED BY Zenon, <2>1, ReadingsSame
<1>10. CASE CreateManifest
  <2>1. /\ job.step = "create" /\ job # NoJob /\ FileIs(next_file_number, <<>>, 0)
        /\ clobbered' = (clobbered \/ (job.who = "repair" /\ next_file_number = current)) /\ current' = current
    BY Zenon, <1>10, CreateManifestIs DEF JobMoves
  <2>2. CASE next_file_number # current
    BY Zenon, <2>1, <2>2, ReadingsSame DEF FileIs
  <2>3. CASE next_file_number = current
    <3>1. db = "repair"
      <4>1. db \in {"open", "repair"} /\ manifest_log = 0
        BY Zenon, <2>1 DEF JobPhases
      <4>2. db = "open" => current < next_file_number
        BY Zenon, <2>1, <4>1 DEF Counters
      <4>3. next_file_number \in Nat
        BY Zenon DEF TypeInv, NumbersTyped
      <4> QED BY <2>3, <4>1, <4>2, <4>3
    <3>2. job.who = "repair"
      BY Zenon, <2>1, <3>1 DEF JobPhases
    <3>3. /\ current \in DOMAIN manifests' /\ manifests'[current] \in ManifestFile
          /\ manifests'[current].records = <<>> /\ manifests'[current].synced = 0
      BY Zenon, <2>1, <2>3 DEF FileIs
    <3>4. Readings' = Recoverable(manifests'[current])
      BY <2>1, <3>3 DEF Readings, Recoverable, Left, Remains, Readable
    <3>5. \A rs \in Readings' : rs = <<>>
      BY <3>3, <3>4, RecoverableSynced
    <3> QED BY Zenon, <1>10, <2>1, <2>3, <3>1, <3>2, <3>5 DEF Clobbers
  <2> QED BY Zenon, <2>2, <2>3
<1>11. CASE AppendSnapshot
  <2>1. job.step = "snapshot" /\ job # NoJob /\ manifest_log \in DOMAIN manifests /\ current' = current
    BY Zenon, <1>11, AppendSnapshotIs DEF JobMoves
  <2>2. PICK e \in Edits : /\ e.add = version /\ e.del = {} /\ e.next = next_file_number
                           /\ FileIs(manifest_log, Append(Written, e), manifests[manifest_log].synced)
    BY Zenon, <1>11, AppendSnapshotIs
  <2>3. e \in Records
    BY Zenon DEF Records
  <2>4. SUFFICES ASSUME manifest_log = current,
                        \A rs \in Readings' : rs \in Readings \/ (Written \in Seq(Edits) /\ rs = Append(Written, e))
                 PROVE  Snapshots
    BY Zenon, <2>1, <2>2, <2>3, ReadingsAppend
  <2>5. job.fresh /\ db = "repair" /\ clobbered
    BY Zenon, <2>1, <2>4 DEF JobPhases
  <2>6. Written = <<>> /\ version = {}
    BY Zenon, <2>1, <2>5 DEF JobLog, Phases
  <2>7. Replay(Append(<<>>, e)) = {}
    <3>1. <<>> \in Seq(Edits)
      OBVIOUS
    <3>2. Replay(Append(<<>>, e)) = Apply({}, e)
      BY Zenon, <3>1, ReplayAppend, ReplayEmpty
    <3> QED BY Zenon, <2>2, <2>6, <3>2 DEF Apply
  <2>8. Append(<<>>, e) # <<>> /\ Len(Append(<<>>, e)) = 1 /\ Append(<<>>, e)[1] = e
    OBVIOUS
  <2> QED BY ZenonT(30), <1>11, <2>2, <2>4, <2>5, <2>6, <2>7, <2>8 DEF Snapshots
<1>12. CASE AppendEdit
  <2>1. /\ job # NoJob /\ job.step = "append" /\ manifest_log \in DOMAIN manifests /\ current' = current
        /\ FileIs(manifest_log, Append(Written, job.edit), manifests[manifest_log].synced)
    BY Zenon, <1>12, AppendEditIs DEF JobMoves
  <2> QED BY Zenon, <1>12, <2>1, WritesIs
<1>13. CASE Fail
  <2>1. job # NoJob /\ current' = current
    BY Zenon, <1>13, FailIs
  <2>2. ASSUME NEW r \in {job.edit, Torn}, job.step = "append", manifest_log \in DOMAIN manifests,
               FileIs(manifest_log, Append(Written, r), manifests[manifest_log].synced)
        PROVE  Readings' \subseteq Readings \/ Writes
    BY Zenon, <1>13, <2>1, <2>2, WritesIs
  <2>3. CASE manifests' = manifests
    BY <1>1, <2>1, <2>3
  <2> QED BY Zenon, <1>13, <2>2, <2>3, FailIs
<1>14. CASE SyncManifest
  <2>1. /\ manifest_log \in DOMAIN manifests /\ current' = current
        /\ FileIs(manifest_log, Written, Len(Written))
    BY Zenon, <1>14, SyncManifestIs
  <2>2. CASE manifest_log # current
    BY Zenon, <2>1, <2>2, ReadingsSame DEF FileIs
  <2>3. CASE manifest_log = current
    <3> DEFINE m == manifests[current]
               M == manifests'[current]
    <3>1. /\ current \in DOMAIN manifests' /\ M \in ManifestFile /\ M.records = m.records
          /\ M.synced = Len(M.records)
      BY Zenon, <2>1, <2>3 DEF FileIs, Written
    <3>2. Readings' = Recoverable(M)
      BY <2>1, <3>1 DEF Readings, Recoverable, Left, Remains, Readable
    <3>3. Readings = Recoverable(m) /\ m \in ManifestFile /\ m.synced <= Len(m.records)
      BY Zenon, <2>1, <2>3 DEF Readings
    <3>4. ASSUME NEW rs \in Recoverable(M) PROVE rs \in Recoverable(m)
      <4>1. rs = m.records
        BY Zenon, <3>1, <3>4, RecoverableSynced
      <4>2. Readable(rs)
        BY Zenon, <3>4 DEF Recoverable
      <4> QED BY Zenon, <3>3, <4>1, <4>2, RecoverableAll
    <3> QED BY Zenon, <3>2, <3>3, <3>4
  <2> QED BY Zenon, <2>2, <2>3
<1>15. CASE SetCurrent
  BY Zenon, <1>15, SwitchesIs
<1>16. CASE Crash
  <2>1. /\ DOMAIN manifests' = DOMAIN manifests /\ current' = current
        /\ \A n \in DOMAIN manifests : manifests'[n] \in Left(manifests[n])
    BY Zenon, <1>16, CrashIs
  <2>2. CASE current \in DOMAIN manifests
    <3>1. Readings' = Recoverable(manifests'[current]) /\ Readings = Recoverable(manifests[current])
      BY <2>1, <2>2 DEF Readings, Recoverable, Left, Remains, Readable
    <3> QED BY ZenonT(30), <2>1, <2>2, <3>1, RecoverableLeft
  <2>3. CASE current \notin DOMAIN manifests
    BY Zenon, <2>1, <2>3, ReadingsSame
  <2> QED BY <2>2, <2>3
<1> QED BY ZenonT(30), <1>2, <1>3, <1>4, <1>5, <1>6, <1>7, <1>8, <1>9, <1>10, <1>11, <1>12, <1>13, <1>14,
           <1>15, <1>16, NextCases

(* Once the edit is synced and CURRENT names the MANIFEST, a recovery     *)
(* reads it, last.                                                         *)
LEMMA ReadingsInstalled ==
    ASSUME IInv, job # NoJob, job.step = "install"
    PROVE  \A rs \in Readings : /\ rs = Written /\ rs \in Seq(Edits) /\ EditRead(rs, job.edit)
                                /\ job.edit.add \subseteq Replay(rs)
                                /\ Replay(rs) \cap job.edit.del = {}
<1>1. SUFFICES ASSUME NEW rs \in Readings
               PROVE  /\ rs = Written /\ rs \in Seq(Edits) /\ EditRead(rs, job.edit)
                      /\ job.edit.add \subseteq Replay(rs)
                      /\ Replay(rs) \cap job.edit.del = {}
  OBVIOUS
<1>2. manifest_log = current /\ manifest_log \in DOMAIN manifests
  BY Zenon DEF IInv, JobPhases
<1>3. /\ manifests[manifest_log].synced = Len(Written) /\ Written # <<>> /\ Written[Len(Written)] = job.edit
  BY Zenon DEF IInv, JobLog
<1>4. manifests[manifest_log] \in ManifestFile /\ rs \in Recoverable(manifests[manifest_log])
  BY Zenon, <1>2 DEF IInv, TypeInv, FilesTyped, Readings
<1>5. rs = Written
  BY Zenon, <1>3, <1>4, RecoverableSynced DEF Written
<1>6. manifests[manifest_log].synced <= Len(manifests[manifest_log].records)
  BY Zenon, <1>2 DEF IInv, TypeInv, FilesTyped
<1>7. rs \in Seq(Edits)
  BY Zenon, <1>4, <1>6, RecoverableIs
<1>8. EditRead(rs, job.edit) /\ rs # <<>>
  BY Zenon, <1>3, <1>5 DEF EditRead
<1>9. job.edit.del \cap job.edit.add = {}
  BY Zenon DEF IInv, JobEdit
<1>10. job.edit.add \subseteq Replay(rs) /\ \A t \in Replay(rs) : t \in job.edit.del => t \in job.edit.add
  BY Zenon, <1>7, <1>8, ReplayLast DEF EditRead
<1> QED BY Zenon, <1>5, <1>7, <1>8, <1>9, <1>10
-----------------------------------------------------------------------------
(* How the tables change: an open database, or a repair, writes one under  *)
(* a number not yet in use; a repair drops one it cannot read; a           *)
(* compaction drops its inputs at the end of log_and_apply.                *)
TableWritten(k, x) ==
    /\ k \in Nat /\ TableIs(k, x) /\ damaged' = damaged /\ kept' = kept /\ clobbered' = clobbered
    /\ \/ db \in {"open", "running"} /\ k >= next_file_number /\ next_file_number' = k + 1
       \/ db = "repair" /\ db' = "repair" /\ k \notin DOMAIN tables
TableArchived(bad) ==
    /\ db = "repair" /\ db' = "repair" /\ bad \in DOMAIN tables /\ clobbered' = clobbered
    /\ TablesDropped({bad}) /\ damaged' = damaged \cup {bad} /\ kept' = kept \ tables[bad]
Quiet == tables' = tables /\ damaged' = damaged /\ kept' = kept /\ (clobbered => clobbered')

LEMMA TablesStep ==
    ASSUME IInv, Next
    PROVE  Quiet \/ Install \/ (\E k, x : TableWritten(k, x)) \/ (\E bad : TableArchived(bad))
<1> TypeInv /\ Phases /\ JobPhases /\ Counters
  BY Zenon DEF IInv, Numbers
<1> next_file_number \in Nat
  BY Zenon DEF TypeInv, NumbersTyped
<1>1. CASE OpenNew \/ OpenExisting \/ OpenFails
  BY <1>1, Zenon DEF Quiet, OpenNew, OpenExisting, OpenFails, diskVars, repVars
<1>2. CASE OpenLog \/ Opened \/ FindFiles
  BY <1>2, Zenon DEF Quiet, OpenLog, Opened, FindFiles, diskVars, repVars
<1>3. CASE ArchiveLog \/ WriteDescriptor
  BY <1>3, Zenon DEF Quiet, ArchiveLog, WriteDescriptor, RepairUnchanged
<1>4. CASE AppendSnapshot \/ AppendEdit \/ SyncManifest \/ SetCurrent
  BY <1>4, Zenon DEF Quiet, AppendSnapshot, AppendEdit, SyncManifest, SetCurrent, repVars
<1>5. CASE Fail \/ Crash
  BY <1>5, Zenon DEF Quiet, Fail, Crash
<1>6. CASE CreateManifest
  BY <1>6, Zenon DEF Quiet, CreateManifest
<1>7. ASSUME NEW n \in repairer.manifests, ArchiveManifest(n) PROVE Quiet
  BY <1>7, Zenon DEF Quiet, ArchiveManifest, RepairUnchanged
<1>8. CASE OpenTable
  <2>1. /\ db = "open" /\ next_file_number' = next_file_number + 1
        /\ TableIs(next_file_number, {next_file_number}) /\ UNCHANGED <<damaged, kept, clobbered>>
    BY <1>8, OpenTableIs, Zenon
  <2>2. TableWritten(next_file_number, {next_file_number})
    BY <2>1 DEF TableWritten
  <2> QED BY Zenon, <2>2
<1>9. ASSUME NEW who, NEW del, NEW holds, NEW n, Starts(who, del, holds, n) PROVE TableWritten(n, holds)
  <2>1. /\ n \in Nat /\ n >= next_file_number /\ next_file_number' = n + 1 /\ db = "running"
        /\ TableIs(n, holds) /\ UNCHANGED <<damaged, kept, clobbered>>
    BY <1>9, StartsIs, Zenon
  <2> QED BY Zenon, <2>1 DEF TableWritten
<1>10. ASSUME NEW l \in repairer.logs, ConvertLog(l)
       PROVE  Quiet \/ TableWritten(next_file_number, {next_file_number})
  <2>1. /\ repairer.step = "convert" /\ UNCHANGED <<damaged, kept, clobbered, db>>
        /\ TableIs(next_file_number, {next_file_number}) \/ tables' = tables
    BY <1>10, ConvertLogIs, Zenon
  <2>2. db = "repair" /\ \A t \in DOMAIN tables : t < next_file_number
    BY Zenon, <2>1 DEF Phases, Counters
  <2>3. next_file_number \notin DOMAIN tables
    BY <2>2
  <2>4. CASE tables' = tables
    BY Zenon, <2>1, <2>4 DEF Quiet
  <2>5. CASE TableIs(next_file_number, {next_file_number})
    BY Zenon, <2>1, <2>2, <2>3, <2>5 DEF TableWritten
  <2> QED BY Zenon, <2>1, <2>4, <2>5
<1>11. CASE ExtractMetadata
  <2>1. /\ repairer.step = "convert" /\ UNCHANGED <<clobbered, db>>
        /\ \/ tables' = tables /\ kept' = kept /\ damaged' = damaged
           \/ \E bad \in repairer.tables :
                 TablesDropped({bad}) /\ damaged' = damaged \cup {bad} /\ kept' = kept \ tables[bad]
    BY <1>11, ExtractMetadataIs, Zenon
  <2>2. db = "repair" /\ repairer.tables = DOMAIN tables
    BY <2>1 DEF Phases, Counters
  <2> QED BY Zenon, <2>1, <2>2 DEF Quiet, TableArchived
<1> QED BY ZenonT(30), <1>1, <1>2, <1>3, <1>4, <1>5, <1>6, <1>7, <1>8, <1>9, <1>10, <1>11, NextCases

(* How the version of an open database changes. *)
VersionKept ==
    /\ db \in {"open", "running"} /\ db' \in {db, "running"} /\ version' = version
    /\ next_file_number' \in Nat /\ next_file_number <= next_file_number'
LEMMA VersionStep ==
    ASSUME IInv, Next
    PROVE  db' \notin {"open", "running"} \/ VersionKept \/ OpenNew \/ OpenExisting \/ Install
<1> TypeInv /\ Phases /\ JobPhases
  BY Zenon DEF IInv
<1> next_file_number \in Nat
  BY Zenon DEF TypeInv, NumbersTyped
<1>1. ASSUME db' \in {db, "running"}, version' = version,
             next_file_number' = next_file_number \/ next_file_number' = next_file_number + 1
      PROVE  db \notin {"open", "running"} \/ VersionKept
  BY <1>1 DEF VersionKept
<1>2. CASE OpenFails \/ FindFiles \/ Crash
  BY Zenon, <1>2 DEF OpenFails, FindFiles, Crash
<1>3. CASE repairer.step # "none" /\ db' = db
  BY Zenon, <1>3 DEF Phases
<1>4. CASE ArchiveLog \/ ExtractMetadata \/ WriteDescriptor
  BY <1>3, <1>4, Zenon DEF ArchiveLog, ExtractMetadata, WriteDescriptor, RepairUnchanged
<1>5. ASSUME NEW l \in repairer.logs, ConvertLog(l) PROVE db' \notin {"open", "running"}
  BY Zenon, <1>5 DEF ConvertLog, RepairUnchanged, Phases
<1>6. ASSUME NEW n \in repairer.manifests, ArchiveManifest(n) PROVE db' \notin {"open", "running"}
  BY Zenon, <1>6 DEF ArchiveManifest, RepairUnchanged, Phases
<1>7. CASE OpenTable \/ OpenLog
  <2>1. db = "open" /\ next_file_number' = next_file_number + 1 /\ UNCHANGED <<db, version>>
    BY <1>7, Zenon DEF OpenTable, OpenLog
  <2> QED BY Zenon, <1>1, <2>1
<1>8. CASE Opened
  <2>1. db = "open" /\ db' = "running" /\ UNCHANGED <<next_file_number, version>>
    BY <1>8, Zenon DEF Opened
  <2> QED BY Zenon, <1>1, <2>1
<1>9. ASSUME NEW who, NEW del, NEW holds, NEW n, Starts(who, del, holds, n) PROVE VersionKept
  <2>1. n \in Nat /\ n >= next_file_number /\ next_file_number' = n + 1 /\ db = "running" /\ UNCHANGED <<db, version>>
    BY <1>9, StartsIs, Zenon
  <2> QED BY <2>1 DEF VersionKept
<1>10. CASE CreateManifest
  <2>1. next_file_number' = next_file_number + 1 /\ UNCHANGED <<db, version>>
    BY <1>10, Zenon DEF CreateManifest
  <2> QED BY Zenon, <1>1, <2>1
<1>11. CASE AppendSnapshot \/ AppendEdit \/ SyncManifest \/ SetCurrent
  <2>1. UNCHANGED <<db, version, next_file_number>>
    BY <1>11, Zenon DEF AppendSnapshot, AppendEdit, SyncManifest, SetCurrent, procVars
  <2> QED BY Zenon, <1>1, <2>1
<1>12. CASE Fail
  <2>1. /\ db' = (IF db = "running" THEN db ELSE "closed") /\ UNCHANGED version
        /\ next_file_number' \in {next_file_number, next_file_number + 1}
    BY Zenon, <1>12, FailIs
  <2> QED BY <1>1, <2>1
<1> QED BY Zenon, <1>2, <1>4, <1>5, <1>6, <1>7, <1>8, <1>9, <1>10, <1>11, <1>12, NextCases

LEMMA ExistsStep == ASSUME IInv, Next PROVE Exists'
<1> TypeInv /\ Phases /\ JobPhases /\ JobEdit /\ Numbers /\ Exists
  BY Zenon DEF IInv
<1> DEFINE D == DOMAIN tables \cup damaged
<1>1. ASSUME ~Install PROVE D \subseteq DOMAIN tables' \cup damaged'
  <2>1. CASE Quiet
    BY Zenon, <2>1 DEF Quiet
  <2>2. ASSUME NEW k, NEW x, TableWritten(k, x) PROVE D \subseteq DOMAIN tables' \cup damaged'
    BY Zenon, <2>2 DEF TableWritten, TableIs
  <2>3. ASSUME NEW bad, TableArchived(bad) PROVE D \subseteq DOMAIN tables' \cup damaged'
    BY Zenon, <2>3 DEF TableArchived, TablesDropped
  <2> QED BY Zenon, <1>1, <2>1, <2>2, <2>3, TablesStep
<1>2. ASSUME job # NoJob PROVE job.edit.add \subseteq DOMAIN tables
  BY Zenon, <1>2 DEF JobEdit, Below
<1>3. ASSUME ~Install, NEW rs \in Readings' PROVE Replay(rs) \subseteq D
  <2>1. ASSUME rs \in Readings PROVE Replay(rs) \subseteq D
    BY Zenon, <2>1 DEF Exists
  <2>2. CASE Clobbers
    <3>1. rs = <<>>
      BY Zenon, <1>3, <2>2 DEF Clobbers
    <3> QED BY Zenon, <3>1, ReplayEmpty
  <2>3. CASE Snapshots
    BY Zenon, <1>3, <2>1, <2>3 DEF Snapshots
  <2>4. CASE Writes
    <3>1. SUFFICES ASSUME NEW r \in Readings, Replay(rs) = Apply(Replay(r), job.edit), job # NoJob
                   PROVE  Replay(rs) \subseteq D
      BY Zenon, <1>3, <2>1, <2>4 DEF Writes
    <3>2. Replay(r) \subseteq D
      BY Zenon, <3>1 DEF Exists
    <3> QED BY Zenon, <1>2, <3>1, <3>2 DEF Apply
  <2>5. CASE Switches
    <3>1. Replay(rs) = Apply(version, job.edit) /\ job.step = "current"
      BY Zenon, <1>3, <2>5 DEF Switches, SetCurrent
    <3>2. job # NoJob
      BY Zenon, <3>1, JobIs
    <3>3. version \subseteq D
      BY Zenon, <3>2 DEF Exists, Phases, JobPhases
    <3> QED BY <1>2, <3>1, <3>2, <3>3 DEF Apply
  <2> QED BY Zenon, <1>3, <2>1, <2>2, <2>3, <2>4, <2>5, ReadingsStep
<1>4. CASE Install
  <2>1. /\ job # NoJob /\ job.step = "install" /\ TablesDropped(job.edit.del) /\ UNCHANGED <<current, manifests, damaged>>
        /\ version' = (IF db = "repair" THEN {} ELSE Apply(version, job.edit)) /\ db \in {"open", "running", "repair"}
    BY Zenon, <1>4, InstallIs
  <2>2. Readings' \subseteq Readings
    BY Zenon, <2>1, ReadingsSame
  <2>3. D \ job.edit.del \subseteq DOMAIN tables' \cup damaged'
    BY Zenon, <2>1 DEF TablesDropped
  <2>4. ASSUME NEW rs \in Readings' PROVE Replay(rs) \subseteq DOMAIN tables' \cup damaged'
    <3>1. Replay(rs) \subseteq D
      BY Zenon, <2>2, <2>4 DEF Exists
    <3>2. Replay(rs) \cap job.edit.del = {}
      BY Zenon, <2>1, <2>2, <2>4, ReadingsInstalled
    <3> QED BY Zenon, <2>3, <3>1, <3>2
  <2>5. version' \subseteq DOMAIN tables' \cup damaged'
    <3>1. db # "repair" => version \subseteq D
      BY ZenonT(30), <2>1 DEF Exists
    <3>2. job.edit.add \subseteq D \ job.edit.del
      BY <1>2, <2>1 DEF JobEdit
    <3> QED BY Zenon, <2>1, <2>3, <3>1, <3>2 DEF Apply
  <2> QED BY Zenon, <2>4, <2>5 DEF Exists
<1>5. ASSUME ~Install, db' \in {"open", "running"} PROVE version' \subseteq D
  <2>1. CASE VersionKept
    BY Zenon, <2>1 DEF VersionKept, Exists
  <2>2. CASE OpenNew
    BY Zenon, <2>2 DEF OpenNew
  <2>3. CASE OpenExisting
    <3>1. PICK rs \in Readings : version' = Replay(rs)
      BY Zenon, <2>3, OpenExistingIs
    <3> QED BY <3>1 DEF Exists
  <2> QED BY Zenon, <1>5, <2>1, <2>2, <2>3, VersionStep
<1> HIDE DEF D
<1> QED BY Zenon, <1>1, <1>3, <1>4, <1>5 DEF Exists

LEMMA ReadingsKept ==
    ASSUME IInv, Next, job.step \notin {"create", "snapshot", "append", "current"} PROVE Readings' \subseteq Readings
<1>1. ~Clobbers /\ ~Snapshots /\ ~Writes /\ ~Switches
  BY Zenon DEF Clobbers, CreateManifest, Snapshots, AppendSnapshot, Writes, Switches, SetCurrent
<1> QED BY Zenon, <1>1, ReadingsStep

(* The version itself, or one from some edits, is one from more edits. *)
LEMMA AmongNone == \A v, U : Among(v, U, v)
<1>1. ASSUME NEW v, NEW U PROVE Among(v, U, v)
  <2>1. {} \in SUBSET U /\ v = Applied(v, {})
    BY Zenon DEF Applied
  <2> QED BY Zenon, <2>1 DEF Among
<1> QED BY Zenon, <1>1
LEMMA AmongMore == ASSUME NEW v, NEW U, NEW W, U \subseteq W, NEW R, Among(v, U, R) PROVE Among(v, W, R)
BY Zenon DEF Among

(* One more edit of U takes effect after the others. *)
LEMMA AmongWritten ==
    ASSUME NEW v, NEW U, NEW R, Among(v, U, R), NEW e \in U, e.del \subseteq v,
           \A d \in U : d = e \/ d.add \cap v = {}
    PROVE  Among(v, U, Apply(R, e))
<1>1. PICK es \in SUBSET U : R = Applied(v, es)
  BY Zenon DEF Among
<1> DEFINE fs == es \cup {e}
<1>2. fs \in SUBSET U
  OBVIOUS
<1>3. ASSUME NEW t \in Apply(R, e) PROVE t \in Applied(v, fs)
  BY Zenon, <1>1, <1>3 DEF Apply, Applied
<1>4. ASSUME NEW t \in Applied(v, fs) PROVE t \in Apply(R, e)
  <2>1. CASE t \in v /\ \A d \in fs : t \notin d.del
    BY Zenon, <1>1, <2>1 DEF Apply, Applied
  <2>2. ASSUME NEW d \in fs, t \in d.add PROVE t \in Apply(R, e)
    <3>1. CASE d = e
      BY Zenon, <2>2, <3>1 DEF Apply
    <3>2. CASE d # e
      <4>1. d \in es /\ d \in U /\ t \notin v
        BY Zenon, <2>2, <3>2
      <4>2. t \in R /\ t \notin e.del
        BY Zenon, <1>1, <2>2, <4>1 DEF Applied
      <4> QED BY Zenon, <4>2 DEF Apply
    <3> QED BY <3>1, <3>2
  <2> QED BY Zenon, <1>4, <2>1, <2>2 DEF Applied
<1>5. Apply(R, e) = Applied(v, fs)
  BY Zenon, <1>3, <1>4
<1> QED BY Zenon, <1>2, <1>5 DEF Among

(* An edit of which all can be read back is applied: the others remain. *)
LEMMA AmongInstalled ==
    ASSUME NEW v, NEW F, NEW e, NEW R, Among(v, F \cup {e}, R), e.add \subseteq R, R \cap e.del = {},
           e.add \cap e.del = {}, \A d \in F : d.del \cap e.add = {}
    PROVE  Among(Apply(v, e), F, R)
<1>1. PICK es \in SUBSET (F \cup {e}) : R = Applied(v, es)
  BY Zenon DEF Among
<1> DEFINE fs == es \cap F
<1>2. fs \in SUBSET F /\ \A d \in es : d \in fs \/ d = e
  BY Zenon, <1>1
<1>3. ASSUME NEW t \in R PROVE t \in Applied(Apply(v, e), fs)
  <2>1. t \notin e.del
    BY Zenon, <1>3
  <2>2. CASE t \in v /\ \A d \in es : t \notin d.del
    BY Zenon, <1>2, <2>1, <2>2 DEF Apply, Applied
  <2>3. ASSUME NEW d \in es, t \in d.add PROVE t \in Applied(Apply(v, e), fs)
    <3>1. CASE d \in fs
      BY Zenon, <2>3, <3>1 DEF Applied
    <3>2. CASE d = e
      BY Zenon, <1>2, <2>3, <3>2 DEF Apply, Applied
    <3> QED BY Zenon, <1>2, <2>3, <3>1, <3>2
  <2> QED BY <1>1, <1>3, <2>2, <2>3 DEF Applied
<1>4. ASSUME NEW t \in Applied(Apply(v, e), fs) PROVE t \in R
  <2>1. ASSUME NEW d \in fs, t \in d.add PROVE t \in R
    BY Zenon, <1>1, <2>1 DEF Applied
  <2>2. CASE t \in e.add
    BY Zenon, <2>2
  <2>3. CASE t \in v /\ t \notin e.del /\ \A d \in fs : t \notin d.del
    BY <1>1, <1>2, <2>3 DEF Applied
  <2> QED BY Zenon, <1>4, <2>1, <2>2, <2>3 DEF Applied, Apply
<1>5. R = Applied(Apply(v, e), fs)
  BY Zenon, <1>3, <1>4
<1> QED BY Zenon, <1>2, <1>5 DEF Among

LEMMA AtomicStep == ASSUME IInv, Next PROVE Atomic'
<1> TypeInv /\ Phases /\ JobPhases /\ JobEdit /\ Numbers /\ FailedEdits /\ Atomic
  BY Zenon DEF IInv
<1>1. SUFFICES ASSUME ~clobbered' PROVE Atomic'
  BY Zenon DEF Atomic
<1> DEFINE Rest == {"closed", "stuck", "repair"}
<1>2. ~clobbered \/ Install
  BY Zenon, <1>1, TablesStep DEF Quiet, TableWritten, TableArchived
<1>3. ASSUME db' \in Rest, \A r, s \in Readings' : Replay(r) = Replay(s) PROVE Atomic'
  BY Zenon, <1>3 DEF Atomic
<1>4. ASSUME db' = "open", \A rs \in Readings' : Replay(rs) = version', job'.step # "install" PROVE Atomic'
  BY Zenon, <1>4 DEF Atomic
<1>5. ASSUME db' = "running", \A rs \in Readings' : Among(version', Unapplied', Replay(rs)) PROVE Atomic'
  <2>1. db' \notin Rest /\ db' # "open"
    BY Zenon, <1>5
  <2>2. \A rs \in Readings' : Among(version, Unapplied, Replay(rs))'
    BY Zenon, <1>5 DEF Among, Applied, Replay
  <2> QED BY Zenon, <1>5, <2>1, <2>2 DEF Atomic
<1>6. ASSUME db \in Rest, ~clobbered PROVE \A r, s \in Readings : Replay(r) = Replay(s)
  BY Zenon, <1>6 DEF Atomic
<1>7. ASSUME db = "open", ~clobbered, job.step # "install" PROVE \A rs \in Readings : Replay(rs) = version
  BY Zenon, <1>7 DEF Atomic
<1>8. ASSUME db = "running", ~clobbered PROVE \A rs \in Readings : Among(version, Unapplied, Replay(rs))
  BY Zenon, <1>8 DEF Atomic
<1>9. NoJob.step = "none" /\ (job = NoJob => Readings' \subseteq Readings)
  BY ReadingsKept DEF NoJob
<1>10. ASSUME db \in Rest, db' \in Rest, Readings' \subseteq Readings, ~clobbered PROVE Atomic'
  BY Zenon, <1>3, <1>6, <1>10
<1>11. CASE OpenNew
  <2>1. db' = "open" /\ current = 0 /\ UNCHANGED <<current, manifests, job>> /\ job = NoJob
    BY Zenon, <1>11 DEF OpenNew, diskVars, Phases
  <2>2. Readings' = {}
    BY <2>1 DEF Readings, TypeInv, FilesTyped
  <2> QED BY Zenon, <1>4, <1>9, <2>1, <2>2
<1>12. CASE OpenExisting
  <2>1. db = "closed" /\ db' = "open" /\ job' = job /\ job = NoJob /\ ~clobbered
    BY Zenon, <1>1, <1>12 DEF OpenExisting, Phases, repVars
  <2>2. PICK rs \in Readings : version' = Replay(rs)
    BY <1>12, OpenExistingIs
  <2> QED BY ZenonT(30), <1>4, <1>6, <1>9, <2>1, <2>2
<1>13. CASE OpenFails \/ FindFiles
  <2>1. db \in Rest \ {"repair"} /\ db' \in Rest /\ clobbered' = clobbered
    BY Zenon, <1>13 DEF OpenFails, FindFiles, repVars
  <2>2. job = NoJob
    BY <2>1 DEF Phases
  <2> QED BY Zenon, <1>1, <1>9, <1>10, <2>1, <2>2
<1>14. ASSUME repairer.step \in {"convert", "archive", "manifests"}, db' = db, clobbered' = clobbered PROVE Atomic'
  <2>1. db = "repair" /\ job = NoJob
    BY <1>14 DEF Phases
  <2> QED BY Zenon, <1>1, <1>9, <1>10, <1>14, <2>1
<1>15. CASE ArchiveLog \/ ExtractMetadata \/ WriteDescriptor
  BY <1>14, <1>15, Zenon DEF ArchiveLog, ExtractMetadata, WriteDescriptor, RepairUnchanged
<1>16. ASSUME NEW l \in repairer.logs, ConvertLog(l) PROVE Atomic'
  BY <1>14, <1>16, Zenon DEF ConvertLog, RepairUnchanged
<1>17. ASSUME NEW n \in repairer.manifests, ArchiveManifest(n) PROVE Atomic'
  BY <1>14, <1>17, Zenon DEF ArchiveManifest, RepairUnchanged
<1>18. ASSUME db = "open", db' = "open", job = NoJob, version' = version, job'.step \in {"create", "append"},
              clobbered' = clobbered
       PROVE  Atomic'
  BY Zenon, <1>1, <1>4, <1>7, <1>9, <1>18
<1>19. CASE OpenTable
  <2>1. db = "open" /\ job = NoJob /\ UNCHANGED <<db, version, clobbered>> /\ job'.step \in {"create", "append"}
    BY Zenon, <1>19, OpenTableIs DEF JobBegins
  <2> QED BY Zenon, <1>18, <2>1
<1>20. CASE OpenLog
  <2>1. db = "open" /\ job = NoJob /\ UNCHANGED <<db, version, clobbered>> /\ job'.step \in {"create", "append"}
    BY Zenon, <1>20, OpenLogIs DEF JobBegins
  <2> QED BY Zenon, <1>18, <2>1
<1>21. CASE Opened
  <2>1. db = "open" /\ job = NoJob /\ db' = "running" /\ version' = version /\ ~clobbered
    BY <1>1, <1>21 DEF Opened, repVars
  <2> QED BY Zenon, <1>5, <1>7, <1>9, <2>1, AmongNone
<1>22. ASSUME NEW who, NEW del, NEW holds, NEW n, Starts(who, del, holds, n) PROVE Atomic'
  <2>1. db = "running" /\ job = NoJob /\ UNCHANGED <<db, version, failed, clobbered>>
    BY <1>22, StartsIs, Zenon
  <2>2. Unapplied \subseteq Unapplied'
    BY Zenon, <2>1 DEF Unapplied
  <2>3. ASSUME NEW rs \in Readings' PROVE Among(version, Unapplied', Replay(rs))
    BY Zenon, <1>1, <1>8, <1>9, <2>1, <2>2, <2>3, AmongMore
  <2> QED BY Zenon, <1>5, <2>1, <2>3
(* Steps of log_and_apply before the version is swapped in. *)
<1>23. ASSUME job # NoJob, job.step # "install", Readings' \subseteq Readings, ~clobbered, UNCHANGED <<db, version, failed>>,
              db = "open" => job'.step # "install",
              db = "running" => job' # NoJob /\ job'.edit = job.edit
       PROVE  Atomic'
  <2>1. db \in {"open", "running", "repair"}
    BY Zenon, <1>23 DEF JobPhases
  <2>2. CASE db = "running"
    <3>1. Unapplied' = Unapplied
      BY <1>23, <2>2 DEF Unapplied
    <3> QED BY Zenon, <1>5, <1>8, <1>23, <2>2, <3>1
  <2>3. CASE db = "open"
    BY Zenon, <1>4, <1>7, <1>23, <2>3
  <2>4. CASE db = "repair"
    BY <1>10, <1>23, <2>4
  <2> QED BY Zenon, <2>1, <2>2, <2>3, <2>4
<1>24. CASE CreateManifest
  <2>1. /\ job # NoJob /\ job.step = "create" /\ job' # NoJob /\ job'.step = "snapshot" /\ job'.edit = job.edit
        /\ UNCHANGED <<db, version, failed>>
    BY Zenon, <1>24, CreateManifestIs DEF JobMoves
  <2>2. Readings' \subseteq Readings
    <3>1. ~Clobbers /\ ~Snapshots /\ ~Writes /\ ~Switches
      BY Zenon, <1>1, <2>1 DEF Clobbers, Snapshots, AppendSnapshot, Writes, Switches, SetCurrent
    <3> QED BY Zenon, <3>1, ReadingsStep
  <2>3. ~Install
    BY <2>1 DEF Install
  <2> QED BY Zenon, <1>2, <1>23, <2>1, <2>2, <2>3
<1>25. CASE AppendSnapshot
  <2>1. /\ job # NoJob /\ job.step = "snapshot" /\ job' # NoJob /\ job'.step = "append" /\ job'.edit = job.edit
        /\ UNCHANGED <<db, version, failed>> /\ ~clobbered
    BY SMTT(30), <1>1, <1>25, AppendSnapshotIs DEF JobMoves
  <2>2. Readings' \subseteq Readings
    <3>1. ~Clobbers /\ ~Snapshots /\ ~Writes /\ ~Switches
      BY Zenon, <2>1 DEF Clobbers, CreateManifest, Snapshots, Writes, Switches, SetCurrent
    <3> QED BY <3>1, ReadingsStep
  <2> QED BY Zenon, <1>23, <2>1, <2>2
(* The edit reaches the MANIFEST that CURRENT names. *)
<1>26. ASSUME job # NoJob, job.step = "append", ~clobbered, Writes
       PROVE  /\ db \in {"open", "running"}
              /\ db = "open" => \A rs \in Readings' : Replay(rs) = version
              /\ db = "running" => \A rs \in Readings' : Among(version, Unapplied, Replay(rs))
  <2>1. /\ manifest_log = current
        /\ \A rs \in Readings' : rs \in Readings \/ \E r \in Readings : Replay(rs) = Apply(Replay(r), job.edit)
    BY Zenon, <1>26 DEF Writes
  <2>2. ~job.fresh /\ db \in {"open", "running"}
    BY Zenon, <1>26, <2>1 DEF JobPhases
  <2>3. ASSUME db = "open" PROVE \A rs \in Readings' : Replay(rs) = version
    <3>1. job.edit.add = {} /\ job.edit.del = {}
      BY Zenon, <1>26, <2>2, <2>3 DEF JobEdit
    <3>2. Apply(version, job.edit) = version
      BY Zenon, <3>1 DEF Apply
    <3>3. \A rs \in Readings : Replay(rs) = version
      BY <1>7, <1>26, <2>3
    <3> QED BY Zenon, <2>1, <3>2, <3>3
  <2>4. ASSUME db = "running", NEW rs \in Readings' PROVE Among(version, Unapplied, Replay(rs))
    <3>1. CASE rs \in Readings
      BY Zenon, <1>8, <1>26, <2>4, <3>1
    <3>2. ASSUME NEW r \in Readings, Replay(rs) = Apply(Replay(r), job.edit)
          PROVE  Among(version, Unapplied, Replay(rs))
      <4>1. Among(version, Unapplied, Replay(r))
        BY Zenon, <1>8, <1>26, <2>4, <3>2
      <4>2. job.edit \in Unapplied /\ job.edit.del \subseteq version
        BY Zenon, <1>26 DEF Unapplied, JobEdit
      <4>3. \A d \in Unapplied : d = job.edit \/ d.add \cap version = {}
        BY Zenon, <2>4 DEF Unapplied, FailedEdits
      <4> QED BY SMTT(30), <3>2, <4>1, <4>2, <4>3, AmongWritten
    <3> QED BY Zenon, <2>1, <2>4, <3>1, <3>2
  <2> QED BY Zenon, <2>2, <2>3, <2>4
<1>27. CASE AppendEdit
  <2>1. /\ job # NoJob /\ job.step = "append" /\ job' # NoJob /\ job'.step = "sync" /\ job'.edit = job.edit
        /\ UNCHANGED <<db, version, failed>> /\ ~clobbered
    BY <1>1, <1>27, AppendEditIs DEF JobMoves
  <2>2. CASE Readings' \subseteq Readings
    BY Zenon, <1>23, <2>1, <2>2
  <2>3. CASE Writes
    <3>1. Unapplied' = Unapplied
      BY <2>1 DEF Unapplied
    <3> QED BY Zenon, <1>4, <1>5, <1>26, <2>1, <2>3, <3>1
  <2>4. ~Clobbers /\ ~Snapshots /\ ~Switches
    BY <2>1 DEF Clobbers, CreateManifest, Snapshots, AppendSnapshot, Switches, SetCurrent
  <2> QED BY Zenon, <2>2, <2>3, <2>4, ReadingsStep
<1>28. CASE SyncManifest
  <2>1. /\ job # NoJob /\ job.step = "sync" /\ job' # NoJob /\ job'.step = (IF job.fresh THEN "current" ELSE "install")
        /\ job'.edit = job.edit /\ UNCHANGED <<db, version, failed>> /\ ~clobbered
    BY <1>1, <1>28, SyncManifestIs DEF JobMoves
  <2>2. Readings' \subseteq Readings
    BY Zenon, <2>1, ReadingsKept
  <2>3. CASE db # "open" \/ job.fresh
    BY Zenon, <1>23, <2>1, <2>2, <2>3
  <2>4. CASE db = "open" /\ ~job.fresh
    <3>1. job.edit.add = {} /\ job.edit.del = {}
      BY Zenon, <2>1, <2>4 DEF JobEdit
    <3>2. Apply(version', job'.edit) = version
      BY Zenon, <2>1, <3>1 DEF Apply
    <3>3. \A rs \in Readings' : Replay(rs) = version
      BY <1>7, <2>1, <2>2, <2>4
    <3> QED BY Zenon, <2>1, <2>4, <3>2, <3>3 DEF Atomic
  <2> QED BY Zenon, <2>3, <2>4
<1>29. CASE SetCurrent
  <2>1. /\ job # NoJob /\ job.step = "current" /\ job.fresh /\ job' # NoJob /\ job'.step = "install"
        /\ job'.edit = job.edit /\ UNCHANGED <<db, version>>
    BY Zenon, <1>1, <1>29, SetCurrentIs DEF JobMoves
  <2>2. db \in {"open", "repair"}
    BY Zenon, <2>1 DEF JobPhases
  <2>3. \A rs \in Readings' : Replay(rs) = Apply(version, job.edit)
    BY Zenon, <1>29, SwitchesIs DEF Switches
  <2>4. CASE db = "repair"
    BY ZenonT(30), <1>3, <2>1, <2>3, <2>4
  <2>5. CASE db = "open"
    BY Zenon, <2>1, <2>3, <2>5 DEF Atomic, Apply
  <2> QED BY Zenon, <2>2, <2>4, <2>5
<1>30. CASE Install
  <2>1. /\ job.step = "install" /\ job # NoJob /\ job' = NoJob /\ db \in {"open", "running", "repair"}
        /\ version' = (IF db = "repair" THEN {} ELSE Apply(version, job.edit))
        /\ db' = (IF db = "repair" THEN "closed" ELSE db)
        /\ clobbered' = (clobbered /\ db # "repair") /\ UNCHANGED failed
    BY Zenon, <1>30, InstallIs
  <2>2. Readings' \subseteq Readings
    BY Zenon, <2>1, ReadingsKept
  <2>3. \A rs \in Readings : rs = Written /\ job.edit.add \subseteq Replay(rs) /\ Replay(rs) \cap job.edit.del = {}
    BY Zenon, <2>1, ReadingsInstalled
  <2>4. CASE db = "repair"
    BY Zenon, <1>3, <2>1, <2>2, <2>3, <2>4
  <2>5. CASE db = "open"
    <3>1. \A rs \in Readings : Replay(rs) = Apply(version, job.edit)
      BY Zenon, <1>1, <2>1, <2>5 DEF Atomic
    <3> QED BY Zenon, <1>4, <1>9, <2>1, <2>2, <2>5, <3>1
  <2>6. CASE db = "running"
    <3>1. Unapplied = failed \cup {job.edit} /\ Unapplied' = failed
      BY Zenon, <2>1 DEF Unapplied
    <3>2. job.edit.del \cap job.edit.add = {} /\ \A d \in failed : d.del \cap job.edit.add = {}
      BY Zenon, <2>1, <2>6 DEF JobEdit
    <3>3. ASSUME NEW rs \in Readings' PROVE Among(Apply(version, job.edit), failed, Replay(rs))
      <4>1. Among(version, failed \cup {job.edit}, Replay(rs))
        BY Zenon, <1>1, <1>8, <2>1, <2>2, <2>6, <3>1, <3>3
      <4> QED BY Zenon, <2>2, <2>3, <3>2, <3>3, <4>1, AmongInstalled
    <3> QED BY <1>5, <2>1, <2>6, <3>1, <3>3
  <2> QED BY Zenon, <2>1, <2>4, <2>5, <2>6
<1>31. CASE Fail
  <2>1. /\ job # NoJob /\ job.step # "install" /\ db \in {"open", "running", "repair"}
        /\ db' = (IF db = "running" THEN db ELSE "closed") /\ failed' = failed \cup {job.edit} /\ job' = NoJob
        /\ UNCHANGED version /\ ~clobbered
    BY <1>1, <1>31, FailIs
  <2>2. Unapplied' = Unapplied
    BY Zenon, <2>1 DEF Unapplied
  <2>3. CASE Readings' \subseteq Readings
    <3>1. CASE db = "running"
      BY Zenon, <1>5, <1>8, <2>1, <2>2, <2>3, <3>1
    <3>2. CASE db = "open"
      BY Zenon, <1>3, <1>7, <2>1, <2>3, <3>2
    <3>3. CASE db = "repair"
      BY Zenon, <1>10, <2>1, <2>3, <3>3
    <3> QED BY Zenon, <2>1, <3>1, <3>2, <3>3
  <2>4. CASE Writes
    <3>1. job.step = "append"
      BY <2>4 DEF Writes
    <3> QED BY Zenon, <1>3, <1>5, <1>26, <2>1, <2>2, <2>4, <3>1
  <2>5. ~Clobbers /\ ~Snapshots /\ ~Switches
    <3>1. ~CreateManifest /\ ~AppendSnapshot /\ ~SetCurrent
      <4>1. job' = NoJob
        BY Zenon, <2>1
      <4>2. CreateManifest => job' # NoJob
        BY Zenon, CreateManifestIs DEF JobMoves
      <4>3. AppendSnapshot => job' # NoJob
        BY Zenon, AppendSnapshotIs DEF JobMoves
      <4>4. SetCurrent => job' # NoJob
        BY Zenon, SetCurrentIs DEF JobMoves
      <4> QED BY Zenon, <4>1, <4>2, <4>3, <4>4
    <3> QED BY Zenon, <3>1 DEF Clobbers, Snapshots, Switches
  <2> QED BY Zenon, <2>3, <2>4, <2>5, ReadingsStep
<1>32. CASE Crash
  <2>1. /\ DOMAIN manifests' = DOMAIN manifests /\ current' = current /\ db' = "closed"
        /\ \A n \in DOMAIN manifests : manifests'[n] \in Left(manifests[n])
    BY Zenon, <1>32, CrashIs
  <2>2. CASE current \in DOMAIN manifests
    <3>1. Readings' = Recoverable(manifests'[current])
      BY <2>1, <2>2 DEF Readings, Recoverable, Left, Remains, Readable
    <3>2. manifests[current] \in ManifestFile /\ manifests[current].synced <= Len(manifests[current].records)
      BY Zenon, <2>2 DEF TypeInv, FilesTyped
    <3>3. \A r, s \in Readings' : r = s
      BY Zenon, <2>1, <2>2, <3>1, <3>2, RecoverableLeft
    <3> QED BY Zenon, <1>3, <2>1, <3>3
  <2>3. CASE current \notin DOMAIN manifests
    <3>1. Readings' = {}
      BY <2>1, <2>3 DEF Readings
    <3> QED BY Zenon, <1>3, <2>1, <3>1
  <2> QED BY Zenon, <2>2, <2>3
<1> QED BY Zenon, <1>11, <1>12, <1>13, <1>15, <1>16, <1>17, <1>19, <1>20, <1>21, <1>22, <1>24, <1>25, <1>27,
           <1>28, <1>29,
           <1>30, <1>31, <1>32, NextCases
-----------------------------------------------------------------------------
LEMMA ReadingTyped ==
    ASSUME TypeInv, NEW rs \in Readings
    PROVE  /\ current \in DOMAIN manifests /\ rs \in Seq(Edits) /\ (rs # <<>> => rs[Len(rs)].next \in Nat)
           /\ Len(rs) <= Len(manifests[current].records)
           /\ \A i \in 1 .. Len(rs) : rs[i] \in Edits /\ rs[i] = manifests[current].records[i]
<1>1. current \in DOMAIN manifests /\ rs \in Recoverable(manifests[current])
  BY Zenon DEF Readings
<1>2. manifests[current] \in ManifestFile /\ manifests[current].synced <= Len(manifests[current].records)
  BY Zenon, <1>1 DEF TypeInv, FilesTyped
<1>3. /\ rs \in Seq(Edits) /\ Len(rs) \in manifests[current].synced .. Len(manifests[current].records)
      /\ \A i \in 1 .. Len(rs) : rs[i] \in Edits /\ rs[i] = manifests[current].records[i]
  BY Zenon, <1>1, <1>2, RecoverableIs
<1>4. rs # <<>> => rs[Len(rs)] \in Edits
  BY <1>3
<1>5. rs # <<>> => rs[Len(rs)].next \in Nat
  BY Zenon, <1>4 DEF Edits
<1>6. manifests[current].synced \in Nat /\ Len(manifests[current].records) \in Nat
  BY <1>2 DEF ManifestFile
<1> QED BY <1>1, <1>3, <1>5, <1>6

(* A recovery never needs a table whose number is still to be given out. *)
LEMMA ReadingBelow ==
    ASSUME IInv, db \in {"open", "running"}, NEW rs \in Readings PROVE \A t \in Replay(rs) : t < next_file_number
<1>1. TypeInv /\ CurrentBounded
  BY Zenon DEF IInv, Numbers
<1>2. /\ current \in DOMAIN manifests /\ Len(rs) <= Len(manifests[current].records) /\ rs \in Seq(Edits)
      /\ \A i \in 1 .. Len(rs) : rs[i] \in Edits /\ rs[i] = manifests[current].records[i]
  BY Zenon, <1>1, ReadingTyped
<1>3. Len(manifests[current].records) \in Nat
  BY <1>1, <1>2 DEF TypeInv, FilesTyped, ManifestFile
<1>4. AddsBelow(manifests[current].records, next_file_number)
  BY Zenon, <1>1, <1>2 DEF CurrentBounded
<1>5. ASSUME NEW i \in 1 .. Len(rs) PROVE \A t \in rs[i].add : t < next_file_number
  <2>1. i \in 1 .. Len(manifests[current].records)
    BY SMTT(30), <1>2, <1>3
  <2>2. rs[i] # Torn /\ rs[i] = manifests[current].records[i]
    BY <1>2, EditNotTorn
  <2> QED BY Zenon, <1>4, <2>1, <2>2 DEF AddsBelow
<1> QED BY Zenon, <1>5 DEF Replay

(* What the tables in S hold, after a table is written, archived or the    *)
(* inputs of a compaction are deleted.                                     *)
LEMMA HoldsWithin == ASSUME NEW tb, NEW S, NEW T, S \cap DOMAIN tb \subseteq T PROVE HoldsIn(tb, S) \subseteq HoldsIn(tb, T)
BY Zenon DEF HoldsIn
LEMMA HoldsWritten ==
    ASSUME NEW k, NEW x, TableIs(k, x), NEW S, k \notin S \/ k \notin DOMAIN tables
    PROVE  HoldsIn(tables, S) \subseteq HoldsIn(tables', S)
<1>1. \A t \in S : t \in DOMAIN tables => t \in DOMAIN tables' /\ tables'[t] = tables[t]
  BY DEF TableIs
<1> QED BY Zenon, <1>1, HoldsSame
LEMMA HoldsArchived ==
    ASSUME NEW bad, TablesDropped({bad}), NEW S PROVE HoldsIn(tables, S) \ tables[bad] \subseteq HoldsIn(tables', S)
BY Zenon DEF TablesDropped, HoldsIn
LEMMA HoldsDropped ==
    ASSUME NEW add, NEW del, TablesDropped(del), NEW S, add \subseteq S, add \cap del = {},
           HoldsIn(tables, del) \subseteq HoldsIn(tables, add)
    PROVE  HoldsIn(tables, S) \subseteq HoldsIn(tables', S)
<1>1. HoldsIn(tables, S) \subseteq HoldsIn(tables, S \ del) \cup HoldsIn(tables, del)
  BY Zenon DEF HoldsIn
<1>2. \A t \in S \ del : t \in DOMAIN tables => t \in DOMAIN tables' /\ tables'[t] = tables[t]
  BY Zenon DEF TablesDropped
<1>3. HoldsIn(tables, S \ del) \subseteq HoldsIn(tables', S \ del)
  BY Zenon, <1>2, HoldsSame
<1>4. HoldsIn(tables', S \ del) \subseteq HoldsIn(tables', S) /\ HoldsIn(tables, add) \subseteq HoldsIn(tables, S \ del)
  <2>1. S \ del \subseteq S /\ add \subseteq S \ del
    OBVIOUS
  <2> QED BY <2>1, HoldsMono
<1> QED BY Zenon, <1>1, <1>3, <1>4
LEMMA HoldsApplied ==
    ASSUME NEW tb, NEW v, NEW e, HoldsIn(tb, e.del) \subseteq HoldsIn(tb, e.add)
    PROVE  HoldsIn(tb, v) \subseteq HoldsIn(tb, Apply(v, e))
<1>1. HoldsIn(tb, v) \subseteq HoldsIn(tb, v \ e.del) \cup HoldsIn(tb, e.del)
  BY Zenon DEF HoldsIn
<1>2. v \ e.del \subseteq Apply(v, e) /\ e.add \subseteq Apply(v, e)
  BY Zenon DEF Apply
<1>3. HoldsIn(tb, v \ e.del) \subseteq HoldsIn(tb, Apply(v, e)) /\ HoldsIn(tb, e.add) \subseteq HoldsIn(tb, Apply(v, e))
  BY <1>2, HoldsMono
<1> QED BY Zenon, <1>1, <1>3

(* What was kept in the tables S stays there, but for an unreadable table. *)
LEMMA KeptStays ==
    ASSUME IInv, Next, ~Install, NEW S, kept \subseteq HoldsIn(tables, S),
           db \in {"open", "running"} => \A t \in S : t < next_file_number
    PROVE  kept' \subseteq HoldsIn(tables', S)
<1>1. CASE Quiet
  BY Zenon, <1>1 DEF Quiet
<1>2. ASSUME NEW k, NEW x, TableWritten(k, x) PROVE kept' \subseteq HoldsIn(tables', S)
  <2>1. TableIs(k, x) /\ kept' = kept
    BY Zenon, <1>2 DEF TableWritten
  <2>2. next_file_number \in Nat
    BY Zenon DEF IInv, TypeInv, NumbersTyped
  <2>3. k \notin S \/ k \notin DOMAIN tables
    BY SMTT(30), <1>2, <2>2 DEF TableWritten
  <2> QED BY Zenon, <2>1, <2>3, HoldsWritten
<1>3. ASSUME NEW bad, TableArchived(bad) PROVE kept' \subseteq HoldsIn(tables', S)
  <2>1. TablesDropped({bad}) /\ kept' = kept \ tables[bad]
    BY Zenon, <1>3 DEF TableArchived
  <2>2. HoldsIn(tables, S) \ tables[bad] \subseteq HoldsIn(tables', S)
    BY <2>1, HoldsArchived
  <2> QED BY Zenon, <2>1, <2>2
<1> QED BY Zenon, <1>1, <1>2, <1>3, TablesStep

LEMMA KeptBelow ==
    ASSUME IInv, Next, ~Install, NEW n \in Nat, kept \subseteq HoldsIn(tables, Below(tables, n))
    PROVE  kept' \subseteq HoldsIn(tables', Below(tables', n))
<1> next_file_number \in Nat /\ DOMAIN tables \subseteq Nat
  BY ManifestAssumption DEF IInv, TypeInv, NumbersTyped
<1>1. ASSUME NEW S, S \subseteq Below(tables, n), kept \subseteq HoldsIn(tables, S),
             db \in {"open", "running"} => \A t \in S : t < next_file_number
      PROVE  kept' \subseteq HoldsIn(tables', Below(tables', n))
  <2>1. kept' \subseteq HoldsIn(tables', S)
    BY Zenon, <1>1, KeptStays
  <2>2. S \cap DOMAIN tables' \subseteq Below(tables', n)
    BY Zenon, <1>1 DEF Below
  <2> QED BY Zenon, <2>1, <2>2, HoldsWithin
<1>2. CASE db \notin {"open", "running"} \/ n <= next_file_number
  <2>1. db \in {"open", "running"} => \A t \in Below(tables, n) : t < next_file_number
    BY <1>2 DEF Below
  <2> QED BY Zenon, <1>1, <2>1
<1>3. CASE db \in {"open", "running"} /\ next_file_number < n
  <2>1. kept \subseteq HoldsIn(tables, Below(tables, next_file_number))
    BY Zenon, <1>3 DEF IInv, Content
  <2>2. Below(tables, next_file_number) \subseteq Below(tables, n)
    BY <1>3 DEF Below
  <2>3. \A t \in Below(tables, next_file_number) : t < next_file_number
    BY Zenon DEF Below
  <2> QED BY Zenon, <1>1, <2>1, <2>2, <2>3
<1> QED BY <1>2, <1>3

LEMMA ContentOtherStep == ASSUME IInv, Next, ~Install PROVE Content'
<1> TypeInv /\ Phases /\ JobPhases /\ JobEdit /\ Counters /\ Numbers /\ Content
  BY Zenon DEF IInv, Numbers
<1> next_file_number \in Nat /\ DOMAIN tables \subseteq Nat
  BY Zenon, NumbersAre
<1>1. kept' \subseteq kept
  BY Zenon, TablesStep DEF Quiet, TableWritten, TableArchived
<1>2. current' = 0 => kept' = {}
  <2>1. current = 0 => kept = {}
    BY Zenon DEF Content
  <2>2. current' = current \/ SetCurrent
    <3>1. CASE OpenNew \/ OpenExisting \/ OpenFails \/ OpenTable \/ OpenLog \/ Opened
      BY <3>1, Zenon DEF OpenNew, OpenExisting, OpenFails, OpenTable, OpenLog, Opened, diskVars
    <3>2. CASE FindFiles \/ ArchiveLog \/ ExtractMetadata \/ WriteDescriptor
      BY <3>2, Zenon DEF FindFiles, ArchiveLog, ExtractMetadata, WriteDescriptor, RepairUnchanged, diskVars
    <3>3. ASSUME NEW l \in repairer.logs, ConvertLog(l) PROVE current' = current
      BY <3>3, Zenon DEF ConvertLog, RepairUnchanged
    <3>4. ASSUME NEW n \in repairer.manifests, ArchiveManifest(n) PROVE current' = current
      BY <3>4, Zenon DEF ArchiveManifest, RepairUnchanged
    <3>5. CASE CreateManifest \/ AppendSnapshot \/ AppendEdit \/ SyncManifest \/ Fail \/ Crash
      BY <3>5, Zenon DEF CreateManifest, AppendSnapshot, AppendEdit, SyncManifest, Fail, Crash
    <3>6. ASSUME NEW who, NEW del, NEW holds, NEW n, Starts(who, del, holds, n) PROVE current' = current
      BY <3>6, Zenon DEF Starts, Change
    <3> QED BY Zenon, <3>1, <3>2, <3>3, <3>4, <3>5, <3>6, NextCases
  <2>3. SetCurrent => current' # 0
    BY Zenon, SetCurrentIs
  <2> QED BY Zenon, <1>1, <2>1, <2>2, <2>3
<1>3. kept' \subseteq HoldsIn(tables', DOMAIN tables')
  <2>1. ASSUME NEW S, kept' \subseteq HoldsIn(tables', S) PROVE kept' \subseteq HoldsIn(tables', DOMAIN tables')
    BY Zenon, <2>1, HoldsWithin
  <2>2. CASE db \in {"open", "running"}
    <3>1. kept \subseteq HoldsIn(tables, Below(tables, next_file_number))
      BY Zenon, <2>2 DEF Content
    <3>2. kept' \subseteq HoldsIn(tables', Below(tables', next_file_number))
      BY Zenon, <3>1, KeptBelow
    <3> QED BY Zenon, <2>1, <3>2
  <2>3. CASE db \notin {"open", "running"}
    <3>1. kept \subseteq HoldsIn(tables, DOMAIN tables)
      BY Zenon DEF Content
    <3>2. kept' \subseteq HoldsIn(tables', DOMAIN tables)
      BY Zenon, <2>3, <3>1, KeptStays
    <3> QED BY Zenon, <2>1, <3>2
  <2> QED BY Zenon, <2>2, <2>3
<1>4. ASSUME OpenNew \/ OpenExisting PROVE tables' = tables /\ kept' = kept
  BY Zenon, <1>4 DEF OpenNew, OpenExisting, diskVars, repVars
<1>5. OpenNew => kept' = {}
  <2>1. OpenNew => current = 0 /\ kept' = kept
    BY Zenon DEF OpenNew, repVars
  <2> QED BY Zenon, <2>1 DEF Content
<1>6. ASSUME db' \in {"open", "running"} PROVE kept' \subseteq HoldsIn(tables', Below(tables', next_file_number'))
  <2>1. CASE VersionKept
    <3>1. kept \subseteq HoldsIn(tables, Below(tables, next_file_number))
      BY Zenon, <2>1 DEF Content, VersionKept
    <3>2. kept' \subseteq HoldsIn(tables', Below(tables', next_file_number))
      BY Zenon, <3>1, KeptBelow
    <3>3. DOMAIN tables' \subseteq Nat
      BY TypeStep, ManifestAssumption DEF TypeInv, NumbersTyped
    <3>4. Below(tables', next_file_number) \subseteq Below(tables', next_file_number')
      BY <2>1, <3>3 DEF VersionKept, Below
    <3>5. HoldsIn(tables', Below(tables', next_file_number)) \subseteq HoldsIn(tables', Below(tables', next_file_number'))
      BY <3>4, HoldsMono
    <3> QED BY Zenon, <3>2, <3>5
  <2>2. CASE OpenNew
    BY Zenon, <1>5, <2>2
  <2>3. CASE OpenExisting
    <3>1. PICK rs \in Readings : Len(rs) \in Nat \ {0} /\ next_file_number' = rs[Len(rs)].next
      BY Zenon, <2>3, OpenExistingIs
    <3>2. rs # <<>>
      BY <3>1
    <3>3. kept \subseteq HoldsIn(tables, Below(tables, next_file_number'))
      BY Zenon, <3>1, <3>2 DEF Content
    <3>4. tables' = tables /\ kept' = kept
      BY Zenon, <1>4, <2>3
    <3> QED BY Zenon, <3>3, <3>4
  <2> QED BY Zenon, <1>6, <2>1, <2>2, <2>3, VersionStep
<1>7. ASSUME NEW rs \in Readings', rs # <<>> PROVE kept' \subseteq HoldsIn(tables', Below(tables', rs[Len(rs)].next))
  <2>1. CASE rs \in Readings
    <3>1. rs[Len(rs)].next \in Nat
      BY ZenonT(30), <1>7, <2>1, ReadingTyped
    <3>2. kept \subseteq HoldsIn(tables, Below(tables, rs[Len(rs)].next))
      BY Zenon, <1>7, <2>1 DEF Content
    <3> QED BY Zenon, <3>1, <3>2, KeptBelow
  <2>2. CASE Clobbers
    BY ZenonT(30), <1>7, <2>2 DEF Clobbers
  <2>3. CASE Snapshots /\ rs \notin Readings
    <3>1. db = "repair" /\ rs[Len(rs)].next = next_file_number
      BY Zenon, <1>7, <2>3 DEF Snapshots
    <3>2. \A t \in DOMAIN tables : t < next_file_number
      BY Zenon, <3>1 DEF Counters
    <3>3. Below(tables, next_file_number) = DOMAIN tables
      BY Zenon, <3>2 DEF Below
    <3>4. kept \subseteq HoldsIn(tables, Below(tables, next_file_number))
      BY Zenon, <3>3 DEF Content
    <3> QED BY Zenon, <3>1, <3>4, KeptBelow
  <2>4. ASSUME job # NoJob, EditRead(rs, job.edit)
        PROVE  kept' \subseteq HoldsIn(tables', Below(tables', rs[Len(rs)].next))
    <3>1. job.edit.next \in Nat /\ rs[Len(rs)].next = job.edit.next
      BY Zenon, <2>4, JobIs DEF Edits, EditRead
    <3>2. kept \subseteq HoldsIn(tables, Below(tables, job.edit.next))
      BY Zenon, <2>4 DEF JobEdit
    <3> QED BY Zenon, <3>1, <3>2, KeptBelow
  <2>5. CASE Writes /\ rs \notin Readings
    BY Zenon, <1>7, <2>4, <2>5 DEF Writes
  <2>6. CASE Switches
    <3>1. job.step = "current" /\ EditRead(rs, job.edit)
      BY Zenon, <1>7, <2>6 DEF Switches, SetCurrent
    <3>2. job # NoJob
      BY Zenon, <3>1, JobIs
    <3> QED BY <2>4, <3>1, <3>2
  <2> QED BY ZenonT(30), <1>7, <2>1, <2>2, <2>3, <2>5, <2>6, ReadingsStep
<1>8. clobbered => clobbered'
  BY Zenon, TablesStep DEF Quiet, TableWritten, TableArchived
<1>9. ASSUME ~clobbered, db \in {"open", "running"} PROVE kept \subseteq HoldsIn(tables, version)
  BY Zenon, <1>9 DEF Content
<1>10. ASSUME ~clobbered', NEW rs \in Readings' PROVE kept' \subseteq HoldsIn(tables', Replay(rs))
  <2>1. CASE rs \in Readings
    <3>1. kept \subseteq HoldsIn(tables, Replay(rs))
      BY Zenon, <1>8, <1>10, <2>1 DEF Content
    <3>2. db \in {"open", "running"} => \A t \in Replay(rs) : t < next_file_number
      BY Zenon, <2>1, ReadingBelow
    <3> QED BY ZenonT(30), <3>1, <3>2, KeptStays
  <2>2. ~Clobbers /\ ~Snapshots
    BY ZenonT(30), <1>8, <1>10 DEF Clobbers, Snapshots
  <2>3. ASSUME job # NoJob PROVE HoldsIn(tables, job.edit.del) \subseteq HoldsIn(tables, job.edit.add)
    BY Zenon, <2>3 DEF JobEdit
  <2>4. CASE Writes /\ rs \notin Readings
    <3>1. job # NoJob /\ (AppendEdit \/ Fail)
      BY Zenon, <2>4 DEF Writes
    <3>2. PICK r \in Readings : Replay(rs) = Apply(Replay(r), job.edit)
      BY Zenon, <1>10, <2>4 DEF Writes
    <3>3. kept \subseteq HoldsIn(tables, Replay(r))
      BY Zenon, <1>8, <1>10 DEF Content
    <3>4. HoldsIn(tables, Replay(r)) \subseteq HoldsIn(tables, Replay(rs))
      BY Zenon, <2>3, <3>1, <3>2, HoldsApplied
    <3>5. UNCHANGED <<tables, kept>>
      BY <3>1, Zenon DEF AppendEdit, Fail, repVars
    <3> QED BY Zenon, <3>3, <3>4, <3>5
  <2>5. CASE Switches
    <3>1. Replay(rs) = Apply(version, job.edit) /\ SetCurrent
      BY Zenon, <1>10, <2>5 DEF Switches
    <3>2. job.step = "current" /\ UNCHANGED <<tables, kept>>
      BY <3>1, Zenon DEF SetCurrent, repVars
    <3>3. job # NoJob
      BY Zenon, <3>2, JobIs
    <3>4. db \in {"open", "running", "repair"}
      BY Zenon, <3>3 DEF JobPhases
    <3>5. CASE db \in {"open", "running"}
      <4>1. kept \subseteq HoldsIn(tables, version)
        BY Zenon, <1>8, <1>9, <1>10, <3>5
      <4>2. HoldsIn(tables, version) \subseteq HoldsIn(tables, Replay(rs))
        BY Zenon, <2>3, <3>1, <3>3, HoldsApplied
      <4> QED BY Zenon, <3>2, <4>1, <4>2
    <3>6. CASE db = "repair"
      <4>1. job.edit.add = DOMAIN tables
        BY Zenon, <3>3, <3>6 DEF JobEdit
      <4>2. DOMAIN tables \subseteq Replay(rs)
        BY Zenon, <3>1, <4>1 DEF Apply
      <4>3. HoldsIn(tables, DOMAIN tables) \subseteq HoldsIn(tables, Replay(rs))
        BY <4>2, HoldsMono
      <4> QED BY Zenon, <3>2, <4>3 DEF Content
    <3> QED BY Zenon, <3>4, <3>5, <3>6
  <2> QED BY Zenon, <1>10, <2>1, <2>2, <2>4, <2>5, ReadingsStep
<1>11. ASSUME ~clobbered', db' \in {"open", "running"} PROVE kept' \subseteq HoldsIn(tables', version')
  <2>1. CASE VersionKept
    <3>1. db \in {"open", "running"} /\ version' = version
      BY Zenon, <2>1 DEF VersionKept
    <3>2. kept \subseteq HoldsIn(tables, version) /\ \A t \in version : t < next_file_number
      BY Zenon, <1>8, <1>9, <1>11, <3>1 DEF Counters
    <3>3. kept' \subseteq HoldsIn(tables', version)
      BY Zenon, <3>2, KeptStays
    <3> QED BY Zenon, <3>1, <3>3
  <2>2. CASE OpenNew
    BY Zenon, <1>5, <2>2
  <2>3. CASE OpenExisting
    <3>1. PICK rs \in Readings : version' = Replay(rs)
      BY Zenon, <2>3, OpenExistingIs
    <3>2. kept \subseteq HoldsIn(tables, version')
      BY Zenon, <1>8, <1>11, <3>1 DEF Content
    <3>3. tables' = tables /\ kept' = kept
      BY <1>4, <2>3
    <3> QED BY Zenon, <3>2, <3>3
  <2> QED BY ZenonT(30), <1>11, <2>1, <2>2, <2>3, VersionStep
<1> QED BY ZenonT(30), <1>2, <1>3, <1>6, <1>7, <1>10, <1>11 DEF Content, Below, HoldsIn, Replay

LEMMA ContentInstallStep == ASSUME IInv, Next, Install PROVE Content'
<1> TypeInv /\ JobPhases /\ JobEdit /\ Counters /\ FailedEdits /\ Atomic /\ Content
  BY Zenon DEF IInv, Numbers
<1> DEFINE e == job.edit
           v == Apply(version, e)
<1>1. /\ job.step = "install" /\ job # NoJob /\ job' = NoJob /\ e \in Edits /\ db \in {"open", "running", "repair"}
      /\ version' = (IF db = "repair" THEN {} ELSE v) /\ db' = (IF db = "repair" THEN "closed" ELSE db)
      /\ kept' = kept \cup Holds(v) /\ clobbered' = (clobbered /\ db # "repair") /\ TablesDropped(e.del)
      /\ UNCHANGED <<current, manifests, next_file_number, failed>>
  BY Zenon, InstallIs
<1>2. /\ e.add \subseteq Below(tables, e.next) /\ e.next <= next_file_number /\ e.add \cap e.del = {}
      /\ HoldsIn(tables, e.del) \subseteq HoldsIn(tables, e.add) /\ (\A t \in version : t < e.next)
      /\ kept \subseteq HoldsIn(tables, Below(tables, e.next))
      /\ db = "repair" => e.add = DOMAIN tables
  BY Zenon, <1>1 DEF JobEdit
<1>3. Holds(v) = HoldsIn(tables, v)
  BY Zenon, HoldsIs
<1>4. e.next \in Nat /\ next_file_number \in Nat /\ DOMAIN tables \subseteq Nat /\ version \subseteq Nat
  <2>1. e.next \in Nat
    BY Zenon, <1>1 DEF Edits
  <2> QED BY Zenon, <2>1, NumbersAre
<1> HIDE DEF v, e
<1>5. ASSUME NEW S, e.add \subseteq S PROVE HoldsIn(tables, S) \subseteq HoldsIn(tables', S)
  BY Zenon, <1>1, <1>2, <1>5, HoldsDropped
<1>6. HoldsIn(tables, v) \subseteq HoldsIn(tables, Below(tables, e.next))
  <2>1. v \cap DOMAIN tables \subseteq Below(tables, e.next)
    BY Zenon, <1>2 DEF v, Apply, Below
  <2> QED BY Zenon, <2>1, HoldsWithin
<1>7. kept' \subseteq HoldsIn(tables', Below(tables', e.next))
  <2>1. kept' \subseteq HoldsIn(tables, Below(tables, e.next))
    BY Zenon, <1>1, <1>2, <1>3, <1>6
  <2>2. HoldsIn(tables, Below(tables, e.next)) \subseteq HoldsIn(tables', Below(tables, e.next))
    BY Zenon, <1>2, <1>5
  <2>3. Below(tables, e.next) \cap DOMAIN tables' \subseteq Below(tables', e.next)
    BY Zenon DEF Below
  <2>4. HoldsIn(tables', Below(tables, e.next)) \subseteq HoldsIn(tables', Below(tables', e.next))
    BY <2>3, HoldsWithin
  <2> QED BY Zenon, <2>1, <2>2, <2>4
<1>8. current' # 0
  <2>1. manifest_log = current /\ manifest_log # 0
    BY <1>1 DEF JobPhases
  <2> QED BY Zenon, <1>1, <2>1
<1>9. kept' \subseteq HoldsIn(tables', DOMAIN tables')
  <2>1. Below(tables', e.next) \subseteq DOMAIN tables'
    BY DEF Below
  <2> QED BY Zenon, <1>7, <2>1, HoldsMono
<1>10. kept' \subseteq HoldsIn(tables', Below(tables', next_file_number'))
  <2>1. DOMAIN tables' \subseteq Nat
    BY Zenon, <1>1, <1>4 DEF TablesDropped
  <2>2. Below(tables', e.next) \subseteq Below(tables', next_file_number')
    BY SMTT(30), <1>1, <1>2, <1>4, <2>1 DEF Below
  <2> QED BY Zenon, <1>7, <2>2, HoldsMono
<1>11. Readings' \subseteq Readings
  BY Zenon, <1>1, ReadingsKept
<1>12. \A rs \in Readings : EditRead(rs, e) /\ e.add \subseteq Replay(rs)
  BY Zenon, <1>1, ReadingsInstalled DEF e
<1>13. ASSUME NEW rs \in Readings' PROVE kept' \subseteq HoldsIn(tables', Below(tables', rs[Len(rs)].next))
  <2>1. rs[Len(rs)] = e
    BY Zenon, <1>11, <1>12, <1>13 DEF EditRead
  <2> QED BY Zenon, <1>7, <2>1
<1>14. ASSUME ~clobbered, db \in {"open", "running"}
       PROVE  kept' \subseteq HoldsIn(tables, v) /\ kept' \subseteq HoldsIn(tables', v)
  <2>1. kept \subseteq HoldsIn(tables, version)
    BY Zenon, <1>14 DEF Content
  <2>2. HoldsIn(tables, version) \subseteq HoldsIn(tables, v)
    BY Zenon, <1>2, HoldsApplied DEF v
  <2>3. e.add \subseteq v
    BY Zenon DEF v, Apply
  <2>4. HoldsIn(tables, v) \subseteq HoldsIn(tables', v)
    BY Zenon, <1>5, <2>3
  <2> QED BY Zenon, <1>1, <1>3, <2>1, <2>2, <2>4
<1>15. ASSUME ~clobbered', NEW rs \in Readings' PROVE kept' \subseteq HoldsIn(tables', Replay(rs))
  <2>1. rs \in Readings /\ e.add \subseteq Replay(rs)
    BY Zenon, <1>11, <1>12, <1>15
  <2>2. HoldsIn(tables, Replay(rs)) \subseteq HoldsIn(tables', Replay(rs))
    BY Zenon, <1>5, <2>1
  <2>3. CASE db = "repair"
    <3>1. DOMAIN tables \subseteq Replay(rs)
      BY Zenon, <1>2, <2>1, <2>3
    <3>2. HoldsIn(tables, Below(tables, e.next)) \subseteq HoldsIn(tables, Replay(rs))
      <4>1. Below(tables, e.next) \subseteq Replay(rs)
        BY Zenon, <3>1 DEF Below
      <4> QED BY Zenon, <4>1, HoldsMono
    <3>3. kept' \subseteq HoldsIn(tables, Below(tables, e.next))
      BY Zenon, <1>1, <1>2, <1>3, <1>6
    <3> QED BY Zenon, <2>2, <3>2, <3>3
  <2>4. CASE db = "open"
    <3>1. Replay(rs) = v
      BY <1>1, <1>15, <2>1, <2>4, Zenon DEF Atomic, v, e
    <3> QED BY Zenon, <1>1, <1>14, <1>15, <2>4, <3>1
  <2>5. CASE db = "running"
    <3>1. Atomic'
      BY Zenon, AtomicStep
    <3>2. Unapplied' = failed /\ db' = "running" /\ version' = v
      BY Zenon, <1>1, <2>5 DEF Unapplied
    <3>3. Among(v, failed, Replay(rs))
      <4>1. \A r \in Readings' : Among(version', Unapplied', Replay(r))
        <5>1. \A r \in Readings' : Among(version, Unapplied, Replay(r))'
          BY <1>15, <3>1, <3>2 DEF Atomic
        <5> QED BY Zenon, <5>1 DEF Among, Applied, Replay
      <4> QED BY Zenon, <1>15, <3>2, <4>1
    <3>4. PICK es \in SUBSET failed : Replay(rs) = Applied(v, es)
      BY Zenon, <3>3 DEF Among
    <3>5. HoldsIn(tables, v) \subseteq HoldsIn(tables, Replay(rs))
      <4>1. SUFFICES ASSUME NEW t \in v \cap DOMAIN tables PROVE tables[t] \subseteq HoldsIn(tables, Replay(rs))
        BY Zenon DEF HoldsIn
      <4>2. CASE t \in Replay(rs)
        BY Zenon, <4>1, <4>2 DEF HoldsIn
      <4>3. CASE t \notin Replay(rs)
        <5>1. PICK d \in es : t \in d.del
          BY Zenon, <3>4, <4>1, <4>3 DEF Applied
        <5>2. HoldsIn(tables, d.del) \subseteq HoldsIn(tables, d.add)
          BY Zenon, <2>5, <5>1 DEF FailedEdits
        <5>3. d.add \subseteq Replay(rs)
          BY Zenon, <3>4 DEF Applied
        <5>4. HoldsIn(tables, d.add) \subseteq HoldsIn(tables, Replay(rs))
          BY Zenon, <5>3, HoldsMono
        <5>5. tables[t] \subseteq HoldsIn(tables, d.del)
          BY <4>1, <5>1 DEF HoldsIn
        <5> QED BY Zenon, <5>2, <5>4, <5>5
      <4> QED BY Zenon, <4>2, <4>3
    <3> QED BY Zenon, <1>1, <1>14, <1>15, <2>2, <2>5, <3>5
  <2> QED BY Zenon, <1>1, <2>3, <2>4, <2>5
<1>16. ASSUME ~clobbered', db' \in {"open", "running"} PROVE kept' \subseteq HoldsIn(tables', version')
  <2>1. ~clobbered /\ db \in {"open", "running"} /\ version' = v
    BY Zenon, <1>1, <1>16
  <2> QED BY Zenon, <1>14, <2>1
<1> QED BY ZenonT(30), <1>8, <1>9, <1>10, <1>13, <1>15, <1>16 DEF Content, Below, HoldsIn, Replay

LEMMA ContentStep == ASSUME IInv, Next PROVE Content'
BY Zenon, ContentOtherStep, ContentInstallStep
-----------------------------------------------------------------------------
LEMMA InitIInv == ASSUME Init PROVE IInv
<1>1. /\ current = 0 /\ manifests = <<>> /\ tables = <<>> /\ logs = {} /\ db = "closed" /\ todo = <<>> /\ job = NoJob
      /\ version = {} /\ next_file_number = 2 /\ log_file_number = 0 /\ manifest_log = 0 /\ failed = {}
      /\ repairer = NoRepairer /\ kept = {} /\ damaged = {} /\ clobbered = FALSE
  BY Zenon DEF Init
<1>2. DOMAIN manifests = {} /\ DOMAIN tables = {}
  BY <1>1
<1>3. MaxFile \in Nat
  BY Zenon, ManifestAssumption
<1>4. Readings = {}
  BY Zenon, <1>1, <1>2 DEF Readings
<1>5. TypeInv
  <2>1. FilesTyped
    BY Zenon, <1>2 DEF FilesTyped
  <2>2. NumbersTyped
    BY SMTT(30), <1>1, <1>2, <1>3 DEF NumbersTyped
  <2>3. ProcTyped
    BY Zenon, <1>1, NoRepairerIs DEF ProcTyped, Todos
  <2> QED BY Zenon, <2>1, <2>2, <2>3 DEF TypeInv
<1>6. Phases
  BY Zenon, <1>1, NoRepairerIs DEF Phases
<1>7. JobPhases /\ JobEdit /\ JobLog
  BY Zenon, <1>1 DEF JobPhases, JobEdit, JobLog
<1>8. Numbers
  BY Zenon, <1>1, <1>2 DEF Numbers, FilesBounded, CurrentBounded, Counters
<1>9. FailedEdits /\ Exists /\ Atomic
  BY Zenon, <1>1, <1>4 DEF FailedEdits, Exists, Atomic
<1>10. Content
  BY Zenon, <1>1, <1>4 DEF Content
<1> QED BY Zenon, <1>5, <1>6, <1>7, <1>8, <1>9, <1>10 DEF IInv

LEMMA StepIInv == ASSUME IInv, [Next]_vars PROVE IInv'
<1>1. CASE Next
  <2>1. TypeInv' /\ Phases' /\ JobPhases' /\ JobEdit' /\ JobLog'
    BY Zenon, <1>1, TypeStep, PhasesStep, JobPhasesStep, JobEditStep, JobLogStep
  <2>2. Numbers' /\ FailedEdits'
    BY Zenon, <1>1, FilesBoundedStep, CurrentBoundedStep, CountersStep, FailedEditsStep DEF Numbers
  <2>3. Exists' /\ Atomic' /\ Content'
    BY Zenon, <1>1, ExistsStep, AtomicStep, ContentStep
  <2> QED BY Zenon, <2>1, <2>2, <2>3 DEF IInv
<1>2. CASE UNCHANGED vars
  <2>1. UNCHANGED <<current, manifests, tables, logs, db, todo, version, next_file_number, log_file_number, manifest_log,
                    job, failed, repairer, kept, damaged, clobbered>>
    BY Zenon, <1>2 DEF vars, diskVars, procVars, repVars
  <2>2. TypeInv' /\ Phases' /\ JobPhases'
    BY Zenon, <2>1 DEF IInv, TypeInv, FilesTyped, NumbersTyped, ProcTyped, Phases, JobPhases
  <2>3. JobEdit' /\ JobLog'
    BY Zenon, <2>1 DEF IInv, JobEdit, JobLog, Written, AddsBelow
  <2>4. Numbers' /\ FailedEdits'
    BY Zenon, <2>1 DEF IInv, Numbers, FilesBounded, CurrentBounded, Counters, FailedEdits, AddsBelow,
       RecordsBounded
  <2>5. Readings' \subseteq Readings /\ Unapplied' = Unapplied
    BY Zenon, <2>1, ReadingsSame DEF Unapplied
  <2>6. Exists' /\ Atomic' /\ Content'
    BY Zenon, <2>1, <2>5 DEF IInv, Exists, Atomic, Content
  <2> QED BY Zenon, <2>2, <2>3, <2>4, <2>6 DEF IInv
<1> QED BY Zenon, <1>1, <1>2

(* The invariant that ties the phases of log_and_apply, recover and        *)
(* repair_db to what is on disk holds at every step, crashes included.     *)
THEOREM ManifestInvariant == Spec => []IInv
BY InitIInv, StepIInv, PTL DEF Spec

LEMMA OutcomesAre == ASSUME NEW rs \in Outcomes, Readable(rs) PROVE rs \in Readings
BY Zenon DEF Outcomes, Readings, Recoverable

(* log_and_apply is atomic: in an open database, whatever a crash may      *)
(* leave of the MANIFEST replays to the version in memory with some of the *)
(* unfinished and failed edits applied, each as a whole.                   *)
THEOREM AppliedAtomicallyAlways == Spec => []AppliedAtomically
<1>1. ASSUME IInv PROVE AppliedAtomically
  <2>1. SUFFICES ASSUME db \in {"open", "running"}, ~clobbered, NEW rs \in Outcomes, Readable(rs)
                 PROVE  Among(version, Unapplied, Replay(rs))
    BY Zenon DEF AppliedAtomically, Among, Applied
  <2>2. rs \in Readings /\ Atomic /\ TypeInv
    BY Zenon, <1>1, <2>1, OutcomesAre DEF IInv
  <2>3. CASE db = "running"
    BY Zenon, <2>1, <2>2, <2>3 DEF Atomic
  <2>4. CASE db = "open"
    <3>1. Replay(rs) = version \/ (job # NoJob /\ Replay(rs) = Apply(version, job.edit))
      BY Zenon, <2>1, <2>2, <2>4, JobIs DEF Atomic
    <3>2. CASE Replay(rs) = version
      BY Zenon, <3>2, AmongNone
    <3>3. CASE job # NoJob /\ Replay(rs) = Apply(version, job.edit)
      <4>1. {job.edit} \in SUBSET Unapplied /\ Apply(version, job.edit) = Applied(version, {job.edit})
        BY Zenon, <3>3 DEF Unapplied, Apply, Applied
      <4> QED BY Zenon, <3>3, <4>1 DEF Among
    <3> QED BY Zenon, <3>1, <3>2, <3>3
  <2> QED BY ZenonT(30), <2>1, <2>3, <2>4
<1> QED BY <1>1, ManifestInvariant, PTL

(* Every table that a recovery may come to rely on is on disk, unless      *)
(* repair_db moved it away because it could not be read.                   *)
THEOREM LiveTablesExistAlways == Spec => []LiveTablesExist
<1>1. ASSUME IInv PROVE LiveTablesExist
  BY ZenonT(30), <1>1, OutcomesAre DEF IInv, Exists, LiveTablesExist
<1> QED BY <1>1, ManifestInvariant, PTL

(* The counter of an open database is beyond every table that a recovery   *)
(* may need, and a new MANIFEST does not take the name of the live one.    *)
THEOREM NumbersFreshAlways == Spec => []NumbersFresh
<1>1. ASSUME IInv PROVE NumbersFresh
  <2>1. SUFFICES ASSUME db \in {"open", "running"}, current # 0
                 PROVE  /\ \A rs \in Outcomes : Readable(rs) => \A t \in Replay(rs) : t < next_file_number
                        /\ job.step = "create" => next_file_number # current
    BY Zenon DEF NumbersFresh
  <2>2. ASSUME NEW rs \in Outcomes, Readable(rs) PROVE \A t \in Replay(rs) : t < next_file_number
    BY Zenon, <1>1, <2>1, <2>2, OutcomesAre, ReadingBelow
  <2>3. ASSUME job.step = "create" PROVE next_file_number # current
    <3>1. TypeInv /\ JobPhases /\ Counters
      BY Zenon, <1>1 DEF IInv, Numbers
    <3>2. job # NoJob
      BY Zenon, <2>3, <3>1, JobIs
    <3>3. db = "open" /\ manifest_log = 0
      BY Zenon, <2>1, <2>3, <3>1, <3>2 DEF JobPhases
    <3>4. current < next_file_number /\ next_file_number \in Nat
      BY ZenonT(30), <3>1, <3>2, <3>3 DEF Counters, TypeInv, NumbersTyped
    <3> QED BY <3>4
  <2> QED BY Zenon, <2>2, <2>3
<1> QED BY <1>1, ManifestInvariant, PTL

(* What an installed version held is never lost: through compactions,      *)
(* failed edits, crashes and repairs, the tables of an open database hold  *)
(* it, unless a repair could not read a table or was cut short after it    *)
(* began to overwrite the live MANIFEST.                                   *)
THEOREM NothingLostAlways == Spec => []NothingLost
<1>1. ASSUME IInv PROVE NothingLost
  BY Zenon, <1>1, HoldsIs DEF IInv, Content, NothingLost
<1> QED BY <1>1, ManifestInvariant, PTL
=============================================================================
