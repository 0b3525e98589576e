-------------------------- MODULE BackgroundProofs --------------------------
(***************************************************************************)
(* Proofs about Background, for any number of callers, iterators, tables,  *)
(* compactions and I/O errors.                                             *)
(*                                                                         *)
(* Reserved says whom the two flags stand for: from it follows that one    *)
(* actor works on the version at a time.  A compaction's inputs are then   *)
(* nobody else's to replace, and what an actor wrote and has not installed *)
(* is in no version (Apart).  Pinned relates the count of iterators, which *)
(* is all that the retirement of files looks at, to the iterators.         *)
(***************************************************************************)
EXTENDS Background, FiniteSetTheorems, TLAPS

BgStages == {"check", "park", "look", "flush", "pick", "compact", "exited"}

TypeInv ==
    /\ bg \in BgStages /\ call \in [Clients -> Stages]
    /\ inputs \in [Actors -> SUBSET Nat] /\ outputs \in [Actors -> SUBSET Nat]
    /\ version \subseteq Nat /\ disk \subseteq Nat /\ obsolete \subseteq Nat
    /\ next \in Nat \ {0}
    /\ pinned \in [Iterators -> SUBSET Nat]
    /\ active_iterators \in Nat /\ faults \in Nat

\* The callers for which manual_compaction_running is set.
Manual == {"compact", "clear", "failed"}

Reserved ==
    /\ bg_work_running <=> bg \in {"look", "flush", "pick", "compact"}
    /\ manual_compaction_running <=> \E c \in Clients : call[c] \in Manual
    /\ \A c, d \in Clients : call[c] \in Manual /\ call[d] \in Manual => c = d
    /\ ~(bg_work_running /\ manual_compaction_running)

\* The actor has inputs or outputs.
Compacting(a) == IF a = "bg" THEN bg \in {"flush", "compact"} ELSE call[a] = "compact"

Idle == \A a \in Actors : ~Compacting(a) => inputs[a] = {} /\ outputs[a] = {}

Apart ==
    /\ version \subseteq disk /\ version \cap obsolete = {}
    /\ \A t \in disk \cup obsolete : 0 < t /\ t < next
    /\ \A a \in Actors :
          /\ inputs[a] \subseteq version
          /\ outputs[a] \subseteq disk
          /\ outputs[a] \cap version = {} /\ outputs[a] \cap obsolete = {}

Users == {i \in Iterators : pinned[i] # NoVersion}
Pinned ==
    /\ active_iterators = Cardinality(Users)
    /\ \A i \in Users : pinned[i] \subseteq disk

\* Every table file is somebody's, unless an error left it behind.
Owned ==
    /\ active_iterators = 0 => obsolete = {}
    /\ faults = 0 => \A t \in disk : \/ t \in version \/ t \in obsolete
                                     \/ \E a \in Actors : t \in outputs[a]
    /\ obsolete \subseteq disk

Files == Idle /\ Apart /\ Pinned /\ Owned
Inv == TypeInv /\ Reserved /\ Files

-----------------------------------------------------------------------------

\* The number of iterators is the count of a finite set.
LEMMA UsersFinite == IsFiniteSet(Users) /\ IsFiniteSet(Iterators)
<1>1. Users \in SUBSET Iterators
  BY DEF Users
<1> QED
  BY <1>1, BackgroundAssumption, FS_Subset DEF BackgroundAssumption

LEMMA NoUsers == ASSUME Pinned, active_iterators = 0 PROVE Users = {}
  BY Zenon, UsersFinite, FS_EmptySet DEF Pinned

LEMMA InitInv == Init => Inv
<1> SUFFICES ASSUME Init PROVE Inv
  OBVIOUS
<1>1. TypeInv
  <2>1. call \in [Clients -> Stages] /\ pinned \in [Iterators -> SUBSET Nat]
    BY DEF Init, Stages, NoVersion
  <2>2. inputs \in [Actors -> SUBSET Nat] /\ outputs \in [Actors -> SUBSET Nat]
    BY DEF Init
  <2> QED
    BY <2>1, <2>2 DEF Init, TypeInv, BgStages
<1>2. Reserved
  BY DEF Init, Reserved, Manual
<1>3. Idle /\ Apart
  BY DEF Init, Idle, Apart, Actors
<1>4. Users = {}
  BY DEF Init, Users
<1>5. Pinned
  BY <1>4, FS_EmptySet DEF Init, Pinned
<1>6. Owned
  BY DEF Init, Owned
<1> QED
  BY <1>1, <1>2, <1>3, <1>5, <1>6 DEF Inv, Files

-----------------------------------------------------------------------------
\* Steps that change neither tables nor iterators, and end no work on them.

fileVars == <<inputs, outputs, version, disk, next, obsolete, pinned, active_iterators, faults>>
KeepWorking == \A a \in Actors : Compacting(a) => Compacting(a)'

LEMMA StillKeeps ==
    ASSUME Files, UNCHANGED fileVars, KeepWorking
    PROVE  Files'
<1>1. Idle'
  BY DEF Files, Idle, KeepWorking, fileVars
<1>2. Apart' /\ Owned'
  BY DEF Files, Apart, Owned, fileVars
<1>3. Pinned'
  BY Zenon DEF Files, Pinned, Users, NoVersion, fileVars
<1> QED
  BY <1>1, <1>2, <1>3 DEF Files

QuietBg ==
    \/ BgExits \/ BgParks \/ BgUnparks \/ BgRefuses \/ BgStarts \/ BgSkipsFlush \/ BgEnds
QuietCall(c) ==
    \/ MaybeCompact(c) \/ CompactRange(c) \/ MaybeCompactWaits(c) \/ RotateWaits(c) \/ ForceFlush(c)
    \/ FlushWaits(c) \/ RangeWaits(c) \/ RangeDone(c) \/ RangeClears(c)
Elsewhere == RotateMem \/ ReadSchedulesSeek \/ DropDb

LEMMA QuietBgKeeps ==
    ASSUME Files, QuietBg
    PROVE  Files'
<1>1. UNCHANGED fileVars /\ UNCHANGED call
  BY DEF QuietBg, BgExits, BgParks, BgUnparks, BgRefuses, BgStarts, BgSkipsFlush, BgEnds, fileVars,
         work, tree, iters
<1>2. bg \notin {"flush", "compact"}
  BY DEF QuietBg, BgExits, BgParks, BgUnparks, BgRefuses, BgStarts, BgSkipsFlush, BgEnds
<1>3. KeepWorking
  BY <1>1, <1>2 DEF KeepWorking, Compacting
<1> QED
  BY <1>1, <1>3, StillKeeps

LEMMA ElsewhereKeeps ==
    ASSUME Files, Elsewhere
    PROVE  Files' /\ UNCHANGED <<bg, call, bg_work_running, manual_compaction_running>>
<1>1. UNCHANGED fileVars /\ UNCHANGED <<bg, call, bg_work_running, manual_compaction_running>>
  BY DEF Elsewhere, RotateMem, ReadSchedulesSeek, DropDb, Schedule, fileVars, flags, work, tree, iters
<1>2. KeepWorking
  BY <1>1 DEF KeepWorking, Compacting
<1> QED
  BY <1>1, <1>2, StillKeeps

\* A caller that is not compacting goes from one stage to another.
LEMMA QuietCallKeeps ==
    ASSUME TypeInv, Files, NEW c \in Clients, QuietCall(c)
    PROVE  /\ Files' /\ UNCHANGED <<bg, bg_work_running>>
           /\ call[c] # "compact"
           /\ \E s \in Stages \ {"compact"} : call' = [call EXCEPT ![c] = s]
<1>0. call = [call EXCEPT ![c] = call[c]] /\ call[c] \in Stages
  BY DEF TypeInv
<1>1. UNCHANGED fileVars /\ UNCHANGED <<bg, bg_work_running>>
  BY Zenon
     DEF QuietCall, MaybeCompact, CompactRange, MaybeCompactWaits, RotateWaits, ForceFlush, FlushWaits,
         RangeWaits, RangeDone, RangeClears, ClientOnly, Schedule, fileVars, flags, work, tree, iters
<1>2. call[c] # "compact"
  BY Zenon
     DEF QuietCall, MaybeCompact, CompactRange, MaybeCompactWaits, RotateWaits, ForceFlush, FlushWaits,
         RangeWaits, RangeDone, RangeClears, Awake
<1>3. \E s \in Stages \ {"compact"} : call' = [call EXCEPT ![c] = s]
  BY <1>0, <1>2
     DEF QuietCall, MaybeCompact, CompactRange, MaybeCompactWaits, RotateWaits, ForceFlush,
         FlushWaits, RangeWaits, RangeDone, RangeClears, Await, Proceeds, Goes, Stages
<1>4. KeepWorking
  BY <1>1, <1>2, <1>3 DEF KeepWorking, Compacting, TypeInv, Actors
<1> QED
  BY Zenon, <1>1, <1>2, <1>3, <1>4, StillKeeps

-----------------------------------------------------------------------------
\* Iterators.

LEMMA NewIteratorKeeps ==
    ASSUME TypeInv, Files, NEW i \in Iterators, NewIterator(i)
    PROVE  TypeInv' /\ Files'
<1> USE DEF NewIterator, flags, life, work, tree
<1>1. /\ pinned' = [pinned EXCEPT ![i] = version] /\ active_iterators' = active_iterators + 1
      /\ UNCHANGED <<bg, call, inputs, outputs, version, disk, next, obsolete, faults>>
  OBVIOUS
<1>2. TypeInv'
  BY <1>1 DEF TypeInv
<1>3. Idle' /\ Apart' /\ Owned'
  BY <1>1 DEF TypeInv, Files, Idle, Compacting, Apart, Owned
<1>4. version # NoVersion
  BY DEF Files, Apart, NoVersion
<1>5. Users' = Users \cup {i} /\ i \notin Users
  BY <1>1, <1>4 DEF TypeInv, Users, NoVersion
<1>6. Cardinality(Users') = Cardinality(Users) + 1
  BY Zenon, <1>5, UsersFinite, FS_AddElement
<1>7. \A j \in Users' : pinned'[j] \subseteq disk'
  <2>1. \A j \in Users \cup {i} : pinned'[j] = IF j = i THEN version ELSE pinned[j]
    BY <1>1 DEF TypeInv, Users
  <2>2. version \subseteq disk /\ \A j \in Users : pinned[j] \subseteq disk
    BY DEF Files, Pinned, Apart
  <2> QED
    BY <1>1, <1>5, <2>1, <2>2
<1>8. Pinned'
  BY <1>1, <1>6, <1>7 DEF Files, Pinned
<1> QED
  BY <1>2, <1>3, <1>8 DEF Files

LEMMA ReleaseIteratorKeeps ==
    ASSUME TypeInv, Files, NEW i \in Iterators, ReleaseIterator(i)
    PROVE  TypeInv' /\ Files'
<1>1. /\ pinned' = [pinned EXCEPT ![i] = NoVersion] /\ active_iterators' = active_iterators - 1
      /\ UNCHANGED <<bg, call, inputs, outputs, version, next, faults>>
  BY SMTT(30), Z3T(30) DEF ReleaseIterator, flags, life, work
<1>2. Users' = Users \ {i} /\ i \in Users
  BY <1>1 DEF ReleaseIterator, TypeInv, Users, NoVersion
<1>3. Cardinality(Users') = Cardinality(Users) - 1 /\ Cardinality(Users) # 0
  BY ZenonT(30), SMTT(30), <1>2, UsersFinite, FS_RemoveElement, FS_EmptySet
<1>4. active_iterators' = Cardinality(Users') /\ active_iterators' \in Nat
  BY <1>1, <1>3 DEF TypeInv, Files, Pinned
<1>5. CASE active_iterators = 1
  <2>1. disk' = disk \ obsolete /\ obsolete' = {}
    BY <1>5 DEF ReleaseIterator
  <2>2. TypeInv'
    BY <1>1, <1>4, <2>1 DEF TypeInv, NoVersion
  <2>3. Users' = {}
    BY SMTT(30), Z3T(30), <1>1, <1>2, <1>4, <1>5, UsersFinite, FS_EmptySet, FS_RemoveElement
  <2>4. Pinned'
    BY <1>4, <2>3 DEF Pinned
  <2>5. Idle' /\ Apart' /\ Owned'
    BY <1>1, <1>4, <2>1 DEF Files, Idle, Compacting, Apart, Owned
  <2> QED
    BY <2>2, <2>4, <2>5 DEF Files
<1>6. CASE active_iterators # 1
  <2>1. UNCHANGED <<disk, obsolete>>
    BY <1>6 DEF ReleaseIterator
  <2>2. TypeInv'
    BY <1>1, <1>4, <2>1 DEF TypeInv, NoVersion
  <2>3. Pinned'
    BY <1>1, <1>2, <1>4, <2>1 DEF TypeInv, Files, Pinned
  <2>4. Idle' /\ Apart' /\ Owned'
    BY <1>1, <1>4, <1>6, <2>1 DEF TypeInv, Files, Idle, Compacting, Apart, Owned
  <2> QED
    BY <2>2, <2>3, <2>4 DEF Files
<1> QED
  BY <1>5, <1>6

-----------------------------------------------------------------------------
\* What a flush or a compaction of an actor does to the tables.

tableTypes ==
    /\ inputs \in [Actors -> SUBSET Nat] /\ outputs \in [Actors -> SUBSET Nat]
    /\ version \subseteq Nat /\ disk \subseteq Nat /\ obsolete \subseteq Nat
    /\ next \in Nat \ {0}

LEMMA OpenOutputKeeps ==
    ASSUME TypeInv, Files, NEW a \in Actors, OpenOutput(a), UNCHANGED <<iters, faults>>,
           KeepWorking, Compacting(a)'
    PROVE  tableTypes' /\ Files'
<1>1. /\ outputs' = [outputs EXCEPT ![a] = outputs[a] \cup {next}]
      /\ disk' = disk \cup {next} /\ next' = next + 1
      /\ UNCHANGED <<inputs, version, obsolete, pinned, active_iterators, faults>>
  BY DEF OpenOutput, iters
<1>2. tableTypes'
  BY <1>1 DEF TypeInv, tableTypes
<1>3. \A b \in Actors : outputs'[b] = IF b = a THEN outputs[a] \cup {next} ELSE outputs[b]
  BY <1>1 DEF TypeInv
<1>4. Idle'
  BY <1>1, <1>3 DEF Files, Idle, KeepWorking
<1>5. next \notin disk \cup obsolete
  BY DEF TypeInv, Files, Apart
<1>6. Apart'
  <2>1. version' \subseteq disk' /\ version' \cap obsolete' = {}
    BY <1>1 DEF Files, Apart
  <2>2. \A t \in disk' \cup obsolete' : 0 < t /\ t < next'
    BY <1>1 DEF TypeInv, Files, Apart
  <2>3. ASSUME NEW b \in Actors
        PROVE  /\ inputs'[b] \subseteq version' /\ outputs'[b] \subseteq disk'
               /\ outputs'[b] \cap version' = {} /\ outputs'[b] \cap obsolete' = {}
    BY SMTT(30), Z3T(30), <1>1, <1>3, <1>5 DEF Files, Apart
  <2> QED
    BY <2>1, <2>2, <2>3 DEF Apart
<1>7. Pinned'
  <2>1. Users' = Users
    BY <1>1 DEF Users, NoVersion
  <2> QED
    BY <1>1, <2>1 DEF Files, Pinned
<1>8. Owned'
  BY <1>1, <1>3 DEF Files, Owned
<1> QED
  BY <1>2, <1>4, <1>6, <1>7, <1>8 DEF Files

\* Inputs are chosen from the version by an actor that had none.
LEMMA PickKeeps ==
    ASSUME TypeInv, Files, NEW a \in Actors, NEW ts \in Inputs, Pick(a, ts),
           UNCHANGED <<tree, iters, faults>>, KeepWorking, Compacting(a)'
    PROVE  tableTypes' /\ Files'
<1>1. /\ inputs' = [inputs EXCEPT ![a] = ts]
      /\ UNCHANGED <<outputs, version, disk, next, obsolete, pinned, active_iterators, faults>>
  BY DEF Pick, tree, iters
<1>2. ts \subseteq version
  BY DEF Inputs
<1>3. \A b \in Actors : inputs'[b] = IF b = a THEN ts ELSE inputs[b]
  BY <1>1 DEF TypeInv
<1>4. tableTypes'
  BY <1>1, <1>2 DEF TypeInv, tableTypes
<1>5. Idle'
  BY SMTT(30), Z3T(30), <1>1, <1>3 DEF Files, Idle, KeepWorking
<1>6. Apart' /\ Owned'
  BY <1>1, <1>2, <1>3 DEF Files, Apart, Owned
<1>7. Pinned'
  BY <1>1, Zenon DEF Files, Pinned, Users, NoVersion
<1> QED
  BY <1>4, <1>5, <1>6, <1>7 DEF Files

\* An error: the actor's outputs are nobody's from now on.
LEMMA AbandonKeeps ==
    ASSUME TypeInv, Files, NEW a \in Actors, Abandon(a), UNCHANGED iters,
           \A b \in Actors \ {a} : Compacting(b) => Compacting(b)'
    PROVE  tableTypes' /\ faults' \in Nat /\ Files'
<1>1. /\ inputs' = [inputs EXCEPT ![a] = {}] /\ outputs' = [outputs EXCEPT ![a] = {}]
      /\ UNCHANGED <<version, disk, next, obsolete, pinned, active_iterators>> /\ faults' = faults + 1
  BY DEF Abandon, Forget, tree, iters
<1>2. \A b \in Actors : /\ inputs'[b] = IF b = a THEN {} ELSE inputs[b]
                        /\ outputs'[b] = IF b = a THEN {} ELSE outputs[b]
  BY <1>1 DEF TypeInv
<1>3. tableTypes' /\ faults' \in Nat /\ faults' # 0
  BY SMTT(30), Z3T(30), <1>1 DEF TypeInv, tableTypes
<1>4. Idle'
  BY SMTT(30), Z3T(30), <1>2 DEF Files, Idle
<1>5. Apart' /\ Owned'
  BY <1>1, <1>2, <1>3 DEF Files, Apart, Owned
<1>6. Pinned'
  BY <1>1, Zenon DEF Files, Pinned, Users, NoVersion
<1> QED
  BY <1>3, <1>4, <1>5, <1>6 DEF Files

\* What an actor forgets when its work is done.
LEMMA ForgetClears ==
    ASSUME TypeInv, NEW a \in Actors, Forget(a)
    PROVE  /\ inputs' \in [Actors -> SUBSET Nat] /\ outputs' \in [Actors -> SUBSET Nat]
           /\ \A b \in Actors : /\ inputs'[b] = IF b = a THEN {} ELSE inputs[b]
                                /\ outputs'[b] = IF b = a THEN {} ELSE outputs[b]
  BY DEF TypeInv, Forget

\* The new version lists what the only working actor wrote, instead of what
\* it read (nothing, for a flush); what it read may go unless iterators exist.
LEMMA ReplaceKeeps ==
    ASSUME TypeInv, Files, NEW a \in Actors, Forget(a), UNCHANGED <<next, iters, faults>>,
           version' = (version \ inputs[a]) \cup outputs[a], Retire(inputs[a]),
           \A b \in Actors \ {a} : ~Compacting(b)
    PROVE  tableTypes' /\ Files'
<1>1. UNCHANGED <<next, pinned, active_iterators, faults>>
  BY DEF iters
<1>2. \A b \in Actors : b # a => inputs[b] = {} /\ outputs[b] = {}
  BY DEF Files, Idle
<1>3. \A b \in Actors : inputs'[b] = {} /\ outputs'[b] = {}
  BY SMTT(30), Z3T(30), <1>2, ForgetClears
<1>4. /\ inputs[a] \subseteq version /\ outputs[a] \subseteq disk /\ outputs[a] \cap version = {}
      /\ outputs[a] \cap obsolete = {} /\ version \subseteq disk /\ version \cap obsolete = {}
  BY DEF Files, Apart
<1>5. Idle'
  BY <1>3 DEF Idle
<1>6. \A t \in disk \cup obsolete : 0 < t /\ t < next
  BY DEF Files, Apart
<1>7. CASE active_iterators = 0
  <2>1. disk' = disk \ inputs[a] /\ obsolete' = obsolete
    BY <1>7 DEF Retire
  <2>2. tableTypes'
    BY Zenon, <1>1, <2>1, ForgetClears DEF TypeInv, tableTypes
  <2>3. Apart'
    BY SMTT(30), Z3T(30), <1>1, <1>3, <1>4, <1>6, <2>1 DEF Apart
  <2>4. Users = {} /\ Users' = Users
    BY <1>1, <1>7, NoUsers DEF Files, Users, NoVersion
  <2>5. Pinned'
    BY SMTT(30), Z3T(30), <1>1, <2>4 DEF Files, Pinned
  <2>6. Owned'
    BY SMTT(30), Z3T(30), <1>1, <1>2, <1>4, <1>7, <2>1 DEF Files, Owned
  <2> QED
    BY <1>5, <2>2, <2>3, <2>5, <2>6 DEF Files
<1>8. CASE active_iterators # 0
  <2>1. obsolete' = obsolete \cup inputs[a] /\ disk' = disk
    BY <1>8 DEF Retire
  <2>2. tableTypes'
    BY Zenon, <1>1, <2>1, ForgetClears DEF TypeInv, tableTypes
  <2>3. Apart'
    BY <1>1, <1>3, <1>4, <1>6, <2>1 DEF Apart
  <2>4. Pinned'
    BY <1>1, <2>1, Zenon DEF Files, Pinned, Users, NoVersion
  <2>5. Owned'
    BY SMTT(30), Z3T(30), <1>1, <1>2, <1>4, <1>8, <2>1 DEF Files, Owned
  <2> QED
    BY <1>5, <2>2, <2>3, <2>4, <2>5 DEF Files
<1> QED
  BY <1>7, <1>8

\* A trivial move: the version has the same tables.
LEMMA MoveKeeps ==
    ASSUME TypeInv, Files, NEW a \in Actors, Forget(a), UNCHANGED <<tree, iters, faults>>,
           outputs[a] = {}, \A b \in Actors \ {a} : Compacting(b) => Compacting(b)'
    PROVE  tableTypes' /\ Files'
<1>1. UNCHANGED <<version, disk, next, obsolete, pinned, active_iterators, faults>>
  BY DEF tree, iters
<1>2. \A b \in Actors : /\ inputs'[b] = IF b = a THEN {} ELSE inputs[b]
                        /\ outputs'[b] = outputs[b]
  BY Zenon, ForgetClears
<1>3. tableTypes'
  BY SMTT(30), Z3T(30), <1>1, ForgetClears DEF TypeInv, tableTypes
<1>4. Idle'
  BY SMTT(30), Z3T(30), <1>2 DEF Files, Idle
<1>5. Apart' /\ Owned'
  BY <1>1, <1>2 DEF Files, Apart, Owned
<1>6. Pinned'
  BY <1>1, Zenon DEF Files, Pinned, Users, NoVersion
<1> QED
  BY <1>3, <1>4, <1>5, <1>6 DEF Files

LEMMA InstallKeeps ==
    ASSUME TypeInv, Files, NEW a \in Actors, Install(a), UNCHANGED <<iters, faults>>,
           \A b \in Actors \ {a} : ~Compacting(b)
    PROVE  tableTypes' /\ Files'
<1>1. CASE InstallMerge(a)
  BY <1>1, ReplaceKeeps DEF InstallMerge
<1>2. CASE InstallMove(a)
  BY SMTT(30), Z3T(30), <1>2, MoveKeeps DEF InstallMove
<1> QED
  BY <1>1, <1>2 DEF Install

LEMMA FlushKeeps ==
    ASSUME TypeInv, Files, NEW a \in Actors, Forget(a), UNCHANGED <<disk, next, obsolete, iters, faults>>,
           version' = version \cup outputs[a], \A b \in Actors \ {a} : ~Compacting(b)
    PROVE  tableTypes' /\ Files'
<1>1. UNCHANGED <<disk, next, obsolete, pinned, active_iterators, faults>>
  BY SMTT(30), Z3T(30) DEF iters
<1>2. \A b \in Actors : b # a => inputs[b] = {} /\ outputs[b] = {}
  BY DEF Files, Idle
<1>3. \A b \in Actors : inputs'[b] = {} /\ outputs'[b] = {}
  BY <1>2, ForgetClears
<1>4. tableTypes'
  BY Zenon, <1>1, ForgetClears DEF TypeInv, tableTypes
<1>5. Idle'
  BY SMTT(30), Z3T(30), <1>3 DEF Idle
<1>6. Apart'
  BY <1>1, <1>3 DEF Files, Apart
<1>7. Pinned'
  BY <1>1, Zenon DEF Files, Pinned, Users, NoVersion
<1>8. Owned'
  BY <1>1, <1>2 DEF Files, Owned
<1> QED
  BY <1>4, <1>5, <1>6, <1>7, <1>8 DEF Files

-----------------------------------------------------------------------------
\* Who works.

LEMMA Alone ==
    ASSUME TypeInv, Reserved, NEW a \in Actors, Compacting(a)
    PROVE  \A b \in Actors \ {a} : ~Compacting(b)
  BY BackgroundAssumption DEF BackgroundAssumption, Reserved, Compacting, Actors, Manual

LEMMA BgIsActor == "bg" \in Actors /\ Clients \subseteq Actors /\ "bg" \notin Clients
  BY ZenonT(30), SMTT(30), BackgroundAssumption DEF BackgroundAssumption, Actors

\* The thread sets and clears its flag, and starts only when no caller has
\* set theirs.
LEMMA BgReserves ==
    ASSUME TypeInv, Reserved, BgWork
    PROVE  Reserved' /\ bg' \in BgStages /\ call' = call
<1> USE DEF TypeInv, Reserved, flags, BgStages
<1>1. CASE BgExits
  BY <1>1 DEF BgExits
<1>2. CASE BgParks
  BY <1>2 DEF BgParks
<1>3. CASE BgUnparks
  BY <1>3 DEF BgUnparks
<1>4. CASE BgRefuses
  BY <1>4 DEF BgRefuses
<1>5. CASE BgStarts
  BY <1>5 DEF BgStarts, NothingToDo
<1>6. CASE BgSkipsFlush
  BY <1>6 DEF BgSkipsFlush
<1>7. CASE BgCollects
  BY <1>7 DEF BgCollects
<1>8. CASE BgFlushes
  BY <1>8 DEF BgFlushes
<1>9. CASE BgWrites
  BY <1>9 DEF BgWrites
<1>10. CASE BgInstalls
  BY <1>10 DEF BgInstalls
<1>11. CASE BgEnds
  BY <1>11 DEF BgEnds
<1>12. CASE BgFails
  BY <1>12 DEF BgFails
<1>13. CASE \E ts \in Inputs : BgPicks(ts)
  BY SMTT(30), Z3T(30), <1>13 DEF BgPicks
<1> QED
  BY SMTT(30), Z3T(30), <1>1, <1>2, <1>3, <1>4, <1>5, <1>6, <1>7, <1>8, <1>9, <1>10, <1>11, <1>12, <1>13
     DEF BgWork

\* A caller enters the reserved stages by RangePicks, when neither flag is
\* set, and leaves them by RangeClears.
LEMMA ClientReserves ==
    ASSUME TypeInv, Reserved, NEW c \in Clients,
           MaybeCompact(c) \/ CompactRange(c) \/ ClientWork(c)
    PROVE  Reserved' /\ bg' = bg /\ call' \in [Clients -> Stages]
<1>0. ASSUME NEW s \in Stages, call' = [call EXCEPT ![c] = s], UNCHANGED <<bg, bg_work_running>>,
             \/ /\ s \in Manual <=> call[c] \in Manual
                /\ UNCHANGED manual_compaction_running
             \/ s \in Manual /\ ~bg_work_running /\ ~manual_compaction_running /\ manual_compaction_running'
             \/ s \notin Manual /\ call[c] \in Manual /\ ~manual_compaction_running'
      PROVE  Reserved' /\ bg' = bg /\ call' \in [Clients -> Stages]
  <2>1. \A d \in Clients : call'[d] = IF d = c THEN s ELSE call[d]
    BY <1>0 DEF TypeInv
  <2>2. call' \in [Clients -> Stages] /\ bg' = bg
    BY <1>0 DEF TypeInv
  <2>3. Reserved'
    BY <1>0, <2>1 DEF Reserved
  <2> QED
    BY <2>2, <2>3
<1>a. call = [call EXCEPT ![c] = call[c]] /\ call[c] \in Stages
  BY DEF TypeInv
<1> USE <1>a DEF flags, ClientOnly, Schedule, Awake, Goes, Proceeds, Await, Manual, Stages
<1>1. CASE MaybeCompact(c)
  BY SMTT(30), Z3T(30), <1>0, <1>1 DEF MaybeCompact
<1>2. CASE CompactRange(c)
  BY SMTT(30), Z3T(30), <1>0, <1>2 DEF CompactRange
<1>3. CASE MaybeCompactWaits(c)
  BY SMTT(30), Z3T(30), <1>0, <1>3 DEF MaybeCompactWaits
<1>4. CASE RotateWaits(c)
  BY <1>0, <1>4 DEF RotateWaits
<1>5. CASE ForceFlush(c)
  BY <1>0, <1>5 DEF ForceFlush
<1>6. CASE FlushWaits(c)
  BY <1>0, <1>6 DEF FlushWaits
<1>7. CASE RangeWaits(c)
  BY SMTT(30), Z3T(30), <1>0, <1>7 DEF RangeWaits
<1>8. CASE RangeDone(c)
  BY SMTT(30), Z3T(30), <1>0, <1>8 DEF RangeDone
<1>9. CASE RangeWrites(c)
  BY <1>0, <1>9 DEF RangeWrites
<1>10. CASE RangeInstalls(c)
  BY SMTT(30), Z3T(30), <1>0, <1>10 DEF RangeInstalls
<1>11. CASE RangeFails(c)
  BY SMTT(30), Z3T(30), <1>0, <1>11 DEF RangeFails
<1>12. CASE RangeClears(c)
  BY SMTT(30), Z3T(30), <1>0, <1>12 DEF RangeClears
<1>13. CASE \E ts \in Inputs : RangePicks(c, ts)
  BY <1>0, <1>13 DEF RangePicks, Occupied, Busy
<1> QED
  BY SMTT(30), Z3T(30), <1>1, <1>2, <1>3, <1>4, <1>5, <1>6, <1>7, <1>8, <1>9, <1>10, <1>11, <1>12, <1>13
     DEF ClientWork

-----------------------------------------------------------------------------
\* TypeInv of the next state, from its parts.
LEMMA TypeParts ==
    ASSUME TypeInv, tableTypes', UNCHANGED <<pinned, active_iterators>>, faults' \in Nat,
           bg' \in BgStages, call' \in [Clients -> Stages]
    PROVE  TypeInv'
  BY DEF TypeInv, tableTypes

LEMMA BgKeeps ==
    ASSUME Inv, BgWork
    PROVE  Inv'
<1>1. TypeInv /\ Reserved /\ Files
  BY DEF Inv
<1>2. Reserved' /\ bg' \in BgStages /\ call' = call /\ call' \in [Clients -> Stages]
  BY <1>1, BgReserves DEF TypeInv
<1>3. (\A b \in Actors \ {"bg"} : Compacting(b) => Compacting(b)') /\ "bg" \in Actors
  BY <1>2, BgIsActor DEF Compacting
<1>4. CASE QuietBg
  <2>1. UNCHANGED fileVars
    BY <1>4 DEF QuietBg, BgExits, BgParks, BgUnparks, BgRefuses, BgStarts, BgSkipsFlush, BgEnds,
                fileVars, work, tree, iters
  <2>2. TypeInv'
    BY <1>1, <1>2, <2>1 DEF TypeInv, fileVars
  <2> QED
    BY ZenonT(30), SMTT(30), <1>1, <1>2, <1>4, <2>2, QuietBgKeeps DEF Inv
<1>5. CASE BgCollects \/ BgWrites
  <2>1. OpenOutput("bg") /\ UNCHANGED <<iters, faults>> /\ Compacting("bg")'
    BY <1>5 DEF BgCollects, BgWrites, Compacting
  <2>2. tableTypes' /\ Files'
    BY <1>1, <1>3, <2>1, OpenOutputKeeps DEF KeepWorking
  <2>3. TypeInv'
    BY ZenonT(30), SMTT(30), <1>1, <1>2, <2>1, <2>2, TypeParts DEF TypeInv, iters
  <2> QED
    BY <1>2, <2>2, <2>3 DEF Inv
<1>6. CASE BgFlushes
  <2>1. \A b \in Actors \ {"bg"} : ~Compacting(b)
    BY ZenonT(30), SMTT(30), <1>1, <1>3, <1>6, Alone DEF BgFlushes, Compacting
  <2>2. tableTypes' /\ Files'
    BY SMTT(30), Z3T(30), <1>1, <1>3, <1>6, <2>1, FlushKeeps DEF BgFlushes
  <2>3. TypeInv'
    BY SMTT(30), Z3T(30), <1>1, <1>2, <1>6, <2>2, TypeParts DEF BgFlushes, TypeInv, iters
  <2> QED
    BY <1>2, <2>2, <2>3 DEF Inv
<1>7. CASE BgInstalls
  <2>1. \A b \in Actors \ {"bg"} : ~Compacting(b)
    BY <1>1, <1>3, <1>7, Alone DEF BgInstalls, Compacting
  <2>2. tableTypes' /\ Files'
    BY SMTT(30), Z3T(30), <1>1, <1>3, <1>7, <2>1, InstallKeeps DEF BgInstalls
  <2>3. TypeInv'
    BY <1>1, <1>2, <1>7, <2>2, TypeParts DEF BgInstalls, TypeInv, iters
  <2> QED
    BY <1>2, <2>2, <2>3 DEF Inv
<1>8. CASE BgFails
  <2>1. tableTypes' /\ faults' \in Nat /\ Files'
    BY <1>1, <1>3, <1>8, AbandonKeeps DEF BgFails
  <2>2. TypeInv'
    BY <1>1, <1>2, <1>8, <2>1, TypeParts DEF BgFails, iters
  <2> QED
    BY <1>2, <2>1, <2>2 DEF Inv
<1>9. CASE \E ts \in Inputs : BgPicks(ts)
  <2>1. PICK ts \in Inputs : BgPicks(ts)
    BY <1>9
  <2>2. /\ Pick("bg", ts) /\ UNCHANGED <<tree, iters, faults>> /\ Compacting("bg")'
    BY <2>1 DEF BgPicks, Compacting
  <2>3. tableTypes' /\ Files'
    BY SMTT(30), Z3T(30), <1>1, <1>3, <2>2, PickKeeps DEF KeepWorking
  <2>4. TypeInv'
    BY SMTT(30), Z3T(30), <1>1, <1>2, <2>2, <2>3, TypeParts DEF TypeInv, iters
  <2> QED
    BY <1>2, <2>3, <2>4 DEF Inv
<1> QED
  BY <1>4, <1>5, <1>6, <1>7, <1>8, <1>9 DEF BgWork, QuietBg

LEMMA ClientKeeps ==
    ASSUME Inv, NEW c \in Clients, MaybeCompact(c) \/ CompactRange(c) \/ ClientWork(c)
    PROVE  Inv'
<1>1. TypeInv /\ Reserved /\ Files
  BY DEF Inv
<1>2. Reserved' /\ bg' = bg /\ bg' \in BgStages /\ call' \in [Clients -> Stages]
  BY <1>1, ClientReserves DEF TypeInv
<1>3. c \in Actors /\ c # "bg"
  BY BgIsActor
<1>4. CASE QuietCall(c)
  <2>1. UNCHANGED fileVars
    BY Zenon, <1>4
       DEF QuietCall, MaybeCompact, CompactRange, MaybeCompactWaits, RotateWaits, ForceFlush,
                FlushWaits, RangeWaits, RangeDone, RangeClears, ClientOnly, fileVars, work, tree, iters
  <2>2. TypeInv'
    BY SMTT(30), Z3T(30), <1>1, <1>2, <2>1 DEF TypeInv, fileVars
  <2> QED
    BY SMTT(30), Z3T(30), <1>1, <1>2, <1>4, <2>2, QuietCallKeeps DEF Inv
<1>5. ASSUME NEW s, call' = [call EXCEPT ![c] = s]
      PROVE  \A b \in Actors \ {c} : Compacting(b) => Compacting(b)'
  BY <1>1, <1>2, <1>5 DEF Compacting, TypeInv, Actors
<1>6. CASE RangeWrites(c)
  <2>1. OpenOutput(c) /\ UNCHANGED <<iters, faults>> /\ KeepWorking /\ Compacting(c)'
    BY <1>2, <1>3, <1>6 DEF RangeWrites, Awake, Compacting, KeepWorking
  <2>2. tableTypes' /\ Files'
    BY SMTT(30), Z3T(30), <1>1, <1>3, <2>1, OpenOutputKeeps
  <2>3. TypeInv'
    BY SMTT(30), Z3T(30), <1>1, <1>2, <2>1, <2>2, TypeParts DEF TypeInv, iters
  <2> QED
    BY SMTT(30), Z3T(30), <1>2, <2>2, <2>3 DEF Inv
<1>7. CASE RangeInstalls(c)
  <2>1. \A b \in Actors \ {c} : ~Compacting(b)
    BY <1>1, <1>3, <1>7, Alone DEF RangeInstalls, Awake, Compacting
  <2>2. tableTypes' /\ Files'
    BY ZenonT(30), SMTT(30), <1>1, <1>3, <1>7, <2>1, InstallKeeps DEF RangeInstalls
  <2>3. TypeInv'
    BY <1>1, <1>2, <1>7, <2>2, TypeParts DEF RangeInstalls, TypeInv, iters
  <2> QED
    BY <1>2, <2>2, <2>3 DEF Inv
<1>8. CASE RangeFails(c)
  <2>1. tableTypes' /\ faults' \in Nat /\ Files'
    BY Zenon, <1>1, <1>3, <1>5, <1>8, AbandonKeeps DEF RangeFails, Proceeds, Goes
  <2>2. TypeInv'
    BY <1>1, <1>2, <1>8, <2>1, TypeParts DEF RangeFails, iters
  <2> QED
    BY <1>2, <2>1, <2>2 DEF Inv
<1>9. CASE \E ts \in Inputs : RangePicks(c, ts)
  <2>1. PICK ts \in Inputs : RangePicks(c, ts)
    BY <1>9
  <2>2. Pick(c, ts) /\ UNCHANGED <<tree, iters, faults>> /\ call' = [call EXCEPT ![c] = "compact"]
    BY <2>1 DEF RangePicks, Goes
  <2>3. Compacting(c)'
    BY <1>1, <1>3, <2>2 DEF Compacting, TypeInv
  <2>4. tableTypes' /\ Files'
    BY ZenonT(30), <1>1, <1>3, <1>5, <2>2, <2>3, PickKeeps DEF KeepWorking
  <2>5. TypeInv'
    BY ZenonT(30), <1>1, <1>2, <2>2, <2>4, TypeParts DEF TypeInv, iters
  <2> QED
    BY <1>2, <2>4, <2>5 DEF Inv
<1> QED
  BY <1>4, <1>6, <1>7, <1>8, <1>9 DEF ClientWork, QuietCall

-----------------------------------------------------------------------------
LEMMA NextInv == Inv /\ [Next]_vars => Inv'
<1> SUFFICES ASSUME Inv, [Next]_vars PROVE Inv'
  OBVIOUS
<1>1. TypeInv /\ Reserved /\ Files
  BY DEF Inv
<1>2. CASE Elsewhere
  <2>1. Files' /\ UNCHANGED <<bg, call, bg_work_running, manual_compaction_running>>
    BY SMTT(30), Z3T(30), <1>1, <1>2, ElsewhereKeeps
  <2>2. UNCHANGED fileVars
    BY SMTT(30), Z3T(30), <1>2
       DEF Elsewhere, RotateMem, ReadSchedulesSeek, DropDb, fileVars, work, tree, iters
  <2>3. TypeInv' /\ Reserved'
    BY <1>1, <2>1, <2>2 DEF TypeInv, Reserved, fileVars
  <2> QED
    BY <2>1, <2>3 DEF Inv
<1>3. ASSUME NEW i \in Iterators, NewIterator(i) \/ ReleaseIterator(i)
      PROVE  Inv'
  <2>1. TypeInv' /\ Files'
    BY SMTT(30), Z3T(30), <1>1, <1>3, NewIteratorKeeps, ReleaseIteratorKeeps
  <2>2. Reserved'
    BY <1>1, <1>3 DEF NewIterator, ReleaseIterator, Reserved, flags
  <2> QED
    BY <2>1, <2>2 DEF Inv
<1>4. CASE UNCHANGED vars
  <2>1. UNCHANGED fileVars /\ UNCHANGED <<bg, call, bg_work_running, manual_compaction_running>>
    BY <1>4 DEF vars, fileVars, flags, work, tree, iters
  <2>2. KeepWorking
    BY <2>1 DEF KeepWorking, Compacting
  <2>3. Files'
    BY ZenonT(30), SMTT(30), <1>1, <2>1, <2>2, StillKeeps
  <2>4. TypeInv' /\ Reserved'
    BY <1>1, <2>1 DEF TypeInv, Reserved, fileVars
  <2> QED
    BY SMTT(30), Z3T(30), <2>3, <2>4 DEF Inv
<1> QED
  BY <1>2, <1>3, <1>4, BgKeeps, ClientKeeps DEF Next, Elsewhere

(***************************************************************************)
(* The invariant that the flags, the count of iterators and the sets of    *)
(* files of bg_loop, compact_range and the iterators keep together.        *)
(***************************************************************************)
THEOREM Invariance == Spec => []Inv
  BY InitInv, NextInv, PTL DEF Spec

(***************************************************************************)
(* At most one of the background thread and the callers of compact_range   *)
(* works on the version: the thread starts only when                       *)
(* manual_compaction_running is not set, a caller only when                *)
(* bg_work_running is not, both under the mutex.                           *)
(***************************************************************************)
THEOREM SingleChanger == Spec => []OneVersionChanger
<1>1. Inv => OneVersionChanger
  BY BgIsActor DEF Inv, Reserved, OneVersionChanger, Working, Actors, Manual
<1> QED
  BY <1>1, Invariance, PTL

(***************************************************************************)
(* The tables that a compaction reads without the mutex stay in the        *)
(* version and on disk until its own edit replaces them.                   *)
(***************************************************************************)
THEOREM InputsKept == Spec => []InputsStay
<1>1. Inv => InputsStay
  BY DEF Inv, Files, Apart, InputsStay
<1> QED
  BY <1>1, Invariance, PTL

(***************************************************************************)
(* No table of the current version, and no table of an iterator, is        *)
(* deleted, although retire_table_file_numbers and release_iterator look   *)
(* at a count only.                                                        *)
(***************************************************************************)
THEOREM ReadersSafe == Spec => []ReadersFilesStay
<1>1. Inv => ReadersFilesStay
  BY DEF Inv, Files, Apart, Pinned, Users, ReadersFilesStay
<1> QED
  BY <1>1, Invariance, PTL

(***************************************************************************)
(* As long as no I/O error happened, a table file that nobody needs is     *)
(* deleted at the latest when the last iterator is released.               *)
(***************************************************************************)
THEOREM NoLeak == Spec => []NothingLeaks
<1>1. ASSUME Inv PROVE NothingLeaks
  <2>1. SUFFICES ASSUME faults = 0, active_iterators = 0
                 PROVE  disk = version \cup UNION {outputs[a] : a \in Actors}
    BY DEF NothingLeaks
  <2>2. \A t \in disk : t \in version \/ \E a \in Actors : t \in outputs[a]
    BY SMTT(30), Z3T(30), <1>1, <2>1 DEF Inv, Files, Owned
  <2>3. version \subseteq disk /\ \A a \in Actors : outputs[a] \subseteq disk
    BY <1>1 DEF Inv, Files, Apart
  <2> QED
    BY <2>2, <2>3
<1> QED
  BY <1>1, Invariance, PTL
=============================================================================
