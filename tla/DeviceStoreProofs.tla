-------------------------- MODULE DeviceStoreProofs --------------------------
(***************************************************************************)
(* The safety of the device store, and that it implements DurableList, for *)
(* any devices and configurations.  What it rests on: a write's list is    *)
(* the one its copy holds once replaced, unless the copy was damaged, and  *)
(* then the other one is safe.                                             *)
(***************************************************************************)
EXTENDS DeviceStore, TLAPS

\* A copy that can be read, whatever a power loss leaves
Readable == \E c \in Copies : disk[c] \subseteq Lists

\* What a read gives is one of the contents a power loss may leave
OnDisk == \A c \in Copies : files[c] \in disk[c]

\* What a save has done so far
SaveState ==
    write.job = "save" =>
        /\ mode = "up"
        /\ write.stage \in {"replace", "sync"}
        /\ (write.copy = "backup" \/ write.stage = "sync") => cache = write.list
        /\ write.copy = "backup" => Readable
        /\ (write.copy = "primary" /\ write.stage = "sync")
              => (files["primary"] \in Lists \/ Readable)
        /\ (write.copy = "backup" /\ write.stage = "sync" /\ files["backup"] \in Lists)
              => files["backup"] = write.list

\* What a repair, or another try of it, has done so far
RestoreState ==
    write.job \in {"repair", "retry"} =>
        /\ write.copy = "primary"
        /\ (write.stage # "replace" /\ files["primary"] \in Lists)
              => files["primary"] = write.list

RepairState ==
    write.job = "repair" =>
        /\ mode = "down"
        /\ files["backup"] \in Lists => files["backup"] = write.list
        /\ write.stage # "replace" => \E c \in Copies : files[c] = write.list

RetryState ==
    write.job = "retry" => mode = "recovery" /\ retained = write.list

\* The backup's list is kept only in recovery mode, and is what is served there
RetainedState ==
    retained # Unavailable => mode = "recovery" /\ cache = retained

StoreInv ==
    /\ StoreTypeOK
    /\ OnDisk
    /\ SaveState /\ RestoreState /\ RepairState /\ RetryState /\ RetainedState
    /\ AlwaysACopy /\ CacheIsPrimary

-----------------------------------------------------------------------------
(* Lists *)

\* A file that is missing or damaged, or nothing at all, is not a list.
LEMMA NotLists == {Missing, Corrupt, Unavailable} \intersect Lists = {}
  BY StoreAssumption DEF Lists

\* The list of a new installation is a list, and so is an edited one.
LEMMA Edited ==
    /\ Empty \in Lists
    /\ \A list \in Lists, d \in Devices, v \in Configs \union {Absent} :
          [list EXCEPT ![d] = v] \in Lists
  BY DEF Lists, Empty

-----------------------------------------------------------------------------
(* The type invariant *)

WriteType == [job : {"none", "save", "repair", "retry"}, copy : Copies, list : Lists,
              stage : {"replace", "sync", "verify"}]

\* An edit, whichever handler it is of, starts a save of some list.
LEMMA EditsSave ==
    ASSUME StoreTypeOK,
           NEW d \in Devices,
           \/ Delete(d)
           \/ \E config \in Configs : Upsert(d, config) \/ UpdateCommands(d, config)
    PROVE  \E list \in Lists : Edit(list)
<1> USE Edited DEF StoreTypeOK
<1>1. CASE Delete(d)
  <2> [cache EXCEPT ![d] = Absent] \in Lists  OBVIOUS
  <2> QED  BY <1>1 DEF Delete
<1>2. CASE \E config \in Configs : Upsert(d, config) \/ UpdateCommands(d, config)
  <2>1. PICK config \in Configs : Upsert(d, config) \/ UpdateCommands(d, config)
    BY <1>2
  <2> [cache EXCEPT ![d] = config] \in Lists  OBVIOUS
  <2> QED  BY <2>1 DEF Upsert, UpdateCommands
<1> QED  BY <1>1, <1>2

\* The steps of the store, with every edit seen as one of some list.
StoreStep ==
    \/ Replace \/ SyncSave \/ SyncRestored \/ WriteFails
    \/ LoadPrimary \/ LoadBackup \/ Repaired \/ RepairFails \/ LoadNothing
    \/ \E list \in Lists : Edit(list)
    \/ RetryRecovery \/ Recovered
    \/ Crash \/ PowerLoss
    \/ \E c \in Copies : Damage(c)

\* Every step of the specification is one of these.
LEMMA StepsAreSteps ==
    ASSUME StoreTypeOK, StoreNext
    PROVE  StoreStep
<1>1. CASE \E d \in Devices :
              \/ Delete(d)
              \/ \E config \in Configs : Upsert(d, config) \/ UpdateCommands(d, config)
  <2>1. \E list \in Lists : Edit(list)  BY <1>1, EditsSave
  <2> QED  BY <2>1 DEF StoreStep
<1> QED  BY <1>1 DEF StoreNext, StoreStep

\* A step keeps every variable in its type.
LEMMA TypeStep ==
    ASSUME StoreTypeOK, StoreStep
    PROVE  StoreTypeOK'
<1> USE Edited DEF StoreTypeOK
<1>0. write \in WriteType /\ NoWrite \in WriteType
  BY DEF WriteType, NoWrite, Copies
<1>1. CASE Replace
  <2>1. write' \in WriteType
    BY <1>0, <1>1 DEF Replace, WriteType
  <2>2. write.copy \in Copies /\ write.list \in Lists
    BY <1>0 DEF WriteType
  <2>3. files' \in [Copies -> Contents] /\ disk' \in [Copies -> SUBSET Contents]
    BY <1>1, <2>2 DEF Replace, Contents
  <2> QED  BY <1>1, <2>1, <2>2, <2>3 DEF Replace, WriteType
<1>2. CASE SyncSave
  <2>1. write' \in WriteType
    BY <1>0, <1>2 DEF SyncSave, WriteType, Copies
  <2>2. disk' \in [Copies -> SUBSET Contents]
    BY <1>2 DEF SyncSave, Synced
  <2>3. confirmed' \in Lists
    BY <1>0, <1>2 DEF SyncSave, WriteType
  <2> QED  BY <1>2, <2>1, <2>2, <2>3 DEF SyncSave, WriteType
<1>3. CASE SyncRestored
  <2>1. write' \in WriteType
    BY <1>0, <1>3 DEF SyncRestored, WriteType
  <2>2. disk' \in [Copies -> SUBSET Contents]
    BY <1>3 DEF SyncRestored, Synced
  <2> QED  BY <1>3, <2>1, <2>2 DEF SyncRestored, WriteType
<1>4. CASE WriteFails \/ LoadPrimary \/ LoadNothing
  BY <1>0, <1>4 DEF WriteFails, LoadPrimary, LoadNothing, WriteType
<1>5. CASE LoadBackup \/ RetryRecovery \/ \E list \in Lists : Edit(list)
  <2>1. write' \in WriteType
    BY <1>0, <1>5 DEF LoadBackup, RetryRecovery, Edit, WriteType, Copies
  <2> QED  BY <1>5, <2>1 DEF LoadBackup, RetryRecovery, Edit, WriteType
<1>6. CASE Repaired \/ RepairFails \/ Recovered
  <2>1. write.list \in Lists  BY <1>0 DEF WriteType
  <2> QED  BY <1>0, <1>6, <2>1 DEF Repaired, RepairFails, Recovered, WriteType
<1>7. CASE Crash
  BY <1>0, <1>7 DEF Crash, Stopped, WriteType
<1>8. CASE PowerLoss
  <2>1. PICK left \in [Copies -> UNION {disk[c] : c \in Copies}] :
           /\ \A c \in Copies : left[c] \in disk[c]
           /\ files' = left
           /\ disk' = [c \in Copies |-> {left[c]}]
    BY <1>8 DEF PowerLoss
  <2>2. \A c \in Copies : left[c] \in Contents  BY <2>1
  <2>3. files' \in [Copies -> Contents] /\ disk' \in [Copies -> SUBSET Contents]
    BY <2>1, <2>2
  <2> QED  BY <1>0, <1>8, <2>3 DEF PowerLoss, Stopped, WriteType
<1>9. CASE \E c \in Copies : Damage(c)
  <2>1. files' \in [Copies -> Contents] /\ disk' \in [Copies -> SUBSET Contents]
    BY <1>9 DEF Damage, Contents
  <2> QED  BY <1>9, <2>1 DEF Damage
<1> QED
  BY <1>1, <1>2, <1>3, <1>4, <1>5, <1>6, <1>7, <1>8, <1>9 DEF StoreStep

-----------------------------------------------------------------------------
(* The inductive invariant *)

\* A read gives one of the contents the power can leave, after any step.
LEMMA OnDiskStep ==
    ASSUME StoreTypeOK, OnDisk, StoreStep
    PROVE  OnDisk'
<1> USE DEF StoreTypeOK, OnDisk
<1>1. CASE Replace
  BY <1>1 DEF Replace
<1>2. CASE SyncSave \/ SyncRestored
  BY <1>2 DEF SyncSave, SyncRestored, Synced
<1>3. CASE PowerLoss
  BY <1>3 DEF PowerLoss
<1>4. CASE \E c \in Copies : Damage(c)
  BY <1>4 DEF Damage
<1>5. CASE UNCHANGED <<files, disk>>
  BY <1>5
<1> QED
  BY <1>1, <1>2, <1>3, <1>4, <1>5
  DEF StoreStep, WriteFails, LoadPrimary, LoadBackup, Repaired, RepairFails, LoadNothing,
      Edit, RetryRecovery, Recovered, Crash

\* A store that can be read after a power loss stays so, whatever happens.
LEMMA ReadableStep ==
    ASSUME StoreTypeOK, OnDisk, StoreStep, Readable
    PROVE  Readable'
<1> USE DEF StoreTypeOK, OnDisk, Readable
<1>1. CASE Replace
  BY <1>1 DEF Replace
<1>2. CASE SyncSave \/ SyncRestored
  BY <1>2 DEF SyncSave, SyncRestored, Synced
<1>3. CASE PowerLoss
  BY <1>3 DEF PowerLoss
<1>4. CASE \E c \in Copies : Damage(c)
  BY <1>4 DEF Damage, Copies, Other
<1>5. CASE UNCHANGED <<files, disk>>
  BY <1>5
<1> QED
  BY <1>1, <1>2, <1>3, <1>4, <1>5
  DEF StoreStep, WriteFails, LoadPrimary, LoadBackup, Repaired, RepairFails, LoadNothing,
      Edit, RetryRecovery, Recovered, Crash

\* The initial state.
LEMMA StoreInvInit ==
    ASSUME StoreInit
    PROVE  StoreInv
<1> USE Edited DEF StoreInit
<1>1. NoWrite \in WriteType
  BY DEF NoWrite, WriteType, Copies
<1>2. StoreTypeOK
  BY <1>1 DEF StoreTypeOK, Contents, WriteType
<1>3. OnDisk /\ RetainedState /\ AlwaysACopy /\ CacheIsPrimary
  BY DEF OnDisk, RetainedState, AlwaysACopy, CacheIsPrimary
<1>4. SaveState /\ RestoreState /\ RepairState /\ RetryState
  BY DEF SaveState, RestoreState, RepairState, RetryState, NoWrite
<1> QED  BY <1>2, <1>3, <1>4 DEF StoreInv

\* Every step keeps what is said of the writes and of the list in memory.
LEMMA StoreInvStep ==
    ASSUME StoreInv, StoreStep
    PROVE  StoreInv'
<1>0. StoreTypeOK' /\ OnDisk' /\ (Readable => Readable')
  BY TypeStep, OnDiskStep, ReadableStep DEF StoreInv, OnDisk
<1> USE DEF StoreInv, StoreTypeOK, OnDisk
<1>A. AlwaysACopy = (confirmed # Empty => Readable)
  BY DEF AlwaysACopy, Readable
<1>B. (write' = NoWrite) => (SaveState /\ RestoreState /\ RepairState /\ RetryState)'
  BY DEF SaveState, RestoreState, RepairState, RetryState, NoWrite
<1>1. CASE Replace
  <2>1. write.list \in Lists /\ write.copy \in Copies  OBVIOUS
  <2>2. SaveState'
    <3>1. /\ write'.job = write.job /\ write'.copy = write.copy
          /\ write'.list = write.list /\ write'.stage = "sync"
      BY <1>1 DEF Replace
    <3>2. files'[write.copy] = write.list
      BY <1>1, <2>1 DEF Replace
    <3>3. write.job = "save" => mode' = "up" /\ cache' = write.list
      BY <1>1, <2>1 DEF Replace, SaveState, Copies
    <3>4. write.job = "save" /\ write.copy = "backup" => Readable'
      BY <1>0 DEF SaveState
    <3> HIDE DEF StoreInv, StoreTypeOK
    <3> QED  BY <2>1, <3>1, <3>2, <3>3, <3>4 DEF SaveState, Copies
  <2>3. (RestoreState /\ RepairState /\ RetryState /\ RetainedState)'
    BY <1>0, <1>1, <2>1
    DEF Replace, RestoreState, RepairState, RetryState, RetainedState, SaveState, Copies
  <2>4. CacheIsPrimary'
    BY <1>0, <1>1, <2>1
    DEF Replace, CacheIsPrimary, SaveState, RestoreState, RepairState, RetryState, Copies
  <2>5. AlwaysACopy'
    BY <1>0, <1>1 DEF Replace, AlwaysACopy, Readable
  <2> QED  BY <1>0, <2>2, <2>3, <2>4, <2>5
<1>2. CASE SyncSave
  <2>1. disk' = [c \in Copies |-> {files[c]}]
    BY <1>2 DEF SyncSave, Synced
  <2>2. write.copy = "primary" => Readable'
    BY <1>0, <1>2, <2>1 DEF SyncSave, SaveState, Readable, Copies
  <2>3. SaveState'
    <3>1. CASE write.copy = "primary"
      <4>1. /\ write'.job = "save" /\ write'.copy = "backup"
            /\ write'.list = write.list /\ write'.stage = "replace"
        BY <1>2, <3>1 DEF SyncSave
      <4>2. mode' = "up" /\ cache' = write.list
        BY <1>2 DEF SyncSave, SaveState
      <4> HIDE DEF StoreInv, StoreTypeOK
      <4> QED  BY <2>2, <3>1, <4>1, <4>2 DEF SaveState
    <3>2. CASE write.copy # "primary"
      BY <1>2, <1>B, <3>2 DEF SyncSave
    <3> QED  BY <3>1, <3>2
  <2>j. write'.job \in {"save", "none"}
    <3>1. CASE write.copy = "primary"
      BY <1>2, <3>1 DEF SyncSave
    <3>2. CASE write.copy # "primary"
      BY <1>2, <3>2 DEF SyncSave, NoWrite
    <3> QED  BY <3>1, <3>2
  <2>4. (RestoreState /\ RepairState /\ RetryState /\ RetainedState /\ CacheIsPrimary)'
    BY <1>2, <2>j
    DEF SyncSave, RestoreState, RepairState, RetryState, RetainedState, CacheIsPrimary
  <2>5. AlwaysACopy'
    BY <1>0, <1>2 DEF SyncSave, SaveState, AlwaysACopy, Readable, Copies
  <2> QED  BY <1>0, <2>3, <2>4, <2>5
<1>3. CASE SyncRestored
  <2>1. /\ (SaveState /\ RestoreState /\ RepairState /\ RetryState)'
        /\ (RetainedState /\ CacheIsPrimary)'
    BY <1>3
    DEF SyncRestored, SaveState, RestoreState, RepairState, RetryState, RetainedState,
        CacheIsPrimary
  <2>2. AlwaysACopy'
    BY <1>0, <1>3 DEF SyncRestored, AlwaysACopy, Readable
  <2> QED  BY <1>0, <2>1, <2>2
<1>4. CASE WriteFails
  <2>1. (RetainedState /\ CacheIsPrimary /\ AlwaysACopy)'
    BY <1>4 DEF WriteFails, RetainedState, CacheIsPrimary, AlwaysACopy
  <2> QED  BY <1>0, <1>4, <1>B, <2>1 DEF WriteFails
<1>5. CASE LoadPrimary \/ LoadNothing
  <2>1. write' = NoWrite
    BY <1>5 DEF LoadPrimary, LoadNothing, Idle
  <2>2. (RetainedState /\ CacheIsPrimary /\ AlwaysACopy)'
    BY <1>5, NotLists
    DEF LoadPrimary, LoadNothing, RetainedState, CacheIsPrimary, AlwaysACopy, Copies
  <2> QED  BY <1>0, <1>B, <2>1, <2>2
<1>6. CASE LoadBackup
  <2>1. (SaveState /\ RestoreState /\ RepairState /\ RetryState)'
    BY <1>6 DEF LoadBackup, SaveState, RestoreState, RepairState, RetryState
  <2>2. (RetainedState /\ CacheIsPrimary /\ AlwaysACopy)'
    BY <1>6 DEF LoadBackup, RetainedState, CacheIsPrimary, AlwaysACopy
  <2> QED  BY <1>0, <2>1, <2>2
<1>7. CASE Repaired \/ RepairFails \/ Recovered
  <2>1. write' = NoWrite
    BY <1>7 DEF Repaired, RepairFails, Recovered
  <2>2. (RetainedState /\ AlwaysACopy)'
    BY <1>7 DEF Repaired, RepairFails, Recovered, RetainedState, AlwaysACopy, RepairState
  <2>3. CacheIsPrimary'
    <3>1. CASE Repaired
      BY <3>1 DEF Repaired, CacheIsPrimary, RestoreState
    <3>2. CASE RepairFails
      BY <3>2 DEF RepairFails, CacheIsPrimary
    <3>3. CASE Recovered
      BY <3>3, NotLists DEF Recovered, CacheIsPrimary, RestoreState, RetryState, RetainedState
    <3> QED  BY <1>7, <3>1, <3>2, <3>3
  <2> QED  BY <1>0, <1>B, <2>1, <2>2, <2>3
<1>8. CASE RetryRecovery \/ \E list \in Lists : Edit(list)
  <2>1. (SaveState /\ RestoreState /\ RepairState /\ RetryState)'
    BY <1>8 DEF RetryRecovery, Edit, SaveState, RestoreState, RepairState, RetryState
  <2>2. (RetainedState /\ CacheIsPrimary /\ AlwaysACopy)'
    BY <1>8 DEF RetryRecovery, Edit, RetainedState, CacheIsPrimary, AlwaysACopy
  <2> QED  BY <1>0, <2>1, <2>2
<1>9. CASE Crash \/ PowerLoss
  <2>1. write' = NoWrite /\ mode' = "down" /\ retained' = Unavailable /\ confirmed' = confirmed
    BY <1>9 DEF Crash, PowerLoss, Stopped
  <2>2. (RetainedState /\ CacheIsPrimary)'
    BY <2>1 DEF RetainedState, CacheIsPrimary
  <2>3. AlwaysACopy'
    BY <1>0, <2>1 DEF AlwaysACopy, Readable
  <2> QED  BY <1>0, <1>B, <2>1, <2>2, <2>3
<1>10. CASE \E c \in Copies : Damage(c)
  <2>1. PICK c \in Copies, bad \in {Missing, Corrupt} :
           /\ disk[Other(c)] \subseteq Lists
           /\ files' = [files EXCEPT ![c] = bad]
           /\ disk' = [disk EXCEPT ![c] = {bad}]
           /\ UNCHANGED <<mode, cache, retained, write, confirmed>>
    BY <1>10 DEF Damage
  <2>2. bad \notin Lists  BY NotLists
  <2>3. Readable'
    BY <2>1 DEF Readable, Copies, Other
  <2>4. SaveState' /\ RestoreState' /\ RetryState'
    BY <2>1, <2>2, <2>3 DEF SaveState, RestoreState, RetryState, Copies
  <2>5. files[Other(c)] \in Lists
    BY <2>1 DEF Copies, Other
  <2>6. RepairState'
    BY <2>1, <2>2, <2>5 DEF RepairState, RestoreState, Copies, Other
  <2>7. (RetainedState /\ CacheIsPrimary)'
    BY <2>1, <2>2 DEF RetainedState, CacheIsPrimary, Copies
  <2>8. AlwaysACopy'
    BY <2>3 DEF AlwaysACopy, Readable
  <2> QED  BY <1>0, <2>4, <2>6, <2>7, <2>8
<1> QED
  BY <1>1, <1>2, <1>3, <1>4, <1>5, <1>6, <1>7, <1>8, <1>9, <1>10 DEF StoreStep

\* The store is always in one of the states described above.
THEOREM StoreInvariant == StoreSpec => []StoreInv
<1>1. StoreInit => StoreInv
  BY StoreInvInit
<1>2. StoreInv /\ [StoreNext]_storeVars => StoreInv'
  <2>1. CASE StoreInv /\ StoreNext
    BY <2>1, StepsAreSteps, StoreInvStep DEF StoreInv
  <2>2. CASE StoreInv /\ UNCHANGED storeVars
    <3>1. (StoreTypeOK /\ OnDisk)'
      BY <2>2 DEF storeVars, StoreInv, StoreTypeOK, OnDisk
    <3>2. (SaveState /\ RestoreState /\ RepairState /\ RetryState /\ RetainedState)'
      BY <2>2
      DEF storeVars, StoreInv, SaveState, RestoreState, RepairState, RetryState, RetainedState,
          Readable
    <3>3. (AlwaysACopy /\ CacheIsPrimary)'
      BY <2>2 DEF storeVars, StoreInv, AlwaysACopy, CacheIsPrimary
    <3> QED  BY <3>1, <3>2, <3>3 DEF StoreInv
  <2> QED  BY <2>1, <2>2
<1> QED
  BY <1>1, <1>2, PTL DEF StoreSpec

\* Every value is of its type.
THEOREM StoreTypes == StoreSpec => []StoreTypeOK
BY StoreInvariant, PTL DEF StoreInv

\* Once an edit has been confirmed, one of the copies can be read whatever a
\* power loss leaves of the replacements that were not synced.
THEOREM ACopyIsKept == StoreSpec => []AlwaysACopy
BY StoreInvariant, PTL DEF StoreInv

\* The list the server works with is the one a restart would read, whichever step
\* of a save has failed (primary_replaced).
THEOREM MemoryFollowsPrimary == StoreSpec => []CacheIsPrimary
BY StoreInvariant, PTL DEF StoreInv

-----------------------------------------------------------------------------
(* The refinement *)

\* A list that a start may find, or a repair is about to serve
CanBeFound(list) ==
    \/ \E c \in Copies : list \in disk[c]
    \/ list = retained
    \/ write.job \in {"repair", "retry"} /\ list = write.list

\* The lists that may be found are those that are not the confirmed one.
LEMMA PossibleLists ==
    \A list : list \in Possible <=> list \in Lists /\ list # confirmed /\ CanBeFound(list)
<1> SUFFICES ASSUME NEW list
             PROVE  list \in Sources <=> CanBeFound(list)
  BY DEF Possible
<1>1. list \in UNION {disk[c] : c \in Copies} <=> \E c \in Copies : list \in disk[c]
  OBVIOUS
<1> QED  BY <1>1 DEF Sources, CanBeFound

\* Nothing is promised, and nothing served, of a store with no files.
LEMMA PromiseInit ==
    ASSUME StoreInit
    PROVE  Promise!Init
<1>1. \A list \in Lists : ~CanBeFound(list)
  BY NotLists DEF StoreInit, CanBeFound, NoWrite
<1>2. Possible = {}
  BY <1>1, PossibleLists
<1> QED  BY <1>2 DEF StoreInit, Promise!Init, Served

\* A replacement of a save is an attempt, the sync of the backup confirms it,
\* every start finds one of the lists promised; the other syncs, the failures and
\* the faults may only lose what was not confirmed.
LEMMA PromiseStep ==
    ASSUME StoreInv, StoreInv', StoreStep
    PROVE  Promise!Next \/ UNCHANGED <<confirmed, Possible, Served>>
<1>0. \A list : list \in Possible <=> list \in Lists /\ list # confirmed /\ CanBeFound(list)
  BY PossibleLists
<1>0p. \A list : list \in Possible'
                   <=> list \in Lists /\ list # confirmed' /\ CanBeFound(list)'
  <2> SUFFICES ASSUME NEW list
               PROVE  list \in Sources' <=> CanBeFound(list)'
    BY DEF Possible
  <2>1. list \in UNION {disk'[c] : c \in Copies} <=> \E c \in Copies : list \in disk'[c]
    OBVIOUS
  <2> QED  BY <2>1 DEF Sources, CanBeFound
<1>S. ASSUME Served' = Served, confirmed' = confirmed,
             \A list \in Lists : CanBeFound(list)' <=> CanBeFound(list)
      PROVE  UNCHANGED <<confirmed, Possible, Served>>
  <2>1. Possible' = Possible  BY <1>0, <1>0p, <1>S
  <2> QED  BY <1>S, <2>1
<1>L. ASSUME Served' \in {Served, Unavailable}, confirmed' = confirmed,
             \A list \in Lists : CanBeFound(list)' => CanBeFound(list)
      PROVE  Promise!Next
  BY <1>0, <1>0p, <1>L DEF Promise!Next, Promise!Lose
<1>F. ASSUME Served = Unavailable, confirmed' = confirmed,
             \A list \in Lists : CanBeFound(list)' <=> CanBeFound(list),
             Served' \in Lists, Served' = confirmed \/ CanBeFound(Served')
      PROVE  Promise!Next
  <2>1. Possible' = Possible  BY <1>0, <1>0p, <1>F
  <2>2. Served' \in {confirmed} \union Possible  BY <1>0, <1>F
  <2> QED  BY <1>F, <2>1, <2>2 DEF Promise!Next, Promise!Start
<1> USE DEF StoreInv, StoreTypeOK, OnDisk
<1>T. write.copy \in Copies /\ write.list \in Lists /\ Unavailable \notin Lists
  BY NotLists
<1>1. CASE Replace
  <2>1. \A list : (\E c \in Copies : list \in disk'[c])
                     <=> (\E c \in Copies : list \in disk[c]) \/ list = write.list
    BY <1>1, <1>T DEF Replace
  <2>2. write'.job = write.job /\ write'.list = write.list
    BY <1>1 DEF Replace
  <2>3. CASE write.job = "save"
    <3>1. Served # Unavailable /\ Served' = write.list
      BY <1>1, <1>T, <2>3 DEF Replace, Served, SaveState, Copies
    <3>2. \A list : CanBeFound(list)' <=> CanBeFound(list) \/ list = write.list
      BY <1>1, <2>1, <2>2, <2>3 DEF Replace, CanBeFound
    <3>3. confirmed' = confirmed
      BY <1>1 DEF Replace
    <3>4. Possible' = Possible \union ({write.list} \ {confirmed})
      BY <1>0, <1>0p, <1>T, <3>2, <3>3
    <3> QED  BY <1>T, <3>1, <3>3, <3>4 DEF Promise!Next, Promise!Attempt
  <2>4. CASE write.job # "save"
    <3>1. Served' = Served /\ confirmed' = confirmed
      BY <1>1, <2>4 DEF Replace, Served
    <3>2. \A list : CanBeFound(list)' <=> CanBeFound(list)
      BY <1>1, <2>1, <2>2, <2>4 DEF Replace, CanBeFound
    <3> QED  BY <1>S, <3>1, <3>2
  <2> QED  BY <2>3, <2>4
<1>2. CASE SyncSave
  <2>0. disk' = [c \in Copies |-> {files[c]}]
    BY <1>2 DEF SyncSave, Synced
  <2>1. Served' = Served /\ Served = cache /\ retained = Unavailable /\ retained' = Unavailable
    BY <1>2 DEF SyncSave, SaveState, RetainedState, Served
  <2>2. write'.job \notin {"repair", "retry"}
    <3>1. CASE write.copy = "primary"
      BY <1>2, <3>1 DEF SyncSave
    <3>2. CASE write.copy # "primary"
      BY <1>2, <3>2 DEF SyncSave, NoWrite
    <3> QED  BY <3>1, <3>2
  <2>3. CASE write.copy = "primary"
    <3>1. \A list \in Lists : CanBeFound(list)' => CanBeFound(list)
      BY <1>T, <2>0, <2>1, <2>2 DEF CanBeFound
    <3>2. confirmed' = confirmed
      BY <1>2, <2>3 DEF SyncSave
    <3> QED  BY <1>L, <2>1, <3>1, <3>2
  <2>4. CASE write.copy = "backup"
    <3>1. confirmed' = write.list /\ cache = write.list
      BY <1>2, <2>4 DEF SyncSave, SaveState
    <3>2. \A c \in Copies : files[c] \in Lists => files[c] = write.list
      BY <1>2, <2>4, <3>1 DEF SyncSave, SaveState, CacheIsPrimary, Copies
    <3>3. \A list \in Lists : CanBeFound(list)' => list = write.list
      BY <1>T, <2>0, <2>1, <2>2, <3>2 DEF CanBeFound
    <3>4. Possible' = {}
      BY <1>0p, <3>1, <3>3
    <3> QED  BY <1>T, <2>1, <3>1, <3>4 DEF Promise!Next, Promise!Confirm
  <2> QED  BY <1>T, <2>3, <2>4 DEF Copies
<1>3. CASE SyncRestored
  <2>0. disk' = [c \in Copies |-> {files[c]}]
    BY <1>3 DEF SyncRestored, Synced
  <2>1. /\ Served' = Served /\ confirmed' = confirmed /\ retained' = retained
        /\ write'.job = write.job /\ write'.list = write.list
    BY <1>3 DEF SyncRestored, Served
  <2>2. \A list \in Lists : CanBeFound(list)' => CanBeFound(list)
    BY <2>0, <2>1 DEF CanBeFound
  <2> QED  BY <1>L, <2>1, <2>2
<1>4. CASE WriteFails
  <2>1. Served' = Served /\ confirmed' = confirmed
    BY <1>4 DEF WriteFails, Served
  <2>2. \A list \in Lists : CanBeFound(list)' <=> CanBeFound(list)
    BY <1>4 DEF WriteFails, CanBeFound, RetryState, NoWrite
  <2> QED  BY <1>S, <2>1, <2>2
<1>5. CASE LoadPrimary
  <2>1. /\ Served = Unavailable /\ Served' = files["primary"]
        /\ confirmed' = confirmed /\ retained = Unavailable
    BY <1>5 DEF LoadPrimary, Served, RetainedState
  <2>2. \A list : CanBeFound(list)' <=> CanBeFound(list)
    BY <1>5, <2>1 DEF LoadPrimary, CanBeFound
  <2>3. Served' \in Lists /\ CanBeFound(Served')
    BY <1>5, <2>1 DEF LoadPrimary, CanBeFound, Copies
  <2> QED  BY <1>F, <2>1, <2>2, <2>3
<1>6. CASE LoadBackup
  <2>1. Served' = Served /\ confirmed' = confirmed /\ retained = Unavailable
    BY <1>6 DEF LoadBackup, Served, RetainedState
  <2>2. write.job = "none" /\ write'.list = files["backup"]
    BY <1>6 DEF LoadBackup, Idle, NoWrite
  <2>3. files["backup"] \in disk["backup"]
    BY DEF Copies
  <2>4. \A list : CanBeFound(list)' <=> CanBeFound(list)
    BY <1>6, <2>1, <2>2, <2>3 DEF LoadBackup, CanBeFound, Copies
  <2> QED  BY <1>S, <2>1, <2>4
<1>7. CASE Repaired
  <2>1. /\ Served = Unavailable /\ Served' = write.list /\ confirmed' = confirmed
        /\ retained' = retained /\ disk' = disk
    BY <1>7 DEF Repaired, Served, RepairState
  <2>2. \E c \in Copies : write.list \in disk[c]
    BY <1>7 DEF Repaired, RepairState
  <2>3. write'.job = "none"
    BY <1>7 DEF Repaired, NoWrite
  <2>4. \A list : CanBeFound(list)' <=> CanBeFound(list)
    BY <1>7, <2>1, <2>2, <2>3 DEF CanBeFound
  <2>5. CanBeFound(Served')
    BY <2>1, <2>2 DEF CanBeFound
  <2> QED  BY <1>F, <1>T, <2>1, <2>4, <2>5
<1>8. CASE RepairFails
  <2>1. /\ Served = Unavailable /\ Served' = write.list /\ confirmed' = confirmed
        /\ retained = Unavailable /\ retained' = write.list /\ disk' = disk
    BY <1>8, <1>T DEF RepairFails, Served, RepairState, RetainedState
  <2>2. write.job = "repair" /\ write'.job = "none"
    BY <1>8 DEF RepairFails, NoWrite
  <2>3. \A list \in Lists : CanBeFound(list)' <=> CanBeFound(list)
    BY <1>T, <2>1, <2>2 DEF CanBeFound
  <2>4. CanBeFound(Served')
    BY <2>1, <2>2 DEF CanBeFound
  <2> QED  BY <1>F, <1>T, <2>1, <2>3, <2>4
<1>9. CASE LoadNothing
  <2>1. /\ Served = Unavailable /\ confirmed' = confirmed
        /\ retained = Unavailable /\ retained' = Unavailable
        /\ disk' = disk /\ write' = write
    BY <1>9 DEF LoadNothing, Served, RetainedState
  <2>2. \A list : CanBeFound(list)' <=> CanBeFound(list)
    BY <2>1 DEF CanBeFound
  <2>3. CASE \A c \in Copies : files[c] = Missing
    <3>1. Served' = Empty
      BY <1>9, <2>3 DEF LoadNothing, Served
    <3>2. confirmed = Empty
      BY <2>3, NotLists DEF AlwaysACopy
    <3> QED  BY <1>F, <2>1, <2>2, <3>1, <3>2, Edited
  <2>4. CASE ~ \A c \in Copies : files[c] = Missing
    <3>1. Served' = Unavailable
      BY <1>9, <2>1, <2>4 DEF LoadNothing, Served
    <3> QED  BY <1>S, <2>1, <2>2, <3>1
  <2> QED  BY <2>3, <2>4
<1>10. CASE \E list \in Lists : Edit(list)
  <2>1. Served' = Served /\ confirmed' = confirmed
    BY <1>10 DEF Edit, Served
  <2>2. \A list : CanBeFound(list)' <=> CanBeFound(list)
    BY <1>10 DEF Edit, CanBeFound, Idle, NoWrite
  <2> QED  BY <1>S, <2>1, <2>2
<1>11. CASE RetryRecovery
  <2>1. Served' = Served /\ confirmed' = confirmed
    BY <1>11 DEF RetryRecovery, Served
  <2>2. \A list : CanBeFound(list)' <=> CanBeFound(list)
    BY <1>11 DEF RetryRecovery, CanBeFound, Idle, NoWrite
  <2> QED  BY <1>S, <2>1, <2>2
<1>12. CASE Recovered
  <2>1. Served' = Served /\ confirmed' = confirmed
    BY <1>12, <1>T DEF Recovered, Served, RetryState
  <2>2. \A list \in Lists : CanBeFound(list)' => CanBeFound(list)
    BY <1>12, <1>T DEF Recovered, CanBeFound, NoWrite
  <2> QED  BY <1>L, <2>1, <2>2
<1>13. CASE Crash \/ PowerLoss
  <2>1. /\ Served' = Unavailable /\ confirmed' = confirmed
        /\ retained' = Unavailable /\ write'.job = "none"
    BY <1>13 DEF Crash, PowerLoss, Stopped, Served, NoWrite
  <2>2. \A c \in Copies : disk'[c] \subseteq disk[c]
    BY <1>13 DEF Crash, PowerLoss
  <2>3. \A list \in Lists : CanBeFound(list)' => CanBeFound(list)
    BY <1>T, <2>1, <2>2 DEF CanBeFound
  <2> QED  BY <1>L, <2>1, <2>3
<1>14. CASE \E c \in Copies : Damage(c)
  <2>1. Served' = Served /\ confirmed' = confirmed /\ UNCHANGED <<retained, write>>
    BY <1>14 DEF Damage, Served
  <2>2. \A c \in Copies : disk'[c] \intersect Lists \subseteq disk[c]
    BY <1>14, NotLists DEF Damage
  <2>3. \A list \in Lists : CanBeFound(list)' => CanBeFound(list)
    BY <2>1, <2>2 DEF CanBeFound
  <2> QED  BY <1>L, <2>1, <2>3
<1> QED
  BY <1>1, <1>2, <1>3, <1>4, <1>5, <1>6, <1>7, <1>8, <1>9, <1>10, <1>11, <1>12, <1>13, <1>14
  DEF StoreStep

\* The store keeps its promise, through every failed step, stop, power loss and
\* damaged copy: what was confirmed is found again, or something later.
THEOREM KeepsThePromise == StoreSpec => ImplementsDurableList
<1>1. StoreInit => Promise!Init
  BY PromiseInit
<1>2. StoreInv /\ StoreInv' /\ [StoreNext]_storeVars => [Promise!Next]_Promise!listVars
  <2>1. CASE StoreInv /\ StoreInv' /\ StoreNext
    BY <2>1, StepsAreSteps, PromiseStep DEF StoreInv, Promise!listVars
  <2>2. CASE UNCHANGED storeVars
    BY <2>2 DEF storeVars, Promise!listVars, Possible, Sources, Served
  <2> QED  BY <2>1, <2>2
<1> QED
  BY <1>1, <1>2, StoreInvariant, PTL DEF StoreSpec, ImplementsDurableList, Promise!Spec
=============================================================================
