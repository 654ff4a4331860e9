---------------------------- MODULE DeviceStore ----------------------------
(***************************************************************************)
(* devices.json with its backup, the list kept in memory, and the recovery *)
(* mode.  An edit writes the primary and then the backup, each through a   *)
(* temporary file, a replacement and a sync of the directory, any of which *)
(* can fail; a start repairs a primary that cannot be read from the backup *)
(* or protects both files.  The process can be stopped between any two     *)
(* steps; with the power, what was not synced may be gone.                 *)
(***************************************************************************)
EXTENDS FiniteSets, Integers

CONSTANTS Devices,      \* device ids
          Configs,      \* what an edit can set of a device: host, port, commands
          Absent,       \* the device is not in the list
          Missing,      \* there is no such file
          Corrupt,      \* a file that cannot be parsed
          Unavailable,  \* no list is served
          MaxDevices    \* MAX_DEVICES

ASSUME StoreAssumption ==
    /\ MaxDevices \in Nat
    /\ Absent \notin Configs
    /\ \A nothing \in {Missing, Corrupt, Unavailable} :
          nothing \notin [Devices -> Configs \union {Absent}]

Lists == [Devices -> Configs \union {Absent}]
Empty == [d \in Devices |-> Absent]
Listed(list) == {d \in Devices : list[d] # Absent}

Copies == {"primary", "backup"}
Contents == Lists \union {Missing, Corrupt}
Other(c) == IF c = "primary" THEN "backup" ELSE "primary"

VARIABLES
    files,      \* files[c]: what reading a copy gives
    disk,       \* disk[c]: what it may hold after the power has gone
    mode,       \* "down", "up", or "recovery": up, and read-only
    cache,      \* runtime_state._devices_cache
    retained,   \* runtime_state._recovery_backup_contents
    write,      \* the write under way, and what it is for
    confirmed   \* history: the last list whose save returned True

storeVars == <<files, disk, mode, cache, retained, write, confirmed>>

NoWrite == [job |-> "none", copy |-> "primary", list |-> Empty, stage |-> "replace"]
Idle == write = NoWrite

StoreInit ==
    /\ files = [c \in Copies |-> Missing]
    /\ disk = [c \in Copies |-> {Missing}]
    /\ mode = "down"
    /\ cache = Empty
    /\ retained = Unavailable
    /\ write = NoWrite
    /\ confirmed = Empty

-----------------------------------------------------------------------------
(* One private file written (_write_private_payload) *)

\* Faulty variant: the list in memory changes only when the whole save is done
ReplaceSilently ==
    /\ write.job # "none" /\ write.stage = "replace"
    /\ files' = [files EXCEPT ![write.copy] = write.list]
    /\ disk' = [disk EXCEPT ![write.copy] = @ \union {write.list}]
    /\ cache' = IF write.job = "save" /\ write.copy = "backup" THEN write.list ELSE cache
    /\ write' = [write EXCEPT !.stage = "sync"]
    /\ UNCHANGED <<mode, retained, confirmed>>

\* The temporary file is complete and takes the place of the copy; memory
\* follows as soon as the primary has been replaced (primary_replaced)
Replace ==
    /\ write.job # "none" /\ write.stage = "replace"
    /\ files' = [files EXCEPT ![write.copy] = write.list]
    /\ disk' = [disk EXCEPT ![write.copy] = @ \union {write.list}]
    /\ cache' = IF write.job = "save" /\ write.copy = "primary" THEN write.list ELSE cache
    /\ write' = [write EXCEPT !.stage = "sync"]
    /\ UNCHANGED <<mode, retained, confirmed>>

\* Faulty variant: nothing is synced
SyncedNot == disk' = disk

\* The directory is synced, with every replacement in it
Synced == disk' = [c \in Copies |-> {files[c]}]

\* A save goes on with the backup, and is confirmed when that is synced too
SyncSave ==
    /\ write.job = "save" /\ write.stage = "sync"
    /\ Synced
    /\ IF write.copy = "primary"
       THEN /\ write' = [write EXCEPT !.copy = "backup", !.stage = "replace"]
            /\ UNCHANGED confirmed
       ELSE /\ write' = NoWrite
            /\ confirmed' = write.list
    /\ UNCHANGED <<files, mode, cache, retained>>

\* A restored primary is read back
SyncRestored ==
    /\ write.job \in {"repair", "retry"} /\ write.stage = "sync"
    /\ Synced
    /\ write' = [write EXCEPT !.stage = "verify"]
    /\ UNCHANGED <<files, mode, cache, retained, confirmed>>

\* Any of these steps can raise: before the replacement, which leaves the copy
\* as it was, or after it.  A save or a retry answers with an error.
WriteFails ==
    /\ write.job \in {"save", "retry"}
    /\ write' = NoWrite
    /\ UNCHANGED <<files, disk, mode, cache, retained, confirmed>>

-----------------------------------------------------------------------------
(* Starting (_load_startup_devices) *)

LoadPrimary ==
    /\ mode = "down" /\ Idle
    /\ files["primary"] \in Lists
    /\ mode' = "up"
    /\ cache' = files["primary"]
    /\ retained' = Unavailable
    /\ UNCHANGED <<files, disk, write, confirmed>>

\* The primary cannot be read, or not this time, and the backup can
LoadBackup ==
    /\ mode = "down" /\ Idle
    /\ files["backup"] \in Lists
    /\ write' = [job |-> "repair", copy |-> "primary", list |-> files["backup"],
                 stage |-> "replace"]
    /\ retained' = Unavailable
    /\ UNCHANGED <<files, disk, mode, cache, confirmed>>

\* The repair is verified: the list is the backup's
Repaired ==
    /\ write.job = "repair" /\ write.stage = "verify"
    /\ write' = NoWrite
    /\ mode' = "up"
    /\ cache' = write.list
    /\ UNCHANGED <<files, disk, retained, confirmed>>

\* The repair has failed: both files are protected, and the server works with
\* the backup's list
RepairFails ==
    /\ write.job = "repair"
    /\ write' = NoWrite
    /\ mode' = "recovery"
    /\ cache' = write.list
    /\ retained' = write.list
    /\ UNCHANGED <<files, disk, confirmed>>

\* Faulty variant: a missing primary is a new installation, whatever the backup is
LoadEmpty ==
    /\ mode = "down" /\ Idle
    /\ mode' = IF files["primary"] = Missing THEN "up" ELSE "recovery"
    /\ cache' = Empty
    /\ retained' = Unavailable
    /\ UNCHANGED <<files, disk, write, confirmed>>

\* Neither file exists: a new installation.  Neither can be read: both are
\* protected, and nothing is served.
LoadNothing ==
    /\ mode = "down" /\ Idle
    /\ mode' = IF \A c \in Copies : files[c] = Missing THEN "up" ELSE "recovery"
    /\ cache' = Empty
    /\ retained' = Unavailable
    /\ UNCHANGED <<files, disk, write, confirmed>>

-----------------------------------------------------------------------------
(* Handlers *)

\* Faulty variant: an edit is taken in recovery mode too
EditAnyTime(list) ==
    /\ mode # "down" /\ Idle
    /\ write' = [job |-> "save", copy |-> "primary", list |-> list, stage |-> "replace"]
    /\ UNCHANGED <<files, disk, mode, cache, retained, confirmed>>

\* An edit works on the list in memory and saves it (_save)
Edit(list) ==
    /\ mode = "up" /\ Idle
    /\ write' = [job |-> "save", copy |-> "primary", list |-> list, stage |-> "replace"]
    /\ UNCHANGED <<files, disk, mode, cache, retained, confirmed>>

\* A device is added while there is room, or changed
Upsert(d, config) ==
    /\ cache[d] = Absent => Cardinality(Listed(cache)) < MaxDevices
    /\ Edit([cache EXCEPT ![d] = config])

UpdateCommands(d, config) ==
    /\ cache[d] # Absent
    /\ Edit([cache EXCEPT ![d] = config])

Delete(d) ==
    /\ cache[d] # Absent
    /\ Edit([cache EXCEPT ![d] = Absent])

\* Recovery is tried again with the backup's list, as it was read at the start
RetryRecovery ==
    /\ mode = "recovery" /\ Idle
    /\ retained # Unavailable
    /\ write' = [job |-> "retry", copy |-> "primary", list |-> retained, stage |-> "replace"]
    /\ UNCHANGED <<files, disk, mode, cache, retained, confirmed>>

Recovered ==
    /\ write.job = "retry" /\ write.stage = "verify"
    /\ write' = NoWrite
    /\ mode' = "up"
    /\ retained' = Unavailable
    /\ UNCHANGED <<files, disk, cache, confirmed>>

-----------------------------------------------------------------------------
(* Faults *)

\* What is in memory is gone
Stopped ==
    /\ mode' = "down"
    /\ write' = NoWrite
    /\ cache' = Empty
    /\ retained' = Unavailable

\* The process is stopped; the files stay as they are
Crash ==
    /\ Stopped
    /\ UNCHANGED <<files, disk, confirmed>>

\* The machine stops: a replacement that was not synced is there or not
PowerLoss ==
    /\ \E left \in [Copies -> UNION {disk[c] : c \in Copies}] :
          /\ \A c \in Copies : left[c] \in disk[c]
          /\ files' = left
          /\ disk' = [c \in Copies |-> {left[c]}]
    /\ Stopped
    /\ UNCHANGED confirmed

\* Somebody removes or damages a copy, while the other is good and safe
Damage(c) ==
    /\ disk[Other(c)] \subseteq Lists
    /\ \E bad \in {Missing, Corrupt} :
          /\ files' = [files EXCEPT ![c] = bad]
          /\ disk' = [disk EXCEPT ![c] = {bad}]
    /\ UNCHANGED <<mode, cache, retained, write, confirmed>>

StoreNext ==
    \/ Replace \/ SyncSave \/ SyncRestored \/ WriteFails
    \/ LoadPrimary \/ LoadBackup \/ Repaired \/ RepairFails \/ LoadNothing
    \/ \E d \in Devices :
          \/ Delete(d)
          \/ \E config \in Configs : Upsert(d, config) \/ UpdateCommands(d, config)
    \/ RetryRecovery \/ Recovered
    \/ Crash \/ PowerLoss
    \/ \E c \in Copies : Damage(c)

StoreSpec == StoreInit /\ [][StoreNext]_storeVars

-----------------------------------------------------------------------------
(* Properties *)

StoreTypeOK ==
    /\ files \in [Copies -> Contents]
    /\ disk \in [Copies -> SUBSET Contents]
    /\ mode \in {"down", "up", "recovery"}
    /\ cache \in Lists
    /\ retained \in Lists \union {Unavailable}
    /\ write \in [job : {"none", "save", "repair", "retry"}, copy : Copies, list : Lists,
                  stage : {"replace", "sync", "verify"}]
    /\ confirmed \in Lists

\* Whatever a power loss leaves, one of the copies can be read, once an edit has
\* been confirmed: this is what the order of _save's steps is for.
AlwaysACopy == confirmed # Empty => \E c \in Copies : disk[c] \subseteq Lists

\* The list the server works with, and bases the next edit on, is the one a
\* restart would read (primary_replaced), whatever step of a save has failed.
CacheIsPrimary ==
    mode = "up" /\ files["primary"] \in Lists => cache = files["primary"]

\* The store keeps its promise, through every failed step, stop, power loss and
\* damaged copy: what was confirmed is found again, or something later.
Served ==
    IF mode = "up" \/ (mode = "recovery" /\ retained # Unavailable) THEN cache ELSE Unavailable
Sources == (UNION {disk[c] : c \in Copies}) \union {retained}
           \union (IF write.job \in {"repair", "retry"} THEN {write.list} ELSE {})
Possible == (Lists \intersect Sources) \ {confirmed}

Promise == INSTANCE DurableList
           WITH possible <- Possible, served <- Served

ImplementsDurableList == Promise!Spec
============================================================================
