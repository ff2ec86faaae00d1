-------------------------------- MODULE Esfs --------------------------------
(***************************************************************************)
(* The encrypted file system (esfs.c) with the layers that call it: the    *)
(* storage (storage.c) and the key and configuration manager               *)
(* (key_config_manager.c). Every item is a file of the working directory;  *)
(* a factory item also has a file in the backup directory. A call is a     *)
(* sequence of file system operations, each a step of its own, and the     *)
(* power may be cut between any two.                                       *)
(*                                                                         *)
(* A file is absent, whole, or torn. A file that is created but not closed *)
(* is torn: its signature is missing, so esfs_open refuses it, and         *)
(* esfs_create refuses to replace it.                                      *)
(***************************************************************************)
EXTENDS Naturals, FiniteSets

CONSTANTS
    Items,          \* the files' names
    MaxGen,         \* contents are told apart by the number 0..MaxGen
    MaxFaults       \* bound on the operations of the file system that fail

ASSUME EsfsAssumption == Items # {} /\ MaxGen \in Nat

VARIABLES
    working,        \* ESFS_WORKING_DIRECTORY
    backup,         \* ESFS_BACKUP_DIRECTORY
    fr_on,          \* the flag file of a factory reset under way
    initialized,    \* kcm_initialized and esfs_initialize
    call,           \* the call under way, or the result of the last one
    faults          \* the calls in which the file system has failed: a delete, another

disk  == <<working, backup, fr_on>>
store == <<working, backup, fr_on, initialized, call, faults>>

Absent   == [is |-> "absent", gen |-> 0]
Torn     == [is |-> "torn", gen |-> 0]
Whole(g) == [is |-> "whole", gen |-> g]
File     == {Absent, Torn} \cup {Whole(g) : g \in 0..MaxGen}

Ops   == {"init", "store", "store_factory", "delete", "reset", "wipe"}
Steps == {"idle", "init", "probe", "unprobe", "backup", "unbackup", "header",
          "drop", "data", "close", "copy_open", "copy_write", "delete",
          "flag", "clear", "copy", "wipe_working", "wipe_backup"}

CallRecord == [op : Ops, item : Items, gen : 0..MaxGen, step : Steps,
               status : {"none", "success", "exists", "missing", "error"},
               invalid : BOOLEAN, left : SUBSET Items]

StoreTypeOK ==
    /\ working \in [Items -> File]
    /\ backup \in [Items -> File]
    /\ fr_on \in BOOLEAN
    /\ initialized \in BOOLEAN
    /\ call \in CallRecord
    /\ faults \subseteq {"delete", "other"}

NoCall == [op |-> "init", item |-> CHOOSE i \in Items : TRUE, gen |-> 0,
           step |-> "idle", status |-> "none", invalid |-> FALSE, left |-> {}]

StoreInit == /\ working = [i \in Items |-> Absent]
             /\ backup = [i \in Items |-> Absent]
             /\ fr_on = FALSE
             /\ initialized = FALSE
             /\ call = NoCall
             /\ faults = {}

Idle      == call.step = "idle"
IsFactory == call.op = "store_factory"
At(s)     == call.step = s

Go(s)     == call' = [call EXCEPT !.step = s]
Return(r) == call' = [call EXCEPT !.step = "idle", !.status = r,
                                  !.invalid = FALSE, !.left = {}]
Failing   == IF call.op = "delete" THEN "delete" ELSE "other"
Fault     == /\ Failing \notin faults
             /\ Cardinality(faults) < MaxFaults
             /\ faults' = faults \cup {Failing}

\* The content of the file that a store writes.
PutTarget(c) ==
    /\ IF IsFactory THEN backup' = [backup EXCEPT ![call.item] = c] /\ UNCHANGED working
                    ELSE working' = [working EXCEPT ![call.item] = c] /\ UNCHANGED backup
    /\ UNCHANGED fr_on

PutWorking(i, c) == /\ working' = [working EXCEPT ![i] = c]
                    /\ UNCHANGED <<backup, fr_on>>

-----------------------------------------------------------------------------
(* Reading: esfs_open accepts a file that is whole, so get_config_...      *)
(* returns its value.                                                      *)

Readable(i) == working[i].is = "whole"

-----------------------------------------------------------------------------
(* Calls. Each initializes the storage first if that was not done.         *)

First == [store |-> "probe", store_factory |-> "probe", delete |-> "delete",
          reset |-> "flag", wipe |-> "wipe_working", init |-> "init"]

Calls(op, i, g) ==
    [NoCall EXCEPT !.op = op, !.item = i, !.gen = g,
                   !.step = IF initialized THEN First[op] ELSE "init"]

\* What follows when the storage is initialized.
Initialized ==
    /\ initialized' = TRUE
    /\ IF call.op \in {"init", "wipe"} THEN Return("success") ELSE Go(First[call.op])

\* esfs_init: an unfinished factory reset is done again.
EsfsInit ==
    /\ At("init")
    /\ IF fr_on /\ ~initialized
       THEN Go("flag") /\ UNCHANGED initialized
       ELSE Initialized
    /\ UNCHANGED <<disk, faults>>

-----------------------------------------------------------------------------
(* kcm_item_store. esfs_create tests for the file by creating it, so the   *)
(* file is there, torn, for a moment.                                      *)

Probe ==
    /\ At("probe")
    /\ IF working[call.item] = Absent
       THEN PutWorking(call.item, Torn) /\ Go("unprobe")
       ELSE UNCHANGED disk /\ Return("exists")
    /\ UNCHANGED <<initialized, faults>>

Unprobe ==
    /\ At("unprobe")
    /\ \/ /\ PutWorking(call.item, Absent)
          /\ Go(IF IsFactory THEN "backup" ELSE "header")
          /\ UNCHANGED faults
       \/ Fault /\ UNCHANGED disk /\ Return("error")
    /\ UNCHANGED initialized

\* A factory file is tested for in the same way; one that exists is replaced.
ProbeBackup ==
    /\ At("backup")
    /\ backup' = [backup EXCEPT ![call.item] = IF @ = Absent THEN Torn ELSE @]
    /\ Go("unbackup")
    /\ UNCHANGED <<working, fr_on, initialized, faults>>

DropBackup ==
    /\ At("unbackup")
    /\ PutTarget(Absent)
    /\ Go("header")
    /\ UNCHANGED <<initialized, faults>>

\* esfs_create_internal: the header. A file whose header cannot be written is
\* removed.
CreateInternal ==
    /\ At("header")
    /\ PutTarget(Torn)
    /\ \/ Go("data") /\ UNCHANGED faults
       \/ Go("drop") /\ Fault
    /\ UNCHANGED initialized

DropCreated ==
    /\ At("drop")
    /\ PutTarget(Absent)
    /\ Return("error")
    /\ UNCHANGED <<initialized, faults>>

\* esfs_write: a failure marks the file invalid.
WriteData ==
    /\ At("data")
    /\ \/ Go("close") /\ UNCHANGED faults
       \/ Fault /\ call' = [call EXCEPT !.step = "close", !.invalid = TRUE]
    /\ UNCHANGED <<disk, initialized>>

\* esfs_close writes the signature and closes. An invalid file is removed from
\* the working directory, also when it was created in the backup directory. A
\* file that could not be closed stays.
CloseFile ==
    /\ At("close")
    /\ \/ /\ ~call.invalid
          /\ PutTarget(Whole(call.gen))
          /\ IF IsFactory THEN Go("copy_open") ELSE Return("success")
          /\ UNCHANGED faults
       \/ /\ IF call.invalid THEN UNCHANGED faults ELSE Fault
          /\ PutWorking(call.item, Absent)
          /\ Return("error")
       \/ /\ ~call.invalid
          /\ Fault
          /\ Return("error")
          /\ UNCHANGED disk
    /\ UNCHANGED initialized

\* esfs_copy_file: a factory file is copied from the backup directory.
CopyOpen ==
    /\ At("copy_open")
    /\ PutWorking(call.item, Torn)
    /\ Go("copy_write")
    /\ UNCHANGED <<initialized, faults>>

CopyWrite ==
    /\ At("copy_write")
    /\ \/ PutWorking(call.item, backup[call.item]) /\ Return("success") /\ UNCHANGED faults
       \/ PutWorking(call.item, Absent) /\ Return("error") /\ Fault
    /\ UNCHANGED initialized

-----------------------------------------------------------------------------
(* kcm_item_delete: a file that is torn is deleted too.                    *)

DeleteFile ==
    /\ At("delete")
    /\ \/ /\ PutWorking(call.item, Absent)
          /\ Return(IF working[call.item] = Absent THEN "missing" ELSE "success")
          /\ UNCHANGED faults
       \/ Fault /\ UNCHANGED disk /\ Return("error")
    /\ UNCHANGED initialized

-----------------------------------------------------------------------------
(* esfs_factory_reset, called by kcm_factory_reset or by esfs_init. A      *)
(* failure leaves the flag where it is.                                    *)

FactoryFails(s) == /\ At(s)
                   /\ Fault
                   /\ Return("error")
                   /\ UNCHANGED <<disk, initialized>>

SetFlag ==
    /\ At("flag")
    /\ fr_on' = TRUE
    /\ Go("clear")
    /\ UNCHANGED <<working, backup, initialized, faults>>


\* pal_plat_fsRmFiles, then pal_plat_fsCpFolder over the files of the backup.
ClearWorking ==
    /\ At("clear")
    /\ \/ \E i \in Items : /\ working[i] # Absent
                           /\ PutWorking(i, Absent)
                           /\ UNCHANGED call
       \/ /\ \A i \in Items : working[i] = Absent
          /\ call' = [call EXCEPT !.step = "copy",
                                  !.left = {i \in Items : backup[i] # Absent}]
          /\ UNCHANGED disk
    /\ UNCHANGED <<initialized, faults>>

\* pal_plat_fsCpFile truncates the destination, then writes it.
CopyBack ==
    /\ At("copy")
    /\ \E i \in call.left :
          \/ /\ \A j \in call.left : working[j] = Absent
             /\ PutWorking(i, Torn)
             /\ UNCHANGED call
          \/ /\ working[i] = Torn
             /\ PutWorking(i, backup[i])
             /\ call' = [call EXCEPT !.left = @ \ {i}]
    /\ UNCHANGED <<initialized, faults>>

\* Mutant: the flag is removed before the files are copied.
ClearFlagEarly ==
    /\ At("copy")
    /\ IF call.left = {}
       THEN IF initialized THEN Return("success") /\ UNCHANGED initialized ELSE Initialized
       ELSE fr_on /\ UNCHANGED <<call, initialized>>
    /\ fr_on' = FALSE
    /\ UNCHANGED <<working, backup, faults>>

ClearFlag ==
    /\ At("copy")
    /\ call.left = {}
    /\ fr_on' = FALSE
    /\ IF initialized THEN Return("success") /\ UNCHANGED initialized ELSE Initialized
    /\ UNCHANGED <<working, backup, faults>>

-----------------------------------------------------------------------------
(* storage_reset: esfs_reset removes both directories and initializes      *)
(* again.                                                                  *)

WipeWorking ==
    /\ At("wipe_working")
    /\ \/ \E i \in Items : /\ working[i] # Absent
                           /\ PutWorking(i, Absent)
                           /\ UNCHANGED call
       \/ (\A i \in Items : working[i] = Absent) /\ Go("wipe_backup") /\ UNCHANGED disk
    /\ UNCHANGED <<initialized, faults>>

WipeBackup ==
    /\ At("wipe_backup")
    /\ \/ /\ \E i \in Items : /\ backup[i] # Absent
                              /\ backup' = [backup EXCEPT ![i] = Absent]
          /\ UNCHANGED <<call, initialized>>
       \/ /\ \A i \in Items : backup[i] = Absent
          /\ initialized' = FALSE
          /\ Go("init")
          /\ UNCHANGED backup
    /\ fr_on' = FALSE
    /\ UNCHANGED <<working, faults>>

-----------------------------------------------------------------------------

StoreStep ==
    \/ EsfsInit \/ Probe \/ Unprobe \/ ProbeBackup \/ DropBackup
    \/ CreateInternal \/ DropCreated \/ WriteData \/ CloseFile
    \/ CopyOpen \/ CopyWrite \/ DeleteFile
    \/ SetFlag \/ ClearWorking \/ CopyBack \/ ClearFlag
    \/ \E s \in {"flag", "clear", "copy"} : FactoryFails(s)
    \/ WipeWorking \/ WipeBackup

\* The power is cut: what was in memory is gone, and the files stay.
StoreCut == /\ initialized' = FALSE
            /\ call' = NoCall
            /\ UNCHANGED <<disk, faults>>

-----------------------------------------------------------------------------
(* The storage with any careful caller: it makes one call at a time,       *)
(* initializes the storage before it empties it, and restarts the device   *)
(* after a factory reset that failed.                                      *)

CallStore(op, i, g) ==
    /\ Idle
    /\ ~(initialized /\ fr_on)
    /\ op = "wipe" => initialized
    /\ call' = Calls(op, i, g)
    /\ UNCHANGED <<disk, initialized, faults>>

StoreNext == \/ StoreStep
             \/ StoreCut
             \/ \E op \in Ops, i \in Items, g \in 0..MaxGen : CallStore(op, i, g)

StoreSpec == StoreInit /\ [][StoreNext]_store

-----------------------------------------------------------------------------
(* The promise. From the moment the flag file exists a factory reset is    *)
(* done: whoever reads an item has initialized the storage before.         *)

Promise == INSTANCE ItemStore
    WITH Values <- 0..MaxGen, origin <- backup,
         item <- IF fr_on THEN backup ELSE working

\* The storage implements ItemStore, whatever step a power cut falls on:
\* in particular esfs_factory_reset takes effect at once.
KeepsThePromise == Promise!Spec
=============================================================================
