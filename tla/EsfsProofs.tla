----------------------------- MODULE EsfsProofs -----------------------------
(***************************************************************************)
(* The encrypted file system implements ItemStore, for any set of items    *)
(* and contents, with any number of power cuts at any step.                *)
(*                                                                         *)
(* The argument: the flag file is there exactly while a factory reset has  *)
(* to be finished, and then the items are those of the backup directory,   *)
(* so clearing and copying are not seen; when the flag goes both           *)
(* directories are the same.  Without the flag each step of a store, a     *)
(* delete or a wipe is a step of ItemStore, as the file it works on is in  *)
(* the state the steps before it have left.                                *)
(***************************************************************************)
EXTENDS Esfs, TLAPS

\* The steps that are taken without the flag file.
Plain == {"probe", "unprobe", "backup", "unbackup", "header", "drop", "data", "close",
          "copy_open", "copy_write", "delete", "wipe_working", "wipe_backup"}

Mine == working[call.item]

\* Where the flag file is.
FlagInv ==
    /\ call.step \in {"clear", "copy"} => fr_on
    /\ call.step \in Plain => ~fr_on
    /\ call.step = "init" /\ initialized => ~fr_on

\* What the steps before this one have made of the files.
FileInv ==
    /\ call.step \in {"backup", "unbackup", "copy_open", "copy_write"} => IsFactory
    /\ call.step \in {"backup", "unbackup", "header", "copy_open"} => Mine = Absent
    /\ call.step \in {"drop", "data", "close"} => Mine = IF IsFactory THEN Absent ELSE Torn
    /\ call.step \in {"unprobe", "copy_write"} => Mine = Torn
    /\ call.step \in {"copy_open", "copy_write"} => backup[call.item] = Whole(call.gen)
    /\ call.step = "wipe_backup" => \A i \in Items : working[i] = Absent
    /\ call.step = "copy" => \A i \in Items \ call.left : working[i] = backup[i]

IInv == StoreTypeOK /\ FlagInv /\ FileInv

LEMMA FirstStep ==
  /\ First["store"] = "probe" /\ First["store_factory"] = "probe" /\ First["delete"] = "delete"
  /\ First["reset"] = "flag" /\ First["wipe"] = "wipe_working" /\ First["init"] = "init"
BY DEF First

LEMMA FilesAreDifferent ==
  /\ Absent # Torn /\ \A g \in 0..MaxGen : Whole(g) # Absent /\ Whole(g) # Torn /\ Whole(g) \in File
  /\ Absent \in File /\ Torn \in File
BY DEF Absent, Torn, Whole, File

LEMMA NoCallIsTyped ==
  /\ NoCall.step = "idle"
  /\ NoCall \in CallRecord
BY EsfsAssumption DEF NoCall, CallRecord, Ops, Steps

LEMMA InitIsGood == StoreInit => IInv
BY NoCallIsTyped, FilesAreDifferent DEF StoreInit, IInv, StoreTypeOK, FlagInv, FileInv, Plain

LEMMA GoKeepsCall ==
  ASSUME call \in CallRecord, NEW s \in Steps, Go(s)
  PROVE  /\ call' \in CallRecord /\ call'.step = s
         /\ call'.op = call.op /\ call'.item = call.item /\ call'.gen = call.gen
         /\ call'.left = call.left
BY DEF CallRecord, Go

LEMMA ReturnEndsCall ==
  ASSUME call \in CallRecord, NEW r \in {"none", "success", "exists", "missing", "error"}, Return(r)
  PROVE  call' \in CallRecord /\ call'.step = "idle"
BY DEF CallRecord, Return, Steps

LEMMA CallIsTyped ==
  ASSUME call \in CallRecord
  PROVE  /\ call.op \in Ops /\ call.item \in Items /\ call.gen \in 0..MaxGen
         /\ call.step \in Steps /\ call.left \in SUBSET Items
BY DEF CallRecord

\* What a call does once the storage is initialized.
LEMMA InitializedCall ==
  ASSUME call \in CallRecord, Initialized
  PROVE  /\ initialized' = TRUE /\ call' \in CallRecord
         /\ call'.step \in {"idle", "probe", "delete", "flag"}
<1>1. CASE call.op \in {"init", "wipe"}
  BY <1>1, ReturnEndsCall DEF Initialized
<1>2. CASE call.op \notin {"init", "wipe"}
  <2>1. call.op \in {"store", "store_factory", "delete", "reset"}
    BY <1>2, CallIsTyped DEF Ops
  <2>2. First[call.op] \in {"probe", "delete", "flag"}
    BY <2>1, FirstStep
  <2>3. First[call.op] \in Steps /\ Go(First[call.op])
    BY <1>2, <2>2 DEF Initialized, Steps
  <2> QED
    BY <2>2, <2>3, GoKeepsCall DEF Initialized
<1> QED
  BY <1>1, <1>2

LEMMA FaultIsTyped ==
  ASSUME faults \subseteq {"delete", "other"}, Fault
  PROVE  faults' \subseteq {"delete", "other"}
BY DEF Fault, Failing
-----------------------------------------------------------------------------
(* What ItemStore sees of a step. *)

Allowed == [Promise!Next]_(Promise!vars)

LEMMA UnseenStep ==
  ASSUME UNCHANGED <<backup, fr_on>>, fr_on \/ UNCHANGED working
  PROVE  Allowed
BY DEF Allowed, Promise!vars

\* One file of the working directory is created, finished or removed.
LEMMA WorkingStep ==
  ASSUME StoreTypeOK, ~fr_on, NEW i \in Items, NEW c \in File, PutWorking(i, c),
         \/ working[i] = Absent /\ c = Torn
         \/ working[i] = Torn /\ \E g \in 0..MaxGen : c = Whole(g)
         \/ c = Absent
  PROVE  Allowed
<1> DEFINE item == IF fr_on THEN backup ELSE working
<1>1. /\ item = working /\ item' = [working EXCEPT ![i] = c] /\ UNCHANGED backup
      /\ working \in [Items -> File]
  BY DEF PutWorking, StoreTypeOK
<1>2. /\ Promise!Absent = Absent /\ Promise!Damaged = Torn
      /\ \A g : Promise!Whole(g) = Whole(g)
  BY DEF Promise!Absent, Promise!Damaged, Promise!Whole, Absent, Torn, Whole
<1> HIDE DEF item
<1>3. CASE working[i] = Absent /\ c = Torn
  <2>1. Promise!Begin(i)
    BY <1>1, <1>2, <1>3 DEF Promise!Begin, item
  <2> QED
    BY <2>1 DEF Allowed, Promise!Next
<1>4. ASSUME NEW g \in 0..MaxGen, working[i] = Torn, c = Whole(g) PROVE Allowed
  <2>1. Promise!Finish(i, g)
    BY <1>1, <1>2, <1>4 DEF Promise!Finish, item
  <2> QED
    BY <2>1 DEF Allowed, Promise!Next
<1>5. CASE c = Absent /\ working[i] # Absent
  <2>1. Promise!Remove(i)
    BY <1>1, <1>2, <1>5 DEF Promise!Remove, item
  <2> QED
    BY <2>1 DEF Allowed, Promise!Next
<1>6. CASE c = Absent /\ working[i] = Absent
  <2>1. [working EXCEPT ![i] = c] = working
    BY <1>1, <1>6
  <2> QED
    BY <1>1, <2>1 DEF Allowed, Promise!vars, item
<1> QED
  BY <1>3, <1>4, <1>5, <1>6

\* One file of the backup directory changes, and its item is absent.
LEMMA BackupStep ==
  ASSUME StoreTypeOK, ~fr_on, NEW i \in Items, NEW c \in File, working[i] = Absent,
         backup' = [backup EXCEPT ![i] = c], UNCHANGED <<working, fr_on>>
  PROVE  Allowed
<1>1. /\ Promise!Absent = Absent /\ c \in Promise!Content
  BY DEF Promise!Absent, Promise!Content, Promise!Damaged, Promise!Whole, File, Absent, Torn, Whole
<1>2. Promise!SetOrigin(i, c)
  BY <1>1 DEF Promise!SetOrigin
<1> QED
  BY <1>1, <1>2 DEF Allowed, Promise!Next
-----------------------------------------------------------------------------
(* The steps keep the invariant and are allowed. *)

LEMMA IdleIsGood ==
  ASSUME StoreTypeOK', call'.step = "idle"
  PROVE  IInv'
BY DEF IInv, FlagInv, FileInv, Plain

LEMMA StepEsfsInit ==
  ASSUME IInv, EsfsInit
  PROVE  IInv' /\ Allowed
<1>1. Allowed
  BY UnseenStep DEF EsfsInit, disk
<1>2. StoreTypeOK /\ FlagInv /\ call \in CallRecord /\ call.step = "init"
      /\ UNCHANGED <<working, backup, fr_on, faults>>
  BY DEF IInv, StoreTypeOK, EsfsInit, At, disk
<1>3. CASE fr_on /\ ~initialized
  <2>1. Go("flag") /\ UNCHANGED initialized
    BY <1>3 DEF EsfsInit
  <2>2. call' \in CallRecord /\ call'.step = "flag"
    BY <1>2, <2>1, GoKeepsCall DEF Steps
  <2> QED
    BY <1>1, <1>2, <2>1, <2>2 DEF IInv, StoreTypeOK, FlagInv, FileInv, Plain
<1>4. CASE ~(fr_on /\ ~initialized)
  <2>1. ~fr_on
    BY <1>2, <1>4 DEF FlagInv
  <2>2. /\ initialized' = TRUE /\ call' \in CallRecord
        /\ call'.step \in {"idle", "probe", "delete", "flag"}
    BY <1>2, <1>4, InitializedCall DEF EsfsInit
  <2> QED
    BY <1>1, <1>2, <2>1, <2>2 DEF IInv, StoreTypeOK, FlagInv, FileInv, Plain
<1> QED
  BY <1>3, <1>4

LEMMA StepProbe ==
  ASSUME IInv, Probe
  PROVE  IInv' /\ Allowed
<1>1. /\ StoreTypeOK /\ call \in CallRecord /\ call.item \in Items /\ call.step = "probe" /\ ~fr_on
      /\ UNCHANGED <<initialized, faults>>
  BY CallIsTyped DEF IInv, StoreTypeOK, FlagInv, Probe, At, Plain
<1>2. CASE Mine = Absent
  <2>1. PutWorking(call.item, Torn) /\ Go("unprobe")
    BY <1>2 DEF Probe, Mine
  <2>2. call' \in CallRecord /\ call'.step = "unprobe" /\ call'.item = call.item
    BY <1>1, <2>1, GoKeepsCall DEF Steps
  <2>3. Allowed
    BY <1>1, <1>2, <2>1, FilesAreDifferent, WorkingStep DEF Mine
  <2>4. working' \in [Items -> File] /\ Mine' = Torn /\ UNCHANGED <<backup, fr_on>>
    BY <1>1, <2>1, <2>2, FilesAreDifferent DEF PutWorking, Mine, StoreTypeOK
  <2> QED
    BY <1>1, <2>2, <2>3, <2>4 DEF IInv, StoreTypeOK, FlagInv, FileInv, Plain
<1>3. CASE Mine # Absent
  <2>1. UNCHANGED disk /\ Return("exists")
    BY <1>3 DEF Probe, Mine
  <2>2. Allowed
    BY <2>1, UnseenStep DEF disk
  <2> QED
    BY <1>1, <2>1, <2>2, ReturnEndsCall, IdleIsGood DEF StoreTypeOK, disk
<1> QED
  BY <1>2, <1>3

LEMMA StepUnprobe ==
  ASSUME IInv, Unprobe
  PROVE  IInv' /\ Allowed
<1>1. /\ StoreTypeOK /\ call \in CallRecord /\ call.item \in Items /\ call.step = "unprobe" /\ ~fr_on
      /\ UNCHANGED initialized
  BY CallIsTyped DEF IInv, StoreTypeOK, FlagInv, Unprobe, At, Plain
<1>2. CASE PutWorking(call.item, Absent) /\ Go(IF IsFactory THEN "backup" ELSE "header") /\ UNCHANGED faults
  <2>1. /\ call' \in CallRecord /\ call'.step = (IF IsFactory THEN "backup" ELSE "header")
        /\ call'.item = call.item /\ call'.op = call.op
    BY <1>1, <1>2, GoKeepsCall DEF Steps
  <2>2. Allowed
    BY <1>1, <1>2, FilesAreDifferent, WorkingStep
  <2>3. working' \in [Items -> File] /\ Mine' = Absent /\ UNCHANGED <<backup, fr_on>>
    BY <1>1, <1>2, <2>1, FilesAreDifferent DEF PutWorking, Mine, StoreTypeOK
  <2> QED
    BY <1>1, <1>2, <2>1, <2>2, <2>3 DEF IInv, StoreTypeOK, FlagInv, FileInv, Plain, IsFactory
<1>3. CASE Fault /\ UNCHANGED disk /\ Return("error")
  <2>1. Allowed
    BY <1>3, UnseenStep DEF disk
  <2>2. StoreTypeOK' /\ call'.step = "idle"
    BY <1>1, <1>3, ReturnEndsCall, FaultIsTyped DEF StoreTypeOK, disk
  <2> QED
    BY <2>1, <2>2, IdleIsGood
<1> QED
  BY <1>2, <1>3 DEF Unprobe
LEMMA StepProbeBackup ==
  ASSUME IInv, ProbeBackup
  PROVE  IInv' /\ Allowed
<1>1. /\ StoreTypeOK /\ call \in CallRecord /\ call.item \in Items /\ call.step = "backup" /\ ~fr_on
      /\ working \in [Items -> File] /\ backup \in [Items -> File] /\ Mine = Absent /\ IsFactory
      /\ UNCHANGED <<working, fr_on, initialized, faults>>
  BY CallIsTyped DEF IInv, StoreTypeOK, FlagInv, FileInv, ProbeBackup, At, Plain
<1>2. PICK c \in File : backup' = [backup EXCEPT ![call.item] = c]
  BY <1>1, FilesAreDifferent DEF ProbeBackup
<1>3. /\ call' \in CallRecord /\ call'.step = "unbackup"
      /\ call'.item = call.item /\ call'.op = call.op
  BY <1>1, GoKeepsCall DEF ProbeBackup, Steps
<1>4. Allowed
  BY <1>1, <1>2, BackupStep DEF Mine
<1>5. backup' \in [Items -> File] /\ Mine' = Absent
  BY <1>1, <1>2, <1>3 DEF Mine
<1> QED
  BY <1>1, <1>3, <1>4, <1>5 DEF IInv, StoreTypeOK, FlagInv, FileInv, Plain, IsFactory

\* What the file that a store writes becomes: PutTarget.
LEMMA TargetStep ==
  ASSUME StoreTypeOK, call.item \in Items, ~fr_on, NEW c \in File, PutTarget(c),
         IF IsFactory THEN Mine = Absent
         ELSE \/ Mine = Absent /\ c = Torn
              \/ Mine = Torn /\ \E g \in 0..MaxGen : c = Whole(g)
              \/ c = Absent
  PROVE  /\ Allowed /\ UNCHANGED fr_on
         /\ working' \in [Items -> File] /\ backup' \in [Items -> File]
         /\ working'[call.item] = (IF IsFactory THEN Mine ELSE c)
         /\ IsFactory => backup'[call.item] = c
<1>1. CASE IsFactory
  <2>1. backup' = [backup EXCEPT ![call.item] = c] /\ UNCHANGED <<working, fr_on>>
    BY <1>1 DEF PutTarget
  <2>2. Allowed
    BY <1>1, <2>1, BackupStep DEF Mine
  <2> QED
    BY <1>1, <2>1, <2>2 DEF StoreTypeOK, Mine
<1>2. CASE ~IsFactory
  <2>1. PutWorking(call.item, c)
    BY <1>2 DEF PutTarget, PutWorking
  <2>2. Allowed
    BY <1>2, <2>1, WorkingStep DEF Mine
  <2> QED
    BY <1>2, <2>1, <2>2 DEF StoreTypeOK, Mine, PutWorking
<1> QED
  BY <1>1, <1>2

LEMMA StepDropBackup ==
  ASSUME IInv, DropBackup
  PROVE  IInv' /\ Allowed
<1>1. /\ StoreTypeOK /\ call \in CallRecord /\ call.item \in Items /\ call.step = "unbackup" /\ ~fr_on
      /\ working \in [Items -> File] /\ backup \in [Items -> File] /\ Mine = Absent /\ IsFactory
      /\ UNCHANGED <<initialized, faults>> /\ PutTarget(Absent)
  BY CallIsTyped DEF IInv, StoreTypeOK, FlagInv, FileInv, DropBackup, At, Plain
<1>2. /\ call' \in CallRecord /\ call'.step = "header"
      /\ call'.item = call.item /\ call'.op = call.op
  BY <1>1, GoKeepsCall DEF DropBackup, Steps
<1>3. /\ Allowed /\ UNCHANGED fr_on
      /\ working' \in [Items -> File] /\ backup' \in [Items -> File]
      /\ working'[call.item] = Absent
  BY <1>1, FilesAreDifferent, TargetStep
<1> QED
  BY <1>1, <1>2, <1>3 DEF IInv, StoreTypeOK, FlagInv, FileInv, Plain, IsFactory, Mine

LEMMA StepCreateInternal ==
  ASSUME IInv, CreateInternal
  PROVE  IInv' /\ Allowed
<1>1. /\ StoreTypeOK /\ call \in CallRecord /\ call.item \in Items /\ call.step = "header" /\ ~fr_on
      /\ working \in [Items -> File] /\ backup \in [Items -> File] /\ Mine = Absent
      /\ UNCHANGED initialized /\ PutTarget(Torn)
  BY CallIsTyped DEF IInv, StoreTypeOK, FlagInv, FileInv, CreateInternal, At, Plain
<1>2. /\ call' \in CallRecord /\ call'.step \in {"data", "drop"}
      /\ call'.item = call.item /\ call'.op = call.op
  <2>1. PICK s \in {"data", "drop"} : Go(s)
    BY DEF CreateInternal
  <2> QED
    BY <1>1, <2>1, GoKeepsCall DEF Steps
<1>3. /\ Allowed /\ UNCHANGED fr_on
      /\ working' \in [Items -> File] /\ backup' \in [Items -> File]
      /\ working'[call.item] = IF IsFactory THEN Absent ELSE Torn
  BY <1>1, FilesAreDifferent, TargetStep
<1>4. faults' \subseteq {"delete", "other"}
  BY <1>1, FaultIsTyped DEF CreateInternal, StoreTypeOK
<1> QED
  BY <1>1, <1>2, <1>3, <1>4 DEF IInv, StoreTypeOK, FlagInv, FileInv, Plain, IsFactory, Mine

LEMMA StepDropCreated ==
  ASSUME IInv, DropCreated
  PROVE  IInv' /\ Allowed
<1>1. /\ StoreTypeOK /\ call \in CallRecord /\ call.item \in Items /\ call.step = "drop" /\ ~fr_on
      /\ working \in [Items -> File] /\ backup \in [Items -> File] /\ Mine = (IF IsFactory THEN Absent ELSE Torn)
      /\ UNCHANGED <<initialized, faults>> /\ PutTarget(Absent)
  BY CallIsTyped DEF IInv, StoreTypeOK, FlagInv, FileInv, DropCreated, At, Plain
<1>2. call' \in CallRecord /\ call'.step = "idle"
  BY <1>1, ReturnEndsCall DEF DropCreated
<1>3. /\ Allowed /\ UNCHANGED fr_on
      /\ working' \in [Items -> File] /\ backup' \in [Items -> File]
  BY <1>1, FilesAreDifferent, TargetStep
<1>4. StoreTypeOK'
  BY <1>1, <1>2, <1>3 DEF StoreTypeOK
<1> QED
  BY <1>2, <1>3, <1>4, IdleIsGood

LEMMA StepWriteData ==
  ASSUME IInv, WriteData
  PROVE  IInv' /\ Allowed
<1>1. /\ StoreTypeOK /\ call \in CallRecord /\ call.item \in Items /\ call.step = "data" /\ ~fr_on
      /\ working \in [Items -> File] /\ backup \in [Items -> File] /\ Mine = (IF IsFactory THEN Absent ELSE Torn)
      /\ UNCHANGED <<working, backup, fr_on, initialized>>
  BY CallIsTyped DEF IInv, StoreTypeOK, FlagInv, FileInv, WriteData, disk, At, Plain
<1>2. /\ call' \in CallRecord /\ call'.step = "close"
      /\ call'.item = call.item /\ call'.op = call.op
  <2>1. CASE Go("close")
    BY <1>1, <2>1, GoKeepsCall DEF Steps
  <2>2. CASE call' = [call EXCEPT !.step = "close", !.invalid = TRUE]
    BY <1>1, <2>2 DEF CallRecord, Steps
  <2> QED
    BY <2>1, <2>2 DEF WriteData
<1>3. faults' \subseteq {"delete", "other"}
  BY <1>1, FaultIsTyped DEF WriteData, StoreTypeOK
<1>4. Allowed
  BY <1>1, UnseenStep
<1> QED
  BY <1>1, <1>2, <1>3, <1>4 DEF IInv, StoreTypeOK, FlagInv, FileInv, Plain, IsFactory, Mine
LEMMA StepCloseFile ==
  ASSUME IInv, CloseFile
  PROVE  IInv' /\ Allowed
<1>1. /\ StoreTypeOK /\ call \in CallRecord /\ call.item \in Items /\ call.gen \in 0..MaxGen
      /\ call.step = "close" /\ ~fr_on
      /\ working \in [Items -> File] /\ backup \in [Items -> File] /\ Mine = (IF IsFactory THEN Absent ELSE Torn)
      /\ UNCHANGED initialized
  BY CallIsTyped DEF IInv, StoreTypeOK, FlagInv, FileInv, CloseFile, At, Plain
<1>2. CASE /\ PutTarget(Whole(call.gen))
           /\ IF IsFactory THEN Go("copy_open") ELSE Return("success")
           /\ UNCHANGED faults
  <2>1. /\ Allowed /\ UNCHANGED fr_on
        /\ working' \in [Items -> File] /\ backup' \in [Items -> File]
        /\ IsFactory => working'[call.item] = Absent /\ backup'[call.item] = Whole(call.gen)
    BY <1>1, <1>2, FilesAreDifferent, TargetStep
  <2>2. CASE IsFactory
    <3>1. /\ call' \in CallRecord /\ call'.step = "copy_open"
          /\ call'.item = call.item /\ call'.op = call.op /\ call'.gen = call.gen
      BY <1>1, <1>2, <2>2, GoKeepsCall DEF Steps
    <3> QED
      BY <1>1, <1>2, <2>1, <2>2, <3>1
      DEF IInv, StoreTypeOK, FlagInv, FileInv, Plain, IsFactory, Mine
  <2>3. CASE ~IsFactory
    <3>1. call' \in CallRecord /\ call'.step = "idle"
      BY <1>1, <1>2, <2>3, ReturnEndsCall
    <3>2. StoreTypeOK'
      BY <1>1, <1>2, <2>1, <3>1 DEF StoreTypeOK
    <3> QED
      BY <2>1, <3>1, <3>2, IdleIsGood
  <2> QED
    BY <2>2, <2>3
<1>3. ASSUME UNCHANGED faults \/ Fault, Return("error"),
             PutWorking(call.item, Absent) \/ UNCHANGED disk
      PROVE  IInv' /\ Allowed
  <2>1. call' \in CallRecord /\ call'.step = "idle"
    BY <1>1, <1>3, ReturnEndsCall
  <2>2. Allowed
    <3>1. CASE PutWorking(call.item, Absent)
      BY <1>1, <3>1, FilesAreDifferent, WorkingStep
    <3>2. CASE UNCHANGED disk
      BY <3>2, UnseenStep DEF disk
    <3> QED
      BY <1>3, <3>1, <3>2
  <2>3. working' \in [Items -> File] /\ UNCHANGED <<backup, fr_on>>
    BY <1>1, <1>3, FilesAreDifferent DEF PutWorking, disk
  <2>4. faults' \subseteq {"delete", "other"}
    BY <1>1, <1>3, FaultIsTyped DEF StoreTypeOK
  <2>5. StoreTypeOK'
    BY <1>1, <2>1, <2>3, <2>4 DEF StoreTypeOK
  <2> QED
    BY <2>1, <2>2, <2>5, IdleIsGood
<1> QED
  BY <1>2, <1>3 DEF CloseFile

LEMMA StepCopyOpen ==
  ASSUME IInv, CopyOpen
  PROVE  IInv' /\ Allowed
<1>1. /\ StoreTypeOK /\ call \in CallRecord /\ call.item \in Items /\ call.gen \in 0..MaxGen
      /\ call.step = "copy_open" /\ ~fr_on
      /\ working \in [Items -> File] /\ backup \in [Items -> File] /\ Mine = Absent /\ IsFactory
      /\ backup[call.item] = Whole(call.gen)
      /\ UNCHANGED <<initialized, faults>> /\ PutWorking(call.item, Torn)
  BY CallIsTyped DEF IInv, StoreTypeOK, FlagInv, FileInv, CopyOpen, At, Plain
<1>2. /\ call' \in CallRecord /\ call'.step = "copy_write"
      /\ call'.item = call.item /\ call'.op = call.op /\ call'.gen = call.gen
  BY <1>1, GoKeepsCall DEF CopyOpen, Steps
<1>3. Allowed
  BY <1>1, FilesAreDifferent, WorkingStep DEF Mine
<1>4. working' \in [Items -> File] /\ Mine' = Torn /\ UNCHANGED <<backup, fr_on>>
  BY <1>1, <1>2, FilesAreDifferent DEF PutWorking, Mine
<1> QED
  BY <1>1, <1>2, <1>3, <1>4 DEF IInv, StoreTypeOK, FlagInv, FileInv, Plain, IsFactory

LEMMA StepCopyWrite ==
  ASSUME IInv, CopyWrite
  PROVE  IInv' /\ Allowed
<1>1. /\ StoreTypeOK /\ call \in CallRecord /\ call.item \in Items /\ call.gen \in 0..MaxGen
      /\ call.step = "copy_write" /\ ~fr_on
      /\ working \in [Items -> File] /\ backup \in [Items -> File] /\ Mine = Torn /\ backup[call.item] = Whole(call.gen)
      /\ UNCHANGED initialized
  BY CallIsTyped DEF IInv, StoreTypeOK, FlagInv, FileInv, CopyWrite, At, Plain
<1>2. PICK c \in {Absent, Whole(call.gen)} : PutWorking(call.item, c)
  BY <1>1 DEF CopyWrite
<1>3. call' \in CallRecord /\ call'.step = "idle"
  BY <1>1, ReturnEndsCall DEF CopyWrite
<1>4. Allowed
  BY <1>1, <1>2, FilesAreDifferent, WorkingStep DEF Mine
<1>5. working' \in [Items -> File] /\ UNCHANGED <<backup, fr_on>>
  BY <1>1, <1>2, FilesAreDifferent DEF PutWorking
<1>6. faults' \subseteq {"delete", "other"}
  BY <1>1, FaultIsTyped DEF CopyWrite, StoreTypeOK
<1>7. StoreTypeOK'
  BY <1>1, <1>3, <1>5, <1>6 DEF StoreTypeOK
<1> QED
  BY <1>3, <1>4, <1>7, IdleIsGood

LEMMA StepDeleteFile ==
  ASSUME IInv, DeleteFile
  PROVE  IInv' /\ Allowed
<1>1. /\ StoreTypeOK /\ call \in CallRecord /\ call.item \in Items /\ call.gen \in 0..MaxGen
      /\ call.step = "delete" /\ ~fr_on
      /\ working \in [Items -> File] /\ backup \in [Items -> File]
      /\ UNCHANGED initialized
  BY CallIsTyped DEF IInv, StoreTypeOK, FlagInv, FileInv, DeleteFile, At, Plain
<1>2. PutWorking(call.item, Absent) \/ UNCHANGED disk
  BY DEF DeleteFile
<1>3. call' \in CallRecord /\ call'.step = "idle"
  <2>1. PICK r \in {"missing", "success", "error"} : Return(r)
    BY DEF DeleteFile
  <2> QED
    BY <1>1, <2>1, ReturnEndsCall
<1>4. Allowed
  <2>1. CASE PutWorking(call.item, Absent)
    BY <1>1, <2>1, FilesAreDifferent, WorkingStep
  <2>2. CASE UNCHANGED disk
    BY <2>2, UnseenStep DEF disk
  <2> QED
    BY <1>2, <2>1, <2>2
<1>5. working' \in [Items -> File] /\ UNCHANGED <<backup, fr_on>>
  BY <1>1, <1>2, FilesAreDifferent DEF PutWorking, disk
<1>6. faults' \subseteq {"delete", "other"}
  BY <1>1, FaultIsTyped DEF DeleteFile, StoreTypeOK
<1>7. StoreTypeOK'
  BY <1>1, <1>3, <1>5, <1>6 DEF StoreTypeOK
<1> QED
  BY <1>3, <1>4, <1>7, IdleIsGood
LEMMA StepFactoryFails ==
  ASSUME IInv, NEW s, FactoryFails(s)
  PROVE  IInv' /\ Allowed
<1>1. Allowed
  BY UnseenStep DEF FactoryFails, disk
<1>2. call' \in CallRecord /\ call'.step = "idle"
  BY ReturnEndsCall DEF IInv, StoreTypeOK, FactoryFails
<1>3. StoreTypeOK'
  BY <1>2, FaultIsTyped DEF IInv, StoreTypeOK, FactoryFails, disk
<1> QED
  BY <1>1, <1>2, <1>3, IdleIsGood

\* The flag is made: this is the moment of the reset, unless it was there.
LEMMA StepSetFlag ==
  ASSUME IInv, SetFlag
  PROVE  IInv' /\ Allowed
<1>1. /\ StoreTypeOK /\ call \in CallRecord /\ fr_on' = TRUE
      /\ UNCHANGED <<working, backup, initialized, faults>>
  BY DEF IInv, StoreTypeOK, SetFlag
<1>2. call' \in CallRecord /\ call'.step = "clear"
  BY <1>1, GoKeepsCall DEF SetFlag, Steps
<1>3. Promise!FactoryReset
  BY <1>1 DEF Promise!FactoryReset
<1>4. Allowed
  BY <1>3 DEF Allowed, Promise!Next
<1> QED
  BY <1>1, <1>2, <1>4 DEF IInv, StoreTypeOK, FlagInv, FileInv, Plain

LEMMA StepClearWorking ==
  ASSUME IInv, ClearWorking
  PROVE  IInv' /\ Allowed
<1>1. /\ StoreTypeOK /\ call \in CallRecord /\ call.step = "clear" /\ fr_on
      /\ working \in [Items -> File] /\ UNCHANGED <<initialized, faults>>
  BY DEF IInv, StoreTypeOK, FlagInv, ClearWorking, At
<1>2. UNCHANGED <<backup, fr_on>>
  BY DEF ClearWorking, PutWorking, disk
<1>3. Allowed
  BY <1>1, <1>2, UnseenStep
<1>4. ASSUME NEW i \in Items, PutWorking(i, Absent), UNCHANGED call PROVE IInv'
  <2>1. working' \in [Items -> File]
    BY <1>1, <1>4, FilesAreDifferent DEF PutWorking
  <2> QED
    BY <1>1, <1>2, <1>4, <2>1 DEF IInv, StoreTypeOK, FlagInv, FileInv, Plain
<1>5. ASSUME \A i \in Items : working[i] = Absent, UNCHANGED disk,
             call' = [call EXCEPT !.step = "copy", !.left = {i \in Items : backup[i] # Absent}]
      PROVE  IInv'
  <2>1. /\ call' \in CallRecord /\ call'.step = "copy"
        /\ call'.left = {i \in Items : backup[i] # Absent}
    BY <1>1, <1>5 DEF CallRecord, Steps
  <2>2. \A i \in Items \ call'.left : working'[i] = backup'[i]
    BY <1>5, <2>1 DEF disk
  <2> QED
    BY <1>1, <1>5, <2>1, <2>2 DEF IInv, StoreTypeOK, FlagInv, FileInv, Plain, disk
<1> QED
  BY <1>3, <1>4, <1>5 DEF ClearWorking

LEMMA StepCopyBack ==
  ASSUME IInv, CopyBack
  PROVE  IInv' /\ Allowed
<1>1. /\ StoreTypeOK /\ call \in CallRecord /\ call.step = "copy" /\ fr_on
      /\ working \in [Items -> File] /\ backup \in [Items -> File]
      /\ call.left \in SUBSET Items /\ UNCHANGED <<initialized, faults>>
      /\ \A i \in Items \ call.left : working[i] = backup[i]
  BY CallIsTyped DEF IInv, StoreTypeOK, FlagInv, FileInv, CopyBack, At
<1>2. UNCHANGED <<backup, fr_on>>
  BY DEF CopyBack, PutWorking
<1>3. Allowed
  BY <1>1, <1>2, UnseenStep
<1>4. ASSUME NEW i \in call.left, PutWorking(i, Torn), UNCHANGED call PROVE IInv'
  <2>1. /\ working' \in [Items -> File]
        /\ \A j \in Items \ call.left : working'[j] = backup[j]
    BY <1>1, <1>4, FilesAreDifferent DEF PutWorking
  <2> QED
    BY <1>1, <1>2, <1>4, <2>1 DEF IInv, StoreTypeOK, FlagInv, FileInv, Plain
<1>5. ASSUME NEW i \in call.left, PutWorking(i, backup[i]),
             call' = [call EXCEPT !.left = @ \ {i}]
      PROVE  IInv'
  <2>1. call' \in CallRecord /\ call'.step = "copy" /\ call'.left = call.left \ {i}
    BY <1>1, <1>5 DEF CallRecord
  <2>2. /\ working' \in [Items -> File]
        /\ \A j \in Items \ (call.left \ {i}) : working'[j] = backup[j]
    BY <1>1, <1>5 DEF PutWorking
  <2> QED
    BY <1>1, <1>2, <2>1, <2>2 DEF IInv, StoreTypeOK, FlagInv, FileInv, Plain
<1> QED
  BY <1>3, <1>4, <1>5 DEF CopyBack

\* The flag goes when both directories are the same.
LEMMA StepClearFlag ==
  ASSUME IInv, ClearFlag
  PROVE  IInv' /\ Allowed
<1>1. /\ StoreTypeOK /\ call \in CallRecord /\ call.step = "copy" /\ fr_on /\ fr_on' = FALSE
      /\ working \in [Items -> File] /\ backup \in [Items -> File]
      /\ UNCHANGED <<working, backup, faults>>
      /\ \A i \in Items : working[i] = backup[i]
  BY DEF IInv, StoreTypeOK, FlagInv, FileInv, ClearFlag, At
<1>2. working = backup
  BY <1>1
<1>3. Allowed
  BY <1>1, <1>2 DEF Allowed, Promise!vars
<1>4. /\ call' \in CallRecord /\ initialized' \in BOOLEAN
      /\ call'.step \in {"idle", "probe", "delete", "flag"}
  <2>1. CASE initialized
    BY <1>1, <2>1, ReturnEndsCall DEF ClearFlag, StoreTypeOK
  <2>2. CASE ~initialized
    BY <1>1, <2>2, InitializedCall DEF ClearFlag
  <2> QED
    BY <2>1, <2>2
<1> QED
  BY <1>1, <1>3, <1>4 DEF IInv, StoreTypeOK, FlagInv, FileInv, Plain

LEMMA StepWipeWorking ==
  ASSUME IInv, WipeWorking
  PROVE  IInv' /\ Allowed
<1>1. /\ StoreTypeOK /\ call \in CallRecord /\ call.step = "wipe_working" /\ ~fr_on
      /\ working \in [Items -> File] /\ UNCHANGED <<initialized, faults>>
  BY DEF IInv, StoreTypeOK, FlagInv, WipeWorking, At, Plain
<1>2. ASSUME NEW i \in Items, PutWorking(i, Absent), UNCHANGED call PROVE IInv' /\ Allowed
  <2>1. Allowed
    BY <1>1, <1>2, FilesAreDifferent, WorkingStep
  <2>2. working' \in [Items -> File] /\ UNCHANGED <<backup, fr_on>>
    BY <1>1, <1>2, FilesAreDifferent DEF PutWorking
  <2> QED
    BY <1>1, <1>2, <2>1, <2>2 DEF IInv, StoreTypeOK, FlagInv, FileInv, Plain
<1>3. ASSUME \A i \in Items : working[i] = Absent, Go("wipe_backup"), UNCHANGED disk
      PROVE  IInv' /\ Allowed
  <2>1. call' \in CallRecord /\ call'.step = "wipe_backup"
    BY <1>1, <1>3, GoKeepsCall DEF Steps
  <2>2. Allowed
    BY <1>3, UnseenStep DEF disk
  <2> QED
    BY <1>1, <1>3, <2>1, <2>2 DEF IInv, StoreTypeOK, FlagInv, FileInv, Plain, disk
<1> QED
  BY <1>2, <1>3 DEF WipeWorking

LEMMA StepWipeBackup ==
  ASSUME IInv, WipeBackup
  PROVE  IInv' /\ Allowed
<1>1. /\ StoreTypeOK /\ call \in CallRecord /\ call.step = "wipe_backup" /\ ~fr_on /\ fr_on' = FALSE
      /\ backup \in [Items -> File] /\ UNCHANGED <<working, faults>>
      /\ \A i \in Items : working[i] = Absent
  BY DEF IInv, StoreTypeOK, FlagInv, FileInv, WipeBackup, At, Plain
<1>a. UNCHANGED fr_on
  <2>1. fr_on \in BOOLEAN
    BY <1>1 DEF StoreTypeOK
  <2> QED
    BY <1>1, <2>1
<1>2. ASSUME NEW i \in Items, backup' = [backup EXCEPT ![i] = Absent], UNCHANGED <<call, initialized>>
      PROVE  IInv' /\ Allowed
  <2>1. Allowed
    BY <1>1, <1>a, <1>2, FilesAreDifferent, BackupStep
  <2>2. backup' \in [Items -> File]
    BY <1>1, <1>2, FilesAreDifferent
  <2> QED
    BY <1>1, <1>2, <2>1, <2>2 DEF IInv, StoreTypeOK, FlagInv, FileInv, Plain
<1>3. ASSUME initialized' = FALSE, Go("init"), UNCHANGED backup PROVE IInv' /\ Allowed
  <2>1. call' \in CallRecord /\ call'.step = "init"
    BY <1>1, <1>3, GoKeepsCall DEF Steps
  <2>2. Allowed
    BY <1>1, <1>a, <1>3, UnseenStep
  <2> QED
    BY <1>1, <1>3, <2>1, <2>2 DEF IInv, StoreTypeOK, FlagInv, FileInv, Plain
<1> QED
  BY <1>2, <1>3 DEF WipeBackup

LEMMA StepCut ==
  ASSUME IInv, StoreCut
  PROVE  IInv' /\ Allowed
<1>1. Allowed
  BY UnseenStep DEF StoreCut, disk
<1>2. StoreTypeOK' /\ call'.step = "idle"
  BY NoCallIsTyped DEF IInv, StoreTypeOK, StoreCut, disk
<1> QED
  BY <1>1, <1>2, IdleIsGood

LEMMA StepCall ==
  ASSUME IInv, NEW op \in Ops, NEW i \in Items, NEW g \in 0..MaxGen, CallStore(op, i, g)
  PROVE  IInv' /\ Allowed
<1>1. Allowed
  BY UnseenStep DEF CallStore, disk
<1>2. /\ StoreTypeOK /\ call' = Calls(op, i, g) /\ ~(initialized /\ fr_on)
      /\ UNCHANGED <<working, backup, fr_on, initialized, faults>>
  BY DEF IInv, CallStore, disk
<1>3. First[op] \in {"probe", "delete", "flag", "wipe_working", "init"}
  BY FirstStep DEF Ops
<1>4. PICK s \in {"probe", "delete", "flag", "wipe_working", "init"} :
        s = IF initialized THEN First[op] ELSE "init"
  BY <1>3
<1>5. call' \in CallRecord /\ call'.step = s
  <2>1. call' = [NoCall EXCEPT !.op = op, !.item = i, !.gen = g, !.step = s]
    BY <1>2, <1>4 DEF Calls
  <2>2. s \in Steps
    BY DEF Steps
  <2> QED
    BY <2>1, <2>2, NoCallIsTyped DEF CallRecord
<1> QED
  BY <1>1, <1>2, <1>4, <1>5 DEF IInv, StoreTypeOK, FlagInv, FileInv, Plain

LEMMA StepIsAllowed == IInv /\ [StoreNext]_store => IInv' /\ Allowed
<1> SUFFICES ASSUME IInv, [StoreNext]_store PROVE IInv' /\ Allowed
  OBVIOUS
<1>1. CASE StoreStep
  BY <1>1, StepEsfsInit, StepProbe, StepUnprobe, StepProbeBackup, StepDropBackup,
     StepCreateInternal, StepDropCreated, StepWriteData, StepCloseFile, StepCopyOpen,
     StepCopyWrite, StepDeleteFile, StepSetFlag, StepClearWorking, StepCopyBack,
     StepClearFlag, StepFactoryFails, StepWipeWorking, StepWipeBackup, Zenon DEF StoreStep
<1>2. CASE StoreCut
  BY <1>2, StepCut
<1>3. ASSUME NEW op \in Ops, NEW i \in Items, NEW g \in 0..MaxGen, CallStore(op, i, g)
      PROVE  IInv' /\ Allowed
  BY <1>3, StepCall
<1>4. CASE UNCHANGED store
  <2>1. Allowed
    BY <1>4, UnseenStep DEF store
  <2> QED
    BY <1>4, <2>1
    DEF store, IInv, StoreTypeOK, FlagInv, FileInv, Mine, IsFactory
<1> QED
  BY <1>1, <1>2, <1>3, <1>4 DEF StoreNext

\* The types of the storage's variables: in particular every file is absent,
\* torn or whole (esfs.c).
THEOREM StoreTypes == StoreSpec => []StoreTypeOK
<1>1. IInv => StoreTypeOK
  BY DEF IInv
<1> QED
  BY <1>1, InitIsGood, StepIsAllowed, PTL DEF StoreSpec

\* esfs.c with its careful callers implements ItemStore: a store, a delete and
\* a factory reset are what ItemStore says, whatever power cut interrupts them.
THEOREM StoreKeepsThePromise == StoreSpec => KeepsThePromise
<1>1. StoreInit => Promise!Init
  BY DEF StoreInit, Promise!Init, Promise!Absent, Absent
<1> QED
  BY <1>1, InitIsGood, StepIsAllowed, PTL
  DEF StoreSpec, KeepsThePromise, Promise!Spec, Allowed
=============================================================================
