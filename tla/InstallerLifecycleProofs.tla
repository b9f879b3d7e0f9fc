---------------------- MODULE InstallerLifecycleProofs ----------------------
(***************************************************************************)
(* No user's bytes are lost, however many files, releases and slots there  *)
(* are and wherever a command is killed or fails, as long as no rollback   *)
(* of a migration was itself cut off.                                      *)
(***************************************************************************)
EXTENDS InstallerLifecycle, TLAPS

LEMMA ContentTyped ==
    /\ \A r \in Release, f \in File : Bytes[r][f] \in Package /\ Bytes[r][f] \in Content
    /\ UserBytes \subseteq Content
    /\ "absent" \in Content /\ "torn" \in Content
    /\ "absent" \notin UserBytes /\ "torn" \notin UserBytes
    /\ \A c \in Package : c \notin UserBytes
  BY InstallerAssumption DEF Content, Package

LEMMA NoManifestTyped == NoManifest \in Manifest
  BY ContentTyped DEF NoManifest, Manifest

LEMMA NoSnapshotTyped ==
    NoSnapshot \in [disk : [File -> Content], backup : [File -> [Slot -> Content]]]
  BY ContentTyped DEF NoSnapshot

LEMMA IdleTyped ==
    Idle \in [cmd : Commands, at : Stage, todo : SUBSET File, plan : Manifest]
  BY NoManifestTyped DEF Idle, Commands, Stage

LEMMA FreeSlotTyped ==
    ASSUME NEW f \in File, Free(f) # {}
    PROVE  FreeSlot(f) \in Slot \ {0} /\ backup[f][FreeSlot(f)] = "absent"
  BY DEF Free, FreeSlot

LEMMA PlannedTyped ==
    ASSUME NEW r \in Release, NEW owned \in SUBSET File, NEW kept \in SUBSET File,
           NEW slot \in [File -> Slot \cup {NoSlot}]
    PROVE  Planned(r, owned, slot, kept) \in Manifest
<1>1. [f \in File |-> IF f \in owned THEN Bytes[r][f] ELSE "absent"] \in [File -> Content]
  BY ContentTyped
<1>2. [f \in File |-> IF f \in owned THEN slot[f] ELSE NoSlot] \in [File -> Slot \cup {NoSlot}]
  OBVIOUS
<1> QED BY <1>1, <1>2 DEF Planned, Manifest

LEMMA PendingTyped ==
    ASSUME NEW cmd, NEW at, NEW plan \in Manifest, manifest \in Manifest
    PROVE  Pending(cmd, at, plan) \in SUBSET File
  BY DEF Pending, Manifest

LEMMA StageTyped ==
    ASSUME NEW cmd \in Commands, NEW at
    PROVE  StageAfter(cmd, at) \in Stage \ {"idle", "rollback"}
  BY DEF StageAfter, Commands, Stage

-----------------------------------------------------------------------------
LEMMA TypeInit == Init => TypeOK
<1> SUFFICES ASSUME Init PROVE TypeOK
  OBVIOUS
<1>1. run \in [cmd : Commands, at : Stage, todo : SUBSET File, plan : Manifest]
      /\ before \in [disk : [File -> Content], backup : [File -> [Slot -> Content]]]
      /\ struck \subseteq {"command", "rollback"}
  BY IdleTyped, NoSnapshotTyped DEF Init
<1>2. CASE FreshHome
  <2>1. disk \in [File -> Content]
    BY <1>2, ContentTyped DEF FreshHome
  <2>2. mine \in [File -> SUBSET UserBytes]
    BY <1>2 DEF FreshHome, Own
  <2>3. backup \in [File -> [Slot -> Content]] /\ manifest \in Manifest
    BY <1>2, NoSnapshotTyped, NoManifestTyped DEF FreshHome
  <2> QED BY <1>1, <1>2, <2>1, <2>2, <2>3 DEF FreshHome, TypeOK
<1>3. CASE LegacyHome
  <2>1. PICK r \in Release, owned \in SUBSET File \ {{}} :
        /\ manifest \in
              {[ version |-> 1, owned |-> owned, kept |-> {},
                 sha |-> [f \in File |-> IF f \in owned THEN Bytes[r][f] ELSE "absent"],
                 slot |-> [f \in File |-> IF f \in owned THEN s[f] ELSE NoSlot] ]
                   : s \in [File -> {NoSlot, 0, 1}]}
        /\ backup \in
              {[f \in File |-> [i \in Slot |->
                   IF i = manifest.slot[f] THEN b ELSE "absent"]] : b \in UserBytes}
        /\ disk \in [File -> UserBytes \cup {"absent"} \cup {Bytes[r][f] : f \in owned}]
        /\ mine = [f \in File |-> (Own(disk[f]) \cup {backup[f][i] : i \in Slot}) \cap UserBytes]
        /\ gone = {f \in owned : disk[f] = "absent"}
    BY <1>3 DEF LegacyHome
  <2>2. PICK s \in [File -> {NoSlot, 0, 1}] :
           manifest = [ version |-> 1, owned |-> owned, kept |-> {},
                 sha |-> [f \in File |-> IF f \in owned THEN Bytes[r][f] ELSE "absent"],
                 slot |-> [f \in File |-> IF f \in owned THEN s[f] ELSE NoSlot] ]
    BY <2>1
  <2>3. manifest \in Manifest
    <3>1. [f \in File |-> IF f \in owned THEN Bytes[r][f] ELSE "absent"] \in [File -> Content]
      BY ContentTyped
    <3>2. [f \in File |-> IF f \in owned THEN s[f] ELSE NoSlot] \in [File -> Slot \cup {NoSlot}]
      BY InstallerAssumption DEF Slot
    <3> QED BY <2>2, <3>1, <3>2 DEF Manifest
  <2>4. PICK b \in UserBytes :
           backup = [f \in File |-> [i \in Slot |-> IF i = manifest.slot[f] THEN b ELSE "absent"]]
    BY <2>1
  <2>5. backup \in [File -> [Slot -> Content]]
    BY <2>4, ContentTyped
  <2>6. disk \in [File -> Content]
    <3>1. UserBytes \cup {"absent"} \cup {Bytes[r][f] : f \in owned} \subseteq Content
      BY ContentTyped
    <3> QED BY <2>1, <3>1
  <2>7. mine \in [File -> SUBSET UserBytes] /\ gone \in SUBSET File
    BY <2>1
  <2> QED BY <1>1, <2>3, <2>5, <2>6, <2>7 DEF TypeOK
<1> QED BY <1>2, <1>3 DEF Init

\* The parts of the type invariant, one by one.
LEMMA PartsTyped ==
    ASSUME TypeOK
    PROVE  /\ disk \in [File -> Content]
           /\ backup \in [File -> [Slot -> Content]]
           /\ manifest \in Manifest
           /\ run \in [cmd : Commands, at : Stage, todo : SUBSET File, plan : Manifest]
           /\ run.cmd \in Commands /\ run.at \in Stage /\ run.todo \subseteq File
           /\ run.plan \in Manifest /\ run.plan.sha \in [File -> Content]
           /\ run.plan.slot \in [File -> Slot \cup {NoSlot}]
           /\ manifest.owned \subseteq File /\ manifest.kept \subseteq File
           /\ manifest.sha \in [File -> Content]
           /\ manifest.slot \in [File -> Slot \cup {NoSlot}]
           /\ before.disk \in [File -> Content]
           /\ before.backup \in [File -> [Slot -> Content]]
           /\ mine \in [File -> SUBSET UserBytes]
  BY DEF TypeOK, Manifest

\* One place of the home is written.
LEMMA WrittenTyped ==
    ASSUME TypeOK, NEW f \in File, NEW c \in Content
    PROVE  /\ [disk EXCEPT ![f] = c] \in [File -> Content]
           /\ \A s \in Slot : [backup EXCEPT ![f][s] = c] \in [File -> [Slot -> Content]]
  BY DEF TypeOK

LEMMA EnterTyped ==
    ASSUME TypeOK, NEW cmd \in Commands, NEW at \in Stage, NEW plan \in Manifest,
           Enter(cmd, at, plan)
    PROVE  run' \in [cmd : Commands, at : Stage, todo : SUBSET File, plan : Manifest]
  BY PendingTyped DEF Enter, TypeOK

LEMMA StartTyped ==
    ASSUME TypeOK, NEW cmd \in Commands, NEW plan \in Manifest, Start(cmd, plan)
    PROVE  run' \in [cmd : Commands, at : Stage, todo : SUBSET File, plan : Manifest]
<1>1. StageAfter(cmd, "idle") \in Stage
  BY StageTyped
<1> QED BY <1>1, EnterTyped DEF Start

LEMMA StepDoneTyped ==
    ASSUME TypeOK, NEW f, StepDone(f),
           disk' \in [File -> Content], backup' \in [File -> [Slot -> Content]]
    PROVE  TypeOK'
<1>1. run' \in [cmd : Commands, at : Stage, todo : SUBSET File, plan : Manifest]
  BY DEF StepDone, TypeOK
<1> QED BY <1>1 DEF StepDone, TypeOK

\* Where a planned write goes, if the stage is one that writes there.
PlanFits ==
    /\ run.at = "backup" => \A f \in run.todo : run.plan.slot[f] \in Slot
    /\ run.at = "relocate" => \A f \in run.todo : run.plan.slot[f] \in Slot

LEMMA TakeAwayTyped ==
    ASSUME TypeOK, NEW f \in File, TakeAway(f)
    PROVE  disk' \in [File -> Content] /\ backup' \in [File -> [Slot -> Content]]
<1>1. CASE manifest.slot[f] = NoSlot
  BY <1>1, PartsTyped, WrittenTyped, ContentTyped DEF TakeAway
<1>2. CASE manifest.slot[f] # NoSlot
  <2>1. manifest.slot[f] \in Slot
    BY <1>2, PartsTyped
  <2>2. backup[f][manifest.slot[f]] \in Content
    BY <2>1, PartsTyped
  <2> QED BY <1>2, <2>1, <2>2, WrittenTyped, ContentTyped DEF TakeAway
<1> QED BY <1>1, <1>2

LEMMA MayTearTyped ==
    ASSUME TypeOK, PlanFits, MayTear
    PROVE  disk' \in [File -> Content] /\ backup' \in [File -> [Slot -> Content]]
<1>1. CASE UNCHANGED <<disk, backup>>
  BY <1>1, PartsTyped
<1>2. CASE ~UNCHANGED <<disk, backup>>
  <2>1. PICK f \in run.todo :
          \/ /\ run.at \in {"backup", "relocate"}
             /\ backup' = [backup EXCEPT ![f][run.plan.slot[f]] = "torn"]
             /\ UNCHANGED disk
          \/ /\ run.at = "copy"
             /\ disk' = [disk EXCEPT ![f] = "torn"]
             /\ UNCHANGED backup
    BY <1>2 DEF MayTear
  <2>2. f \in File
    BY PartsTyped
  <2>3. run.at \in {"backup", "relocate"} => run.plan.slot[f] \in Slot
    BY DEF PlanFits
  <2>4. CASE run.at \in {"backup", "relocate"}
    <3>1. disk' = disk /\ backup' = [backup EXCEPT ![f][run.plan.slot[f]] = "torn"]
      BY <2>1, <2>4
    <3> QED BY <2>2, <2>3, <2>4, <3>1, PartsTyped, WrittenTyped, ContentTyped
  <2>5. CASE run.at = "copy"
    <3>1. backup' = backup /\ disk' = [disk EXCEPT ![f] = "torn"]
      BY <2>1, <2>5
    <3> QED BY <2>2, <3>1, PartsTyped, WrittenTyped, ContentTyped
  <2> QED BY <2>1, <2>4, <2>5
<1> QED BY <1>1, <1>2

LEMMA InstallPlanTyped ==
    ASSUME TypeOK, NEW r \in Release, Install(r)
    PROVE  Planned(r, Active(r), BackupFor, manifest.kept) \in Manifest
<1>1. \A f \in File \ manifest.owned : FreeSlot(f) \in Slot
  BY FreeSlotTyped DEF Install
<1>2. BackupFor \in [File -> Slot \cup {NoSlot}]
  BY <1>1, PartsTyped DEF BackupFor
<1>3. Active(r) \in SUBSET File
  BY InstallerAssumption DEF Active
<1> QED BY <1>2, <1>3, PartsTyped, PlannedTyped

LEMMA MigratePlanTyped ==
    ASSUME TypeOK, NEW r \in Release, Migrate(r)
    PROVE  Planned(r, Ships[r] \ Customized, MovedBackup, Customized) \in Manifest
<1>1. \A f \in File : manifest.slot[f] = 0 => FreeSlot(f) \in Slot
  BY FreeSlotTyped DEF Migrate
<1>2. MovedBackup \in [File -> Slot \cup {NoSlot}]
  BY <1>1, PartsTyped DEF MovedBackup
<1>3. Ships[r] \ Customized \in SUBSET File /\ Customized \in SUBSET File
  BY InstallerAssumption, PartsTyped DEF Customized
<1> QED BY <1>2, <1>3, PlannedTyped

-----------------------------------------------------------------------------
(* The inductive invariant.                                                *)

\* What is owned was written by the package.
ShippedByPackage ==
    /\ \A f \in manifest.owned : manifest.sha[f] \in Package
    /\ \A f \in run.plan.owned : run.plan.sha[f] \in Package

\* f may be overwritten: what the user has there is in a backup.
Covered(f) == disk[f] \in UserBytes => \E s \in Slot : backup[f][s] = disk[f]

InBackupPlace(f) == run.plan.slot[f] \in Slot \ {0}

HeldBefore ==
    \A f \in File : \A u \in mine[f] :
        before.disk[f] = u \/ \E s \in Slot : before.backup[f][s] = u

\* What each stage relies on, for the files it has still to do.
BackupStage ==
    run.at = "backup" =>
        /\ run.cmd = "install" /\ run.todo \subseteq run.plan.owned
        /\ \A f \in run.plan.owned :
              IF f \in run.todo
              THEN run.plan.slot[f] \in Slot /\ backup[f][run.plan.slot[f]] = "absent"
              ELSE Covered(f)

CopyStage ==
    run.at = "copy" => run.todo \subseteq run.plan.owned /\ \A f \in run.todo : Covered(f)

RetireStage == run.at = "retire" => run.cmd = "install" /\ run.todo \subseteq manifest.owned

RemoveStage ==
    run.at = "remove" =>
        /\ run.cmd = "uninstall" /\ run.todo \subseteq manifest.owned
        /\ \A f \in run.todo : disk[f] \notin UserBytes

Moved(f) == InBackupPlace(f) /\ backup[f][run.plan.slot[f]] = backup[f][0]

RelocateStage ==
    run.at = "relocate" =>
        /\ run.cmd = "migrate"
        /\ run.todo \subseteq {f \in run.plan.owned : manifest.slot[f] = 0}
        /\ \A f \in run.plan.owned : manifest.slot[f] = 0 =>
              IF f \in run.todo
              THEN InBackupPlace(f) /\ backup[f][run.plan.slot[f]] = "absent"
              ELSE Moved(f)

MoveDone ==
    run.at = "copy" /\ run.cmd = "migrate" =>
        \A f \in run.plan.owned : manifest.slot[f] = 0 => Moved(f)

UnlinkStage ==
    run.at = "unlink" =>
        /\ run.cmd = "migrate"
        /\ run.todo \subseteq {f \in run.plan.owned : manifest.slot[f] = 0}
        /\ \A f \in run.todo : Moved(f)

MigrationStages ==
    run.cmd = "migrate" /\ run.at # "idle" =>
        /\ "rollback" \in struck \/ HeldBefore
        /\ run.at # "rollback" => \A f \in run.plan.owned : disk[f] \notin UserBytes

\* A rollback follows a migration only.
RollbackStage == run.at = "rollback" => run.cmd = "migrate"

Work ==
    /\ BackupStage /\ CopyStage /\ RetireStage /\ RemoveStage
    /\ RelocateStage /\ MoveDone /\ UnlinkStage /\ MigrationStages /\ RollbackStage

LEMMA WorkFits == ASSUME TypeOK, Work PROVE PlanFits
<1>1. ASSUME NEW f \in run.todo, run.at = "relocate" PROVE run.plan.slot[f] \in Slot
  <2>1. f \in run.plan.owned /\ manifest.slot[f] = 0
    BY <1>1 DEF Work, RelocateStage
  <2>2. InBackupPlace(f)
    BY <1>1, <2>1 DEF Work, RelocateStage
  <2> QED BY <2>2 DEF InBackupPlace
<1>2. ASSUME NEW f \in run.todo, run.at = "backup" PROVE run.plan.slot[f] \in Slot
  <2>1. f \in run.plan.owned
    BY <1>2 DEF Work, BackupStage
  <2> QED BY <1>2, <2>1 DEF Work, BackupStage
<1> QED BY <1>1, <1>2 DEF PlanFits

Safe == TypeOK /\ ShippedByPackage /\ Work /\ NothingLost

\* What a migration does not put into its snapshot is as the migration found it,
\* so that restoring the snapshot restores the home.
UntouchedAsBefore ==
    run.cmd = "migrate" /\ run.at # "idle" =>
        /\ \A f \in File \ TouchedFiles : disk[f] = before.disk[f]
        /\ \A f \in File, s \in Slot :
              <<f, s>> \notin TouchedBackups => backup[f][s] = before.backup[f][s]

IInv == Safe /\ UntouchedAsBefore

LEMMA SafeInit == Init => Safe
<1> SUFFICES ASSUME Init PROVE Safe
  OBVIOUS
<1>1. TypeOK
  BY TypeInit
<1>2. run.at = "idle" /\ run.plan.owned = {} /\ run.cmd = "install"
  BY DEF Init, Idle, NoManifest
<1>3. Work
  BY <1>2 DEF Work, BackupStage, CopyStage, RetireStage, RemoveStage, RelocateStage, MoveDone,
              UnlinkStage, MigrationStages, RollbackStage
<1>4. CASE FreshHome
  <2>1. manifest.owned = {}
    BY <1>4 DEF FreshHome, NoManifest
  <2>2. AllHeld
    BY <1>4 DEF FreshHome, Own, AllHeld
  <2> QED BY <1>1, <1>2, <1>3, <2>1, <2>2 DEF ShippedByPackage, NothingLost, Safe
<1>5. CASE LegacyHome
  <2>1. PICK r \in Release, owned \in SUBSET File \ {{}} :
        /\ manifest \in
              {[ version |-> 1, owned |-> owned, kept |-> {},
                 sha |-> [f \in File |-> IF f \in owned THEN Bytes[r][f] ELSE "absent"],
                 slot |-> [f \in File |-> IF f \in owned THEN s[f] ELSE NoSlot] ]
                   : s \in [File -> {NoSlot, 0, 1}]}
        /\ mine = [f \in File |-> (Own(disk[f]) \cup {backup[f][i] : i \in Slot}) \cap UserBytes]
    BY <1>5 DEF LegacyHome
  <2>2. manifest.owned = owned
        /\ manifest.sha = [f \in File |-> IF f \in owned THEN Bytes[r][f] ELSE "absent"]
    BY <2>1
  <2>3. \A f \in manifest.owned : manifest.sha[f] \in Package
    BY <2>2, ContentTyped
  <2>4. AllHeld
    BY <2>1 DEF AllHeld, Own
  <2> QED BY <1>1, <1>2, <1>3, <2>3, <2>4 DEF ShippedByPackage, NothingLost, Safe
<1> QED BY <1>4, <1>5 DEF Init

-----------------------------------------------------------------------------
(* The beginning of a command, and of its stages.                          *)

LEMMA StartFields ==
    ASSUME NEW cmd, NEW plan, Start(cmd, plan)
    PROVE  /\ run.at = "idle" /\ run'.cmd = cmd /\ run'.plan = plan
           /\ run'.at = StageAfter(cmd, "idle")
           /\ run'.todo = Pending(cmd, StageAfter(cmd, "idle"), plan)
  BY DEF Start, Enter

\* Where nothing is written, nothing is lost.
LEMMA UntouchedHeld ==
    ASSUME NothingLost, run.at # "rollback", UNCHANGED <<disk, backup, mine>>,
           struck \subseteq struck'
    PROVE  NothingLost'
  BY DEF NothingLost, AllHeld

LEMMA PlannedFields ==
    ASSUME NEW r \in Release, NEW owned \in SUBSET File, NEW kept, NEW slot
    PROVE  /\ Planned(r, owned, slot, kept).owned = owned
           /\ \A f \in owned : /\ Planned(r, owned, slot, kept).sha[f] \in Package
                               /\ Planned(r, owned, slot, kept).slot[f] = slot[f]
  BY ContentTyped DEF Planned

LEMMA InstallKeeps ==
    ASSUME Safe, NEW r \in Release, Install(r)
    PROVE  Safe'
<1> DEFINE plan == Planned(r, Active(r), BackupFor, manifest.kept)
<1>0. TypeOK /\ ShippedByPackage /\ NothingLost /\ Active(r) \in SUBSET File
  BY InstallerAssumption DEF Safe, Active
<1>1. plan \in Manifest
  BY <1>0, InstallPlanTyped
<1>2. /\ plan.owned = Active(r)
      /\ \A f \in plan.owned : plan.sha[f] \in Package /\ plan.slot[f] = BackupFor[f]
  BY <1>0, PlannedFields
<1>3. Start("install", plan)
  BY DEF Install
<1> HIDE DEF plan
<1>4. /\ run.at = "idle" /\ run'.cmd = "install" /\ run'.plan = plan /\ run'.at = "backup"
      /\ run'.todo = {f \in plan.owned \ manifest.owned : plan.slot[f] # NoSlot}
  <2>1. StageAfter("install", "idle") = "backup"
    BY DEF StageAfter
  <2>2. Pending("install", "backup", plan)
           = {f \in plan.owned \ manifest.owned : plan.slot[f] # NoSlot}
    BY DEF Pending
  <2> QED BY <1>3, <2>1, <2>2, StartFields
<1>5. TypeOK'
  <2>1. run' \in [cmd : Commands, at : Stage, todo : SUBSET File, plan : Manifest]
    BY <1>0, <1>1, <1>3, StartTyped DEF Commands
  <2> QED BY <1>0, <2>1 DEF Install, TypeOK
<1>6. ShippedByPackage'
  BY <1>0, <1>2, <1>4 DEF Install, ShippedByPackage
<1>7. Work'
  <2>1. ASSUME NEW f \in plan.owned, f \in run'.todo
        PROVE  plan.slot[f] \in Slot /\ backup[f][plan.slot[f]] = "absent"
    <3>1. f \in File \ manifest.owned /\ BackupFor[f] # NoSlot
      BY <1>0, <1>2, <1>4, <2>1
    <3>2. BackupFor[f] = FreeSlot(f)
      BY <3>1 DEF BackupFor
    <3>3. Free(f) # {}
      BY <3>1 DEF Install
    <3> QED BY <1>2, <2>1, <3>1, <3>2, <3>3, FreeSlotTyped
  <2>2. ASSUME NEW f \in plan.owned, f \notin run'.todo PROVE disk[f] \notin UserBytes
    <3>1. f \in File
      BY <1>0, <1>2
    <3>2. CASE f \in manifest.owned
      <4>1. MayInstall(f)
        BY <1>2 DEF Install
      <4> QED BY <1>0, <3>2, <4>1, ContentTyped DEF MayInstall, Unmodified, ShippedByPackage
    <3>3. CASE f \notin manifest.owned
      <4>1. BackupFor[f] = NoSlot
        BY <1>2, <1>4, <2>2, <3>3
      <4>2. Free(f) # {}
        BY <3>1, <3>3 DEF Install
      <4>3. FreeSlot(f) # NoSlot
        BY <3>1, <4>2, FreeSlotTyped, InstallerAssumption DEF Slot, NoSlot
      <4>4. disk[f] = "absent"
        BY <3>1, <3>3, <4>1, <4>3 DEF BackupFor
      <4> QED BY <4>4, ContentTyped
    <3> QED BY <3>2, <3>3
  <2>3. backup' = backup /\ disk' = disk
    BY DEF Install
  <2>4. BackupStage'
    BY <1>4, <2>1, <2>2, <2>3 DEF BackupStage, Covered
  <2> QED BY <1>4, <2>4 DEF Work, CopyStage, RetireStage, RemoveStage, RelocateStage, MoveDone,
                            UnlinkStage, MigrationStages, RollbackStage
<1>8. NothingLost'
  BY <1>0, <1>4, UntouchedHeld DEF Install
<1> QED BY <1>5, <1>6, <1>7, <1>8 DEF Safe

LEMMA UninstallKeeps ==
    ASSUME Safe, Uninstall
    PROVE  Safe'
<1>0. TypeOK /\ ShippedByPackage /\ NothingLost
  BY DEF Safe
<1>1. /\ run.at = "idle" /\ run'.cmd = "uninstall" /\ run'.plan = NoManifest
      /\ run'.at = "remove" /\ run'.todo = manifest.owned
  <2>1. Start("uninstall", NoManifest)
    BY DEF Uninstall
  <2>2. StageAfter("uninstall", "idle") = "remove"
    BY DEF StageAfter
  <2>3. Pending("uninstall", "remove", NoManifest) = manifest.owned
    BY DEF Pending
  <2> QED BY <2>1, <2>2, <2>3, StartFields
<1>2. TypeOK'
  <2>1. run' \in [cmd : Commands, at : Stage, todo : SUBSET File, plan : Manifest]
    BY <1>0, StartTyped, NoManifestTyped DEF Uninstall, Commands
  <2> QED BY <1>0, <2>1 DEF Uninstall, TypeOK
<1>3. ShippedByPackage'
  BY <1>0, <1>1 DEF Uninstall, ShippedByPackage, NoManifest
<1>4. \A f \in manifest.owned : disk[f] \notin UserBytes
  BY <1>0, ContentTyped DEF Uninstall, Unmodified, ShippedByPackage
<1>5. RemoveStage'
  BY <1>1, <1>4 DEF RemoveStage, Uninstall
<1>6. Work'
  BY <1>1, <1>5 DEF Work, BackupStage, CopyStage, RetireStage, RelocateStage, MoveDone,
                    UnlinkStage, MigrationStages, RollbackStage
<1>7. NothingLost'
  BY <1>0, <1>1, UntouchedHeld DEF Uninstall
<1> QED BY <1>2, <1>3, <1>6, <1>7 DEF Safe

LEMMA MigrateKeeps ==
    ASSUME Safe, NEW r \in Release, Migrate(r)
    PROVE  Safe'
<1> DEFINE plan == Planned(r, Ships[r] \ Customized, MovedBackup, Customized)
<1>0. TypeOK /\ ShippedByPackage /\ NothingLost /\ Ships[r] \ Customized \in SUBSET File
  BY InstallerAssumption DEF Safe
<1>1. plan \in Manifest
  BY <1>0, MigratePlanTyped
<1>2. /\ plan.owned = Ships[r] \ Customized
      /\ \A f \in plan.owned : plan.sha[f] \in Package /\ plan.slot[f] = MovedBackup[f]
  <2>1. PICK owned \in SUBSET File : owned = Ships[r] \ Customized
    BY <1>0
  <2>2. plan = Planned(r, owned, MovedBackup, Customized)
    BY <2>1
  <2>3. /\ Planned(r, owned, MovedBackup, Customized).owned = owned
        /\ \A f \in owned :
              /\ Planned(r, owned, MovedBackup, Customized).sha[f] \in Package
              /\ Planned(r, owned, MovedBackup, Customized).slot[f] = MovedBackup[f]
    BY PlannedFields
  <2> HIDE DEF plan
  <2> QED BY <2>1, <2>2, <2>3
<1>3. Start("migrate", plan)
  BY DEF Migrate
<1> HIDE DEF plan
<1>4. /\ run.at = "idle" /\ run'.cmd = "migrate" /\ run'.plan = plan /\ run'.at = "relocate"
      /\ run'.todo = {f \in plan.owned : manifest.slot[f] = 0}
  <2>1. StageAfter("migrate", "idle") = "relocate"
    BY DEF StageAfter
  <2>2. Pending("migrate", "relocate", plan) = {f \in plan.owned : manifest.slot[f] = 0}
    BY DEF Pending
  <2> QED BY <1>3, <2>1, <2>2, StartFields
<1>5. TypeOK'
  <2>1. run' \in [cmd : Commands, at : Stage, todo : SUBSET File, plan : Manifest]
    BY <1>0, <1>1, <1>3, StartTyped DEF Commands
  <2>2. before' \in [disk : [File -> Content], backup : [File -> [Slot -> Content]]]
    BY <1>0, PartsTyped DEF Migrate
  <2> QED BY <1>0, <2>1, <2>2 DEF Migrate, TypeOK
<1>6. ShippedByPackage'
  BY <1>0, <1>2, <1>4 DEF Migrate, ShippedByPackage
<1>7. Work'
  <2>1. ASSUME NEW f \in plan.owned, manifest.slot[f] = 0
        PROVE  plan.slot[f] \in Slot \ {0} /\ backup[f][plan.slot[f]] = "absent"
    <3>1. f \in File
      BY <1>0, <1>2
    <3>2. MovedBackup[f] = FreeSlot(f) /\ Free(f) # {}
      BY <2>1, <3>1 DEF MovedBackup, Migrate
    <3> QED BY <1>2, <3>1, <3>2, FreeSlotTyped
  <2>2. ASSUME NEW f \in plan.owned PROVE disk[f] \notin UserBytes
    <3>1. f \in File /\ f \in Ships[r] /\ f \notin Customized
      BY <1>0, <1>2
    <3>2. CASE f \in manifest.owned
      BY <1>0, <3>1, <3>2, ContentTyped DEF Customized, Unmodified, ShippedByPackage
    <3>3. CASE f \notin manifest.owned
      BY <3>1, <3>3, ContentTyped DEF Migrate
    <3> QED BY <3>2, <3>3
  <2>3. backup' = backup /\ disk' = disk /\ manifest' = manifest
        /\ mine' = mine /\ struck' = struck /\ before' = [disk |-> disk, backup |-> backup]
    BY DEF Migrate
  <2>4. RelocateStage'
    BY <1>4, <2>1, <2>3 DEF RelocateStage, InBackupPlace
  <2>5. "rollback" \in struck \/ HeldBefore'
    BY <1>0, <1>4, <2>3 DEF NothingLost, AllHeld, HeldBefore
  <2>6. MigrationStages'
    BY <1>4, <2>2, <2>3, <2>5 DEF MigrationStages
  <2> QED BY <1>4, <2>4, <2>6 DEF Work, BackupStage, CopyStage, RetireStage, RemoveStage,
                                  MoveDone, UnlinkStage, RollbackStage
<1>8. NothingLost'
  BY <1>0, <1>4, UntouchedHeld DEF Migrate
<1> QED BY <1>5, <1>6, <1>7, <1>8 DEF Safe

LEMMA NextStageKeeps ==
    ASSUME Safe, NextStage
    PROVE  Safe'
<1>0. TypeOK /\ ShippedByPackage /\ NothingLost /\ Work
      /\ run.cmd \in Commands /\ run.plan \in Manifest /\ run.plan.owned \subseteq File
  BY PartsTyped DEF Safe, Manifest
<1>1. /\ run'.cmd = run.cmd /\ run'.plan = run.plan /\ run.todo = {}
      /\ run'.at = StageAfter(run.cmd, run.at)
      /\ run'.todo = Pending(run.cmd, run'.at, run.plan)
      /\ run.at \notin {"idle", "manifest", "rollback"}
      /\ UNCHANGED <<disk, backup, manifest, before, mine, gone, struck>>
  BY DEF NextStage, Enter
<1>2. TypeOK'
  <2>1. StageAfter(run.cmd, run.at) \in Stage
    BY <1>0, StageTyped
  <2>2. run' \in [cmd : Commands, at : Stage, todo : SUBSET File, plan : Manifest]
    BY <1>0, <2>1, EnterTyped DEF NextStage
  <2> QED BY <1>0, <1>1, <2>2 DEF TypeOK
<1>3. ShippedByPackage'
  BY <1>0, <1>1 DEF ShippedByPackage
<1>4. Work'
  <2>1. run'.at \notin {"idle", "rollback", "backup", "remove", "relocate"}
    <3>1. run.at # "idle" /\ run.cmd \in Commands
      BY <1>0, <1>1
    <3> QED BY <1>1, <3>1 DEF StageAfter, Commands
  <2>2. MigrationStages'
    BY <1>0, <1>1, <2>1 DEF Work, MigrationStages, HeldBefore
  <2>3. CASE run'.at = "copy"
    <3>1. run'.todo \subseteq run.plan.owned
      BY <1>1, <2>3 DEF Pending
    <3>2. CASE run.cmd = "install"
      <4>1. run.at = "backup"
        BY <1>1, <2>3, <3>2 DEF StageAfter
      <4>2. \A f \in run.plan.owned : Covered(f)
        BY <1>0, <1>1, <4>1 DEF Work, BackupStage
      <4>3. CopyStage'
        BY <1>1, <3>1, <4>2 DEF CopyStage, Covered
      <4> QED BY <1>1, <2>2, <2>3, <3>2, <4>3 DEF Work, BackupStage, RetireStage, RemoveStage,
                   RelocateStage, MoveDone, UnlinkStage, RollbackStage
    <3>3. CASE run.cmd = "migrate"
      <4>1. run.at = "relocate"
        BY <1>1, <2>3, <3>3 DEF StageAfter
      <4>2. \A f \in run.plan.owned : disk[f] \notin UserBytes
        BY <1>0, <3>3, <4>1 DEF Work, MigrationStages
      <4>3. CopyStage'
        BY <1>1, <3>1, <4>2 DEF CopyStage, Covered
      <4>4. \A f \in run.plan.owned : manifest.slot[f] = 0 => Moved(f)
        BY <1>0, <1>1, <4>1 DEF Work, RelocateStage
      <4>5. MoveDone'
        BY <1>1, <4>4 DEF MoveDone, Moved, InBackupPlace
      <4> QED BY <1>1, <2>2, <2>3, <4>3, <4>5 DEF Work, BackupStage, RetireStage, RemoveStage,
                   RelocateStage, UnlinkStage, RollbackStage
    <3>4. run.cmd # "uninstall"
      BY <1>1, <2>3 DEF StageAfter
    <3> QED BY <1>0, <3>2, <3>3, <3>4 DEF Commands
  <2>4. CASE run'.at = "retire"
    <3>1. run.cmd = "install"
      BY <1>0, <1>1, <2>4 DEF StageAfter, Commands
    <3>2. run'.todo \subseteq manifest.owned
      BY <1>1, <2>4 DEF Pending
    <3> QED BY <1>1, <2>2, <2>4, <3>1, <3>2 DEF Work, BackupStage, CopyStage, RetireStage,
                 RemoveStage, RelocateStage, MoveDone, UnlinkStage, RollbackStage
  <2>5. CASE run'.at = "unlink"
    <3>1. run.cmd = "migrate" /\ run.at = "copy"
      BY <1>0, <1>1, <2>5 DEF StageAfter, Commands
    <3>2. run'.todo = {f \in run.plan.owned : manifest.slot[f] = 0}
      BY <1>1, <2>5 DEF Pending
    <3>3. \A f \in run'.todo : Moved(f)
      BY <1>0, <3>1, <3>2 DEF Work, MoveDone
    <3>4. UnlinkStage'
      BY <1>1, <3>1, <3>2, <3>3 DEF UnlinkStage, Moved, InBackupPlace
    <3> QED BY <1>1, <2>2, <2>5, <3>4 DEF Work, BackupStage, CopyStage, RetireStage,
                 RemoveStage, RelocateStage, MoveDone, RollbackStage
  <2>6. CASE run'.at \notin {"copy", "retire", "unlink"}
    BY <2>1, <2>2, <2>6 DEF Work, BackupStage, CopyStage, RetireStage, RemoveStage,
                 RelocateStage, MoveDone, UnlinkStage, RollbackStage
  <2> QED BY <2>3, <2>4, <2>5, <2>6
<1>5. NothingLost'
  BY <1>0, <1>1, UntouchedHeld
<1> QED BY <1>2, <1>3, <1>4, <1>5 DEF Safe

-----------------------------------------------------------------------------
(* The steps of a command: what one write does.                            *)

LEMMA StepDoneFields ==
    ASSUME TypeOK, NEW f, StepDone(f)
    PROVE  /\ run'.cmd = run.cmd /\ run'.at = run.at /\ run'.plan = run.plan
           /\ run'.todo = run.todo \ {f}
           /\ UNCHANGED <<manifest, before, mine, gone, struck>>
  BY DEF StepDone, TypeOK

LEMMA BackupWritten ==
    ASSUME TypeOK, NEW f \in File, NEW s \in Slot, NEW c,
           backup' = [backup EXCEPT ![f][s] = c]
    PROVE  /\ backup'[f][s] = c
           /\ \A t \in Slot \ {s} : backup'[f][t] = backup[f][t]
           /\ \A g \in File \ {f} : backup'[g] = backup[g]
  BY PartsTyped

LEMMA DiskWritten ==
    ASSUME TypeOK, NEW f \in File, NEW c, disk' = [disk EXCEPT ![f] = c]
    PROVE  disk'[f] = c /\ \A g \in File \ {f} : disk'[g] = disk[g]
  BY PartsTyped

\* A backup is written where no backup of the user's bytes was.
LEMMA BackupHolds ==
    ASSUME TypeOK, NothingLost, run.at # "rollback", NEW f \in File, NEW s \in Slot, NEW c,
           backup' = [backup EXCEPT ![f][s] = c], backup[f][s] \notin UserBytes,
           UNCHANGED <<disk, mine>>, struck \subseteq struck'
    PROVE  NothingLost'
<1>1. ASSUME NEW g \in File, NEW u \in mine[g], NEW t \in Slot, backup[g][t] = u
      PROVE  backup'[g][t] = u
  <2>1. u \in UserBytes
    BY PartsTyped
  <2> QED BY <1>1, <2>1, BackupWritten
<1> QED BY <1>1 DEF NothingLost, AllHeld

\* A file is overwritten that is covered by a backup.
LEMMA CoveredHolds ==
    ASSUME TypeOK, NothingLost, run.at # "rollback", NEW f \in File, NEW c, Covered(f),
           disk' = [disk EXCEPT ![f] = c], UNCHANGED <<backup, mine>>, struck \subseteq struck'
    PROVE  NothingLost'
<1>1. ASSUME NEW g \in File, NEW u \in mine[g], disk[g] = u
      PROVE  disk'[g] = u \/ \E t \in Slot : backup[g][t] = u
  <2>1. u \in UserBytes
    BY PartsTyped
  <2> QED BY <1>1, <2>1, DiskWritten DEF Covered
<1> QED BY <1>1 DEF NothingLost, AllHeld

\* The backup moves to the place of a file that is not the user's.
LEMMA TakeAwayHolds ==
    ASSUME TypeOK, NothingLost, run.at # "rollback", NEW f \in File, disk[f] \notin UserBytes,
           TakeAway(f), UNCHANGED mine, struck \subseteq struck'
    PROVE  NothingLost' /\ \A g \in File \ {f} : disk'[g] = disk[g]
<1> DEFINE s == manifest.slot[f]
           b == IF s = NoSlot THEN "absent" ELSE backup[f][s]
<1>1. disk' = [disk EXCEPT ![f] = b]
      /\ backup' = IF s = NoSlot THEN backup ELSE [backup EXCEPT ![f][s] = "absent"]
  BY DEF TakeAway
<1>2. disk'[f] = b /\ \A g \in File \ {f} : disk'[g] = disk[g]
  <2> HIDE DEF b
  <2> QED BY <1>1, DiskWritten
<1>3. ASSUME NEW g \in File, NEW u \in mine[g], disk[g] = u \/ \E t \in Slot : backup[g][t] = u
      PROVE  disk'[g] = u \/ \E t \in Slot : backup'[g][t] = u
  <2>1. u \in UserBytes
    BY PartsTyped
  <2>2. CASE s = NoSlot
    BY <1>1, <1>2, <1>3, <2>1, <2>2
  <2>3. CASE s # NoSlot
    <3>1. s \in Slot
      BY <2>3, PartsTyped
    <3>2. backup' = [backup EXCEPT ![f][s] = "absent"] /\ disk'[f] = backup[f][s]
      BY <1>1, <1>2, <2>3
    <3>3. CASE g = f
      <4>1. PICK t \in Slot : backup[f][t] = u
        BY <1>3, <2>1, <3>3
      <4> HIDE DEF s
      <4> QED BY <3>1, <3>2, <3>3, <4>1, BackupWritten
    <3>4. CASE g # f
      <4> HIDE DEF s
      <4> QED BY <1>2, <1>3, <3>1, <3>2, <3>4, BackupWritten
    <3> QED BY <3>3, <3>4
  <2> QED BY <2>2, <2>3
<1> QED BY <1>2, <1>3 DEF NothingLost, AllHeld

LEMMA MayTearHolds ==
    ASSUME TypeOK, Work, NothingLost, run.at # "rollback", MayTear,
           UNCHANGED mine, struck \subseteq struck'
    PROVE  NothingLost'
<1>1. CASE UNCHANGED <<disk, backup>>
  BY <1>1, UntouchedHeld
<1>2. ASSUME NEW f \in run.todo, run.at \in {"backup", "relocate"}, UNCHANGED disk,
             backup' = [backup EXCEPT ![f][run.plan.slot[f]] = "torn"]
      PROVE  NothingLost'
  <2>1. f \in File
    BY PartsTyped
  <2>2. run.plan.slot[f] \in Slot /\ backup[f][run.plan.slot[f]] = "absent"
    <3>1. CASE run.at = "backup"
      <4>1. f \in run.plan.owned
        BY <3>1 DEF Work, BackupStage
      <4> QED BY <3>1, <4>1 DEF Work, BackupStage
    <3>2. CASE run.at = "relocate"
      <4>1. f \in run.plan.owned /\ manifest.slot[f] = 0
        BY <3>2 DEF Work, RelocateStage
      <4> QED BY <3>2, <4>1 DEF Work, RelocateStage, InBackupPlace
    <3> QED BY <1>2, <3>1, <3>2
  <2> QED BY <1>2, <2>1, <2>2, ContentTyped, BackupHolds
<1>3. ASSUME NEW f \in run.todo, run.at = "copy", disk' = [disk EXCEPT ![f] = "torn"],
             UNCHANGED backup
      PROVE  NothingLost'
  <2>1. f \in File /\ Covered(f)
    BY <1>3, PartsTyped DEF Work, CopyStage
  <2> QED BY <1>3, <2>1, CoveredHolds
<1> QED BY <1>1, <1>2, <1>3 DEF MayTear

-----------------------------------------------------------------------------
(* The steps of a command keep the invariant.                              *)

LEMMA BackUpKeeps ==
    ASSUME Safe, NEW f \in File, BackUp(f)
    PROVE  Safe'
<1> DEFINE s == run.plan.slot[f]
<1>0. TypeOK /\ ShippedByPackage /\ NothingLost /\ Work
  BY DEF Safe
<1>1. /\ run.at = "backup" /\ f \in run.todo /\ StepDone(f) /\ disk' = disk
      /\ backup' = [backup EXCEPT ![f][s] = disk[f]]
  BY DEF BackUp, At
<1>2. /\ run'.cmd = run.cmd /\ run'.at = run.at /\ run'.plan = run.plan
      /\ run'.todo = run.todo \ {f}
      /\ UNCHANGED <<manifest, before, mine, gone, struck>>
  BY <1>0, <1>1, StepDoneFields
<1>3. /\ run.cmd = "install" /\ run.todo \subseteq run.plan.owned
      /\ s \in Slot /\ backup[f][s] = "absent"
  <2>1. f \in run.plan.owned
    BY <1>0, <1>1 DEF Work, BackupStage
  <2> QED BY <1>0, <1>1, <2>1 DEF Work, BackupStage
<1>4. TypeOK'
  BY <1>0, <1>1, <1>3, PartsTyped, WrittenTyped, StepDoneTyped
<1>5. ShippedByPackage'
  BY <1>0, <1>2 DEF ShippedByPackage
<1> HIDE DEF s
<1>6. /\ backup'[f][s] = disk[f]
      /\ \A g \in File \ {f} : backup'[g] = backup[g]
  <2>1. PICK t \in Slot, c \in Content : t = s /\ c = disk[f]
    BY <1>0, <1>3, PartsTyped
  <2>2. backup' = [backup EXCEPT ![f][t] = c]
    BY <1>1, <2>1
  <2>3. /\ backup'[f][t] = c
        /\ \A i \in Slot \ {t} : backup'[f][i] = backup[f][i]
        /\ \A g \in File \ {f} : backup'[g] = backup[g]
    BY <1>0, <2>2, BackupWritten
  <2> QED BY <2>1, <2>3
<1>7. ASSUME NEW g \in run.plan.owned
      PROVE  IF g \in run.todo \ {f}
             THEN run.plan.slot[g] \in Slot /\ backup'[g][run.plan.slot[g]] = "absent"
             ELSE Covered(g)'
  <2>1. g \in File
    BY <1>0, PartsTyped DEF Manifest
  <2>2. CASE g = f
    BY <1>1, <1>3, <1>6, <2>2 DEF Covered
  <2>3. CASE g # f
    <3>1. backup'[g] = backup[g]
      BY <1>6, <2>1, <2>3
    <3> QED BY <1>0, <1>1, <2>3, <3>1 DEF Work, BackupStage, Covered
  <2> QED BY <2>2, <2>3
<1>8. BackupStage'
  BY <1>2, <1>3, <1>7 DEF BackupStage
<1>9. Work'
  BY <1>1, <1>2, <1>3, <1>8 DEF Work, CopyStage, RetireStage, RemoveStage, RelocateStage,
               MoveDone, UnlinkStage, MigrationStages, RollbackStage
<1>10. NothingLost'
  <2>1. PICK t \in Slot, c \in Content : t = s /\ c = disk[f]
    BY <1>0, <1>3, PartsTyped
  <2>2. backup' = [backup EXCEPT ![f][t] = c] /\ backup[f][t] \notin UserBytes
    BY <1>1, <1>3, <2>1, ContentTyped
  <2> QED BY <1>0, <1>1, <1>2, <2>2, BackupHolds
<1> QED BY <1>4, <1>5, <1>9, <1>10 DEF Safe

LEMMA CopyKeeps ==
    ASSUME Safe, NEW f \in File, Copy(f)
    PROVE  Safe'
<1>0. TypeOK /\ ShippedByPackage /\ NothingLost /\ Work
  BY DEF Safe
<1>1. /\ run.at = "copy" /\ f \in run.todo /\ StepDone(f) /\ backup' = backup
      /\ disk' = [disk EXCEPT ![f] = run.plan.sha[f]]
  BY DEF Copy, At
<1>2. /\ run'.cmd = run.cmd /\ run'.at = run.at /\ run'.plan = run.plan
      /\ run'.todo = run.todo \ {f}
      /\ UNCHANGED <<manifest, before, mine, gone, struck>>
  BY <1>0, <1>1, StepDoneFields
<1>3. /\ run.todo \subseteq run.plan.owned /\ Covered(f) /\ run.plan.owned \subseteq File
      /\ run.plan.sha[f] \in Content /\ run.plan.sha[f] \in Package
  <2>1. run.todo \subseteq run.plan.owned /\ Covered(f)
    BY <1>0, <1>1 DEF Work, CopyStage
  <2> QED BY <1>0, <1>1, <2>1, PartsTyped DEF ShippedByPackage, Manifest
<1>4. TypeOK'
  BY <1>0, <1>1, <1>3, PartsTyped, WrittenTyped, StepDoneTyped
<1>5. ShippedByPackage'
  BY <1>0, <1>2 DEF ShippedByPackage
<1>6. disk'[f] \notin UserBytes /\ \A g \in File \ {f} : disk'[g] = disk[g]
  BY <1>0, <1>1, <1>3, ContentTyped, DiskWritten
<1>7. CopyStage'
  BY <1>0, <1>1, <1>2, <1>3, <1>6 DEF Work, CopyStage, Covered
<1>8. MoveDone'
  BY <1>0, <1>1, <1>2 DEF Work, MoveDone, Moved, InBackupPlace
<1>9. MigrationStages'
  <2>1. ASSUME run.cmd = "migrate", NEW g \in run.plan.owned PROVE disk'[g] \notin UserBytes
    BY <1>0, <1>1, <1>3, <1>6, <2>1 DEF Work, MigrationStages
  <2> QED BY <1>0, <1>1, <1>2, <2>1 DEF Work, MigrationStages, HeldBefore
<1>10. Work'
  BY <1>1, <1>2, <1>7, <1>8, <1>9 DEF Work, BackupStage, RetireStage, RemoveStage,
               RelocateStage, UnlinkStage, RollbackStage
<1>11. NothingLost'
  BY <1>0, <1>1, <1>2, <1>3, CoveredHolds
<1> QED BY <1>4, <1>5, <1>10, <1>11 DEF Safe

LEMMA RetireKeeps ==
    ASSUME Safe, NEW f \in File, Retire(f)
    PROVE  Safe'
<1>0. TypeOK /\ ShippedByPackage /\ NothingLost /\ Work
  BY DEF Safe
<1>1. run.at = "retire" /\ f \in run.todo /\ StepDone(f)
  BY DEF Retire, At
<1>2. /\ run'.cmd = run.cmd /\ run'.at = run.at /\ run'.plan = run.plan
      /\ run'.todo = run.todo \ {f}
      /\ UNCHANGED <<manifest, before, mine, gone, struck>>
  BY <1>0, <1>1, StepDoneFields
<1>3. run.cmd = "install" /\ f \in manifest.owned
  BY <1>0, <1>1 DEF Work, RetireStage
<1>4. TypeOK' /\ NothingLost'
  <2>1. CASE disk[f] # "absent" /\ Unmodified(f)
    <3>1. TakeAway(f) /\ disk[f] \notin UserBytes
      BY <1>0, <1>3, <2>1, ContentTyped DEF Retire, Unmodified, ShippedByPackage
    <3> QED BY <1>0, <1>1, <1>2, <3>1, TakeAwayTyped, StepDoneTyped, TakeAwayHolds
  <2>2. CASE ~(disk[f] # "absent" /\ Unmodified(f))
    <3>1. UNCHANGED <<disk, backup>>
      BY <2>2 DEF Retire
    <3> QED BY <1>0, <1>1, <1>2, <3>1, PartsTyped, StepDoneTyped, UntouchedHeld
  <2> QED BY <2>1, <2>2
<1>5. ShippedByPackage'
  BY <1>0, <1>2 DEF ShippedByPackage
<1>6. Work'
  BY <1>0, <1>1, <1>2, <1>3 DEF Work, BackupStage, CopyStage, RetireStage, RemoveStage,
               RelocateStage, MoveDone, UnlinkStage, MigrationStages, RollbackStage
<1> QED BY <1>4, <1>5, <1>6 DEF Safe

LEMMA RemoveKeeps ==
    ASSUME Safe, NEW f \in File, Remove(f)
    PROVE  Safe'
<1>0. TypeOK /\ ShippedByPackage /\ NothingLost /\ Work
  BY DEF Safe
<1>1. run.at = "remove" /\ f \in run.todo /\ StepDone(f)
  BY DEF Remove, At
<1>2. /\ run'.cmd = run.cmd /\ run'.at = run.at /\ run'.plan = run.plan
      /\ run'.todo = run.todo \ {f}
      /\ UNCHANGED <<manifest, before, mine, gone, struck>>
  BY <1>0, <1>1, StepDoneFields
<1>3. /\ run.cmd = "uninstall" /\ run.todo \subseteq manifest.owned
      /\ \A g \in run.todo : disk[g] \notin UserBytes
  BY <1>0, <1>1 DEF Work, RemoveStage
<1>4. TypeOK' /\ NothingLost' /\ \A g \in File \ {f} : disk'[g] = disk[g]
  <2>1. CASE disk[f] # "absent"
    <3>1. TakeAway(f) /\ disk[f] \notin UserBytes
      BY <1>1, <1>3, <2>1 DEF Remove
    <3> QED BY <1>0, <1>1, <1>2, <3>1, TakeAwayTyped, StepDoneTyped, TakeAwayHolds
  <2>2. CASE disk[f] = "absent"
    <3>1. UNCHANGED <<disk, backup>>
      BY <2>2 DEF Remove
    <3> QED BY <1>0, <1>1, <1>2, <3>1, PartsTyped, StepDoneTyped, UntouchedHeld
  <2> QED BY <2>1, <2>2
<1>5. ShippedByPackage'
  BY <1>0, <1>2 DEF ShippedByPackage
<1>6. RemoveStage'
  <2>1. run.todo \subseteq File
    BY <1>0, PartsTyped
  <2> QED BY <1>2, <1>3, <1>4, <2>1 DEF RemoveStage
<1>7. Work'
  BY <1>1, <1>2, <1>3, <1>6 DEF Work, BackupStage, CopyStage, RetireStage,
               RelocateStage, MoveDone, UnlinkStage, MigrationStages, RollbackStage
<1> QED BY <1>4, <1>5, <1>7 DEF Safe

LEMMA RelocateKeeps ==
    ASSUME Safe, NEW f \in File, Relocate(f)
    PROVE  Safe'
<1> DEFINE s == run.plan.slot[f]
<1>0. TypeOK /\ ShippedByPackage /\ NothingLost /\ Work /\ 0 \in Slot
  BY InstallerAssumption DEF Safe, Slot
<1>1. /\ run.at = "relocate" /\ f \in run.todo /\ StepDone(f) /\ disk' = disk
      /\ backup' = [backup EXCEPT ![f][s] = backup[f][0]]
  BY DEF Relocate, At
<1>2. /\ run'.cmd = run.cmd /\ run'.at = run.at /\ run'.plan = run.plan
      /\ run'.todo = run.todo \ {f}
      /\ UNCHANGED <<manifest, before, mine, gone, struck>>
  BY <1>0, <1>1, StepDoneFields
<1>3. /\ run.cmd = "migrate"
      /\ run.todo \subseteq {g \in run.plan.owned : manifest.slot[g] = 0}
      /\ s \in Slot \ {0} /\ backup[f][s] = "absent"
  <2>1. f \in run.plan.owned /\ manifest.slot[f] = 0
    BY <1>0, <1>1 DEF Work, RelocateStage
  <2> QED BY <1>0, <1>1, <2>1 DEF Work, RelocateStage, InBackupPlace
<1>4. backup[f][0] \in Content
  BY <1>0, PartsTyped
<1>5. TypeOK'
  BY <1>0, <1>1, <1>3, <1>4, PartsTyped, WrittenTyped, StepDoneTyped
<1>6. ShippedByPackage'
  BY <1>0, <1>2 DEF ShippedByPackage
<1>7. s \in Slot /\ 0 \in Slot \ {s}
  BY <1>0, <1>3
<1> HIDE DEF s
<1>8. /\ backup'[f][s] = backup[f][0] /\ backup'[f][0] = backup[f][0]
      /\ \A g \in File \ {f} : backup'[g] = backup[g]
  <2>1. PICK t \in Slot, c \in Content : t = s /\ c = backup[f][0]
    BY <1>4, <1>7
  <2>2. backup' = [backup EXCEPT ![f][t] = c]
    BY <1>1, <2>1
  <2>3. /\ backup'[f][t] = c
        /\ \A i \in Slot \ {t} : backup'[f][i] = backup[f][i]
        /\ \A g \in File \ {f} : backup'[g] = backup[g]
    BY <1>0, <2>2, BackupWritten
  <2> QED BY <1>7, <2>1, <2>3
<1>9. ASSUME NEW g \in run.plan.owned, manifest.slot[g] = 0
      PROVE  IF g \in run.todo \ {f}
             THEN InBackupPlace(g) /\ backup'[g][run.plan.slot[g]] = "absent"
             ELSE Moved(g)'
  <2>1. g \in File
    BY <1>0, PartsTyped DEF Manifest
  <2>2. CASE g = f
    BY <1>2, <1>3, <1>8, <2>2 DEF Moved, InBackupPlace, s
  <2>3. CASE g # f
    <3>1. backup'[g] = backup[g]
      BY <1>8, <2>1, <2>3
    <3> QED BY <1>0, <1>1, <1>2, <1>9, <2>3, <3>1 DEF Work, RelocateStage, Moved, InBackupPlace
  <2> QED BY <2>2, <2>3
<1>10. RelocateStage'
  BY <1>2, <1>3, <1>9 DEF RelocateStage, InBackupPlace
<1>11. MigrationStages'
  BY <1>0, <1>1, <1>2, <1>3 DEF Work, MigrationStages, HeldBefore
<1>12. Work'
  BY <1>1, <1>2, <1>10, <1>11 DEF Work, BackupStage, CopyStage, RetireStage, RemoveStage,
               MoveDone, UnlinkStage, RollbackStage
<1>13. NothingLost'
  <2>1. PICK t \in Slot, c \in Content : t = s /\ c = backup[f][0]
    BY <1>4, <1>7
  <2>2. backup' = [backup EXCEPT ![f][t] = c] /\ backup[f][t] \notin UserBytes
    BY <1>1, <1>3, <2>1, ContentTyped
  <2> QED BY <1>0, <1>1, <1>2, <2>2, BackupHolds
<1> QED BY <1>5, <1>6, <1>12, <1>13 DEF Safe

LEMMA UnlinkKeeps ==
    ASSUME Safe, NEW f \in File, Unlink(f)
    PROVE  Safe'
<1>0. TypeOK /\ ShippedByPackage /\ NothingLost /\ Work /\ 0 \in Slot
  BY InstallerAssumption DEF Safe, Slot
<1>1. /\ run.at = "unlink" /\ f \in run.todo /\ StepDone(f) /\ disk' = disk
      /\ backup' = [backup EXCEPT ![f][0] = "absent"]
  BY DEF Unlink, At
<1>2. /\ run'.cmd = run.cmd /\ run'.at = run.at /\ run'.plan = run.plan
      /\ run'.todo = run.todo \ {f}
      /\ UNCHANGED <<manifest, before, mine, gone, struck>>
  BY <1>0, <1>1, StepDoneFields
<1>3. /\ run.cmd = "migrate" /\ (\A g \in run.todo : Moved(g)) /\ run.todo \subseteq File
      /\ run.todo \subseteq {g \in run.plan.owned : manifest.slot[g] = 0}
  BY <1>0, <1>1, PartsTyped DEF Work, UnlinkStage
<1>4. TypeOK'
  BY <1>0, <1>1, ContentTyped, PartsTyped, WrittenTyped, StepDoneTyped
<1>5. ShippedByPackage'
  BY <1>0, <1>2 DEF ShippedByPackage
<1>6. /\ \A t \in Slot \ {0} : backup'[f][t] = backup[f][t]
      /\ \A g \in File \ {f} : backup'[g] = backup[g]
  BY <1>0, <1>1, BackupWritten
<1>7. UnlinkStage'
  BY <1>2, <1>3, <1>6 DEF UnlinkStage, Moved, InBackupPlace
<1>8. MigrationStages'
  BY <1>0, <1>1, <1>2, <1>3 DEF Work, MigrationStages, HeldBefore
<1>9. Work'
  BY <1>1, <1>2, <1>7, <1>8 DEF Work, BackupStage, CopyStage, RetireStage, RemoveStage,
               RelocateStage, MoveDone, RollbackStage
<1>10. NothingLost'
  <2>1. ASSUME NEW g \in File, NEW t \in Slot
        PROVE  \E i \in Slot : backup'[g][i] = backup[g][t]
    <3>1. CASE g = f /\ t = 0
      <4>1. run.plan.slot[f] \in Slot \ {0} /\ backup[f][run.plan.slot[f]] = backup[f][0]
        BY <1>1, <1>3 DEF Moved, InBackupPlace
      <4> QED BY <1>6, <3>1, <4>1
    <3>2. CASE ~(g = f /\ t = 0)
      BY <1>6, <3>2
    <3> QED BY <3>1, <3>2
  <2>2. AllHeld => AllHeld'
    BY <1>1, <1>2, <2>1 DEF AllHeld
  <2> QED BY <1>0, <1>1, <1>2, <2>2 DEF NothingLost
<1> QED BY <1>4, <1>5, <1>9, <1>10 DEF Safe

-----------------------------------------------------------------------------
(* The end of a command, well or not, and the user.                        *)

LEMMA EndKeeps ==
    ASSUME Safe, run' = Idle, before' = NoSnapshot, struck' \subseteq {"command", "rollback"},
           disk' \in [File -> Content], backup' \in [File -> [Slot -> Content]],
           manifest' \in {manifest, run.plan}, UNCHANGED <<mine, gone>>, NothingLost'
    PROVE  Safe'
<1>0. TypeOK /\ ShippedByPackage
  BY DEF Safe
<1>1. run'.at = "idle" /\ run'.plan.owned = {} /\ run'.cmd = "install"
  BY DEF Idle, NoManifest
<1>2. TypeOK'
  BY <1>0, PartsTyped, IdleTyped, NoSnapshotTyped DEF TypeOK
<1>3. ShippedByPackage'
  BY <1>0, <1>1 DEF ShippedByPackage
<1>4. Work'
  BY <1>1 DEF Work, BackupStage, CopyStage, RetireStage, RemoveStage, RelocateStage, MoveDone,
         UnlinkStage, MigrationStages, RollbackStage
<1> QED BY <1>2, <1>3, <1>4 DEF Safe

LEMMA WriteManifestKeeps == ASSUME Safe, WriteManifest PROVE Safe'
<1>1. NothingLost'
  BY UntouchedHeld DEF Safe, WriteManifest
<1>2. TypeOK /\ struck' \subseteq {"command", "rollback"}
  BY DEF Safe, WriteManifest, TypeOK
<1> QED BY <1>1, <1>2, PartsTyped, EndKeeps DEF WriteManifest

LEMMA DieKeeps == ASSUME Safe, Die PROVE Safe'
<1>1. TypeOK /\ Work /\ NothingLost /\ PlanFits
  BY WorkFits DEF Safe
<1>2. run.at # "rollback" /\ struck \subseteq struck' /\ struck' \subseteq {"command", "rollback"}
  BY <1>1 DEF Die, TypeOK
<1>3. NothingLost'
  BY <1>1, <1>2, MayTearHolds DEF Die
<1>4. disk' \in [File -> Content] /\ backup' \in [File -> [Slot -> Content]]
  BY <1>1, MayTearTyped DEF Die
<1> QED BY <1>2, <1>3, <1>4, EndKeeps DEF Die

LEMMA MigrationFailsKeeps == ASSUME Safe, MigrationFails PROVE Safe'
<1>0. TypeOK /\ Work /\ ShippedByPackage /\ PlanFits
  BY WorkFits DEF Safe
<1>1. /\ run.cmd = "migrate" /\ run.at # "idle"
      /\ run'.cmd = "migrate" /\ run'.at = "rollback" /\ run'.plan = run.plan
      /\ UNCHANGED <<manifest, before, mine, gone, struck>>
  BY <1>0 DEF MigrationFails, TypeOK
<1>2. TypeOK'
  <2>1. run' \in [cmd : Commands, at : Stage, todo : SUBSET File, plan : Manifest]
    BY <1>0 DEF MigrationFails, TypeOK, Stage
  <2>2. disk' \in [File -> Content] /\ backup' \in [File -> [Slot -> Content]]
    BY <1>0, MayTearTyped DEF MigrationFails
  <2> QED BY <1>0, <1>1, <2>1, <2>2 DEF TypeOK
<1>3. ShippedByPackage'
  BY <1>0, <1>1 DEF ShippedByPackage
<1>4. MigrationStages'
  BY <1>0, <1>1 DEF Work, MigrationStages, HeldBefore
<1>5. Work'
  BY <1>1, <1>4 DEF Work, BackupStage, CopyStage, RetireStage, RemoveStage, RelocateStage,
         MoveDone, UnlinkStage, RollbackStage
<1>6. NothingLost'
  BY <1>1 DEF NothingLost
<1> QED BY <1>2, <1>3, <1>5, <1>6 DEF Safe

LEMMA RestoreKeeps ==
    ASSUME Safe, run.at = "rollback", UNCHANGED <<manifest, run, before, mine, gone, struck>>,
           disk' \in [File -> Content], backup' \in [File -> [Slot -> Content]]
    PROVE  Safe'
<1>0. TypeOK /\ Work /\ ShippedByPackage
  BY DEF Safe
<1>1. TypeOK' /\ ShippedByPackage' /\ NothingLost'
  BY <1>0 DEF TypeOK, ShippedByPackage, NothingLost
<1>2. MigrationStages' /\ RollbackStage'
  BY <1>0 DEF Work, MigrationStages, HeldBefore, RollbackStage
<1>3. Work'
  BY <1>2 DEF Work, BackupStage, CopyStage, RetireStage, RemoveStage, RelocateStage,
         MoveDone, UnlinkStage
<1> QED BY <1>1, <1>3 DEF Safe

LEMMA RestoreFileKeeps == ASSUME Safe, NEW f \in File, RestoreFile(f) PROVE Safe'
<1>1. TypeOK /\ before.disk[f] \in Content
  BY PartsTyped DEF Safe
<1>2. disk' \in [File -> Content] /\ backup' \in [File -> [Slot -> Content]]
  BY <1>1, PartsTyped, WrittenTyped DEF RestoreFile
<1> QED BY <1>2, RestoreKeeps DEF RestoreFile

LEMMA RestoreBackupKeeps == ASSUME Safe, NEW p \in File \X Slot, RestoreBackup(p) PROVE Safe'
<1>1. TypeOK /\ p[1] \in File /\ p[2] \in Slot
  BY DEF Safe
<1>2. before.backup[p[1]][p[2]] \in Content
  BY <1>1, PartsTyped
<1>3. disk' \in [File -> Content] /\ backup' \in [File -> [Slot -> Content]]
  BY <1>1, <1>2, PartsTyped, WrittenTyped DEF RestoreBackup
<1> QED BY <1>3, RestoreKeeps DEF RestoreBackup

\* With the snapshot restored, and nothing written outside it, the home is the
\* one that the migration found.
LEMMA RestoredWhole ==
    ASSUME Safe, UntouchedAsBefore, RolledBack
    PROVE  /\ \A f \in File : disk[f] = before.disk[f]
           /\ \A f \in File, s \in Slot : backup[f][s] = before.backup[f][s]
<1>1. run.at = "rollback" /\ run.cmd = "migrate"
  BY DEF Safe, RolledBack, Work, RollbackStage
<1>2. ASSUME NEW f \in File PROVE disk[f] = before.disk[f]
  BY <1>1 DEF RolledBack, FilesToRestore, UntouchedAsBefore
<1>3. ASSUME NEW f \in File, NEW s \in Slot PROVE backup[f][s] = before.backup[f][s]
  <2>1. CASE <<f, s>> \in TouchedBackups
    <3>1. \A p \in TouchedBackups : backup[p[1]][p[2]] = before.backup[p[1]][p[2]]
      BY DEF RolledBack, BackupsToRestore
    <3> QED BY <2>1, <3>1
  <2>2. CASE <<f, s>> \notin TouchedBackups
    BY <1>1, <2>2 DEF UntouchedAsBefore
  <2> QED BY <2>1, <2>2
<1> QED BY <1>2, <1>3

LEMMA RolledBackKeeps == ASSUME Safe, UntouchedAsBefore, RolledBack PROVE Safe'
<1>0. TypeOK /\ Work
  BY DEF Safe
<1>1. run.at = "rollback" /\ run.cmd = "migrate"
  BY <1>0 DEF RolledBack, Work, RollbackStage
<1>2. /\ \A f \in File : disk[f] = before.disk[f]
      /\ \A f \in File, s \in Slot : backup[f][s] = before.backup[f][s]
  BY RestoredWhole
<1>3. "rollback" \in struck \/ HeldBefore
  BY <1>0, <1>1 DEF Work, MigrationStages
<1>4. NothingLost'
  BY <1>2, <1>3 DEF RolledBack, NothingLost, AllHeld, HeldBefore
<1>5. struck' \subseteq {"command", "rollback"}
  BY <1>0 DEF RolledBack, TypeOK
<1> QED BY <1>0, <1>4, <1>5, PartsTyped, EndKeeps DEF RolledBack

LEMMA RollbackFailsKeeps == ASSUME Safe, RollbackFails PROVE Safe'
<1>1. TypeOK /\ struck' \subseteq {"command", "rollback"} /\ "rollback" \in struck'
  BY DEF Safe, RollbackFails, TypeOK
<1>2. NothingLost'
  BY <1>1 DEF NothingLost
<1> QED BY <1>1, <1>2, PartsTyped, EndKeeps DEF RollbackFails

\* What the user gives up is gone; all other bytes stay where they were.
LEMMA UserKeeps ==
    ASSUME Safe, run.at = "idle", NEW f \in File, NEW c \in UserBytes \cup {"absent"},
           disk' = [disk EXCEPT ![f] = c],
           mine' = [mine EXCEPT ![f] = Kept(f) \cup Own(c)],
           gone' \in SUBSET File, UNCHANGED <<backup, manifest, run, before, struck>>
    PROVE  Safe'
<1>0. TypeOK /\ ShippedByPackage /\ NothingLost
  BY DEF Safe
<1>1. c \in Content /\ Own(c) \subseteq UserBytes
  BY ContentTyped DEF Own
<1>2. TypeOK'
  <2>1. mine' \in [File -> SUBSET UserBytes]
    BY <1>0, <1>1, PartsTyped DEF Kept
  <2>2. disk' \in [File -> Content]
    BY <1>0, <1>1, WrittenTyped
  <2> QED BY <1>0, <2>1, <2>2 DEF TypeOK
<1>3. ShippedByPackage'
  BY <1>0 DEF ShippedByPackage
<1>4. Work'
  BY DEF Work, BackupStage, CopyStage, RetireStage, RemoveStage, RelocateStage, MoveDone,
         UnlinkStage, MigrationStages, RollbackStage
<1>5. AllHeld => AllHeld'
  <2>1. mine'[f] = Kept(f) \cup Own(c) /\ \A g \in File \ {f} : mine'[g] = mine[g]
    BY <1>0, PartsTyped
  <2>2. disk'[f] = c /\ \A g \in File \ {f} : disk'[g] = disk[g]
    BY <1>0, DiskWritten
  <2>3. ASSUME AllHeld, NEW u \in mine'[f]
        PROVE  disk'[f] = u \/ \E s \in Slot : backup[f][s] = u
    BY <2>1, <2>2, <2>3 DEF AllHeld, Kept, Own
  <2> QED BY <2>1, <2>2, <2>3 DEF AllHeld
<1>6. NothingLost'
  BY <1>0, <1>5 DEF NothingLost
<1> QED BY <1>2, <1>3, <1>4, <1>6 DEF Safe

LEMMA EditKeeps == ASSUME Safe, NEW f \in File, Edit(f) PROVE Safe'
<1>1. PICK u \in UserBytes : disk' = [disk EXCEPT ![f] = u]
                             /\ mine' = [mine EXCEPT ![f] = Kept(f) \cup {u}]
  BY DEF Edit
<1>2. Own(u) = {u} /\ gone' \in SUBSET File
  BY DEF Own, Edit, Safe, TypeOK
<1> QED BY <1>1, <1>2, UserKeeps DEF Edit

LEMMA DeleteKeeps == ASSUME Safe, NEW f \in File, Delete(f) PROVE Safe'
<1>1. Kept(f) \cup Own("absent") = Kept(f) /\ gone' \in SUBSET File
  BY ContentTyped DEF Own, Delete, Safe, TypeOK
<1>2. disk' = [disk EXCEPT ![f] = "absent"]
      /\ mine' = [mine EXCEPT ![f] = Kept(f) \cup Own("absent")]
  BY <1>1 DEF Delete
<1> QED BY <1>1, <1>2, UserKeeps DEF Delete

LEMMA StutterKeeps == ASSUME Safe, UNCHANGED vars PROVE Safe'
<1>1. TypeOK' /\ ShippedByPackage' /\ NothingLost'
  BY DEF Safe, vars, TypeOK, ShippedByPackage, NothingLost, AllHeld
<1>2. Work'
  BY DEF Safe, vars, Work, BackupStage, CopyStage, RetireStage, RemoveStage, RelocateStage,
         MoveDone, UnlinkStage, MigrationStages, RollbackStage, Covered, Moved, InBackupPlace,
         HeldBefore
<1> QED BY <1>1, <1>2 DEF Safe

LEMMA SafeNext == IInv /\ [Next]_vars => Safe'
<1> SUFFICES ASSUME Safe, UntouchedAsBefore, [Next]_vars PROVE Safe'
  BY DEF IInv
<1>1. CASE \E r \in Release : Install(r) \/ Migrate(r)
  BY <1>1, InstallKeeps, MigrateKeeps
<1>2. CASE Uninstall \/ NextStage \/ WriteManifest
  BY <1>2, UninstallKeeps, NextStageKeeps, WriteManifestKeeps
<1>3. CASE \E f \in File : BackUp(f) \/ Copy(f) \/ Retire(f) \/ Remove(f) \/ Relocate(f) \/ Unlink(f)
  BY <1>3, BackUpKeeps, CopyKeeps, RetireKeeps, RemoveKeeps, RelocateKeeps, UnlinkKeeps
<1>4. CASE \E f \in File : RestoreFile(f) \/ Edit(f) \/ Delete(f)
  BY <1>4, RestoreFileKeeps, EditKeeps, DeleteKeeps
<1>5. CASE \E p \in File \X Slot : RestoreBackup(p)
  BY <1>5, RestoreBackupKeeps
<1>6. CASE Die \/ MigrationFails \/ RolledBack \/ RollbackFails
  BY <1>6, DieKeeps, MigrationFailsKeeps, RolledBackKeeps, RollbackFailsKeeps
<1>7. CASE UNCHANGED vars
  BY <1>7, StutterKeeps
<1> QED BY <1>1, <1>2, <1>3, <1>4, <1>5, <1>6, <1>7 DEF Next

-----------------------------------------------------------------------------
(* A migration writes nothing that its snapshot does not hold.             *)

\* One backup of f is written, and none of another file.
LEMMA PlaceWritten ==
    ASSUME TypeOK, NEW f \in File, NEW t, NEW c, backup' = [backup EXCEPT ![f][t] = c]
    PROVE  /\ \A s \in Slot \ {t} : backup'[f][s] = backup[f][s]
           /\ \A g \in File \ {f} : backup'[g] = backup[g]
  BY PartsTyped

\* A migration at work writes one touched file, one touched backup, or nothing.
LEMMA TouchedWritten ==
    ASSUME IInv, run.cmd = "migrate", run.at # "idle",
           run'.cmd = run.cmd, run'.plan = run.plan, UNCHANGED <<manifest, before>>,
           \/ UNCHANGED <<disk, backup>>
           \/ \E f \in TouchedFiles : \E c :
                 disk' = [disk EXCEPT ![f] = c] /\ UNCHANGED backup
           \/ \E p \in TouchedBackups : \E c :
                 backup' = [backup EXCEPT ![p[1]][p[2]] = c] /\ UNCHANGED disk
    PROVE  UntouchedAsBefore'
<1>0. TypeOK /\ UntouchedAsBefore
  BY DEF IInv, Safe
<1>1. TouchedFiles' = TouchedFiles /\ TouchedBackups' = TouchedBackups
  BY DEF TouchedFiles, TouchedBackups
<1>2. TouchedFiles \subseteq File /\ TouchedBackups \subseteq File \X Slot
  BY <1>0, PartsTyped DEF TouchedFiles, TouchedBackups, Manifest
<1>3. ASSUME NEW f \in File, f \notin TouchedFiles PROVE disk'[f] = before.disk[f]
  <2>1. disk'[f] = disk[f]
    BY <1>0, <1>2, <1>3, DiskWritten
  <2> QED BY <1>0, <1>3, <2>1 DEF UntouchedAsBefore
<1>4. ASSUME NEW f \in File, NEW s \in Slot, <<f, s>> \notin TouchedBackups
      PROVE  backup'[f][s] = before.backup[f][s]
  <2>1. CASE UNCHANGED backup
    BY <1>0, <1>4, <2>1 DEF UntouchedAsBefore
  <2>2. CASE ~UNCHANGED backup
    <3>0. PICK p \in TouchedBackups : \E c : backup' = [backup EXCEPT ![p[1]][p[2]] = c]
      BY <2>2
    <3>1. PICK c : backup' = [backup EXCEPT ![p[1]][p[2]] = c]
      BY <3>0
    <3>2. p[1] \in File /\ p = <<p[1], p[2]>>
      BY <1>2
    <3>3. PICK g \in File : g = p[1]
      BY <3>2
    <3>4. PICK t : t = p[2]
      OBVIOUS
    <3>5. g # f \/ t # s
      BY <1>4, <3>2, <3>3, <3>4
    <3>6. backup' = [backup EXCEPT ![g][t] = c]
      BY <3>1, <3>3, <3>4
    <3>7. backup'[f][s] = backup[f][s]
      BY <1>0, <3>5, <3>6, PlaceWritten
    <3> QED BY <1>0, <1>4, <3>7 DEF UntouchedAsBefore
  <2> QED BY <2>1, <2>2
<1> QED BY <1>1, <1>3, <1>4 DEF UntouchedAsBefore

\* Copies go to the destinations of the plan, relocations from and to the places
\* of its backups, and a cut copy is one of those.
LEMMA UntouchedStep == ASSUME IInv, [Next]_vars PROVE UntouchedAsBefore'
<1>0. TypeOK /\ Work /\ PlanFits /\ 0 \in Slot /\ run.todo \subseteq File
  BY WorkFits, PartsTyped, InstallerAssumption DEF IInv, Safe, Slot
<1>1. CASE run'.cmd # "migrate" \/ run'.at = "idle"
  BY <1>1 DEF UntouchedAsBefore
<1>2. ASSUME NEW r \in Release, Migrate(r) PROVE UntouchedAsBefore'
  <2>1. before' = [disk |-> disk, backup |-> backup] /\ UNCHANGED <<disk, backup>>
    BY <1>2 DEF Migrate
  <2>2. before'.disk = disk /\ before'.backup = backup
    BY <2>1
  <2> QED BY <2>1, <2>2 DEF UntouchedAsBefore
<1>3. ASSUME NEW r \in Release, Install(r) PROVE run'.cmd # "migrate"
  <2>1. Start("install", Planned(r, Active(r), BackupFor, manifest.kept))
    BY <1>3 DEF Install
  <2> QED BY <2>1, StartFields
<1>4. Uninstall => run'.cmd # "migrate"
  BY StartFields DEF Uninstall
<1>5. WriteManifest \/ Die \/ RolledBack \/ RollbackFails => run'.at = "idle"
  BY DEF WriteManifest, Die, RolledBack, RollbackFails, Idle
<1>6. CASE NextStage
  <2>1. /\ run'.cmd = run.cmd /\ run'.plan = run.plan /\ run.at # "idle"
        /\ UNCHANGED <<disk, backup, manifest, before>>
    BY <1>6 DEF NextStage, Enter
  <2> QED BY <1>1, <2>1, TouchedWritten
<1>7. ASSUME NEW f \in File, BackUp(f) \/ Retire(f) \/ Remove(f) PROVE run'.cmd # "migrate"
  <2>1. run.cmd # "migrate" /\ StepDone(f)
    BY <1>0, <1>7 DEF BackUp, Retire, Remove, At, Work, BackupStage, RetireStage, RemoveStage
  <2> QED BY <1>0, <2>1, StepDoneFields
<1>8. ASSUME NEW f \in File, Copy(f) PROVE UntouchedAsBefore'
  <2>1. /\ run'.cmd = run.cmd /\ run'.plan = run.plan /\ run.at # "idle"
        /\ UNCHANGED <<backup, manifest, before>>
    BY <1>0, <1>8, StepDoneFields DEF Copy, At
  <2>2. f \in TouchedFiles
    BY <1>0, <1>8 DEF Copy, At, Work, CopyStage, TouchedFiles
  <2>3. disk' = [disk EXCEPT ![f] = run.plan.sha[f]]
    BY <1>8 DEF Copy
  <2> QED BY <1>1, <2>1, <2>2, <2>3, TouchedWritten
<1>9. ASSUME NEW f \in run.todo, run.at \in {"relocate", "unlink"}
      PROVE  /\ <<f, 0>> \in TouchedBackups
             /\ run.at = "relocate" => <<f, run.plan.slot[f]>> \in TouchedBackups
  <2>1. f \in File /\ f \in run.plan.owned /\ manifest.slot[f] = 0
    BY <1>0, <1>9 DEF Work, RelocateStage, UnlinkStage
  <2>2. run.at = "relocate" => run.plan.slot[f] \in Slot
    BY <1>0 DEF PlanFits
  <2> QED BY <1>0, <2>1, <2>2 DEF TouchedBackups
<1>10. ASSUME NEW f \in File, Relocate(f) \/ Unlink(f) PROVE UntouchedAsBefore'
  <2>1. /\ run'.cmd = run.cmd /\ run'.plan = run.plan /\ run.at # "idle"
        /\ UNCHANGED <<disk, manifest, before>>
    BY <1>0, <1>10, StepDoneFields DEF Relocate, Unlink, At
  <2>2. PICK t, c : <<f, t>> \in TouchedBackups /\ backup' = [backup EXCEPT ![f][t] = c]
    BY <1>9, <1>10 DEF Relocate, Unlink, At
  <2>3. \E p \in TouchedBackups : \E d : backup' = [backup EXCEPT ![p[1]][p[2]] = d]
    <3>1. backup' = [backup EXCEPT ![<<f, t>>[1]][<<f, t>>[2]] = c]
      BY <2>2
    <3> QED BY <2>2, <3>1
  <2> QED BY <1>1, <2>1, <2>3, TouchedWritten
<1>11. CASE MigrationFails
  <2>1. /\ run.cmd = "migrate" /\ run'.cmd = run.cmd /\ run'.plan = run.plan /\ run.at # "idle"
        /\ UNCHANGED <<manifest, before>>
    BY <1>0, <1>11 DEF MigrationFails, TypeOK
  <2>2. CASE UNCHANGED <<disk, backup>>
    BY <2>1, <2>2, TouchedWritten
  <2>3. CASE ~UNCHANGED <<disk, backup>>
    <3>1. PICK f \in run.todo :
          \/ /\ run.at \in {"backup", "relocate"}
             /\ backup' = [backup EXCEPT ![f][run.plan.slot[f]] = "torn"]
             /\ UNCHANGED disk
          \/ /\ run.at = "copy"
             /\ disk' = [disk EXCEPT ![f] = "torn"]
             /\ UNCHANGED backup
      BY <1>11, <2>3 DEF MigrationFails, MayTear
    <3>2. run.at # "backup"
      BY <1>0, <2>1 DEF Work, BackupStage
    <3>3. CASE run.at = "copy"
      <4>1. f \in TouchedFiles
        BY <1>0, <3>3 DEF Work, CopyStage, TouchedFiles
      <4>2. disk' = [disk EXCEPT ![f] = "torn"] /\ UNCHANGED backup
        BY <3>1, <3>3
      <4> QED BY <2>1, <4>1, <4>2, TouchedWritten
    <3>4. CASE run.at = "relocate"
      <4>1. PICK t : t = run.plan.slot[f] /\ <<f, t>> \in TouchedBackups
        BY <1>9, <3>4
      <4>2. backup' = [backup EXCEPT ![<<f, t>>[1]][<<f, t>>[2]] = "torn"] /\ UNCHANGED disk
        BY <3>1, <3>4, <4>1
      <4> QED BY <2>1, <4>1, <4>2, TouchedWritten
    <3> QED BY <3>1, <3>2, <3>3, <3>4
  <2> QED BY <2>2, <2>3
<1>12. ASSUME NEW f \in File, RestoreFile(f) PROVE UntouchedAsBefore'
  <2>1. f \in TouchedFiles /\ disk' = [disk EXCEPT ![f] = before.disk[f]]
    BY <1>12 DEF RestoreFile, FilesToRestore
  <2> QED BY <1>1, <1>12, <2>1, TouchedWritten DEF RestoreFile
<1>13. ASSUME NEW p \in File \X Slot, RestoreBackup(p) PROVE UntouchedAsBefore'
  <2>1. /\ p \in TouchedBackups
        /\ backup' = [backup EXCEPT ![p[1]][p[2]] = before.backup[p[1]][p[2]]]
    BY <1>13 DEF RestoreBackup, BackupsToRestore
  <2> QED BY <1>1, <1>13, <2>1, TouchedWritten DEF RestoreBackup
<1>14. ASSUME NEW f \in File, Edit(f) \/ Delete(f) PROVE run'.at = "idle"
  BY <1>14 DEF Edit, Delete
<1>15. CASE UNCHANGED vars
  BY <1>1, <1>15, TouchedWritten DEF vars
<1> QED BY <1>1, <1>2, <1>3, <1>4, <1>5, <1>6, <1>7, <1>8, <1>10, <1>11, <1>12, <1>13, <1>14, <1>15
        DEF Next

LEMMA InvInit == Init => IInv
  BY SafeInit DEF IInv, UntouchedAsBefore, Init, Idle

LEMMA InvNext == IInv /\ [Next]_vars => IInv'
  BY SafeNext, UntouchedStep DEF IInv

\* The files, the backups, the manifest and the work of a command are well
\* formed in every run of the installer: a planned backup or relocation always
\* has a slot to go to (cmd_install and cmd_migrate_manifest_v1).
THEOREM InstallerTypeCorrect == Spec => []TypeOK
<1>1. IInv => TypeOK
  BY DEF IInv, Safe
<1> QED BY InvInit, InvNext, <1>1, PTL DEF Spec

\* Wherever install, uninstall or a migration is killed or fails, the bytes a
\* user wrote and did not remove stay at their place or in a backup: backups are
\* taken before the copies, nothing is removed that is not the package's, and a
\* backup is unlinked only after it was copied (cmd_install, cmd_uninstall,
\* cmd_migrate_manifest_v1).
THEOREM NothingIsLost == Spec => []NothingLost
<1>1. IInv => NothingLost
  BY DEF IInv, Safe
<1> QED BY InvInit, InvNext, <1>1, PTL DEF Spec
=============================================================================
