---------------------- MODULE InstallerCommandsProofs ----------------------
(***************************************************************************)
(* What a command of the installer leaves behind, for every number of      *)
(* files, releases and backup places: a completed one a home that verify   *)
(* accepts, but for preserved files that the user deleted, a migration     *)
(* that was rolled back the home it found, and, where nothing was cut off, *)
(* a home that an uninstallation makes the user's again.  No command       *)
(* writes a file preserved for the user.                                   *)
(***************************************************************************)
EXTENDS InstallerLifecycleProofs

-----------------------------------------------------------------------------
(* The inductive invariant.                                                *)

\* A manifest never owns what it preserves, and tells of a backup only for what
\* it owns.
Regular(m) ==
    /\ m.kept \cap m.owned = {}
    /\ \A f \in File \ m.owned : m.slot[f] = NoSlot
    /\ m.version = 0 => m.owned = {}

\* No command plans to own what is preserved; a migration runs over v1 only.
Plans ==
    /\ Regular(manifest) /\ Regular(run.plan)
    /\ manifest.kept \cap run.plan.owned = {}
    /\ run.plan.version # 1
    /\ manifest.version = 1 => manifest.kept = {}
    /\ run.at # "idle" /\ run.cmd = "migrate" => manifest.version = 1

\* What was copied stays copied until the manifest says so.
Verified ==
    /\ run.at = "copy" =>
          /\ run.cmd # "uninstall"
          /\ \A f \in run.plan.owned \ run.todo : disk[f] = run.plan.sha[f]
    /\ run.at \in {"retire", "unlink", "manifest"} =>
          \A f \in run.plan.owned : disk[f] = run.plan.sha[f]
    /\ run.at = "retire" => run.todo \cap run.plan.owned = {}
    /\ run.at = "remove" => run.plan.owned = {}

\* The user has nothing more of f, or removed it.
Forgone(f) == mine[f] = {} \/ f \in gone

\* With c in the place of f and the backups b of f, the manifest m is enough to
\* uninstall f: c is the package's, or the user's own, and what comes back when
\* it is taken away is the user's too.
SoundAt(f, c, b, m) ==
    IF f \in m.owned
    THEN /\ c \in {"absent", m.sha[f]} \cup mine[f]
         /\ c = "absent" => Forgone(f)
         /\ IF m.slot[f] = NoSlot THEN Forgone(f) \/ c \in mine[f]
            ELSE b[m.slot[f]] \in mine[f]
    ELSE IF mine[f] = {} THEN c = "absent" ELSE c \in mine[f] \/ (f \in gone /\ c = "absent")

SoundNow(f) == SoundAt(f, disk[f], backup[f], manifest)

SoundBefore(f) == SoundAt(f, before.disk[f], before.backup[f], manifest)

\* What the new manifest will put back when f is uninstalled is the user's.
Fit(f) ==
    IF run.plan.slot[f] = NoSlot THEN Forgone(f) ELSE backup[f][run.plan.slot[f]] \in mine[f]

\* f is about to be owned: saved, or about to be saved.
Joining(f) ==
    IF run.at = "backup" /\ f \in run.todo THEN disk[f] \in mine[f]
    ELSE IF run.at = "relocate" /\ f \in run.todo THEN backup[f][0] \in mine[f]
    ELSE Fit(f)

\* f is owned by the old manifest and the command has still to take it away.
Leaving(f) ==
    /\ f \in manifest.owned /\ run.cmd # "migrate"
    /\ run.at \in {"backup", "copy"} \/ (run.at \in {"retire", "remove"} /\ f \in run.todo)

Underway(f) ==
    IF f \in run.plan.owned THEN Joining(f)
    ELSE IF Leaving(f) THEN SoundNow(f) ELSE Cleaned(f)

\* As long as nothing was cut off, the home is sound between two commands, a
\* running command makes it sound again, and a migration can go back to what it
\* found.
Sound ==
    struck = {} =>
        /\ run.at = "idle" => \A f \in File : SoundNow(f)
        /\ run.at \notin {"idle", "rollback"} => \A f \in File : Underway(f)
        /\ run.cmd = "migrate" /\ run.at # "idle" => \A f \in File : SoundBefore(f)

CInv == IInv /\ Plans /\ Verified /\ Sound

-----------------------------------------------------------------------------
(* What the steps do, field by field.                                      *)

LEMMA PlannedWhole ==
    ASSUME NEW r \in Release, NEW owned, NEW kept, NEW slot
    PROVE  /\ Planned(r, owned, slot, kept).version = 2
           /\ Planned(r, owned, slot, kept).owned = owned
           /\ Planned(r, owned, slot, kept).kept = kept
           /\ \A f \in File : Planned(r, owned, slot, kept).slot[f]
                                 = IF f \in owned THEN slot[f] ELSE NoSlot
  BY DEF Planned

LEMMA InstallStarted ==
    ASSUME TypeOK, NEW r \in Release, Install(r)
    PROVE  /\ run.at = "idle" /\ run'.cmd = "install" /\ run'.at = "backup"
           /\ run'.plan.version = 2 /\ run'.plan.owned = Active(r) /\ Active(r) \subseteq File
           /\ run'.plan.kept = manifest.kept
           /\ \A f \in File : run'.plan.slot[f] = IF f \in Active(r) THEN BackupFor[f] ELSE NoSlot
           /\ run'.todo = {f \in Active(r) \ manifest.owned : run'.plan.slot[f] # NoSlot}
           /\ UNCHANGED <<disk, backup, manifest, before, mine, gone, struck>>
<1> DEFINE plan == Planned(r, Active(r), BackupFor, manifest.kept)
<1>1. /\ plan.version = 2 /\ plan.owned = Active(r) /\ plan.kept = manifest.kept
      /\ \A f \in File : plan.slot[f] = IF f \in Active(r) THEN BackupFor[f] ELSE NoSlot
  BY PlannedWhole
<1>2. Start("install", plan)
  BY DEF Install
<1> HIDE DEF plan
<1>3. StageAfter("install", "idle") = "backup"
      /\ Pending("install", "backup", plan)
            = {f \in plan.owned \ manifest.owned : plan.slot[f] # NoSlot}
  BY DEF StageAfter, Pending
<1>4. Active(r) \subseteq File
  BY InstallerAssumption DEF Active
<1> QED BY <1>1, <1>2, <1>3, <1>4, StartFields DEF Install

LEMMA MigrateStarted ==
    ASSUME TypeOK, NEW r \in Release, Migrate(r)
    PROVE  /\ run.at = "idle" /\ run'.cmd = "migrate" /\ run'.at = "relocate"
           /\ run'.plan.version = 2 /\ run'.plan.owned = Ships[r] \ Customized
           /\ Ships[r] \subseteq File /\ run'.plan.kept = Customized
           /\ \A f \in File : run'.plan.slot[f]
                                 = IF f \in Ships[r] \ Customized THEN MovedBackup[f] ELSE NoSlot
           /\ run'.todo = {f \in Ships[r] \ Customized : manifest.slot[f] = 0}
           /\ before' = [disk |-> disk, backup |-> backup]
           /\ UNCHANGED <<disk, backup, manifest, mine, gone, struck>>
<1> DEFINE plan == Planned(r, Ships[r] \ Customized, MovedBackup, Customized)
<1>1. /\ plan.version = 2 /\ plan.owned = Ships[r] \ Customized /\ plan.kept = Customized
      /\ \A f \in File : plan.slot[f]
                            = IF f \in Ships[r] \ Customized THEN MovedBackup[f] ELSE NoSlot
  BY PlannedWhole
<1>2. Start("migrate", plan)
  BY DEF Migrate
<1> HIDE DEF plan
<1>3. StageAfter("migrate", "idle") = "relocate"
      /\ Pending("migrate", "relocate", plan) = {f \in plan.owned : manifest.slot[f] = 0}
  BY DEF StageAfter, Pending
<1>4. Ships[r] \subseteq File
  BY InstallerAssumption
<1> QED BY <1>1, <1>2, <1>3, <1>4, StartFields DEF Migrate

LEMMA UninstallStarted ==
    ASSUME TypeOK, Uninstall
    PROVE  /\ run.at = "idle" /\ run'.cmd = "uninstall" /\ run'.at = "remove"
           /\ run'.plan = NoManifest /\ run'.todo = manifest.owned
           /\ UNCHANGED <<disk, backup, manifest, before, mine, gone, struck>>
<1>1. Start("uninstall", NoManifest)
  BY DEF Uninstall
<1>2. StageAfter("uninstall", "idle") = "remove"
      /\ Pending("uninstall", "remove", NoManifest) = manifest.owned
  BY DEF StageAfter, Pending
<1> QED BY <1>1, <1>2, StartFields DEF Uninstall

LEMMA NextStageFields ==
    ASSUME NextStage
    PROVE  /\ run'.cmd = run.cmd /\ run'.plan = run.plan /\ run.todo = {}
           /\ run'.at = StageAfter(run.cmd, run.at)
           /\ run'.todo = Pending(run.cmd, run'.at, run.plan)
           /\ run.at \notin {"idle", "manifest", "rollback"}
           /\ UNCHANGED <<disk, backup, manifest, before, mine, gone, struck>>
  BY DEF NextStage, Enter

\* Where the stages of a command lead, and whose they are.
LEMMA StageOrder ==
    ASSUME IInv, Verified, run.at \notin {"idle", "manifest", "rollback"}
    PROVE  \/ run.at = "backup" /\ run.cmd = "install" /\ StageAfter(run.cmd, run.at) = "copy"
           \/ run.at = "copy" /\ run.cmd = "install" /\ StageAfter(run.cmd, run.at) = "retire"
           \/ run.at = "retire" /\ run.cmd = "install" /\ StageAfter(run.cmd, run.at) = "manifest"
           \/ run.at = "relocate" /\ run.cmd = "migrate" /\ StageAfter(run.cmd, run.at) = "copy"
           \/ run.at = "copy" /\ run.cmd = "migrate" /\ StageAfter(run.cmd, run.at) = "unlink"
           \/ run.at = "unlink" /\ run.cmd = "migrate" /\ StageAfter(run.cmd, run.at) = "manifest"
           \/ run.at = "remove" /\ run.cmd = "uninstall" /\ StageAfter(run.cmd, run.at) = "manifest"
<1>1. run.cmd \in Commands /\ run.at \in Stage
  BY PartsTyped DEF IInv, Safe
<1>2. /\ run.at = "backup" => run.cmd = "install"
      /\ run.at = "copy" => run.cmd # "uninstall"
      /\ run.at = "retire" => run.cmd = "install"
      /\ run.at = "relocate" => run.cmd = "migrate"
      /\ run.at = "unlink" => run.cmd = "migrate"
      /\ run.at = "remove" => run.cmd = "uninstall"
  BY DEF IInv, Safe, Work, BackupStage, RetireStage, RelocateStage, UnlinkStage, RemoveStage, Verified
<1> QED BY <1>1, <1>2 DEF Commands, Stage, StageAfter

\* What comes back, or nothing.
PutBack(f) == IF manifest.slot[f] = NoSlot THEN "absent" ELSE backup[f][manifest.slot[f]]

LEMMA TakeAwayWritten ==
    ASSUME TypeOK, NEW f \in File, TakeAway(f)
    PROVE  /\ disk'[f] = PutBack(f)
           /\ \A g \in File \ {f} : disk'[g] = disk[g] /\ backup'[g] = backup[g]
<1>1. /\ disk' = [disk EXCEPT ![f] = PutBack(f)]
      /\ backup' = IF manifest.slot[f] = NoSlot THEN backup
                   ELSE [backup EXCEPT ![f][manifest.slot[f]] = "absent"]
  BY DEF TakeAway, PutBack
<1>2. disk'[f] = PutBack(f) /\ \A g \in File \ {f} : disk'[g] = disk[g]
  BY <1>1, DiskWritten
<1>3. \A g \in File \ {f} : backup'[g] = backup[g]
  BY <1>1, PartsTyped
<1> QED BY <1>2, <1>3

\* One step of a stage, on one file.
Doing(f) == BackUp(f) \/ Copy(f) \/ Retire(f) \/ Remove(f) \/ Relocate(f) \/ Unlink(f)

LEMMA DoingFields ==
    ASSUME TypeOK, NEW f \in File, Doing(f)
    PROVE  /\ f \in run.todo /\ run.at \notin {"idle", "manifest", "rollback"}
           /\ run'.cmd = run.cmd /\ run'.at = run.at /\ run'.plan = run.plan
           /\ run'.todo = run.todo \ {f}
           /\ UNCHANGED <<manifest, before, mine, gone, struck>>
           /\ \A g \in File \ {f} : disk'[g] = disk[g] /\ backup'[g] = backup[g]
<1>1. f \in run.todo /\ run.at \notin {"idle", "manifest", "rollback"} /\ StepDone(f)
  BY DEF Doing, BackUp, Copy, Retire, Remove, Relocate, Unlink, At
<1>2. \A g \in File \ {f} : disk'[g] = disk[g] /\ backup'[g] = backup[g]
  <2>1. CASE BackUp(f) \/ Relocate(f) \/ Unlink(f)
    BY <2>1, PartsTyped DEF BackUp, Relocate, Unlink
  <2>2. CASE Copy(f)
    BY <2>2, PartsTyped DEF Copy
  <2>3. CASE Retire(f) \/ Remove(f)
    <3>1. TakeAway(f) \/ UNCHANGED <<disk, backup>>
      BY <2>3 DEF Retire, Remove
    <3> QED BY <3>1, TakeAwayWritten
  <2> QED BY <2>1, <2>2, <2>3 DEF Doing
<1> QED BY <1>1, <1>2, StepDoneFields

-----------------------------------------------------------------------------
(* What the manifests say, the old one and the planned one.                *)

\* The plan of a command that is over is no plan.
LEMMA IdlePlans ==
    ASSUME Regular(manifest'), manifest'.version = 1 => manifest'.kept = {}, run' = Idle
    PROVE  Plans'
<1>1. Regular(NoManifest) /\ NoManifest.owned = {} /\ NoManifest.version = 0
  BY DEF Regular, NoManifest
<1>2. run'.plan = NoManifest /\ run'.at = "idle"
  BY DEF Idle
<1> QED BY <1>1, <1>2 DEF Plans, Regular

LEMMA PlansInit == Init => Plans
<1> SUFFICES ASSUME Init PROVE Plans
  OBVIOUS
<1>1. Regular(manifest) /\ manifest.kept = {}
  <2>1. CASE FreshHome
    BY <2>1 DEF FreshHome, Regular, NoManifest
  <2>2. CASE LegacyHome
    <3>1. PICK r \in Release, owned \in SUBSET File \ {{}} :
            manifest \in
              {[ version |-> 1, owned |-> owned, kept |-> {},
                 sha |-> [f \in File |-> IF f \in owned THEN Bytes[r][f] ELSE "absent"],
                 slot |-> [f \in File |-> IF f \in owned THEN s[f] ELSE NoSlot] ]
                   : s \in [File -> {NoSlot, 0, 1}]}
      BY <2>2 DEF LegacyHome
    <3>2. PICK s \in [File -> {NoSlot, 0, 1}] :
            manifest = [ version |-> 1, owned |-> owned, kept |-> {},
                 sha |-> [f \in File |-> IF f \in owned THEN Bytes[r][f] ELSE "absent"],
                 slot |-> [f \in File |-> IF f \in owned THEN s[f] ELSE NoSlot] ]
      BY <3>1
    <3> QED BY <3>2 DEF Regular
  <2> QED BY <2>1, <2>2 DEF Init
<1>2. run = Idle /\ Regular(NoManifest) /\ NoManifest.owned = {} /\ NoManifest.version = 0
  BY DEF Init, Regular, NoManifest
<1> QED BY <1>1, <1>2 DEF Plans, Idle

LEMMA PlansStep ==
    ASSUME IInv, Plans, [Next]_vars
    PROVE  Plans'
<1>0. TypeOK /\ Work
  BY DEF IInv, Safe
<1>1. ASSUME NEW r \in Release, Install(r) PROVE Plans'
  <2>1. Active(r) \cap manifest.kept = {}
    BY DEF Active
  <2>2. manifest.version # 1
    BY <1>1 DEF Install
  <2>3. Regular(run'.plan)
    BY <1>0, <1>1, <2>1, InstallStarted DEF Regular
  <2> QED BY <1>0, <1>1, <2>1, <2>2, <2>3, InstallStarted DEF Plans, Regular
<1>2. ASSUME NEW r \in Release, Migrate(r) PROVE Plans'
  <2>1. manifest.version = 1 /\ manifest.kept = {}
    BY <1>2 DEF Migrate, Plans
  <2>2. Regular(run'.plan)
    BY <1>0, <1>2, MigrateStarted DEF Regular
  <2> QED BY <1>0, <1>2, <2>1, <2>2, MigrateStarted DEF Plans, Regular
<1>3. CASE Uninstall
  <2>1. Regular(NoManifest) /\ NoManifest.owned = {} /\ NoManifest.version = 0
    BY DEF Regular, NoManifest
  <2> QED BY <1>0, <1>3, <2>1, UninstallStarted DEF Plans, Regular
<1>4. CASE NextStage
  BY <1>4, NextStageFields DEF Plans, Regular
<1>5. ASSUME NEW f \in File, Doing(f) PROVE Plans'
  BY <1>0, <1>5, DoingFields DEF Plans, Regular
<1>6. CASE WriteManifest
  <2>1. manifest' = run.plan /\ run' = Idle
    BY <1>6 DEF WriteManifest
  <2>2. Regular(manifest') /\ manifest'.version # 1
    BY <2>1 DEF Plans, Regular
  <2> QED BY <2>1, <2>2, IdlePlans
<1>7. CASE Die \/ RolledBack \/ RollbackFails
  <2>1. manifest' = manifest /\ run' = Idle
    BY <1>7 DEF Die, RolledBack, RollbackFails
  <2>2. Regular(manifest') /\ (manifest'.version = 1 => manifest'.kept = {})
    BY <2>1 DEF Plans, Regular
  <2> QED BY <2>1, <2>2, IdlePlans
<1>8. CASE MigrationFails
  <2>1. run'.cmd = run.cmd /\ run'.plan = run.plan /\ run.at # "idle" /\ manifest' = manifest
    BY <1>0, <1>8 DEF MigrationFails, TypeOK
  <2> QED BY <2>1 DEF Plans, Regular
<1>9. ASSUME UNCHANGED <<manifest, run>> PROVE Plans'
  BY <1>9 DEF Plans, Regular
<1>10. ASSUME NEW f \in File, RestoreFile(f) \/ Edit(f) \/ Delete(f) PROVE UNCHANGED <<manifest, run>>
  BY <1>10 DEF RestoreFile, Edit, Delete
<1>11. ASSUME NEW p \in File \X Slot, RestoreBackup(p) PROVE UNCHANGED <<manifest, run>>
  BY <1>11 DEF RestoreBackup
<1> QED BY <1>1, <1>2, <1>3, <1>4, <1>5, <1>6, <1>7, <1>8, <1>9, <1>10, <1>11
        DEF Next, Doing, vars

\* The plans stay regular in every run.
LEMMA PlansInvariant == Spec => [](IInv /\ Plans)
<1>1. Init => IInv /\ Plans
  BY InvInit, PlansInit
<1>2. IInv /\ Plans /\ [Next]_vars => (IInv /\ Plans)'
  BY InvNext, PlansStep
<1> QED BY <1>1, <1>2, PTL DEF Spec

\* A step of a command writes only what it plans to own, or what it owned; a
\* step of a rollback only runs over a v1 manifest, which preserves nothing.
LEMMA PreservedUntouched ==
    ASSUME IInv, Plans, [Next]_vars, NEW f \in manifest.kept, run.at # "idle"
    PROVE  disk'[f] = disk[f]
<1>0. TypeOK /\ Work /\ f \in File /\ run.todo \subseteq File
  BY PartsTyped DEF IInv, Safe
<1>1. f \notin manifest.owned /\ f \notin run.plan.owned
  BY DEF Plans, Regular
<1>2. ASSUME NEW g \in File, Doing(g) PROVE disk'[f] = disk[f]
  <2>1. CASE g # f
    BY <1>0, <1>2, <2>1, DoingFields
  <2>2. CASE g = f
    <3>1. BackUp(f) \/ Relocate(f) \/ Unlink(f)
      BY <1>0, <1>1, <1>2, <2>2 DEF Doing, Copy, Retire, Remove, At, Work, CopyStage, RetireStage,
                                   RemoveStage
    <3> QED BY <3>1 DEF BackUp, Relocate, Unlink
  <2> QED BY <2>1, <2>2
<1>3. CASE MayTear /\ run.at # "rollback"
  <2>1. CASE disk' = disk
    BY <2>1
  <2>2. CASE disk' # disk
    <3>1. PICK g \in run.todo : run.at = "copy" /\ disk' = [disk EXCEPT ![g] = "torn"]
      BY <1>3, <2>2 DEF MayTear
    <3>2. g # f /\ g \in File
      BY <1>0, <1>1, <3>1 DEF Work, CopyStage
    <3> QED BY <1>0, <3>1, <3>2, DiskWritten
  <2> QED BY <2>1, <2>2
<1>4. run.at # "rollback"
  BY <1>0 DEF Work, RollbackStage, Plans
<1>5. CASE Die \/ MigrationFails
  BY <1>3, <1>4, <1>5 DEF Die, MigrationFails
<1>6. ASSUME NEW r \in Release, Install(r) \/ Migrate(r) PROVE disk'[f] = disk[f]
  BY <1>6 DEF Install, Migrate
<1>7. CASE Uninstall \/ NextStage \/ WriteManifest \/ UNCHANGED vars
  BY <1>7 DEF Uninstall, NextStage, WriteManifest, vars
<1>8. ASSUME NEW g \in File PROVE ~RestoreFile(g) /\ ~Edit(g) /\ ~Delete(g)
  BY <1>4 DEF RestoreFile, Edit, Delete
<1>9. ~RolledBack /\ ~RollbackFails /\ \A p \in File \X Slot : ~RestoreBackup(p)
  BY <1>4 DEF RolledBack, RollbackFails, RestoreBackup
<1> QED BY <1>2, <1>5, <1>6, <1>7, <1>8, <1>9 DEF Next, Doing

\* A declaration that a migration preserved stays the user's: no later install,
\* uninstall, failure or rollback writes it.
THEOREM PreservedStays == Spec => PreservedStaysTheUsers
<1>1. IInv /\ Plans /\ [Next]_vars => [\A f \in manifest.kept : run.at # "idle" => disk'[f] = disk[f]]_vars
  BY PreservedUntouched
<1> QED BY <1>1, PlansInvariant, PTL DEF Spec, PreservedStaysTheUsers

\* A migration whose rollback was not itself cut off ends on the files, the
\* backups and the v1 manifest that it found (restore of
\* cmd_migrate_manifest_v1).
LEMMA RollbackComplete ==
    ASSUME IInv, Plans, [Next]_vars, run.at = "rollback", run'.at = "idle",
           "rollback" \notin struck'
    PROVE  disk = before.disk /\ backup = before.backup /\ manifest.version = 1
<1>0. TypeOK /\ Work
  BY DEF IInv, Safe
<1>1. manifest.version = 1
  BY <1>0 DEF Work, RollbackStage, Plans
<1>2. RolledBack
  <2>1. ~RollbackFails /\ ~Die /\ ~MigrationFails /\ ~Uninstall /\ ~NextStage /\ ~WriteManifest
    BY DEF RollbackFails, Die, MigrationFails, Uninstall, NextStage, WriteManifest, Start
  <2>2. \A r \in Release : ~Install(r) /\ ~Migrate(r)
    BY DEF Install, Migrate, Start
  <2>3. \A f \in File : ~Doing(f) /\ ~Edit(f) /\ ~Delete(f) /\ ~RestoreFile(f)
    BY <1>0, DoingFields DEF Edit, Delete, RestoreFile
  <2>4. \A p \in File \X Slot : ~RestoreBackup(p)
    BY DEF RestoreBackup
  <2>5. ~UNCHANGED vars
    BY DEF vars
  <2> QED BY <2>1, <2>2, <2>3, <2>4, <2>5 DEF Next, Doing
<1>3. disk = before.disk
  <2>1. \A f \in File : disk[f] = before.disk[f]
    BY <1>2, RestoredWhole DEF IInv
  <2>2. disk \in [File -> Content] /\ before.disk \in [File -> Content]
    BY <1>0, PartsTyped
  <2> QED BY <2>1, <2>2
<1>4. backup = before.backup
  <2>1. \A f \in File, s \in Slot : backup[f][s] = before.backup[f][s]
    BY <1>2, RestoredWhole DEF IInv
  <2>2. backup \in [File -> [Slot -> Content]] /\ before.backup \in [File -> [Slot -> Content]]
    BY <1>0, PartsTyped
  <2>3. ASSUME NEW f \in File PROVE backup[f] = before.backup[f]
    <3>1. backup[f] \in [Slot -> Content] /\ before.backup[f] \in [Slot -> Content]
      BY <2>2
    <3> QED BY <2>1, <3>1
  <2> QED BY <2>2, <2>3
<1> QED BY <1>1, <1>3, <1>4

\* A migration that fails anywhere and whose rollback is neither killed nor met
\* by an error leaves every file, every backup and the v1 manifest as it found
\* them, however many files were copied and backups moved by then: its snapshot
\* of the touched paths leaves nothing out that a step before the failure wrote.
THEOREM MigrationIsAllOrNothing == Spec => MigrationAllOrNothing
<1>1. IInv /\ Plans /\ [Next]_vars =>
        [run.at = "rollback" /\ run'.at = "idle" /\ "rollback" \notin struck' =>
            disk = before.disk /\ backup = before.backup /\ manifest.version = 1]_vars
  BY RollbackComplete
<1> QED BY <1>1, PlansInvariant, PTL DEF Spec, MigrationAllOrNothing

-----------------------------------------------------------------------------
(* What was copied stays copied.                                           *)

LEMMA VerifiedStep ==
    ASSUME IInv, Verified, [Next]_vars
    PROVE  Verified'
<1>0. TypeOK /\ Work /\ run.todo \subseteq File /\ run.plan.owned \subseteq File
  BY PartsTyped DEF IInv, Safe, Manifest
<1>1. ASSUME run'.at \notin {"copy", "retire", "unlink", "remove", "manifest"} PROVE Verified'
  BY <1>1 DEF Verified
<1>2. ASSUME NEW r \in Release, Install(r) \/ Migrate(r) PROVE Verified'
  BY <1>0, <1>1, <1>2, InstallStarted, MigrateStarted
<1>3. CASE Uninstall
  BY <1>0, <1>3, UninstallStarted DEF Verified, NoManifest
<1>4. CASE NextStage
  <2>1. /\ run'.cmd = run.cmd /\ run'.plan = run.plan /\ run.todo = {} /\ disk' = disk
        /\ manifest' = manifest
        /\ run'.at = StageAfter(run.cmd, run.at)
        /\ run'.todo = Pending(run.cmd, run'.at, run.plan)
        /\ run.at \notin {"idle", "manifest", "rollback"}
    BY <1>4, NextStageFields
  <2>2. CASE run'.at = "copy"
    <3>1. run'.todo = IF run.cmd = "install" THEN run.plan.owned
                      ELSE {f \in run.plan.owned : disk[f] # run.plan.sha[f]}
      BY <2>1, <2>2 DEF Pending
    <3>2. run.cmd # "uninstall"
      BY <2>1, <2>2, StageOrder
    <3> QED BY <2>1, <2>2, <3>1, <3>2 DEF Verified
  <2>3. CASE run'.at = "retire"
    <3>1. run'.todo = manifest.owned \ run.plan.owned
      BY <2>1, <2>3 DEF Pending
    <3>2. run.at = "copy"
      BY <2>1, <2>3, StageOrder
    <3> QED BY <2>1, <2>3, <3>1, <3>2 DEF Verified
  <2>4. CASE run'.at = "unlink"
    <3>1. run.at = "copy"
      BY <2>1, <2>4, StageOrder
    <3> QED BY <2>1, <2>4, <3>1 DEF Verified
  <2>5. CASE run'.at = "manifest"
    <3>1. run.at \in {"retire", "unlink"} \/ run.plan.owned = {}
      <4>1. run.at \in {"retire", "unlink"} \/ run.at = "remove"
        BY <2>1, <2>5, StageOrder
      <4>2. ASSUME run.at = "remove" PROVE run.plan.owned = {}
        BY <4>2 DEF Verified
      <4> QED BY <4>1, <4>2
    <3> QED BY <2>1, <2>5, <3>1 DEF Verified
  <2>6. run'.at # "remove"
    BY <2>1, StageOrder
  <2> QED BY <1>1, <2>2, <2>3, <2>4, <2>5, <2>6
<1>5. ASSUME NEW f \in File, Doing(f) PROVE Verified'
  <2>1. /\ f \in run.todo
        /\ run'.cmd = run.cmd /\ run'.at = run.at /\ run'.plan = run.plan
        /\ run'.todo = run.todo \ {f}
        /\ \A g \in File \ {f} : disk'[g] = disk[g]
    BY <1>0, <1>5, DoingFields
  <2>2. CASE Copy(f)
    <3>1. run.at = "copy" /\ disk'[f] = run.plan.sha[f]
      BY <1>0, <2>2, PartsTyped DEF Copy, At
    <3> QED BY <1>0, <2>1, <3>1 DEF Verified
  <2>3. CASE Unlink(f)
    <3>1. run.at = "unlink" /\ disk' = disk
      BY <2>3 DEF Unlink, At
    <3> QED BY <2>1, <3>1 DEF Verified
  <2>4. CASE Retire(f)
    <3>1. run.at = "retire"
      BY <2>4 DEF Retire, At
    <3>2. \A g \in run.plan.owned : g \in File \ {f}
      BY <1>0, <2>1, <3>1 DEF Verified
    <3> QED BY <2>1, <3>1, <3>2 DEF Verified
  <2>5. CASE BackUp(f) \/ Remove(f) \/ Relocate(f)
    <3>1. run.at \in {"backup", "remove", "relocate"}
      BY <2>5 DEF BackUp, Remove, Relocate, At
    <3> QED BY <2>1, <3>1 DEF Verified
  <2> QED BY <1>5, <2>2, <2>3, <2>4, <2>5 DEF Doing
<1>6. CASE WriteManifest \/ Die \/ RolledBack \/ RollbackFails
  <2>1. run' = Idle
    BY <1>6 DEF WriteManifest, Die, RolledBack, RollbackFails
  <2> QED BY <1>1, <2>1 DEF Idle
<1>7. CASE MigrationFails
  BY <1>0, <1>1, <1>7 DEF MigrationFails, TypeOK
<1>8. ASSUME NEW f \in File, RestoreFile(f) \/ Edit(f) \/ Delete(f) PROVE Verified'
  BY <1>1, <1>8 DEF RestoreFile, Edit, Delete
<1>9. ASSUME NEW p \in File \X Slot, RestoreBackup(p) PROVE Verified'
  BY <1>1, <1>9 DEF RestoreBackup
<1>10. CASE UNCHANGED vars
  BY <1>10 DEF vars, Verified
<1> QED BY <1>2, <1>3, <1>4, <1>5, <1>6, <1>7, <1>8, <1>9, <1>10 DEF Next, Doing

-----------------------------------------------------------------------------
(* What is preserved stays where it is, unless the user removes it.        *)

There(f) == disk[f] # "absent" \/ f \in gone

KeptStays ==
    /\ \A f \in manifest.kept : There(f)
    /\ run.at \notin {"idle", "rollback"} => \A f \in run.plan.kept : There(f)
    /\ run.at # "idle" /\ run.cmd # "migrate" => run.plan.kept \subseteq manifest.kept

\* Nor does a migration write the files that it is about to preserve.
LEMMA ToBeKeptUntouched ==
    ASSUME IInv, Plans, [Next]_vars, run.at \notin {"idle", "rollback"}, run.cmd = "migrate",
           NEW f \in run.plan.kept
    PROVE  disk'[f] = disk[f]
<1>0. TypeOK /\ Work /\ f \in File /\ run.todo \subseteq File
  BY PartsTyped DEF IInv, Safe, Manifest
<1>1. f \notin run.plan.owned
  BY DEF Plans, Regular
<1>2. ASSUME NEW g \in File, Doing(g) PROVE disk'[f] = disk[f]
  <2>1. CASE g # f
    BY <1>0, <1>2, <2>1, DoingFields
  <2>2. CASE g = f
    <3>1. BackUp(f) \/ Relocate(f) \/ Unlink(f)
      BY <1>0, <1>1, <1>2, <2>2 DEF Doing, Copy, Retire, Remove, At, Work, CopyStage, RetireStage,
                                   RemoveStage
    <3> QED BY <3>1 DEF BackUp, Relocate, Unlink
  <2> QED BY <2>1, <2>2
<1>3. CASE MayTear
  <2>1. CASE disk' = disk
    BY <2>1
  <2>2. CASE disk' # disk
    <3>1. PICK g \in run.todo : run.at = "copy" /\ disk' = [disk EXCEPT ![g] = "torn"]
      BY <1>3, <2>2 DEF MayTear
    <3>2. g # f /\ g \in File
      BY <1>0, <1>1, <3>1 DEF Work, CopyStage
    <3> QED BY <1>0, <3>1, <3>2, DiskWritten
  <2> QED BY <2>1, <2>2
<1>4. CASE Die \/ MigrationFails
  BY <1>3, <1>4 DEF Die, MigrationFails
<1>5. ASSUME NEW r \in Release, Install(r) \/ Migrate(r) PROVE disk'[f] = disk[f]
  BY <1>5 DEF Install, Migrate
<1>6. CASE Uninstall \/ NextStage \/ WriteManifest \/ UNCHANGED vars
  BY <1>6 DEF Uninstall, NextStage, WriteManifest, vars
<1>7. ASSUME NEW g \in File PROVE ~RestoreFile(g) /\ ~Edit(g) /\ ~Delete(g)
  BY DEF RestoreFile, Edit, Delete
<1>8. ~RolledBack /\ ~RollbackFails /\ \A p \in File \X Slot : ~RestoreBackup(p)
  BY DEF RolledBack, RollbackFails, RestoreBackup
<1> QED BY <1>2, <1>4, <1>5, <1>6, <1>7, <1>8 DEF Next, Doing

\* Only the user's own steps change what the user removed.
LEMMA GoneStays ==
    ASSUME TypeOK, [Next]_vars, run.at # "idle"
    PROVE  gone' = gone
<1>1. \A f \in File : (Doing(f) => gone' = gone) /\ ~Edit(f) /\ ~Delete(f)
  BY DoingFields DEF Edit, Delete
<1>2. \A r \in Release : ~Install(r) /\ ~Migrate(r)
  BY StartFields DEF Install, Migrate, Start
<1>3. \A f \in File : RestoreFile(f) => gone' = gone
  BY DEF RestoreFile
<1>4. \A p \in File \X Slot : RestoreBackup(p) => gone' = gone
  BY DEF RestoreBackup
<1>5. Uninstall \/ NextStage \/ WriteManifest \/ Die \/ MigrationFails \/ RolledBack \/ RollbackFails
      \/ UNCHANGED vars => gone' = gone
  BY DEF Uninstall, NextStage, WriteManifest, Die, MigrationFails, RolledBack, RollbackFails, vars
<1> QED BY <1>1, <1>2, <1>3, <1>4, <1>5 DEF Next, Doing

LEMMA KeptStaysStep ==
    ASSUME IInv, Plans, KeptStays, [Next]_vars
    PROVE  KeptStays'
<1>0. TypeOK /\ manifest.kept \subseteq File
  BY PartsTyped DEF IInv, Safe
<1>1. run.at # "idle" => \A f \in manifest.kept : There(f)'
  BY <1>0, PreservedUntouched, GoneStays DEF KeptStays, There
<1>2. ASSUME run.at \notin {"idle", "rollback"}, NEW f \in run.plan.kept PROVE There(f)'
  <2>1. CASE run.cmd = "migrate"
    BY <1>0, <1>2, <2>1, ToBeKeptUntouched, GoneStays DEF KeptStays, There
  <2>2. CASE run.cmd # "migrate"
    BY <1>1, <1>2, <2>2 DEF KeptStays
  <2> QED BY <2>1, <2>2
<1>3. ASSUME NEW r \in Release, Install(r) PROVE KeptStays'
  <2>1. /\ run'.plan.kept = manifest.kept
        /\ UNCHANGED <<disk, manifest, gone>>
    BY <1>0, <1>3, InstallStarted
  <2> QED BY <2>1 DEF KeptStays, There
<1>4. ASSUME NEW r \in Release, Migrate(r) PROVE KeptStays'
  <2>1. /\ run'.plan.kept = Customized /\ run'.cmd = "migrate"
        /\ UNCHANGED <<disk, manifest, gone>>
    BY <1>0, <1>4, MigrateStarted
  <2> QED BY <2>1 DEF KeptStays, There, Customized
<1>5. CASE Uninstall
  <2>1. /\ run'.plan.kept = {} /\ UNCHANGED <<disk, manifest, gone>>
    BY <1>0, <1>5, UninstallStarted DEF NoManifest
  <2> QED BY <2>1 DEF KeptStays, There
<1>6. ASSUME run.at \notin {"idle", "rollback"}, run'.cmd = run.cmd, run'.plan = run.plan,
             manifest' = manifest
      PROVE  KeptStays'
  BY <1>1, <1>2, <1>6 DEF KeptStays
<1>7. CASE NextStage
  BY <1>6, <1>7, NextStageFields
<1>8. ASSUME NEW f \in File, Doing(f) PROVE KeptStays'
  BY <1>0, <1>6, <1>8, DoingFields
<1>9. CASE WriteManifest
  <2>1. run.at = "manifest" /\ manifest' = run.plan /\ run'.at = "idle"
    BY <1>9 DEF WriteManifest, Idle
  <2> QED BY <1>2, <2>1 DEF KeptStays
<1>10. CASE Die \/ RolledBack \/ RollbackFails
  <2>1. run.at # "idle" /\ manifest' = manifest /\ run'.at = "idle"
    BY <1>10 DEF Die, RolledBack, RollbackFails, Idle
  <2> QED BY <1>1, <2>1 DEF KeptStays
<1>11. ASSUME run.at # "idle", run'.at = "rollback", run'.cmd = "migrate", manifest' = manifest
       PROVE  KeptStays'
  BY <1>1, <1>11 DEF KeptStays
<1>12. CASE MigrationFails
  BY <1>0, <1>11, <1>12 DEF MigrationFails, TypeOK
<1>13. ASSUME run.at = "rollback", UNCHANGED <<run, manifest>> PROVE KeptStays'
  <2>1. run.cmd = "migrate"
    BY <1>13 DEF IInv, Safe, Work, RollbackStage
  <2> QED BY <1>11, <1>13, <2>1
<1>14. ASSUME NEW f \in File, RestoreFile(f) PROVE KeptStays'
  BY <1>13, <1>14 DEF RestoreFile
<1>15. ASSUME NEW p \in File \X Slot, RestoreBackup(p) PROVE KeptStays'
  BY <1>13, <1>15 DEF RestoreBackup
<1>16. ASSUME NEW f \in File, Edit(f) \/ Delete(f) PROVE KeptStays'
  <2>1. run.at = "idle" /\ UNCHANGED <<run, manifest>>
    BY <1>16 DEF Edit, Delete
  <2>2. ASSUME NEW g \in manifest.kept PROVE There(g)'
    <3>1. There(g) /\ g \in File
      BY <1>0, <2>2 DEF KeptStays
    <3>2. CASE Delete(f)
      BY <1>0, <3>1, <3>2, DiskWritten DEF Delete, There
    <3>3. CASE Edit(f)
      <4>1. PICK u \in UserBytes : disk' = [disk EXCEPT ![f] = u] /\ gone' = gone \ {f}
        BY <3>3 DEF Edit
      <4>2. /\ disk'[f] # "absent" /\ \A h \in File \ {f} : disk'[h] = disk[h]
        BY <1>0, <4>1, DiskWritten, ContentTyped
      <4> QED BY <3>1, <4>1, <4>2 DEF There
    <3> QED BY <1>16, <3>2, <3>3
  <2> QED BY <2>1, <2>2 DEF KeptStays
<1>17. CASE UNCHANGED vars
  BY <1>17 DEF vars, KeptStays, There
<1> QED BY <1>3, <1>4, <1>5, <1>7, <1>8, <1>9, <1>10, <1>12, <1>14, <1>15, <1>16, <1>17
        DEF Next, Doing

LEMMA AcceptedInvariant == Spec => [](IInv /\ Plans /\ Verified /\ KeptStays)
<1>1. Init => Verified
  BY DEF Init, Idle, Verified
<1>2. Init => KeptStays
  BY DEF Init, Idle, FreshHome, LegacyHome, NoManifest, KeptStays
<1>3. IInv /\ Plans /\ Verified /\ KeptStays /\ [Next]_vars
         => (IInv /\ Plans /\ Verified /\ KeptStays)'
  BY InvNext, PlansStep, VerifiedStep, KeptStaysStep
<1> QED BY <1>1, <1>2, <1>3, InvInit, PlansInit, PTL DEF Spec

\* A command that runs to its end, also one that leaves the manifest as it was,
\* and whatever was killed or failed before it, ends on managed files that are
\* what the manifest says and on preserved files that are there unless the user
\* deleted them: what cmd_verify asks for (cmd_install, cmd_uninstall,
\* cmd_migrate_manifest_v1).
THEOREM CompletedIsVerified == Spec => CompletedMeansVerified
<1>1. IInv /\ Plans /\ Verified /\ KeptStays /\ [Next]_vars => [WriteManifest => Accepted']_vars
  <2> SUFFICES ASSUME IInv, Verified, KeptStays, WriteManifest PROVE Accepted'
    OBVIOUS
  <2>1. run.at = "manifest" /\ manifest' = run.plan /\ UNCHANGED <<disk, gone>>
    BY DEF WriteManifest
  <2>2. \A f \in run.plan.owned : disk[f] = run.plan.sha[f]
    BY <2>1 DEF Verified
  <2>3. \A f \in run.plan.kept : disk[f] # "absent" \/ f \in gone
    BY <2>1 DEF KeptStays, There
  <2> QED BY <2>1, <2>2, <2>3 DEF Accepted
<1> QED BY <1>1, AcceptedInvariant, PTL DEF Spec, CompletedMeansVerified

-----------------------------------------------------------------------------
(* As long as nothing was cut off, an uninstallation restores.             *)

\* What is owned, the bytes of the package and what users write.
LEMMA KindsOfBytes ==
    ASSUME TypeOK, ShippedByPackage
    PROVE  /\ \A f \in File : mine[f] \subseteq UserBytes /\ "absent" \notin mine[f]
           /\ \A f \in manifest.owned : manifest.sha[f] \notin mine[f] /\ manifest.sha[f] # "absent"
           /\ \A f \in run.plan.owned : run.plan.sha[f] # "absent"
<1>1. \A f \in File : mine[f] \subseteq UserBytes
  BY PartsTyped
<1>2. "absent" \notin Package /\ "absent" \notin UserBytes /\ Package \cap UserBytes = {}
  BY InstallerAssumption
<1>3. manifest.owned \subseteq File
  BY PartsTyped
<1> QED BY <1>1, <1>2, <1>3 DEF ShippedByPackage

LEMMA SoundInit == Init => Sound
<1> SUFFICES ASSUME Init, NEW f \in File PROVE SoundNow(f)
  BY DEF Init, Idle, Sound
<1>1. CASE FreshHome
  <2>1. f \notin manifest.owned
    BY <1>1 DEF FreshHome, NoManifest
  <2>2. mine[f] = Own(disk[f]) /\ disk[f] \in UserBytes \cup {"absent"}
    BY <1>1 DEF FreshHome
  <2> QED BY <2>1, <2>2, ContentTyped DEF SoundNow, SoundAt, Own
<1>2. CASE LegacyHome
  <2>1. PICK r \in Release, owned \in SUBSET File \ {{}} :
        /\ manifest \in
              {[ version |-> 1, owned |-> owned, kept |-> {},
                 sha |-> [g \in File |-> IF g \in owned THEN Bytes[r][g] ELSE "absent"],
                 slot |-> [g \in File |-> IF g \in owned THEN s[g] ELSE NoSlot] ]
                   : s \in [File -> {NoSlot, 0, 1}]}
        /\ backup \in
              {[g \in File |-> [i \in Slot |->
                   IF i = manifest.slot[g] THEN b ELSE "absent"]] : b \in UserBytes}
        /\ disk \in [File -> UserBytes \cup {"absent"} \cup {Bytes[r][g] : g \in owned}]
        /\ \A g \in owned : disk[g] \in Package => disk[g] = manifest.sha[g]
        /\ \A g \in File \ owned : disk[g] \notin Package
        /\ mine = [g \in File |-> (Own(disk[g]) \cup {backup[g][i] : i \in Slot}) \cap UserBytes]
        /\ gone = {g \in owned : disk[g] = "absent"}
    BY <1>2 DEF LegacyHome
  <2>2. PICK s \in [File -> {NoSlot, 0, 1}] :
           manifest = [ version |-> 1, owned |-> owned, kept |-> {},
                 sha |-> [g \in File |-> IF g \in owned THEN Bytes[r][g] ELSE "absent"],
                 slot |-> [g \in File |-> IF g \in owned THEN s[g] ELSE NoSlot] ]
    BY <2>1
  <2>3. PICK b \in UserBytes :
           backup = [g \in File |-> [i \in Slot |-> IF i = manifest.slot[g] THEN b ELSE "absent"]]
    BY <2>1
  <2>4. /\ manifest.owned = owned
        /\ manifest.slot[f] = IF f \in owned THEN s[f] ELSE NoSlot
        /\ manifest.slot[f] \in Slot \cup {NoSlot} /\ NoSlot \notin Slot
    BY <2>2, InstallerAssumption DEF Slot, NoSlot
  <2>5. \A i \in Slot : backup[f][i] = IF i = manifest.slot[f] THEN b ELSE "absent"
    BY <2>3
  <2>6. mine[f] = (Own(disk[f]) \cup {backup[f][i] : i \in Slot}) \cap UserBytes
    BY <2>1
  <2>7. disk[f] \in UserBytes \cup {"absent"} \cup Package
    <3>1. \A g \in owned : Bytes[r][g] \in Package
      BY ContentTyped
    <3> QED BY <2>1, <3>1
  <2>8. disk[f] \in UserBytes => disk[f] \in mine[f]
    BY <2>6 DEF Own
  <2>9. CASE f \in owned
    <3>1. disk[f] \in {"absent", manifest.sha[f]} \cup mine[f]
      BY <2>1, <2>7, <2>8, <2>9
    <3>2. disk[f] = "absent" => f \in gone
      BY <2>1, <2>9
    <3>3. ASSUME manifest.slot[f] = NoSlot PROVE Forgone(f) \/ disk[f] \in mine[f]
      <4>1. \A i \in Slot : backup[f][i] \notin UserBytes
        BY <2>4, <2>5, <3>3, ContentTyped
      <4>2. CASE disk[f] \in UserBytes
        BY <2>8, <4>2
      <4>3. CASE disk[f] \notin UserBytes
        BY <2>6, <4>1, <4>3 DEF Own, Forgone
      <4> QED BY <4>2, <4>3
    <3>4. ASSUME manifest.slot[f] # NoSlot PROVE backup[f][manifest.slot[f]] \in mine[f]
      BY <2>4, <2>5, <2>6, <3>4
    <3> QED BY <2>4, <2>9, <3>1, <3>2, <3>3, <3>4 DEF SoundNow, SoundAt, Forgone
  <2>10. CASE f \notin owned
    <3>1. disk[f] \in UserBytes \cup {"absent"}
      BY <2>1, <2>7, <2>10
    <3>2. \A i \in Slot : backup[f][i] \notin UserBytes
      BY <2>4, <2>5, <2>10, ContentTyped
    <3>3. mine[f] = Own(disk[f])
      BY <2>6, <3>2 DEF Own
    <3> QED BY <2>4, <2>10, <3>1, <3>3, ContentTyped DEF SoundNow, SoundAt, Own
  <2> QED BY <2>9, <2>10
<1> QED BY <1>1, <1>2 DEF Init

\* An installation begins: what it will own is forgone, put back by a known
\* backup, or about to be saved.
LEMMA InstallSound ==
    ASSUME IInv, Plans, Sound, NEW r \in Release, Install(r)
    PROVE  Sound'
<1>0. TypeOK /\ ShippedByPackage
  BY DEF IInv, Safe
<1>1. /\ run.at = "idle" /\ run'.cmd = "install" /\ run'.at = "backup"
      /\ run'.plan.owned = Active(r) /\ Active(r) \subseteq File
      /\ \A f \in File : run'.plan.slot[f] = IF f \in Active(r) THEN BackupFor[f] ELSE NoSlot
      /\ run'.todo = {f \in Active(r) \ manifest.owned : run'.plan.slot[f] # NoSlot}
      /\ UNCHANGED <<disk, backup, manifest, before, mine, gone, struck>>
  BY <1>0, InstallStarted
<1> SUFFICES ASSUME struck = {}, NEW f \in File PROVE Underway(f)'
  BY <1>1 DEF Sound
<1>2. SoundNow(f)
  BY <1>1 DEF Sound
<1>3. /\ mine[f] \subseteq UserBytes /\ "absent" \notin mine[f]
      /\ f \in manifest.owned => manifest.sha[f] \notin mine[f] /\ manifest.sha[f] # "absent"
  BY <1>0, KindsOfBytes
<1>4. CASE f \in Active(r) /\ f \in manifest.owned
  <2>1. disk[f] \in {"absent", manifest.sha[f]}
    BY <1>4 DEF Install, MayInstall, Unmodified
  <2>2. run'.plan.slot[f] = manifest.slot[f] /\ f \notin run'.todo
    BY <1>1, <1>4 DEF BackupFor
  <2>3. Fit(f)'
    BY <1>1, <1>2, <1>3, <1>4, <2>1, <2>2 DEF Fit, SoundNow, SoundAt, Forgone
  <2> QED BY <1>1, <1>4, <2>2, <2>3 DEF Underway, Joining
<1>5. CASE f \in Active(r) /\ f \notin manifest.owned
  <2>1. CASE disk[f] = "absent"
    <3>1. run'.plan.slot[f] = NoSlot
      BY <1>1, <1>5, <2>1 DEF BackupFor
    <3>2. Forgone(f)'
      BY <1>1, <1>2, <1>3, <1>5, <2>1 DEF SoundNow, SoundAt, Forgone
    <3> QED BY <1>1, <1>5, <3>1, <3>2 DEF Underway, Joining, Fit
  <2>2. CASE disk[f] # "absent"
    <3>1. run'.plan.slot[f] = FreeSlot(f)
      BY <1>1, <1>5, <2>2 DEF BackupFor
    <3>2. FreeSlot(f) # NoSlot
      BY <1>5, FreeSlotTyped DEF Install, Slot, NoSlot
    <3>3. disk[f] \in mine[f]
      BY <1>2, <1>5, <2>2 DEF SoundNow, SoundAt
    <3> QED BY <1>1, <1>5, <3>1, <3>2, <3>3 DEF Underway, Joining
  <2> QED BY <2>1, <2>2
<1>6. CASE f \notin Active(r)
  BY <1>1, <1>2, <1>6 DEF Underway, Leaving, SoundNow, SoundAt, Cleaned, Forgone
<1> QED BY <1>4, <1>5, <1>6

\* A migration begins: what it will own has the package's bytes or none, what
\* it preserves has the user's; and it took its snapshot of a sound home.
LEMMA MigrateSound ==
    ASSUME IInv, Plans, Sound, NEW r \in Release, Migrate(r)
    PROVE  Sound'
<1>0. TypeOK /\ ShippedByPackage
  BY DEF IInv, Safe
<1>1. /\ run.at = "idle" /\ run'.cmd = "migrate" /\ run'.at = "relocate"
      /\ run'.plan.owned = Ships[r] \ Customized /\ Ships[r] \subseteq File
      /\ \A f \in File : run'.plan.slot[f]
                            = IF f \in Ships[r] \ Customized THEN MovedBackup[f] ELSE NoSlot
      /\ run'.todo = {f \in Ships[r] \ Customized : manifest.slot[f] = 0}
      /\ before' = [disk |-> disk, backup |-> backup]
      /\ UNCHANGED <<disk, backup, manifest, mine, gone, struck>>
  BY <1>0, MigrateStarted
<1> SUFFICES ASSUME struck = {}, NEW f \in File PROVE Underway(f)' /\ SoundBefore(f)'
  BY <1>1 DEF Sound
<1>2. SoundNow(f)
  BY <1>1 DEF Sound
<1>3. /\ mine[f] \subseteq UserBytes /\ "absent" \notin mine[f]
      /\ f \in manifest.owned => manifest.sha[f] \notin mine[f] /\ manifest.sha[f] # "absent"
  BY <1>0, KindsOfBytes
<1>4. SoundBefore(f)'
  BY <1>1, <1>2 DEF SoundNow, SoundBefore, SoundAt, Forgone
<1>5. CASE f \in Ships[r] \ Customized
  <2>1. f \in manifest.owned => disk[f] \in {"absent", manifest.sha[f]}
    BY <1>5 DEF Customized, Unmodified
  <2>2. f \notin manifest.owned => disk[f] \notin UserBytes /\ manifest.slot[f] = NoSlot
    BY <1>5, ContentTyped DEF Migrate, Plans, Regular
  <2>3. manifest.slot[f] = NoSlot => Forgone(f)
    BY <1>2, <1>3, <2>1, <2>2 DEF SoundNow, SoundAt, Forgone
  <2>4. manifest.slot[f] # NoSlot => backup[f][manifest.slot[f]] \in mine[f]
    BY <1>2, <2>2 DEF SoundNow, SoundAt
  <2>5. CASE manifest.slot[f] = 0
    <3>1. f \in run'.todo /\ backup[f][0] \in mine[f]
      BY <1>1, <1>5, <2>4, <2>5 DEF NoSlot
    <3> QED BY <1>1, <1>4, <1>5, <3>1 DEF Underway, Joining
  <2>6. CASE manifest.slot[f] # 0
    <3>1. f \notin run'.todo /\ run'.plan.slot[f] = manifest.slot[f]
      BY <1>1, <1>5, <2>6 DEF MovedBackup
    <3>2. Fit(f)'
      BY <1>1, <2>3, <2>4, <3>1 DEF Fit, Forgone
    <3> QED BY <1>1, <1>4, <1>5, <3>1, <3>2 DEF Underway, Joining
  <2> QED BY <2>5, <2>6
<1>6. CASE f \notin Ships[r] \ Customized
  <2>1. f \in manifest.owned => f \in Customized
    BY <1>6 DEF Migrate
  <2>2. Cleaned(f)
    BY <1>2, <2>1 DEF Customized, Unmodified, SoundNow, SoundAt, Cleaned
  <2>3. Cleaned(f)'
    BY <1>1, <2>2 DEF Cleaned
  <2> QED BY <1>1, <1>4, <1>6, <2>3 DEF Underway, Leaving
<1> QED BY <1>5, <1>6

LEMMA UninstallSound ==
    ASSUME IInv, Sound, Uninstall
    PROVE  Sound'
<1>1. /\ run.at = "idle" /\ run'.cmd = "uninstall" /\ run'.at = "remove"
      /\ run'.plan = NoManifest /\ run'.todo = manifest.owned
      /\ UNCHANGED <<disk, backup, manifest, before, mine, gone, struck>>
  BY UninstallStarted DEF IInv, Safe
<1> SUFFICES ASSUME struck = {}, NEW f \in File PROVE Underway(f)'
  BY <1>1 DEF Sound
<1>2. SoundNow(f) /\ NoManifest.owned = {}
  BY <1>1 DEF Sound, NoManifest
<1> QED BY <1>1, <1>2 DEF Underway, Leaving, SoundNow, SoundAt, Cleaned, Forgone

LEMMA NextStageSound ==
    ASSUME IInv, Verified, Sound, NextStage
    PROVE  Sound'
<1>1. /\ run'.cmd = run.cmd /\ run'.plan = run.plan /\ run.todo = {}
      /\ run'.at = StageAfter(run.cmd, run.at)
      /\ run'.todo = Pending(run.cmd, run'.at, run.plan)
      /\ run.at \notin {"idle", "manifest", "rollback"}
      /\ UNCHANGED <<disk, backup, manifest, before, mine, gone, struck>>
  BY NextStageFields
<1>2. /\ run'.at \in {"copy", "retire", "unlink", "manifest"}
      /\ run'.at = "copy" => run.at = "backup" \/ (run.at = "relocate" /\ run.cmd = "migrate")
      /\ run'.at = "retire" => run.at = "copy"
      /\ run'.at \in {"unlink", "manifest"} => run.cmd = "migrate" \/ run.at \in {"retire", "remove"}
  BY <1>1, StageOrder
<1>3. ASSUME struck = {}, NEW f \in File PROVE Underway(f)'
  <2>1. Underway(f)
    BY <1>1, <1>3 DEF Sound
  <2>2. CASE f \in run.plan.owned
    <3>1. Fit(f)
      BY <1>1, <2>1, <2>2 DEF Underway, Joining
    <3>2. Fit(f)'
      BY <1>1, <3>1 DEF Fit, Forgone
    <3> QED BY <1>1, <1>2, <2>2, <3>2 DEF Underway, Joining
  <2>3. CASE f \notin run.plan.owned
    <3>1. SoundNow(f)' = SoundNow(f) /\ Cleaned(f)' = Cleaned(f)
      BY <1>1 DEF SoundNow, SoundAt, Forgone, Cleaned
    <3>2. Leaving(f)' <=> Leaving(f)
      <4>1. CASE run'.at = "retire"
        <5>1. run'.todo = manifest.owned \ run.plan.owned
          BY <1>1, <4>1 DEF Pending
        <5> QED BY <1>1, <1>2, <2>3, <4>1, <5>1 DEF Leaving
      <4>2. CASE run'.at # "retire"
        BY <1>1, <1>2, <4>2 DEF Leaving
      <4> QED BY <4>1, <4>2
    <3> QED BY <1>1, <2>1, <2>3, <3>1, <3>2 DEF Underway
  <2> QED BY <2>2, <2>3
<1>4. ASSUME struck = {}, run.cmd = "migrate", NEW f \in File PROVE SoundBefore(f)'
  <2>1. SoundBefore(f)
    BY <1>1, <1>4 DEF Sound
  <2> QED BY <1>1, <2>1 DEF SoundBefore, SoundAt, Forgone
<1> QED BY <1>1, <1>2, <1>3, <1>4 DEF Sound

\* A step on one file leaves the others as they were, and what is asked of the
\* home a migration found.
LEMMA DoingSound ==
    ASSUME IInv, Sound, NEW f \in File, Doing(f), struck = {} => Underway(f)'
    PROVE  Sound'
<1>1. /\ run.at \notin {"idle", "manifest", "rollback"}
      /\ run'.cmd = run.cmd /\ run'.at = run.at /\ run'.plan = run.plan
      /\ run'.todo = run.todo \ {f}
      /\ UNCHANGED <<manifest, before, mine, gone, struck>>
      /\ \A g \in File \ {f} : disk'[g] = disk[g] /\ backup'[g] = backup[g]
  BY DoingFields DEF IInv, Safe
<1>2. ASSUME struck = {}, NEW g \in File PROVE Underway(g)'
  <2>1. CASE g = f
    BY <1>2, <2>1
  <2>2. CASE g # f
    <3>1. Underway(g) /\ disk'[g] = disk[g] /\ backup'[g] = backup[g]
      BY <1>1, <1>2, <2>2 DEF Sound
    <3>2. /\ SoundNow(g)' = SoundNow(g) /\ Cleaned(g)' = Cleaned(g)
          /\ Fit(g)' = Fit(g)
      BY <1>1, <3>1 DEF SoundNow, SoundAt, Forgone, Cleaned, Fit
    <3>3. g \in run'.todo <=> g \in run.todo
      BY <1>1, <2>2
    <3>4. (Joining(g)' <=> Joining(g)) /\ (Leaving(g)' <=> Leaving(g))
      BY <1>1, <3>1, <3>2, <3>3 DEF Joining, Leaving
    <3> QED BY <1>1, <3>1, <3>2, <3>4 DEF Underway
  <2> QED BY <2>1, <2>2
<1>3. ASSUME struck = {}, run.cmd = "migrate", NEW g \in File PROVE SoundBefore(g)'
  <2>1. SoundBefore(g)
    BY <1>1, <1>3 DEF Sound
  <2> QED BY <1>1, <2>1 DEF SoundBefore, SoundAt, Forgone
<1> QED BY <1>1, <1>2, <1>3 DEF Sound

\* What a command takes away leaves the user's backup in its place, or nothing
\* where the user has nothing.
LEMMA TakenAwayIsClean ==
    ASSUME TypeOK, ShippedByPackage, NEW f \in manifest.owned, SoundNow(f),
           UNCHANGED <<mine, gone>>,
           \/ disk[f] \notin UserBytes /\ TakeAway(f)
           \/ (disk[f] = "absent" \/ disk[f] # manifest.sha[f]) /\ UNCHANGED <<disk, backup>>
    PROVE  Cleaned(f)'
<1>1. f \in File /\ mine[f] \subseteq UserBytes
  BY PartsTyped, KindsOfBytes
<1>2. CASE disk[f] \notin UserBytes /\ TakeAway(f)
  <2>1. disk'[f] = PutBack(f)
    BY <1>1, <1>2, TakeAwayWritten
  <2>2. CASE manifest.slot[f] = NoSlot
    <3>1. Forgone(f) /\ disk'[f] = "absent"
      BY <1>1, <1>2, <2>1, <2>2 DEF SoundNow, SoundAt, PutBack
    <3> QED BY <3>1 DEF Forgone, Cleaned
  <2>3. CASE manifest.slot[f] # NoSlot
    <3>1. disk'[f] \in mine[f]
      BY <2>1, <2>3 DEF SoundNow, SoundAt, PutBack
    <3> QED BY <3>1 DEF Cleaned
  <2> QED BY <2>2, <2>3
<1>3. CASE (disk[f] = "absent" \/ disk[f] # manifest.sha[f]) /\ UNCHANGED <<disk, backup>>
  <2>1. disk'[f] = disk[f]
    BY <1>3
  <2>2. CASE disk[f] = "absent"
    BY <2>1, <2>2 DEF SoundNow, SoundAt, Forgone, Cleaned
  <2>3. CASE disk[f] # "absent"
    <3>1. disk[f] \in mine[f]
      BY <1>3, <2>3 DEF SoundNow, SoundAt
    <3> QED BY <2>1, <3>1 DEF Cleaned
  <2> QED BY <2>2, <2>3
<1> QED BY <1>2, <1>3

LEMMA StepsSound ==
    ASSUME IInv, Plans, Verified, Sound, NEW f \in File, Doing(f)
    PROVE  Sound'
<1>0. /\ TypeOK /\ ShippedByPackage /\ Work /\ 0 \in Slot
      /\ run.plan.slot[f] \in Slot \cup {NoSlot} /\ NoSlot \notin Slot
  BY PartsTyped, InstallerAssumption DEF IInv, Safe, Slot, NoSlot
<1>1. /\ f \in run.todo /\ run.at \notin {"idle", "manifest", "rollback"}
      /\ run'.cmd = run.cmd /\ run'.at = run.at /\ run'.plan = run.plan
      /\ run'.todo = run.todo \ {f}
      /\ UNCHANGED <<manifest, before, mine, gone, struck>>
  BY <1>0, DoingFields
<1> SUFFICES ASSUME struck = {} PROVE Underway(f)'
  BY DoingSound
<1>2. Underway(f)
  BY <1>1 DEF Sound
<1>3. CASE BackUp(f)
  <2>1. run.at = "backup" /\ f \in run.plan.owned
    BY <1>0, <1>1, <1>3 DEF BackUp, At, Work, BackupStage
  <2>2. run.plan.slot[f] \in Slot /\ disk[f] \in mine[f]
    BY <1>0, <1>1, <1>2, <2>1 DEF Work, BackupStage, Underway, Joining
  <2>3. backup'[f][run.plan.slot[f]] = disk[f]
    BY <1>0, <1>3, <2>2, PartsTyped DEF BackUp
  <2> QED BY <1>0, <1>1, <2>1, <2>2, <2>3 DEF Underway, Joining, Fit
<1>4. CASE Copy(f)
  <2>1. run.at = "copy" /\ f \in run.plan.owned /\ backup' = backup
    BY <1>0, <1>1, <1>4 DEF Copy, At, Work, CopyStage
  <2>2. Fit(f)
    BY <1>2, <2>1 DEF Underway, Joining
  <2> QED BY <1>1, <2>1, <2>2 DEF Underway, Joining, Fit, Forgone
<1>5. CASE Retire(f)
  <2>1. /\ run.at = "retire" /\ f \in manifest.owned /\ f \notin run.plan.owned
        /\ run.cmd = "install"
    BY <1>0, <1>1, <1>5 DEF Retire, At, Work, RetireStage, Verified
  <2>2. SoundNow(f)
    BY <1>1, <1>2, <2>1 DEF Underway, Leaving
  <2>3. manifest.sha[f] \notin UserBytes
    BY <1>0, <2>1, ContentTyped DEF ShippedByPackage
  <2>4. CASE disk[f] # "absent" /\ Unmodified(f)
    <3>1. TakeAway(f) /\ disk[f] \notin UserBytes
      BY <1>5, <2>3, <2>4 DEF Retire, Unmodified
    <3>2. Cleaned(f)'
      BY <1>0, <1>1, <2>1, <2>2, <3>1, TakenAwayIsClean
    <3> QED BY <1>1, <2>1, <3>2 DEF Underway, Leaving
  <2>5. CASE ~(disk[f] # "absent" /\ Unmodified(f))
    <3>1. (disk[f] = "absent" \/ disk[f] # manifest.sha[f]) /\ UNCHANGED <<disk, backup>>
      BY <1>5, <2>5 DEF Retire, Unmodified
    <3>2. Cleaned(f)'
      BY <1>0, <1>1, <2>1, <2>2, <3>1, TakenAwayIsClean
    <3> QED BY <1>1, <2>1, <3>2 DEF Underway, Leaving
  <2> QED BY <2>4, <2>5
<1>6. CASE Remove(f)
  <2>1. /\ run.at = "remove" /\ f \in manifest.owned /\ run.plan.owned = {}
        /\ run.cmd = "uninstall" /\ disk[f] \notin UserBytes
    BY <1>0, <1>1, <1>6 DEF Remove, At, Work, RemoveStage, Verified
  <2>2. SoundNow(f)
    BY <1>1, <1>2, <2>1 DEF Underway, Leaving
  <2>3. TakeAway(f) \/ (disk[f] = "absent" /\ UNCHANGED <<disk, backup>>)
    BY <1>6 DEF Remove
  <2>4. Cleaned(f)'
    BY <1>0, <1>1, <2>1, <2>2, <2>3, TakenAwayIsClean
  <2> QED BY <1>1, <2>1, <2>4 DEF Underway, Leaving
<1>7. CASE Relocate(f)
  <2>1. run.at = "relocate" /\ f \in run.plan.owned /\ manifest.slot[f] = 0
    BY <1>0, <1>1, <1>7 DEF Relocate, At, Work, RelocateStage
  <2>2. run.plan.slot[f] \in Slot /\ backup[f][0] \in mine[f]
    BY <1>0, <1>1, <1>2, <2>1 DEF Work, RelocateStage, InBackupPlace, Underway, Joining
  <2>3. backup'[f][run.plan.slot[f]] = backup[f][0]
    BY <1>0, <1>7, <2>2, PartsTyped DEF Relocate
  <2> QED BY <1>0, <1>1, <2>1, <2>2, <2>3 DEF Underway, Joining, Fit
<1>8. CASE Unlink(f)
  <2>1. run.at = "unlink" /\ run.cmd = "migrate" /\ Moved(f)
    BY <1>0, <1>1, <1>8 DEF Unlink, At, Work, UnlinkStage
  <2>2. CASE f \in run.plan.owned
    <3>1. Fit(f) /\ run.plan.slot[f] \in Slot \ {0}
      BY <1>2, <2>1, <2>2 DEF Underway, Joining, Moved, InBackupPlace
    <3>2. backup'[f][run.plan.slot[f]] = backup[f][run.plan.slot[f]]
      BY <1>0, <1>8, <3>1, BackupWritten DEF Unlink
    <3> QED BY <1>0, <1>1, <2>1, <2>2, <3>1, <3>2 DEF Underway, Joining, Fit
  <2>3. CASE f \notin run.plan.owned
    <3>1. Cleaned(f) /\ disk' = disk
      BY <1>2, <1>8, <2>1, <2>3 DEF Underway, Leaving, Unlink
    <3> QED BY <1>1, <2>1, <2>3, <3>1 DEF Underway, Leaving, Cleaned
  <2> QED BY <2>2, <2>3
<1> QED BY <1>3, <1>4, <1>5, <1>6, <1>7, <1>8 DEF Doing

\* The manifest that a command ends on fits the home it made.
LEMMA WriteManifestSound ==
    ASSUME IInv, Verified, Sound, Plans, WriteManifest
    PROVE  Sound'
<1>0. TypeOK /\ ShippedByPackage
  BY DEF IInv, Safe
<1>1. /\ run.at = "manifest" /\ manifest' = run.plan /\ run' = Idle
      /\ UNCHANGED <<disk, backup, mine, gone, struck>>
  BY DEF WriteManifest
<1>2. run'.at = "idle"
  BY <1>1 DEF Idle
<1>3. ASSUME struck = {}, NEW f \in File PROVE SoundNow(f)'
  <2>1. Underway(f)
    BY <1>1, <1>3 DEF Sound
  <2>2. CASE f \in run.plan.owned
    <3>1. Fit(f) /\ disk[f] = run.plan.sha[f]
      BY <1>1, <2>1, <2>2 DEF Underway, Joining, Verified
    <3>2. run.plan.sha[f] # "absent"
      BY <1>0, <2>2, KindsOfBytes
    <3> QED BY <1>1, <2>2, <3>1, <3>2 DEF SoundNow, SoundAt, Fit, Forgone
  <2>3. CASE f \notin run.plan.owned
    BY <1>1, <2>1, <2>3 DEF Underway, Leaving, Cleaned, SoundNow, SoundAt
  <2> QED BY <2>2, <2>3
<1> QED BY <1>1, <1>2, <1>3 DEF Sound

LEMMA RollbackSound ==
    ASSUME IInv, Plans, Sound, RolledBack, [Next]_vars
    PROVE  Sound'
<1>1. /\ run.at = "rollback" /\ run' = Idle /\ run'.at = "idle"
      /\ UNCHANGED <<disk, backup, manifest, mine, gone, struck>>
  BY DEF RolledBack, Idle
<1>2. run.cmd = "migrate"
  BY <1>1 DEF IInv, Safe, Work, RollbackStage
<1>3. ASSUME struck = {}, NEW f \in File PROVE SoundNow(f)'
  <2>1. disk = before.disk /\ backup = before.backup
    BY <1>1, <1>3, RollbackComplete
  <2>2. SoundBefore(f)
    BY <1>1, <1>2, <1>3 DEF Sound
  <2> QED BY <1>1, <2>1, <2>2 DEF SoundNow, SoundBefore, SoundAt, Forgone
<1> QED BY <1>1, <1>3 DEF Sound

\* What the user edits or deletes is the user's, and backups are not given up.
LEMMA UserSound ==
    ASSUME IInv, Sound, NEW f \in File, Edit(f) \/ Delete(f)
    PROVE  Sound'
<1>0. TypeOK
  BY DEF IInv, Safe
<1>1. run.at = "idle" /\ UNCHANGED <<backup, manifest, run, before, struck>>
  BY DEF Edit, Delete
<1>2. /\ \A g \in File \ {f} : disk'[g] = disk[g] /\ mine'[g] = mine[g] /\ (g \in gone' <=> g \in gone)
      /\ Kept(f) \subseteq mine'[f]
      /\ disk'[f] \in mine'[f] \/ (disk'[f] = "absent" /\ f \in gone')
  BY <1>0, PartsTyped DEF Edit, Delete
<1>3. ASSUME struck = {}, NEW g \in File PROVE SoundNow(g)'
  <2>1. SoundNow(g)
    BY <1>1, <1>3 DEF Sound
  <2>2. CASE g # f
    BY <1>1, <1>2, <2>1, <2>2 DEF SoundNow, SoundAt, Forgone
  <2>3. CASE g = f
    <3>1. ASSUME f \in manifest.owned, manifest.slot[f] # NoSlot
          PROVE  backup[f][manifest.slot[f]] \in mine'[f]
      <4>1. manifest.slot[f] \in Slot
        BY <1>0, <3>1, PartsTyped
      <4>2. backup[f][manifest.slot[f]] \in mine[f]
        BY <2>1, <2>3, <3>1 DEF SoundNow, SoundAt
      <4>3. backup[f][manifest.slot[f]] \in Kept(f)
        BY <4>1, <4>2 DEF Kept
      <4> QED BY <1>2, <4>3
    <3>2. "absent" \notin mine'[f]
      <4>1. mine'[f] \subseteq mine[f] \cup UserBytes /\ mine[f] \subseteq UserBytes
        BY <1>0, PartsTyped DEF Edit, Delete, Kept
      <4> QED BY <4>1, ContentTyped
    <3> QED BY <1>1, <1>2, <2>3, <3>1, <3>2 DEF SoundNow, SoundAt, Forgone
  <2> QED BY <2>2, <2>3
<1> QED BY <1>1, <1>3 DEF Sound

LEMMA SoundStep ==
    ASSUME CInv, [Next]_vars
    PROVE  Sound'
<1>0. IInv /\ Plans /\ Verified /\ Sound /\ TypeOK
  BY DEF CInv, IInv, Safe
<1>1. ASSUME NEW r \in Release, Install(r) \/ Migrate(r) PROVE Sound'
  BY <1>0, <1>1, InstallSound, MigrateSound
<1>2. CASE Uninstall \/ NextStage \/ WriteManifest
  BY <1>0, <1>2, UninstallSound, NextStageSound, WriteManifestSound
<1>3. ASSUME NEW f \in File, Doing(f) PROVE Sound'
  BY <1>0, <1>3, StepsSound
<1>4. ASSUME NEW f \in File, Edit(f) \/ Delete(f) PROVE Sound'
  BY <1>0, <1>4, UserSound
<1>5. CASE Die \/ RollbackFails
  BY <1>5 DEF Die, RollbackFails, Sound
<1>6. CASE RolledBack
  BY <1>0, <1>6, RollbackSound
<1>7. ASSUME run'.at = "rollback", run'.cmd = run.cmd, run.at # "idle",
             UNCHANGED <<manifest, before, mine, gone, struck>>
      PROVE  Sound'
  <2>1. ASSUME struck = {}, run.cmd = "migrate", NEW f \in File PROVE SoundBefore(f)'
    <3>1. SoundBefore(f)
      BY <1>0, <1>7, <2>1 DEF Sound
    <3> QED BY <1>7, <3>1 DEF SoundBefore, SoundAt, Forgone
  <2> QED BY <1>7, <2>1 DEF Sound
<1>8. CASE MigrationFails
  <2>1. run'.at = "rollback" /\ run'.cmd = run.cmd
    BY <1>0, <1>8 DEF MigrationFails, TypeOK
  <2> QED BY <1>7, <1>8, <2>1 DEF MigrationFails
<1>9. ASSUME NEW f \in File, RestoreFile(f) PROVE Sound'
  BY <1>7, <1>9 DEF RestoreFile
<1>10. ASSUME NEW p \in File \X Slot, RestoreBackup(p) PROVE Sound'
  BY <1>7, <1>10 DEF RestoreBackup
<1>11. CASE UNCHANGED vars
  <2>1. \A f \in File : /\ SoundNow(f)' = SoundNow(f) /\ SoundBefore(f)' = SoundBefore(f)
                        /\ Underway(f)' = Underway(f)
    BY <1>11 DEF vars, SoundNow, SoundBefore, SoundAt, Forgone, Underway, Joining, Fit, Leaving,
                 Cleaned
  <2> QED BY <1>0, <1>11, <2>1 DEF vars, Sound
<1> QED BY <1>1, <1>2, <1>3, <1>4, <1>5, <1>6, <1>8, <1>9, <1>10, <1>11 DEF Next, Doing

LEMMA CommandsInvariant == Spec => []CInv
<1>1. Init => CInv
  <2>1. Init => Verified
    BY DEF Init, Idle, Verified
  <2> QED BY <2>1, InvInit, PlansInit, SoundInit DEF CInv
<1>2. CInv /\ [Next]_vars => CInv'
  <2> SUFFICES ASSUME CInv, [Next]_vars PROVE CInv'
    OBVIOUS
  <2>1. IInv /\ Plans /\ Verified
    BY DEF CInv
  <2>2. IInv' /\ Plans' /\ Verified' /\ Sound'
    BY <2>1, InvNext, PlansStep, VerifiedStep, SoundStep
  <2> QED BY <2>2 DEF CInv
<1> QED BY <1>1, <1>2, PTL DEF Spec

\* In a home where nothing was cut off, a file that the package owns is its own
\* or the user's: install, uninstall and migrate-manifest-v1 never refuse over
\* bytes that the package itself left there.
THEOREM OnlyUsersBytesRefuse == Spec => []RefusesOnlyUsersBytes
<1>1. CInv => RefusesOnlyUsersBytes
  <2>1. ASSUME CInv, struck = {}, run.at = "idle", NEW f \in manifest.owned
        PROVE  disk[f] \in {"absent", manifest.sha[f]} \cup mine[f]
    <3>1. f \in File /\ SoundNow(f)
      BY <2>1, PartsTyped DEF CInv, IInv, Safe, Sound
    <3> QED BY <3>1 DEF SoundNow, SoundAt
  <2> QED BY <2>1 DEF RefusesOnlyUsersBytes
<1> QED BY <1>1, CommandsInvariant, PTL

\* An uninstallation after any sequence of installs of any releases, migrations,
\* rolled back or not, edits and deletions, none of them cut off, gives the user
\* the home back (cmd_uninstall).
THEOREM UninstallGivesBack == Spec => []UninstallRestores
<1>1. CInv => UninstallRestores
  <2>1. ASSUME CInv, struck = {}, run.at = "idle", manifest.version = 0, NEW f \in File
        PROVE  Cleaned(f)
    <3>1. SoundNow(f) /\ f \notin manifest.owned
      BY <2>1 DEF CInv, Sound, Plans, Regular
    <3> QED BY <3>1 DEF SoundNow, SoundAt, Cleaned
  <2> QED BY <2>1 DEF UninstallRestores
<1> QED BY <1>1, CommandsInvariant, PTL
=============================================================================
