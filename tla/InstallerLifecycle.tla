------------------------- MODULE InstallerLifecycle -------------------------
(***************************************************************************)
(* installer_lifecycle.py: install, uninstall and migrate-manifest-v1, one *)
(* file at a time, over the files of a home directory, their backups and   *)
(* the manifest, which is written last.  A command may be killed, or fail  *)
(* with an OSError, between any two steps and in the middle of a copy;     *)
(* only the migration rolls back.  The user edits and deletes files when   *)
(* no command runs.  Contents stand for their bytes and for their hash.    *)
(***************************************************************************)
EXTENDS Integers, FiniteSets

CONSTANTS
    File,      \* destinations of the payload
    Agent,     \* those among them under .codex/agents
    Release,   \* versions of the repository that are installed from
    Ships,     \* Ships[r]: the destinations of release r
    Bytes,     \* Bytes[r][f]: what release r ships for f
    UserBytes, \* what users write
    MaxSlot,   \* bound: confined backups per file
    Mishaps    \* what may go wrong: "kill", "error" and "rollback"

Package == {Bytes[r][f] : r \in Release, f \in File}

ASSUME InstallerAssumption ==
    /\ Agent \subseteq File
    /\ Ships \in [Release -> SUBSET File]
    /\ \A r \in Release : Ships[r] \ Agent # {} /\ DOMAIN Bytes[r] = File
    /\ DOMAIN Bytes = Release
    /\ MaxSlot \in Nat \ {0}
    /\ {"absent", "torn"} \cap (Package \cup UserBytes) = {}
    /\ Package \cap UserBytes = {}

\* Slot 0 is the place of a v1 backup, outside .multi-orchestrator-backups.
Slot == 0..MaxSlot
NoSlot == -1

\* "absent" where there is no file, "torn" where a copy was cut off.
Content == Package \cup UserBytes \cup {"absent", "torn"}

\* version 0: there is no manifest.  kept: migration_omissions, the files
\* preserved as modified.  sha and slot matter for the owned files only.
Manifest ==
    [ version : 0..2, owned : SUBSET File, sha : [File -> Content],
      slot : [File -> Slot \cup {NoSlot}], kept : SUBSET File ]

NoManifest ==
    [ version |-> 0, owned |-> {}, sha |-> [f \in File |-> "absent"],
      slot |-> [f \in File |-> NoSlot], kept |-> {} ]

VARIABLES
    disk,      \* the file at each destination
    backup,    \* the backups of each destination
    manifest,
    run,       \* the command that runs: its stage, what is left, its new manifest
    before,    \* history: disk and backups as a migration found them
    mine,      \* history: what the user wrote to each file and has not removed
    gone,      \* history: the files the user removed
    struck     \* history: what ended half way, "command" or "rollback"

vars == <<disk, backup, manifest, run, before, mine, gone, struck>>

Commands == {"install", "uninstall", "migrate"}

Stage == {"idle", "backup", "copy", "retire", "relocate", "unlink", "remove",
          "manifest", "rollback"}

Idle == [cmd |-> "install", at |-> "idle", todo |-> {}, plan |-> NoManifest]

NoSnapshot ==
    [ disk |-> [f \in File |-> "absent"],
      backup |-> [f \in File |-> [s \in Slot |-> "absent"]] ]

TypeOK ==
    /\ disk \in [File -> Content]
    /\ backup \in [File -> [Slot -> Content]]
    /\ manifest \in Manifest
    /\ run \in [cmd : Commands, at : Stage, todo : SUBSET File, plan : Manifest]
    /\ before \in [disk : [File -> Content], backup : [File -> [Slot -> Content]]]
    /\ mine \in [File -> SUBSET UserBytes]
    /\ gone \in SUBSET File
    /\ struck \subseteq {"command", "rollback"}

\* What the user would have on disk.
Own(c) == {c} \cap UserBytes

\* A home without the package.
FreshHome ==
    /\ disk \in [File -> UserBytes \cup {"absent"}]
    /\ backup = NoSnapshot.backup
    /\ manifest = NoManifest
    /\ mine = [f \in File |-> Own(disk[f])]
    /\ gone = {}

\* A home with the installation of an earlier release and its v1 manifest:
\* owned files untouched, modified or removed since, with or without a backup
\* in either place; and files that later releases ship.
LegacyHome ==
    \E r \in Release, owned \in SUBSET File \ {{}} :
        /\ manifest \in
              {[ version |-> 1, owned |-> owned, kept |-> {},
                 sha |-> [f \in File |-> IF f \in owned THEN Bytes[r][f] ELSE "absent"],
                 slot |-> [f \in File |-> IF f \in owned THEN s[f] ELSE NoSlot] ]
                   : s \in [File -> {NoSlot, 0, 1}]}
        /\ backup \in
              {[f \in File |-> [i \in Slot |->
                   IF i = manifest.slot[f] THEN b ELSE "absent"]] : b \in UserBytes}
        /\ disk \in [File -> UserBytes \cup {"absent"} \cup {Bytes[r][f] : f \in owned}]
        /\ \A f \in owned : disk[f] \in Package => disk[f] = manifest.sha[f]
        /\ \A f \in File \ owned : disk[f] \notin Package
        /\ mine = [f \in File |-> (Own(disk[f]) \cup {backup[f][i] : i \in Slot}) \cap UserBytes]
        /\ gone = {f \in owned : disk[f] = "absent"}

Init ==
    /\ FreshHome \/ LegacyHome
    /\ run = Idle
    /\ before = NoSnapshot
    /\ struck = {}

-----------------------------------------------------------------------------
(* Planning: everything is read and checked before the first write.        *)

\* _plan_backup_path: a name that is not taken.
Free(f) == {s \in Slot \ {0} : backup[f][s] = "absent"}
FreeSlot_Defect(f) == 1 + Cardinality({s \in Slot : backup[f][s] # "absent"})  \* TypeOK
FreeSlot(f) == CHOOSE s \in Free(f) : TRUE

Unmodified(f) == disk[f] = manifest.sha[f]

Planned(r, owned, slot, kept) ==
    [ version |-> 2, owned |-> owned, kept |-> kept,
      sha  |-> [f \in File |-> IF f \in owned THEN Bytes[r][f] ELSE "absent"],
      slot |-> [f \in File |-> IF f \in owned THEN slot[f] ELSE NoSlot] ]

Pending_OnlyMissing(cmd, at, plan) ==  \* RefusesOnlyUsersBytes, CompletedMeansVerified
    CASE at = "backup"   -> {f \in plan.owned \ manifest.owned : plan.slot[f] # NoSlot}
      [] at = "copy"     -> {f \in plan.owned : disk[f] = "absent"}
      [] at = "retire"   -> manifest.owned \ plan.owned
      [] at = "relocate" -> {f \in plan.owned : manifest.slot[f] = 0}
      [] at = "unlink"   -> {f \in plan.owned : manifest.slot[f] = 0}
      [] at = "remove"   -> manifest.owned
      [] OTHER           -> {}
\* What each stage still has to do when it begins.
Pending(cmd, at, plan) ==
    CASE at = "backup"   -> {f \in plan.owned \ manifest.owned : plan.slot[f] # NoSlot}
      [] at = "copy"     -> IF cmd = "install" THEN plan.owned
                            ELSE {f \in plan.owned : disk[f] # plan.sha[f]}
      [] at = "retire"   -> manifest.owned \ plan.owned
      [] at = "relocate" -> {f \in plan.owned : manifest.slot[f] = 0}
      [] at = "unlink"   -> {f \in plan.owned : manifest.slot[f] = 0}
      [] at = "remove"   -> manifest.owned
      [] OTHER           -> {}

StageAfter_Swapped(cmd, at) ==  \* NothingLost: the copies come before the backups
    CASE cmd = "install"   -> (CASE at = "idle" -> "copy" [] at = "copy" -> "backup"
                                 [] at = "backup" -> "retire" [] OTHER -> "manifest")
      [] cmd = "migrate"   -> (CASE at = "idle" -> "relocate" [] at = "relocate" -> "copy"
                                 [] at = "copy" -> "unlink" [] OTHER -> "manifest")
      [] cmd = "uninstall" -> (IF at = "idle" THEN "remove" ELSE "manifest")
\* The order of the stages.
StageAfter(cmd, at) ==
    CASE cmd = "install"   -> (CASE at = "idle" -> "backup" [] at = "backup" -> "copy"
                                 [] at = "copy" -> "retire" [] OTHER -> "manifest")
      [] cmd = "migrate"   -> (CASE at = "idle" -> "relocate" [] at = "relocate" -> "copy"
                                 [] at = "copy" -> "unlink" [] OTHER -> "manifest")
      [] cmd = "uninstall" -> (IF at = "idle" THEN "remove" ELSE "manifest")

Enter(cmd, at, plan) ==
    run' = [cmd |-> cmd, at |-> at, todo |-> Pending(cmd, at, plan), plan |-> plan]

Start(cmd, plan) == run.at = "idle" /\ Enter(cmd, StageAfter(cmd, "idle"), plan)

\* cmd_install: a v1 manifest or a modified managed file refuses it; the
\* preserved files are left out; what was not owned and exists is backed up.
MayInstall(f) == f \in manifest.owned => disk[f] = "absent" \/ Unmodified(f)

Active_Defect(r) == Ships[r]  \* PreservedStaysTheUsers
Active(r) == Ships[r] \ manifest.kept

BackupFor ==
    [f \in File |-> IF f \in manifest.owned THEN manifest.slot[f]
                    ELSE IF disk[f] = "absent" THEN NoSlot ELSE FreeSlot(f)]

Install(r) ==
    /\ manifest.version # 1
    /\ \A f \in Active(r) : MayInstall(f)
    /\ \A f \in File \ manifest.owned : Free(f) # {}  \* bound MaxSlot
    /\ Start("install", Planned(r, Active(r), BackupFor, manifest.kept))
    /\ UNCHANGED <<disk, backup, manifest, before, mine, gone, struck>>

\* cmd_uninstall: one modified file and nothing is touched.
Uninstall ==
    /\ manifest.version = 2
    /\ \A f \in manifest.owned : disk[f] = "absent" \/ Unmodified(f)
    /\ Start("uninstall", NoManifest)
    /\ UNCHANGED <<disk, backup, manifest, before, mine, gone, struck>>

\* _migrate_v1_manifest: a modified file is preserved under .codex/agents and
\* refuses the migration elsewhere, and so does an unknown file where a new
\* one goes, or a v1 backup that is not there.
Customized == {f \in manifest.owned : disk[f] # "absent" /\ ~Unmodified(f)}

MovedBackup ==
    [f \in File |-> IF manifest.slot[f] = 0 THEN FreeSlot(f) ELSE manifest.slot[f]]

Migrate(r) ==
    /\ manifest.version = 1
    /\ manifest.owned \subseteq Ships[r]
    /\ \A f \in manifest.owned :
          manifest.slot[f] # NoSlot => backup[f][manifest.slot[f]] # "absent"
    /\ Customized \subseteq Agent
    /\ \A f \in Ships[r] \ manifest.owned : disk[f] \in {"absent", Bytes[r][f]}
    /\ \A f \in File : manifest.slot[f] = 0 => Free(f) # {}  \* bound MaxSlot
    /\ Start("migrate", Planned(r, Ships[r] \ Customized, MovedBackup, Customized))
    /\ before' = [disk |-> disk, backup |-> backup]
    /\ UNCHANGED <<disk, backup, manifest, mine, gone, struck>>

-----------------------------------------------------------------------------
(* The steps of a command.                                                 *)

At(stage, f) == run.at = stage /\ f \in run.todo

StepDone(f) ==
    /\ run' = [run EXCEPT !.todo = @ \ {f}]
    /\ UNCHANGED <<manifest, before, mine, gone, struck>>

NextStage ==
    /\ run.at \notin {"idle", "manifest", "rollback"}
    /\ run.todo = {}
    /\ Enter(run.cmd, StageAfter(run.cmd, run.at), run.plan)
    /\ UNCHANGED <<disk, backup, manifest, before, mine, gone, struck>>

BackUp(f) ==
    /\ At("backup", f)
    /\ backup' = [backup EXCEPT ![f][run.plan.slot[f]] = disk[f]]
    /\ StepDone(f) /\ UNCHANGED disk

Copy(f) ==
    /\ At("copy", f)
    /\ disk' = [disk EXCEPT ![f] = run.plan.sha[f]]
    /\ StepDone(f) /\ UNCHANGED backup

TakeAway_Defect(f) ==  \* UninstallRestores: the backup is not put back
    disk' = [disk EXCEPT ![f] = "absent"] /\ UNCHANGED backup
\* The backup in place of the file, or no file: os.replace and os.remove.
TakeAway(f) ==
    LET s == manifest.slot[f]
        b == IF s = NoSlot THEN "absent" ELSE backup[f][s]
    IN  /\ disk' = [disk EXCEPT ![f] = b]
        /\ backup' = IF s = NoSlot THEN backup ELSE [backup EXCEPT ![f][s] = "absent"]

\* A formerly owned file goes, unless the user changed or removed it.
Retire(f) ==
    /\ At("retire", f)
    /\ IF disk[f] # "absent" /\ Unmodified(f) THEN TakeAway(f) ELSE UNCHANGED <<disk, backup>>
    /\ StepDone(f)

\* The preflight of uninstall looked at the bytes; this does not look again.
Remove(f) ==
    /\ At("remove", f)
    /\ IF disk[f] # "absent" THEN TakeAway(f) ELSE UNCHANGED <<disk, backup>>
    /\ StepDone(f)

Relocate(f) ==
    /\ At("relocate", f)
    /\ backup' = [backup EXCEPT ![f][run.plan.slot[f]] = backup[f][0]]
    /\ StepDone(f) /\ UNCHANGED disk

Unlink(f) ==
    /\ At("unlink", f)
    /\ backup' = [backup EXCEPT ![f][0] = "absent"]
    /\ StepDone(f) /\ UNCHANGED disk

\* _write_manifest, or the removal of the manifest: the command is done.
WriteManifest ==
    /\ run.at = "manifest"
    /\ manifest' = run.plan
    /\ run' = Idle /\ before' = NoSnapshot
    /\ UNCHANGED <<disk, backup, mine, gone, struck>>

-----------------------------------------------------------------------------
(* What goes wrong.                                                        *)

\* shutil.copy2 truncates its target first.
MayTear ==
    \/ UNCHANGED <<disk, backup>>
    \/ \E f \in run.todo :
          \/ /\ run.at \in {"backup", "relocate"}
             /\ backup' = [backup EXCEPT ![f][run.plan.slot[f]] = "torn"]
             /\ UNCHANGED disk
          \/ /\ run.at = "copy"
             /\ disk' = [disk EXCEPT ![f] = "torn"]
             /\ UNCHANGED backup

\* The process is killed; or install or uninstall meets an OSError.
Die ==
    /\ \/ "kill" \in Mishaps
       \/ "error" \in Mishaps /\ run.cmd # "migrate"
    /\ run.at \notin {"idle", "rollback"}
    /\ MayTear
    /\ run' = Idle /\ before' = NoSnapshot /\ struck' = struck \cup {"command"}
    /\ UNCHANGED <<manifest, mine, gone>>

\* The migration meets an OSError and restores what it had touched.
MigrationFails ==
    /\ "error" \in Mishaps
    /\ run.cmd = "migrate" /\ run.at \notin {"idle", "rollback"}
    /\ MayTear
    /\ run' = [run EXCEPT !.at = "rollback", !.todo = {}]
    /\ UNCHANGED <<manifest, before, mine, gone, struck>>

\* plan["touched"]: the paths the snapshot holds, of files and of backups.  The
\* preserved files and the backups that stay where they are are not among them.
TouchedFiles == run.plan.owned

TouchedBackups_Defect ==  \* MigrationAllOrNothing: not the place a backup is moved from
    {p \in File \X Slot : /\ p[1] \in run.plan.owned /\ manifest.slot[p[1]] = 0
                          /\ p[2] = run.plan.slot[p[1]]}
TouchedBackups ==
    {p \in File \X Slot : /\ p[1] \in run.plan.owned /\ manifest.slot[p[1]] = 0
                          /\ p[2] \in {0, run.plan.slot[p[1]]}}

\* restore(): what the snapshot holds, in the order of a set.
FilesToRestore == {f \in TouchedFiles : disk[f] # before.disk[f]}
BackupsToRestore ==
    {p \in TouchedBackups : backup[p[1]][p[2]] # before.backup[p[1]][p[2]]}

RestoreFile(f) ==
    /\ run.at = "rollback" /\ f \in FilesToRestore
    /\ disk' = [disk EXCEPT ![f] = before.disk[f]]
    /\ UNCHANGED <<backup, manifest, run, before, mine, gone, struck>>

RestoreBackup(p) ==
    /\ run.at = "rollback" /\ p \in BackupsToRestore
    /\ backup' = [backup EXCEPT ![p[1]][p[2]] = before.backup[p[1]][p[2]]]
    /\ UNCHANGED <<disk, manifest, run, before, mine, gone, struck>>

RolledBack ==
    /\ run.at = "rollback" /\ FilesToRestore = {} /\ BackupsToRestore = {}
    /\ run' = Idle /\ before' = NoSnapshot
    /\ UNCHANGED <<disk, backup, manifest, mine, gone, struck>>

\* An OSError of the rollback is passed over, or it is killed.
RollbackFails ==
    /\ "rollback" \in Mishaps
    /\ run.at = "rollback"
    /\ run' = Idle /\ before' = NoSnapshot /\ struck' = struck \cup {"rollback"}
    /\ UNCHANGED <<disk, backup, manifest, mine, gone>>

-----------------------------------------------------------------------------
(* The user, between two commands.                                         *)

\* The bytes the user replaces or removes are given up, unless a backup has
\* the same ones.
Kept(f) == mine[f] \ ({disk[f]} \ {backup[f][s] : s \in Slot})

Edit(f) ==
    /\ run.at = "idle"
    /\ \E u \in UserBytes :
          /\ disk' = [disk EXCEPT ![f] = u]
          /\ mine' = [mine EXCEPT ![f] = Kept(f) \cup {u}]
    /\ gone' = gone \ {f}
    /\ UNCHANGED <<backup, manifest, run, before, struck>>

Delete(f) ==
    /\ run.at = "idle"
    /\ disk[f] # "absent"
    /\ disk' = [disk EXCEPT ![f] = "absent"]
    /\ mine' = [mine EXCEPT ![f] = Kept(f)]
    /\ gone' = gone \cup {f}
    /\ UNCHANGED <<backup, manifest, run, before, struck>>

Next ==
    \/ \E r \in Release : Install(r) \/ Migrate(r)
    \/ Uninstall \/ NextStage \/ WriteManifest
    \/ \E f \in File :
          \/ BackUp(f) \/ Copy(f) \/ Retire(f) \/ Remove(f) \/ Relocate(f) \/ Unlink(f)
          \/ RestoreFile(f)
          \/ Edit(f) \/ Delete(f)
    \/ \E p \in File \X Slot : RestoreBackup(p)
    \/ Die \/ MigrationFails \/ RolledBack \/ RollbackFails

Spec == Init /\ [][Next]_vars

-----------------------------------------------------------------------------
(* Properties.                                                             *)

\* What the user wrote and did not remove is at its place or in a backup.
AllHeld == \A f \in File : \A u \in mine[f] : disk[f] = u \/ \E s \in Slot : backup[f][s] = u

\* Wherever the installer dies or fails, no bytes of the user are lost; while a
\* migration rolls back, its snapshot may be what holds them.
NothingLost == "rollback" \in struck \/ run.at = "rollback" \/ AllHeld

\* Not even by a rollback that is itself cut off.
RollbackLosesNothing == run.at = "rollback" \/ AllHeld

\* What is left of the package on disk, or not put back.
Cleaned(f) ==
    IF mine[f] = {} THEN disk[f] = "absent"
    ELSE disk[f] \in mine[f] \/ (f \in gone /\ disk[f] = "absent")

\* An uninstallation leaves every home as the user would have had it: nothing
\* of the package, what was there before it, and what the user changed.
UninstallRestores == struck = {} /\ run.at = "idle" /\ manifest.version = 0 => \A f \in File : Cleaned(f)

\* So it does after a command that ended half way and was run again, as
\* docs/INSTALLATION.md, section 5, and docs/RELEASE_PROCESS.md, section 5, say.
UninstallAlwaysRestores ==
    [][run.cmd = "uninstall" /\ manifest' # manifest => \A f \in File : Cleaned(f)']_vars

\* The package never takes its own bytes for the user's: what it would refuse
\* to overwrite or remove, the user wrote.
RefusesOnlyUsersBytes ==
    struck = {} /\ run.at = "idle" =>
        \A f \in manifest.owned : disk[f] \in {"absent", manifest.sha[f]} \cup mine[f]

\* cmd_verify: every managed file is what the manifest says and every preserved
\* one is there.  A preserved file the user deleted stays missing: verify
\* reports it and no command puts it back.
Accepted ==
    /\ \A f \in manifest.owned : disk[f] = manifest.sha[f]
    /\ \A f \in manifest.kept : disk[f] # "absent" \/ f \in gone

\* A command that ran to its end, whatever ended half way before it and whether
\* or not it changes the manifest, leaves an installation that verify accepts,
\* but for the preserved files that the user deleted.
CompletedMeansVerified == [][WriteManifest => Accepted']_vars

\* A preserved declaration stays the user's: no step of a command writes it.
PreservedStaysTheUsers ==
    [][\A f \in manifest.kept : run.at # "idle" => disk'[f] = disk[f]]_vars

\* A migration that fails and could restore leaves all as it found it: every
\* file and every backup, those outside its snapshot too, and the v1 manifest.
MigrationAllOrNothing ==
    [][run.at = "rollback" /\ run'.at = "idle" /\ "rollback" \notin struck' =>
          disk = before.disk /\ backup = before.backup /\ manifest.version = 1]_vars
=============================================================================
