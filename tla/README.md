# Multi-Orchestrator: formal model

TLA+ models of the parts of the Multi-Orchestrator that keep state, take
decisions from it and can be interrupted: the adaptive scheduler, the health
file and the selections that read it, the operator's switches and the telemetry
log, the installer, the commands that change `models.yaml`, and the advisory side
that reads it (discovery, intelligence, resolver, Doctor). TLC checks them on small instances; TLAPS proves every
safety property of theirs for every instance. `PROJECT.json` lists components, runs,
mutants, findings, hazards and theorems, and maps every definition to its lines
of source.

    tlc -config SchedulerAnyCaller.cfg MCAdaptiveScheduler.tla    # one run
    tlapm AdaptiveSchedulerProofs.tla                             # one proof module

## 1. The system

The Multi-Orchestrator is a set of Python programs and a text, the Core
(`core/ORCHESTRATOR_CORE.md`), that instructs language models. A root controller
(a chat session) asks a dedicated Boss for decisions and starts subagents on the
Host; the programs here choose which model endpoint each role gets, keep the
controller's table of running subagents, hold the operator's settings, and put
the whole package into a home directory.

| Component | State it keeps | Operations | Interacts with |
|---|---|---|---|
| Adaptive scheduler, `core/runtime_adaptive_scheduler.py` | tables of active, completed and failed tasks; counters; event log (in memory) | `can_dispatch`, `dispatch`, `finish_task`, `snapshot` | called by the controller |
| Health cooldowns, `core/runtime_routing_health.py` | `health.json` | `record_failure`, `clear_health`, `domain_eligible`, `excluded_endpoints` | written by controllers and operators, read several times by every selection |
| Selectors, `core/runtime_weighted_selector.py`, `runtime_role_dispatch.py`, `runtime_reviewer_selector.py`, `runtime_boss_binding.py` | none | one selection per role | the policy, the health file |
| Runtime policy, `core/runtime_routing_policy.py` | none (a loaded YAML file) | load and validate, look up | every selector |
| Mode and switch, `core/runtime_routing_mode.py`, `runtime_routing_switch.py` | `mode.json`, `enabled.json` | read (anything invalid is the default), write (atomic replacement) | the operator's commands, every selection |
| Operator commands, `scripts/orchestrator_routing.py`, `orchestrator_mode.py` | none | on, off, mode, use, set | write one or both files, then print |
| Selection program, `scripts/route_model.py` | none | `select` | reads switch, mode, health; answers; appends to the telemetry |
| Telemetry, `core/runtime_routing_telemetry.py` | `routing-telemetry.jsonl` | append, read, report | appended to by every routed selection |
| Installer, `scripts/installer_lifecycle.py` | installed files, backups, manifest | install, verify, uninstall, migrate-manifest-v1 | `install.sh`, `uninstall.sh`, `verify.sh`; the user edits the same files |
| Model configuration, `core/model_policy.py`, `scripts/configure_models.py` | `models.yaml` and its backups | show, dry run, approved change | the user; the policy loader checks agreement with it |
| Discovery, `core/model_discovery.py` | none | `discover_codex_models`, `load_unified_model_supply` | reads TOML directories and six JSON files that Codex, the router and its picker rewrite |
| Intelligence, `core/model_intelligence.py` | none (a cache file the user keeps) | cache to profiles, profiles to a ranking | Doctor and the resolver |
| Advisory resolver, `core/model_resolver.py` with `model_availability.py`, `model_capabilities.py` | none | `resolve_role`, `probe_model_availability` | Doctor and clients of the library |
| Doctor, `scripts/doctor.py` | none | one report | reads configuration, declarations and, twice, the cache |
| Validators, `core/policy_validator.py`, `runtime_endpoint_validator.py`, `identity_validator.py` | none | one request, packet or trace at a time | selections and controllers |
| Shadow report, `verify.sh`, mission trace | none | print | everything, read-only |

What is hard, component by component, and what makes each correct:

- **Scheduler.** Starts, finishes, failures and resubmissions interleave in any
  order. Correct means: limits are kept, no two running tasks own a file, work
  starts only on finished work, the summary's counters add up, and a task whose
  inputs are done is not starved.
- **Health and selections.** Several processes read and replace one file without
  a lock, and one selection reads it more than once. Correct means: a cooldown
  once recorded stays and takes effect, and it costs only the endpoints that are
  cooling down.
- **Switch, mode and telemetry.** A command writes two files in two steps and may
  die between them; a selection reads them in two steps. Correct means: nobody is
  routed under a pair nobody asked for, a command that says it succeeded did, and
  the disk can spoil only the rows it cut.
- **Installer.** Many files are overwritten one by one and the record of it is
  written last; the process can die or fail anywhere and the user changes files
  between commands. Correct means: the user's bytes survive, uninstalling
  gives back what was there, and a finished command leaves what `verify` accepts
  of what the user did not delete.
- **Model configuration.** The guard is a hash checked on one read, before a second
  read and a later replacement, with no lock. Correct means: what is written is a
  choice applied to contents the file had, the approved contents are backed up,
  and both views of the preferences stay in agreement.
- **Discovery.** Files that belong together are read one by one while others
  rewrite them. Correct means: what is found is what the home offered at some
  moment, and the report of stale models matches what is offered.
- **Intelligence, resolver, Doctor.** Pure functions of many gates, a clock and a
  floating-point score. Correct means: unknown is never available, only current
  evidence ranks, the order is the documented one, and a report is printed for
  every valid input.

## 2. The modules

| Module | Models |
|---|---|
| `AdaptiveScheduler` | the scheduler and two callers: any caller (`Spec`), and one that runs each id of a plan once (`PlanSpec`) |
| `OwnershipLeases` | what its table amounts to: seats and one exclusive lease per file |
| `SchedulerRefinement` | the mapping from the first to the second (`ImplementsLeases`) |
| `RoutingPolicy` | a loaded policy as constants, and the lookups and pure choices made from it |
| `RoutingHealth` | extends `RoutingPolicy`: the health file, its recorders, and the selections with the switch ON |
| `RoutingControl` | switch, mode, the operator's commands, the reads of a selection, its answers with the switch OFF, the telemetry log |
| `InstallerLifecycle` | install, uninstall, migration and its rollback, mishaps, the user |
| `ModelPolicy` | `models.yaml`: what is valid, what a choice makes of it, how `verify.sh` compares it with `runtime-routing.yaml`; pure |
| `ConfigureModels` | extends `ModelPolicy`: the file, its backups, and the steps of `configure_models.py` beside editors |
| `GuardedRegister` | what the guard of that file amounts to; `ConfigureModels` implements it |
| `ModelSupply` | the home, and a discovery that reads it file by file |
| `ModelEvidence` | freshness, profiles, scores and ranking; pure |
| `AdvisoryResolver` | availability records, compatibility, `resolve_role`; pure |
| `Doctor` | composes the last six: Doctor or a client of the library reads, everybody else writes |
| `MC...` | the instances TLC checks, one module per specification above |
| `...Proofs` | the theorems, one module per specification above; those of the installer are in `InstallerLifecycleProofs` and `InstallerCommandsProofs`, those of `Doctor` in `DoctorProofs`, `SupplyProofs` and `AdviceProofs` |

A definition whose name ends in `_Defect` (or, where one definition has several,
in what is wrong with it) is used by no specification. It is a plausible mistake
in the code it stands beside, and the property named next to it fails when it is
put in.

### AdaptiveScheduler

`active`, `completed` and `failed` are the three dictionaries, `spawned`, `peak`
and `waves` the counters of the run summary; `released` counts TASK_FINISHED
events. `CanDispatch` has one conjunct for each check of `can_dispatch`, in its
order; `Dispatch` and `Finish` are `dispatch` and `finish_task`. A refused
dispatch and a finish of an unknown id only log, so they are stutters. `Entered`
replaces the entry of an id that is still active, as the dictionary does. The
event texts and time stamps are left out.

`Spec` lets the caller submit anything at any time, corrective attempts of a
running id included. `PlanSpec` is the controller the Core describes: each id is
submitted until admitted, once. It is the only specification with fairness:

- weak fairness of `FirstAttempt(t)`: the controller keeps retrying a refused
  task;
- weak fairness of `Finish`: the Host returns the result of every child in the
  end, good or bad.

Weak fairness suffices because a task that is kept from a slot by others is
admitted once they finish and no new ids come: ids are run once.

`OwnershipLeases` is what the overlap scan promises, stated without scanning: a
file has an owner or none. `SchedulerRefinement` reads the owner off the table.

### RoutingPolicy and RoutingHealth

The file is `health`, the expiry of each domain, 0 where there is none. A
recorder is two steps, `Load` (read and merge) and `Save` (replace), or
`Abandon`, or `SaveCut`: `_write_health_state` does not look at how much
`os.write` took, so a file that was cut short is put in place, and it reads as
no records (`Emptied`, as after `clear_health`) while the recorder is told it
succeeded. A selection is a process: it takes its time stamp (`Begin`), reads the
excluded endpoints (`Snapshot`), and then, by role, reads the overlay's domain
(`ChooseTable`), picks from the table without looking again (`Pick`), walks the
Boss chain looking every candidate up (`Walk`), or looks every reviewer up before
it takes the first survivor (`Filter`). Every look at the file is a step of its
own, because another process can replace it in between.

Policies enter as constants under `PolicyAssumption`, which says what
`load_runtime_policy` rejects otherwise. It lets an endpoint be in two failure
domains, and then `excluded_endpoints`, which decides for workers and reviewers,
counts the cooldowns of both, while the Boss's walk asks only `_domain_of`, the
first in the file: `JudgedBy` says whose cooldown counts against whom, and both
properties of a selection are stated with it. What the loader also lets pass, and
the model leaves out, is a domain with the name "unknown" and an independence group
without a reviewer table. The wall clock is taken to be monotone, and the `--now`
option to be at its default.

### RoutingControl

`modeFile` and `switchFile` hold a value, `"none"` for a missing or damaged
file, or `"linked"` for a symbolic link, which the readers take for the default
and the writers refuse. A command goes through the steps its code has
(`NextStep`), may fail or die before each (`Fail`), and prints what it has read
(`Told`). Each write may be cut short: neither writer looks at the count of
`os.write`, so the file is then `"none"` and the command goes on (`DoneCut`);
`whole` and `met` remember it. A selection reads the switch, then the mode, and while the switch is
ON appends one line to the log. `Line` and `CutLine` say what such an append can
leave: the append is one write whose count is not looked at. `LegacyAnswer` is
what is answered while the switch is OFF. What is answered while it is ON is
`RoutingHealth`: the two share no state but the switch, so no run composes them.

### InstallerLifecycle

Contents stand for their bytes and for their hash. `disk` holds the file at each
destination, `backup` the backups of each, slot 0 being the place of a v1 backup
outside the confined root; `manifest` is the record on disk. A command reads and
checks everything when it starts (`Install`, `Uninstall`, `Migrate` and their
guards) and leaves its plan and its worklist in `run`; then it goes through its
stages (`StageAfter`), one file at a time in any order, and writes the manifest
last. `Die` ends it between any two steps, or inside a copy with a torn target.
An OSError ends install and uninstall in the same way, without repair, and sends
a migration to `restore()`, which puts the snapshot back file by file in the
order of a set and may itself fail (`RollbackFails`). The snapshot holds what
the plan calls touched and nothing else: the destinations (`TouchedFiles`) and the
two places of every backup that moves (`TouchedBackups`). `before` is history, the
whole home as the migration found it: a rollback reads no more of it than the
snapshot holds, and `MigrationAllOrNothing` compares all of it. Which of these can happen is
the constant `Mishaps`.

`mine`, `gone` and `struck` are history: what the user wrote and has not removed,
what the user removed, and which mishaps there were. When the user replaces or
deletes a file, its bytes are given up unless a backup has the same.

Left out: path validation, permission bits, dry runs, provenance counts, and
`install_unmanaged_file` of `install.sh`. One command runs at a time and the user
acts between commands only; the code has no lock and looks at hashes once, so it
promises nothing else.

### ModelPolicy and ConfigureModels

A configuration is its two views, `view` (preferred, fallback and hints of the four
public roles) and `policy` (the operator chains, none in an old file). `Apply` is
`apply_role_selections`, `Applicable` when it does not raise, its closing
validation included. `PlanesVerify` is the comparison in `verify.sh`. Lists are
filtered by the positions that stay (`Subsequence`), sorted by choosing the one list
in order and summed by the library's `SumFunction`: what a proof cannot look into
is a recursion over sequences.

Bytes stand for their hash. The form of the bytes is what the code tells apart:
written by hand, written by `yaml.safe_dump`, not a valid configuration, no
regular file, and in `backups` a copy that was cut short. A command (`op[p]`) goes
`Load`, `Hash`, `Plan`, `Copy`, `WriteTemp`, `Replace`, the places where
`main` and `mutate_configuration_file` look at the file or write; it ends where the
code raises, and `Die` ends it anywhere. `since` is history: what the file held
while the command ran. The requires field, wrongly shaped fields one by one
and permission bits are left out.

`GuardedRegister` says what remains of "compare and set" when the comparison and
the set are apart: a commit derives from some value seen since the start, and
after the approved value was seen and copied.

### ModelSupply, ModelEvidence, AdvisoryResolver, Doctor

`home` gives each file that the unified supply reads: missing, refused when read
(`corrupt`), of a shape that only breaks a later loop (`odd`), or good with what it
lists. `Offers(h)` is the definition by one look at everything; the reader takes one
step for each file, `StartReader` to `ReadMerged`, and any file may be rewritten
between them. `offered` is history: what the home offered since the discovery
began. One source of TOML declarations is read in one step.

`ModelEvidence` keeps scores and coverage exact, in hundredths. The error of the
program's floating point is the constant `Rounding`, in last places; the values
in `MCDoctor` are those CPython 3.11 computes for the scores of its caches (from 3.12
on `sum` compensates such errors; nothing in the repository asks for either, and
the proofs hold for any errors).

`Doctor` reads the configuration, the two declaration directories, then the cache
for the ranking and again, at another moment, for the resolutions. It passes no
availability on. A client discovers, keeps the records its adapter's probes
return, and asks `resolve_role`. Both only read, so a behaviour contains one
of them. No program of the repository calls the unified supply or an adapter: they
are the library's interface, and the client stands for whoever uses it.

## 3. The runs

| Run | Shows | States |
|---|---|---|
| `SchedulerAnyCaller` | limits, exclusive files, finished inputs, counters, quiet deadlocks and the refinement, for any caller | 26 thousand |
| `SchedulerPlan` | no leaked slot, one outcome per id, review after implementation, and no starvation, for a run-once controller | 651 |
| `SchedulerRework` | *violation:* a verifier starts while its implementer is at work again | |
| `RoutingHealthOneRecorder` | with one recorder, cooldowns last and take effect until the file is emptied, and no healthy earlier candidate is skipped | 2.7 million |
| `RoutingHealthLostUpdate` | *violation:* two recorders, and one cooldown is gone | |
| `RoutingControl` | one command whose writes were whole, one pair, and its success is told truthfully, `off`'s and `set`'s in any case; a cut line costs two rows at most | 5.7 million |
| `TelemetryTornLine` | *violation:* a complete event is lost to the fragment before it | |
| `LegacySelfReview` | *violation:* with the switch OFF an implementer can be its own verifier | |
| `Installer` | nothing lost, uninstall restores, refusals only for the user's bytes, finished means verified but for what the user deleted, preserved stays preserved, failed migrations undone beyond their snapshot | 4.3 million |
| `InstallerKilled` | *violation:* after a killed install, uninstall "restores" the package's own bytes | |
| `InstallerRollback` | *violation:* a rollback that fails half way loses the user's backup | |
| `Doctor` | what the guard of `models.yaml` is worth, which choices are honoured, what `verify.sh` still accepts, when a discovery is one snapshot, what is reported stale, ranked first, recommended | 249 thousand |

### Bounds, and why they are enough

- **Scheduler.** Five or six tasks with every kind of conflict: two workers for one
  role slot, two pairs for one file, a dependency, a reviewer and a premium
  reviewer, and in the rework runs one id with two file lists, so that the second
  submission gets past the overlap scan, and a worker and its reviewer that wait for
  each other. `MaxActive` is 2 or 3, so the total limit
  and the role limits both bind. `MaxSpawns = 2` lets every role be used again
  once. Deadlock is not checked: a caller may stop.
- **Health.** Three domains, five endpoints, one of them inactive at the head of
  a chain, one in two domains, one domain for every role, the overlay on "auto". Two cooldown lengths
  and two instants make expiry during a selection, renewal, and an expiry at the
  very second all happen. One selection at a time suffices because selections
  write nothing. Deadlock is not checked: the clock ends at `MaxTime`.
- **Control.** Two operators and two commands are the least for one command to
  disturb another; one selection, because selections write only the log; three
  rows, because a single cut could then cost a third one, which `LossBounded`
  excludes. The operators are interchangeable, hence symmetry.
- **Installer.** Two files, one of them an agent declaration; two releases, of
  which the second changes one file and drops the other; two user contents, so
  that an edit differs from what was backed up; and two confined slots, so that a
  backup can be taken again after a killed install. `MaxSlot` refuses an install
  that would need a third, which the code would name freely. Fresh homes and
  every v1 home are initial states. `InstallerKilled` keeps to one release and no
  agent, which is all its counterexample needs.
- **Doctor.** `MaxMoves = 2` counts the commands asked for, edits, writes to the
  home and the cache, ticks and probes together. Two are the least for two
  commands to undo one another, for an edit inside a command, for two writes
  inside one discovery (the property speaks of one), and for the cache to change
  between Doctor's two reads; what the moves set going runs to its end unbounded.
  `MaxClock = 1` lets evidence become current and expire at the very moment. Three
  models have a plain name, a router name, and one the account and the router
  share; two roles have and have not a perfect sum of weights; the four kinds of
  file of each sort occur. The two commands are interchangeable, hence symmetry.
  No fairness is needed: every property is about safety. Deadlock is not checked:
  a program that has answered stops.

## 4. What is proved

All theorems hold for every value of the constants that satisfies the `ASSUME`
of the module: any number of tasks, files, processes, domains, endpoints,
releases and slots.

**Scheduler** (`AdaptiveSchedulerProofs`). `TypeOK` is inductive with the finite
`active` it includes, which makes the cardinalities natural numbers.
`SlotLimits` and `ExclusiveOwnership` are inductive on top of it, the first with
cardinality lemmas for `Entered`. `BuiltOnFinishedWork` holds because `completed`
only grows; `SpawnsCoverWork` and `ParallelismAgrees` go the same way. `DeadEndsNeverRun`, that ids each of which
waits for another never run, is inductive for each set of ids. Under
`PlanSpec`, `OneOutcome` gives `ReviewAfterImplementation` and `SpawnsBalance`: no
dispatch replaces an entry, so every spawn is a slot held or released.
`RefinesLeases` maps every dispatch to `Sit`, every finish to `Leave`; it needs
`ExclusiveOwnership`, without which the owner of a file is not well defined.

**Health** (`RoutingHealthProofs`). `TypeOK` with `KeptActive`, that the positions
a reviewer selection keeps hold active endpoints. `CooldownsNeverShorten` and
`CooldownRespected` are proved under the hypothesis `OneRecorder`, at most one
process records failures, the condition `RoutingHealthLostUpdate` shows to be
needed. `FileInv` says that what a recorder is about to write is nowhere behind
the file, and the file nowhere behind what has been recorded; `DueInv` that every
exclusion and every candidate a selection has collected respects the domains that
were due when it began, and that a selection without exclusions is a Boss's. That
an endpoint is judged only by domains that list it (`JudgesList`, from
`DomainOfListed`) takes the step from what a selection rejects to what judges its
answer. `NoHealthyCandidateSkipped` needs the other direction, and the
same hypothesis: `PassedInv` says that whatever a selection has passed over, or
excluded, is inadmissible or judged by a domain that the file says is cooling down at the
selection's timestamp. It stays so because no write of the one recorder shortens a
cooldown (`FileInv`) and because a selection during which the file was emptied, by
the operator or by a write cut short, is not calm. `CooldownsNeverShorten` names
these two steps as the only ones that may take a cooldown back.

**Control** (`RoutingControlProofs`). `TypeOK`, and `OneCommandOnePair` for any
number of operators and selections, by `PairInv`. It adds two parts to the types:
`Undisturbed`, that a command that runs alone is the only one and that `use`, if its
mode was written whole, has it in place when it comes to the switch; and `Knows`, that the pair in force,
if ON, is one a selection on its way may answer with, and that once it has read ON
the mode it is going to read goes with ON: if the switch is OFF by then, the one
command about was `off`, which writes nothing more. `CommandTellsTheTruth` is
inductive with `TruthInv`: a command that is still alone (`Unspoilt`) finds in the
files what it wrote if the disk took it whole, so what it is told by its reads is
what is there; and a cut write leaves `off` its OFF and `set` a mode to refuse.
`LossBounded` is a count: an unreadable row was cut itself or begins where a cut one
ends (`RowsAfterCut`), so there are at most two for each row of `CutRows`, and no more
of those than short writes (`CutsCounted`).

**Installer** (`InstallerLifecycleProofs`). `InstallerTypeCorrect`, and
`NothingIsLost`: whatever command is killed or fails wherever, no user bytes are
lost unless a rollback was itself cut off, as `InstallerRollback` shows it must
say. The strengthening `Work` says what each stage relies on: in the backup stage,
a file still to do has an empty slot waiting and one that is done is covered by a
backup; in the copy stage everything still to be copied is covered; what uninstall
and a migration overwrite or remove holds no user bytes; a v1 backup still to be
unlinked has its relocated copy; and what a migration found held everything.
Because the snapshot is less than that, there is a second part, `UntouchedAsBefore`:
what the snapshot leaves out is as the migration found it, since copies go to
the destinations of the plan and relocations to and from the places of its backups.
With it the end of a rollback is the home before (`RestoredWhole`).

`InstallerCommandsProofs` goes on from there with four more parts; TLC checked each of them on the constants of `Installer` before it
was proved. `Plans`: no manifest owns what it preserves, no plan what the present
manifest preserves, and a migration runs over a v1 manifest, which preserves
nothing. From it, `PreservedStays` and, with `RestoredWhole`,
`MigrationIsAllOrNothing`. `Verified`: what was copied stays as copied through the
stages after, to the manifest. `KeptStays`: what a manifest or a plan preserves is
there unless the user deleted it, because no command writes it and a migration
preserves only what it finds. The two give `CompletedIsVerified`, mishaps or not,
and for a command that leaves the manifest as it was, too.
`Sound`: in a home where nothing was cut off (`struck = {}`, the hypothesis of the two
properties themselves, which `InstallerKilled` and `InstallerRollback` show to be
needed) each file can be uninstalled under the manifest in force: its content is
the package's or the user's, and so is what would come back. That is said of the
present between commands (`SoundNow`), of a migration's snapshot (`SoundBefore`), and
stage by stage of a command in progress (`Underway`), where part of the files
already stand as the new manifest will say. `UninstallGivesBack` and
`OnlyUsersBytesRefuse` follow from it.

**Model configuration and profiles** (`DoctorProofs`). `RefinesGuardedRegister`, for
any number of commands: `GuardInv` says, stage by stage, that a command has
seen the file it runs beside, that from the comparison on the bytes it holds were
seen and, if approved, are the approved ones, that what it is about to write
is a choice applied to contents it has seen, and that after the copy the bytes
are in a backup. `Replace` maps to `Commit`, `Copy` to `Keep`, an editor to `Edit`,
every end to `GiveUp`, and the rest are stutters. `OnlyNoChangeVerifiesHolds` needs no
invariant: both planes translate to the same endpoints, so the chains are equal,
and with fallback untouched the preferred lists are. `AgeingProved` rests on the
freshness of one record and on the identities in a sound cache being distinct.

**Discovery** (`SupplyProofs`). `SnapshotCorrect` proves `SupplyIsOneSnapshot` for any home,
models and writes. `SnapInv` keeps a home `h` whose offers were among those made, that
agrees with everything read so far (`Match`) and with the present home on
everything unread (`Agrees`): the write that overtakes the discovery hits
either a file that was read, and `h` is the home before it, or one that was not,
and `h` is the home after it. `ReadsMatch` shows each read keeps that and
the last finds `Offers(h)`. `StaleReportCorrect` needs that router models and
report come from one catalog (`ReportInv`). `SupplyTypeCorrect` is the types.

**Choices** (`DoctorProofs` as well). `ListedChoiceIsHonoured` proves
`ListedChoiceHonoured` for every configuration and choice; no state is involved, only
lists. `Ascending` is a CHOOSE, so the proof first shows that a finite set has
its elements in any strict order (`FiniteIsOrdered`, by ranks) and a set of
positions exactly one way up (`OneClimb`, by the first place where two would
part), then that filtering a filtered list is one filter (`SubsequenceTwice`),
and with it that putting a listed model in front and dropping it from the rest
commutes with dropping repetitions (`ChosenFirst` for the view, `FrontOfChain` for the
chain): both views come out equal again, which is what `validate_configuration`
asks of the result.

**Ranking, reports and advice** (`AdviceProofs`). Three facts about operators carry the rest.
`SumParts`: a sum over a finite set, which the community module defines by
recursion, is a number, and any element may be taken off first; existence of the
recursive function and both facts are inductions by a smallest counterexample
(`LeastNatural`, `SmallestSubset`). `PrecedesIsStrict`: the sort key of
`recommend_roles` is a strict order on the ranked profiles of a sound cache, because
their coverage is positive and their names are distinct; so the ranking exists and names each
of them once (`RankingSorts`). `ProfilesAreGood`: the profiles of a cache file are
finitely many, with distinct identities and scores of 0 to 10.

- `TieBreakIsKept` (`TieBreakExceptRounding`) reads off the key what may come first.
- `OnlyPerfectionCrashes` (`DoctorDiesOfPerfection`): the four weights of a role add up
  to 100, so a score of 1000 takes ten in each (`FourParts`, `FullScore`), and the
  planner's full score is exact.
- `DoctorNeverRecommends` (`DoctorRecommendsNothing`) from `DoctorInv`: what Doctor
  has read is valid, so every role has an identifier, and without availability
  the gates end at the second (`OfflineResolution`).
- `AdvicePassesGates` (`AdviceByGates`) from `RecordsInv`: every record is of its own
  model and consistent, which only the checks on a probe's answer ensure.
- `AdviceTypeCorrect` is the whole `TypeOK` of `Doctor`, from the types of its parts.

They assume of the constants: that the names are listed in order, that a claim
and a record have their fields, that the built-in metadata uses known labels
(`CAPABILITY_LABELS`), that the errors of rounding are whole last places, and that a
full planner's score is exact (0.40, 0.25, 0.20 and 0.15 add up to 1.0). TLC
evaluates each of them.

**Only model-checked.** Liveness (`ReadyTasksRun`), which is out of the prover's
reach. Every other property of a passing run is also a theorem. The runs that end in a
violation are refutations, and need no proof.

## 5. Findings

Six places where the code does not do what it, its comments or its documents
say; each is a run and an entry of `PROJECT.json`:

1. `can_dispatch` takes an old completion for the implementer's present state
   (`SchedulerRework`).
2. `record_failure` is a read and a later write of the whole file, so two
   processes lose one of two cooldowns (`RoutingHealthLostUpdate`).
3. `append_routing_event` ignores a short write, and the next complete event is
   lost with the fragment (`TelemetryTornLine`). The writers of the three state
   files ignore it in the same way; what that does is told below.
4. The legacy answer for an implementer without a verifier chain is a default
   that is not checked for independence (`LegacySelfReview`).
5. `cmd_install` keeps no record before the manifest, so after a death the package
   takes its own bytes for the user's (`InstallerKilled`).
6. `restore()` of the migration may remove a relocated backup before the original
   is back, and passes over its own errors (`InstallerRollback`).

Passing properties state exactly some more behaviour that a reader may not
expect:

- `_write_health_state`, `write_mode` and `set_routing_enabled` call `os.write`
  once, ignore its count and replace the file all the same. A `health.json` cut short
  reads as no records, so every cooldown is gone; a cut `mode.json` reads as
  SolMode, and `use` goes on to turn routing ON under it; a cut `enabled.json` reads
  as OFF. Each time the caller is told that it succeeded. `CooldownsNeverShorten`
  names the cut write as one of two steps that take cooldowns back;
  `CooldownRespected` and `NoHealthyCandidateSkipped` hold for what is on file;
  `OneCommandOnePair` holds for commands whose writes were whole, and so does
  `CommandTellsTheTruth` for `on`, `mode` and `use`: `off` and `set` tell the truth
  even then, `off` because OFF is the default and `set` because it reads back.
- A preserved file that the user deletes stays missing: every later `verify`
  fails, and no command puts it back (`CompletedMeansVerified`).
- A profile with a full score in every capability of scout, worker or reviewer
  makes `recommend_roles` raise, because those weights add up to
  0.9999999999999999 in floating point; `render_model_intelligence` catches nothing,
  so Doctor ends in a traceback over a valid cache. It dies of nothing else
  (`DoctorDiesOfPerfection`).
- `mutate_configuration_file` looks at the file no more before `os.replace`: an
  approved change may replace contents whose hash nobody gave, as long as the approved
  ones were seen and backed up (`ImplementsGuardedRegister`).
- An approved change that changes anything fails `verify.sh` afterwards, as does a
  model chosen out of fallback: it stays in fallback, too (`OnlyNoChangeVerifies`).
- Of two models with one exact score, rounding may put the one with less coverage
  first (`TieBreakExceptRounding`).
- A picked model whose name has no provider prefix is reported stale even while it
  is offered (`StaleReportExact`).
- A discovery overtaken by two writes may find what was never offered; and a catalog
  of an odd shape hides the account's models, too (`SupplyIsOneSnapshot`, `Offers`).
- Doctor never recommends a model, whatever the cache says
  (`DoctorRecommendsNothing`), and an availability record counts however old it is
  (`AdviceByGates`).

## 6. What is not modelled

- **The orchestration protocol** of `core/ORCHESTRATOR_CORE.md`: instructions to
  language models; there is no code to translate. Only its dispatch loop appears,
  as the run-once controller.
- **Validators of single requests, packets and traces**, Core validation included:
  they keep no state and do not change what is selected.
- **Of discovery and intelligence**, display metadata, model families, the checks of
  single cache fields, and `normalize_identity`, which is only displayed.
- **Of the resolver**, provider health records, which nothing reads, and the
  sanitizing of names; **of Doctor**, its wording and the sections that repeat
  inputs.
- **Shadow report, mission trace, and `verify.sh`** beyond its comparison of the policy
  planes: they read and print.
- **Concurrent installers, and edits during a command**: the installer has no lock.

## 7. Plan

The order is by what can go wrong. Done: scheduler, health and selections,
control and telemetry, installer, model configuration, and the advisory side,
each with every safety property a run checks proved. Next:

1. An installer beside a second one, and a user who edits during a command: both
   are outside what the code promises, so what is left of its guarantees has to
   be stated first.
