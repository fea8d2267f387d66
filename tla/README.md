# TLA+ models of pi-setup-system

`pi-setup-system` is a provider: a program that a consumer (or a person) runs to
put a setup of the `pi` coding agent on a machine, change it, take it away, and
install versions of the agent itself. It runs as short-lived processes. Nothing
keeps state between two calls but the file system and two small databases, and a
process may be killed between any two durable effects. What is hard about it is
therefore recovery: which states a sequence of interrupted calls can leave, and
what the next call may do in each of them.

Everything here is translated from the Rust sources; `PROJECT.json` names the
lines behind every definition. Three large modules model the two transactional
kernels and the older lifecycle; about twenty smaller ones model the components
around them. This file is the inventory of the system, the correspondence between
modules and code, what is checked and proved, and what is left to do.

- [1. The system](#1-the-system)
- [2. Modules](#2-modules)
- [3. The forward configuration kernel](#3-the-forward-configuration-kernel)
- [4. The software kernel](#4-the-software-kernel)
- [5. The compatibility lifecycle](#5-the-compatibility-lifecycle)
- [6. The components around them](#6-the-components-around-them)
- [7. Runs](#7-runs)
- [8. Disagreements found](#8-disagreements-found)
- [9. Proofs](#9-proofs)
- [10. Limits and what is not modelled](#10-limits-and-what-is-not-modelled)
- [11. Plan](#11-plan)

## 1. The system

Four crates under `src/crates/`: `provider-v3` (the wire protocol: parsing and
serialization, no state), `setup-core` (locks, journals, databases, the two
kernels, the backup pool), `harness-runtime` (the operations of a provider, over
`setup-core`) and `pi-setup-system` (facts of the one product, and `main`).

| Component | State it keeps | Operations | What makes it correct |
| --- | --- | --- | --- |
| Forward configuration kernel (`setup-core/src/forward.rs`, `forward/`) | `state.db` (operations, their before-rows and desired bytes), the journal, one staging directory, the managed files | enable preparation, admit, stage, publish, complete, cancel, replay, clear | no file changes outside the guard; a cancelled request changed nothing; a completed one is whole; a dead call can always be carried on; a late replay disturbs nobody |
| Forward surface (`harness-runtime/src/wire/forward.rs`) | none | `apply`, `prepare`, `cancel` as sequences of kernel calls under the target lock | re-checks between the calls; the order in which effects become visible |
| Host fields (`wire/forward/fields.rs`) | the ledger of fields written into host files | merge into and withdrawal from JSON and TOML files | only owned fields are withdrawn, the rest of the file stays |
| Software kernel (`setup-core/src/software.rs`, `software/`) | a database per prefix: operations, receipts, and installation, removal, switch and preparation records; version directories; launch entries in `bin` | admit, install, update, remove, cancel, `rollback`, recover | a version is replaced or removed only if it is the recorded one; the program can be launched or is absent; one request at a time; outcomes are true and final |
| Prefix allocation (`software/allocation.rs`) | a directory beside the destination | reserve, publish by an exclusive rename, reopen | a prefix somebody else made is never taken |
| Compatibility lifecycle (`harness-runtime/src/wire.rs`) | managed files, provider state record, journal, backups | install, replace, backup, restore, remove, recover | nothing the user owned is lost; an interrupted operation is rolled back or forward |
| Backup pool (`setup-core/src/backup.rs`) | numbered slots with completion markers, holds | capture, complete, hold, release, prune, quarantine | a slot that is offered is whole; a held slot is never pruned |
| Journal, state record (`journal.rs`, `stamp.rs`) | one file each | publish, clear, write, read | written by rename; a foreign or newer one is refused |
| Target lock (`lock.rs`), target resolution (`target.rs`) | a lock file outside the target | acquire, drop | one writer; released when the process dies |
| Native snapshot (`native_snapshot.rs`) | a slot with every member of the product's declared surface, beside the inventory it was taken over | inspect, copy, verify, restore | a copy is of one moment; a return leaves exactly the planned members and none of the product's runtime state is touched |
| Record store (`software/store.rs`, `sqlite.rs`) | the database and its rollback journal, through a file system of its own | open, lock, take a hot journal back, commit page by page | a call's effect on the records is whole or nothing, and an answered one is durable |
| Prefix observation (`software_prefix.rs`), digests (`digest.rs`) | none | walk a changing tree | what a plan is bound to existed at one moment |
| Launch (`harness-runtime/src/software.rs`), releases (`setup-core/src/software.rs`) | an overlay below the control directory | verify and start the program; name a release | the program that starts is the one that was installed and recorded |
| Archives and verified input (`archive.rs`, `software/input.rs`) | none | verify, extract | only the verified bytes are extracted, within limits |
| Instruction region (`instruction_region.rs`) | none | splice text between markers | text outside the markers is untouched |
| Expiry (`expiry.rs`) | none | parse and compare deadlines | calendar arithmetic |
| Plans (`wire.rs`, `provider-v3/src/plan.rs`) | none | plan, and check the plan again when it is applied | what was planned is what is done, and what is taken is captured |
| Catalog (`catalog.rs`), adoption (`adopt.rs`), human surface (`human.rs`) | a temporary catalog, the kept stamps | find and read a setup, install, restore, adopt | the setup asked for is the one applied; a person can undo it |
| Declarations (`surfaces.rs`, `facts.rs`) | none | compare what a harness declares with what was measured | every promised surface exists, no credentials file is touched |
| Provider protocol (`provider-v3`) | none | parse a command line, validate a bundle | nothing accepted is misread |

How they interact:

- A consumer repeats a request, with the same operation identifier and the same
  plan, until it reads an outcome. The identifier and the plan digest together
  name the request. Every call takes the lock of its target (or of its prefix)
  without waiting and holds it until it answers or dies.
- The forward surface and the compatibility lifecycle write the same target.
  They share the lock and the journal file; only the forward kernel has a
  database. Each must keep out of the other's way after a death of either.
- The software surface admits a request in the kernel, takes its effect and
  records the outcome; `cancel` withdraws it. `rollback` is a command for
  people: it has no request, only the kernel's switch record.
- The user, and the installed program itself, write below the same directories
  without taking any lock.

What is hard: deaths between a durable effect and the record of it, twice in a
row; requests that arrive late, again, or out of order; directory identities
(device and inode) that the file system hands out again; edits by others between
two calls; a protocol of several files and entries that cannot be changed at
once. `PROJECT.json` lists each of these hazards with the line where it bites
and the property that would catch it.

## 2. Modules

| Module | What it is |
| --- | --- |
| `ConfigTransaction` | what forward configuration promises its consumer: a request is pending, then cancelled with nothing changed or committed, then applied |
| `Forward` | the forward kernel and its surface, beside the compatibility writer and the user |
| `Software` | the software kernel and its surfaces, beside other processes |
| `Lifecycle` | install, backup, restore, remove and recovery of one target, with the pool of backup slots, beside holds, releases and the user |
| `Allocation`, `Launching`, `Releases`, `Extraction` | how a program comes to a prefix and is started: the first request of a missing prefix, `launch`, the release table, unpacking |
| `NativeSnapshot`, `TargetLock`, `TreeReading` | what happens to the files of a target: complete captures, the lock and the write under it, walks over a changing tree |
| `Catalog`, `HumanSurface`, `SetupRules`, `Declarations`, `HostFields`, `RecordStore` | setups: found, installed by a person, checked before they ship, compared with the product, merged key by key, recorded |
| `AtomicRecords` | what the software kernel takes its record store to be: one value, replaced in one step |
| `Planning`, `CommandLine`, `Bundle`, `Expiry`, `Attachment` | the wire surface: plans and their application, command lines, bundles, deadlines, the marked instruction region |
| `MCForward`, `MCSoftware`, `MCLifecycle`, `MCPrefix`, `MCTarget`, `MCSetups`, `MCWire` and the `.cfg` files | the instances for TLC |
| `ForwardProofs`, `SoftwareProofs`, `LifecycleProofs`, `PrefixProofs`, `TargetProofs`, `RecordStoreProofs`, `SetupProofs`, `PlanningProofs` | the theorems and their proofs |

Two refinements tie modules together: `Forward` implements `ConfigTransaction`
and `RecordStore` implements `AtomicRecords`, which is what lets `Software` treat a
change of its records as one step. Both are checked and proved.

Conventions. One action is one durable effect, with the checks that guard it; a
call has a position (`pc`), and `Stop` or `Die` ends it anywhere. Where a refusal
changes nothing, an action that is not enabled needs no separate refusal. A
definition whose comment begins `mutant:` is a deliberately wrong variant of the
one that follows it; no specification uses it. It states a slip of the code that a
property notices.

## 3. The forward configuration kernel

| Model | Code |
| --- | --- |
| `files` | the managed files and the provider state record, each as its data token and the identity of its inode |
| `phase`, `stage`, `outcome`, `before`, `version` | the rows of `state.db` (`forward/store.rs`) |
| `journal` | the journal file: absent, of a forward operation, or of the compatibility writer |
| `staging`, `entries` | the staging directory, by identity, and what is in it |
| `session` | the process that holds the target lock, and how far it is |
| `effects` | history: the files an operation has written or removed |

The transactions of `forward/store.rs` are operators of their own, which the
actions use: `InsertRow` and `InsertChanges`, `BindStage`, `StartRow`, `FinishRow`,
`CompleteRow` and `CancelRow` over `Settle`. SQLite makes each all or nothing, so
a call dies before one or after it.

`Call` takes the lock; `Admit` is `Writer::admit` with its row; `EnterStaging`,
`MakeStaging` and `SetStage` are the creation and recording of the staging
directory; `StageGuard`, `PublishGuard` the journal; `Start` the end of
preparation; `StageFile`, `RenameFile`, `RemoveFile` the publication of one file
(`forward/files.rs`), `Finish` and `Complete` the receipt; `Cancel` the surface's
cancellation; `Replay`, `RemoveStaging`, `RemoveJournal` the answer to a repeated
request and the clearing of what its call left.

Abstractions, each of which allows at least what the code does unless it says
otherwise:

- Bytes and mode of a file are one data token. Identities are observed with the
  data, as the code does; parent directories are folded into their files.
- A check is atomic with the effect it guards. The code has a window between
  them in which a user process could write the same managed file; it documents
  that such processes must not run concurrently, and edits between any two
  actions are modelled.
- Files are published in any order; the code follows the index.
- Refusals at admission (deadline, ownership, bundle) are the step not taken.
- The compatibility writer is reduced to its journal and its writes; it may
  write anywhere, which is more than `require_legacy_target` lets it.

**Fairness** (`FairSpec`). The consumer repeats an unsettled request, also at
times when no compatibility operation is in flight; a call gets past its opening
checks when they hold; a durable step that is tried again and again goes through
in the end; an interrupted compatibility operation is recovered by its own
writer. The code justifies each: requests are idempotent and meant to be
repeated, locks are released by the system when a process dies, and no step
waits for anything but the lock. Nothing is assumed of cancellation, of the user,
or of where calls die. Staging a file may repeat without end (a dead call's
staged file is removed and written again); the other durable steps happen at most
once each, so fairness of their disjunction is enough.

## 4. The software kernel

| Model | Code |
| --- | --- |
| `tree` | the version directories, by identity and by whether the content is empty, partial, the artifact's exactly, or one of the contents others have left (`Others`) |
| `stage`, `aside` | the recorded `.incoming`, and `.replaced` or `.removing` directories |
| `launch`, `temps`, `bin` | the three launch entries (the command, its version marker, its manifest), their prepared successors, and the directory |
| `rest` | everything else in the prefix, as it was or not |
| `row`, `initial` | an operation's state or outcome, and the digests taken at admission |
| `receipt`, `install`, `removal`, `switch`, `preparation` | the records of the prefix database (`software/store.rs`) |
| `session` | the process that holds the prefix writer, and how far it is |

An installation goes `Admit`, `Resume`, `MakeBin`, `BeginInstall`, `MakeStage`,
`BindStage`, `Extract`, `Seal`, `SetAside`, `MoveIn`, `MarkPromoted`, then the
exposure (`BeginPreparation`, `MakeTemp`, `SealTemp`, `BeginPublishing`,
`PublishEntry`, `EndPreparation`, or `ExposureStands` when there is nothing to
do), then `WriteReceipt`, `CleanPredecessor`, `CompleteInstall`. A later call of
the same request starts with `Resume`, and `RecoverPromoted`, `RecoverUnstaged`,
`RestorePrevious`, `DropStage` and `ForgetInstall` are the branches of
`Staging::recover`. A removal goes `BeginRemoval`, `Quarantine`,
`MarkQuarantined`, `CleanQuarantine`, `Retract`, `MarkCleaned`, `DropReceipt`,
`CompleteRemoval` (or `RemoveAbsent`), and is resumed at its phase. `rollback` is
`MakeBin`, `BeginSwitch`, the exposure and `CompleteSwitch`; `RecoverSwitch` is
the library's `recover`, which no command of the program calls: whether it is
called is the constant `Calls`. `Edit` is what other processes do: change or
delete a version directory, change the directory set aside or incoming, replace or
delete a launch entry, change something else in the prefix.

Abstractions:

- One command name, on Unix, in an existing prefix. The digest the request was
  planned over is compared with the state of admission; the model plans in the
  state it admits in.
- `Observed` stands for the digest with no path omitted, which includes the
  physical identities; `OutsideUnchanged` for the one that omits what the
  request may touch.
- Deletion of a tree passes through partial content, recognised by the identity
  and by having nothing but recorded members. Dropping the incoming directory is
  one step.
- Prepared entries are made and sealed in any order (the code takes the
  command last); they are published in index
  order, after a check of all of them and each with a check of its own, as in the
  code.
- `Seal` records the content of the incoming directory, whatever it is, as the code
  digests it: a directory changed before that is promoted and receipted as it stands.
  Extraction is complete by then, so an incomplete one is never sealed.
- `Coherent` asks that the version the entries agree on is present, which admits
  more states than the code's inspection of the entries; the refusals this
  leaves out are covered by `Stop`.
- A check is atomic with the effect it guards, as above.

**Fairness** (`FairSpec`). A request is repeated until it is settled, and so is
the library's recovery; a call that can go on does, or ends; calls may die
anywhere any number of times, but not for ever: from some point on a call ends
only when it has answered or refuses. `InsistentSpec` adds that the user repeats
the rollback. Nothing is assumed of cancellation or of other processes.

## 5. The compatibility lifecycle

| Model | Code |
| --- | --- |
| `files`, `record` | the managed files of the target, and the provider's state file with the list of what it wrote (`stamp.rs`) |
| `slots` | the directories of the pool: payload, the record the operation replaces, completion marker, hold marker (`backup.rs`) |
| `journal` | the published journal: phase, plan, slot (`journal.rs`) |
| `plans` | the newest plan of each operation; a plan, whole, stands for its digest |
| `call` | the call that holds the target lock: its position, and what is still to be copied, withdrawn, written and pruned |
| `holding` | a `hold` between its check and its marker |
| `raced` | history: the files the user changed since the last call's checks |

`Plan` is an observation without the lock: what the target holds of the files the
operation is bound to and, for a restoration, the chosen slot. `Begin` repeats
every precondition under the lock, among them that the chosen slot is still in the
pool (`wire.rs`, `perform`). `OpenSlot`, `Copy`,
`Complete` are `Pool::capture`, with the marker last; `Prune` lists the victims
and `Delete` removes them, newest first; `Publish` writes the journal. `Enter`
looks up what the effect writes, `Withdraw` and `Put` are the effect file by file,
`WriteState` the state file, `Promote` and `Clear` the end of the journal.
`Recover`, the same `Withdraw` and `Put`, `RewindState` and `ClearRewound` are the
recovery of a prepared journal; `Settle` that of a committed one; `Quarantine`
puts interrupted captures aside. `Refuse` is the one refusal that can happen after
the journal is published; `Die` ends a call anywhere. `Tear` is a death (or an
observer) inside the deletion of a slot's directory, whose entries go in any
order. `HoldCheck`, `HoldMark`, `Release` and `Edit` need no lock.

Abstractions:

- Whole files under the global profile. JSON hosts and instruction regions are
  edited in place by other code; native snapshots capture the product's whole surface; a scope
  narrows the namespaces. None of them changes the order of the durable effects.
- Content stands for bytes, a view of the files for its digest, and a path for a
  file below the namespaces the provider may write.
- A check is atomic with the reading it is about, and one file is copied,
  withdrawn or written at once.
- A slot put aside is gone from the pool; where it goes is not modelled.
- The pool is numbered without end in the code; `RefBound` ends the numbering, and
  with the bounds on edits and deaths a behaviour may stop. The runs of this
  module therefore do not check deadlock.

The switches in `Disturbances` say what happens beside a call: `hold` that slots
are held and released between calls, `race` that they are held during calls too,
`tear` that a deletion may be seen half done.

**Fairness** (`FairSpec`). A call that started runs on unless it dies, which
happens at most `DeathBound` times; while a journal is published, recovery is
called until it is settled. The code justifies both: no step of a call waits for
anything once it has the lock, and every other command refuses and names recovery
while a journal is there. Nothing is assumed of planning, of new operations, of
holds or of the user.

## 6. The components around them

Each is a module with its own state, and each is checked for itself: none shares a
variable with another. Where one touches what another models in detail, it takes
that as one step and says so.

How a program comes to a prefix and is started (`MCPrefix`):

| Module | Code | Steps | Left out |
| --- | --- | --- | --- |
| `Allocation` | the first software request of a prefix that does not exist (`software/allocation.rs`, and its callers in `harness-runtime/src/software.rs`) | `PlanSoftware`; `Provider`, a process going from the reservation beside the destination over the exclusive rename and the reopening to effect, completion or cancellation, or dying; `Meddle`, a person at the two names | the effect inside the prefix, which is `Software`'s, is one step |
| `Launching` | `launch`: find the command, read its manifest, hash the payload, verify the chain, reset and copy the overlay, start | the steps of a launcher (`Find` to `Start`, `Again`), those of a rollback beside it (`BeginSwitch` to `EndSwitch`), `Tamper`, `ChangeSurface`, `ProductWrites` | the started program's own behaviour, but for what it writes into its overlay |
| `Releases` | the release table and the readings of `Present` (`setup-core/src/software.rs`) by three builds of the provider | `Plan`, `Install`, `Remove`, `Forget`, `ExposeCommand`, `ExposeMarker`, `Rollback`, and `Handle` by a person | staging and recovery |
| `Extraction` | unpacking of tar, zip and raw members from a verified file (`archive.rs`, `software/input.rs`) | `Open`, `Progress` entry by entry, `Refuse`; `WriteArtifact` and `Plant` by others while it runs | decompression and the byte layout of headers |

What happens to the files of a target (`MCTarget`):

| Module | Code | Steps | Left out |
| --- | --- | --- | --- |
| `NativeSnapshot` | complete captures of a product's own members, and restorations of them (`native_snapshot.rs`, `backup.rs`, `wire.rs`) | plan, capture, hold of the selected slot, copy member by member, completion, pruning, publication, restoration member by member, recovery, quarantine; `Fall` ends a call; `EditMember` is the running product or the person, `ReleaseSlot` the release of a hold | directories and permission bits; the deletion of a pruned slot is one step |
| `TargetLock` | the claim inside a process, the file lock, its revalidation, and the atomic write it protects (`lock.rs`) | `LockStep` of a thread, `Die` of a process with all its threads, `PowerLoss`, `Meddle` with the lock file | resolution of a target's path; waiting, of which there is none |
| `TreeReading` | the strict and the lenient walk (`software_prefix.rs`, `digest.rs`) | `Read`, one entry at a time; `WriteInPlace`, `PutFile`, `DeleteEntry` meanwhile | hash functions |

Setups (`MCSetups`):

| Module | Code | Steps | Left out |
| --- | --- | --- | --- |
| `Catalog` | discovery of a catalog, the compiled-in copy, and a command that applies a setup from it (`catalog.rs`) | `Ask`, `Discover`, `Get`, `CheckWithin`, capture, journal, withdrawal, copying, record, promotion, and recovery; `EditCatalog` and `DieCommand` at any of them | rendering of setups, copying of vendored identity |
| `HumanSurface` | the commands a person types (`human.rs`) and adoption (`adopt.rs`) | `InstallSetup`, `Reinstall`, `RemoveSetup`, `RestoreNewest`, `RestoreNamed`, `Mark`; adoption from `ReadStamp` to `RecoverAdoption`, with other commands between its reading and its lock; `EditFile`, and `WriteStamp` by the earlier program | what is printed |
| `SetupRules` | the checks of a setup's tree before it ships (`catalog.rs`) | one, `Examine`: the rules are operators, and the state is the tree they are asked about | texts, of which a document keeps what it quotes, how it opens and the words after the program's name |
| `Declarations` | what a harness declares against what was measured of its product (`surfaces.rs`, `facts.rs`) | one, `Compare` | texts |
| `HostFields` | a host file whose keys belong to different setups and to the person (`wire.rs`, `wire/forward/fields.rs`, `wire/ownership.rs`) | `Compatibility`, the older writer step by step with its ledger, journal and recovery; `ForwardPath`, the newer one; the person's `PersonSets`, `PersonCreates`, `PersonBreaks` | nested keys and the layout of the text |
| `RecordStore` | the database of a prefix below SQLite: file operations, locks, the rollback journal (`software/store.rs`, `sqlite.rs`) | `ClientStep`: open, take a hot journal back, lock, write page by page, commit, or die; `PowerLoss`; a person at the files | single fields' validation |

The wire surface (`MCWire`):

| Module | Code | Steps | Left out |
| --- | --- | --- | --- |
| `Planning` | what a plan of every operation binds and what its application checks again (`wire.rs`, `provider-v3/src/plan.rs`) | `Plan`, `Apply`, `RefuseRegion`, `ApplySoftware`, `Expire`, `Recover`; `EditFile`, `MarkHome`, `LoseRecord` | the order of effects inside an application, which is `Lifecycle`'s |
| `CommandLine` | the parsers of both surfaces (`argv.rs`, `human.rs`) | `TypeWord` and `ForgetWord`; parsing is an operator over the words | values |
| `Bundle` | validation of a bundle and its archive (`bundle.rs`, `zip.rs`) | a compiler that drafts, slips and seals, and one who alters what was sealed | compression; the contents of members |
| `Expiry` | calendar arithmetic and the window of a plan (`expiry.rs`) | `Tomorrow` and `Yesterday` walk a reference calendar day by day; `IssuePlan`, `ClockMoves` | fractions of a second |
| `Attachment` | the marked region of an instruction file (`instruction_region.rs` and its callers) | plans and applications of patch and detach, a setup's writing and withdrawal by either writer, `UserSaves` | what a word spells |

`SetupRules`, `Declarations` and the parsing parts of `CommandLine` and `Bundle` are
pure functions of the code. Their modules define them a second way, from what the
rule is for, and the properties compare the two over every input the instance
builds.

## 7. Runs

Twelve, each in `PROJECT.json` with the properties it checks.

| Run | Asks | Instance |
| --- | --- | --- |
| `forward_safety` | the inductive invariant; that `Forward` implements `ConfigTransaction`; that a completed request is whole | two requests over three files that want different contents, an unclaimed and an owned target, two directory identities, one outside edit |
| `forward_liveness` | every admitted request is settled, and its guard removed | one identity, no edits, `FairSpec` |
| `software_mixed` | the inductive invariant; a quiet prefix is coherent; outcomes are true; a predecessor is kept; what others put there is kept | an update to the second version, a removal and an installation of the first, all four kinds of call, over an empty prefix and over a version an earlier program left, exact or changed; three identities, one edit |
| `software_liveness` | removals and switches are finished, an installation that died before promotion never blocks | no edits, no cancellation, `FairSpec` |
| `software_rollback` | a disagreement (section 8) | no edits |
| `lifecycle_installs` | the inductive invariant; a committed operation is whole; what is lost was captured; recovery returns the capture | two overlapping setups and a removal over what the user has; two files, three slots ever in a pool that keeps one, one edit, two deaths, deletions torn |
| `lifecycle_restores` | a plan's reference names one capture; the record names the setup that is there; what is lost was captured; holds hold; journals are resolved | an installation, backups of a managed and of an unmanaged target, restorations of any offered slot; capacity two, one death, slots held between calls, no edits, `FairSpec` |
| `lifecycle_overwrite` | a disagreement (section 8) | one edit |
| `prefix_components` | `AllocationIsExclusive`, `LaunchesAreBound`, `CommandIsAsInstalled`, `UnpackingIsExact` | two processes, two requests, three directories, two acts of a person; one launcher beside a rollback, two versions, two disturbances (edits, rollbacks begun, surfaces changed); three builds; archives of one and two headers in every form, one intrusion |
| `target_components` | `SnapshotsAreKept`, `LockIsExclusive`, `ReadingIsOfOneTree` | two members and one runtime file, a pool that keeps one of three slots, one death and one edit; two threads of one process and one of another, either kind of lock, one mishap; six paths, two edits |
| `setup_components` | `CatalogIsTruthful`, `PersonCanUndo`, `CheckedIsFit`, `KeysStayTheirOwners`, `RecordsAreSound`, `StoreIsAtomic` | two places for a catalog, one edit, one death; two setups and three stamps; some thousands of trees and declarations; two keys, three setups, two edits; two clients of the record store, a step per file operation, two calls, one death or loss of power, one act of a person |
| `wire_components` | `LineIsUnderstood`, `BundleIsAsDeclared`, `DeadlinesAreExact`, `PlanIsBinding`, `SectionStaysApart` | every command with up to two typos; bundles of up to three files with two slips; eight centuries around 1970; every operation and scope with one edit; texts of up to ten tokens |

`prefix_components`, `target_components`, `setup_components` and `wire_components`
put several components in one: `bench`, chosen at the start, says which of them
runs, and the others wait at one of their initial states. The components share no
state there, so their product would show nothing more. A property of such a run is
about one component, and is a conjunction of the named parts that the component's
module defines and explains.

Why the bounds are enough to be interesting.

- The kernels admit one request at a time, so two requests give every pair of an
  older and a newer one: a late replay or cancellation against an active request.
  The software kernel has three, because an installation under the name an update
  replaced and a removal took away is a request of its own.
- Three identities cover a version, its successor and a quarantine, and are fewer
  than the directories a behaviour creates, so that they are handed out again.
- Deaths are not bounded in the two kernels: any call may stop after any action.
  Edits are, because each opens every state of the kernel to another; the code
  answers to a single edit at most with a refusal. Properties with `drift = 0` in
  their premise say what holds as long as nobody interferes; the others hold under
  drift. The proofs have no bound on either.
- The code keeps ten slots (`facts.rs`, `BACKUP_SLOTS`); a pool of one or two is
  full after as many operations, so that each further one prunes, which is where a
  slot can be lost. Three slots are three captures: install, change, restore, with
  a recovery after any. Two deaths are an interrupted operation and the
  interruption of its recovery. The proofs have no bound here either.
- Of two files one is in both setups and one in the first only, and the user has
  one at the start: replaced, withdrawn, created and kept files all occur.
- `TargetLock` starts with either kind of system lock, of an open file or of a
  process (`flavour`); two threads of one process and one of another are every pair
  that can meet. One mishap is a death, a loss of power or an act of a person, with
  everything the others do around it. Its theorem has no bound.
- What an earlier command left in the temporary directory of `Catalog` is nothing or,
  with no catalog at either place at first, one of two other catalogs, of which any
  part may resist removal. The theorem has any leftover beside any catalog.
- The checks' trees and declarations differ from a correct one in up to three
  places, so that one rule may hide another's subject.

Deadlock is checked in the runs of the two kernels, where some call can always be
made. It is not in the others, whose bounds end a behaviour.

What the properties would catch:

- `RefinesTransaction`: an answer given to the consumer that is not true (an applied
  outcome over files that are not the requested ones), or does not stay so.
- `Settles`, `TailsAreCleared`, `RemovalsSettle`, `UnpromotedInstallsResolve`,
  `SwitchesSettle`, `JournalsAreResolved`: a sequence of deaths after which no call
  can carry on.
- The invariants `IInv`: a record without its request, a journal without its slot,
  a call that works on a record that is not its own, a record taken over a tree or
  an entry of somebody else.
- `PredecessorIsKept`: a moment at which both versions are missing.
- `QuietPrefixIsCoherent`, `OutcomesAreTrue`: remnants that nothing owns; entries
  that name different versions; an answer that the prefix contradicts.
- `ForeignIsPreserved`, `CapturedBeforeLoss`: a deletion of what others made and no
  installation has sealed, or of what is in no slot.
- `RecoveryReturnsCapture`, `CommittedIsWhole`, `RecordNamesSetup`: a half recovered
  or half written target that is called whole.
- `PlansNameOneCapture`, `HeldIsKept`: a slot number used again, a hold that does
  not hold.
- `AllocationIsExclusive`: a prefix taken that somebody else made, a program in a
  reservation, two processes with effects at once, a request answered that has no
  row.
- `LaunchesAreBound`, `CommandIsAsInstalled`, `UnpackingIsExact`: bytes that run, are
  reported or are unpacked without having been verified as the recorded ones.
- `SnapshotsAreKept`, `LockIsExclusive`, `ReadingIsOfOneTree`: a capture mixed from
  two moments, two writers, a half written file after a loss of power, a digest of
  a tree that never was.
- `CatalogIsTruthful`, `PersonCanUndo`, `CheckedIsFit`, `KeysStayTheirOwners`: a
  setup applied under another's name, a command that cannot be undone, a check that
  passes what it is for, a key taken from who set it.
- `RecordsAreSound`, `StoreIsAtomic`: a half written database without the journal that
  takes it back, an answered write that a loss of power takes, a call half visible, a
  foreign journal applied to a database or deleted beside it, a reader told what
  never was, or a look that initialises or rolls back. `RecordsAreSound` has the
  inductive invariant of section 9 too.
- `PlanIsBinding`, `LineIsUnderstood`, `BundleIsAsDeclared`, `DeadlinesAreExact`,
  `SectionStaysApart`: something done that was not planned, a word dropped, a file
  not declared, a date that is none, text of the person inside the section or the
  reverse.

## 8. Disagreements found

Two are runs that TLC ends with a violation; `PROJECT.json` quotes the lines.

1. *A rolled back promotion cannot be forgotten* (`software_rollback`,
   `staging.rs:495`). A recovery that dies after removing the incoming directory
   and before deleting its record leaves a state that every later recovery refuses.
2. *A restoration overwrites what it did not capture* (`lifecycle_overwrite`,
   `wire.rs:3181`). It captures the recorded files, and may write a path that only
   the slot names and that the user has made since. `CapturedBeforeLoss` holds of
   the other operations under edits, and of restorations without.

The following are stated as properties of their modules and were found violated.
They have no run of their own; put the property into a configuration of the
module, as the last column says, to see the trace.

| What the code does | Lines | Property and instance |
| --- | --- | --- |
| A staged remnant blocks completion: a call dies between staging a file and renaming it, the user then brings the file to exactly the desired bytes, and completion refuses for ever | `forward.rs:568`, `files.rs:283` | `ExactStatesAreReceipted` of `Forward` under `FairSpec`, one request, one edit |
| A recovered promotion cannot be carried on: recovery keeps the earlier phase in the record and prepares its exposure; if that call dies, the combination is refused for ever | `staging.rs:305` | `PromotedIsCompleted` of `Software` under `FairSpec`, one installation of one version, `Calls = {"apply"}`, no edits |
| An interrupted rollback blocks the prefix: only a library function finishes its switch record, and no command calls it | `human.rs:617`, `software.rs:624` | `SwitchesSettle` of `Software` under `InsistentSpec` without `"recover"` in `Calls` |
| Recovery leaves new files behind: an installation that dies before its state record leaves files that neither the earlier record nor the slot names | `wire.rs`, `recover` | `RecoveryIsExact` of `Lifecycle`, `MCInstalls`, capacity one, no disturbances, one death |
| A restoration evicts its own source: its capture prunes the chosen slot before that is looked up, and it then refuses with its journal published | `backup.rs:614` | `RestoreFindsItsSlot` of `Lifecycle`, `MCRestores`, capacity two, no edits or deaths |
| A slot being deleted is still offered: its entries go in any order, and the completion marker is enough to offer what is left | `backup.rs:616` | `OfferedIsWhole` of `Lifecycle` with `"tear"` in `Disturbances` |
| A hold that succeeded does not hold: it takes no lock, and a prune that has listed its victims does not look at the marker again | `human.rs:453`, `backup.rs:608` | `HeldIsKept` of `Lifecycle` with `"race"` in `Disturbances` |
| Detaching does not undo attaching: in a file that begins with frontmatter, the person's is taken away with the section's | `instruction_region.rs` | `DetachUndoesPatch` of `Attachment` |
| A host file whose ledger row is gone or empty is removed whole, with the keys the person set in it | `wire.rs:3118` | `RemovalStripsByName` of `HostFields` |
| A bundle that brings a host file is merged into what is there, keys of the setup before it included | `wire.rs:2988` | `BundleIsComplete` of `HostFields` |
| The bundle named at the application of an installation need not be the one its plan was made for | `wire.rs:2084` | `InstalledIsThePlanned` of `Planning` |
| The scope of a record is compared when a plan is made and not again: an older plan of another scope still moves the target | `wire.rs:1418` | `ManagedScopeIsKept` of `Planning`, two callers |
| The files a removal's bundle leaves in the target are written over unrecorded ones that no slot holds | `wire.rs:1007` | `EveryChangeIsCaptured` of `Planning` |
| Any operation records the identity anew, so that after it a target that had drifted reads as clean, and `status` publishes the old bundle | `wire.rs:547` | `PublishedIsThere` of `Planning` |
| Adoption captures what the provider's own record lists, which the stamp's changed files are not in | `human.rs:1016` | `ChangedClaimsAreHeld` of `HumanSurface` |
| An incoming directory that somebody changed is not compared with the artifact: it is digested, sealed, promoted and receipted as it stands, and a later removal deletes it as the program's own | `staging.rs:354` | `SealedIsExact` of `Software`, as `SoftwareMixed.cfg` |
| The descriptor of a lock closes after its claim is given back: with locks of a process a sibling that has claimed and locked in between loses its lock, and another process may take it, although the code "does not depend on which flavour a platform provides" (`lock.rs:19`) | `lock.rs:221` | `FlavourIsIrrelevant` of `TargetLock`, as `Target.cfg` |
| What an earlier process of the same number left and cannot be removed is read beside the compiled-in setups, although it "must not be read as this one's catalog" (`catalog.rs:1020`) | `catalog.rs:1022` | `OnlyCompiledInIsRead` of `Catalog`, as `Setups.cfg` |
| A catalog edited between the check of a setup and the copying of it puts paths the provider does not own into the target | `catalog.rs:1363` | `OwnershipIsEffect` of `Catalog` |

Others were noticed while the code was read; they contradict no text that we know
of, and a later reader should not take them for slips of the models.

- *Forward and fields.* After a recovery the ledger may be stale, and
  `require_ownership` then refuses. Patching is not idempotent for a file without
  a line end at its end.
- *Software and prefix.* A call that loses the race for the same request may leave
  an empty stage directory; a person may add an entry between the check of a
  reservation and its rename (`allocation.rs:66`); an admitted reservation blocks
  other requests until it is resumed. A launch takes no lock: a second one resets
  the overlay under a running product, an overlay may mix two setups during an
  application, and bytes replaced between verification and reading are recorded as
  the installed ones. `Present::exposed` is wrong while a switch is interrupted, a
  changed kind of member on Windows blocks update and removal, and a removal's plan
  promises to remove a command that it may preserve.
- *Lifecycle and plans.* A native restoration may leave its hold behind
  (`wire.rs:2483`). Some plans can never be applied; `--backup-ref` is dropped where
  it means nothing; a patch or detachment refused for a stale surface leaves a
  capture and a prepared journal; application of the compatibility path checks
  again neither provider, version, release, profile nor platform; backing up an
  unmanaged target makes it managed with an empty record; patch and detach drop the
  recorded setup's identity; an installation for the user's root on a globally
  managed home withdraws the global files.
- *Lock and readings.* The compatibility path never revalidates its lock; the
  control directory is made wide and then restricted; a failed synchronisation of a
  directory is not reported. One strict reading is no snapshot (two equal ones are);
  the lenient walk forgives a file that vanishes and not a directory; the
  `excluded` of `of_owned` filters top-level names only.
- *Catalog and human surface.* Adopting twice overwrites the kept stamp, and a
  stamp may be read again differently; a restored slot that had drifted makes
  `diff` say that it matches (`human.rs:825`); two operations within a second have
  the same identifier; an adoption that died and was recovered leaves neither record
  nor stamp. New files of an interrupted installation stay; an explicit catalog
  variable that names no directory silently falls back; a definition is digested
  when it is got and its payload copied later.
- *Checks.* `misdirecting` looks at the first mention of a line only, and takes
  words inside the provider's name; reachability compares directories without
  regard to case and entry points with it; names of a file and a directory that
  differ in case only pass. Scoped profiles with equal namespaces pass; comparisons
  with credential names are exact; `custody_namespaces` is read by no effect.
- *Command lines and bundles.* `list`, `software` and `rollback` accept and ignore
  `--target`; a bare `--` at the end is accepted everywhere; a manifest may declare
  `skills/a` beside `skills/a/b` (`bundle.rs:327`); the order of members, gaps
  between them and their local headers are not looked at.
## 9. Proofs

All theorems are for arbitrary sets of requests, processes, files, versions,
contents and identities, any functions that give a request its kind and aim, any
capacity, and any bound on edits, deaths and meddling. What they assume of the
constants are the named `ASSUME`s of the modules, which TLC evaluates on every run:
placeholders differ from data, functions have their domains, and the following one.
`KernelAssumption` says that the prefixes a behaviour of `Software` starts from are
in order: a receipt is of a complete tree, the tree that has a receipt is that one,
and the entries agree on a version. The program only ever writes receipts like
this; a prefix that is out of order is one that others have changed, and for that
there is `Edit`.

| Module | Theorem | Says |
| --- | --- | --- |
| `ForwardProofs` | `Invariant` (with `TypeCorrect`); `EffectsGuarded`, `StagingResumable`, `CancellationInert`, `LegacyAlone`, `OutcomeFinal` | the inductive invariant and every safety property |
| | `Refinement` | `Forward` implements `ConfigTransaction` |
| `SoftwareProofs` | `OutcomeFinal`, `ForeignPreserved` (with `CallInvariant`, `TypeCorrect`) | whose the records are; outcomes stay; nothing that no record speaks for is deleted, no entry of others overwritten |
| | `Invariant`; `QuietCoherent`, `OutcomesTrue`, `PredecessorKept` | the inductive invariant of the run, and what the records say of the prefix |
| `LifecycleProofs` | `Backed` (with `CallInvariant`, `TypeCorrect`) | a published journal always has its slot, whole and of its own capture |
| | `Invariant`; `CommittedWhole`, `OneCapture`, `NamesSetup`, `Recovering`, `HeldStays`, `CapturedFirst` | the inductive invariant of the run, and what calls do to files, slots and record |
| `PrefixProofs` | `Invariant`; `Replacing`, `Settling`, `Serializing`, `Exclusive` | `AllocationIsExclusive`, the property of the run, and its parts |
| | `LaunchIsInvariant`; `RecordedIsStarted`, `InstalledIsStarted`, `TargetIsTheSession`; `LaunchIsSound` | the inductive invariant of a launch, what is started and what it reads, and `LaunchesAreBound`, all of them together |
| | `ReleaseIsInvariant`, `PlannedAnswers`; `CommandIsSound` | the inductive invariant of the release table, where a planned installation ends, and `CommandIsAsInstalled`, both together |
| `TargetProofs` | `Exclusive`; `PromotesOwn` | `LockIsExclusive`, the invariant of the run; a thread that renames promotes its own bytes |
| | `SnapshotIsInvariant`; `RestorationIsAsPlanned`, `RuntimeStays`; `SnapshotIsSound` | the inductive invariant of a native snapshot, what a restoration leaves and what it never touches, and `SnapshotsAreKept`, all of them together |
| `RecordStoreProofs` | `StoreIsInvariant`; `StoreIsRecoverable`, `StoreAnswersDurably`, `StoreAnswersTruly`, `StoreKeepsEvidence`, `StoreReadersWriteNothing`; `StoreIsSound` | the inductive invariant of the record store, its promises, and `RecordsAreSound`, all of them together |
| | `StoreImplementsRecords` | `RecordStore` implements `AtomicRecords` |
| `SetupProofs` | `HostIsInvariant`; `RowIsCurrent`, `PersonKeeps`; `KeysAreSafe` | the inductive invariant of a shared host file, what its ledger row says, what no writer takes from the person, and `KeysStayTheirOwners`, all of them together |
| | `CatalogIsInvariant`; `RecordIsTrue`, `EffectKeepsInside`; `CatalogIsSound` | the inductive invariant of a command over the catalogs, what it records, what it may change, and `CatalogIsTruthful`, with recovery, all of them together |
| | `HumanIsInvariant`; `UndoIsPossible` | the inductive invariant of the commands a person types, and `PersonCanUndo`, the property of the run |
| `PlanningProofs` | `PlanningIsInvariant`; `PlansBind` | the inductive invariant of plans and applications, and `PlanIsBinding`, the property of the run |

How the arguments go:

`ForwardProofs`. Type correctness is inductive by itself. The safety properties
are not: `IInv` adds that at most one operation is active (`OneActive`), that
rows, staging and outcome of an operation agree with its phase (`RowsAgree`), that
the journal belongs to the active operation or to one whose call has yet to clear
it (`JournalOwned`), and what a call in progress has established (`SessionOwns`).
Without `JournalOwned`, for instance, `MayClear` could remove the directory of
another operation. The refinement maps initial states to initial states and each
step to a step of `ConfigTransaction` or a stutter under `Status`.

`SoftwareProofs`. The type invariant is not inductive alone: an action reads
fields of a record, so it must know that the record is there. `CallInv` is, in one
induction: `TypeOK`, `JournalsAreOwned`, `SessionOwns` (which record each position
of a call presumes) and `EvidenceIsWhole` (what the records were taken over: complete
directories, for an unrecorded predecessor one equal to what takes its place).
`ForeignPreserved` then has three parts: a deletion is taken only of a tree whose
content is a remnant of the recorded one (`OnlyVouchedIsCleaned`), every other
step moves whole trees (`TreesKept`), and publication and retraction take only
entries that the record or the version owns (`EntriesKept`). A record speaks for
what the seal took, which is the artifact's tree only as long as nobody changes the
incoming directory; that it then is, `OutcomesTrue` says with `drift = 0`.

`SoftwareProofs`, the effects. What the records say is true of the prefix as long as
nobody interferes, which is not enough for an induction: after an edit the calls go
on, and what they decide then must still be true. `IInv` adds two parts to
`CallInv`. `EffectStands` is what no edit undoes: nothing is incoming once a call
exposes, a cleaned removal has no directory left and no entry that names its
version, the directory of the entries is there while a record needs it.
`Undisturbed`, with `drift = 0` as its premise, has the whole story: every version
with a receipt is that receipt's tree but for the one a record is about, which is
where the record has it (`NotMoved`, `HalfMoved`, `MovedIn`), and the entries agree
but for those a record is publishing. The lemmas `InstallPlace`, `InstallStep` and
`RemovalStep` follow one version through its phases, action by action; all other
steps leave it alone. `QuietCoherent` is the case of no record. `OutcomesTrue`
looks at the steps that write an outcome, and `PredecessorKept` at those that move
or delete a directory.

`LifecycleProofs`. `JournalIsBacked` is not inductive: that the slot of a new
journal is complete depends on what its call did before there was a journal.
`CallInv` adds what plans and calls are bound to (`PlansAreBound`, `CallIsBound`),
that no journal is published during a capture and that the call's slot is then the
newest and no victim (`CaptureIsNewest`), that what has been copied is what the plan
saw (`CaptureIsExact`), and whose the journal is (`JournalIsOfCall`). Three lemmas
carry it: the newest completed slot is never reclaimed (`NewestIsKept`, by the
cardinality of the newer ones), a slot is changed only by its own capture and lost
only by pruning, tearing or quarantine (`SlotIsKept`), and none of these happens
while a journal is published (`PublishedKeepsSlots`).

`LifecycleProofs`, the effects. What a call has done to the files so far is determined by
its position: what is still to be withdrawn or written is as it was or is the
user's since (`MovedInOrder`, `BetweenTheTwo`), names that were looked up fit the
plan (`NamesFit`), the record is the one of the phase (`RecordIsOfPhase`), the
capture is of the files the plan saw (`CaptureIsOfFiles`), and a slot that a plan
has pinned holds what the plan saw as long as it is there, and is never newer than
the newest (`PinsAreTrue`, `PinsAreOld`). The hypotheses of the theorems are what
the code needs, and TLC finds the violation without them:

- `CommittedWhole` asks that deletions are not torn or that nothing is restored: a
  restoration from a slot that is half deleted commits what is left of it.
- `OneCapture` asks that deletions are not torn, for the same reason.
- `NamesSetup` asks that, and that the user edits nothing: the record says what was
  installed, not what has been made of it.
- `HeldStays` asks that holds do not race with a call, and `CapturedFirst` that
  nothing is restored: two of the disagreements of section 8.
- `Recovering` asks nothing.

`PrefixProofs`, of the allocation. The invariant relates the two names to the directories'
identities and locks (`Coherent`): where a call is says which directory it holds and
what that one contains. `Replacing` rests on the rename that replaces nothing,
`Serializing` on the lock being of a directory and not of a name.

`TargetProofs`, of the lock. Half of the invariant is about claims, descriptors and owners
(`Held`), half about the bytes (`Wrote`). The second needs the first: that the file
at the staging name is the thread's own is a consequence of exclusion.
`OneOnAFile` is proved for both kinds of system locks; where they belong to
processes, it is the claim that excludes the threads of one process. There the claim
is given back before the descriptor is closed, and a descriptor that closes late may
take a sibling's lock with it (`robbed`). From then on another process may have the
lock too, so what is exclusive among processes is claimed up to that point, and the
exclusion within a process always; a lock of an open file is never robbed
(`CloseLateHeld`).

`RecordStoreProofs`. The store's safety is the journal's, and the proof is mostly
about what may be on the disk at any moment. `FilesHold` compares what the clients
see with what a loss of power leaves, and has four cases. With no journal in sight
or on the disk, the database is flushed and whole (`Settled`). With a journal that
takes nothing back (empty, zeroed, not SQLite's), the same. With one that does, it
holds the last committed state, on the disk as well unless the database is still
that state (`Kept`). And with one that was deleted and is still on the disk, the
database is flushed, or it was rolled back to nothing (`Deleted`). It must hold of
every mixture of the two that a loss of power picks.

A file operation keeps it only because of who does it when. `LocksExclude` leaves one
writer past the lock as long as its lock file has its name, and every operation
checks the name first, so a client whose lock was replaced does nothing more.
`StepsAreGrounded` says, for each position of a live client, what the files hold and
what its transaction is for: before the journal is filled the database is the state
to be changed, from then on the journal is, and what is written is that state
again (a rollback) or the admissible result of the call on it. It also has what
keeps evidence safe: no client takes the person's journal for its own, and none
writes a database before it has read that it belongs here.

The refinement maps the records to what the next client to recover would read, and
`sure` to the same on the disk. Deleting the journal is then `Make`, or a stutter for
a rollback and for the schema; flushing the directory is `Settle`; a loss of power is
`TakeBack` when the deletion was not on the disk yet; a person who moves the store
away, or puts another root's database in, is `Lose`; everything else is a stutter.

One assumption was found by the proof. Rolling a database back to nothing truncates
it, and its journal is then deleted with a flush of the directory; a client that
finds an empty database deletes the journal unread (SQLite does). If the first dies
between the truncation and its flush, nothing flushes the truncation, and a
file system that keeps the deletion and not the truncation would bring back pages
of an unfinished transaction without a journal: three deaths of one client, beyond
the run's bounds, violate `TornIsRecoverable`. The model assumes what journalling
file systems do, that a truncation reaches the disk no later than a change of the
directory made after it (`Durable`, `PowerLoss`).

`PrefixProofs`, of a launch. A launch takes no lock, so each step keeps what the steps before
it read only until somebody changes it, and `LaunchInv` says who that can be.
`ChainStands`: the payload is the recorded one until an edit, and the command names
it until a rollback renames the entries. `OverlayStands`: a surface that was copied is
the target's, one that was not is absent, until another launch, a running product or
a configuration change writes. Neither says that the bytes which start were
installed, because a rollback may rename its entries between the check and the start.
`ChainIsInstalled` does, through `Blocked`: a rollback records the bytes it reads, which
may be replaced ones if its version was edited after it had been verified; but it
verifies again at its end, and nothing puts installed bytes back, so it never ends, and
no record of replaced bytes is in place without it. The theorems hold of every host,
kind of program and way to bind a product to its configuration.

`TargetProofs`, of native snapshots. The safety of a return is established steps before the journal
that needs it. `CaptureStands` follows the slot a call captures into: the newest as
long as the call runs, incomplete until it was read back and held. `SelectedStands`
follows the slot a restoration was given: what the plan saw in it, or reclaimed, and
by the time something is removed it is there. A window cannot take the first because
it keeps the newest slots (`NewestIsKept`, by the cardinality of what is newer), and
cannot take the second because it is held; a release during the call ends the hold, so
`SelectedSurvives` asks for `QuietRelease`. Nothing else does: with releases at any
time the invariant and all other properties are proved as they stand, and
`RestorationIsAsPlanned` holds because such a restoration is refused before it removes
anything.

`PrefixProofs`, of the releases. That one name answers, and that the marker is what it
runs, hold because an installation, a rollback and a removal read both before they
write (`Snapshot`): `OthersAreFree` is that reading, in the words of the invariant.
Between the two renames of an exposure they do not hold, and `ExposureStands` says
what does: the version is there with the planned bytes, the other name is free, and
the command has been renamed before its marker. The theorems hold of every release
table, also one that gives a version two kinds of program or other bytes.

`SetupProofs`, the host file. The ledger's row and the host file are written one after the
other, so between calls the row is right only because of what each position of the
call establishes (`Established`): a row is withdrawn before a call that writes nothing
goes on, it names the incoming keys before they are merged, and they are the setup's
before the inventory names the file. A call that died promises nothing: its journal is
taken back as a whole, and from then on (`rewound`) the row may be of another moment,
as section 8 notes. That the person's keys stay needs only that a
call which merges has keys to merge; the rest is what the two ways to strip, merge and
contribute do to a document (`StrippedKeys`, `MergedKeys`, `ContributedKeys`).

`SetupProofs`, the catalogs. What an earlier command left in the temporary directory
may stay, in any part, when its removal fails. The compiled-in setups are written over
it and are then all there, whole (`MaterializedIsWhole`), beside what stayed; that is
what a command reads (`TreeStands`). Whether a setup that was checked is the one that is copied depends on
everything between, so the invariant carries it from position to position: the
definition that was read is what the catalog still holds until somebody edits it, and
passed the check (`ReadStands`); what will be withdrawn or written over is in the slot
until it is written anew (`CaptureStands`); the withdrawal and the copying are as far as
what they have left says (`EffectStands`). Nothing is promised of the target while its
journal is prepared, and once it is not, every recorded file is there
(`RecordedIsThere`): for a recovery this needs that a slot holds all that its record
lists, which a capture can only establish because it refuses while a journal is there
(`JournalStands`). An edit ends the definition and the check, never the capture's part in
a recovery. The proof corrected a property: after a setup that was edited under its
command has put a path outside the surface and recorded it, the next command takes that
path away. It takes a second edit to let that command pass its check, one more than the
run allows; with two TLC finds it. `EffectIsOwned` allows this withdrawal and no other
change outside the surface.

`SetupProofs`, the person. Undoing rests on one fact about a full pool: the capture a
command has just made is not what makes room for it (`NewestIsRetained`), so that the
newest slot is always the last capture (`NewestIsThere`) and a restore that names no slot
finds it. The pool is pruned by number, never by what a slot is for; that the slot of an
adoption is still there for its recovery (`AdoptionStands`) therefore needs that nobody
captures under its journal (`Unlocked`). Between the reading of a stamp and the lock
everybody may; the invariant claims nothing of an adoption that has only read. A file
nobody recorded is safe because what a command writes or withdraws is what it captured
(`CapturedIsInNewest`). The restores are excepted: theirs holds the record's files and
no others.

`PlanningProofs`. A plan is a record of a moment, so what it promises needs a fact
about all the steps between that moment and its application: as long as nothing has
changed (`fresh`), the plan is one that the present target would give (`Standing`,
`PlanStands`). No step that changes anything leaves a plan fresh (`Aged`), and the two
that change nothing, another caller's plan and an expiry, leave what can be planned as
it was (`PlannableStays`). With that, `PlannedIsApplicable` is a comparison of the two
lists of checks: each check of the application is implied by one of the plan or is one
of the three in `NeverApplicable`, which the plan does not make. The
capture is the point where the lists differ (`PlannedIsCapturable`): the plan looks for
links at the recorded paths, the application also at those its bundle writes. The
properties of a step follow without freshness, from what an application looks at again:
the identity gives what may be withdrawn, the capture what is taken (`LeftIsUntouched`),
the comparison of survivors what a removal leaves. `RefuseRegion` also captures, and the
proof has to tell it from an application by its journal (`RefusedIsNotApplied`). The
theorems hold of every set of requests, also those no command line can carry.

Only model-checked: all liveness, which needs fairness and `ENABLED`; the
composites `UnpackingIsExact`,
`ReadingIsOfOneTree`, `CheckedIsFit`, and `LineIsUnderstood`,
`BundleIsAsDeclared`, `DeadlinesAreExact` and `SectionStaysApart`. Of `Expiry`, `Extraction`, `Bundle`, `CommandLine` and
`Attachment` the core is recursion over data, which would need an induction that the
provers cannot be given.

## 10. Limits and what is not modelled

- A check is atomic with the effect it guards, everywhere but where a section says
  otherwise. The code documents that nobody else should write the managed files
  meanwhile; edits between any two steps are modelled.
- In the large models an effect is durable when its action is taken. `TargetLock`
  and `RecordStore` separate what is visible from what survives a loss of power. In
  `RecordStore` a file operation and the checks around it are one step, the person
  leaves a database alone while its journal exists, and no genuine journal of
  another database is planted.
- The models that share files in the code share none here: `Forward` has a reduced
  compatibility writer, `Planning` applies in one step, `NativeSnapshot` prunes in
  one.
- Not modelled: the desired files the forward planner derives and the texts of
  answers; the library calls of the software kernel that no command makes and the
  migration of its first schema; decompression, hash functions, canonical JSON,
  serialization and vocabulary tables; the schema of the state record; probing of an
  installed product (`probe.rs`); rendering of setups; the schema of single fields;
  `main`, facts and build; setups, the provider kit, evidence tooling and
  installers, which are data or scripts.
- `PROJECT.json` says for each part of the system whether it is modelled, partly or
  not, and why.

## 11. Plan

1. Theorems of `TreeReading`, the last component whose properties are about interleavings.
2. A composition of `Forward` with `Lifecycle` in the place of the reduced
   compatibility writer: which of the two may begin over what the other left, and
   that each leaves the other's evidence alone.
3. An abstract specification of the lifecycle, in which an operation happens or
   does not and every loss is captured, with the theorems of
   `LifecycleProofs` as the steps of its refinement.
