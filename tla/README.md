# TLA+ verification of codex-rollout-backup

The repository mirrors Codex rollout files (append-only JSONL logs) into a
OneDrive directory, replaces full copies in the mirror by APFS reflink clones of
their sources ("repair"), and takes a daily snapshot under a lock. This
directory holds TLA+ models of that code, the TLC configurations that check
them and TLAPS proofs about them. Line numbers refer to the files under
`scripts/`.

## 1. Inventory

| Part | State it keeps | Operations | What makes it correct |
| --- | --- | --- | --- |
| Repair transaction (`codex_repair_rollout_reflinks.py` `_repair_one`, `_recover_intent`, `_resume_manifest`) | a durable intent or manifest per rollout, the stage directory, the two names it swaps | begin, clone, swap, verify, commit, defer, roll back, recover | the mirror name always holds the original or a verified clone; records describe what a stop or a power loss leaves; an abandoned repair is queued |
| Retry queue and commands (`inventory`, `repair`, `recover`, `retry`) | `retry-queue.json`, and an in-memory copy of it per command | load, add, remove, rewrite; recovery before everything else | no retry obligation is lost; one rollout's failure does not undo another's |
| Durable JSON state (`atomic_write_json`, `_read_json_record`, state directory) | temporary file, canonical name | write, publish by rename, fsync, delete, bounded double read | a reader sees one published version; the caller learns whether a write was published |
| Discovery and classification (`discover_candidates`, `_discovery_results`, `_evaluate`) | none (a scan) | pair each mirror with its source, classify the pair | only stable, equal, unshared pairs are eligible; scan errors are fatal, not silent |
| Darwin backend (`codex_reflink_darwin.py`) | held descriptors of source, original, clone and parents | bind, clone, swap, unlink, stage directories, fsync | acts on the objects it holds, never on a name somebody replaced |
| Descriptor ownership and cleanup receipts (all three Python files) | owners, receipts | acquire, close, cleanup once, drain | an interrupt at any line closes everything once and reports the first error |
| Snapshot lock (`codex_snapshot_lock.py`) | lock leaf, `flock`, inherited descriptor | acquire and exec, verify inherited | one job at a time, over the same leaf |
| Daily snapshot (`codex_snapshot_daily.sh`) | staging directory, published archives | stage, validate, publish, keep for recovery | an archive is published whole or not at all |
| Mirror copy (`codex_rollout_mirror_copy.py` `MirrorSync`) | candidate file, receipts | copy held source, require prefix, publish | the mirror never shrinks or loses its prefix |
| Mirror shell functions (`codex_rollout_mirror_common.sh`) | lists of both trees | relocate, prune, sync | the last copy of a rollout is never pruned |
| Path and tree checks, unpin, install, trigger | none | pure functions and system calls | containment |

Interaction. The LaunchAgent or a person starts a command. `repair`,
`recover` and `retry` take `repair_lock`, recover every intent and manifest
they find (`_recover_all`, 5421), scan both trees and then run `_repair_one` on
each eligible rollout. `_repair_one` publishes its records through the durable
JSON state and acts on files through the Darwin backend, which calls back
(`authorize_state`) before each namespace change to confirm that the durable
record is still the one it acts for. Codex itself appends to rollouts and moves
them to the archive at any time. The snapshot job runs under
the snapshot lock, in other processes; the mirror synchronisation is a library a person
sources and calls, without that lock (the daily job no longer does).

Hard behaviours: a stop or power loss between a namespace change, its fsync and
its record; a source that grows or moves between inspection, clone, swap and
verification; publications whose outcome is unknown; recovery that is itself
interrupted; an in-memory queue that outlives durable changes; lock leaves
replaced under their holders; asynchronous interrupts inside cleanup.
`PROJECT.json` lists them at their lines.

## 2. Plan

1. `RepairPromise`, `RepairTransaction`, `RepairTransactionProofs`: one rollout's
   transaction, the core. **Done**, the refinement included.
2. `RepairCommands`, `RepairCommandsProofs`: several rollouts, durable and in-memory
   queue, the recovery loop that stops at the first failure, limits. **Done**.
3. `RegisterPromise`, `StateWrite`, `StateRead` and their proofs: `atomic_write_json` and
   the double read. **Done**, the refinement of the register included.
4. `SnapshotLock`, `SnapshotDaily`, `SnapshotDailyProofs`: several processes, flock, exec,
   inheritance, replaced leaves, and the job composed with the lock. **Done**.
5. `MirrorCopy`, `MirrorMaintenance` and their proofs: copy, prefix and publication against
   a growing source; relocation and pruning. **Done**.
6. `DescriptorDrain`, `DescriptorDrainProofs`: cleanup receipts and one interrupt at any
   line. **Done** for the repair tool's implementation.

Every safety and action property a passing run checks is a theorem. Left: classification
(`_evaluate`) and path containment as operators; asynchronous interrupts of the mirror
copy helper's own drain.

## 3. Modules

### RepairTransaction

One rollout. `names` says what the mirror name (`final`) and the name in the stage
(`temp`) map to and whether the stage exists; `restorable` is the set of values
of `names` that a power loss may leave. A namespace operation (`Mutate`) is visible at
once and adds to `restorable`; the fsync of the two parents (`Fence`) leaves only
the present value. `intent`, `manifest`, `retryable`, `enabled` and `queued` are the
durable records. `pc` is the next step of the running process, `cause` why it is
undoing; both are lost when it stops.

| Action | Code |
| --- | --- |
| `Begin` ... `DropIntent` | `_repair_one` 4190-4506, with `_DarwinAdapter.prepare`, `_DarwinTransaction.clone`, `revalidate_before_prepared` |
| `PreForward` ... `DeleteManifest` | `_repair_one` 4566-4650 |
| `PublishRollbackReady` ... `PublishRolledBack`, `UnlinkClone` | `_defer_before_forward`, `_rollback_after_postverify` 4704-4915; `UnlinkClone` is also `abort_before_prepared` and `cleanup_intent_stage` |
| `SettleIntent`, `DeleteIntent`, `DropQueue` | `finish_safe_prepared_failure` 4231, `_recover_intent` 4974, the `CandidateUnsupportedError` handlers |
| `Recover...` | `_recover_intent`, `_resume_manifest` 4917-5419: the branch for each record and orientation; they join the steps above |
| `Fault` | errors the code compensates for itself (4325-4413, 4437-4490, 4617-4623) |
| `Stop` | SIGKILL, or an error answered by a fatal exit that keeps the evidence |
| `Outage`, `SourceChanges` | the environment |

Abstractions. A snapshot comparison of the source is one of three states since
the inspection: same, changed, gone. The bytes of the clone are `exact` or not. A record
is published and deleted atomically and durably; a publication of unknown outcome is a
publication followed by `Stop`, or `Stop` before it, which is what the code's fatal exit
amounts to. Nobody else writes the mirror or the stage: that is the quiet window the
documentation requires of the operator, and `repair_lock` allows one process.
Preserved policy (mode, ACL, extended attributes) is part of "verified", with its
failure among the faults.

A namespace reaches the disk in the order its changes were made or not at all: a power
loss leaves `names` at one of the values since the last fence. This is the assumption the
code's own fences and comments make of APFS, not more.

### RepairPromise

What the caller may rely on, without journal, stage or fsync: a transaction is open, then
decided once either way, then closed; after a commit the clone stays; a rollback closes
only with the original in place and the rollout queued; a commit only with it off the
queue. `RepairTransaction` is shown to implement it (`KeepsPromise`) with
`decision` computed from the two records (`Decision`).

### RepairCommands

`repair --apply`, `retry --apply` and `recover --apply` over `Rollouts`. `queue` is
`retry-queue.json`; `memory` is the set called `queue` in `repair` and `remaining` in
`retry`; `record` is what each rollout's intent or manifest says. `class` is what an
inspection of the pair would find now, `seen` what the command found.

| Action | Code |
| --- | --- |
| `StartRepair`, `StartRetry`, `StartRecover` | the commands taking `repair_lock` |
| `RecoverNext`, `RecoverRefused`, `RecoverDone` | `_recover_all` 5421-5473, which ends the command at the first failure |
| `LoadForRepair`, `LoadForRetry` | the queue read into memory; `retry` ends at once with an empty one |
| `Classify`, `ClassifyDone`, `Oblige` | `_discovery_results` with `persist_discovery_obligation` 4008 |
| `PassOver`, `SkipByLimit`, `BeginTransaction`, `Conclude`, `Drop`, `Rewrite` | the loops over the results, 4047-4158 and 5656-5710 |
| `Decide`, `DecideUnsupported`, `Settle`, `Fault` | the outcome of `_repair_one` or recovery, and the queue entry written before the record goes |
| `Stop`, `Change` | a command that ends anywhere; Codex or the operator changing a pair |

Abstractions. `RepairTransaction` has the steps of a transaction; here it is open, then
decided, then settled and gone. Recovery may finish or defer an open one, whatever its
stage. `failed` stands for a FAILED manifest and for the other records every command
refuses. Limits skip any eligible pair, which covers each value of `max_files` and
`max_bytes`. An error of the scan or the queue file ends the command without a change
(`Stop`). A pair of two duplicates, already shared or diverged is `terminal`; a missing,
growing or unstable one is `deferred`.

### RegisterPromise

What a caller of `atomic_write_json` may rely on: the canonical name changes at one
instant, never after the answer, and the answer tells whether it did and whether a
power loss can still undo it. `ambiguous` promises nothing.

### StateWrite

One `atomic_write_json`. `names` and `restorable` are used as in `RepairTransaction`;
`payload` and `flushed` say how much of the record the temporary object holds and
whether that is on disk; `mapped` whether the path still names the directory held open.
`receipt` is `receipt.publication`, what the caller is told if a later line is
interrupted; `answer` is what it is told.

| Action | Code |
| --- | --- |
| `Create`, `Write`, `Flush` | the temporary file, its bytes and its fsync |
| `Arm` | the last look at the directory, then the receipt becomes `ambiguous` before the rename |
| `Replace`, `Sync`, `Verify` | `os.replace`, the directory's fsync, the read-back |
| `FailBefore`, `Then` | an error or the interrupt before, or after, a step's effect |
| `Classify`, `Probed` | the handler: `_probe_atomic_publication` on both names, and what follows from it |
| `Settle` | the identity-bound removal of an unpublished temporary file |
| `Intrude`, `Stop`, `Outage` | outsiders, SIGKILL, power loss |

Abstractions. Objects are the old record, the temporary one and anybody else's. Opening
and hardening the state directory, the encoding and the descriptors' cleanup
(`DescriptorDrain`) are left out. An object whose bytes were synced keeps them; any
other may come back from a power loss with none, some or all of them.

### StateRead

`_read_json_from_descriptor`: per attempt two readings of the held file, block by block,
between three `fstat`s (`Begin`, `FstatMiddle`, `FstatAfter`). `generation` is size, mtime
and ctime as one number that every write moves. `Judge`, a step of its own, is the look
at the name and the verdict on what has been read: `Accept`, `TryAgain` or `Refuse`, with
the readings of earlier attempts in `observed`. Outsiders act between any two calls.
Only the properties look at `held` and `named`, what the file has held since the
attempt began, at all and while the canonical name mapped to it, and at `confirmed`, its
generation when `Judge` looked at the name. The file keeps its size, of two blocks: two
are enough for a mixture.

Nothing looks at the name while the file is read. So an outsider who takes the file away
before the first `fstat`, writes it after the last one and then brings it back makes the
code accept bytes the name never stood for in that attempt. `NoTornRecord` says of every
other case that the record is a version of the name's, and of this one that it is what
the held file was at one moment. The tool's own writers never write in place.

### DescriptorDrain

`_drain_descriptor_owners` and `_DescriptorState.close` with `_close_once`. `slot` is
what a number refers to in the kernel: the owner's file, nothing, or, after the kernel
has given it away, another file. `disposition` and `receiptError` are the close receipt.

| Action | Code |
| --- | --- |
| `Turn`, `Return`, `InterruptPass` | the drain's passes over the owners: an owner's close is dispatched up to twice, a pass up to twice |
| `Enter`, `Tail`, `InterruptTurn` | the lines of `close` outside its own handler |
| `Arm`, `Disarm`, `Call`, `Prove`, `InterruptClose` | `_close_once`: the receipt says "unproved" and the number is forgotten before `os.close` |
| `Reuse` | the kernel gives a free number away |

`NobodyForgotten` is for the one interrupt the code covers. `FirstErrorKept` names the one
exception the code has: an interrupt that arrives while `close` is reporting a failed
close is reported in its place.

### SnapshotLock

`codex_snapshot_lock.py`, for several `Jobs`. `root` and `leaf` are the directory the
canonical path names and the inode named `snapshot.lock` in each directory; `flocked`
says whose open file description holds an inode's flock; `live` which processes hold that
description (the script, an archiver it started). A job goes twice through the same
checks, first in the wrapper (`stage` = `acquire`), then in the script it execs (`verify`).

| Action | Code |
| --- | --- |
| `Start`, `StartClaimingLock` | the wrapper; the script started with `--snapshot-lock-held` and any file, or none, as fd 9 |
| `OpenRoot`, `HardenRoot`, `OpenLeaf`, `Check` | the open calls and the looks at both names before the flock |
| `Flock`, `Confirm`, `Refuse` | `LOCK_EX \| LOCK_NB`, the look at both names under it, exec or work; status 70 |
| `StartArchiver`, `ArchiverEnds`, `Finish`, `Stop` | the children that inherit the descriptor, exits and kills |
| `ReplaceLeaf`, `MoveRoot` | outsiders |

`Confirm` is the last look and the start of work in one step: a replacement between the two
is outside what `scripts/README.md:58` promises. Modes, owners and link counts of a leaf
are one property, `Unsafe`. A flock is bound to the description, which no two jobs share.

### SnapshotDaily

`codex_snapshot_daily.sh` as an extension of `SnapshotLock`: every step of the script
happens while its job is at `work`, and `RunPipeline` is `StartArchiver`. `staging` and
`publish` are each run's `TMP_OUT` and `PUBLISH_OUT`, `final` the archive of the day.

| Action | Code |
| --- | --- |
| `NothingToDo`, `ClearStaging` | no source directory; `remove_old_zstd_staging_files` |
| `RunPipeline`, `PipelineEnds` | `tar \| zstd` under `pipefail`; without its script nobody looks at the status |
| `CopyOut`, `Rename`, `GiveUp`, `Tidy` | `copy_snapshot_to_publish_tmp`, `publish_snapshot` with its bounded retries |
| `Exit`, `Terminated`, `Trap` | the `EXIT` trap, also on a signal; `Killed` runs none |

The zstd job of one day; the gzip job differs by not clearing the staging directory.
Temporary names carry the PID, so runs never share them. The identity checks on the
staging directory, the validation of the trees and the configuration are left out.

### MirrorCopy

`sync-one` of `codex_rollout_mirror_copy.py`, and `validate-receipt` as the operator
`ReceiptValid`. `src` and `srcHere` are the source object and whether its path still
names it; `dest` what the mirror name refers to; `cand` the staged candidate. `high` is
the size and generation of the source last seen, which only grows.

| Action | Code |
| --- | --- |
| `BindSource`, `BindDestination`, `CreateStage` | `_bind_source`, `_bind_destination`, the private stage |
| `Clone`, `Copy`, `Staged`, `Trim`, `Sync` | `_create_candidate` with its fallback, the cut after the last complete line, fsync |
| `Enter`, `Compare`, `CompareRest`, `After`, `Terminal` | `_require_source_prefix`, one call; `back` is where it returns to |
| `Decide`, `Retain`, `Retire`, `Retired` | the sync that has nothing to publish |
| `Publish`, `Rename`, `Tidy` | `publish_staged_name` with its authorization and validation |
| `Orient`, `CleanUp`, `Close`, `Receipt` | `_orient_publish_failure`, `_cleanup_stage`, the receipt |
| `Fail`, `Stop` | a call that fails; a kill |
| `Grow`, `Rewrite`, `Archive`, `Intrude` | Codex and outsiders |

Abstractions. Bytes are line feeds or text. Policies, ACLs and parent directories are
folded into whether a name maps to the object held. A copy may mix the source at two
instants, and the comparison reads it at two. What happens between the last check of
the destination and the `rename` call is excluded, as the module's docstring (3-11)
excludes it. Asynchronous interrupts are left to `DescriptorDrain`.

### MirrorMaintenance

`sync_codex_rollout_mirror` of `codex_rollout_mirror_common.sh`, for one rollout that
Codex appends to, moves between places, deletes and, once, rewrites. `mirror` is the
size of the copy at each path, in half lines; `sources` and `mirrors` are the two
inventories, old by the time they are used.

| Action | Code |
| --- | --- |
| `FindSources`, `FindMirrors` | the `find` over each root and the mirror |
| `TakeRollout`, `Stat` | the stale copies of the entry, to relocate or to prune; whether a refresh is needed |
| `Copy`, `CopyFails` | the helper and its receipt: what `MirrorCopy` promises, in one step |
| `Relocate`, `Prune`, `RemoveCopy` | removal, plain or only of an equal copy |
| `Ends` | an inventory or a removal that fails, or a kill: status 1 |

The lists it writes for a caller have no reader in the repository and are left out, as
is the removal of empty directories. A rewritten rollout is an unfinished first line
and grows no more: the smallest source the helper has nothing to publish from.
`MCMirrorMaintenance` gives it three places.

### Proof modules

`RepairTransactionProofs`, `RepairCommandsProofs`, `StateWriteProofs`, `StateReadProofs`,
`SnapshotDailyProofs` (the lock and the job), `DescriptorDrainProofs`, `MirrorCopyProofs`
and `MirrorMaintenanceProofs` hold the theorems of section 5. The type invariants of
`SnapshotDaily`, `StateWrite`, `StateRead`, `DescriptorDrain` and `MirrorMaintenance` are
theorems and therefore no run's property.

## 4. Runs

`tlc -config X.cfg M` in this directory.

| Run | Bounds | Shows |
| --- | --- | --- |
| `RepairStops.cfg` | 3 stops, 2 faults, stops also before an fsync, no power loss | records explain the namespace at each step (`RecordsExplainNames`); no unverified clone under the mirror name (`MirrorKeepsBytes`); the retry obligation; implementation of the promise; every transaction settles |
| `RepairOutages.cfg` | 2 power losses, 2 stops (only with the namespace fsynced), 1 fault | records explain every namespace a power loss can leave (`RecordsExplainOutage`); promise and settlement hold across power losses |
| `RepairUnfenced.cfg` | 1 stop before an fsync, 1 power loss, 1 fault | violation of `RolledBackShowsOriginal`, see findings |
| `RepairObligation.cfg` | 1 fault | violation of `DocumentedObligation`, see findings |
| `RepairCommands.cfg` | 2 rollouts, 1 stop, 1 fault, 1 change of a pair, any initial queue | at most one rollout has a record (`OneTransaction`); the rewrite at the end of a command changes nothing (`RewriteChangesNothing`); no obligation is lost (`NoObligationLost`); retries drain the queue (`Drains`) |
| `SnapshotDaily.cfg` | 2 runs, lock files `i1`, `i2` and an unsafe one, 2 directories, 2 replacements, 1 kill or signal, 2 renames | never two at work under untouched names (`MutualExclusion`); work only under the named lock; no part of an archive published (`PublishedWhole`); one staging file, leftovers included; a live run's file is never cleared; a finished archive is kept; competing runs do not all fail (`SomeoneWorks`) |
| `StateWrite.cfg` | 2 failing calls, 1 interrupt, 2 intrusions, any number of power losses | the name never shows a part of a record (`WholeOrBefore`); the answer stays true (`AnswerTrue`); no leftover; implementation of the register (`KeepsPromise`) |
| `StateRead.cfg` | 2 values of a block, 3 attempts as in the code, 4 writes or renames | no mixture of versions is accepted, nor, but for a write after the last `fstat`, one the name never stood for (`NoTornRecord`); rewriting the same bytes is tolerated (`ToleratesTouch`) |
| `DescriptorDrain.cfg` | 3 owners, 2 failing closes, 1 interrupt | no number is closed after it was given away; no owner is forgotten; the first error is reported |
| `MirrorCopy.cfg` | source of 2 bytes, 2 changes of it, 2 runs, 1 fault or kill, 1 intruder, 1 mirror changing while bound, 2 attempts (3 in the code) | what is published was a prefix of the source at one moment (`ValidatedPrefix`), is durable and whole lines; the mirror never loses a line; receipts tell the truth and are accepted; nothing is left behind; an undisturbed sync catches up |
| `MirrorReceipt.cfg` | source of 1 byte, a mirror that changes while the second run binds it | violation of `DeferralAccepted`, see findings |
| `MirrorMaintenance.cfg` | 3 places, 4 half lines, 2 moves, 1 rewrite, 3 runs, 1 fault | no step takes lines from the backup (`NothingLost`); an undisturbed sync leaves one full copy (`CalmSyncConverges`) |

Two rollouts are enough for one to be settled while the other waits in the copy of the
queue, and for evidence of one to block the other; commands are not bounded.

Three stops let recovery be interrupted twice, which reaches each phase from
each earlier one; two faults let a compensation fail and be followed by another
transaction's. The rollout may be repaired any number of times: nothing bounds `Begin`.
`CHECK_DEADLOCK FALSE` because the tool really stops for good on a FAILED manifest or a
clone whose bytes no record vouches for.

The bounds of the others. Two runs of the daily job and two replacements let the lock's
name lead to another file and back between the checks of one run while the other holds the
first file; the kill leaves an orphaned pipeline. Two errors and an interrupt let
`StateWrite`'s rename, its probe and its cleanup all go wrong in one write. Four
intrusions disturb each of the three attempts of a read and leave one for the name. Three
owners put one before and one after the owner whose close goes wrong. In `MirrorCopy` an
empty file that grows twice uses up the two attempts to compare it (its sync has no line
to publish), and one that holds a line grows during the first and is compared again; the
second run meets what the first left, or a mirror it has to extend. In `MirrorMaintenance`
two moves between three places let both inventories be old, and three syncs let one clean
up after one that failed. `MirrorReceipt.cfg` has the code's three attempts.
`CHECK_DEADLOCK FALSE` in these runs because what they model comes to its end.

Fairness (`FairSpec`): weak fairness of the union of the process's own steps and of the
start of recovery. The process is sequential code that calls nothing that blocks for ever,
and the documentation tells the operator to run `recover` or `retry` after every failure;
stops and power losses are bounded by the constants. `Begin`, faults, stops, power losses
and changes of the source are not fair. `NeedsOperator` names the two states in which
every command refuses to go on; both are documented. In `RepairCommands` a running command
goes on (weak fairness of `Run`), and `retry` is run again and again even if other
commands are run between (strong fairness of `StartRetry`, which is enabled only while the
lock is free): that is the operating procedure of the documentation, and what the queue is
for. Which of its steps `repair` takes is not fair. In `SnapshotDaily` each live process
goes on: weak fairness, per run, of the wrapper's steps, of the script's and of the
pipeline's end, which reads a finite tree. Starting a run is not fair. In `StateRead` the
reader goes on, it is one process that never waits. The other specifications state no
fairness; their properties are about steps and final states.

## 5. Proofs

For every value of the constants: their assumptions only say that bounds are numbers, that
there is at least one attempt, owner and root, that the unsafe lock files are some of the
lock files, that a line feed is not a text byte, and that the labels "no one", "no file" and
"no path" are not among the jobs, files and paths. All the theorems listed in
`PROJECT.json` follow the same argument: an invariant that says at each step of the code
what is on disk and what the process knows of it, preserved by every action, and the
property from it.

* `RepairTransactionProofs`. `TypeCorrect`; `RecordsAlwaysExplain`: in the covered
  settings (`Covered`: a process never stops before an fsync, or there is no power loss)
  `IInv` always holds. It has three parts: `Synced`, which steps may find an unsynced
  namespace; `Position`, for each step which records and which names it finds; and
  `RecordsExplainPossible`, that each namespace the next process can find is one its
  records explain. The last one is the property; alone it is not inductive, because what a
  step does to `names` is only right for the record `Position` says is published, and what
  a power loss restores is only right if `Synced` says when. `NamesExplained` and
  `OutagesExplained` follow, and with `QueueOwed` (what an abandoned repair owes the queue)
  `TransactionKeepsPromise`: every step is one of `RepairPromise` or a stutter (`Moves`).
  `Covered` is needed: `RepairUnfenced.cfg` is the counterexample without it, to the
  promise too, since the power loss there brings the clone back after the rollback.

  Two theorems need no such setting: `MirrorBytes`, that not even then the clone shown
  has other bytes than those inspected, and `ObligationKept`. They rest on `LooseInv`
  (`LooseAlways`), which lets a power loss undo a swap under COMMIT_READY or ROLLED_BACK
  (`Permits`) and says which steps and records never meet an unsynced namespace (`Settled`).
* `RepairCommandsProofs`. `CommandsTypeCorrect`, `OneAtATime`, `RewriteIsIdle`.
  `Position`: in the phases that classify, and in those that process while no transaction
  is open, nothing has a record. `Copy`: the queue in memory and the file differ in
  nothing the command has not done to both, which makes the rewrite at the end idle.
  `ObligationsKept` adds `Requeued`: when the record of an abandoned transaction goes, its
  rollout is on the queue.
* `StateWriteProofs`. `NeverTorn`, `ReportsTruly`, `CleansUp`, and
  `WriteImplementsRegister`, the whole safety refinement. `Whereabouts`: until the rename
  the canonical name shows the temporary object neither now nor after a power loss, and
  after it the object is whole and flushed. `Position` ties the flags the handler
  classifies by to that. The refinement maps each step to one of the register or to a
  stutter (`Moves`).
* `StateReadProofs`. `NeverMixed`: while the generation an attempt began with is the
  present one, everything it has read is what the file holds (`Faithful`); what the last
  `fstat` finds unmoved was therefore the file's content then, and is still when the name
  is looked at if nobody wrote in between.
* `SnapshotDailyProofs`, first the lock alone: `LockTypeCorrect`, `OneAtWork`,
  `WorksUnderNamedLock`. A job that is `sure` holds the flock of the inode the names lead
  to, and one inode has one holder, however many archivers outlive their scripts.
  `DailyMutualExclusion` and `DailyUnderNamedLock` carry that over to the job, each of
  whose steps is a step of the lock or leaves it alone (`RunsUnderLock`). `ArchiveWhole`:
  what is copied out is complete from the pipeline's end on, for a run that sees it.
  The staging directory: as long as the names are untouched the job at work is there alone
  (`AloneAtWork`, from `Vouched`), so it finds nobody's file between clearing the directory
  and its pipeline (`Staged`). `StagingBounded`, `ClearsNoLiveFile` and
  `FinishedArchiveKept` follow; that a run which tidies up has published (`Staged`) is
  what the last one needs.
* `DescriptorDrainProofs`. `StrikesNobody`: a number is the owner's own as long as the
  receipt says "pending" (`Untouched`). `EveryOwnerTried`, for at most one interrupt: each
  owner the drain has passed has been tried (`Progress`). `FirstFaultReported`, for any
  number of them: the first fault is with the pass or, as long as the pass knows of none,
  in the receipt of the owner being closed (`Kept`).
* `MirrorCopyProofs`. `Inv` is in layers, each resting on the ones before: `Control`,
  where an exception is under way and how far the private stage has come; `Owner`, that
  only this run's rename puts this run's object under the mirror's name; `Oriented`, what
  the helper knows of its own rename; `Sized`, how the sizes it will report hang together;
  `Answered`, what the receipt then says (`Told`) and what each outcome takes (`Concluded`).
  `ReceiptTruthful`, `StageRemoved` and `ReceiptsAccepted` are read off the last one; it is
  not inductive without the others, since a receipt is written from what earlier steps
  left. `PrefixProven` needs `Compared`: while the generation of the source is the one the
  comparison began with, the blocks compared so far agree with it. `WholeLinesPublished`
  needs `Whole`, what is on its way to the name. `MirrorOnlyGrows` needs it too, and
  `Lengthening`: the mirror is a prefix of the candidate and that one of the source.
  `QuietSyncWorks` needs `Peace`, what an undisturbed sync has at each of its steps.
* `MirrorMaintenanceProofs`. `LinesKept`: no copy has more lines than the rollout unless
  that was rewritten (`Backed`), and once the mirror is refreshed no copy has more than
  it, nor is it itself on the list of removals (`Safe`). `CalmSyncsConverge`: the inventory
  of an undisturbed sync holds every copy, and what it has listed for removal is every copy
  but the mirror (`Course`).

Only model-checked: liveness under fairness (`Settles`, `Drains`, `SomeoneWorks`,
`ToleratesTouch`), which is out of the prover's reach, and the disagreements of section 6,
each of which is a counterexample.

## 6. Findings

* **Recovery skips the fence after an interrupted swap back** (`RepairUnfenced.cfg`).
  `_resume_manifest` with ROLLBACK_READY and the original already back publishes
  ROLLED_BACK at once (5315-5320); `_rollback_after_postverify` repeats
  `sync_namespaces` there and says why (4851). A process killed between the swap back and
  its fsync, then a power loss after recovery published ROLLED_BACK, leaves the
  clone under the mirror name with a record that calls it impossible. The same
  missing fence is in the recovery of PREPARED with the clone already in place: it
  publishes COMMIT_READY without syncing first. This is why the runs and theorems
  about power loss exclude stops before an fsync.
* **A safety error before PREPARED leaves no retry entry** (`RepairObligation.cfg`).
  `docs/reflink-repair.md:163` requires the entry to be durable before the last fence is
  deleted whenever the queue is enabled. The code writes it for missing or unstable paths
  only; for other errors the command ends fatally and the rollout is on no queue.
  `RetryObligation` states what the code does guarantee.
* **A deferred receipt that its own validator refuses** (`MirrorReceipt.cfg`). A mirror that
  changes between being identified and being read makes the helper defer
  (`codex_rollout_mirror_copy.py` 1193) with an `old_identity` and no `old_size`;
  `validate-receipt` refuses such a receipt (2650-2653) and the shell takes the refusal for
  status 2 and ends the sync of all rollouts. Line 80 calls it a transient that
  leaves the destination untouched, and the shell (632) would pass over a deferred
  rollout. `ReceiptAccepted` states that every other receipt is accepted.
* An interrupt between the line that forgets a descriptor and `os.close` (repair tool
  1085-1091) leaks that descriptor until the command ends. `docs/reflink-repair.md:76`
  promises an attempt, or a second drain; the code prefers never to close a number twice
  (`NeverStrikesAnother`). No run: the command is ending anyway.
* `docs/reflink-repair.md:141` says the daily snapshot job runs recover, sync and retry;
  the script no longer does (no model involved).

## 7. Not modelled

* Dry runs, `inventory`, the receipts of the repair commands and the lock file below
  `repair_lock`: they change no state the properties tell apart.
* Discovery and pair classification: a scan of two trees, and a comparison of its
  results with a second one. `RepairCommands` takes the class of a pair as an input.
* Opening and hardening the state directory, decoding and validating its records.
* The second implementation of descriptor ownership in the Darwin backend, the guarded
  acquisition and the ACL resources; the drain of the repair tool stands for them.
* Path resolution (`codex_snapshot_path.py`) and tree validation
  (`codex_snapshot_validate_trees.py`): functions of one path or tree, without state.
* The unpin, install and trigger scripts: calls to the file provider and launchctl.
