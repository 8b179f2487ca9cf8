-------------------------- MODULE RepairTransaction --------------------------
(***************************************************************************)
(* One rollout's repair in codex_repair_rollout_reflinks.py: RepairTool's    *)
(* _repair_one, _defer_before_forward, _rollback_after_postverify,           *)
(* _recover_intent and _resume_manifest, with the namespace operations of    *)
(* codex_reflink_darwin.py they call.  The mirror file (the "original") is   *)
(* replaced by a reflink clone of the source: the clone is made in a private *)
(* stage directory, swapped with the mirror name, verified, and then the     *)
(* original is unlinked.  Durable intents and manifests record how far the   *)
(* transaction got; a later command recovers from them.                      *)
(*                                                                           *)
(* A process may stop between any two steps (SIGKILL, or any error that the  *)
(* code answers by exiting with its durable evidence retained), and the host *)
(* may lose power: then every namespace change made after the last fsync of  *)
(* the two parent directories may be gone.  One process runs at a time       *)
(* (repair_lock), and nothing else writes the mirror (the quiet window).     *)
(***************************************************************************)
EXTENDS Naturals, FiniteSets

CONSTANTS
  MaxStops,      \* bound on processes that stop halfway
  MaxOutages,    \* bound on power losses
  MaxFaults,     \* bound on errors the code compensates for itself
  StopUnfenced   \* may a process stop between a namespace change and its fsync?

ASSUME BoundsAssumption == /\ MaxStops \in Nat
                           /\ MaxOutages \in Nat
                           /\ MaxFaults \in Nat
                           /\ StopUnfenced \in BOOLEAN

VARIABLES
  names,       \* what the two names map to, and whether the stage exists
  restorable,  \* the values of names a power loss may leave behind
  intent,      \* state of the durable intent, or "none"
  manifest,    \* phase of the durable manifest, or "none"
  retryable,   \* the manifest's retryable field
  enabled,     \* queue_enabled, recorded in intent and manifest
  queued,      \* is the rollout in retry-queue.json?
  source,      \* the source since it was inspected: same, changed or gone
  exact,       \* does the clone hold the bytes of the inspected source?
  pc, cause,   \* the running process: next step, and why it is undoing
  stops, outages, faults

records == <<intent, manifest, retryable, enabled, queued>>
namespace == <<names, restorable>>
control == <<pc, cause>>
world == <<source, exact>>
bounds == <<stops, outages, faults>>
vars == <<names, restorable, intent, manifest, retryable, enabled, queued,
          source, exact, pc, cause, stops, outages, faults>>

IntentState == {"PLANNED", "STAGE_BOUND", "CLONE_BOUND"}
Phase == {"PREPARED", "COMMIT_READY", "DONE", "ROLLBACK_READY", "ROLLED_BACK",
          "DEFERRED", "FAILED"}
Names == [final : {"original", "clone"}, temp : {"none", "original", "clone"},
          stage : BOOLEAN]
Causes == {"none", "recovered", "unstable", "unsupported", "safety", "retain"}
Steps == {"idle", "make_stage", "bind", "publish_stage", "clone", "check_clone",
          "publish_clone", "revalidate", "publish_prepared", "drop_intent",
          "pre_forward", "swap_forward", "swap_fence", "postverify",
          "publish_commit", "unlink_original", "unlink_clone", "unlink_fence",
          "remove_stage", "stage_fence", "publish_terminal", "settle",
          "delete_manifest", "publish_rollback", "swap_back", "back_fence",
          "publish_rolled_back", "settle_intent", "delete_intent", "drop_queue"}

\* class Orientation: the four mappings recovery knows; any other is impossible.
OriginalFinalCloneTemp(n) == n.final = "original" /\ n.temp = "clone" /\ n.stage
CloneFinalOriginalTemp(n) == n.final = "clone" /\ n.temp = "original" /\ n.stage
CloneFinalTempMissing(n) == n.final = "clone" /\ n.temp = "none"
OriginalFinalTempMissing(n) == n.final = "original" /\ n.temp = "none"

Goto(step) == pc' = step /\ UNCHANGED cause
Undo(step, why) == pc' = step /\ cause' = why

\* A namespace operation: visible at once, durable only after the next fsync.
Mutate(n) == names' = n /\ restorable' = restorable \cup {n}
\* sync_namespaces, or the fsync of the stage's container.
Fence == restorable' = {names} /\ UNCHANGED names
\* Mutant: only the identity of the source is compared.
SameObjectOnly == source # "gone"
\* The full source snapshot (identity, size, digest, policy) is as inspected.
SourceUnchanged == source = "same"
\* renameatx_np(RENAME_SWAP) of the final and the temporary name.
Swapped == [names EXCEPT !.final = names.temp, !.temp = names.final]
------------------------------------------------------------------------------
(* _repair_one up to the durable PREPARED manifest.                          *)

\* The intent is written before anything is created.  The inspection is fresh,
\* and whatever the mirror name holds is the original of this transaction.
Begin ==
  /\ pc = "idle" /\ intent = "none" /\ manifest = "none"
  /\ intent' = "PLANNED"
  /\ enabled' \in BOOLEAN
  /\ names' = [names EXCEPT !.final = "original"]
  /\ restorable' = {[n EXCEPT !.final = "original"] : n \in restorable}
  /\ source' = "same" /\ exact' = FALSE
  /\ Undo("make_stage", "none")
  /\ UNCHANGED <<manifest, retryable, queued, bounds>>

\* create_private_stage: mkdir.
MakeStage ==
  /\ pc = "make_stage"
  /\ Mutate([names EXCEPT !.stage = TRUE])
  /\ Goto("bind")
  /\ UNCHANGED <<records, world, bounds>>

\* prepare: the stage is fsynced; source and mirror must be as inspected.
Bind ==
  /\ pc = "bind"
  /\ Fence
  /\ \/ SourceUnchanged /\ Goto("publish_stage")
     \/ ~SourceUnchanged /\ Undo("remove_stage", "unstable")
  /\ UNCHANGED <<records, world, bounds>>

PublishStageBound ==
  /\ pc = "publish_stage"
  /\ intent' = "STAGE_BOUND"
  /\ Goto("clone")
  /\ UNCHANGED <<manifest, retryable, enabled, queued, namespace, world, bounds>>

\* Mutant: the source is moved into the stage instead of cloned.
CloneMovesSource ==
  /\ pc = "clone"
  /\ Mutate([names EXCEPT !.temp = "source"])
  /\ Goto("check_clone")
  /\ UNCHANGED <<records, world, bounds>>

\* fclonefileat of the held source: a source that grew gives a clone whose
\* bytes are not the inspected ones.
Clone ==
  /\ pc = "clone"
  /\ \/ /\ source # "gone"
        /\ Mutate([names EXCEPT !.temp = "clone"])
        /\ exact' = (source = "same")
        /\ Goto("check_clone")
     \/ /\ source = "gone"
        /\ Undo("remove_stage", "unstable")
        /\ UNCHANGED <<namespace, exact>>
  /\ UNCHANGED <<records, source, bounds>>

\* The clone is fsynced and the source snapshot taken again.
CheckClone ==
  /\ pc = "check_clone"
  /\ Fence
  /\ \/ SourceUnchanged /\ Goto("publish_clone")
     \/ ~SourceUnchanged /\ Undo("unlink_clone", "unstable")
  /\ UNCHANGED <<records, world, bounds>>

PublishCloneBound ==
  /\ pc = "publish_clone"
  /\ intent' = "CLONE_BOUND"
  /\ Goto("revalidate")
  /\ UNCHANGED <<manifest, retryable, enabled, queued, namespace, world, bounds>>

\* revalidate_before_prepared.
Revalidate ==
  /\ pc = "revalidate"
  /\ \/ SourceUnchanged /\ Goto("publish_prepared")
     \/ ~SourceUnchanged /\ Undo("unlink_clone", "unstable")
  /\ UNCHANGED <<records, namespace, world, bounds>>

PublishPrepared ==
  /\ pc = "publish_prepared"
  /\ manifest' = "PREPARED"
  /\ retryable' = FALSE
  /\ Goto("drop_intent")
  /\ UNCHANGED <<intent, enabled, queued, namespace, world, bounds>>

DropIntent ==
  /\ pc = "drop_intent"
  /\ intent' = "none"
  /\ Goto("pre_forward")
  /\ UNCHANGED <<manifest, retryable, enabled, queued, namespace, world, bounds>>
------------------------------------------------------------------------------
(* The forward swap and the commit.                                          *)

\* revalidate_pre_forward; a changed source defers the rollout.
PreForward ==
  /\ pc = "pre_forward"
  /\ OriginalFinalCloneTemp(names)
  /\ \/ SourceUnchanged /\ Goto("swap_forward")
     \/ ~SourceUnchanged /\ Undo("publish_rollback", "unstable")
  /\ UNCHANGED <<records, namespace, world, bounds>>

SwapForward ==
  /\ pc = "swap_forward"
  /\ OriginalFinalCloneTemp(names)
  /\ Mutate(Swapped)
  /\ Goto("swap_fence")
  /\ UNCHANGED <<records, world, bounds>>

\* Mutant: swap_forward returns without syncing the two parents.
SwapWithoutFence ==
  /\ pc = "swap_fence"
  /\ Goto("postverify")
  /\ UNCHANGED <<records, namespace, world, bounds>>

SwapFence ==
  /\ pc = "swap_fence"
  /\ Fence
  /\ Goto("postverify")
  /\ UNCHANGED <<records, world, bounds>>

\* revalidate_forward and postverify: the source is read again after the swap.
Postverify ==
  /\ pc = "postverify"
  /\ CloneFinalOriginalTemp(names)
  /\ \/ SourceUnchanged /\ Goto("publish_commit")
     \/ ~SourceUnchanged /\ Undo("publish_rollback", "unstable")
  /\ UNCHANGED <<records, namespace, world, bounds>>

PublishCommitReady ==
  /\ pc = "publish_commit"
  /\ manifest' = "COMMIT_READY"
  /\ Goto("unlink_original")
  /\ UNCHANGED <<intent, retryable, enabled, queued, namespace, world, bounds>>

\* The clone must survive under the final name when the original goes.
UnlinkOriginal ==
  /\ pc = "unlink_original"
  /\ CloneFinalOriginalTemp(names)
  /\ Mutate([names EXCEPT !.temp = "none"])
  /\ Goto("unlink_fence")
  /\ UNCHANGED <<records, world, bounds>>

\* Mutant: an aborted attempt leaves its empty stage directory.
UnlinkKeepsStage ==
  /\ pc = "unlink_fence"
  /\ Fence
  /\ Goto(IF manifest = "none" THEN "settle_intent" ELSE "remove_stage")
  /\ UNCHANGED <<records, world, bounds>>

UnlinkFence ==
  /\ pc = "unlink_fence"
  /\ Fence
  /\ Goto("remove_stage")
  /\ UNCHANGED <<records, world, bounds>>

\* remove_empty_stage_parent; a stage already gone is accepted.
RemoveStage ==
  /\ pc = "remove_stage"
  /\ names.temp = "none"
  /\ Mutate([names EXCEPT !.stage = FALSE])
  /\ Goto("stage_fence")
  /\ UNCHANGED <<records, world, bounds>>

\* The container is fsynced.  A failed prepare keeps its PLANNED intent.
StageFence ==
  /\ pc = "stage_fence"
  /\ Fence
  /\ Goto(IF manifest # "none" THEN "publish_terminal"
          ELSE IF cause = "retain" THEN "idle" ELSE "settle_intent")
  /\ UNCHANGED <<records, world, bounds>>

\* FAILED keeps its manifest and ends the command with a fatal error.
PublishTerminal ==
  /\ pc = "publish_terminal"
  /\ \/ manifest = "COMMIT_READY" /\ manifest' = "DONE"
     \/ manifest = "ROLLED_BACK" /\ manifest' = IF retryable THEN "DEFERRED" ELSE "FAILED"
  /\ Goto(IF manifest' = "FAILED" THEN "idle" ELSE "settle")
  /\ UNCHANGED <<intent, retryable, enabled, queued, namespace, world, bounds>>

\* The queue is brought up to date before the last fence goes.
Settle ==
  /\ pc = "settle"
  /\ queued' = IF enabled THEN manifest = "DEFERRED" ELSE queued
  /\ Goto("delete_manifest")
  /\ UNCHANGED <<intent, manifest, retryable, enabled, namespace, world, bounds>>

DeleteManifest ==
  /\ pc = "delete_manifest"
  /\ manifest' = "none"
  /\ Goto("idle")
  /\ UNCHANGED <<intent, retryable, enabled, queued, namespace, world, bounds>>
------------------------------------------------------------------------------
(* Undoing: before PREPARED (abort_before_prepared), before the swap          *)
(* (_defer_before_forward) and after it (_rollback_after_postverify).         *)

PublishRollbackReady ==
  /\ pc = "publish_rollback"
  /\ manifest' = "ROLLBACK_READY"
  /\ retryable' = (cause = "unstable")
  /\ \/ OriginalFinalCloneTemp(names) /\ Goto("publish_rolled_back")
     \/ CloneFinalOriginalTemp(names) /\ Goto("swap_back")
  /\ UNCHANGED <<intent, enabled, queued, namespace, world, bounds>>

SwapBack ==
  /\ pc = "swap_back"
  /\ CloneFinalOriginalTemp(names)
  /\ Mutate(Swapped)
  /\ Goto("back_fence")
  /\ UNCHANGED <<records, world, bounds>>

BackFence ==
  /\ pc = "back_fence"
  /\ Fence
  /\ Goto("publish_rolled_back")
  /\ UNCHANGED <<records, world, bounds>>

PublishRolledBack ==
  /\ pc = "publish_rolled_back"
  /\ manifest' = "ROLLED_BACK"
  /\ Goto("unlink_clone")
  /\ UNCHANGED <<intent, retryable, enabled, queued, namespace, world, bounds>>

\* The original must survive under the final name when the clone goes.
UnlinkClone ==
  /\ pc = "unlink_clone"
  /\ OriginalFinalCloneTemp(names)
  /\ Mutate([names EXCEPT !.temp = "none"])
  /\ Goto("unlink_fence")
  /\ UNCHANGED <<records, world, bounds>>

\* Mutant: only an unstable failure queues the rollout, a recovered intent not.
RecoveredIntentForgotten ==
  /\ pc = "settle_intent"
  /\ queued' = (queued \/ (enabled /\ cause = "unstable"))
  /\ Goto("delete_intent")
  /\ UNCHANGED <<intent, manifest, retryable, enabled, namespace, world, bounds>>

\* finish_safe_prepared_failure and _recover_intent: an unstable pair and a
\* recovered intent are queued before the intent is deleted.
SettleIntent ==
  /\ pc = "settle_intent"
  /\ queued' = (queued \/ (enabled /\ cause \in {"unstable", "recovered"}))
  /\ Goto("delete_intent")
  /\ UNCHANGED <<intent, manifest, retryable, enabled, namespace, world, bounds>>

DeleteIntent ==
  /\ pc = "delete_intent"
  /\ intent' = "none"
  /\ Goto(IF cause = "unsupported" THEN "drop_queue" ELSE "idle")
  /\ UNCHANGED <<manifest, retryable, enabled, queued, namespace, world, bounds>>

\* The command takes a CandidateUnsupportedError off the queue.
DropQueue ==
  /\ pc = "drop_queue"
  /\ queued' = (queued /\ ~enabled)
  /\ Goto("idle")
  /\ UNCHANGED <<intent, manifest, retryable, enabled, namespace, world, bounds>>
------------------------------------------------------------------------------
(* Recovery, which every command runs first (_recover_all).                  *)

\* An intent whose PREPARED manifest exists is only dropped.
RecoverCoveredIntent ==
  /\ pc = "idle" /\ intent = "CLONE_BOUND" /\ manifest # "none"
  /\ intent' = "none"
  /\ UNCHANGED <<manifest, retryable, enabled, queued, namespace, control, world, bounds>>

\* cleanup_intent_stage accepts an absent or empty stage, or the one clone the
\* intent permits and whose bytes are the recorded ones; the original must be
\* in place.  Anything else stops the command and keeps the evidence.
RecoverIntent ==
  /\ pc = "idle" /\ intent # "none" /\ manifest = "none"
  /\ intent # "PLANNED" => names.final = "original"
  /\ \/ names.temp = "clone" /\ intent # "PLANNED" /\ exact /\ Undo("unlink_clone", "recovered")
     \/ names.temp = "none" /\ names.stage /\ Undo("remove_stage", "recovered")
     \/ ~names.stage /\ Undo("stage_fence", "recovered")
  /\ UNCHANGED <<records, namespace, world, bounds>>

\* PREPARED: finish the swap or verify it, unless the source has gone.
RecoverPrepared ==
  /\ pc = "idle" /\ intent = "none" /\ manifest = "PREPARED"
  /\ OriginalFinalCloneTemp(names) \/ CloneFinalOriginalTemp(names)
  /\ IF source = "gone" THEN Undo("publish_rollback", "unstable")
     ELSE Goto(IF OriginalFinalCloneTemp(names) THEN "pre_forward" ELSE "postverify")
  /\ UNCHANGED <<records, namespace, world, bounds>>

\* Mutant: a commit is rolled back when the source has gone since.
CommitReadyRolledBack ==
  /\ pc = "idle" /\ intent = "none" /\ manifest = "COMMIT_READY"
  /\ \/ /\ CloneFinalOriginalTemp(names)
        /\ Goto(IF source = "gone" THEN "swap_back" ELSE "unlink_original")
     \/ CloneFinalTempMissing(names) /\ Goto("unlink_fence")
  /\ UNCHANGED <<records, namespace, world, bounds>>

RecoverCommitReady ==
  /\ pc = "idle" /\ intent = "none" /\ manifest = "COMMIT_READY"
  /\ \/ CloneFinalOriginalTemp(names) /\ Goto("unlink_original")
     \/ CloneFinalTempMissing(names) /\ Goto("unlink_fence")
  /\ UNCHANGED <<records, namespace, world, bounds>>

\* Mutant: recovery of ROLLBACK_READY always expects to swap.
RollbackReadyAlwaysSwaps ==
  /\ pc = "idle" /\ intent = "none" /\ manifest = "ROLLBACK_READY"
  /\ CloneFinalOriginalTemp(names) /\ Goto("swap_back")
  /\ UNCHANGED <<records, namespace, world, bounds>>

\* With the original already back, ROLLED_BACK is published at once.
RecoverRollbackReady ==
  /\ pc = "idle" /\ intent = "none" /\ manifest = "ROLLBACK_READY"
  /\ \/ CloneFinalOriginalTemp(names) /\ Goto("swap_back")
     \/ OriginalFinalCloneTemp(names) /\ Goto("publish_rolled_back")
  /\ UNCHANGED <<records, namespace, world, bounds>>

\* Mutant: recovery of ROLLED_BACK always expects a clone to unlink.
RolledBackAlwaysUnlinks ==
  /\ pc = "idle" /\ intent = "none" /\ manifest = "ROLLED_BACK"
  /\ OriginalFinalCloneTemp(names) /\ Goto("unlink_clone")
  /\ UNCHANGED <<records, namespace, world, bounds>>

RecoverRolledBack ==
  /\ pc = "idle" /\ intent = "none" /\ manifest = "ROLLED_BACK"
  /\ \/ OriginalFinalCloneTemp(names) /\ Goto("unlink_clone")
     \/ OriginalFinalTempMissing(names) /\ Goto("unlink_fence")
  /\ UNCHANGED <<records, namespace, world, bounds>>

\* DONE and DEFERRED only settle the queue; FAILED is refused for ever.
RecoverTerminal ==
  /\ pc = "idle" /\ intent = "none" /\ manifest \in {"DONE", "DEFERRED"}
  /\ Goto("settle")
  /\ UNCHANGED <<records, namespace, world, bounds>>
------------------------------------------------------------------------------
(* The environment.                                                          *)

\* Errors the code compensates for itself; all others are a Stop.
\* At bind, prepare has removed its stage: only an unsupported pair goes on to
\* delete the intent.  An intent or PREPARED that was provably not published
\* aborts the attempt.  An error after the fenced swap rolls back: an
\* unstable one from swap_forward's own check, any one from postverify.
Fault ==
  /\ faults < MaxFaults /\ faults' = faults + 1
  /\ \/ pc = "bind" /\ Undo("remove_stage", "retain")
     \/ pc \in {"bind", "clone"} /\ Undo("remove_stage", "unsupported")
     \/ pc \in {"publish_stage", "clone"} /\ Undo("remove_stage", "safety")
     \/ /\ pc \in {"check_clone", "publish_clone", "revalidate", "publish_prepared"}
        /\ Undo("unlink_clone", "safety")
     \/ pc = "postverify" /\ \E why \in {"unstable", "safety"} : Undo("publish_rollback", why)
  /\ UNCHANGED <<records, namespace, world, stops, outages>>

\* SIGKILL, or a fatal error that retains the durable evidence.
Stop ==
  /\ stops < MaxStops /\ stops' = stops + 1
  /\ pc # "idle"
  /\ StopUnfenced \/ restorable = {names}
  /\ Undo("idle", "none")
  /\ UNCHANGED <<records, namespace, world, outages, faults>>

\* The bytes of a clone are forced to disk just before CLONE_BOUND.
Outage ==
  /\ outages < MaxOutages /\ outages' = outages + 1
  /\ names' \in restorable
  /\ restorable' = {names'}
  /\ exact' \in {exact, exact /\ intent # "STAGE_BOUND"}
  /\ Undo("idle", "none")
  /\ UNCHANGED <<records, source, stops, faults>>

\* Codex appends to a live rollout, or moves it to the archive.
SourceChanges ==
  /\ \/ source = "same" /\ source' = "changed"
     \/ source # "gone" /\ source' = "gone"
  /\ UNCHANGED <<records, namespace, control, exact, bounds>>
------------------------------------------------------------------------------
Init ==
  /\ names \in [final : {"original", "clone"}, temp : {"none"}, stage : {FALSE}]
  /\ restorable = {names}
  /\ intent = "none" /\ manifest = "none"
  /\ retryable = FALSE /\ enabled = FALSE /\ queued \in BOOLEAN
  /\ source = "same" /\ exact = FALSE
  /\ pc = "idle" /\ cause = "none"
  /\ stops = 0 /\ outages = 0 /\ faults = 0

Attempt == MakeStage \/ Bind \/ PublishStageBound \/ Clone \/ CheckClone
           \/ PublishCloneBound \/ Revalidate \/ PublishPrepared \/ DropIntent

Commit == PreForward \/ SwapForward \/ SwapFence \/ Postverify
          \/ PublishCommitReady \/ UnlinkOriginal \/ UnlinkFence \/ RemoveStage
          \/ StageFence \/ PublishTerminal \/ Settle \/ DeleteManifest

Rollback == PublishRollbackReady \/ SwapBack \/ BackFence \/ PublishRolledBack
            \/ UnlinkClone \/ SettleIntent \/ DeleteIntent \/ DropQueue

Recover == RecoverCoveredIntent \/ RecoverIntent \/ RecoverPrepared
           \/ RecoverCommitReady \/ RecoverRollbackReady \/ RecoverRolledBack
           \/ RecoverTerminal

Environment == Fault \/ Stop \/ Outage \/ SourceChanges

Next == Begin \/ Attempt \/ Commit \/ Rollback \/ Recover \/ Environment

Spec == Init /\ [][Next]_vars

\* A running command goes on, and after a stop somebody runs a command again.
FairSpec == Spec /\ WF_vars(Attempt \/ Commit \/ Rollback \/ Recover)
------------------------------------------------------------------------------
TypeOK ==
  /\ names \in Names
  /\ restorable \in SUBSET Names
  /\ intent \in IntentState \cup {"none"}
  /\ manifest \in Phase \cup {"none"}
  /\ retryable \in BOOLEAN /\ enabled \in BOOLEAN /\ queued \in BOOLEAN
  /\ source \in {"same", "changed", "gone"} /\ exact \in BOOLEAN
  /\ pc \in Steps /\ cause \in Causes
  /\ stops \in 0..MaxStops /\ outages \in 0..MaxOutages /\ faults \in 0..MaxFaults

Open == intent # "none" \/ manifest # "none"

\* The namespaces each durable record allows: recovery finds none impossible.
Explains(n) ==
  /\ ~Open => n.temp = "none" /\ ~n.stage
  /\ intent # "none" /\ manifest = "none" =>
       n.final = "original" /\ n.temp \in {"none", "clone"} /\ (n.temp = "clone" => n.stage)
  /\ intent = "PLANNED" => n.temp = "none"
  /\ intent # "none" /\ manifest # "none" => intent = "CLONE_BOUND" /\ manifest = "PREPARED"
  /\ manifest \in {"PREPARED", "ROLLBACK_READY"} =>
       OriginalFinalCloneTemp(n) \/ CloneFinalOriginalTemp(n)
  /\ manifest = "COMMIT_READY" => CloneFinalOriginalTemp(n) \/ CloneFinalTempMissing(n)
  /\ manifest = "ROLLED_BACK" => OriginalFinalCloneTemp(n) \/ OriginalFinalTempMissing(n)
  /\ manifest = "DONE" => CloneFinalTempMissing(n) /\ ~n.stage
  /\ manifest \in {"DEFERRED", "FAILED"} => OriginalFinalTempMissing(n) /\ ~n.stage

\* At every step of every process the durable records explain the namespace:
\* no stage is unreferenced, both objects keep a name until a decision is
\* durable, and the survivor of an unlink is under the mirror name.
RecordsExplainNames == Explains(names)

\* The same of every namespace a power loss could leave: each record is
\* published only after the namespace it relies on has been fsynced.
RecordsExplainOutage == \A n \in restorable : Explains(n)

\* The mirror name never shows a clone with other bytes than those inspected.
MirrorKeepsBytes ==
  Open => \A n \in restorable : n.final = "clone" => exact

\* A transaction that uses the queue and does not commit leaves the rollout
\* queued when its last record goes, unless the pair is unsupported or the
\* command reports the failure as fatal; one that commits takes it off.
RetryObligation ==
  [][Open /\ ~Open' /\ enabled =>
       IF names.final = "clone" THEN ~queued
       ELSE queued \/ cause \in {"unsupported", "safety"}]_vars

\* docs/reflink-repair.md:163, taken literally: whenever the queue is enabled the
\* retry entry is durable before the last intent or manifest is deleted (an
\* unsupported pair is never queued, line 66).
DocumentedObligation ==
  [][Open /\ ~Open' /\ enabled /\ names.final = "original" =>
       queued \/ cause = "unsupported"]_vars

\* "Repeating this fence is safe and closes the window where the swap returned
\* but its directory durability was interrupted": a ROLLED_BACK manifest never
\* meets the clone under the mirror name, whatever was interrupted before.
RolledBackShowsOriginal == manifest = "ROLLED_BACK" => names.final = "original"

\* How far the durable records have decided the transaction.
Decision ==
  CASE manifest \in {"COMMIT_READY", "DONE"} -> "commit"
    [] manifest \in {"ROLLBACK_READY", "ROLLED_BACK", "DEFERRED", "FAILED"} -> "rollback"
    [] manifest = "PREPARED" -> "open"
    [] OTHER -> IF intent # "none" THEN "open" ELSE "none"

\* What RepairPromise promises of the mirror name and the retry queue.
Promise == INSTANCE RepairPromise WITH final <- names.final, decision <- Decision
KeepsPromise == Promise!Spec

\* The states in which every command refuses to go on, as documented: a safety
\* failure after the swap, and a clone whose bytes nothing durable vouches for.
NeedsOperator ==
  \/ manifest = "FAILED"
  \/ intent = "STAGE_BOUND" /\ names.temp = "clone" /\ ~exact

\* However often it is stopped, a transaction is finished by recovery.
Settles == Open ~> (~Open \/ NeedsOperator)
==============================================================================
