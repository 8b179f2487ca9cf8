----------------------- MODULE RepairTransactionProofs -----------------------
(***************************************************************************)
(* Proofs about RepairTransaction, for every bound on stops, power losses   *)
(* and faults.                                                               *)
(***************************************************************************)
EXTENDS RepairTransaction, TLAPS

\* The combinations in which recovery is sound: a process never stops between
\* a namespace change and its fsync, or the host never loses power.
Covered == ~StopUnfenced \/ MaxOutages = 0

\* The steps before which a namespace change may await its fsync.
Unsynced == {"bind", "check_clone", "swap_fence", "unlink_fence", "stage_fence",
             "back_fence", "remove_stage", "unlink_clone"}

\* The namespaces the next process can find.
Possible == IF StopUnfenced THEN {names} ELSE restorable

Synced == /\ names \in restorable
          /\ ~StopUnfenced /\ pc \notin Unsynced => restorable = {names}

RecordsExplainPossible == \A n \in Possible : Explains(n)

IntentOnly == intent # "none" /\ manifest = "none"
ManifestOnly(phase) == intent = "none" /\ manifest = phase
Cleared(n) == n.temp = "none" /\ ~n.stage

\* What holds when the running process is at a step.
Position ==
  /\ pc = "make_stage" => IntentOnly /\ intent = "PLANNED" /\ Cleared(names)
  /\ pc \in {"bind", "publish_stage"} =>
       IntentOnly /\ intent = "PLANNED" /\ names.temp = "none"
  /\ pc \in {"bind", "publish_stage", "clone"} => names.stage
  /\ pc = "clone" => IntentOnly /\ intent = "STAGE_BOUND" /\ names.temp = "none"
  /\ pc \in {"check_clone", "publish_clone"} =>
       IntentOnly /\ intent = "STAGE_BOUND" /\ OriginalFinalCloneTemp(names)
  /\ pc \in {"revalidate", "publish_prepared"} =>
       IntentOnly /\ intent = "CLONE_BOUND" /\ OriginalFinalCloneTemp(names)
  /\ pc = "drop_intent" =>
       intent = "CLONE_BOUND" /\ manifest = "PREPARED" /\ OriginalFinalCloneTemp(names)
  /\ pc \in {"pre_forward", "swap_forward"} =>
       ManifestOnly("PREPARED") /\ OriginalFinalCloneTemp(names)
  /\ pc \in {"swap_fence", "postverify", "publish_commit"} =>
       ManifestOnly("PREPARED") /\ CloneFinalOriginalTemp(names)
  /\ pc = "unlink_original" => ManifestOnly("COMMIT_READY") /\ CloneFinalOriginalTemp(names)
  /\ pc = "unlink_clone" =>
       OriginalFinalCloneTemp(names) /\
       (ManifestOnly("ROLLED_BACK") \/ (IntentOnly /\ intent # "PLANNED"))
  /\ pc \in {"unlink_fence", "remove_stage", "stage_fence"} =>
       names.temp = "none" /\
       (ManifestOnly("COMMIT_READY") \/ ManifestOnly("ROLLED_BACK") \/ IntentOnly)
  /\ pc = "stage_fence" => ~names.stage
  /\ pc = "publish_terminal" =>
       Cleared(names) /\ (ManifestOnly("COMMIT_READY") \/ ManifestOnly("ROLLED_BACK"))
  /\ pc \in {"settle", "delete_manifest"} => ManifestOnly("DONE") \/ ManifestOnly("DEFERRED")
  /\ pc = "publish_rollback" => ManifestOnly("PREPARED")
  /\ pc = "swap_back" => ManifestOnly("ROLLBACK_READY") /\ CloneFinalOriginalTemp(names)
  /\ pc \in {"back_fence", "publish_rolled_back"} =>
       ManifestOnly("ROLLBACK_READY") /\ OriginalFinalCloneTemp(names)
  /\ pc \in {"settle_intent", "delete_intent"} => IntentOnly /\ Cleared(names)
  /\ pc = "drop_queue" => ~Open

IInv == Synced /\ RecordsExplainPossible /\ Position

\* In every setting: what the records permit of a namespace when a power loss may
\* also undo a swap whose fsync recovery has not repeated, and the steps and records
\* that never meet a namespace change to be fsynced.
Permits(n) ==
  \/ Explains(n)
  \/ ManifestOnly("COMMIT_READY") /\ OriginalFinalCloneTemp(n)
  \/ ManifestOnly("ROLLED_BACK") /\ CloneFinalOriginalTemp(n)
Fenced == {"publish_clone", "revalidate", "publish_prepared", "publish_terminal",
           "settle_intent", "delete_intent"}
Settled ==
  pc \in Fenced \/ ~Open \/ manifest \in {"DONE", "DEFERRED", "FAILED"} => restorable = {names}

LooseInv ==
  names \in restorable /\ Settled /\ (\A n \in restorable : Permits(n)) /\ Position
------------------------------------------------------------------------------
(* Type correctness, in the parts the provers take one at a time.            *)

Counted == stops \in 0..MaxStops /\ outages \in 0..MaxOutages /\ faults \in 0..MaxFaults
Flags == retryable \in BOOLEAN /\ enabled \in BOOLEAN /\ queued \in BOOLEAN /\ exact \in BOOLEAN
Spaces == names \in Names /\ restorable \in SUBSET Names
Labels == /\ intent \in IntentState \cup {"none"} /\ manifest \in Phase \cup {"none"}
          /\ source \in {"same", "changed", "gone"} /\ pc \in Steps /\ cause \in Causes

\* No step exceeds its bound.
LEMMA CountedStep == Counted /\ [Next]_vars => Counted'
<1> USE BoundsAssumption DEF Counted, bounds
<1>1. Counted /\ Environment => Counted'
  BY DEF Environment, Fault, Stop, Outage, SourceChanges
<1>2. [Next]_vars => Environment \/ UNCHANGED bounds
  BY DEF Next, Begin, Attempt, MakeStage, Bind, PublishStageBound, Clone, CheckClone,
         PublishCloneBound, Revalidate, PublishPrepared, DropIntent,
         Commit, PreForward, SwapForward, SwapFence, Postverify, PublishCommitReady,
         UnlinkOriginal, UnlinkFence, RemoveStage, StageFence, PublishTerminal,
         Settle, DeleteManifest,
         Rollback, PublishRollbackReady, SwapBack, BackFence, PublishRolledBack,
         UnlinkClone, SettleIntent, DeleteIntent, DropQueue,
         Recover, RecoverCoveredIntent, RecoverIntent, RecoverPrepared, RecoverCommitReady,
         RecoverRollbackReady, RecoverRolledBack, RecoverTerminal, vars
<1> QED
  BY <1>1, <1>2

\* A swap in particular never leaves the mirror name without an object.
LEMMA SpacesStep == Spaces /\ [Next]_vars => Spaces'
<1> USE DEF Spaces, Names, namespace, Mutate, Fence
<1>1. Spaces /\ Begin => Spaces'
  BY DEF Begin
<1>2. Spaces /\ Attempt => Spaces'
  BY DEF Attempt, MakeStage, Bind, PublishStageBound, Clone, CheckClone,
         PublishCloneBound, Revalidate, PublishPrepared, DropIntent
<1>3. Spaces /\ Commit => Spaces'
  BY DEF Commit, PreForward, SwapForward, SwapFence, Postverify, PublishCommitReady,
         UnlinkOriginal, UnlinkFence, RemoveStage, StageFence, PublishTerminal,
         Settle, DeleteManifest, Swapped, OriginalFinalCloneTemp
<1>4. Spaces /\ Rollback => Spaces'
  BY DEF Rollback, PublishRollbackReady, SwapBack, BackFence, PublishRolledBack,
         UnlinkClone, SettleIntent, DeleteIntent, DropQueue, Swapped, CloneFinalOriginalTemp
<1>5. Spaces /\ Recover => Spaces'
  BY DEF Recover, RecoverCoveredIntent, RecoverIntent, RecoverPrepared, RecoverCommitReady,
         RecoverRollbackReady, RecoverRolledBack, RecoverTerminal
<1>6. Spaces /\ Environment => Spaces'
  BY DEF Environment, Fault, Stop, Outage, SourceChanges
<1>7. Spaces /\ UNCHANGED vars => Spaces'
  BY DEF vars
<1> QED
  BY <1>1, <1>2, <1>3, <1>4, <1>5, <1>6, <1>7 DEF Next

\* Records, steps and causes stay within their sets.
LEMMA LabelsStep == Labels /\ [Next]_vars => Labels'
<1> USE DEF Labels, IntentState, Phase, Steps, Causes, Goto, Undo, records, control, world
<1>1. Labels /\ Begin => Labels'
  BY DEF Begin
<1>2. Labels /\ Attempt => Labels'
  BY DEF Attempt, MakeStage, Bind, PublishStageBound, Clone, CheckClone,
         PublishCloneBound, Revalidate, PublishPrepared, DropIntent
<1>3. Labels /\ Commit => Labels'
  BY DEF Commit, PreForward, SwapForward, SwapFence, Postverify, PublishCommitReady,
         UnlinkOriginal, UnlinkFence, RemoveStage, StageFence, PublishTerminal,
         Settle, DeleteManifest
<1>4. Labels /\ Rollback => Labels'
  BY DEF Rollback, PublishRollbackReady, SwapBack, BackFence, PublishRolledBack,
         UnlinkClone, SettleIntent, DeleteIntent, DropQueue
<1>5. Labels /\ Recover => Labels'
  BY DEF Recover, RecoverCoveredIntent, RecoverIntent, RecoverPrepared, RecoverCommitReady,
         RecoverRollbackReady, RecoverRolledBack, RecoverTerminal
<1>6. Labels /\ Environment => Labels'
  BY DEF Environment, Fault, Stop, Outage, SourceChanges
<1>7. Labels /\ UNCHANGED vars => Labels'
  BY DEF vars
<1> QED
  BY <1>1, <1>2, <1>3, <1>4, <1>5, <1>6, <1>7 DEF Next

\* The two-valued fields stay two-valued.
LEMMA FlagsStep == Flags /\ [Next]_vars => Flags'
<1> USE DEF Flags, records, world
<1>1. Flags /\ Begin => Flags'
  BY DEF Begin
<1>2. Flags /\ Attempt => Flags'
  BY DEF Attempt, MakeStage, Bind, PublishStageBound, Clone, CheckClone,
         PublishCloneBound, Revalidate, PublishPrepared, DropIntent
<1>3. Flags /\ Commit => Flags'
  BY DEF Commit, PreForward, SwapForward, SwapFence, Postverify, PublishCommitReady,
         UnlinkOriginal, UnlinkFence, RemoveStage, StageFence, PublishTerminal,
         Settle, DeleteManifest
<1>4. Flags /\ Rollback => Flags'
  BY DEF Rollback, PublishRollbackReady, SwapBack, BackFence, PublishRolledBack,
         UnlinkClone, SettleIntent, DeleteIntent, DropQueue
<1>5. Flags /\ Recover => Flags'
  BY DEF Recover, RecoverCoveredIntent, RecoverIntent, RecoverPrepared, RecoverCommitReady,
         RecoverRollbackReady, RecoverRolledBack, RecoverTerminal
<1>6. Flags /\ Environment => Flags'
  BY DEF Environment, Fault, Stop, Outage, SourceChanges
<1>7. Flags /\ UNCHANGED vars => Flags'
  BY DEF vars
<1> QED
  BY <1>1, <1>2, <1>3, <1>4, <1>5, <1>6, <1>7 DEF Next

LEMMA CountedSpaces == Spec => [](Counted /\ Spaces)
<1>1. Init => Counted
  BY BoundsAssumption DEF Init, Counted
<1>2. Init => Spaces
  BY DEF Init, Spaces, Names
<1> QED
  BY <1>1, <1>2, CountedStep, SpacesStep, PTL DEF Spec

\* The type invariant of the transaction, for every bound.
THEOREM TypeCorrect == Spec => []TypeOK
<1>1. Init => Labels /\ Flags
  BY DEF Init, Labels, Steps, Causes, Flags
<1>2. Labels /\ Flags /\ [Next]_vars => (Labels /\ Flags)'
  BY LabelsStep, FlagsStep
<1>3. Counted /\ Spaces /\ Labels /\ Flags => TypeOK
  BY Zenon DEF Counted, Spaces, Labels, Flags, TypeOK
<1> QED
  BY <1>1, <1>2, <1>3, CountedSpaces, PTL DEF Spec
------------------------------------------------------------------------------
(* The inductive invariant.                                                  *)

\* Each step of the process leaves it where its next step expects to be.
LEMMA PositionStep ==
  ASSUME Spaces, Permits(names), Position, [Next]_vars
  PROVE  Position'
<1> USE DEF Position, IntentOnly, ManifestOnly, Cleared, OriginalFinalCloneTemp,
            CloneFinalOriginalTemp, Goto, Undo, records, namespace, control, Mutate,
            Fence, bounds, Spaces, Names, Permits
<1>1. CASE Begin
  BY <1>1 DEF Begin, Open, Explains
<1>2. CASE Attempt
  <2>1. CASE MakeStage
    BY <2>1 DEF MakeStage, Open
  <2>2. CASE Bind
    BY <2>2 DEF Bind, Open
  <2>3. CASE PublishStageBound
    BY <2>3 DEF PublishStageBound, Open
  <2>4. CASE Clone
    BY <2>4 DEF Clone, Open, Explains
  <2>5. CASE CheckClone
    BY <2>5 DEF CheckClone, Open
  <2>6. CASE PublishCloneBound
    BY <2>6 DEF PublishCloneBound, Open
  <2>7. CASE Revalidate
    BY <2>7 DEF Revalidate, Open
  <2>8. CASE PublishPrepared
    BY <2>8 DEF PublishPrepared, Open
  <2>9. CASE DropIntent
    BY <2>9 DEF DropIntent, Open
  <2> QED
    BY <1>2, <2>1, <2>2, <2>3, <2>4, <2>5, <2>6, <2>7, <2>8, <2>9 DEF Attempt
<1>3. CASE Commit
  BY <1>3 DEF Commit, PreForward, SwapForward, SwapFence, Postverify, PublishCommitReady,
         UnlinkOriginal, UnlinkFence, RemoveStage, StageFence, PublishTerminal,
         Settle, DeleteManifest, Swapped, Open
<1>4. CASE Rollback
  BY <1>4 DEF Rollback, PublishRollbackReady, SwapBack, BackFence, PublishRolledBack,
         UnlinkClone, SettleIntent, DeleteIntent, DropQueue, Swapped, Open
<1>5. CASE Recover
  BY <1>5 DEF Recover,
         RecoverCoveredIntent, RecoverIntent, RecoverPrepared, RecoverCommitReady,
         RecoverRollbackReady, RecoverRolledBack, RecoverTerminal,
         CloneFinalTempMissing, OriginalFinalTempMissing, Explains, Open
<1>6. CASE Environment
  BY <1>6 DEF Environment, Fault, Stop, Outage, SourceChanges, Open
<1> QED
  BY <1>1, <1>2, <1>3, <1>4, <1>5, <1>6 DEF Next, vars, Open

\* Only the steps in Unsynced leave a namespace change to be fsynced.
LEMMA SyncedStep ==
  ASSUME IInv, [Next]_vars
  PROVE  Synced'
<1> USE DEF Synced, Unsynced, Goto, Undo, namespace, control, Mutate, Fence, IInv
<1>1. CASE Begin
  BY <1>1 DEF Begin
<1>2. CASE Attempt
  BY <1>2 DEF Attempt, MakeStage, Bind, PublishStageBound, Clone, CheckClone,
         PublishCloneBound, Revalidate, PublishPrepared, DropIntent
<1>3. CASE Commit
  BY <1>3 DEF Commit, PreForward, SwapForward, SwapFence, Postverify, PublishCommitReady,
         UnlinkOriginal, UnlinkFence, RemoveStage, StageFence, PublishTerminal,
         Settle, DeleteManifest
<1>4. CASE Rollback
  BY <1>4 DEF Rollback, PublishRollbackReady, SwapBack, BackFence, PublishRolledBack,
         UnlinkClone, SettleIntent, DeleteIntent, DropQueue
<1>5. CASE Recover
  BY <1>5 DEF Recover, RecoverCoveredIntent, RecoverIntent, RecoverPrepared, RecoverCommitReady,
         RecoverRollbackReady, RecoverRolledBack, RecoverTerminal
<1>6. CASE Environment
  BY <1>6 DEF Environment, Fault, Stop, Outage, SourceChanges
<1> QED
  BY <1>1, <1>2, <1>3, <1>4, <1>5, <1>6 DEF Next, vars

\* The durable records explain each namespace the next process can find.
LEMMA ExplainStep ==
  ASSUME Covered, Counted, Spaces, IInv, Synced', [Next]_vars
  PROVE  RecordsExplainPossible'
<1> USE DEF RecordsExplainPossible, Possible, Explains, Open, Synced, Unsynced, Goto,
            Undo, namespace, control, Mutate, Fence, IInv, OriginalFinalCloneTemp,
            CloneFinalOriginalTemp, CloneFinalTempMissing, OriginalFinalTempMissing,
            Position, IntentOnly, ManifestOnly, Cleared, records, Spaces, Names
<1>1. CASE Begin
  BY <1>1 DEF Begin
<1>2. CASE Attempt
  BY <1>2 DEF Attempt, MakeStage, Bind, PublishStageBound, Clone, CheckClone,
         PublishCloneBound, Revalidate, PublishPrepared, DropIntent
<1>3. CASE Commit
  <2>1. CASE PreForward
    BY <2>1 DEF PreForward
  <2>2. CASE SwapForward
    BY <2>2 DEF SwapForward, Swapped
  <2>3. CASE SwapFence
    BY <2>3 DEF SwapFence
  <2>4. CASE Postverify
    BY <2>4 DEF Postverify
  <2>5. CASE PublishCommitReady
    BY <2>5 DEF PublishCommitReady
  <2>6. CASE UnlinkOriginal
    BY <2>6 DEF UnlinkOriginal
  <2>7. CASE UnlinkFence
    BY <2>7 DEF UnlinkFence
  <2>8. CASE RemoveStage
    BY <2>8 DEF RemoveStage
  <2>9. CASE StageFence
    BY <2>9 DEF StageFence
  <2>10. CASE PublishTerminal
    BY <2>10 DEF PublishTerminal
  <2>11. CASE Settle
    BY <2>11 DEF Settle
  <2>12. CASE DeleteManifest
    BY <2>12 DEF DeleteManifest
  <2> QED
    BY <1>3, <2>1, <2>2, <2>3, <2>4, <2>5, <2>6, <2>7, <2>8, <2>9, <2>10,
       <2>11, <2>12 DEF Commit
<1>4. CASE Rollback
  <2>1. CASE PublishRollbackReady
    BY <2>1 DEF PublishRollbackReady
  <2>2. CASE SwapBack
    BY <2>2 DEF SwapBack, Swapped
  <2>3. CASE BackFence
    BY <2>3 DEF BackFence
  <2>4. CASE PublishRolledBack
    BY <2>4 DEF PublishRolledBack
  <2>5. CASE UnlinkClone
    BY <2>5 DEF UnlinkClone
  <2>6. CASE SettleIntent
    BY <2>6 DEF SettleIntent
  <2>7. CASE DeleteIntent
    BY <2>7 DEF DeleteIntent
  <2>8. CASE DropQueue
    BY <2>8 DEF DropQueue
  <2> QED
    BY <1>4, <2>1, <2>2, <2>3, <2>4, <2>5, <2>6, <2>7, <2>8 DEF Rollback
<1>5. CASE Recover
  BY <1>5 DEF Recover, RecoverCoveredIntent, RecoverIntent, RecoverPrepared, RecoverCommitReady,
         RecoverRollbackReady, RecoverRolledBack, RecoverTerminal
<1>6. CASE Environment
  BY <1>6, BoundsAssumption DEF Environment, Fault, Stop, Outage, SourceChanges, Covered, Counted
<1> QED
  BY <1>1, <1>2, <1>3, <1>4, <1>5, <1>6 DEF Next, vars


LEMMA IInvInit == Init => IInv
  BY DEF Init, IInv, Synced, RecordsExplainPossible, Possible, Explains, Open, Position,
         ManifestOnly, IntentOnly

\* Recovery is sound in the covered settings, for any number of stops, power
\* losses and faults: at each moment the durable records explain each namespace
\* the next process can find.
THEOREM RecordsAlwaysExplain ==
  ASSUME Covered
  PROVE  Spec => []IInv
<1>1. IInv => Permits(names) /\ Position
  BY DEF IInv, Synced, RecordsExplainPossible, Possible, Permits
<1>2. Counted /\ Spaces /\ IInv /\ [Next]_vars => IInv'
  BY <1>1, PositionStep, SyncedStep, ExplainStep DEF IInv
<1> QED
  BY <1>2, IInvInit, CountedSpaces, PTL DEF Spec

\* What run RepairStops checks: no stop, wherever it falls, leaves a namespace
\* that the durable records do not explain.
THEOREM NamesExplained ==
  ASSUME Covered
  PROVE  Spec => []RecordsExplainNames
<1>1. IInv => RecordsExplainNames
  BY DEF IInv, Synced, RecordsExplainPossible, Possible, RecordsExplainNames
<1> QED
  BY <1>1, RecordsAlwaysExplain, PTL

\* What run RepairOutages checks: nor does a power loss, when each process that
\* stops does so with its namespace changes fsynced.
THEOREM OutagesExplained ==
  ASSUME ~StopUnfenced
  PROVE  Spec => []RecordsExplainOutage
<1>1. IInv => RecordsExplainOutage
  BY DEF IInv, RecordsExplainPossible, Possible, RecordsExplainOutage
<1>2. Covered
  BY DEF Covered
<1> QED
  BY <1>1, <1>2, RecordsAlwaysExplain, PTL
------------------------------------------------------------------------------
(* In every setting, stops before an fsync and power losses included.        *)

\* Nothing but the steps that follow a namespace change leaves it to be fsynced.
LEMMA SettledStep ==
  ASSUME Spaces, LooseInv, [Next]_vars
  PROVE  names' \in restorable' /\ Settled'
<1> USE DEF LooseInv, Settled, Fenced, Open, Goto, Undo, namespace, control, Mutate, Fence
<1>1. CASE Begin
  BY <1>1 DEF Begin
<1>2. CASE Attempt
  BY <1>2 DEF Attempt, MakeStage, Bind, PublishStageBound, Clone, CheckClone,
         PublishCloneBound, Revalidate, PublishPrepared, DropIntent, Position, IntentOnly,
         records
<1>3. CASE Commit
  BY <1>3 DEF Commit, PreForward, SwapForward, SwapFence, Postverify, PublishCommitReady,
         UnlinkOriginal, UnlinkFence, RemoveStage, StageFence, PublishTerminal,
         Settle, DeleteManifest, Position, ManifestOnly, IntentOnly, records
<1>4. CASE Rollback
  BY <1>4 DEF Rollback, PublishRollbackReady, SwapBack, BackFence, PublishRolledBack,
         UnlinkClone, SettleIntent, DeleteIntent, DropQueue, Position, ManifestOnly,
         IntentOnly, records
<1>5. CASE Recover
  BY <1>5 DEF Recover, RecoverCoveredIntent, RecoverIntent, RecoverPrepared, RecoverCommitReady,
         RecoverRollbackReady, RecoverRolledBack, RecoverTerminal, records
<1>6. CASE Environment
  BY <1>6 DEF Environment, Fault, Stop, Outage, SourceChanges, records
<1> QED
  BY <1>1, <1>2, <1>3, <1>4, <1>5, <1>6 DEF Next, vars

\* Each namespace that a power loss can leave is one the records permit.
LEMMA PermitsStep ==
  ASSUME Spaces, LooseInv, [Next]_vars
  PROVE  \A n \in restorable' : Permits(n)'
<1> USE DEF LooseInv, Permits, Explains, Open, Settled, Fenced, Goto, Undo, namespace, control,
            Mutate, Fence, OriginalFinalCloneTemp, CloneFinalOriginalTemp,
            CloneFinalTempMissing, OriginalFinalTempMissing, Position, IntentOnly,
            ManifestOnly, Cleared, records, Spaces, Names
<1>1. CASE Begin
  BY <1>1 DEF Begin
<1>2. CASE Attempt
  BY <1>2 DEF Attempt, MakeStage, Bind, PublishStageBound, Clone, CheckClone,
         PublishCloneBound, Revalidate, PublishPrepared, DropIntent
<1>3. CASE Commit
  <2>1. CASE PreForward \/ SwapFence \/ Postverify \/ UnlinkFence \/ StageFence \/ Settle
    BY <2>1 DEF PreForward, SwapFence, Postverify, UnlinkFence, StageFence, Settle
  <2>2. CASE SwapForward
    BY <2>2 DEF SwapForward, Swapped
  <2>3. CASE PublishCommitReady
    BY <2>3 DEF PublishCommitReady
  <2>4. CASE UnlinkOriginal
    BY <2>4 DEF UnlinkOriginal
  <2>5. CASE RemoveStage
    BY <2>5 DEF RemoveStage
  <2>6. CASE PublishTerminal
    BY <2>6 DEF PublishTerminal
  <2>7. CASE DeleteManifest
    BY <2>7 DEF DeleteManifest
  <2> QED
    BY <1>3, <2>1, <2>2, <2>3, <2>4, <2>5, <2>6, <2>7 DEF Commit
<1>4. CASE Rollback
  <2>1. CASE PublishRollbackReady
    BY <2>1 DEF PublishRollbackReady
  <2>2. CASE SwapBack
    BY <2>2 DEF SwapBack, Swapped
  <2>3. CASE PublishRolledBack
    BY <2>3 DEF PublishRolledBack
  <2>4. CASE UnlinkClone
    BY <2>4 DEF UnlinkClone
  <2>5. CASE BackFence \/ SettleIntent \/ DropQueue
    BY <2>5 DEF BackFence, SettleIntent, DropQueue
  <2>6. CASE DeleteIntent
    BY <2>6 DEF DeleteIntent
  <2> QED
    BY <1>4, <2>1, <2>2, <2>3, <2>4, <2>5, <2>6 DEF Rollback
<1>5. CASE Recover
  BY <1>5 DEF Recover, RecoverCoveredIntent, RecoverIntent, RecoverPrepared, RecoverCommitReady,
         RecoverRollbackReady, RecoverRolledBack, RecoverTerminal
<1>6. CASE Environment
  BY <1>6 DEF Environment, Fault, Stop, Outage, SourceChanges
<1> QED
  BY <1>1, <1>2, <1>3, <1>4, <1>5, <1>6 DEF Next, vars

\* Wherever processes stop and power is lost, a decided transaction has the object it
\* decided for under the mirror name once the other one is unlinked.
LEMMA LooseAlways == Spec => []LooseInv
<1>1. Init => LooseInv
  BY DEF Init, LooseInv, Settled, Permits, Explains, Open, Position, ManifestOnly, IntentOnly
<1>2. Spaces /\ LooseInv /\ [Next]_vars => LooseInv'
  <2>1. LooseInv => Permits(names) /\ Position
    BY DEF LooseInv
  <2> QED
    BY <2>1, PositionStep, SettledStep, PermitsStep DEF LooseInv
<1> QED
  BY <1>1, <1>2, CountedSpaces, PTL DEF Spec
------------------------------------------------------------------------------
(* The bytes under the mirror name.                                          *)

\* From the check after the clone on, the clone holds the inspected bytes.
BytesProved ==
  /\ intent = "CLONE_BOUND" \/ manifest # "none" \/ pc = "publish_clone" => exact
  /\ pc = "check_clone" /\ source = "same" => exact

LEMMA BytesInit == Init => BytesProved
  BY DEF Init, BytesProved

\* The source never turns back to what was inspected, so the check after the
\* clone vouches for the bytes copied before it.
LEMMA BytesStep ==
  ASSUME Permits(names), Position, BytesProved, [Next]_vars
  PROVE  BytesProved'
<1> USE DEF BytesProved, IntentOnly, ManifestOnly, Goto, Undo, namespace, world, control,
            records
<1>1. CASE Begin
  BY <1>1 DEF Begin
<1>2. CASE Attempt
  BY <1>2 DEF Attempt, MakeStage, Bind, PublishStageBound, Clone, CheckClone, SourceUnchanged,
         PublishCloneBound, Revalidate, PublishPrepared, DropIntent, Position
<1>3. CASE Commit
  BY <1>3 DEF Commit, PreForward, SwapForward, SwapFence, Postverify, PublishCommitReady,
         UnlinkOriginal, UnlinkFence, RemoveStage, StageFence, PublishTerminal,
         Settle, DeleteManifest, Position
<1>4. CASE Rollback
  BY <1>4 DEF Rollback, PublishRollbackReady, SwapBack, BackFence, PublishRolledBack,
         UnlinkClone, SettleIntent, DeleteIntent, DropQueue, Position
<1>5. CASE Recover
  BY <1>5 DEF Recover, RecoverCoveredIntent, RecoverIntent, RecoverPrepared, RecoverCommitReady,
         RecoverRollbackReady, RecoverRolledBack, RecoverTerminal
<1>6. CASE Environment
  <2>1. CASE Outage
    <3>1. intent = "CLONE_BOUND" \/ manifest # "none" => intent # "STAGE_BOUND"
      BY DEF Permits, Explains
    <3> QED
      BY <2>1, <3>1 DEF Outage
  <2> QED
    BY <1>6, <2>1 DEF Environment, Fault, Stop, SourceChanges
<1> QED
  BY <1>1, <1>2, <1>3, <1>4, <1>5, <1>6 DEF Next, vars

\* What run RepairStops checks of the bytes, in every setting: while a repair is under
\* way the mirror name never shows a clone with other bytes than those inspected, not
\* even after a power loss that undoes a swap recovery has relied on.
THEOREM MirrorBytes == Spec => []MirrorKeepsBytes
<1>1. LooseInv /\ BytesProved /\ [Next]_vars => BytesProved'
  BY BytesStep DEF LooseInv
<1>2. LooseInv /\ BytesProved => MirrorKeepsBytes
  BY DEF LooseInv, Permits, Explains, ManifestOnly, BytesProved, MirrorKeepsBytes, Open
<1> QED
  BY <1>1, <1>2, BytesInit, LooseAlways, PTL DEF Spec
------------------------------------------------------------------------------
(* The retry queue, and what RepairPromise promises.                         *)

\* What an abandoned repair owes the queue when its last record goes.
Undoing == {"unlink_clone", "unlink_fence", "remove_stage", "stage_fence"}
QueueOwed ==
  /\ pc = "delete_manifest" /\ enabled => queued = (manifest = "DEFERRED")
  /\ pc \in Undoing /\ IntentOnly => cause # "none"
  /\ pc = "settle_intent" => cause \in {"recovered", "unstable", "unsupported", "safety"}
  /\ pc = "delete_intent" /\ enabled => queued \/ cause \in {"unsupported", "safety"}
LEMMA OwedInit == Init => QueueOwed
  BY DEF Init, QueueOwed, Undoing

\* Every step but the four that end a transaction leaves the queue alone.
LEMMA OwedStep ==
  ASSUME Labels, Flags, Position, QueueOwed, [Next]_vars
  PROVE  QueueOwed'
<1> USE DEF QueueOwed, Undoing, IntentOnly, ManifestOnly, Goto, Undo, records, control,
            Labels, Causes
<1>1. CASE Begin
  BY <1>1 DEF Begin
<1>2. CASE Attempt
  BY <1>2 DEF Attempt, MakeStage, Bind, PublishStageBound, Clone, CheckClone,
         PublishCloneBound, Revalidate, PublishPrepared, DropIntent
<1>3. CASE Commit
  <2>1. CASE PreForward \/ SwapForward \/ SwapFence \/ Postverify \/ PublishCommitReady
             \/ UnlinkOriginal
    BY <2>1 DEF PreForward, SwapForward, SwapFence, Postverify, PublishCommitReady,
           UnlinkOriginal, Position
  <2>2. CASE UnlinkFence \/ RemoveStage \/ StageFence
    BY <2>2 DEF UnlinkFence, RemoveStage, StageFence, Position
  <2>3. CASE PublishTerminal
    BY <2>3 DEF PublishTerminal
  <2>4. CASE Settle
    BY <2>4 DEF Settle
  <2>5. CASE DeleteManifest
    BY <2>5 DEF DeleteManifest
  <2> QED
    BY <1>3, <2>1, <2>2, <2>3, <2>4, <2>5 DEF Commit
<1>4. CASE Rollback
  <2>1. CASE PublishRollbackReady \/ SwapBack \/ BackFence \/ PublishRolledBack
    BY <2>1 DEF PublishRollbackReady, SwapBack, BackFence, PublishRolledBack, Position
  <2>2. CASE UnlinkClone
    BY <2>2 DEF UnlinkClone
  <2>3. CASE SettleIntent
    BY <2>3 DEF SettleIntent
  <2>4. CASE DeleteIntent \/ DropQueue
    BY <2>4 DEF DeleteIntent, DropQueue
  <2> QED
    BY <1>4, <2>1, <2>2, <2>3, <2>4 DEF Rollback
<1>5. CASE Recover
  BY <1>5 DEF Recover, RecoverCoveredIntent, RecoverIntent, RecoverPrepared, RecoverCommitReady,
         RecoverRollbackReady, RecoverRolledBack, RecoverTerminal
<1>6. CASE Environment
  BY <1>6 DEF Environment, Fault, Stop, Outage, SourceChanges, Position
<1> QED
  BY <1>1, <1>2, <1>3, <1>4, <1>5, <1>6 DEF Next, vars

\* The steps that move neither the mirror name nor a record.
Silent == UNCHANGED <<intent, manifest, enabled, queued>> /\ names'.final = names.final

\* The steps that write a record or bring another object under the mirror name.
Writes ==
  \/ Begin \/ PublishStageBound \/ PublishCloneBound \/ PublishPrepared \/ DropIntent
  \/ SwapForward \/ PublishCommitReady \/ PublishTerminal \/ Settle \/ DeleteManifest
  \/ PublishRollbackReady \/ SwapBack \/ PublishRolledBack
  \/ SettleIntent \/ DeleteIntent \/ DropQueue \/ RecoverCoveredIntent \/ Outage

LEMMA SilentOrWrites ==
  ASSUME Spaces, [Next]_vars
  PROVE  Silent \/ Writes
<1> USE DEF Silent, Writes, Spaces, Names, Mutate, Fence, records, namespace
<1>1. CASE Attempt
  BY <1>1 DEF Attempt, MakeStage, Bind, Clone, CheckClone, Revalidate
<1>2. CASE Commit
  BY <1>2 DEF Commit, PreForward, SwapFence, Postverify, UnlinkOriginal, UnlinkFence,
         RemoveStage, StageFence
<1>3. CASE Rollback
  BY <1>3 DEF Rollback, BackFence, UnlinkClone
<1>4. CASE Recover
  BY <1>4 DEF Recover, RecoverIntent, RecoverPrepared, RecoverCommitReady,
         RecoverRollbackReady, RecoverRolledBack, RecoverTerminal
<1>5. CASE Environment
  BY <1>5 DEF Environment, Fault, Stop, SourceChanges
<1>6. CASE UNCHANGED vars
  BY <1>6 DEF vars
<1> QED
  BY <1>1, <1>2, <1>3, <1>4, <1>5, <1>6 DEF Next

LEMMA OwedAlways == Spec => [](TypeOK /\ LooseInv /\ QueueOwed)
<1>1. TypeOK /\ LooseInv /\ QueueOwed /\ [Next]_vars => QueueOwed'
  BY OwedStep, Zenon DEF TypeOK, Labels, Flags, LooseInv
<1> QED
  BY <1>1, OwedInit, TypeCorrect, LooseAlways, PTL DEF Spec

\* What run RepairStops checks of the queue, in every setting: a rollout whose
\* last record goes without a commit is queued, unless its pair is unsupported
\* or the command fails; after a commit it is not.
THEOREM ObligationKept == Spec => RetryObligation
<1> DEFINE Kept == Open /\ ~Open' /\ enabled =>
             IF names.final = "clone" THEN ~queued
             ELSE queued \/ cause \in {"unsupported", "safety"}
<1>1. ASSUME TypeOK, LooseInv, QueueOwed, [Next]_vars
      PROVE  Kept
  <2> USE DEF Open, records
  <2>1. Position /\ Permits(names)
    BY <1>1 DEF LooseInv
  <2>2. Open /\ ~Open' => DeleteManifest \/ DeleteIntent
    <3>1. Silent \/ Writes
      BY <1>1, SilentOrWrites DEF TypeOK, Spaces
    <3>2. Begin \/ PublishStageBound \/ PublishCloneBound \/ PublishPrepared \/ DropIntent
          \/ PublishCommitReady \/ PublishTerminal \/ PublishRollbackReady \/ PublishRolledBack
          \/ RecoverCoveredIntent => Open'
      BY <2>1 DEF Begin, PublishStageBound, PublishCloneBound, PublishPrepared, DropIntent,
         PublishCommitReady, PublishTerminal, PublishRollbackReady, PublishRolledBack,
         RecoverCoveredIntent, Position
    <3>3. Silent \/ SwapForward \/ SwapBack \/ Settle \/ SettleIntent \/ DropQueue \/ Outage
          => UNCHANGED <<intent, manifest>>
      BY Zenon DEF Silent, SwapForward, SwapBack, Settle, SettleIntent, DropQueue, Outage
    <3> QED
      BY <3>1, <3>2, <3>3 DEF Writes
  <2>3. CASE DeleteManifest
    BY <1>1, <2>1, <2>3 DEF DeleteManifest, QueueOwed, Position, ManifestOnly, Permits, Explains,
       CloneFinalTempMissing, OriginalFinalTempMissing
  <2>4. CASE DeleteIntent
    BY <1>1, <2>1, <2>4 DEF DeleteIntent, QueueOwed, Position, IntentOnly, ManifestOnly, Permits,
       Explains
  <2> QED
    BY <2>2, <2>3, <2>4
<1>2. TypeOK /\ LooseInv /\ QueueOwed /\ [Next]_vars => [Kept]_vars
  BY <1>1
<1> QED
  BY <1>2, OwedAlways, PTL DEF Spec, RetryObligation
------------------------------------------------------------------------------
(* RepairTransaction implements RepairPromise.                               *)

\* What holds of a repair in the covered settings, for the steps below.
Always == TypeOK /\ IInv /\ QueueOwed

LEMMA AlwaysHolds ==
  ASSUME Covered
  PROVE  Spec => []Always
  BY OwedAlways, RecordsAlwaysExplain, PTL DEF Always

\* What a record says before and after PREPARED, and what decides it.
LEMMA Decisions ==
  /\ manifest = "none" => Decision = IF intent = "none" THEN "none" ELSE "open"
  /\ manifest = "PREPARED" => Decision = "open"
  /\ manifest \in {"COMMIT_READY", "DONE"} => Decision = "commit"
  /\ manifest \in {"ROLLBACK_READY", "ROLLED_BACK", "DEFERRED", "FAILED"} => Decision = "rollback"
BY DEF Decision

LEMMA NextDecisions ==
  /\ manifest' = "none" => Decision' = IF intent' = "none" THEN "none" ELSE "open"
  /\ manifest' = "PREPARED" => Decision' = "open"
  /\ manifest' \in {"COMMIT_READY", "DONE"} => Decision' = "commit"
  /\ manifest' \in {"ROLLBACK_READY", "ROLLED_BACK", "DEFERRED", "FAILED"} => Decision' = "rollback"
BY DEF Decision

\* The steps of the promise, with the two records as its decision.
Moves ==
  \/ UNCHANGED <<names.final, Decision, enabled, queued>>
  \/ /\ Decision = "none" /\ Decision' = "open" /\ names'.final = "original"
     /\ enabled' \in BOOLEAN /\ UNCHANGED queued
  \/ /\ Decision \in {"open", "rollback"} /\ names'.final \in {"original", "clone"} \ {names.final}
     /\ UNCHANGED <<Decision, enabled, queued>>
  \/ /\ Decision = "open" /\ Decision' = "commit" /\ names.final = "clone"
     /\ UNCHANGED <<names.final, enabled, queued>>
  \/ Decision = "open" /\ Decision' = "rollback" /\ UNCHANGED <<names.final, enabled, queued>>
  \/ /\ \/ Decision \in {"commit", "none"} /\ queued' = FALSE
        \/ Decision \in {"open", "rollback"} /\ queued' = TRUE
     /\ UNCHANGED <<names.final, Decision, enabled>>
  \/ /\ \/ Decision = "open" /\ names.final = "original"
        \/ Decision = "commit" /\ (enabled => ~queued)
        \/ Decision = "rollback" /\ names.final = "original" /\ (enabled => queued)
     /\ Decision' = "none"
     /\ UNCHANGED <<names.final, enabled, queued>>

LEMMA MovesAreSteps == Moves => [Promise!Next]_(Promise!vars)
  BY Zenon DEF Moves, Promise!Next, Promise!vars, Promise!Begin, Promise!Exchange, Promise!Decide,
     Promise!Requeue, Promise!Close

\* A power loss gives the mirror name another object only while a swap may be
\* undone; without a record, and after a commit, there is only one it can give.
LEMMA OutageMoves ==
  ASSUME Covered, Always, Outage
  PROVE  Moves
<1>1. Spaces /\ Labels /\ Counted /\ IInv
  BY DEF Always, TypeOK, Spaces, Labels, Counted
<1>2. ~StopUnfenced
  BY <1>1, BoundsAssumption DEF Counted, Covered, Outage
<1>3. /\ names' \in restorable /\ names'.final \in {"original", "clone"}
      /\ names.final \in {"original", "clone"}
      /\ UNCHANGED <<intent, manifest, enabled, queued>>
  BY <1>1 DEF Outage, records, Spaces, Names
<1>4. UNCHANGED Decision
  BY <1>3 DEF Decision
<1>5. Explains(names) /\ Explains(names')
  BY <1>1, <1>2, <1>3 DEF IInv, RecordsExplainPossible, Possible, Synced
<1>6. CASE Decision \in {"open", "rollback"}
  BY <1>3, <1>4, <1>6 DEF Moves
<1>7. CASE manifest \in {"COMMIT_READY", "DONE"}
  <2>1. names'.final = names.final
    BY <1>5, <1>7 DEF Explains, CloneFinalOriginalTemp, CloneFinalTempMissing
  <2> QED
    BY <1>3, <1>4, <2>1 DEF Moves
<1>8. CASE ~Open
  <2>1. pc \notin Unsynced
    BY <1>1, <1>8 DEF IInv, Position, Unsynced, Open, IntentOnly, ManifestOnly
  <2>2. names' = names
    BY <1>1, <1>2, <1>3, <2>1 DEF IInv, Synced
  <2> QED
    BY <1>3, <1>4, <2>2 DEF Moves
<1> QED
  BY <1>1, <1>6, <1>7, <1>8, Decisions DEF Labels, Phase, IntentState, Open

\* Each other step, in the words of the promise.
LEMMA WriteMoves ==
  ASSUME Covered, Always, Writes
  PROVE  Moves
<1> USE Decisions, NextDecisions DEF Goto, Undo, records, namespace
<1>1. Spaces /\ Labels /\ Flags
  BY DEF Always, TypeOK, Spaces, Labels, Flags
<1>2. names \in Possible
  BY DEF Always, IInv, Synced, Possible
<1>3. Position /\ Explains(names) /\ QueueOwed
  BY <1>2 DEF Always, IInv, RecordsExplainPossible
<1>4. CASE Begin
  BY <1>1, <1>4 DEF Begin, Moves, Spaces, Names
<1>5. CASE PublishStageBound \/ PublishCloneBound \/ PublishPrepared \/ DropIntent
  <2>1. UNCHANGED <<names, enabled, queued>> /\ Decision = "open" /\ Decision' = "open"
    BY <1>3, <1>5 DEF PublishStageBound, PublishCloneBound, PublishPrepared, DropIntent,
       Position, IntentOnly
  <2> QED
    BY <2>1 DEF Moves
<1>6. CASE SwapForward \/ SwapBack
  <2>1. names'.final \in {"original", "clone"} \ {names.final}
    BY <1>1, <1>3, <1>6 DEF SwapForward, SwapBack, Mutate, Swapped, OriginalFinalCloneTemp,
       CloneFinalOriginalTemp, Spaces, Names
  <2>2. Decision \in {"open", "rollback"} /\ UNCHANGED <<intent, manifest, enabled, queued>>
    BY <1>3, <1>6 DEF SwapForward, SwapBack, Position, ManifestOnly
  <2>3. UNCHANGED Decision
    BY <2>2 DEF Decision
  <2> QED
    BY <2>1, <2>2, <2>3 DEF Moves
<1>7. CASE PublishCommitReady
  <2>1. /\ UNCHANGED <<names, enabled, queued>> /\ Decision = "open" /\ Decision' = "commit"
        /\ names.final = "clone"
    BY <1>3, <1>7 DEF PublishCommitReady, Position, ManifestOnly, CloneFinalOriginalTemp
  <2> QED
    BY <2>1 DEF Moves
<1>8. CASE PublishRollbackReady
  <2>1. UNCHANGED <<names, enabled, queued>> /\ Decision = "open" /\ Decision' = "rollback"
    BY <1>3, <1>8 DEF PublishRollbackReady, Position, ManifestOnly
  <2> QED
    BY <2>1 DEF Moves
<1>9. CASE PublishTerminal \/ PublishRolledBack
  <2>1. UNCHANGED <<names, enabled, queued>> /\ UNCHANGED Decision
    BY <1>3, <1>9 DEF PublishTerminal, PublishRolledBack, Position, ManifestOnly
  <2> QED
    BY <2>1 DEF Moves
<1>10. CASE Settle
  <2>1. /\ UNCHANGED <<names, intent, manifest, enabled>> /\ manifest \in {"DONE", "DEFERRED"}
        /\ queued' = IF enabled THEN manifest = "DEFERRED" ELSE queued
    BY <1>3, <1>10 DEF Settle, Position, ManifestOnly
  <2>2. UNCHANGED Decision
    BY <2>1 DEF Decision
  <2>3. CASE enabled /\ manifest = "DONE"
    <3>1. Decision = "commit" /\ queued' = FALSE
      BY <2>1, <2>3
    <3> QED
      BY <2>1, <2>2, <3>1 DEF Moves
  <2>4. CASE enabled /\ manifest = "DEFERRED"
    <3>1. Decision = "rollback" /\ queued' = TRUE
      BY <2>1, <2>4
    <3> QED
      BY <2>1, <2>2, <3>1 DEF Moves
  <2>5. CASE ~enabled
    BY <2>1, <2>2, <2>5 DEF Moves
  <2> QED
    BY <2>1, <2>3, <2>4, <2>5
<1>11. CASE DeleteManifest
  <2>1. /\ UNCHANGED <<names, enabled, queued>> /\ Decision' = "none"
        /\ manifest \in {"DONE", "DEFERRED"}
    BY <1>3, <1>11 DEF DeleteManifest, Position, ManifestOnly
  <2>2. enabled => queued = (manifest = "DEFERRED")
    BY <1>3, <1>11 DEF DeleteManifest, QueueOwed
  <2>3. manifest = "DEFERRED" => names.final = "original"
    BY <1>3 DEF Explains, OriginalFinalTempMissing
  <2> QED
    BY <2>1, <2>2, <2>3 DEF Moves
<1>12. CASE SettleIntent
  <2>1. /\ UNCHANGED <<names, intent, manifest, enabled>> /\ Decision = "open"
        /\ queued' = (queued \/ (enabled /\ cause \in {"unstable", "recovered"}))
    BY <1>3, <1>12 DEF SettleIntent, Position, IntentOnly
  <2>2. UNCHANGED Decision
    BY <2>1 DEF Decision
  <2>3. queued' = TRUE \/ UNCHANGED queued
    BY <1>1, <2>1 DEF Flags
  <2> QED
    BY <2>1, <2>2, <2>3 DEF Moves
<1>13. CASE DeleteIntent
  <2>1. /\ UNCHANGED <<names, enabled, queued>> /\ Decision = "open" /\ Decision' = "none"
        /\ names.final = "original"
    BY <1>3, <1>13 DEF DeleteIntent, Position, IntentOnly, Explains
  <2> QED
    BY <2>1 DEF Moves
<1>14. CASE DropQueue
  <2>1. /\ UNCHANGED <<names, intent, manifest, enabled>> /\ Decision = "none"
        /\ queued' = (queued /\ ~enabled)
    BY <1>1, <1>3, <1>14 DEF DropQueue, Position, Open, Labels
  <2>2. UNCHANGED Decision
    BY <2>1 DEF Decision
  <2>3. queued' = FALSE \/ UNCHANGED queued
    BY <1>1, <2>1 DEF Flags
  <2> QED
    BY <2>1, <2>2, <2>3 DEF Moves
<1>15. CASE RecoverCoveredIntent
  <2>1. UNCHANGED <<names, enabled, queued>> /\ Decision = "open" /\ Decision' = "open"
    BY <1>3, <1>15 DEF RecoverCoveredIntent, Explains
  <2> QED
    BY <2>1 DEF Moves
<1>16. CASE Outage
  BY <1>16, OutageMoves
<1> QED
  BY <1>4, <1>5, <1>6, <1>7, <1>8, <1>9, <1>10, <1>11, <1>12, <1>13, <1>14, <1>15, <1>16
     DEF Writes

\* What runs RepairStops and RepairOutages check with RepairPromise: in the
\* covered settings the transaction with its journal, its stage and its fsyncs
\* does nothing to the mirror name and the retry queue that the promise forbids.
THEOREM TransactionKeepsPromise ==
  ASSUME Covered
  PROVE  Spec => KeepsPromise
<1>1. Init => Promise!Init
  BY Decisions, Zenon DEF Init, Promise!Init
<1>2. Always /\ [Next]_vars => [Promise!Next]_(Promise!vars)
  <2> SUFFICES ASSUME Always, [Next]_vars PROVE Moves
    BY MovesAreSteps
  <2>1. CASE Silent
    BY <2>1 DEF Silent, Moves, Decision
  <2>2. CASE Writes
    BY <2>2, WriteMoves
  <2> QED
    BY <2>1, <2>2, SilentOrWrites DEF Always, TypeOK, Spaces
<1> QED
  BY <1>1, <1>2, AlwaysHolds, PTL DEF Spec, KeepsPromise, Promise!Spec
==============================================================================
