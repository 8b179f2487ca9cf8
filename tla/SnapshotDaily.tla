---------------------------- MODULE SnapshotDaily ----------------------------
(***************************************************************************)
(* codex_snapshot_daily.sh under its lock: a run clears old staging files,  *)
(* has tar | zstd write an archive of the day into the staging directory,   *)
(* copies it beside the day's archive name and renames it into place with   *)
(* bounded retries.  Each run writes under names of its own; the archive    *)
(* name is shared by the runs of a day.  A run may be SIGKILLed at any      *)
(* point, its pipeline then goes on by itself; a signal that lets the shell *)
(* run its EXIT trap removes the run's temporary files first.               *)
(***************************************************************************)
EXTENDS SnapshotLock

CONSTANT MaxAttempts     \* CODEX_SNAPSHOT_PUBLISH_RENAME_ATTEMPTS

ASSUME AttemptsAssumption == MaxAttempts \in Nat \ {0}

VARIABLES step,          \* how far the script of a run has got
          attempt,       \* renames it has tried
          staging,       \* per run, its TMP_OUT file
          publish,       \* per run, its PUBLISH_OUT file beside the archive
          final          \* the day's archive: who made it and how much of it

dailyVars == <<step, attempt, staging, publish, final>>
vars == <<lockVars, dailyVars>>

Content == {"none", "partial", "complete"}
Steps == {"begin", "archive", "archiving", "copy", "publish", "tidy", "exit", "failed"}

TypeOK == /\ LockTypeOK
          /\ step \in [Jobs -> Steps]
          /\ attempt \in [Jobs -> 0..MaxAttempts]
          /\ staging \in [Jobs -> Content]
          /\ publish \in [Jobs -> Content]
          /\ final \in [by : Jobs \cup {NoOne}, is : Content]

Init == /\ LockInit
        /\ step = [j \in Jobs |-> "begin"]
        /\ attempt = [j \in Jobs |-> 0]
        /\ staging = [j \in Jobs |-> "none"]
        /\ publish = [j \in Jobs |-> "none"]
        /\ final = [by |-> NoOne, is |-> "none"]

At(j, here) == pc[j] = "work" /\ step[j] = here
Go(j, there) == step' = [step EXCEPT ![j] = there]

\* No source directory: the run ends without an archive.
NothingToDo(j) ==
  /\ At(j, "begin")
  /\ Go(j, "exit")
  /\ UNCHANGED <<lockVars, attempt, staging, publish, final>>

\* Mutant: old staging files are left where they are.
StagingKept(j) ==
  /\ At(j, "begin")
  /\ Go(j, "archive")
  /\ UNCHANGED <<lockVars, attempt, staging, publish, final>>

\* remove_old_zstd_staging_files: every staging file, whoever left it.
ClearStaging(j) ==
  /\ At(j, "begin")
  /\ staging' = [k \in Jobs |-> "none"]
  /\ Go(j, "archive")
  /\ UNCHANGED <<lockVars, attempt, publish, final>>

RunPipeline(j) ==
  /\ At(j, "archive")
  /\ StartArchiver(j)
  /\ staging' = [staging EXCEPT ![j] = "partial"]
  /\ Go(j, "archiving")
  /\ UNCHANGED <<attempt, publish, final>>

\* Mutant: without pipefail only the status of zstd counts.
NoPipefail(j) ==
  /\ ArchiverEnds(j)
  /\ \E now \in {"partial", "complete"} :
       staging' = [staging EXCEPT ![j] = IF @ = "none" THEN "none" ELSE now]
  /\ IF At(j, "archiving") THEN Go(j, "copy") ELSE UNCHANGED step
  /\ UNCHANGED <<attempt, publish, final>>

\* The pipeline ends.  Under pipefail a tar or zstd that failed ends the
\* script too, and its trap removes the file.  Without the script nobody looks.
PipelineEnds(j) ==
  /\ ArchiverEnds(j)
  /\ \E ok \in BOOLEAN :
       /\ staging' = [staging EXCEPT ![j] =
             IF @ = "none" \/ (~ok /\ At(j, "archiving")) THEN "none"
             ELSE IF ok THEN "complete" ELSE "partial"]
       /\ IF At(j, "archiving") THEN Go(j, IF ok THEN "copy" ELSE "exit")
          ELSE UNCHANGED step
  /\ UNCHANGED <<attempt, publish, final>>

\* copy_snapshot_to_publish_tmp; after a failure even its rm may fail.
CopyOut(j) ==
  /\ At(j, "copy")
  /\ \/ /\ staging[j] # "none"
        /\ publish' = [publish EXCEPT ![j] = staging[j]]
        /\ Go(j, "publish")
     \/ /\ \E left \in {"none", "partial"} : publish' = [publish EXCEPT ![j] = left]
        /\ Go(j, "failed")
  /\ UNCHANGED <<lockVars, attempt, staging, final>>

Install(j) == /\ final' = [by |-> j, is |-> publish[j]]
              /\ publish' = [publish EXCEPT ![j] = "none"]

\* publish_snapshot, one mv -f: moved; moved and reported as failed, so that
\* the temporary file is missing; or failed, to be tried again if any are left.
Rename(j) ==
  /\ At(j, "publish") /\ attempt[j] < MaxAttempts
  /\ attempt' = [attempt EXCEPT ![j] = @ + 1]
  /\ \/ Install(j) /\ Go(j, "tidy")
     \/ Install(j) /\ Go(j, "failed")
     \/ UNCHANGED <<step, publish, final>>
  /\ UNCHANGED <<lockVars, staging>>

GiveUp(j) ==
  /\ At(j, "publish") /\ attempt[j] = MaxAttempts
  /\ Go(j, "failed")
  /\ UNCHANGED <<lockVars, attempt, staging, publish, final>>

Tidy(j) ==
  /\ At(j, "tidy")
  /\ staging' = [staging EXCEPT ![j] = "none"]
  /\ Go(j, "exit")
  /\ UNCHANGED <<lockVars, attempt, publish, final>>

\* Mutant: the trap does not know whether TMP_OUT is to be kept.
TrapRemovesStaged(j) ==
  /\ publish' = [publish EXCEPT ![j] = "none"]
  /\ staging' = [staging EXCEPT ![j] = "none"]
  /\ UNCHANGED <<attempt, final>>

\* The EXIT trap removes PUBLISH_OUT, and TMP_OUT unless a failed copy or
\* publish has cleared that name so that the staged archive is kept.
Trap(j) ==
  /\ publish' = [publish EXCEPT ![j] = "none"]
  /\ staging' = [staging EXCEPT ![j] = IF step[j] = "failed" THEN @ ELSE "none"]
  /\ UNCHANGED <<attempt, final>>

Exit(j) ==
  /\ pc[j] = "work" /\ step[j] \in {"exit", "failed"}
  /\ Finish(j)
  /\ Trap(j)
  /\ UNCHANGED step

\* SIGKILL, and errors before the work: no trap, the files stay.
Killed(j) == Stop(j) /\ UNCHANGED dailyVars

\* SIGTERM, SIGINT, SIGHUP: the shell runs its trap on the way out.
Terminated(j) ==
  /\ pc[j] = "work"
  /\ Stop(j)
  /\ Trap(j)
  /\ Go(j, IF step[j] = "failed" THEN "failed" ELSE "exit")

Locking(j) == /\ Start(j) \/ StartClaimingLock(j) \/ Attempt(j)
              /\ UNCHANGED dailyVars

Script(j) == \/ NothingToDo(j) \/ ClearStaging(j) \/ RunPipeline(j) \/ CopyOut(j)
             \/ Rename(j) \/ GiveUp(j) \/ Tidy(j) \/ Exit(j)

Next == \/ \E j \in Jobs : \/ Locking(j) \/ Script(j) \/ PipelineEnds(j)
                           \/ Killed(j) \/ Terminated(j)
        \/ (ReplaceLeaf \/ MoveRoot) /\ UNCHANGED dailyVars

\* Every live process runs, and the archive pipeline ends by itself.
Spec == /\ Init /\ [][Next]_vars
        /\ \A j \in Jobs : /\ WF_vars(Attempt(j) /\ UNCHANGED dailyVars)
                           /\ WF_vars(Script(j))
                           /\ WF_vars(PipelineEnds(j))
-----------------------------------------------------------------------------
\* The day's archive is a whole one, whichever run put it there last and
\* whatever became of the other runs, their pipelines and their copies.
PublishedWhole == final.is # "partial"

\* At most one staging file exists at any time, leftovers of killed and of
\* failed runs included: the staging directory does not fill up with archives.
OneStagingFile ==
  replaced = 0 => \A j, k \in Jobs : staging[j] # "none" /\ staging[k] # "none" => j = k

\* A run that clears the staging directory never removes the file of a run
\* or of an orphaned pipeline that is still at work, as long as the lock's
\* names are what both have checked.
ClearsOnlyLeftovers ==
  [][\A j, k \in Jobs :
       /\ j # k /\ step[j] = "begin" /\ step'[j] = "archive"
       /\ staging[k] # "none" /\ sure[j] /\ sure[k]
       => ~Working(k)]_vars

\* A finished archive leaves the staging directory only after this run has
\* published it, when a signal ended the run, or for the next run's start;
\* in particular a copy or a rename that failed leaves it for recovery.
\* (Two runs that share no lock clear each other's files.)
ArchiveKept ==
  [][\A j \in Jobs :
       replaced = 0 /\ staging[j] = "complete" /\ staging'[j] # "complete"
       => \/ final.by = j
          \/ stops' > stops
          \/ \E k \in Jobs \ {j} : step[k] = "begin" /\ step'[k] = "archive"]_vars
=============================================================================
