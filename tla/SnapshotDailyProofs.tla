-------------------------- MODULE SnapshotDailyProofs --------------------------
(***************************************************************************)
(* Proofs about SnapshotLock, for any number of jobs, lock files and        *)
(* directories and any bounds on replacements and kills, and about          *)
(* SnapshotDaily, whose runs only add to what the lock does, so that what   *)
(* is proved of the lock holds for them; what becomes of the archive needs  *)
(* invariants of the script's own.                                          *)
(***************************************************************************)
EXTENDS SnapshotDaily, TLAPS

Attempting == {"idle", "open_root", "harden_root", "open_leaf", "check", "flock", "confirm"}

\* What a job knows about the lock at each of its steps.
Knows(j) ==
  /\ sure[j] => /\ stage[j] = "verify" /\ pc[j] # "idle"
                /\ lockFd[j] \in Inodes /\ lockFd[j] = leaf[root]
                /\ flocked[lockFd[j]] = j
  /\ pc[j] = "open_leaf" => stage[j] = "acquire"
  /\ pc[j] = "idle" => stage[j] = "acquire"
  /\ pc[j] \in {"harden_root", "open_leaf", "check", "flock", "confirm"} => heldRoot[j] \in Dirs
  /\ pc[j] \in {"flock", "confirm"} => lockFd[j] \in Inodes
  /\ pc[j] = "confirm" => flocked[lockFd[j]] = j
  /\ pc[j] \in Attempting => "archiver" \notin live[j]

LockInv == LockTypeOK /\ \A j \in Jobs : Knows(j)

LEMMA LockInitially == LockInit => LockInv
<1> SUFFICES ASSUME LockInit PROVE LockInv
  OBVIOUS
<1>1. LockTypeOK
  <2>1. live \in [Jobs -> SUBSET {"script", "archiver"}] /\ sure \in [Jobs -> BOOLEAN]
    BY Zenon DEF LockInit
  <2>2. replaced \in 0..MaxReplacements /\ stops \in 0..MaxStops
    BY BoundAssumption DEF LockInit
  <2> QED
    BY <2>1, <2>2 DEF LockInit, LockTypeOK, Points
<1>2. \A j \in Jobs : Knows(j)
  BY DEF LockInit, Knows, Attempting
<1> QED
  BY <1>1, <1>2 DEF LockInv

LEMMA ReleasedType ==
  ASSUME LockTypeOK, NEW j \in Jobs
  PROVE  Released(j) \in [Inodes -> Jobs \cup {NoOne}]
  BY DEF LockTypeOK, Released

\* What a job gives up at its end: its process, its descriptor or its lock.
GivenUp == /\ flocked' \in [Inodes -> Jobs \cup {NoOne}]
           /\ lockFd' \in [Jobs -> Inodes \cup {NoFile}]
           /\ live' \in [Jobs -> SUBSET {"script", "archiver"}]
           /\ sure' \in [Jobs -> BOOLEAN]

LEMMA EndType ==
  ASSUME LockTypeOK, NEW j \in Jobs, NEW point \in Points, End(j, point)
  PROVE  GivenUp /\ heldRoot' \in [Jobs -> Dirs \cup {NoFile}] /\ pc' \in [Jobs -> Points]
<1> DEFINE left == live[j] \ {"script"}
<1>1. left \in SUBSET {"script", "archiver"}
  BY DEF LockTypeOK
<1>2. live' \in [Jobs -> SUBSET {"script", "archiver"}]
  <2>1. live' = [live EXCEPT ![j] = left]
    BY DEF End
  <2> HIDE DEF left
  <2> QED
    BY <1>1, <2>1 DEF LockTypeOK
<1>3. flocked' \in [Inodes -> Jobs \cup {NoOne}]
  BY ReleasedType DEF LockTypeOK, End
<1>4. sure' \in [Jobs -> BOOLEAN]
  BY Zenon DEF LockTypeOK, End
<1> QED
  BY <1>2, <1>3, <1>4 DEF LockTypeOK, End, Goto, GivenUp

LEMMA TypeStep == LockInv /\ [LockNext]_lockVars => LockTypeOK'
<1> SUFFICES ASSUME LockInv, [LockNext]_lockVars PROVE LockTypeOK'
  OBVIOUS
<1> USE DEF Goto
<1>0. LockTypeOK
  BY DEF LockInv
<1>1. ASSUME NEW j \in Jobs, Start(j) \/ StartClaimingLock(j) PROVE LockTypeOK'
  BY <1>0, <1>1 DEF Start, StartClaimingLock, LockTypeOK, Points
<1>2. ASSUME NEW j \in Jobs, OpenRoot(j) \/ HardenRoot(j) \/ Check(j) PROVE LockTypeOK'
  BY <1>0, <1>2 DEF OpenRoot, HardenRoot, Check, LockTypeOK, Points
<1>3. ASSUME NEW j \in Jobs, OpenLeaf(j) PROVE LockTypeOK'
  <2>1. PICK i \in IF leaf[heldRoot[j]] = NoFile THEN Free ELSE {leaf[heldRoot[j]]} \ Unsafe :
            /\ leaf' = [leaf EXCEPT ![heldRoot[j]] = i]
            /\ lockFd' = [lockFd EXCEPT ![j] = i]
    BY <1>3 DEF OpenLeaf
  <2>2. heldRoot[j] \in Dirs
    BY <1>3 DEF OpenLeaf, LockInv, Knows
  <2>3. i \in Inodes \cup {NoFile}
    BY <1>0, <2>1, <2>2 DEF Free, LockTypeOK
  <2> QED
    BY <1>0, <1>3, <2>1, <2>3 DEF OpenLeaf, LockTypeOK, Points
<1>4. ASSUME NEW j \in Jobs, Flock(j) PROVE LockTypeOK'
  <2>1. CASE End(j, "busy")
    <3>1. GivenUp /\ heldRoot' \in [Jobs -> Dirs \cup {NoFile}] /\ pc' \in [Jobs -> Points]
      BY <1>0, <2>1, EndType DEF Points
    <3> QED
      BY <1>0, <1>4, <3>1 DEF Flock, GivenUp, LockTypeOK
  <2>2. CASE ~End(j, "busy")
    BY <1>0, <1>4, <2>2 DEF Flock, LockTypeOK, Points
  <2> QED
    BY <2>1, <2>2
<1>5. ASSUME NEW j \in Jobs, Confirm(j) PROVE LockTypeOK'
  BY <1>0, <1>5 DEF Confirm, LockTypeOK, Points
<1>6. ASSUME NEW j \in Jobs, Refuse(j) \/ Finish(j) \/ Stop(j) PROVE LockTypeOK'
  <2>1. \E point \in Points : End(j, point)
    BY <1>6 DEF Refuse, Finish, Stop, Points
  <2>2. GivenUp /\ heldRoot' \in [Jobs -> Dirs \cup {NoFile}] /\ pc' \in [Jobs -> Points]
    BY <1>0, <2>1, EndType
  <2>3. /\ UNCHANGED <<root, leaf, stage, replaced>>
        /\ stops' \in 0..MaxStops
    BY <1>0, <1>6, BoundAssumption DEF Refuse, Finish, Stop, LockTypeOK
  <2> QED
    BY <1>0, <2>2, <2>3 DEF GivenUp, LockTypeOK
<1>7. ASSUME NEW j \in Jobs, StartArchiver(j) PROVE LockTypeOK'
  <2>1. live' \in [Jobs -> SUBSET {"script", "archiver"}]
    <3>1. live[j] \cup {"archiver"} \in SUBSET {"script", "archiver"}
      BY <1>0 DEF LockTypeOK
    <3> QED
      BY <1>0, <1>7, <3>1, Zenon DEF StartArchiver, LockTypeOK
  <2> QED
    BY <1>0, <1>7, <2>1 DEF StartArchiver, LockTypeOK
<1>8. ASSUME NEW j \in Jobs, ArchiverEnds(j) PROVE LockTypeOK'
  <2> DEFINE left == live[j] \ {"archiver"}
  <2>1. live' \in [Jobs -> SUBSET {"script", "archiver"}]
    <3>1. left \in SUBSET {"script", "archiver"} /\ live' = [live EXCEPT ![j] = left]
      BY <1>0, <1>8 DEF LockTypeOK, ArchiverEnds
    <3> HIDE DEF left
    <3> QED
      BY <1>0, <3>1 DEF LockTypeOK
  <2>2. sure' \in [Jobs -> BOOLEAN]
    BY <1>0, <1>8, Zenon DEF ArchiverEnds, LockTypeOK
  <2>3. flocked' \in [Inodes -> Jobs \cup {NoOne}]
    BY <1>0, <1>8, ReleasedType DEF ArchiverEnds, LockTypeOK
  <2> QED
    BY <1>0, <1>8, <2>1, <2>2, <2>3 DEF ArchiverEnds, LockTypeOK
<1>9. CASE ReplaceLeaf \/ MoveRoot
  <2>1. sure' \in [Jobs -> BOOLEAN]
    BY <1>9, Zenon DEF ReplaceLeaf, MoveRoot, Replace
  <2>2. replaced' \in 0..MaxReplacements
    BY <1>0, <1>9, BoundAssumption DEF ReplaceLeaf, MoveRoot, Replace, LockTypeOK
  <2> QED
    BY <1>0, <1>9, <2>1, <2>2 DEF ReplaceLeaf, MoveRoot, Replace, LockTypeOK
<1>10. CASE UNCHANGED lockVars
  BY <1>0, <1>10 DEF lockVars, LockTypeOK
<1> QED
  BY <1>1, <1>2, <1>3, <1>4, <1>5, <1>6, <1>7, <1>8, <1>9, <1>10 DEF LockNext, Attempt

\* A step of one job disturbs what another knows only through the shared names.
LEMMA KnowsStep ==
  ASSUME LockInv, [LockNext]_lockVars, NEW k \in Jobs
  PROVE  Knows(k)'
<1> USE NamesAssumption DEF LockInv, LockTypeOK, Knows, Goto, Attempting
<1>1. ASSUME NEW j \in Jobs, Start(j) \/ StartClaimingLock(j) PROVE Knows(k)'
  BY <1>1 DEF Start, StartClaimingLock
<1>2. ASSUME NEW j \in Jobs, OpenRoot(j) \/ HardenRoot(j) PROVE Knows(k)'
  BY <1>2 DEF OpenRoot, HardenRoot
<1>3. ASSUME NEW j \in Jobs, OpenLeaf(j) PROVE Knows(k)'
  BY <1>3 DEF OpenLeaf, Free
<1>4. ASSUME NEW j \in Jobs, Check(j) PROVE Knows(k)'
  BY <1>4 DEF Check, LeafMatches
<1>5. ASSUME NEW j \in Jobs, Flock(j) PROVE Knows(k)'
  BY <1>5 DEF Flock, End, Released
<1>6. ASSUME NEW j \in Jobs, Confirm(j) PROVE Knows(k)'
  BY <1>6 DEF Confirm, LeafMatches, RootMatches
<1>7. ASSUME NEW j \in Jobs, Refuse(j) \/ Finish(j) \/ Stop(j) PROVE Knows(k)'
  BY <1>7 DEF Refuse, Finish, Stop, End, Released
<1>8. ASSUME NEW j \in Jobs, StartArchiver(j) PROVE Knows(k)'
  BY <1>8 DEF StartArchiver
<1>9. ASSUME NEW j \in Jobs, ArchiverEnds(j) PROVE Knows(k)'
  BY <1>9 DEF ArchiverEnds, Released
<1>10. CASE ReplaceLeaf \/ MoveRoot
  BY <1>10 DEF ReplaceLeaf, MoveRoot, Replace
<1>11. CASE UNCHANGED lockVars
  BY <1>11 DEF lockVars
<1> QED
  BY <1>1, <1>2, <1>3, <1>4, <1>5, <1>6, <1>7, <1>8, <1>9, <1>10, <1>11 DEF LockNext, Attempt

LEMMA LockStep == LockInv /\ [LockNext]_lockVars => LockInv'
  BY TypeStep, KnowsStep DEF LockInv

\* Every variable of the lock keeps its type: codex_snapshot_lock.py never works
\* with a descriptor or a directory it has not opened.
THEOREM LockTypeCorrect == LockSpec => []LockTypeOK
<1>1. LockInv => LockTypeOK
  BY DEF LockInv
<1> QED
  BY <1>1, LockInitially, LockStep, PTL DEF LockSpec

\* What run SnapshotDaily checks of two jobs holds for any number of them: two jobs
\* whose checks under the lock still stand are never at work together.
THEOREM OneAtWork == LockSpec => []MutualExclusion
<1>1. LockInv => MutualExclusion
  BY DEF LockInv, Knows, MutualExclusion
<1> QED
  BY <1>1, LockInitially, LockStep, PTL DEF LockSpec

\* A job starts work only under the lock that the two names lead to at that moment.
THEOREM WorksUnderNamedLock == LockSpec => WorkUnderNamedLock
<1> DEFINE Enters == \A j \in Jobs : pc[j] # "work" /\ pc'[j] = "work"
                       => lockFd[j] = leaf[root] /\ flocked[leaf[root]] = j
<1>1. LockInv /\ [LockNext]_lockVars => [Enters]_lockVars
  <2> SUFFICES ASSUME LockInv, LockNext, NEW k \in Jobs, pc[k] # "work", pc'[k] = "work"
               PROVE  lockFd[k] = leaf[root] /\ flocked[leaf[root]] = k
    BY DEF lockVars
  <2> USE DEF LockInv, LockTypeOK, Goto, End
  <2>1. Confirm(k)
    BY DEF LockNext, Attempt, Start, StartClaimingLock, OpenRoot, HardenRoot, OpenLeaf,
           Check, Flock, Confirm, Refuse, StartArchiver, ArchiverEnds, Finish, Stop,
           ReplaceLeaf, MoveRoot, Replace
  <2> QED
    BY <2>1 DEF Confirm, LeafMatches, RootMatches, Knows
<1> QED
  BY <1>1, LockInitially, LockStep, PTL DEF LockSpec, WorkUnderNamedLock

\* A job past its start has a process, and while nobody touches the names each
\* job at work is one whose last check still stands.
Vouched(j) ==
  /\ pc[j] \in (Attempting \ {"idle"}) \cup {"work"} => "script" \in live[j]
  /\ replaced = 0 /\ Working(j) => sure[j]

LEMMA VouchedInitially == LockInit => \A j \in Jobs : Vouched(j)
  BY DEF LockInit, Vouched, Working, Attempting

LEMMA VouchedStep ==
  ASSUME LockInv, \A j \in Jobs : Vouched(j), [LockNext]_lockVars, NEW k \in Jobs
  PROVE  Vouched(k)'
<1> USE DEF LockInv, LockTypeOK, Vouched, Working, Goto, Attempting
<1>1. ASSUME NEW j \in Jobs, Start(j) \/ StartClaimingLock(j) PROVE Vouched(k)'
  BY <1>1 DEF Start, StartClaimingLock, Knows
<1>2. ASSUME NEW j \in Jobs, OpenRoot(j) \/ HardenRoot(j) PROVE Vouched(k)'
  BY <1>2 DEF OpenRoot, HardenRoot
<1>3. ASSUME NEW j \in Jobs, OpenLeaf(j) PROVE Vouched(k)'
  BY <1>3 DEF OpenLeaf
<1>4. ASSUME NEW j \in Jobs, Check(j) PROVE Vouched(k)'
  BY <1>4 DEF Check
<1>5. ASSUME NEW j \in Jobs, Flock(j) PROVE Vouched(k)'
  BY <1>5 DEF Flock, End
<1>6. ASSUME NEW j \in Jobs, Confirm(j) PROVE Vouched(k)'
  BY <1>6 DEF Confirm
<1>7. ASSUME NEW j \in Jobs, Refuse(j) \/ Finish(j) \/ Stop(j) PROVE Vouched(k)'
  BY <1>7 DEF Refuse, Finish, Stop, End
<1>8. ASSUME NEW j \in Jobs, StartArchiver(j) PROVE Vouched(k)'
  BY <1>8 DEF StartArchiver
<1>9. ASSUME NEW j \in Jobs, ArchiverEnds(j) PROVE Vouched(k)'
  BY <1>9 DEF ArchiverEnds
<1>10. CASE ReplaceLeaf \/ MoveRoot
  BY <1>10, BoundAssumption DEF ReplaceLeaf, MoveRoot, Replace
<1>11. CASE UNCHANGED lockVars
  BY <1>11 DEF lockVars
<1> QED
  BY <1>1, <1>2, <1>3, <1>4, <1>5, <1>6, <1>7, <1>8, <1>9, <1>10, <1>11 DEF LockNext, Attempt

\* As long as nobody touches the names, whoever is at work is there alone.
LEMMA AloneAtWork ==
  ASSUME LockInv, \A i \in Jobs : Vouched(i), replaced = 0,
         NEW j \in Jobs, NEW k \in Jobs, Working(j), Working(k)
  PROVE  j = k
  BY DEF LockInv, Knows, Vouched

LEMMA LockAlways == LockSpec => [](LockInv /\ \A j \in Jobs : Vouched(j))
<1>1. LockInv /\ (\A j \in Jobs : Vouched(j)) /\ [LockNext]_lockVars
        => (\A j \in Jobs : Vouched(j))'
  BY VouchedStep
<1> QED
  BY <1>1, LockInitially, LockStep, VouchedInitially, PTL DEF LockSpec
--------------------------------------------------------------------------------
LEMMA RunsUnderLock == Spec => LockSpec
<1>1. Init => LockInit
  BY DEF Init
<1>2. [Next]_vars => [LockNext]_lockVars
  <2> SUFFICES ASSUME [Next]_vars PROVE LockNext \/ UNCHANGED lockVars
    OBVIOUS
  <2>1. ASSUME NEW j \in Jobs, Locking(j) PROVE LockNext
    BY <2>1, Zenon DEF Locking, LockNext
  <2>2. ASSUME NEW j \in Jobs, Script(j) PROVE LockNext \/ UNCHANGED lockVars
    BY <2>2, ZenonT(30) DEF Script, NothingToDo, ClearStaging, RunPipeline, CopyOut,
       Rename, GiveUp, Tidy, Exit, LockNext
  <2>3. ASSUME NEW j \in Jobs, PipelineEnds(j) PROVE LockNext
    BY <2>3, Zenon DEF PipelineEnds, LockNext
  <2>4. ASSUME NEW j \in Jobs, Killed(j) \/ Terminated(j) PROVE LockNext
    BY <2>4, Zenon DEF Killed, Terminated, LockNext
  <2>5. ASSUME ReplaceLeaf \/ MoveRoot PROVE LockNext
    BY <2>5, Zenon DEF LockNext
  <2>6. UNCHANGED vars => UNCHANGED lockVars
    BY DEF vars
  <2> QED
    BY <2>1, <2>2, <2>3, <2>4, <2>5, <2>6, Zenon DEF Next
<1> QED
  BY <1>1, <1>2, PTL DEF Spec, LockSpec

\* Two daily runs are never at work together while the lock's names are what
\* both have checked, for any number of runs and of orphaned pipelines.
THEOREM DailyMutualExclusion == Spec => []MutualExclusion
  BY RunsUnderLock, OneAtWork, PTL

\* A run starts work only under the flock of the file the lock's name names.
THEOREM DailyUnderNamedLock == Spec => WorkUnderNamedLock
  BY RunsUnderLock, WorksUnderNamedLock, PTL
--------------------------------------------------------------------------------
DailyTypeOK ==
  /\ step \in [Jobs -> Steps]
  /\ attempt \in [Jobs -> 0..MaxAttempts]
  /\ staging \in [Jobs -> Content]
  /\ publish \in [Jobs -> Content]
  /\ final \in [by : Jobs \cup {NoOne}, is : Content]

\* A run copies only an archive whose pipeline succeeded, or the missing file
\* that another run has cleared away; what it renames is whole.
Whole(j) ==
  /\ step[j] = "copy" => staging[j] \in {"none", "complete"}
  /\ step[j] = "publish" => publish[j] = "complete"
  /\ "archiver" \in live[j] => step[j] \in {"archiving", "exit", "failed"}

ArchiveInv == DailyTypeOK /\ PublishedWhole /\ \A j \in Jobs : Whole(j)

LEMMA ArchiveInitially == Init => ArchiveInv
  BY AttemptsAssumption
  DEF Init, LockInit, ArchiveInv, DailyTypeOK, Whole, PublishedWhole, Steps, Content

\* Who else acts leaves alone what the run knows of its own files.
LEMMA StopKeeps == ASSUME LockTypeOK, NEW j \in Jobs, NEW k \in Jobs, Stop(j)
                   PROVE  "archiver" \in live'[k] => "archiver" \in live[k]
  BY DEF Stop, End, LockTypeOK

LEMMA LockingKeeps == ASSUME LockTypeOK, NEW j \in Jobs, NEW k \in Jobs, Locking(j)
                      PROVE  "archiver" \in live'[k] => "archiver" \in live[k]
  BY DEF Locking, Start, StartClaimingLock, Attempt, OpenRoot, HardenRoot, OpenLeaf, Check,
     Flock, Confirm, Refuse, End, LockTypeOK

LEMMA ArchiveStep == LockTypeOK /\ ArchiveInv /\ [Next]_vars => ArchiveInv'
<1> SUFFICES ASSUME LockTypeOK, ArchiveInv, [Next]_vars PROVE ArchiveInv'
  OBVIOUS
<1> USE DEF ArchiveInv, DailyTypeOK, PublishedWhole, Whole, Steps, Content, At, Go, dailyVars
<1>1. ASSUME NEW j \in Jobs, Locking(j) PROVE ArchiveInv'
  BY <1>1, LockingKeeps DEF Locking
<1>2. ASSUME NEW j \in Jobs, NothingToDo(j) PROVE ArchiveInv'
  BY <1>2 DEF NothingToDo, lockVars
<1>3. ASSUME NEW j \in Jobs, ClearStaging(j) PROVE ArchiveInv'
  BY <1>3 DEF ClearStaging, lockVars
<1>4. ASSUME NEW j \in Jobs, RunPipeline(j) PROVE ArchiveInv'
  BY <1>4 DEF RunPipeline, StartArchiver, LockTypeOK
<1>5. ASSUME NEW j \in Jobs, CopyOut(j) PROVE ArchiveInv'
  BY <1>5 DEF CopyOut, lockVars
<1>6. ASSUME NEW j \in Jobs, Rename(j) PROVE ArchiveInv'
  BY <1>6, AttemptsAssumption DEF Rename, Install, lockVars
<1>7. ASSUME NEW j \in Jobs, GiveUp(j) PROVE ArchiveInv'
  BY <1>7 DEF GiveUp, lockVars
<1>8. ASSUME NEW j \in Jobs, Tidy(j) PROVE ArchiveInv'
  BY <1>8 DEF Tidy, lockVars
<1>9. ASSUME NEW j \in Jobs, Exit(j) PROVE ArchiveInv'
  BY <1>9 DEF Exit, Finish, End, Trap, LockTypeOK
<1>10. ASSUME NEW j \in Jobs, PipelineEnds(j) PROVE ArchiveInv'
  BY <1>10 DEF PipelineEnds, ArchiverEnds, LockTypeOK
<1>11. ASSUME NEW j \in Jobs, Killed(j) PROVE ArchiveInv'
  BY <1>11, StopKeeps DEF Killed
<1>12. ASSUME NEW j \in Jobs, Terminated(j) PROVE ArchiveInv'
  BY <1>12, StopKeeps DEF Terminated, Trap
<1>13. ASSUME (ReplaceLeaf \/ MoveRoot) /\ UNCHANGED dailyVars PROVE ArchiveInv'
  BY <1>13 DEF ReplaceLeaf, MoveRoot, Replace
<1>14. ASSUME UNCHANGED vars PROVE ArchiveInv'
  BY <1>14 DEF vars, lockVars
<1> QED
  BY <1>1, <1>2, <1>3, <1>4, <1>5, <1>6, <1>7, <1>8, <1>9, <1>10, <1>11, <1>12, <1>13,
     <1>14, Zenon DEF Next, Script

LEMMA ArchiveAlways == Spec => [](LockTypeOK /\ ArchiveInv)
<1>1. Spec => []LockTypeOK
  BY RunsUnderLock, LockTypeCorrect, PTL
<1> QED
  BY ArchiveInitially, ArchiveStep, <1>1, PTL DEF Spec

\* Every variable of the lock and of the script keeps its type.
THEOREM DailyTypeCorrect == Spec => []TypeOK
<1>1. LockTypeOK /\ ArchiveInv => TypeOK
  BY DEF ArchiveInv, DailyTypeOK, TypeOK
<1> QED
  BY ArchiveAlways, <1>1, PTL

\* The day's archive is never a part of one: codex_snapshot_daily.sh, any number of
\* runs, kills, signals, failing pipelines, copies and renames.
THEOREM ArchiveWhole == Spec => []PublishedWhole
<1>1. ArchiveInv => PublishedWhole
  BY DEF ArchiveInv
<1> QED
  BY ArchiveAlways, <1>1, PTL
--------------------------------------------------------------------------------
(* The staging directory.                                                    *)

\* What a run knows of the staging files, its own and the others'.
Staged(j) ==
  /\ pc[j] \in Attempting => step[j] = "begin"
  /\ step[j] = "begin" => staging[j] = "none"
  /\ At(j, "exit") => staging[j] = "none"
  /\ "archiver" \in live[j] => staging[j] # "complete"
  /\ replaced = 0 /\ At(j, "archive") => \A k \in Jobs : staging[k] = "none"
  /\ replaced = 0 /\ At(j, "tidy") => final.by = j

StagingInv == (\A j \in Jobs : Staged(j)) /\ OneStagingFile

Sole == LockInv /\ (\A j \in Jobs : Vouched(j)) /\ ArchiveInv

LEMMA SoleAlways == Spec => []Sole
<1>1. Spec => [](LockInv /\ \A j \in Jobs : Vouched(j))
  BY RunsUnderLock, LockAlways, PTL
<1> QED
  BY <1>1, ArchiveAlways, PTL DEF Sole

LEMMA StagingInitially == Init => StagingInv
  BY DEF Init, LockInit, StagingInv, Staged, At, OneStagingFile

\* A step of the wrapper or of the world is none of the script's.
LEMMA LockStepStaged ==
  ASSUME Sole, StagingInv, UNCHANGED dailyVars, NEW k \in Jobs, replaced' = 0 => replaced = 0,
         "archiver" \in live'[k] => "archiver" \in live[k],
         pc'[k] \in Attempting => pc[k] \in Attempting,
         pc'[k] = "work" => pc[k] \in Attempting \cup {"work"}
  PROVE  Staged(k)'
  BY DEF StagingInv, Staged, At, dailyVars

LEMMA StagingStep == Sole /\ StagingInv /\ [Next]_vars => StagingInv'
<1> SUFFICES ASSUME Sole, StagingInv, [Next]_vars PROVE StagingInv'
  OBVIOUS
<1>0. LockTypeOK /\ DailyTypeOK
  BY DEF Sole, LockInv, ArchiveInv
<1>a. ASSUME NEW j \in Jobs, NEW k \in Jobs, replaced = 0, pc[j] = "work", Working(k)
      PROVE  j = k
  BY <1>a, AloneAtWork DEF Sole, Working
<1>1. ASSUME NEW j \in Jobs, Locking(j) PROVE StagingInv'
  <2>1. ASSUME NEW k \in Jobs PROVE Staged(k)'
    BY <1>0, <1>1, LockingKeeps, LockStepStaged
    DEF Locking, Start, StartClaimingLock, Attempt, OpenRoot, HardenRoot, OpenLeaf, Check,
        Flock, Confirm, Refuse, End, LockTypeOK, Goto, Attempting
  <2> QED
    BY <1>1, <2>1 DEF Locking, dailyVars, StagingInv, OneStagingFile, Start, StartClaimingLock,
       Attempt, OpenRoot, HardenRoot, OpenLeaf, Check, Flock, Confirm, Refuse
<1>2. ASSUME NEW j \in Jobs, Killed(j) PROVE StagingInv'
  <2>1. ASSUME NEW k \in Jobs PROVE Staged(k)'
    BY <1>0, <1>2, StopKeeps, LockStepStaged
    DEF Killed, Stop, End, LockTypeOK, Goto, Attempting
  <2> QED
    BY <1>2, <2>1 DEF Killed, dailyVars, StagingInv, OneStagingFile, Stop
<1>3. ASSUME (ReplaceLeaf \/ MoveRoot) /\ UNCHANGED dailyVars PROVE StagingInv'
  <2>0. replaced' # 0
    BY <1>0, <1>3, BoundAssumption DEF ReplaceLeaf, MoveRoot, Replace, LockTypeOK
  <2>1. ASSUME NEW k \in Jobs PROVE Staged(k)'
    BY <1>3, <2>0, LockStepStaged DEF ReplaceLeaf, MoveRoot, Replace
  <2> QED
    BY <1>3, <2>0, <2>1 DEF StagingInv, OneStagingFile
<1>4. ASSUME UNCHANGED vars PROVE StagingInv'
  BY <1>4 DEF vars, lockVars, dailyVars, StagingInv, OneStagingFile, Staged, At
<1> USE <1>0 DEF StagingInv, OneStagingFile, Staged, At, Go, DailyTypeOK, Steps, Content,
             Attempting
<1>5. ASSUME NEW j \in Jobs, NothingToDo(j) PROVE StagingInv'
  BY <1>5 DEF NothingToDo, lockVars
<1>6. ASSUME NEW j \in Jobs, ClearStaging(j) PROVE StagingInv'
  BY <1>6 DEF ClearStaging, lockVars
<1>7. ASSUME NEW j \in Jobs, RunPipeline(j) PROVE StagingInv'
  <2>1. UNCHANGED <<pc, replaced, final>> /\ live' = [live EXCEPT ![j] = @ \cup {"archiver"}]
    BY <1>7 DEF RunPipeline, StartArchiver
  <2>2. ASSUME NEW k \in Jobs, replaced = 0, pc[k] = "work" PROVE k = j
    BY <1>7, <1>a, <2>2 DEF RunPipeline, Working
  <2>3. replaced = 0 => \A k \in Jobs : staging[k] = "none"
    BY <1>7 DEF RunPipeline
  <2> QED
    BY <1>7, <2>1, <2>2, <2>3 DEF RunPipeline, LockTypeOK
<1>8. ASSUME NEW j \in Jobs, CopyOut(j) PROVE StagingInv'
  BY <1>8 DEF CopyOut, lockVars
<1>9. ASSUME NEW j \in Jobs, Rename(j) PROVE StagingInv'
  <2>1. ASSUME NEW k \in Jobs, replaced = 0, pc[k] = "work" PROVE k = j
    BY <1>9, <1>a, <2>1 DEF Rename, Working
  <2> QED
    BY <1>9, <2>1 DEF Rename, Install, lockVars
<1>10. ASSUME NEW j \in Jobs, GiveUp(j) PROVE StagingInv'
  BY <1>10 DEF GiveUp, lockVars
<1>11. ASSUME NEW j \in Jobs, Tidy(j) PROVE StagingInv'
  BY <1>11 DEF Tidy, lockVars
<1>12. ASSUME NEW j \in Jobs, Exit(j) PROVE StagingInv'
  BY <1>12 DEF Exit, Finish, End, Trap, LockTypeOK, Goto
<1>13. ASSUME NEW j \in Jobs, PipelineEnds(j) PROVE StagingInv'
  BY <1>13 DEF PipelineEnds, ArchiverEnds, LockTypeOK
<1>14. ASSUME NEW j \in Jobs, Terminated(j) PROVE StagingInv'
  BY <1>14 DEF Terminated, Stop, End, Trap, LockTypeOK, Goto
<1> QED
  BY <1>1, <1>2, <1>3, <1>4, <1>5, <1>6, <1>7, <1>8, <1>9, <1>10, <1>11, <1>12, <1>13, <1>14,
     Zenon DEF Next, Script

LEMMA StagingAlways == Spec => [](Sole /\ StagingInv)
  BY SoleAlways, StagingInitially, StagingStep, PTL DEF Spec

\* While the lock's names are left alone the staging directory never holds two
\* archives, for any number of runs, killed ones and their leftovers included.
THEOREM StagingBounded == Spec => []OneStagingFile
<1>1. StagingInv => OneStagingFile
  BY DEF StagingInv
<1> QED
  BY StagingAlways, <1>1, PTL

\* Only ClearStaging takes a run past its beginning towards an archive.
LEMMA OnlyClearing ==
  ASSUME LockTypeOK, DailyTypeOK, [Next]_vars, NEW j \in Jobs, step[j] = "begin", step'[j] = "archive"
  PROVE  ClearStaging(j)
<1> USE DEF DailyTypeOK, Go, At, Steps
<1>1. ASSUME NEW k \in Jobs, Script(k) PROVE ClearStaging(j)
  BY <1>1 DEF Script, NothingToDo, ClearStaging, RunPipeline, CopyOut, Rename, GiveUp, Tidy, Exit
<1>2. ASSUME NEW k \in Jobs, PipelineEnds(k) \/ Terminated(k) PROVE ClearStaging(j)
  BY <1>2 DEF PipelineEnds, Terminated
<1>3. UNCHANGED step => ClearStaging(j)
  OBVIOUS
<1> QED
  BY <1>1, <1>2, <1>3, Zenon DEF Next, Locking, Killed, vars, dailyVars

\* A run that clears the staging directory takes no file from one at work.
THEOREM ClearsNoLiveFile == Spec => ClearsOnlyLeftovers
<1> DEFINE Spares == \A j, k \in Jobs :
             /\ j # k /\ step[j] = "begin" /\ step'[j] = "archive"
             /\ staging[k] # "none" /\ sure[j] /\ sure[k]
             => ~Working(k)
<1>1. Sole /\ StagingInv /\ [Next]_vars => [Spares]_vars
  <2> SUFFICES ASSUME Sole, [Next]_vars, NEW j \in Jobs, NEW k \in Jobs,
                      j # k, step[j] = "begin", step'[j] = "archive", sure[j], sure[k]
               PROVE  ~Working(k)
    OBVIOUS
  <2>1. ClearStaging(j)
    BY OnlyClearing DEF Sole, LockInv, ArchiveInv
  <2>2. Working(j)
    BY <2>1 DEF ClearStaging, At, Working
  <2> QED
    BY <2>2 DEF Sole, LockInv, Knows
<1> QED
  BY StagingAlways, <1>1, PTL DEF Spec, ClearsOnlyLeftovers

\* A finished archive is taken from the staging directory by its own run only after
\* that published it or was ended by a signal, and otherwise by the next run's start.
THEOREM FinishedArchiveKept == Spec => ArchiveKept
<1> DEFINE Excused(j) == \/ final.by = j
                         \/ stops' > stops
                         \/ \E k \in Jobs \ {j} : step[k] = "begin" /\ step'[k] = "archive"
<1> DEFINE Spares == \A j \in Jobs :
             replaced = 0 /\ staging[j] = "complete" /\ staging'[j] # "complete" => Excused(j)
<1>1. Sole /\ StagingInv /\ [Next]_vars => [Spares]_vars
  <2> SUFFICES ASSUME Sole, StagingInv, [Next]_vars, NEW j \in Jobs,
                      replaced = 0, staging[j] = "complete", staging'[j] # "complete"
               PROVE  Excused(j)
    OBVIOUS
  <2> USE DEF Staged, StagingInv, At, Go
  <2>0. LockTypeOK /\ DailyTypeOK
    BY DEF Sole, LockInv, ArchiveInv
  <2> USE <2>0 DEF DailyTypeOK
  <2>1. ASSUME NEW k \in Jobs, ClearStaging(k) PROVE Excused(j)
    BY <2>1 DEF ClearStaging
  <2>2. ASSUME NEW k \in Jobs, RunPipeline(k) PROVE Excused(j)
    BY <2>2 DEF RunPipeline
  <2>3. ASSUME NEW k \in Jobs, PipelineEnds(k) PROVE Excused(j)
    BY <2>3 DEF PipelineEnds, ArchiverEnds
  <2>4. ASSUME NEW k \in Jobs, Tidy(k) PROVE Excused(j)
    BY <2>4 DEF Tidy
  <2>5. ASSUME NEW k \in Jobs, Exit(k) PROVE Excused(j)
    BY <2>5 DEF Exit, Trap
  <2>6. ASSUME NEW k \in Jobs, Terminated(k) PROVE Excused(j)
    <3>1. stops' = stops + 1 /\ stops \in Nat
      BY <2>6 DEF Terminated, Stop, LockTypeOK
    <3> QED
      BY <3>1
  <2>7. ASSUME NEW k \in Jobs, NothingToDo(k) \/ CopyOut(k) \/ Rename(k) \/ GiveUp(k)
        PROVE Excused(j)
    BY <2>7 DEF NothingToDo, CopyOut, Rename, GiveUp
  <2>8. ~UNCHANGED dailyVars /\ ~UNCHANGED vars
    BY DEF dailyVars, vars
  <2> QED
    BY <2>1, <2>2, <2>3, <2>4, <2>5, <2>6, <2>7, <2>8, Zenon DEF Next, Script, Locking, Killed
<1> QED
  BY StagingAlways, <1>1, PTL DEF Spec, ArchiveKept
================================================================================
