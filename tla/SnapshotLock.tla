---------------------------- MODULE SnapshotLock ----------------------------
(***************************************************************************)
(* codex_snapshot_lock.py: the flock wrapper around the daily snapshot.     *)
(* `acquire` opens the state directory and the leaf snapshot.lock, takes    *)
(* the lock and execs the job with the locked descriptor as fd 9; the job   *)
(* runs `verify` on the inherited descriptor and only then works.  The lock *)
(* belongs to the open file description, so it lives as long as any process *)
(* that holds the descriptor: the script, or an archiver it started and     *)
(* that outlived it.  Outsiders may put another file or another directory   *)
(* under the names between any two system calls, and processes may be       *)
(* killed at any point.                                                     *)
(***************************************************************************)
EXTENDS Naturals

CONSTANTS Jobs,             \* runs of the wrapper, or of the script started directly
          Inodes, Unsafe,   \* lock files; those with a second link or a foreign owner
          Dirs,             \* directory objects that may carry the state root's name
          MaxReplacements,  \* bound on the outsiders' replacements of a name
          MaxStops          \* bound on kills and system errors

ASSUME UnsafeAssumption == Unsafe \subseteq Inodes
ASSUME BoundAssumption == MaxReplacements \in Nat /\ MaxStops \in Nat

NoOne == "no one"
NoFile == "no file"

ASSUME NamesAssumption == NoOne \notin Jobs /\ NoFile \notin Inodes

VARIABLES root,     \* the directory object the canonical path names
          leaf,     \* per directory, the inode named snapshot.lock
          flocked,  \* per inode, the job whose description holds the flock
          stage,    \* "acquire" in the wrapper, "verify" in the script
          pc, heldRoot, lockFd,
          live,     \* per job, which of its processes are alive
          sure,     \* the names have not been touched since the job's last check
          replaced, stops

lockVars == <<root, leaf, flocked, stage, pc, heldRoot, lockFd, live, sure, replaced, stops>>

Points == {"idle", "open_root", "harden_root", "open_leaf", "check", "flock",
           "confirm", "work", "done", "busy", "fatal", "killed"}

LockTypeOK ==
  /\ root \in Dirs
  /\ leaf \in [Dirs -> Inodes \cup {NoFile}]
  /\ flocked \in [Inodes -> Jobs \cup {NoOne}]
  /\ stage \in [Jobs -> {"acquire", "verify"}]
  /\ pc \in [Jobs -> Points]
  /\ heldRoot \in [Jobs -> Dirs \cup {NoFile}]
  /\ lockFd \in [Jobs -> Inodes \cup {NoFile}]
  /\ live \in [Jobs -> SUBSET {"script", "archiver"}]
  /\ sure \in [Jobs -> BOOLEAN]
  /\ replaced \in 0..MaxReplacements /\ stops \in 0..MaxStops

LockInit ==
  /\ root \in Dirs
  /\ leaf \in [Dirs -> Inodes \cup {NoFile}]
  /\ \A d, e \in Dirs : d # e /\ leaf[d] # NoFile => leaf[d] # leaf[e]
  /\ flocked = [i \in Inodes |-> NoOne]
  /\ stage = [j \in Jobs |-> "acquire"]
  /\ pc = [j \in Jobs |-> "idle"]
  /\ heldRoot = [j \in Jobs |-> NoFile]
  /\ lockFd = [j \in Jobs |-> NoFile]
  /\ live = [j \in Jobs |-> {}]
  /\ sure = [j \in Jobs |-> FALSE]
  /\ replaced = 0 /\ stops = 0

Goto(j, point) == pc' = [pc EXCEPT ![j] = point]

\* The flocks left when the last process holding j's descriptor is gone.
Released(j) == [i \in Inodes |-> IF flocked[i] = j THEN NoOne ELSE flocked[i]]

\* Mutant: the archiver does not inherit the descriptor.
LockDiesWithScript(j, point) ==
  /\ live' = [live EXCEPT ![j] = @ \ {"script"}]
  /\ flocked' = Released(j)
  /\ lockFd' = [lockFd EXCEPT ![j] = NoFile]
  /\ sure' = sure
  /\ heldRoot' = [heldRoot EXCEPT ![j] = NoFile]
  /\ Goto(j, point)

\* The script (or wrapper) of j ends with the status `point`; an archiver it
\* started keeps the descriptor open, and with it the lock.
End(j, point) ==
  LET left == live[j] \ {"script"} IN
  /\ live' = [live EXCEPT ![j] = left]
  /\ flocked' = IF left = {} THEN Released(j) ELSE flocked
  /\ lockFd' = IF left = {} THEN [lockFd EXCEPT ![j] = NoFile] ELSE lockFd
  /\ sure' = IF left = {} THEN [sure EXCEPT ![j] = FALSE] ELSE sure
  /\ heldRoot' = [heldRoot EXCEPT ![j] = NoFile]
  /\ Goto(j, point)

RootMatches(j) == heldRoot[j] = root
LeafMatches(j) == lockFd[j] \in Inodes \ Unsafe /\ leaf[heldRoot[j]] = lockFd[j]

\* launchd, a user or a second run starts the script, which execs the wrapper.
Start(j) ==
  /\ pc[j] = "idle"
  /\ live' = [live EXCEPT ![j] = {"script"}]
  /\ Goto(j, "open_root")
  /\ UNCHANGED <<root, leaf, flocked, stage, heldRoot, lockFd, sure, replaced, stops>>

\* Mutant: a missing descriptor is not told from a file.
StartWithAnything(j) ==
  /\ pc[j] = "idle"
  /\ live' = [live EXCEPT ![j] = {"script"}]
  /\ stage' = [stage EXCEPT ![j] = "verify"]
  /\ lockFd' = [lockFd EXCEPT ![j] = NoOne]
  /\ Goto(j, "open_root")
  /\ UNCHANGED <<root, leaf, flocked, heldRoot, sure, replaced, stops>>

\* The script started by hand with --snapshot-lock-held and some open file,
\* or nothing, as fd 9: the claim that the lock is held may be false.
StartClaimingLock(j) ==
  /\ pc[j] = "idle"
  /\ live' = [live EXCEPT ![j] = {"script"}]
  /\ stage' = [stage EXCEPT ![j] = "verify"]
  /\ \E i \in Inodes \cup {NoFile} : lockFd' = [lockFd EXCEPT ![j] = i]
  /\ Goto(j, "open_root")
  /\ UNCHANGED <<root, leaf, flocked, heldRoot, sure, replaced, stops>>

OpenRoot(j) ==
  /\ pc[j] = "open_root"
  /\ heldRoot' = [heldRoot EXCEPT ![j] = root]
  /\ Goto(j, "harden_root")
  /\ UNCHANGED <<root, leaf, flocked, stage, lockFd, live, sure, replaced, stops>>

HardenRoot(j) ==
  /\ pc[j] = "harden_root"
  /\ RootMatches(j)
  /\ Goto(j, IF stage[j] = "acquire" THEN "open_leaf" ELSE "check")
  /\ UNCHANGED <<root, leaf, flocked, stage, heldRoot, lockFd, live, sure, replaced, stops>>

Free == {i \in Inodes \ Unsafe : /\ \A d \in Dirs : leaf[d] # i
                                 /\ \A j \in Jobs : lockFd[j] # i}

\* O_CREAT without O_EXCL: the existing leaf, or a new one.
OpenLeaf(j) ==
  /\ pc[j] = "open_leaf"
  /\ \E i \in IF leaf[heldRoot[j]] = NoFile THEN Free
              ELSE {leaf[heldRoot[j]]} \ Unsafe :
       /\ leaf' = [leaf EXCEPT ![heldRoot[j]] = i]
       /\ lockFd' = [lockFd EXCEPT ![j] = i]
  /\ Goto(j, "check")
  /\ UNCHANGED <<root, flocked, stage, heldRoot, live, sure, replaced, stops>>

\* Hardening and the last look at both names before the flock.
Check(j) ==
  /\ pc[j] = "check"
  /\ RootMatches(j) /\ LeafMatches(j)
  /\ Goto(j, "flock")
  /\ UNCHANGED <<root, leaf, flocked, stage, heldRoot, lockFd, live, sure, replaced, stops>>

\* Mutant: the claim of an inherited lock is taken at its word.
ClaimTrusted(j) ==
  /\ pc[j] = "flock"
  /\ \/ /\ stage[j] = "verify" \/ flocked[lockFd[j]] \in {NoOne, j}
        /\ flocked' = IF stage[j] = "verify" THEN flocked
                      ELSE [flocked EXCEPT ![lockFd[j]] = j]
        /\ Goto(j, "confirm")
        /\ UNCHANGED <<heldRoot, lockFd, live, sure>>
     \/ /\ stage[j] = "acquire" /\ flocked[lockFd[j]] \notin {NoOne, j}
        /\ End(j, "busy")
  /\ UNCHANGED <<root, leaf, stage, replaced, stops>>

\* flock(LOCK_EX | LOCK_NB) of j's description; granted again to its holder.
Flock(j) ==
  /\ pc[j] = "flock"
  /\ \/ /\ flocked[lockFd[j]] \in {NoOne, j}
        /\ flocked' = [flocked EXCEPT ![lockFd[j]] = j]
        /\ Goto(j, "confirm")
        /\ UNCHANGED <<heldRoot, lockFd, live, sure>>
     \/ /\ flocked[lockFd[j]] \notin {NoOne, j}
        /\ End(j, "busy")
  /\ UNCHANGED <<root, leaf, stage, replaced, stops>>

\* Mutant: the names are not looked at again under the lock.
NotConfirmed(j) ==
  /\ pc[j] = "confirm"
  /\ sure' = [sure EXCEPT ![j] = TRUE]
  /\ stage' = [stage EXCEPT ![j] = "verify"]
  /\ Goto(j, IF stage[j] = "acquire" THEN "open_root" ELSE "work")
  /\ heldRoot' = [heldRoot EXCEPT ![j] = NoFile]
  /\ UNCHANGED <<root, leaf, flocked, lockFd, live, replaced, stops>>

\* Mutant: the descriptor is closed on exec.
ClosedOnExec(j) ==
  /\ pc[j] = "confirm"
  /\ RootMatches(j) /\ LeafMatches(j)
  /\ stage' = [stage EXCEPT ![j] = "verify"]
  /\ heldRoot' = [heldRoot EXCEPT ![j] = NoFile]
  /\ IF stage[j] = "acquire"
     THEN /\ flocked' = Released(j) /\ lockFd' = [lockFd EXCEPT ![j] = NoFile]
          /\ Goto(j, "open_root") /\ UNCHANGED sure
     ELSE /\ sure' = [sure EXCEPT ![j] = TRUE] /\ Goto(j, "work")
          /\ UNCHANGED <<flocked, lockFd>>
  /\ UNCHANGED <<root, leaf, live, replaced, stops>>

\* Both names still map to the held objects now that the lock is held: the
\* wrapper execs the script with the descriptor inherited, the script works.
Confirm(j) ==
  /\ pc[j] = "confirm"
  /\ RootMatches(j) /\ LeafMatches(j)
  /\ sure' = [sure EXCEPT ![j] = TRUE]
  /\ stage' = [stage EXCEPT ![j] = "verify"]
  /\ Goto(j, IF stage[j] = "acquire" THEN "open_root" ELSE "work")
  /\ heldRoot' = [heldRoot EXCEPT ![j] = NoFile]
  /\ UNCHANGED <<root, leaf, flocked, lockFd, live, replaced, stops>>

\* A check that fails ends the process with status 70.
Refuse(j) ==
  /\ \/ pc[j] = "harden_root" /\ ~RootMatches(j)
     \/ pc[j] = "open_leaf" /\ leaf[heldRoot[j]] \in Unsafe
     \/ pc[j] \in {"check", "confirm"} /\ ~(RootMatches(j) /\ LeafMatches(j))
  /\ End(j, "fatal")
  /\ UNCHANGED <<root, leaf, stage, replaced, stops>>

\* The script's pipeline, which inherits fd 9, and its end.
StartArchiver(j) ==
  /\ pc[j] = "work"
  /\ live' = [live EXCEPT ![j] = @ \cup {"archiver"}]
  /\ UNCHANGED <<root, leaf, flocked, stage, pc, heldRoot, lockFd, sure, replaced, stops>>

ArchiverEnds(j) ==
  LET left == live[j] \ {"archiver"} IN
  /\ "archiver" \in live[j]
  /\ live' = [live EXCEPT ![j] = left]
  /\ flocked' = IF left = {} THEN Released(j) ELSE flocked
  /\ lockFd' = IF left = {} THEN [lockFd EXCEPT ![j] = NoFile] ELSE lockFd
  /\ sure' = IF left = {} THEN [sure EXCEPT ![j] = FALSE] ELSE sure
  /\ UNCHANGED <<root, leaf, stage, pc, heldRoot, replaced, stops>>

\* The script waits for its pipeline before it goes on or exits.
Finish(j) ==
  /\ pc[j] = "work" /\ live[j] = {"script"}
  /\ End(j, "done")
  /\ UNCHANGED <<root, leaf, stage, replaced, stops>>

Replace == /\ replaced < MaxReplacements
           /\ replaced' = replaced + 1
           /\ sure' = [j \in Jobs |-> FALSE]
           /\ UNCHANGED <<flocked, stage, pc, heldRoot, lockFd, live, stops>>

ReplaceLeaf ==
  /\ Replace
  /\ \E i \in (Inodes \cup {NoFile}) \ {leaf[d] : d \in Dirs} :
       leaf' = [leaf EXCEPT ![root] = i]
  /\ UNCHANGED root

MoveRoot ==
  /\ Replace
  /\ root' \in Dirs \ {root}
  /\ UNCHANGED leaf

\* A system error ends the process with status 70, a SIGKILL with none.
Stop(j) ==
  /\ stops < MaxStops
  /\ stops' = stops + 1
  /\ "script" \in live[j]
  /\ \E point \in {"fatal", "killed"} :
       (point = "fatal" => pc[j] # "work") /\ End(j, point)
  /\ UNCHANGED <<root, leaf, stage, replaced>>

Attempt(j) == OpenRoot(j) \/ HardenRoot(j) \/ OpenLeaf(j) \/ Check(j)
              \/ Flock(j) \/ Confirm(j) \/ Refuse(j)

LockNext == \/ \E j \in Jobs : \/ Start(j) \/ StartClaimingLock(j) \/ Attempt(j)
                               \/ StartArchiver(j) \/ ArchiverEnds(j) \/ Finish(j)
                               \/ Stop(j)
            \/ ReplaceLeaf \/ MoveRoot

\* SnapshotDaily fills in what a job does while it works, and the fairness.
LockSpec == LockInit /\ [][LockNext]_lockVars
-----------------------------------------------------------------------------
\* j's script or an archiver it left behind is at work under the lock.
Working(j) == pc[j] = "work" \/ "archiver" \in live[j]

\* Two jobs are never at work together unless somebody replaced the lock's
\* names after one of them had made its last check, orphaned archivers and
\* scripts that merely claim the lock included.
MutualExclusion ==
  \A j, k \in Jobs : j # k /\ Working(j) /\ Working(k) => ~(sure[j] /\ sure[k])

\* A job starts work only while its own description holds the flock of the
\* inode that snapshot.lock names in the directory the state root names.
WorkUnderNamedLock ==
  [][\A j \in Jobs : pc[j] # "work" /\ pc'[j] = "work"
       => lockFd[j] = leaf[root] /\ flocked[leaf[root]] = j]_lockVars

\* Undisturbed, runs that compete for a usable lock do not all fail: once one
\* of them goes through the wrapper, one gets to work.
SomeoneWorks ==
  [](replaced = 0 /\ stops = 0 /\ leaf[root] \notin Unsafe)
    => ((\E j \in Jobs : pc[j] = "open_root" /\ stage[j] = "acquire")
          ~> (\E j \in Jobs : pc[j] = "work" \/ pc[j] = "done"))
=============================================================================
