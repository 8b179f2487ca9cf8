--------------------------- MODULE MirrorMaintenance ---------------------------
(***************************************************************************)
(* sync_codex_rollout_mirror of codex_rollout_mirror_common.sh, for one     *)
(* rollout: it lists the sources and the mirrored files, has the helper     *)
(* (MirrorCopy) refresh the mirror at the source's relative path, and then  *)
(* removes the copies that stand under paths the rollout has left.  Codex   *)
(* appends to the rollout, archives it, takes it back or deletes it meanwhile; *)
(* once it may rewrite it as an unfinished first line, and no more is written.  *)
(* A size is a number of half lines: an odd one ends in an unfinished line. *)
(***************************************************************************)
EXTENDS Naturals, FiniteSets, SequencesExt

CONSTANTS Roots,        \* the places of the rollout, in the order they are searched
          MaxSize, MaxMoves, MaxRuns, MaxFaults

ASSUME RootsAssumption == Roots \in Seq(STRING) /\ Roots # <<>>
ASSUME BoundsAssumption == {MaxSize, MaxMoves, MaxRuns, MaxFaults} \subseteq Nat

Paths == {Roots[i] : i \in DOMAIN Roots}
None == "none"

ASSUME NoneAssumption == None \notin Paths

VARIABLES at, size, cut,            \* the rollout: where, its size, was it rewritten
          mirror,                   \* size of the copy at each path, 0 if there is none
          pc, root, run,
          sources, mirrors,         \* the two inventories
          current,                  \* position in sources
          relocated, duplicates,    \* the copies to remove once the mirror is safe
          copied,                   \* what the helper's receipt says
          status,
          moves, faults, calm       \* bounds; nothing happened since the run began

codex == <<at, size, cut, moves>>
inventory == <<root, sources, mirrors>>
plan == <<relocated, duplicates>>
vars == <<codex, mirror, pc, run, inventory, current, plan, copied, status, faults, calm>>

Outcomes == {"none", "updated", "unchanged", "no-complete-line", "no mirror"}

TypeOK ==
  /\ at \in Paths \cup {None} /\ size \in 0..MaxSize /\ cut \in BOOLEAN
  /\ mirror \in [Paths -> 0..MaxSize]
  /\ pc \in {"idle", "sources", "mirrors", "rollout", "stat", "copy", "relocate", "prune"}
  /\ root \in 1..(Len(Roots) + 1) /\ run \in 0..MaxRuns
  /\ sources \in Seq(Paths) /\ mirrors \subseteq Paths
  /\ current \in 0..(Len(Roots) + 1)
  /\ relocated \in Paths \cup {None} /\ duplicates \subseteq Paths
  /\ copied \in Outcomes /\ status \in 0..2
  /\ moves \in 0..MaxMoves /\ faults \in 0..MaxFaults /\ calm \in BOOLEAN

Init ==
  /\ at \in Paths /\ size \in 1..MaxSize /\ cut = FALSE
  /\ mirror = [p \in Paths |-> 0]
  /\ pc = "idle" /\ run = 0
  /\ root = 1 /\ sources = <<>> /\ mirrors = {} /\ current = 1
  /\ relocated = None /\ duplicates = {} /\ copied = "none"
  /\ status = 0
  /\ moves = 0 /\ faults = 0 /\ calm = TRUE
--------------------------------------------------------------------------------
CompleteLines(n) == n - (n % 2)

Fault == faults < MaxFaults /\ faults' = faults + 1 /\ calm' = FALSE

Begin ==
  /\ pc = "idle" /\ run < MaxRuns
  /\ run' = run + 1 /\ pc' = "sources" /\ calm' = TRUE
  /\ root' = 1 /\ sources' = <<>> /\ mirrors' = {} /\ current' = 1
  /\ relocated' = None /\ duplicates' = {} /\ copied' = "none"
  /\ status' = 0
  /\ UNCHANGED <<codex, mirror, faults>>

\* find_codex_rollout_sources, one root after the other; empty files are passed over.
FindSources ==
  /\ pc = "sources"
  /\ IF root > Len(Roots)
     THEN pc' = "mirrors" /\ UNCHANGED <<root, sources>>
     ELSE /\ root' = root + 1 /\ UNCHANGED pc
          /\ sources' = IF at = Roots[root] /\ size > 0
                        THEN Append(sources, Roots[root]) ELSE sources
  /\ UNCHANGED <<codex, mirror, run, mirrors, current, plan, copied, status, faults, calm>>

FindMirrors ==
  /\ pc = "mirrors"
  /\ mirrors' = {p \in Paths : mirror[p] > 0}
  /\ pc' = "rollout"
  /\ UNCHANGED <<codex, mirror, run, root, sources, current, plan, copied, status, faults, calm>>

rel == sources[current]
\* build_stale_mirror_match_index, less the copies that are gone by now
Stale == {p \in mirrors \ ({rel} \cup Range(sources)) : mirror[p] > 0}

\* The next source of the inventory: the first copy that stands elsewhere is one
\* to relocate if there is none at its own path, every other one a duplicate.
TakeRollout ==
  /\ pc = "rollout"
  /\ copied' = "none"
  /\ IF current > Len(sources)
     THEN pc' = "idle" /\ UNCHANGED plan
     ELSE /\ pc' = "stat"
          /\ IF mirror[rel] = 0 /\ Stale # {}
             THEN /\ relocated' \in Stale
                  /\ duplicates' = Stale \ {relocated'}
             ELSE relocated' = None /\ duplicates' = Stale
  /\ UNCHANGED <<codex, mirror, run, inventory, current, status, faults, calm>>

\* Also the end of an entry that is put off: what is listed for a caller is left out.
NextRollout == pc' = "rollout" /\ current' = current + 1

\* Mutant: the sizes alone decide.
RefreshBySize == size # mirror[rel]

RefreshNeeded == relocated # None \/ duplicates # {} \/ size # mirror[rel]

Stat ==
  /\ pc = "stat"
  /\ IF at # rel THEN NextRollout
     ELSE IF RefreshNeeded THEN pc' = "copy" /\ UNCHANGED current
     ELSE NextRollout
  /\ UNCHANGED <<codex, mirror, run, inventory, plan, copied, status, faults, calm>>

\* The helper: it publishes the complete lines, finds nothing to publish, or defers.
Copy ==
  /\ pc = "copy"
  /\ IF at # rel
     THEN NextRollout /\ UNCHANGED <<mirror, copied>>
     ELSE LET lines == CompleteLines(size)
          IN /\ copied' = IF lines = 0
                          THEN IF mirror[rel] = 0 THEN "no mirror" ELSE "no-complete-line"
                          ELSE IF mirror[rel] = lines THEN "unchanged" ELSE "updated"
             /\ mirror' = IF lines = 0 THEN mirror ELSE [mirror EXCEPT ![rel] = lines]
             /\ IF copied' = "no mirror"
                THEN NextRollout
                ELSE pc' = "relocate" /\ UNCHANGED current
  /\ UNCHANGED <<codex, run, inventory, plan, status, faults, calm>>

\* A deferred receipt puts the rollout off; a fatal one, which may have published
\* or not, ends the sync.
CopyFails ==
  /\ pc = "copy" /\ Fault
  /\ \/ NextRollout /\ UNCHANGED <<mirror, status>>
     \/ /\ status' = 2 /\ pc' = "idle"
        /\ \/ UNCHANGED mirror
           \/ /\ at = rel /\ CompleteLines(size) > 0
              /\ mirror' = [mirror EXCEPT ![rel] = CompleteLines(size)]
        /\ UNCHANGED current
  /\ UNCHANGED <<codex, run, inventory, plan, copied>>

\* Mutant: the matching form is not used.
RemoveAlways(p) == mirror' = [mirror EXCEPT ![p] = 0]

\* remove_stale_mirror_file and, when nothing was copied, its matching form, which
\* spares a copy that is not the same as the mirror's.
RemoveCopy(p) ==
  IF copied # "no-complete-line" \/ mirror[p] = mirror[rel]
  THEN mirror' = [mirror EXCEPT ![p] = 0] ELSE UNCHANGED mirror

Relocate ==
  /\ pc = "relocate"
  /\ pc' = "prune"
  /\ IF relocated = None THEN UNCHANGED mirror ELSE RemoveCopy(relocated)
  /\ UNCHANGED <<codex, run, inventory, current, plan, copied, status, faults, calm>>

Prune ==
  /\ pc = "prune"
  /\ IF duplicates = {}
     THEN NextRollout /\ UNCHANGED <<mirror, duplicates>>
     ELSE \E p \in duplicates :
            RemoveCopy(p) /\ duplicates' = duplicates \ {p} /\ UNCHANGED <<pc, current>>
  /\ UNCHANGED <<codex, run, inventory, relocated, copied, status, faults, calm>>

\* A removal or an inventory that fails ends the sync, and so does a stop.
Ends ==
  /\ pc # "idle" /\ Fault
  /\ status' = 1 /\ pc' = "idle"
  /\ UNCHANGED <<codex, mirror, run, inventory, current, plan, copied>>
--------------------------------------------------------------------------------
Codex == /\ calm' = FALSE
         /\ UNCHANGED <<mirror, pc, run, inventory, current, plan, copied, status,
                        faults>>
Grow == /\ at # None /\ size < MaxSize /\ ~cut /\ size' = size + 1
        /\ UNCHANGED <<at, cut, moves>> /\ Codex
Move == /\ moves < MaxMoves /\ moves' = moves + 1
        /\ at # None /\ at' \in (Paths \cup {None}) \ {at}
        /\ UNCHANGED <<size, cut>> /\ Codex
Rewrite == /\ at # None /\ ~cut /\ cut' = TRUE /\ size' = 1
           /\ UNCHANGED <<at, moves>> /\ Codex

Script == \/ FindSources \/ FindMirrors \/ TakeRollout \/ Stat \/ Copy \/ Relocate \/ Prune
Next == Begin \/ Script \/ CopyFails \/ Ends \/ Grow \/ Move \/ Rewrite
Spec == Init /\ [][Next]_vars
--------------------------------------------------------------------------------
\* No step takes lines from the backup: a copy is replaced or removed only while a
\* copy with at least its lines stands, wherever the rollout was moved meanwhile.
NothingLost == [][\A p \in Paths : \E q \in Paths : mirror'[q] >= mirror[p]]_vars

\* A sync that met no change and no error leaves one copy, under the rollout's own
\* path and with all its complete lines, whatever earlier runs have left behind.
CalmSyncConverges ==
  pc = "idle" /\ run > 0 /\ calm /\ at # None /\ CompleteLines(size) > 0 =>
    mirror = [p \in Paths |-> IF p = at THEN CompleteLines(size) ELSE 0]
================================================================================
