------------------------ MODULE MirrorMaintenanceProofs ------------------------
(***************************************************************************)
(* Proofs about MirrorMaintenance, for any places of the rollout and any    *)
(* number of moves, runs and faults.                                        *)
(***************************************************************************)
EXTENDS MirrorMaintenance, SequenceTheorems, TLAPS

AtSource == {"stat", "copy", "relocate", "prune"}
Removing == {"relocate", "prune"}

Counters ==
  /\ size \in 1..MaxSize
  /\ run \in 0..MaxRuns /\ status \in 0..2
  /\ moves \in 0..MaxMoves /\ faults \in 0..MaxFaults

Labels ==
  /\ at \in Paths \cup {None} /\ cut \in BOOLEAN /\ calm \in BOOLEAN
  /\ pc \in {"idle", "sources", "mirrors", "rollout", "stat", "copy", "relocate", "prune"}
  /\ mirrors \subseteq Paths
  /\ relocated \in Paths \cup {None} /\ duplicates \subseteq Paths
  /\ copied \in Outcomes

\* Where the run stands in the roots and in its inventory of them.
Progress ==
  /\ root \in 1..(Len(Roots) + 1)
  /\ sources \in Seq(Paths) /\ Len(sources) < root
  /\ current \in 1..(Len(sources) + 1)
  /\ pc \in AtSource => current \in 1..Len(sources)

\* No copy has more lines than the rollout, unless that was rewritten, and then
\* it has no line.
Backed ==
  /\ mirror \in [Paths -> 0..MaxSize]
  /\ ~cut => \A p \in Paths : mirror[p] <= CompleteLines(size)
  /\ cut => size = 1

\* What is listed for removal is not the mirror itself, and once that has been
\* refreshed no copy has more lines.
Safe ==
  /\ pc \in AtSource => rel \notin duplicates /\ (relocated # None => relocated # rel)
  /\ pc \in Removing /\ copied # "no-complete-line" =>
       \A p \in Paths : mirror[p] <= mirror[rel]

MirrorInv == Counters /\ Labels /\ Progress /\ Backed /\ Safe

LEMMA PathsOfRoots == \A i \in 1..Len(Roots) : Roots[i] \in Paths
  BY RootsAssumption, LenProperties DEF Paths

\* The complete lines of a rollout fit in it, and grow with it.
LEMMA LinesFit ==
  \A n \in Nat : /\ CompleteLines(n) \in 0..n
                 /\ CompleteLines(n) <= CompleteLines(n + 1)
  BY DEF CompleteLines

LEMMA FirstHalfLine == CompleteLines(1) = 0
  BY DEF CompleteLines

LEMMA MirrorInitially == Init => MirrorInv
<1> SUFFICES ASSUME Init PROVE MirrorInv
  OBVIOUS
<1>1. Counters
  BY BoundsAssumption DEF Init, Counters
<1>2. Len(Roots) \in Nat /\ <<>> \in Seq(Paths) /\ Len(<<>>) = 0
  BY RootsAssumption, LenProperties
<1>3. Progress
  BY <1>2 DEF Init, Progress, AtSource
<1>4. Backed
  <2>1. CompleteLines(size) \in 0..size
    BY <1>1, LinesFit DEF Counters
  <2>2. 0 \in 0..MaxSize
    BY BoundsAssumption
  <2>3. mirror \in [Paths -> 0..MaxSize] /\ \A p \in Paths : mirror[p] = 0
    BY <2>2 DEF Init
  <2> QED
    BY <1>1, <2>1, <2>3 DEF Init, Backed, Counters
<1>5. Safe
  BY DEF Init, Safe, AtSource, Removing
<1>6. Labels
  BY Zenon DEF Init, Labels, Outcomes
<1> QED
  BY <1>1, <1>3, <1>4, <1>5, <1>6 DEF MirrorInv

LEMMA CurrentSource ==
  ASSUME MirrorInv, pc \in AtSource PROVE rel \in Paths
<1>1. sources \in Seq(Paths) /\ current \in 1..Len(sources)
  BY DEF MirrorInv, Progress
<1> QED
  BY <1>1, ElementOfSeq DEF rel

\* A removal leaves the mirror alone, and a copy in it with the lines removed.
LEMMA RemovalSpares ==
  ASSUME MirrorInv, pc \in Removing, NEW p \in Paths, p # rel, RemoveCopy(p)
  PROVE  /\ mirror' \in [Paths -> 0..MaxSize]
         /\ \A q \in Paths : mirror'[q] <= mirror[q]
         /\ mirror'[rel] = mirror[rel]
         /\ \A q \in Paths : \E s \in Paths : mirror'[s] >= mirror[q]
<1>1. rel \in Paths
  BY CurrentSource DEF Removing, AtSource
<1>2. mirror \in [Paths -> 0..MaxSize] /\ 0 \in 0..MaxSize
  BY BoundsAssumption DEF MirrorInv, Backed
<1>3. mirror' = mirror \/ mirror' = [mirror EXCEPT ![p] = 0]
  BY DEF RemoveCopy
<1>4. mirror' = mirror \/ mirror[p] <= mirror[rel]
  <2>1. mirror' = mirror \/ copied # "no-complete-line" \/ mirror[p] = mirror[rel]
    BY DEF RemoveCopy
  <2>2. copied # "no-complete-line" => mirror[p] <= mirror[rel]
    BY DEF MirrorInv, Safe
  <2> QED
    BY <1>1, <1>2, <2>1, <2>2
<1> QED
  BY <1>1, <1>2, <1>3, <1>4

\* What the helper publishes: all complete lines there are, at the rollout's path.
LEMMA PublishedLines ==
  ASSUME MirrorInv, rel \in Paths, CompleteLines(size) > 0,
         mirror' = [mirror EXCEPT ![rel] = CompleteLines(size)]
  PROVE  /\ mirror' \in [Paths -> 0..MaxSize]
         /\ \A q \in Paths : mirror[q] <= mirror'[q]
         /\ \A q \in Paths : mirror'[q] <= CompleteLines(size)
         /\ mirror'[rel] = CompleteLines(size)
         /\ ~cut
<1>1. size \in 1..MaxSize /\ CompleteLines(size) \in 0..size
  BY LinesFit DEF MirrorInv, Counters
<1>2. ~cut
  BY FirstHalfLine DEF MirrorInv, Backed
<1>3. mirror \in [Paths -> 0..MaxSize] /\ \A q \in Paths : mirror[q] <= CompleteLines(size)
  BY <1>2 DEF MirrorInv, Backed
<1>4. CompleteLines(size) \in 0..MaxSize
  BY <1>1, BoundsAssumption
<1> QED
  BY <1>2, <1>3, <1>4

\* Where a removal is made, and of what.
LEMMA Removals ==
  ASSUME MirrorInv, Relocate \/ Prune, mirror' # mirror
  PROVE  pc \in Removing /\ \E p \in Paths : p # rel /\ RemoveCopy(p)
<1>1. CASE Relocate
  <2>1. pc \in Removing /\ relocated # None /\ RemoveCopy(relocated)
    BY <1>1 DEF Relocate, Removing
  <2>2. relocated \in Paths /\ relocated # rel
    BY <2>1 DEF MirrorInv, Labels, Safe, Removing, AtSource
  <2> QED
    BY <2>1, <2>2
<1>2. CASE Prune
  <2>1. pc \in Removing /\ \E p \in duplicates : RemoveCopy(p)
    BY <1>2 DEF Prune, Removing
  <2>2. duplicates \subseteq Paths /\ rel \notin duplicates
    BY <2>1 DEF MirrorInv, Labels, Safe, Removing, AtSource
  <2> QED
    BY <2>1, <2>2
<1> QED
  BY <1>1, <1>2

LEMMA Removed ==
  ASSUME MirrorInv, Relocate \/ Prune
  PROVE  /\ mirror' \in [Paths -> 0..MaxSize]
         /\ \A q \in Paths : mirror'[q] <= mirror[q]
         /\ mirror'[rel] = mirror[rel]
         /\ \A q \in Paths : \E s \in Paths : mirror'[s] >= mirror[q]
<1>1. CASE mirror' = mirror
  <2>1. mirror \in [Paths -> 0..MaxSize]
    BY DEF MirrorInv, Backed
  <2>2. \A q \in Paths : mirror[q] \in Nat
    BY <2>1
  <2> QED
    BY <1>1, <2>1, <2>2
<1>2. CASE mirror' # mirror
  BY <1>2, Removals, RemovalSpares
<1> QED
  BY <1>1, <1>2

\* A copy by the helper, reported or not.
LEMMA Copied ==
  ASSUME MirrorInv, Copy \/ CopyFails, mirror' # mirror
  PROVE  /\ rel \in Paths /\ CompleteLines(size) > 0
         /\ mirror' = [mirror EXCEPT ![rel] = CompleteLines(size)]
<1>1. rel \in Paths
  BY CurrentSource DEF Copy, CopyFails, AtSource
<1>2. CompleteLines(size) \in Nat
  BY LinesFit DEF MirrorInv, Counters
<1>3. CompleteLines(size) # 0 \/ CompleteLines(size) > 0
  BY DEF Copy, CopyFails, NextRollout
<1>4. mirror' = [mirror EXCEPT ![rel] = CompleteLines(size)]
  BY DEF Copy, CopyFails, NextRollout
<1> QED
  BY <1>1, <1>2, <1>3, <1>4

LEMMA CountersStep == MirrorInv /\ [Next]_vars => Counters'
<1> SUFFICES ASSUME MirrorInv, [Next]_vars PROVE Counters'
  OBVIOUS
<1>1. {MaxSize, MaxMoves, MaxRuns, MaxFaults} \subseteq Nat /\ Counters
  BY BoundsAssumption DEF MirrorInv
<1>2. size' = size \/ (size < MaxSize /\ size' = size + 1) \/ size' = 1
  BY DEF Next, Script, Begin, FindSources, FindMirrors, TakeRollout, Stat, Copy, Relocate, Prune,
         CopyFails, Ends, Grow, Move, Rewrite, codex, vars
<1>3. run' = run \/ (run < MaxRuns /\ run' = run + 1)
  BY DEF Next, Script, Begin, FindSources, FindMirrors, TakeRollout, Stat, Copy, Relocate, Prune,
         CopyFails, Ends, Grow, Move, Rewrite, Codex, vars
<1>4. status' = status \/ status' = 0 \/ status' = 1 \/ status' = 2
  BY DEF Next, Script, Begin, FindSources, FindMirrors, TakeRollout, Stat, Copy, Relocate, Prune,
         CopyFails, Ends, Grow, Move, Rewrite, Codex, vars
<1>5. moves' = moves \/ (moves < MaxMoves /\ moves' = moves + 1)
  BY DEF Next, Script, Begin, FindSources, FindMirrors, TakeRollout, Stat, Copy, Relocate, Prune,
         CopyFails, Ends, Grow, Move, Rewrite, codex, vars
<1>6. faults' = faults \/ (faults < MaxFaults /\ faults' = faults + 1)
  BY DEF Next, Script, Begin, FindSources, FindMirrors, TakeRollout, Stat, Copy, Relocate, Prune,
         CopyFails, Ends, Grow, Move, Rewrite, Codex, Fault, vars
<1> QED
  BY <1>1, <1>2, <1>3, <1>4, <1>5, <1>6 DEF Counters

LEMMA LabelsStep == MirrorInv /\ [Next]_vars => Labels'
<1> SUFFICES ASSUME MirrorInv, [Next]_vars PROVE Labels'
  OBVIOUS
<1> USE DEF MirrorInv, Labels, Outcomes
<1>1. CASE Begin
  BY <1>1 DEF Begin, codex
<1>2. CASE FindSources
  BY <1>2 DEF FindSources, codex, plan
<1>3. CASE FindMirrors
  BY <1>3 DEF FindMirrors, codex, plan
<1>4. CASE TakeRollout
  BY <1>4 DEF TakeRollout, codex, inventory, plan, Stale
<1>5. CASE Stat
  BY <1>5 DEF Stat, NextRollout, codex, inventory, plan
<1>6. CASE Copy
  <2>1. copied' \in Outcomes
    BY <1>6 DEF Copy, NextRollout
  <2> QED
    BY <1>6, <2>1 DEF Copy, NextRollout, codex, inventory, plan
<1>7. CASE Relocate
  BY <1>7 DEF Relocate, codex, inventory, plan
<1>8. CASE Prune
  BY <1>8 DEF Prune, NextRollout, codex, inventory
<1>9. CASE CopyFails
  BY <1>9 DEF CopyFails, NextRollout, Fault, codex, inventory, plan
<1>10. CASE Ends
  BY <1>10 DEF Ends, Fault, codex, inventory, plan
<1>11. CASE Grow \/ Move \/ Rewrite
  BY <1>11 DEF Grow, Move, Rewrite, Codex, inventory, plan
<1>12. CASE UNCHANGED vars
  BY <1>12 DEF vars, codex, inventory, plan
<1> QED
  BY <1>1, <1>2, <1>3, <1>4, <1>5, <1>6, <1>7, <1>8, <1>9, <1>10, <1>11, <1>12
  DEF Next, Script

LEMMA ProgressStep == MirrorInv /\ [Next]_vars => Progress'
<1> SUFFICES ASSUME MirrorInv, [Next]_vars PROVE Progress'
  OBVIOUS
<1>1. Progress /\ Len(Roots) \in Nat /\ Len(sources) \in Nat
  BY RootsAssumption, LenProperties DEF MirrorInv, Progress
<1>2. CASE Begin
  BY <1>1, <1>2 DEF Begin, Progress, AtSource
<1>3. CASE FindSources
  <2>1. CASE root > Len(Roots)
    BY <1>1, <1>3, <2>1 DEF FindSources, Progress, AtSource
  <2>2. CASE ~(root > Len(Roots))
    <3>1. Roots[root] \in Paths
      BY <1>1, <2>2, PathsOfRoots DEF Progress
    <3>2. /\ sources' \in Seq(Paths)
          /\ Len(sources) <= Len(sources') /\ Len(sources') <= Len(sources) + 1
      <4>1. sources' = sources \/ sources' = Append(sources, Roots[root])
        BY <1>3, <2>2 DEF FindSources
      <4>2. sources \in Seq(Paths)
        BY <1>1 DEF Progress
      <4> QED
        BY <1>1, <3>1, <4>1, <4>2, AppendProperties
    <3>3. root' = root + 1 /\ root <= Len(Roots) /\ current' = current /\ pc' \notin AtSource
      BY <1>1, <1>3, <2>2 DEF FindSources, Progress, AtSource
    <3> QED
      BY <1>1, <3>2, <3>3 DEF Progress
  <2> QED
    BY <2>1, <2>2
<1>4. CASE FindMirrors
  BY <1>1, <1>4 DEF FindMirrors, Progress, AtSource
<1>5. CASE TakeRollout
  <2>1. current \in 1..(Len(sources) + 1)
    BY <1>1 DEF Progress
  <2> QED
    BY <1>1, <1>5, <2>1 DEF TakeRollout, inventory, Progress, AtSource
<1>6. CASE Stat
  BY <1>1, <1>6 DEF Stat, NextRollout, inventory, Progress, AtSource
<1>7. CASE Copy
  <2>1. /\ pc = "copy" /\ UNCHANGED inventory
        /\ \/ pc' = "rollout" /\ current' = current + 1
           \/ pc' = "relocate" /\ current' = current
    BY <1>7, Zenon DEF Copy, NextRollout
  <2> QED
    BY <1>1, <2>1 DEF inventory, Progress, AtSource
<1>8. CASE Relocate
  BY <1>1, <1>8 DEF Relocate, inventory, Progress, AtSource
<1>9. CASE Prune
  BY <1>1, <1>9 DEF Prune, NextRollout, inventory, Progress, AtSource
<1>10. CASE CopyFails
  BY <1>1, <1>10 DEF CopyFails, NextRollout, inventory, Progress, AtSource
<1>11. CASE Ends
  BY <1>1, <1>11 DEF Ends, inventory, Progress, AtSource
<1>12. CASE Grow \/ Move \/ Rewrite
  BY <1>1, <1>12 DEF Grow, Move, Rewrite, Codex, inventory, Progress, AtSource
<1>13. CASE UNCHANGED vars
  BY <1>1, <1>13 DEF vars, inventory, Progress, AtSource
<1> QED
  BY <1>2, <1>3, <1>4, <1>5, <1>6, <1>7, <1>8, <1>9, <1>10, <1>11, <1>12, <1>13
  DEF Next, Script

LEMMA BackedStep == MirrorInv /\ [Next]_vars => Backed'
<1> SUFFICES ASSUME MirrorInv, [Next]_vars PROVE Backed'
  OBVIOUS
<1>1. Backed /\ size \in 1..MaxSize
  BY DEF MirrorInv, Counters
<1>2. size \in Nat /\ CompleteLines(size) \in Nat /\ \A p \in Paths : mirror[p] \in Nat
  BY <1>1, LinesFit, BoundsAssumption DEF Backed
<1>3. CASE UNCHANGED <<size, cut, mirror>>
  BY <1>1, <1>3 DEF Backed, CompleteLines
<1>4. CASE Copy \/ CopyFails
  <2>1. UNCHANGED <<size, cut>>
    BY <1>4 DEF Copy, CopyFails, codex
  <2>2. CASE mirror' # mirror
    <3>1. /\ mirror' \in [Paths -> 0..MaxSize] /\ ~cut
          /\ \A q \in Paths : mirror'[q] <= CompleteLines(size)
      BY <1>4, <2>2, Copied, PublishedLines
    <3> QED
      BY <2>1, <3>1 DEF Backed, CompleteLines
  <2> QED
    BY <1>3, <2>1, <2>2
<1>5. CASE Relocate \/ Prune
  <2>1. UNCHANGED <<size, cut>>
    BY <1>5 DEF Relocate, Prune, codex
  <2>2. mirror' \in [Paths -> 0..MaxSize] /\ \A q \in Paths : mirror'[q] <= mirror[q]
    BY <1>5, Removed
  <2>3. \A q \in Paths : mirror'[q] \in Nat
    BY <2>2, BoundsAssumption
  <2>4. CompleteLines(size') = CompleteLines(size)
    BY <2>1 DEF CompleteLines
  <2> QED
    BY <1>1, <1>2, <2>1, <2>2, <2>3, <2>4 DEF Backed
<1>6. CASE Grow
  <2>1. size' = size + 1 /\ ~cut /\ UNCHANGED <<cut, mirror>>
    BY <1>6 DEF Grow, Codex
  <2>2. CompleteLines(size) <= CompleteLines(size') /\ CompleteLines(size') \in Nat
    BY <1>2, <2>1, LinesFit
  <2> QED
    BY <1>1, <1>2, <2>1, <2>2 DEF Backed
<1>7. CASE Rewrite
  BY <1>1, <1>7 DEF Rewrite, Codex, Backed
<1>8. CASE Begin \/ FindSources \/ FindMirrors \/ TakeRollout \/ Stat \/ Ends \/ Move
  <2>1. UNCHANGED <<size, cut, mirror>>
    BY <1>8 DEF Begin, FindSources, FindMirrors, TakeRollout, Stat, Ends, Move, Codex, codex
  <2> QED
    BY <1>3, <2>1
<1>9. CASE UNCHANGED vars
  BY <1>3, <1>9 DEF vars, codex
<1> QED
  BY <1>4, <1>5, <1>6, <1>7, <1>8, <1>9 DEF Next, Script

LEMMA SafeStep == MirrorInv /\ [Next]_vars => Safe'
<1> SUFFICES ASSUME MirrorInv, [Next]_vars PROVE Safe'
  OBVIOUS
<1>1. Safe
  BY DEF MirrorInv
<1>2. CASE pc' \notin AtSource
  BY <1>2 DEF Safe, AtSource, Removing
<1>3. CASE UNCHANGED <<pc, sources, current, relocated, duplicates, copied, mirror>>
  BY <1>1, <1>3 DEF Safe, rel
<1>4. CASE TakeRollout
  <2>1. UNCHANGED <<sources, current>> /\ pc' \notin Removing
    BY <1>4 DEF TakeRollout, inventory, Removing
  <2>2. pc' \in AtSource =>
          /\ duplicates' \subseteq Stale
          /\ relocated' # None => relocated' \in Stale
    BY <1>4, Zenon DEF TakeRollout, AtSource
  <2>3. rel' = rel
    BY <2>1 DEF rel
  <2> QED
    BY <2>1, <2>2, <2>3 DEF Safe, Stale
<1>5. CASE Stat
  <2>1. CASE pc' = "copy"
    BY <1>1, <1>5, <2>1 DEF Stat, NextRollout, inventory, plan, Safe, rel, AtSource, Removing
  <2> QED
    BY <1>2, <1>5, <2>1 DEF Stat, NextRollout, AtSource
<1>6. CASE Copy
  <2>1. CASE pc' = "relocate"
    <3>1. pc = "copy" /\ UNCHANGED <<sources, current, relocated, duplicates, size>>
      BY <1>6, <2>1 DEF Copy, NextRollout, inventory, plan, codex
    <3>2. rel' = rel
      BY <3>1 DEF rel
    <3>3. rel' \notin duplicates' /\ (relocated' # None => relocated' # rel')
      BY <1>1, <3>1, <3>2 DEF Safe, AtSource
    <3>4. ASSUME copied' # "no-complete-line"
          PROVE  \A p \in Paths : mirror'[p] <= mirror'[rel']
      <4>1. rel \in Paths
        BY <3>1, CurrentSource DEF AtSource
      <4>2. CompleteLines(size) # 0 /\ mirror' = [mirror EXCEPT ![rel] = CompleteLines(size)]
        BY <1>6, <2>1, <3>4 DEF Copy, NextRollout
      <4>3. CompleteLines(size) > 0
        BY <4>2, LinesFit DEF MirrorInv, Counters
      <4>4. /\ \A q \in Paths : mirror'[q] <= CompleteLines(size)
            /\ mirror'[rel] = CompleteLines(size)
        BY <4>1, <4>2, <4>3, PublishedLines
      <4> QED
        BY <3>2, <4>4
    <3> QED
      BY <3>3, <3>4 DEF Safe
  <2> QED
    BY <1>2, <1>6, <2>1, Zenon DEF Copy, NextRollout, AtSource
<1>7. CASE (Relocate \/ Prune) /\ pc' \in AtSource
  <2>1. /\ pc \in Removing /\ duplicates' \subseteq duplicates
        /\ UNCHANGED <<sources, current, relocated, copied>>
    BY <1>7 DEF Relocate, Prune, NextRollout, inventory, plan, Removing, AtSource
  <2>2. rel' = rel
    BY <2>1 DEF rel
  <2>3. /\ \A q \in Paths : mirror'[q] <= mirror[q]
        /\ mirror'[rel] = mirror[rel] /\ mirror' \in [Paths -> 0..MaxSize]
    BY <1>7, Removed
  <2>4. rel \in Paths /\ mirror \in [Paths -> 0..MaxSize]
    BY <2>1, CurrentSource DEF Removing, AtSource, MirrorInv, Backed
  <2>5. ASSUME copied # "no-complete-line" PROVE \A q \in Paths : mirror'[q] <= mirror'[rel]
    <3>1. \A q \in Paths : mirror[q] <= mirror[rel]
      BY <1>1, <2>1, <2>5 DEF Safe
    <3> QED
      BY <2>3, <2>4, <3>1, BoundsAssumption
  <2>6. rel \notin duplicates /\ (relocated # None => relocated # rel)
    BY <1>1, <2>1 DEF Safe, Removing, AtSource
  <2> QED
    BY <2>1, <2>2, <2>5, <2>6 DEF Safe
<1>8. CASE Begin \/ FindSources \/ FindMirrors \/ CopyFails \/ Ends
  <2>1. pc' \notin AtSource
    BY <1>8 DEF Begin, FindSources, FindMirrors, CopyFails, NextRollout, Ends, AtSource
  <2> QED
    BY <1>2, <2>1
<1>9. CASE Grow \/ Move \/ Rewrite \/ UNCHANGED vars
  <2>1. UNCHANGED <<pc, sources, current, relocated, duplicates, copied, mirror>>
    BY <1>9 DEF Grow, Move, Rewrite, Codex, inventory, plan, vars
  <2> QED
    BY <1>3, <2>1
<1> QED
  BY <1>2, <1>4, <1>5, <1>6, <1>7, <1>8, <1>9 DEF Next, Script

LEMMA MirrorAlways == Spec => []MirrorInv
<1>1. MirrorInv /\ [Next]_vars => MirrorInv'
  BY CountersStep, LabelsStep, ProgressStep, BackedStep, SafeStep DEF MirrorInv
<1> QED
  BY MirrorInitially, <1>1, PTL DEF Spec

\* Every variable keeps its type.
THEOREM MaintenanceTypeCorrect == Spec => []TypeOK
<1>1. MirrorInv => TypeOK
  <2> SUFFICES ASSUME MirrorInv PROVE TypeOK
    OBVIOUS
  <2>1. size \in 0..MaxSize
    BY DEF MirrorInv, Counters
  <2>2. current \in 0..(Len(Roots) + 1)
    <3>1. Len(Roots) \in Nat /\ Len(sources) \in Nat
      BY RootsAssumption, LenProperties DEF MirrorInv, Progress
    <3> QED
      BY <3>1 DEF MirrorInv, Progress
  <2> QED
    BY <2>1, <2>2 DEF MirrorInv, TypeOK, Counters, Labels, Progress, Backed
<1> QED
  BY MirrorAlways, <1>1, PTL

\* No step of a sync, of Codex or of an error takes lines from the backup, for any
\* places of the rollout and any moves between the inventory and the removals.
THEOREM LinesKept == Spec => NothingLost
<1> DEFINE Kept == \A p \in Paths : \E q \in Paths : mirror'[q] >= mirror[p]
<1>1. MirrorInv /\ [Next]_vars => [Kept]_vars
  <2> SUFFICES ASSUME MirrorInv, Next PROVE Kept
    OBVIOUS
  <2>1. mirror \in [Paths -> 0..MaxSize] /\ \A p \in Paths : mirror[p] \in Nat
    BY BoundsAssumption DEF MirrorInv, Backed
  <2>2. CASE mirror' = mirror
    BY <2>1, <2>2
  <2>3. CASE mirror' # mirror /\ (Copy \/ CopyFails)
    <3>1. /\ mirror' \in [Paths -> 0..MaxSize]
          /\ \A q \in Paths : mirror[q] <= mirror'[q]
      BY <2>3, Copied, PublishedLines
    <3> QED
      BY <2>1, <3>1, BoundsAssumption
  <2>4. CASE Relocate \/ Prune
    BY <2>4, Removed
  <2>5. CASE Begin \/ FindSources \/ FindMirrors \/ TakeRollout \/ Stat \/ Ends
             \/ Grow \/ Move \/ Rewrite
    <3>1. mirror' = mirror
      BY <2>5 DEF Begin, FindSources, FindMirrors, TakeRollout, Stat, Ends, Grow, Move,
                  Rewrite, Codex
    <3> QED
      BY <2>2, <3>1
  <2> QED
    BY <2>2, <2>3, <2>4, <2>5 DEF Next, Script
<1>2. Spec => [][Kept]_vars
  BY MirrorAlways, <1>1, PTL DEF Spec
<1> QED
  BY <1>2 DEF NothingLost

--------------------------------------------------------------------------------
(* A sync that nothing disturbs.                                            *)
Backable == at # None /\ CompleteLines(size) > 0
Single == mirror[at] = CompleteLines(size) /\ \A p \in Paths \ {at} : mirror[p] = 0

\* Its inventory holds the rollout's own place and every copy elsewhere; what it has listed
\* for removal is every copy but the mirror, and what it has taken is the only one.
Course ==
  /\ \A i \in 1..Len(sources) : sources[i] = at
  /\ pc = "sources" => \A i \in 1..(root - 1) : Roots[i] = at => sources # <<>>
  /\ pc # "sources" => sources # <<>>
  /\ pc \in {"sources", "mirrors"} => current = 1
  /\ pc \notin {"sources", "mirrors"} => \A p \in Paths : mirror[p] > 0 => p \in mirrors \cup {at}
  /\ pc \in AtSource => \A p \in Paths : mirror[p] > 0 =>
       p \in {at} \cup duplicates \/ (pc # "prune" /\ p = relocated)
  /\ pc \in Removing => copied # "no-complete-line" /\ mirror[at] = CompleteLines(size)
  /\ pc = "rollout" /\ current > 1 => Single
Calmly == calm /\ pc # "idle" /\ Backable => Course
Converged == calm /\ pc = "idle" /\ run > 0 /\ Backable => Single

LEMMA Undisturbed ==
  ASSUME [Next]_vars, calm', ~Begin
  PROVE  /\ calm /\ at' = at /\ size' = size /\ cut' = cut /\ run' = run
         /\ Script \/ UNCHANGED vars
<1>1. ~CopyFails /\ ~Ends /\ ~Grow /\ ~Move /\ ~Rewrite
  BY Zenon DEF CopyFails, Ends, Fault, Grow, Move, Rewrite, Codex
<1>2. Script \/ UNCHANGED vars
  BY <1>1, Zenon DEF Next
<1>3. calm' = calm /\ codex' = codex /\ run' = run
  BY <1>2, Zenon DEF Script, FindSources, FindMirrors, TakeRollout, Stat, Copy, Relocate, Prune, vars
<1>4. at' = at /\ size' = size /\ cut' = cut
  BY ONLY <1>3, Zenon DEF codex
<1> QED BY ONLY <1>2, <1>3, <1>4, calm', Zenon

\* The rollout under way is the one there is.
LEMMA Itself ==
  ASSUME MirrorInv, Course, pc \in AtSource
  PROVE  rel = at /\ at \in Paths
<1>1. current \in 1..Len(sources)
  BY DEF MirrorInv, Progress
<1>2. rel = at
  BY <1>1 DEF Course, rel
<1> QED BY <1>2, CurrentSource

LEMMA NumbersOfLines ==
  ASSUME MirrorInv, Backable
  PROVE  /\ at \in Paths /\ size \in Nat /\ size > 0 /\ CompleteLines(size) \in Nat
         /\ CompleteLines(size) > 0 /\ CompleteLines(size) <= size
         /\ mirror \in [Paths -> 0..MaxSize] /\ \A p \in Paths : mirror[p] \in Nat
         /\ \A p \in Paths : mirror[p] <= CompleteLines(size)
<1>1. size \in 1..MaxSize /\ MaxSize \in Nat
  BY BoundsAssumption DEF MirrorInv, Counters
<1>2. size \in Nat /\ CompleteLines(size) \in 0..size /\ CompleteLines(size) > 0
  BY <1>1, LinesFit DEF Backable
<1>3. ~cut
  BY <1>2, FirstHalfLine DEF MirrorInv, Backed
<1>4. at \in Paths
  BY Zenon DEF MirrorInv, Labels, Backable
<1> QED BY <1>1, <1>2, <1>3, <1>4 DEF MirrorInv, Backed

LEMMA CourseStep ==
  ASSUME MirrorInv, Calmly, [Next]_vars PROVE Calmly'
<1> SUFFICES ASSUME calm', pc' # "idle", Backable' PROVE Course'
  BY Zenon DEF Calmly
<1>1. CASE Begin
  <2>1. pc' = "sources" /\ root' = 1 /\ sources' = <<>> /\ current' = 1
    BY <1>1, Zenon DEF Begin
  <2> QED BY ONLY <2>1 DEF Course, AtSource, Removing
<1>2. CASE ~Begin
  <2>1. /\ calm /\ at' = at /\ size' = size /\ cut' = cut
        /\ Script \/ UNCHANGED vars
    BY <1>2, Undisturbed
  <2>2. Backable /\ CompleteLines(size)' = CompleteLines(size)
    BY ONLY <2>1, Backable', Zenon DEF Backable, CompleteLines
  <2>3. pc = "idle" => UNCHANGED vars
    BY ONLY <2>1 DEF Script, FindSources, FindMirrors, TakeRollout, Stat, Copy, Relocate, Prune
  <2>4. pc # "idle"
    BY ONLY <2>3, pc' # "idle", Zenon DEF vars
  <2>5. Course
    BY ONLY <2>1, <2>2, <2>4, Calmly, Zenon DEF Calmly
  <2>6. /\ at \in Paths /\ size \in Nat /\ size > 0 /\ CompleteLines(size) \in Nat
        /\ CompleteLines(size) > 0 /\ CompleteLines(size) <= size
        /\ mirror \in [Paths -> 0..MaxSize] /\ \A p \in Paths : mirror[p] \in Nat
        /\ \A p \in Paths : mirror[p] <= CompleteLines(size)
    BY <2>2, NumbersOfLines
  <2>7. at # None
    BY ONLY <2>2, Zenon DEF Backable
  <2>8. /\ \A i \in 1..Len(sources) : sources[i] = at
        /\ pc = "sources" => \A i \in 1..(root - 1) : Roots[i] = at => sources # <<>>
        /\ pc # "sources" => sources # <<>>
        /\ pc \in {"sources", "mirrors"} => current = 1
        /\ pc \notin {"sources", "mirrors"} => \A p \in Paths : mirror[p] > 0 => p \in mirrors \cup {at}
        /\ pc \in AtSource => \A p \in Paths : mirror[p] > 0 =>
             p \in {at} \cup duplicates \/ (pc # "prune" /\ p = relocated)
        /\ pc \in Removing => copied # "no-complete-line" /\ mirror[at] = CompleteLines(size)
        /\ pc = "rollout" /\ current > 1 => Single
    BY ONLY <2>5, Zenon DEF Course
  <2>9. /\ sources \in Seq(Paths) /\ Len(sources) \in Nat /\ root \in 1..(Len(Roots) + 1)
        /\ Len(Roots) \in Nat /\ current \in 1..(Len(sources) + 1)
    BY RootsAssumption, LenProperties DEF MirrorInv, Progress
  <2>10. CASE FindSources
    <3>1. pc = "sources" /\ pc' \in {"sources", "mirrors"}
      BY <2>10, Zenon DEF FindSources
    <3>2. CASE root > Len(Roots)
      <4>1. sources' = sources /\ pc' = "mirrors" /\ current' = current
        BY <2>10, <3>2, Zenon DEF FindSources
      <4>2. sources # <<>>
        <5>1. PICK i \in 1..Len(Roots) : Roots[i] = at
          BY <2>6, RootsAssumption, LenProperties DEF Paths
        <5>2. i \in 1..(root - 1)
          BY ONLY <2>9, <3>2, i \in 1..Len(Roots)
        <5> QED BY ONLY <2>8, <3>1, <5>1, <5>2
      <4> QED BY ONLY <2>1, <2>8, <3>1, <4>1, <4>2 DEF Course, AtSource, Removing
    <3>3. CASE ~(root > Len(Roots))
      <4>1. /\ root' = root + 1 /\ pc' = pc /\ current' = current
            /\ sources' = IF at = Roots[root] /\ size > 0 THEN Append(sources, Roots[root]) ELSE sources
        BY <2>10, <3>3, Zenon DEF FindSources
      <4>2. Roots[root] \in Paths
        BY ONLY <2>9, <3>3, PathsOfRoots
      <4>3. CASE at = Roots[root]
        <5>1. sources' = Append(sources, at)
          BY ONLY <2>6, <4>1, <4>3
        <5>2. /\ sources' # <<>> /\ Len(sources') = Len(sources) + 1 /\ sources'[Len(sources) + 1] = at
              /\ \A i \in 1..Len(sources) : sources'[i] = sources[i]
          BY ONLY <2>6, <2>9, <5>1, AppendProperties
        <5>3. \A i \in 1..Len(sources') : sources'[i] = at
          BY ONLY <2>8, <2>9, <5>2
        <5> QED BY ONLY <2>1, <2>8, <3>1, <4>1, <5>2, <5>3 DEF Course, AtSource, Removing
      <4>4. CASE at # Roots[root]
        <5>1. sources' = sources
          BY ONLY <4>1, <4>4
        <5>2. \A i \in 1..(root' - 1) : Roots[i] = at => sources # <<>>
          BY ONLY <2>8, <2>9, <3>1, <4>1, <4>4
        <5> QED BY ONLY <2>1, <2>8, <3>1, <4>1, <5>1, <5>2 DEF Course, AtSource, Removing
      <4> QED BY ONLY <4>3, <4>4
    <3> QED BY ONLY <3>2, <3>3
  <2>11. CASE FindMirrors
    <3>1. /\ pc = "mirrors" /\ pc' = "rollout" /\ sources' = sources /\ current' = current
          /\ mirror' = mirror /\ mirrors' = {p \in Paths : mirror[p] > 0}
      BY <2>11, Zenon DEF FindMirrors, inventory
    <3>2. \A p \in Paths : mirror'[p] > 0 => p \in mirrors' \cup {at}
      BY ONLY <3>1
    <3> QED BY ONLY <2>1, <2>8, <3>1, <3>2 DEF Course, AtSource, Removing
  <2>12. CASE TakeRollout
    <3>1. /\ pc = "rollout" /\ pc' = "stat" /\ current <= Len(sources) /\ mirror' = mirror
          /\ sources' = sources /\ current' = current /\ mirrors' = mirrors
          /\ \/ relocated' \in Stale /\ duplicates' = Stale \ {relocated'}
             \/ relocated' = None /\ duplicates' = Stale
      <4>1. ~(current > Len(sources))
        BY <2>12, pc' # "idle", Zenon DEF TakeRollout
      <4>2. current <= Len(sources)
        BY ONLY <2>9, <4>1
      <4> QED BY <2>12, <4>1, <4>2, Zenon DEF TakeRollout, inventory
    <3>2. rel = at
      BY ONLY <2>8, <2>9, <3>1 DEF rel
    <3>3. \A p \in Range(sources) : p = at
      <4>1. DOMAIN sources = 1..Len(sources)
        BY ONLY <2>9, LenProperties
      <4> QED BY ONLY <2>8, <4>1, Zenon DEF Range
    <3>4. \A p \in Paths : mirror[p] > 0 => p = at \/ p \in Stale
      BY ONLY <2>8, <3>1, <3>2, <3>3 DEF Stale
    <3>5. \A p \in Paths : mirror'[p] > 0 => p \in {at} \cup duplicates' \/ p = relocated'
      BY ONLY <3>1, <3>4
    <3> QED BY ONLY <2>1, <2>8, <3>1, <3>5 DEF Course, AtSource, Removing
  <2>13. CASE Stat
    <3>1. pc = "stat" /\ rel = at
      BY <2>5, <2>13, Itself, Zenon DEF Stat, AtSource
    <3>2. /\ mirror' = mirror /\ sources' = sources /\ mirrors' = mirrors /\ relocated' = relocated
          /\ duplicates' = duplicates
          /\ \/ pc' = "copy" /\ current' = current
             \/ pc' = "rollout" /\ ~RefreshNeeded
      BY <2>13, <3>1, Zenon DEF Stat, NextRollout, inventory, plan
    <3>3. ASSUME ~RefreshNeeded PROVE Single
      <4>1. relocated = None /\ duplicates = {} /\ size = mirror[at]
        BY ONLY <3>1, <3>3, Zenon DEF RefreshNeeded
      <4>2. mirror[at] = CompleteLines(size)
        BY ONLY <2>6, <4>1
      <4>3. \A p \in Paths \ {at} : mirror[p] = 0
        <5>1. pc \in AtSource
          BY ONLY <3>1 DEF AtSource
        <5>2. \A p \in Paths : p # None
          BY NoneAssumption
        <5>3. \A p \in Paths : mirror[p] > 0 => p = at
          BY ONLY <2>8, <4>1, <5>1, <5>2
        <5> QED BY ONLY <2>6, <5>3
      <4> QED BY ONLY <4>2, <4>3, Zenon DEF Single
    <3>4. Single => Single'
      BY ONLY <2>1, <2>2, <3>2, Zenon DEF Single
    <3>5. CASE pc' = "copy" /\ current' = current
      BY ONLY <2>1, <2>8, <3>1, <3>2, <3>5 DEF Course, AtSource, Removing
    <3>6. CASE pc' = "rollout" /\ ~RefreshNeeded
      <4>1. Single'
        BY ONLY <3>3, <3>4, <3>6
      <4> QED BY ONLY <2>1, <2>8, <3>1, <3>2, <3>6, <4>1 DEF Course, AtSource, Removing
    <3> QED BY ONLY <3>2, <3>5, <3>6
  <2>14. CASE Copy
    <3>1. pc = "copy" /\ rel = at
      BY <2>5, <2>14, Itself, Zenon DEF Copy, AtSource
    <3>2. CompleteLines(size) # 0
      BY ONLY <2>6
    <3>3. /\ sources' = sources /\ mirrors' = mirrors /\ relocated' = relocated
          /\ duplicates' = duplicates /\ current' = current /\ pc' = "relocate"
          /\ copied' \in {"unchanged", "updated"}
          /\ mirror' = [mirror EXCEPT ![at] = CompleteLines(size)]
      <4>1. copied' = (IF mirror[rel] = CompleteLines(size) THEN "unchanged" ELSE "updated")
            /\ mirror' = [mirror EXCEPT ![rel] = CompleteLines(size)]
            /\ sources' = sources /\ mirrors' = mirrors /\ relocated' = relocated
            /\ duplicates' = duplicates
        BY <2>14, <3>1, <3>2, Zenon DEF Copy, inventory, plan
      <4>2. copied' \in {"unchanged", "updated"} /\ copied' # "no mirror"
        BY ONLY <4>1
      <4>3. pc' = "relocate" /\ current' = current
        BY <2>14, <3>1, <3>2, <4>2, Zenon DEF Copy
      <4> QED BY ONLY <3>1, <4>1, <4>2, <4>3, Zenon
    <3>4. mirror'[at] = CompleteLines(size) /\ \A p \in Paths : p # at => mirror'[p] = mirror[p]
      BY ONLY <2>6, <3>3
    <3>5. \A p \in Paths : mirror'[p] > 0 => /\ p \in mirrors \cup {at}
                                             /\ p \in {at} \cup duplicates \/ p = relocated
      BY ONLY <2>8, <3>1, <3>4 DEF AtSource
    <3> QED BY ONLY <2>1, <2>2, <2>8, <3>1, <3>3, <3>4, <3>5 DEF Course, AtSource, Removing
  <2>15. CASE Relocate \/ Prune
    <3>1. /\ pc \in Removing /\ rel = at
          /\ sources' = sources /\ mirrors' = mirrors /\ copied' = copied /\ relocated' = relocated
      <4>1. pc \in Removing /\ pc \in AtSource
        BY <2>15 DEF Relocate, Prune, Removing, AtSource
      <4>2. sources' = sources /\ mirrors' = mirrors /\ copied' = copied /\ relocated' = relocated
        BY <2>15, Zenon DEF Relocate, Prune, inventory, plan
      <4> QED BY <2>5, <4>1, <4>2, Itself
    <3>2. copied # "no-complete-line" /\ mirror[at] = CompleteLines(size)
      BY ONLY <2>8, <3>1
    <3>3. /\ mirror' \in [Paths -> 0..MaxSize] /\ \A q \in Paths : mirror'[q] <= mirror[q]
          /\ mirror'[at] = mirror[at]
      BY <2>15, <3>1, Removed
    <3>4. \A p : RemoveCopy(p) => mirror' = [mirror EXCEPT ![p] = 0]
      BY ONLY <3>2, Zenon DEF RemoveCopy
    <3>5. \A p \in Paths : mirror'[p] > 0 => mirror[p] > 0
      <4>1. \A p \in Paths : mirror'[p] \in Nat
        BY ONLY <3>3, BoundsAssumption
      <4> QED BY ONLY <2>6, <3>3, <4>1
    <3>6. CASE Relocate
      <4>1. /\ pc = "relocate" /\ pc' = "prune" /\ duplicates' = duplicates /\ current' = current
            /\ relocated # None => mirror' = [mirror EXCEPT ![relocated] = 0]
        BY <3>4, <3>6, Zenon DEF Relocate, inventory, plan
      <4>2. \A p \in Paths : mirror'[p] > 0 => p \in {at} \cup duplicates
        <5> SUFFICES ASSUME NEW p \in Paths, mirror'[p] > 0 PROVE p \in {at} \cup duplicates
          OBVIOUS
        <5>1. p \in {at} \cup duplicates \/ p = relocated
          BY ONLY <2>8, <3>5, <4>1, p \in Paths, mirror'[p] > 0 DEF AtSource
        <5>2. CASE p = relocated
          <6>1. relocated # None
            BY <5>2, NoneAssumption
          <6>2. mirror'[p] = 0
            BY ONLY <2>6, <4>1, <5>2, <6>1, p \in Paths
          <6> QED BY ONLY <6>2, mirror'[p] > 0
        <5> QED BY ONLY <5>1, <5>2
      <4>3. \A p \in Paths : mirror'[p] > 0 => p \in mirrors \cup {at}
        BY ONLY <2>8, <3>5, <4>1
      <4> QED BY ONLY <2>1, <2>2, <2>8, <3>1, <3>2, <3>3, <4>1, <4>2, <4>3 DEF Course, AtSource, Removing
    <3>7. CASE Prune /\ duplicates = {}
      <4>1. pc = "prune" /\ pc' = "rollout" /\ mirror' = mirror
        BY <3>7, Zenon DEF Prune, NextRollout
      <4>2. \A p \in Paths : mirror[p] > 0 => p = at
        BY ONLY <2>8, <3>7, <4>1 DEF AtSource
      <4>3. Single
        BY ONLY <2>6, <3>2, <4>2 DEF Single
      <4>4. Single'
        BY ONLY <2>1, <2>2, <4>1, <4>3, Zenon DEF Single
      <4> QED BY ONLY <2>1, <2>8, <3>1, <4>1, <4>4 DEF Course, AtSource, Removing
    <3>8. CASE Prune /\ duplicates # {}
      <4>1. PICK q \in duplicates : RemoveCopy(q) /\ duplicates' = duplicates \ {q} /\ pc' = pc
        BY <3>8, Zenon DEF Prune
      <4>2. pc = "prune" /\ mirror' = [mirror EXCEPT ![q] = 0]
        BY <3>4, <3>8, <4>1, Zenon DEF Prune
      <4>3. \A p \in Paths : mirror'[p] > 0 => p \in {at} \cup duplicates'
        <5> SUFFICES ASSUME NEW p \in Paths, mirror'[p] > 0 PROVE p \in {at} \cup duplicates'
          OBVIOUS
        <5>1. p \in {at} \cup duplicates
          BY ONLY <2>8, <3>5, <4>2, p \in Paths, mirror'[p] > 0 DEF AtSource
        <5>2. p # q
          BY ONLY <2>6, <4>2, p \in Paths, mirror'[p] > 0
        <5> QED BY ONLY <4>1, <5>1, <5>2
      <4>4. \A p \in Paths : mirror'[p] > 0 => p \in mirrors \cup {at}
        BY ONLY <2>8, <3>5, <4>2
      <4> QED BY ONLY <2>1, <2>2, <2>8, <3>1, <3>2, <3>3, <4>1, <4>2, <4>3, <4>4
          DEF Course, AtSource, Removing
    <3> QED BY ONLY <2>15, <3>6, <3>7, <3>8, Zenon
  <2>16. CASE UNCHANGED vars
    <3>1. /\ pc' = pc /\ root' = root /\ sources' = sources /\ mirrors' = mirrors
          /\ current' = current /\ relocated' = relocated /\ duplicates' = duplicates
          /\ copied' = copied /\ mirror' = mirror
      BY <2>16, Zenon DEF vars, inventory, plan
    <3>2. Single' <=> Single
      BY ONLY <2>1, <2>2, <3>1, Zenon DEF Single
    <3> QED BY ONLY <2>1, <2>2, <2>8, <3>1, <3>2, Zenon DEF Course
  <2> QED BY ONLY <2>1, <2>10, <2>11, <2>12, <2>13, <2>14, <2>15, <2>16, Zenon DEF Script
<1> QED BY <1>1, <1>2

LEMMA ConvergedStep ==
  ASSUME MirrorInv, Calmly, Converged, [Next]_vars PROVE Converged'
<1> SUFFICES ASSUME calm', pc' = "idle", run' > 0, Backable' PROVE Single'
  BY Zenon DEF Converged
<1>1. ~Begin
  BY DEF Begin
<1>2. /\ calm /\ at' = at /\ size' = size /\ run' = run
      /\ Script \/ UNCHANGED vars
  BY <1>1, Undisturbed
<1>3. Backable /\ CompleteLines(size)' = CompleteLines(size)
  BY ONLY <1>2, Backable', Zenon DEF Backable, CompleteLines
<1>4. CASE Script
  <2>1. TakeRollout /\ pc = "rollout" /\ current > Len(sources) /\ mirror' = mirror
    <3>1. TakeRollout
      BY <1>4, pc' = "idle" DEF Script, FindSources, FindMirrors, Stat, Copy, Relocate, Prune, NextRollout
    <3> QED BY <3>1, pc' = "idle" DEF TakeRollout
  <2>2. Course
    BY ONLY <1>2, <1>3, <2>1, Calmly DEF Calmly
  <2>3. current > 1
    <3>1. sources # <<>> /\ sources \in Seq(Paths) /\ current \in 1..(Len(sources) + 1)
      BY <2>1, <2>2 DEF Course, MirrorInv, Progress
    <3>2. Len(sources) \in Nat /\ Len(sources) # 0
      BY ONLY <3>1, LenProperties, EmptySeq
    <3> QED BY ONLY <2>1, <3>1, <3>2
  <2>4. Single
    BY ONLY <2>1, <2>2, <2>3, Zenon DEF Course
  <2> QED BY ONLY <1>2, <1>3, <2>1, <2>4, Zenon DEF Single
<1>5. CASE UNCHANGED vars
  <2>1. pc' = pc /\ mirror' = mirror
    BY <1>5, Zenon DEF vars
  <2>2. Single
    BY ONLY <1>2, <1>3, <2>1, Converged, pc' = "idle", run' > 0, Zenon DEF Converged
  <2> QED BY ONLY <1>2, <1>3, <2>1, <2>2, Zenon DEF Single
<1> QED BY <1>2, <1>4, <1>5

\* A sync that met no change of the rollout and no error leaves one copy of it, under the
\* rollout's own path and with every complete line, whatever earlier runs left behind and
\* whatever places were searched (sync_codex_rollout_mirror).
THEOREM CalmSyncsConverge == Spec => []CalmSyncConverges
<1>1. Init => Calmly /\ Converged
  BY BoundsAssumption DEF Init, Calmly, Converged
<1>2. MirrorInv /\ Calmly /\ Converged /\ [Next]_vars => (Calmly /\ Converged)'
  <2> SUFFICES ASSUME MirrorInv, Calmly, Converged, [Next]_vars PROVE (Calmly /\ Converged)'
    OBVIOUS
  <2> QED BY CourseStep, ConvergedStep, Zenon
<1>3. MirrorInv /\ Converged => CalmSyncConverges
  <2> SUFFICES ASSUME MirrorInv, Converged, pc = "idle", run > 0, calm, at # None,
                      CompleteLines(size) > 0
               PROVE  mirror = [p \in Paths |-> IF p = at THEN CompleteLines(size) ELSE 0]
    BY Zenon DEF CalmSyncConverges
  <2>1. Single
    BY Zenon DEF Converged, Backable
  <2>2. mirror \in [Paths -> 0..MaxSize]
    BY DEF MirrorInv, Backed
  <2> QED BY ONLY <2>1, <2>2 DEF Single
<1> QED BY <1>1, <1>2, <1>3, MirrorAlways, PTL DEF Spec
================================================================================
