-------------------------- MODULE RepairCommandsProofs --------------------------
(***************************************************************************)
(* Proofs about RepairCommands, for any number of rollouts, stops, faults   *)
(* and changes of a pair.                                                   *)
(***************************************************************************)
EXTENDS RepairCommands, TLAPS

\* The types in two parts: the counters and flags need no sets.
Flags ==
  /\ enabled \in BOOLEAN /\ queueing \in BOOLEAN
Counters ==
  stops \in 0..MaxStops /\ faults \in 0..MaxFaults /\ changes \in 0..MaxChanges
Labels ==
  /\ queue \in SUBSET Rollouts /\ record \in [Rollouts -> Records]
  /\ class \in [Rollouts -> Classes]
  /\ command \in {"none", "repair", "retry", "recover"}
  /\ pc \in {"idle", "recover", "load", "classify", "process"}
  /\ todo \in SUBSET Rollouts
  /\ seen \in [Rollouts -> {"none", "eligible", "deferred", "terminal"}]
  /\ memory \in SUBSET Rollouts /\ completed \in SUBSET Rollouts
  /\ active \in Rollouts \cup {Nobody}
  /\ step \in {"none", "decide", "settle", "conclude", "drop"}

LEMMA TypeParts == TypeOK <=> Flags /\ Counters /\ Labels
  BY DEF TypeOK, Flags, Counters, Labels

LEMMA NobodyNoRollout == Nobody \notin Rollouts
  BY CommandsAssumption DEF Nobody, Rollouts

\* Where the running command is: when a rollout is being worked on, and which
\* records it may find.
Position ==
  /\ active = Nobody <=> step = "none"
  /\ active # Nobody => pc \in {"recover", "process"}
  /\ pc = "recover" /\ active # Nobody => Recorded = {active} /\ step # "drop"
  /\ pc \in {"load", "classify"} => Recorded = {}
  /\ pc = "process" => Recorded = IF step \in {"none", "drop"} THEN {} ELSE {active}
  /\ pc = "process" /\ active # Nobody => enabled = queueing
  /\ step = "decide" => record[active] = "open"
  /\ step \in {"settle", "conclude"} => record[active] \in {"done", "deferred"}

\* How the copy of the queue follows the file while it is in use: it lags behind
\* by the rollout at work, between its settlement and the end of its record.
Followed ==
  IF step # "conclude" THEN memory = queue
  ELSE IF record[active] = "done" THEN queue = memory \ {active}
  ELSE IF command = "repair" THEN queue = memory \cup {active}
  ELSE queue = memory

Copy ==
  /\ command = "none" => pc = "idle"
  /\ pc \in {"load", "classify", "process"} => command \in {"repair", "retry"}
  /\ command = "retry" => queueing
  /\ pc = "idle" => completed = {} /\ todo = {} /\ seen = Unseen
  /\ completed # {} => pc # "recover" \/ Recorded = {}
  /\ pc \in {"recover", "load"} => queue \cap completed = {} /\ seen = Unseen
  /\ pc = "recover" /\ step = "conclude" /\ record[active] = "done" /\ enabled
       => active \notin queue
  /\ pc \in {"classify", "process"} /\ queueing => Followed
  /\ pc = "classify" /\ command = "retry" => todo \cup Seen \subseteq queue
  /\ pc = "process" /\ command = "retry"
       => /\ todo \subseteq queue
          /\ step \in {"decide", "settle"} => active \in queue
  /\ pc = "process" => active \notin todo

CommandsInv == TypeOK /\ Position /\ Copy /\ OneTransaction

LEMMA CommandsInitially == Init => CommandsInv
<1> SUFFICES ASSUME Init PROVE CommandsInv
  OBVIOUS
<1>1. Flags
  BY DEF Init, Flags
<1>2. Counters
  BY CommandsAssumption DEF Init, Counters
<1>3. Labels
  BY DEF Init, Labels, Records, Unseen
<1>4. Position /\ Copy /\ OneTransaction
  BY DEF Init, Position, Copy, OneTransaction, Recorded
<1> QED
  BY <1>1, <1>2, <1>3, <1>4, TypeParts DEF CommandsInv

LEMMA FlagsStep == CommandsInv /\ [Next]_vars => Flags'
<1> SUFFICES ASSUME CommandsInv, [Next]_vars PROVE Flags'
  OBVIOUS
<1>0. Flags
  BY TypeParts DEF CommandsInv
<1>1. enabled' = enabled \/ enabled' = queueing
  BY ZenonT(60) DEF Next, Run, Transact, StartRepair, StartRetry, StartRecover, Start, RecoverNext,
       RecoverRefused, RecoverDone, LoadForRepair, LoadForRetry, Classify, ClassifyDone,
       PassOver, SkipByLimit, Rewrite, BeginTransaction, Decide, DecideUnsupported, Settle,
       Conclude, Drop, Fault, Stop, Change, EndCommand, vars, durable
<1>2. queueing' = queueing \/ queueing' \in BOOLEAN
  BY ZenonT(60) DEF Next, Run, Transact, StartRepair, StartRetry, StartRecover, Start, RecoverNext,
       RecoverRefused, RecoverDone, LoadForRepair, LoadForRetry, Classify, ClassifyDone,
       PassOver, SkipByLimit, Rewrite, BeginTransaction, Decide, DecideUnsupported, Settle,
       Conclude, Drop, Fault, Stop, Change, EndCommand, vars, volatile
<1> QED
  BY <1>0, <1>1, <1>2 DEF Flags

LEMMA CountersStep == CommandsInv /\ [Next]_vars => Counters'
<1> SUFFICES ASSUME CommandsInv, [Next]_vars PROVE Counters'
  OBVIOUS
<1>0. Counters
  BY TypeParts DEF CommandsInv
<1>1. stops' = stops \/ (stops < MaxStops /\ stops' = stops + 1)
  BY ZenonT(60) DEF Next, Run, Transact, StartRepair, StartRetry, StartRecover, Start, RecoverNext,
       RecoverRefused, RecoverDone, LoadForRepair, LoadForRetry, Classify, ClassifyDone,
       PassOver, SkipByLimit, Rewrite, BeginTransaction, Decide, DecideUnsupported, Settle,
       Conclude, Drop, Fault, Stop, Change, EndCommand, vars, bounds
<1>2. faults' = faults \/ (faults < MaxFaults /\ faults' = faults + 1)
  BY ZenonT(60) DEF Next, Run, Transact, StartRepair, StartRetry, StartRecover, Start, RecoverNext,
       RecoverRefused, RecoverDone, LoadForRepair, LoadForRetry, Classify, ClassifyDone,
       PassOver, SkipByLimit, Rewrite, BeginTransaction, Decide, DecideUnsupported, Settle,
       Conclude, Drop, Fault, Stop, Change, EndCommand, vars, bounds
<1>3. changes' = changes \/ (changes < MaxChanges /\ changes' = changes + 1)
  BY ZenonT(60) DEF Next, Run, Transact, StartRepair, StartRetry, StartRecover, Start, RecoverNext,
       RecoverRefused, RecoverDone, LoadForRepair, LoadForRetry, Classify, ClassifyDone,
       PassOver, SkipByLimit, Rewrite, BeginTransaction, Decide, DecideUnsupported, Settle,
       Conclude, Drop, Fault, Stop, Change, EndCommand, vars, bounds
<1> QED
  BY <1>0, <1>1, <1>2, <1>3, CommandsAssumption DEF Counters

LEMMA LabelsStep == CommandsInv /\ [Next]_vars => Labels'
<1> SUFFICES ASSUME CommandsInv, [Next]_vars PROVE Labels'
  OBVIOUS
<1>0. Labels /\ Position
  BY TypeParts DEF CommandsInv
<1> USE <1>0 DEF Labels, durable, volatile, bounds, Records, EndCommand, Unseen, Mark, Oblige,
        Enqueue, Dequeue
<1>1. CASE StartRepair
  BY <1>1 DEF StartRepair, Start
<1>2. CASE StartRetry
  BY <1>2 DEF StartRetry, Start
<1>3. CASE StartRecover
  BY <1>3 DEF StartRecover, Start
<1>4. CASE RecoverNext
  BY <1>4 DEF RecoverNext, Recorded
<1>5. CASE RecoverRefused
  BY <1>5 DEF RecoverRefused
<1>6. CASE RecoverDone
  BY <1>6 DEF RecoverDone
<1>7. CASE LoadForRepair
  BY <1>7 DEF LoadForRepair
<1>8. CASE LoadForRetry
  BY <1>8 DEF LoadForRetry
<1>9. CASE Classify
  BY <1>9 DEF Classify, Appearance, Classes, First
<1>10. CASE ClassifyDone
  BY <1>10 DEF ClassifyDone, Seen
<1>11. CASE PassOver
  BY <1>11 DEF PassOver
<1>12. CASE SkipByLimit
  BY <1>12 DEF SkipByLimit
<1>13. CASE Rewrite
  BY <1>13 DEF Rewrite
<1>14. CASE BeginTransaction
  BY <1>14 DEF BeginTransaction
<1>15. CASE Decide
  BY <1>15 DEF Decide
<1>16. CASE DecideUnsupported
  BY <1>16 DEF DecideUnsupported
<1>17. CASE Settle
  BY <1>17 DEF Settle, Position
<1>18. CASE Conclude
  BY <1>18 DEF Conclude, Position
<1>19. CASE Drop
  BY <1>19 DEF Drop
<1>20. CASE Fault
  BY <1>20 DEF Fault
<1>21. CASE Stop
  BY <1>21 DEF Stop
<1>22. CASE Change
  BY <1>22 DEF Change
<1>23. CASE UNCHANGED vars
  BY <1>23 DEF vars
<1> QED
  BY <1>1, <1>2, <1>3, <1>4, <1>5, <1>6, <1>7, <1>8, <1>9, <1>10, <1>11, <1>12,
     <1>13, <1>14, <1>15, <1>16, <1>17, <1>18, <1>19, <1>20, <1>21, <1>22, <1>23
  DEF Next, Run, Transact

LEMMA PositionStep == CommandsInv /\ [Next]_vars => Position' /\ OneTransaction'
<1> SUFFICES ASSUME CommandsInv, [Next]_vars PROVE Position' /\ OneTransaction'
  OBVIOUS
<1>0. Labels /\ Position /\ OneTransaction
  BY TypeParts DEF CommandsInv
<1> USE <1>0, NobodyNoRollout DEF Position, OneTransaction, Labels, durable, volatile, bounds,
        EndCommand, Recorded, Mark
<1>1. CASE StartRepair
  BY <1>1 DEF StartRepair, Start
<1>2. CASE StartRetry
  BY <1>2 DEF StartRetry, Start
<1>3. CASE StartRecover
  BY <1>3 DEF StartRecover, Start
<1>4. CASE RecoverNext
  BY <1>4 DEF RecoverNext, Records
<1>5. CASE RecoverRefused
  BY <1>5 DEF RecoverRefused
<1>6. CASE RecoverDone
  BY <1>6 DEF RecoverDone
<1>7. CASE LoadForRepair
  BY <1>7 DEF LoadForRepair
<1>8. CASE LoadForRetry
  BY <1>8 DEF LoadForRetry
<1>9. CASE Classify
  BY <1>9 DEF Classify
<1>10. CASE ClassifyDone
  BY <1>10 DEF ClassifyDone
<1>11. CASE PassOver
  BY <1>11 DEF PassOver
<1>12. CASE SkipByLimit
  BY <1>12 DEF SkipByLimit
<1>13. CASE Rewrite
  BY <1>13 DEF Rewrite
<1>14. CASE BeginTransaction
  BY <1>14 DEF BeginTransaction, Turn, First
<1>15. CASE Decide
  BY <1>15 DEF Decide
<1>16. CASE DecideUnsupported
  BY <1>16 DEF DecideUnsupported
<1>17. CASE Settle
  BY <1>17 DEF Settle
<1>18. CASE Conclude
  BY <1>18 DEF Conclude
<1>19. CASE Drop
  BY <1>19 DEF Drop
<1>20. CASE Fault
  BY <1>20 DEF Fault
<1>21. CASE Stop
  BY <1>21 DEF Stop
<1>22. CASE Change
  BY <1>22 DEF Change
<1>23. CASE UNCHANGED vars
  BY <1>23 DEF vars
<1> QED
  BY <1>1, <1>2, <1>3, <1>4, <1>5, <1>6, <1>7, <1>8, <1>9, <1>10, <1>11, <1>12,
     <1>13, <1>14, <1>15, <1>16, <1>17, <1>18, <1>19, <1>20, <1>21, <1>22, <1>23
  DEF Next, Run, Transact

LEMMA CopyStep == CommandsInv /\ [Next]_vars => Copy'
<1> SUFFICES ASSUME CommandsInv, [Next]_vars PROVE Copy'
  OBVIOUS
<1>0. Labels /\ Position /\ Copy
  BY TypeParts DEF CommandsInv
<1> USE <1>0, NobodyNoRollout DEF Position, Copy, Followed, Labels, durable, volatile, bounds,
        EndCommand, Recorded, Mark, Oblige, Enqueue, Dequeue
<1>1. CASE StartRepair
  BY <1>1 DEF StartRepair, Start
<1>2. CASE StartRetry
  BY <1>2 DEF StartRetry, Start
<1>3. CASE StartRecover
  BY <1>3 DEF StartRecover, Start
<1>4. CASE RecoverNext
  BY <1>4 DEF RecoverNext
<1>5. CASE RecoverRefused
  BY <1>5 DEF RecoverRefused
<1>6. CASE RecoverDone
  BY <1>6 DEF RecoverDone
<1>7. CASE LoadForRepair
  BY <1>7 DEF LoadForRepair
<1>8. CASE LoadForRetry
  BY <1>8 DEF LoadForRetry, Seen, Unseen
<1>9. CASE Classify
  BY <1>9 DEF Classify, Seen, Appearance, Classes, First
<1>10. CASE ClassifyDone
  BY <1>10 DEF ClassifyDone, Seen
<1>11. CASE PassOver
  BY <1>11 DEF PassOver, Turn, First
<1>12. CASE SkipByLimit
  BY <1>12 DEF SkipByLimit, Turn, First
<1>13. CASE Rewrite
  BY <1>13 DEF Rewrite
<1>14. CASE BeginTransaction
  BY <1>14 DEF BeginTransaction, Turn, First
<1>15. CASE Decide
  BY <1>15 DEF Decide
<1>16. CASE DecideUnsupported
  BY <1>16 DEF DecideUnsupported
<1>17. CASE Settle
  BY <1>17 DEF Settle
<1>18. CASE Conclude
  BY <1>18 DEF Conclude
<1>19. CASE Drop
  BY <1>19 DEF Drop
<1>20. CASE Fault
  BY <1>20 DEF Fault
<1>21. CASE Stop
  BY <1>21 DEF Stop
<1>22. CASE Change
  BY <1>22 DEF Change, Seen
<1>23. CASE UNCHANGED vars
  BY <1>23 DEF vars, Seen
<1> QED
  BY <1>1, <1>2, <1>3, <1>4, <1>5, <1>6, <1>7, <1>8, <1>9, <1>10, <1>11, <1>12,
     <1>13, <1>14, <1>15, <1>16, <1>17, <1>18, <1>19, <1>20, <1>21, <1>22, <1>23
  DEF Next, Run, Transact

LEMMA CommandsAlways == Spec => []CommandsInv
<1>1. CommandsInv /\ [Next]_vars => CommandsInv'
  BY FlagsStep, CountersStep, LabelsStep, PositionStep, CopyStep
  DEF CommandsInv, TypeOK, Flags, Counters, Labels
<1> QED
  BY CommandsInitially, <1>1, PTL DEF Spec

\* Every variable keeps its type.
THEOREM CommandsTypeCorrect == Spec => []TypeOK
<1>1. CommandsInv => TypeOK
  BY DEF CommandsInv
<1> QED
  BY CommandsAlways, <1>1, PTL

\* Any number of rollouts, commands stopped anywhere: never evidence of two
\* transactions at once.
THEOREM OneAtATime == Spec => []OneTransaction
<1>1. CommandsInv => OneTransaction
  BY DEF CommandsInv
<1> QED
  BY CommandsAlways, <1>1, PTL

\* The rewrite of the whole queue at the end of repair and retry writes what the
\* file holds already, however many obligations came and went meanwhile.
THEOREM RewriteIsIdle == Spec => RewriteChangesNothing
<1> DEFINE Idle == pc = "process" /\ pc' = "idle" /\ stops' = stops => queue' = queue
<1>1. CommandsInv /\ [Next]_vars => [Idle]_vars
  <2> SUFFICES ASSUME CommandsInv, Next, pc = "process", pc' = "idle", stops' = stops
               PROVE  queue' = queue
    BY DEF Idle, vars
  <2>0. Counters /\ Copy
    BY TypeParts DEF CommandsInv
  <2>1. Rewrite \/ Fault \/ Stop
    BY ZenonT(60) DEF Next, Run, Transact, StartRepair, StartRetry, StartRecover, Start,
       RecoverNext, RecoverRefused, RecoverDone, LoadForRepair, LoadForRetry, Classify,
       ClassifyDone, PassOver, SkipByLimit, BeginTransaction, Decide, DecideUnsupported,
       Settle, Conclude, Drop, Change, volatile
  <2>2. CASE Rewrite
    BY <2>0, <2>2, CommandsInv DEF Rewrite, Copy, Followed, CommandsInv, Position
  <2>3. CASE Fault
    BY <2>3 DEF Fault
  <2>4. CASE Stop
    BY <2>0, <2>4 DEF Stop, Counters
  <2> QED
    BY <2>1, <2>2, <2>3, <2>4
<1> QED
  BY CommandsAlways, <1>1, PTL DEF Spec, RewriteChangesNothing
------------------------------------------------------------------------------
(* Obligations.                                                              *)

\* Between the settlement and the end of its record, an abandoned transaction's
\* rollout is queued.
Requeued ==
  step = "conclude" /\ record[active] = "deferred" /\ enabled => active \in queue

LEMMA RequeuedStep == CommandsInv /\ Requeued /\ [Next]_vars => Requeued'
<1> SUFFICES ASSUME CommandsInv, Requeued, [Next]_vars PROVE Requeued'
  OBVIOUS
<1>0. Labels /\ Position
  BY TypeParts DEF CommandsInv
<1>1. CASE Settle
  <2>1. UNCHANGED <<record, enabled, active>>
    BY <1>1 DEF Settle
  <2>2. record[active] = "deferred" /\ enabled => active \in queue'
    BY <1>1 DEF Settle
  <2> QED
    BY <2>1, <2>2 DEF Requeued
<1>2. CASE BeginTransaction \/ Decide \/ DecideUnsupported \/ Conclude \/ Drop \/ Fault
  <2>1. step' # "conclude"
    BY <1>2 DEF BeginTransaction, Decide, DecideUnsupported, Conclude, Drop, Fault, EndCommand
  <2> QED
    BY <2>1 DEF Requeued
<1>3. CASE Stop \/ Rewrite \/ RecoverRefused \/ RecoverDone \/ RecoverNext \/ LoadForRetry
  <2>1. step' # "conclude" \/ UNCHANGED <<queue, record, enabled, active, step>>
    BY <1>3 DEF Stop, Rewrite, RecoverRefused, RecoverDone, RecoverNext, LoadForRetry,
       EndCommand, durable
  <2>2. CASE UNCHANGED <<queue, record, enabled, active, step>>
    BY <2>2 DEF Requeued
  <2> QED
    BY <2>1, <2>2 DEF Requeued
<1>4. CASE StartRepair \/ StartRetry \/ StartRecover \/ LoadForRepair \/ ClassifyDone
           \/ SkipByLimit \/ Change \/ UNCHANGED vars
  <2>1. UNCHANGED <<queue, record, enabled, active, step>>
    BY <1>4 DEF StartRepair, StartRetry, StartRecover, Start, LoadForRepair,
       ClassifyDone, SkipByLimit, Change, durable, volatile, vars
  <2> QED
    BY <2>1 DEF Requeued
<1>5. CASE Classify \/ PassOver
  <2>1. step # "conclude" /\ UNCHANGED step
    BY <1>0, <1>5 DEF Classify, PassOver, Turn, Position
  <2> QED
    BY <2>1 DEF Requeued
<1> QED
  BY <1>1, <1>2, <1>3, <1>4, <1>5 DEF Next, Run, Transact

\* No stop between two steps of any command loses an obligation to try a rollout
\* again: it ends with a repair, with a pair that needs none or cannot be cloned,
\* or with a safety failure the command reports.
THEOREM ObligationsKept == Spec => NoObligationLost
<1> DEFINE Answered(r) == \/ "done" \in {record[r], record'[r]}
                          \/ seen'[r] = "terminal"
                          \/ active = r /\ "drop" \in {step, step'}
                          \/ faults' > faults
<1> DEFINE Kept == \A r \in Rollouts : Owed(r) /\ ~Owed(r)' => Answered(r)
<1>1. CommandsInv /\ Requeued /\ [Next]_vars => [Kept]_vars
  <2> SUFFICES ASSUME CommandsInv, Requeued, Next, NEW r \in Rollouts, Owed(r), ~Owed(r)'
               PROVE  Answered(r)
    OBVIOUS
  <2>0. Flags /\ Counters /\ Labels /\ Position /\ Copy
    BY TypeParts DEF CommandsInv
  <2>1. CASE UNCHANGED durable
    BY <2>1 DEF Owed, durable
  <2>2. CASE Classify
    BY <2>0, <2>2 DEF Classify, Oblige, Enqueue, Dequeue, Owed, Labels, First
  <2>3. CASE PassOver
    BY <2>0, <2>3 DEF PassOver, Oblige, Enqueue, Dequeue, Owed, Labels, Turn, First
  <2>4. CASE Rewrite
    BY <2>0, <2>4 DEF Rewrite, Owed, Copy, Followed, Position
  <2>5. CASE BeginTransaction
    BY <2>0, <2>5 DEF BeginTransaction, Owed, Position, Turn, Recorded, Labels
  <2>6. CASE Decide
    BY <2>0, <2>6 DEF Decide, Mark, Owed, Position, Labels
  <2>7. CASE DecideUnsupported
    BY <2>0, <2>7 DEF DecideUnsupported, Mark, Owed, Labels
  <2>8. CASE Settle
    BY <2>0, <2>8 DEF Settle, Owed, Position, Labels
  <2>9. CASE Conclude
    BY <2>0, <2>9 DEF Conclude, Mark, Owed, Position, Labels, Requeued
  <2>10. CASE Drop
    BY <2>0, <2>10 DEF Drop, Owed, Labels
  <2>11. CASE Fault
    BY <2>0, <2>11 DEF Fault, Counters
  <2> QED
    BY <2>1, <2>2, <2>3, <2>4, <2>5, <2>6, <2>7, <2>8, <2>9, <2>10, <2>11, ZenonT(60)
    DEF Next, Run, Transact, StartRepair, StartRetry, StartRecover, Start,
       RecoverNext, RecoverRefused, RecoverDone, LoadForRepair, LoadForRetry,
       ClassifyDone, SkipByLimit, Stop, Change
<1>2. Init => Requeued
  BY DEF Init, Requeued
<1> QED
  BY CommandsAlways, RequeuedStep, <1>1, <1>2, PTL DEF Spec, NoObligationLost
================================================================================
