---------------------------- MODULE StateWriteProofs ----------------------------
(***************************************************************************)
(* Proofs about StateWrite, for any number of failing calls, interrupts and *)
(* intrusions: the write implements the register RegisterPromise.           *)
(***************************************************************************)
EXTENDS StateWrite, TLAPS

\* The types in three parts, each for the prover that can handle it.
Flags == {flushed, mapped, known, attempted, returned, synced, intruded} \subseteq BOOLEAN
Counters ==
  /\ errors \in 0..MaxErrors /\ interrupts \in 0..MaxInterrupts
  /\ intrusions \in 0..MaxIntrusions
Labels ==
  /\ names \in [canonical : Objects, temporary : Objects]
  /\ restorable \subseteq [canonical : Objects, temporary : Objects]
  /\ payload \in {"none", "part", "whole"}
  /\ pc \in Body \cup {"classify", "settle", "done", "off"}
  /\ receipt \in AtomicPublication
  /\ answer \in AtomicPublication \cup {"none"}
  /\ cleanup \in {"none", "done", "failed"}

LEMMA TypeParts == TypeOK <=> Flags /\ Counters /\ Labels
  BY DEF TypeOK, Flags, Counters, Labels

Unpublished == \A n \in Possible : n.canonical # "temp"
Fixed == \A n \in Possible : n.canonical = "temp"

\* Where the new record can be, now or after a power loss.
Whereabouts ==
  /\ \A n \in Possible : n.temporary # "old" /\ (n.canonical = "temp" => n.temporary # "temp")
  /\ names.temporary = "temp" => Unpublished
  /\ ~attempted => Unpublished
  /\ attempted => payload = "whole" /\ flushed /\ known
  /\ synced /\ names.canonical = "temp" => Fixed
  /\ ~intruded /\ names.canonical # "temp" => Unpublished

\* What the writer has done when it is at a step, and what its receipt says then.
Position ==
  /\ pc \in {"create", "write", "flush", "revalidate"} => ~attempted
  /\ pc \in {"write", "flush", "revalidate"} => known
  /\ pc \in {"flush", "revalidate"} => payload = "whole"
  /\ pc = "revalidate" => flushed
  /\ pc \in {"replace", "sync", "verify"} => attempted
  /\ pc = "verify" => synced
  /\ pc = "replace" => Unpublished
  /\ pc \in {"create", "write", "flush", "revalidate", "replace", "sync"} => ~synced
  /\ pc \notin {"done", "off"} => answer = "none"
  /\ pc \in Body \cup {"classify"} =>
       receipt \in {"not-published", "ambiguous"} /\ (receipt = "not-published" => ~attempted)
  /\ pc = "settle" =>
       /\ receipt = "not-published" => Unpublished
       /\ receipt \in {"published-unsynced", "durable"} => names.canonical = "temp" \/ intruded
       /\ receipt = "durable" /\ names.canonical = "temp" => Fixed

WriteInv == TypeOK /\ Whereabouts /\ Position /\ AnswerTrue /\ NoLeftover

LEMMA WriteInitially == Init => WriteInv
<1> SUFFICES ASSUME Init PROVE WriteInv
  OBVIOUS
<1>1. Flags
  BY DEF Init, Flags
<1>2. Counters
  BY BoundsAssumption DEF Init, Counters
<1>3. Labels
  BY DEF Init, Labels, Objects, NoFile, Body, AtomicPublication
<1>4. Whereabouts /\ Position
  BY DEF Init, Whereabouts, Position, Unpublished, Fixed, Possible, NoFile, Body
<1>5. AnswerTrue /\ NoLeftover
  BY DEF Init, AnswerTrue, NoLeftover
<1> QED
  BY <1>1, <1>2, <1>3, <1>4, <1>5, TypeParts DEF WriteInv

LEMMA FlagsStep == WriteInv /\ [Next]_vars => Flags'
<1> SUFFICES ASSUME WriteInv, [Next]_vars PROVE Flags'
  OBVIOUS
<1>0. Flags
  BY TypeParts DEF WriteInv
<1>1. flushed' = flushed \/ flushed' = TRUE
  BY ZenonT(60) DEF Next, Step, Create, Write, Flush, Arm, Replace, Sync, Verify, Classify, Settle,
       FailBefore, Intrude, Stop, Outage, Then, Fault, Error, Interrupt, vars, disk
<1>2. mapped' = mapped \/ mapped' = ~mapped
  BY ZenonT(60) DEF Next, Step, Create, Write, Flush, Arm, Replace, Sync, Verify, Classify, Settle,
       FailBefore, Intrude, Stop, Outage, Then, Fault, Error, Interrupt, vars, world
<1>3. known' = known \/ known' = TRUE \/ known' = FALSE
  BY ZenonT(60) DEF Next, Step, Create, Write, Flush, Arm, Replace, Sync, Verify, Classify, Settle,
       FailBefore, Intrude, Stop, Outage, Then, Fault, Error, Interrupt, vars, flags
<1>4. attempted' = attempted \/ attempted' = TRUE
  BY ZenonT(60) DEF Next, Step, Create, Write, Flush, Arm, Replace, Sync, Verify, Classify, Settle,
       FailBefore, Intrude, Stop, Outage, Then, Fault, Error, Interrupt, vars, flags
<1>5. returned' = returned \/ returned' = TRUE \/ returned' = FALSE
  BY ZenonT(60) DEF Next, Step, Create, Write, Flush, Arm, Replace, Sync, Verify, Classify, Settle,
       FailBefore, Intrude, Stop, Outage, Then, Fault, Error, Interrupt, vars, flags
<1>6. synced' = synced \/ synced' = TRUE \/ synced' = FALSE
  BY ZenonT(60) DEF Next, Step, Create, Write, Flush, Arm, Replace, Sync, Verify, Classify, Settle,
       FailBefore, Intrude, Stop, Outage, Then, Fault, Error, Interrupt, vars, flags
<1>7. \/ intruded' = intruded \/ intruded' = TRUE
      \/ intruded' = (intruded \/ names.temporary = "other")
  BY ZenonT(60) DEF Next, Step, Create, Write, Flush, Arm, Replace, Sync, Verify, Classify, Settle,
       FailBefore, Intrude, Stop, Outage, Then, Fault, Error, Interrupt, vars, world
<1> QED
  BY <1>0, <1>1, <1>2, <1>3, <1>4, <1>5, <1>6, <1>7 DEF Flags

LEMMA CountersStep == WriteInv /\ [Next]_vars => Counters'
<1> SUFFICES ASSUME WriteInv, [Next]_vars PROVE Counters'
  OBVIOUS
<1>0. Counters
  BY TypeParts DEF WriteInv
<1>1. errors' = errors \/ (errors < MaxErrors /\ errors' = errors + 1)
  BY ZenonT(60) DEF Next, Step, Create, Write, Flush, Arm, Replace, Sync, Verify, Classify, Settle,
       FailBefore, Intrude, Stop, Outage, Then, Fault, Error, Interrupt, vars, faults
<1>2. \/ interrupts' = interrupts \/ interrupts' \in interrupts..MaxInterrupts
      \/ interrupts < MaxInterrupts /\ interrupts' = interrupts + 1
  BY ZenonT(60) DEF Next, Step, Create, Write, Flush, Arm, Replace, Sync, Verify, Classify, Settle,
       FailBefore, Intrude, Stop, Outage, Then, Fault, Error, Interrupt, vars, faults
<1>3. intrusions' = intrusions \/ (intrusions < MaxIntrusions /\ intrusions' = intrusions + 1)
  BY ZenonT(60) DEF Next, Step, Create, Write, Flush, Arm, Replace, Sync, Verify, Classify, Settle,
       FailBefore, Intrude, Stop, Outage, Then, Fault, Error, Interrupt, vars, world
<1> QED
  BY <1>0, <1>1, <1>2, <1>3, BoundsAssumption DEF Counters

LEMMA LabelsStep == WriteInv /\ [Next]_vars => Labels'
<1> SUFFICES ASSUME WriteInv, [Next]_vars PROVE Labels'
  OBVIOUS
<1>0. Labels
  BY TypeParts DEF WriteInv
<1> USE <1>0 DEF Labels, disk, flags, told, world, Then, Change, SyncDirectory
<1>1. CASE Create
  BY <1>1 DEF Create, Objects, NoFile, Body, AtomicPublication
<1>2. CASE Write
  BY <1>2 DEF Write, Objects, NoFile, Body, AtomicPublication
<1>3. CASE Flush
  <2>1. UNCHANGED <<names, restorable, payload, receipt, answer, cleanup>>
    BY <1>3, Zenon DEF Flush, flags, told
  <2>2. pc' \in {"revalidate", "classify"}
    BY <1>3, Zenon DEF Flush, Then
  <2> QED
    BY ONLY <1>0, <2>1, <2>2
    DEF Labels, Body
<1>4. CASE Arm
  BY <1>4 DEF Arm, Objects, NoFile, Body, AtomicPublication
<1>5. CASE Replace
  <2>1. UNCHANGED <<payload, receipt, answer, cleanup>> /\ pc' \in {"sync", "classify"}
    BY <1>5, Zenon DEF Replace, flags, told
  <2>2. \/ UNCHANGED <<names, restorable>>
        \/ /\ names' = [canonical |-> names.temporary, temporary |-> NoFile]
           /\ restorable' = restorable \cup {names'}
    BY <1>5, Zenon DEF Replace, Change
  <2>3. [canonical |-> names.temporary, temporary |-> NoFile]
          \in [canonical : Objects, temporary : Objects]
    BY ONLY <1>0 DEF Labels, Objects
  <2>4. /\ names' \in [canonical : Objects, temporary : Objects]
        /\ restorable' \subseteq [canonical : Objects, temporary : Objects]
    BY ONLY <1>0, <2>2, <2>3 DEF Labels
  <2> QED
    BY ONLY <1>0, <2>1, <2>4 DEF Labels, Body
<1>6. CASE Sync
  BY <1>6 DEF Sync, Objects, NoFile, Body, AtomicPublication
<1>7. CASE Verify
  BY <1>7 DEF Verify, Objects, NoFile, Body, AtomicPublication
<1>8. CASE Classify
  <2>1. UNCHANGED <<names, restorable, payload, answer, cleanup>> /\ pc' = "settle"
    BY <1>8, Zenon DEF Classify, disk, told
  <2>2. Publication(Probed(returned /\ synced)) \in AtomicPublication
    BY DEF Publication, Probed, AtomicPublication
  <2>3. Publication(ProbeFailed) \in AtomicPublication
    BY DEF Publication, ProbeFailed, AtomicPublication
  <2>4. \/ receipt' = receipt \/ receipt' = Publication(ProbeFailed)
        \/ receipt' = Publication(Probed(returned /\ synced))
    BY <1>8, Zenon DEF Classify
  <2> QED
    BY ONLY <1>0, <2>1, <2>2, <2>3, <2>4
    DEF Labels, Body
<1>9. CASE Settle
  BY <1>9 DEF Settle, Objects, NoFile, Body, AtomicPublication
<1>10. CASE FailBefore
  BY <1>10 DEF FailBefore, Objects, NoFile, Body, AtomicPublication
<1>11. CASE Intrude
  <2>1. UNCHANGED <<payload, pc, receipt, answer, cleanup>>
    BY <1>11, Zenon DEF Intrude, flags, told
  <2>2. \/ UNCHANGED <<names, restorable>>
        \/ /\ \E f \in {"other", NoFile} : \/ names' = [names EXCEPT !.canonical = f]
                                         \/ names' = [names EXCEPT !.temporary = f]
           /\ restorable' = restorable \cup {names'}
    BY <1>11, Zenon DEF Intrude, Change
  <2>3. {"other", NoFile} \subseteq Objects
    BY DEF Objects
  <2>4. /\ names' \in [canonical : Objects, temporary : Objects]
        /\ restorable' \subseteq [canonical : Objects, temporary : Objects]
    BY ONLY <1>0, <2>2, <2>3 DEF Labels
  <2> QED
    BY ONLY <1>0, <2>1, <2>4 DEF Labels
<1>12. CASE Stop
  BY <1>12 DEF Stop, Objects, NoFile, Body, AtomicPublication
<1>13. CASE Outage
  BY <1>13 DEF Outage, Objects, NoFile, Body, AtomicPublication
<1>14. CASE UNCHANGED vars
  <2>1. UNCHANGED <<names, restorable, payload, pc, receipt, answer, cleanup>>
    BY <1>14, Zenon DEF vars
  <2> QED
    BY ONLY <1>0, <2>1
    DEF Labels
<1> QED
  BY <1>1, <1>2, <1>3, <1>4, <1>5, <1>6, <1>7, <1>8, <1>9, <1>10, <1>11, <1>12,
     <1>13, <1>14 DEF Next, Step

LEMMA PositionStep ==
  WriteInv /\ [Next]_vars => Whereabouts' /\ Position' /\ AnswerTrue' /\ NoLeftover'
<1> SUFFICES ASSUME WriteInv, [Next]_vars
             PROVE  Whereabouts' /\ Position' /\ AnswerTrue' /\ NoLeftover'
  OBVIOUS
<1>0. Labels /\ Whereabouts /\ Position /\ AnswerTrue /\ NoLeftover
  BY TypeParts DEF WriteInv
<1> USE <1>0 DEF Labels, Whereabouts, Position, AnswerTrue, NoLeftover, Unpublished, Fixed,
        Possible, disk, flags, told, world, Then, Change, SyncDirectory
<1>1. CASE Create
  BY <1>1 DEF Create, Objects, NoFile, Body, AtomicPublication
<1>2. CASE Write
  BY <1>2 DEF Write, Objects, NoFile, Body, AtomicPublication
<1>3. CASE Flush
  BY <1>3 DEF Flush, Objects, NoFile, Body, AtomicPublication
<1>4. CASE Arm
  BY <1>4 DEF Arm, Objects, NoFile, Body, AtomicPublication
<1>5. CASE Replace
  <2>0. /\ pc = "replace" /\ attempted /\ ~synced /\ Unpublished
        /\ answer = "none" /\ receipt = "ambiguous"
    BY <1>5 DEF Replace, Body
  <2>1. CASE names.temporary = NoFile
    <3>1. /\ UNCHANGED <<names, restorable, payload, flushed, known, attempted, synced, intruded,
                         receipt, answer, cleanup>>
          /\ pc' = "classify"
      BY <1>5, <2>1, Zenon DEF Replace, told
    <3>2. Whereabouts'
      BY ONLY <1>0, <3>1 DEF Whereabouts, Unpublished, Fixed, Possible
    <3>3. Position'
      BY ONLY <1>0, <2>0, <3>1 DEF Position, Body
    <3>4. AnswerTrue' /\ NoLeftover'
      BY ONLY <2>0, <3>1 DEF AnswerTrue, NoLeftover
    <3> QED
      BY ONLY <3>2, <3>3, <3>4
  <2>2. CASE names.temporary # NoFile
    <3>1. /\ names' = [canonical |-> names.temporary, temporary |-> NoFile]
          /\ restorable' = restorable \cup {names'}
          /\ UNCHANGED <<payload, flushed, known, attempted, synced, receipt, answer, cleanup>>
      BY <1>5, <2>2, Zenon DEF Replace, told, Change
    <3>2. intruded' = (intruded \/ names.temporary = "other")
      BY <1>5, <2>2, Zenon DEF Replace
    <3>3. pc' \in {"sync", "classify"}
      BY <1>5, <2>2, Zenon DEF Replace
    <3>4. names.temporary \in {"temp", "other"}
      BY <2>2 DEF Objects, NoFile
    <3>a. names'.temporary = NoFile /\ names'.canonical = names.temporary
      BY ONLY <3>1
    <3>b. NoFile # "temp" /\ NoFile # "old"
      BY ONLY DEF NoFile
    <3>c. Possible' \subseteq Possible \cup {names'}
      BY ONLY <3>1 DEF Possible
    <3>5. names'.temporary = NoFile /\ names'.canonical = names.temporary /\ NoFile # "temp"
          /\ NoFile # "old" /\ Possible' \subseteq Possible \cup {names'}
      BY ONLY <3>a, <3>b, <3>c
    <3>6. intruded' \/ names'.canonical = "temp"
      BY ONLY <3>2, <3>4, <3>5
    <3>7. Whereabouts'
      BY ONLY <1>0, <2>0, <3>1, <3>5, <3>6 DEF Whereabouts, Unpublished, Fixed
    <3>8. Position'
      BY ONLY <1>0, <2>0, <3>1, <3>3 DEF Position, Body
    <3>9. AnswerTrue' /\ NoLeftover'
      BY ONLY <2>0, <3>1 DEF AnswerTrue, NoLeftover
    <3> QED
      BY ONLY <3>7, <3>8, <3>9
  <2> QED
    BY ONLY <2>1, <2>2
<1>6. CASE Sync
  BY <1>6 DEF Sync, Objects, NoFile, Body, AtomicPublication
<1>7. CASE Verify
  BY <1>7 DEF Verify, Objects, NoFile, Body, AtomicPublication
<1>8. CASE Classify
  BY <1>8 DEF Classify, Publication, Probed, ProbeFailed, Objects, NoFile, Body, AtomicPublication
<1>9. CASE Settle
  BY <1>9 DEF Settle, Objects, NoFile, Body, AtomicPublication
<1>10. CASE FailBefore
  BY <1>10 DEF FailBefore, Objects, NoFile, Body, AtomicPublication
<1>11. CASE Intrude
  <2>1. UNCHANGED <<payload, flushed, pc, known, attempted, returned, synced, receipt, answer,
                    cleanup>>
    BY <1>11, Zenon DEF Intrude, flags, told
  <2>2. CASE UNCHANGED <<names, restorable, intruded>>
    BY ONLY <1>0, <2>1, <2>2
    DEF Labels, Whereabouts, Position, AnswerTrue, NoLeftover, Unpublished, Fixed,
       Possible, NoFile, Body
  <2>3. ASSUME NEW f \in {"other", NoFile}, intruded', names' = [names EXCEPT !.canonical = f],
               restorable' = restorable \cup {names'}
        PROVE  Whereabouts' /\ Position' /\ AnswerTrue' /\ NoLeftover'
    BY ONLY <1>0, <2>1, <2>3
    DEF Labels, Whereabouts, Position, AnswerTrue, NoLeftover, Unpublished, Fixed,
       Possible, NoFile, Body
  <2>4. ASSUME NEW f \in {"other", NoFile}, UNCHANGED intruded,
               names' = [names EXCEPT !.temporary = f], restorable' = restorable \cup {names'}
        PROVE  Whereabouts' /\ Position' /\ AnswerTrue' /\ NoLeftover'
    BY ONLY <1>0, <2>1, <2>4
    DEF Labels, Whereabouts, Position, AnswerTrue, NoLeftover, Unpublished, Fixed,
       Possible, NoFile, Body
  <2> QED
    BY ONLY <1>11, <2>2, <2>3, <2>4, Zenon DEF Intrude, Change
<1>12. CASE Stop
  BY <1>12 DEF Stop, Objects, NoFile, Body, AtomicPublication
<1>13. CASE Outage
  BY <1>13 DEF Outage, Objects, NoFile, Body, AtomicPublication
<1>14. CASE UNCHANGED vars
  <2>1. Whereabouts'
    BY <1>14 DEF vars
  <2>2. Position'
    BY <1>14 DEF vars
  <2>3. AnswerTrue' /\ NoLeftover'
    BY <1>14 DEF vars
  <2> QED
    BY ONLY <2>1, <2>2, <2>3
<1> QED
  BY <1>1, <1>2, <1>3, <1>4, <1>5, <1>6, <1>7, <1>8, <1>9, <1>10, <1>11, <1>12,
     <1>13, <1>14 DEF Next, Step

LEMMA WriteAlways == Spec => []WriteInv
<1>1. WriteInv /\ [Next]_vars => WriteInv'
  BY FlagsStep, CountersStep, LabelsStep, PositionStep
  DEF WriteInv, TypeOK, Flags, Counters, Labels
<1> QED
  BY WriteInitially, <1>1, PTL DEF Spec

\* Every variable keeps its type.
THEOREM WriteTypeCorrect == Spec => []TypeOK
<1>1. WriteInv => TypeOK
  BY DEF WriteInv
<1> QED
  BY WriteAlways, <1>1, PTL

\* The canonical name of a state record never shows a part of the new one, now or
\* after a power loss at any moment.
THEOREM NeverTorn == Spec => []WholeOrBefore
<1>1. WriteInv => WholeOrBefore
  BY DEF WriteInv, Whereabouts, Unpublished, WholeOrBefore
<1> QED
  BY WriteAlways, <1>1, PTL

\* What atomic_write_json reports about the publication is true and stays true,
\* however many calls fail and however many interrupts and intruders come.
THEOREM ReportsTruly == Spec => []AnswerTrue
<1>1. WriteInv => AnswerTrue
  BY DEF WriteInv
<1> QED
  BY WriteAlways, <1>1, PTL

\* A write reported as not published has removed its temporary file, or says so.
THEOREM CleansUp == Spec => []NoLeftover
<1>1. WriteInv => NoLeftover
  BY DEF WriteInv
<1> QED
  BY WriteAlways, <1>1, PTL
--------------------------------------------------------------------------------
\* The refinement: a step of the write is one of the register, or none.
Value == IF names.canonical = "temp" THEN "new" ELSE IF intruded THEN "foreign" ELSE "before"

\* What a step of the write may do to the register.
Moves ==
  \/ UNCHANGED <<Value, answer>> /\ (Fixed' <=> Fixed)
  \/ Value # "new" /\ answer = "none" /\ Value' = "new" /\ UNCHANGED answer
  \/ Value = "foreign" /\ answer # "not-published" /\ Value' = "new" /\ UNCHANGED answer
  \/ Value = "new" /\ Fixed' /\ UNCHANGED <<Value, answer>>
  \/ Value = "new" /\ ~Fixed /\ Value' \in {"before", "foreign"} /\ ~Fixed' /\ UNCHANGED answer
  \/ Value' = "foreign" /\ ~Fixed' /\ UNCHANGED answer
  \/ /\ answer = "none" /\ UNCHANGED Value /\ (Fixed' <=> Fixed)
     /\ \/ answer' = "not-published" /\ Value # "new"
        \/ answer' = "published-unsynced" /\ Value \in {"new", "foreign"}
        \/ answer' = "durable" /\ (Value = "new" => Fixed) /\ Value # "before"
        \/ answer' = "ambiguous"

LEMMA MovesAreSteps == Moves => [Promise!Next]_(Promise!vars)
  BY DEF Moves, Value, Fixed, Promise!Next, Promise!vars, Promise!Take, Promise!Fix, Promise!Lose,
     Promise!Intrude, Promise!Answer

\* A step that touches neither the names nor the answer is none of the register's.
LEMMA Stutters == UNCHANGED <<names, restorable, intruded, answer>> => Moves
  BY DEF Moves, Value, Fixed, Possible

LEMMA WriteMoves == WriteInv /\ [Next]_vars => Moves
<1> SUFFICES ASSUME WriteInv, [Next]_vars PROVE Moves
  OBVIOUS
<1>0. Labels /\ Whereabouts /\ Position /\ AnswerTrue
  BY TypeParts DEF WriteInv
<1>a. Fixed => names.canonical = "temp"
  BY DEF Fixed, Possible
<1>b. Fixed' => names'.canonical = "temp"
  BY DEF Fixed, Possible
<1>c. Unpublished => names.canonical # "temp" /\ ~Fixed
  BY DEF Unpublished, Fixed, Possible
<1>1. CASE Create
  <2>1. names' = [names EXCEPT !.temporary = "temp"] /\ UNCHANGED <<intruded, answer>>
    BY <1>1, Zenon DEF Create, Change, told, world
  <2>2. names'.canonical = names.canonical
    BY ONLY <1>0, <2>1 DEF Labels
  <2>3. names.canonical # "temp" /\ ~Fixed /\ ~Fixed'
    BY ONLY <1>0, <1>1, <1>b, <1>c, <2>2 DEF Create, Position, Whereabouts
  <2> QED
    BY ONLY <2>1, <2>2, <2>3 DEF Moves, Value
<1>2. CASE Write \/ Flush \/ Arm \/ Classify \/ FailBefore \/ Stop
  <2>1. UNCHANGED <<names, restorable, intruded, answer>>
    BY ONLY <1>2, ZenonT(60) DEF Write, Flush, Arm, Classify, FailBefore, Stop, disk, told, world
  <2> QED
    BY ONLY <2>1, Stutters
<1>3. CASE Replace
  <2>1. Unpublished /\ answer = "none" /\ UNCHANGED answer
    BY ONLY <1>0, <1>3 DEF Replace, Position, Body, told
  <2>2. CASE UNCHANGED <<names, restorable, intruded>>
    BY ONLY <2>1, <2>2, Stutters
  <2>3. CASE names' = [canonical |-> names.temporary, temporary |-> NoFile]
    <3>1. names'.canonical = names.temporary
      BY ONLY <2>3
    <3>2. CASE names'.canonical = "temp"
      BY ONLY <1>c, <2>1, <3>2 DEF Moves, Value
    <3>3. CASE names'.canonical # "temp"
      <4>1. names.temporary # NoFile => intruded' = (intruded \/ names.temporary = "other")
        BY ONLY <1>3, Zenon DEF Replace
      <4>2. names.temporary = NoFile => UNCHANGED <<names, restorable, intruded>>
        BY ONLY <1>3, Zenon DEF Replace
      <4>3. names.temporary \in {"temp", "other", NoFile}
        BY ONLY <1>0 DEF Labels, Whereabouts, Objects, Possible
      <4>4. CASE names.temporary = NoFile
        BY ONLY <2>1, <4>2, <4>4, Stutters
      <4>5. CASE names.temporary = "other"
        <5>1. intruded'
          BY ONLY <4>1, <4>5 DEF NoFile
        <5> QED
          BY ONLY <1>b, <2>1, <3>3, <5>1 DEF Moves, Value
      <4> QED
        BY ONLY <3>1, <3>3, <4>3, <4>4, <4>5
    <3> QED
      BY ONLY <3>2, <3>3
  <2> QED
    BY ONLY <1>3, <2>2, <2>3, Zenon DEF Replace, Change
<1>4. CASE Sync
  <2>1. UNCHANGED <<names, intruded, answer>> /\ restorable' \in {restorable, {names}}
    BY ONLY <1>4, ZenonT(30) DEF Sync, SyncDirectory, told, world
  <2>2. CASE UNCHANGED restorable
    BY ONLY <2>1, <2>2, Stutters
  <2>3. CASE restorable' = {names}
    <3>1. Fixed' <=> names.canonical = "temp"
      BY ONLY <2>1, <2>3 DEF Fixed, Possible
    <3>2. UNCHANGED <<Value, answer>>
      BY ONLY <2>1 DEF Value
    <3>3. names.canonical = "temp" => Value = "new"
      BY ONLY DEF Value
    <3>4. names.canonical # "temp" => ~Fixed /\ ~Fixed'
      BY ONLY <1>a, <3>1
    <3> QED
      BY ONLY <3>1, <3>2, <3>3, <3>4 DEF Moves
  <2> QED
    BY ONLY <2>1, <2>2, <2>3
<1>5. CASE Verify
  <2>1. UNCHANGED <<names, restorable, intruded>>
    BY ONLY <1>5, Zenon DEF Verify, disk, world
  <2>2. UNCHANGED Value /\ (Fixed' <=> Fixed)
    BY ONLY <2>1 DEF Value, Fixed, Possible
  <2>3. CASE UNCHANGED answer
    BY ONLY <2>2, <2>3 DEF Moves
  <2>4. CASE answer' = "durable" /\ names.canonical = "temp"
    <3>1. answer = "none" /\ Fixed
      BY ONLY <1>0, <1>5, <2>4 DEF Position, Whereabouts, Verify
    <3>2. Value = "new"
      BY ONLY <2>4 DEF Value
    <3> QED
      BY ONLY <2>2, <2>4, <3>1, <3>2 DEF Moves
  <2> QED
    BY ONLY <1>5, <2>3, <2>4, Zenon DEF Verify
<1>6. CASE Settle
  <2>1. answer = "none" /\ answer' = receipt /\ UNCHANGED intruded
    BY ONLY <1>0, <1>6 DEF Settle, Position, world
  <2>2. \/ UNCHANGED <<names, restorable>>
        \/ receipt = "not-published" /\ names' = [names EXCEPT !.temporary = NoFile]
    BY ONLY <1>6, ZenonT(60) DEF Settle, Change
  <2>3. receipt = "not-published" => names.canonical # "temp" /\ ~Fixed
    BY ONLY <1>0, <1>6, <1>c DEF Settle, Position
  <2>4. names'.canonical = names.canonical
    BY ONLY <1>0, <2>2 DEF Labels
  <2>5. UNCHANGED Value
    BY ONLY <2>1, <2>4 DEF Value
  <2>6. Fixed' <=> Fixed
    <3>1. UNCHANGED <<names, restorable>> => (Fixed' <=> Fixed)
      BY DEF Fixed, Possible
    <3>2. receipt = "not-published" => ~Fixed /\ ~Fixed'
      BY ONLY <1>b, <2>3, <2>4
    <3> QED
      BY ONLY <2>2, <3>1, <3>2
  <2>7. receipt \in {"published-unsynced", "durable"} => Value \in {"new", "foreign"}
    BY ONLY <1>0, <1>6 DEF Settle, Position, Value
  <2>8. receipt = "durable" /\ Value = "new" => Fixed
    BY ONLY <1>0, <1>6 DEF Settle, Position, Value
  <2>9. receipt = "not-published" => Value # "new"
    BY ONLY <2>3 DEF Value
  <2>10. receipt \in AtomicPublication
    BY ONLY <1>0 DEF Labels
  <2> QED
    BY ONLY <2>1, <2>5, <2>6, <2>7, <2>8, <2>9, <2>10 DEF Moves, AtomicPublication
<1>7. CASE Intrude
  <2>1. UNCHANGED answer
    BY ONLY <1>7, Zenon DEF Intrude, told
  <2>2. CASE UNCHANGED <<names, restorable, intruded>>
    BY ONLY <2>1, <2>2, Stutters
  <2>3. ASSUME NEW f \in {"other", NoFile}, intruded', names' = [names EXCEPT !.canonical = f]
        PROVE  Moves
    <3>1. names'.canonical # "temp"
      BY ONLY <1>0, <2>3 DEF Labels, NoFile
    <3>2. Value' = "foreign" /\ ~Fixed'
      BY ONLY <1>b, <2>3, <3>1 DEF Value
    <3> QED
      BY ONLY <2>1, <3>2 DEF Moves
  <2>4. ASSUME NEW f \in {"other", NoFile}, UNCHANGED intruded,
               names' = [names EXCEPT !.temporary = f], restorable' = restorable \cup {names'}
        PROVE  Moves
    <3>1. names'.canonical = names.canonical
      BY ONLY <1>0, <2>4 DEF Labels
    <3>2. UNCHANGED Value
      BY ONLY <2>4, <3>1 DEF Value
    <3>3. CASE Fixed'
      BY ONLY <1>b, <2>1, <3>1, <3>2, <3>3 DEF Moves, Value
    <3>4. CASE ~Fixed'
      <4>1. ~Fixed
        BY ONLY <2>4, <3>1, <3>4 DEF Fixed, Possible
      <4> QED
        BY ONLY <2>1, <3>2, <3>4, <4>1 DEF Moves
    <3> QED
      BY ONLY <3>3, <3>4
  <2> QED
    BY ONLY <1>7, <2>2, <2>3, <2>4, Zenon DEF Intrude, Change
<1>8. CASE Outage
  <2>1. UNCHANGED <<intruded, answer>> /\ names' \in restorable /\ restorable' = {names'}
    BY ONLY <1>8, Zenon DEF Outage, told, world
  <2>2. Fixed' <=> names'.canonical = "temp"
    BY ONLY <2>1 DEF Fixed, Possible
  <2>3. names' \in Possible
    BY ONLY <2>1 DEF Possible
  <2>4. CASE names.canonical = "temp" /\ names'.canonical = "temp"
    BY ONLY <2>1, <2>2, <2>4 DEF Moves, Value
  <2>5. CASE names.canonical = "temp" /\ names'.canonical # "temp"
    <3>1. ~Fixed
      BY ONLY <2>3, <2>5 DEF Fixed
    <3> QED
      BY ONLY <2>1, <2>2, <2>5, <3>1 DEF Moves, Value
  <2>6. CASE names.canonical # "temp" /\ names'.canonical = "temp"
    <3>1. intruded
      BY ONLY <1>0, <2>3, <2>6 DEF Whereabouts, Unpublished
    <3>2. answer # "not-published"
      BY ONLY <1>0, <2>3, <2>6 DEF AnswerTrue
    <3> QED
      BY ONLY <2>1, <2>6, <3>1, <3>2 DEF Moves, Value
  <2>7. CASE names.canonical # "temp" /\ names'.canonical # "temp"
    BY ONLY <1>a, <2>1, <2>2, <2>7 DEF Moves, Value
  <2> QED
    BY ONLY <2>4, <2>5, <2>6, <2>7
<1>9. CASE UNCHANGED vars
  BY ONLY <1>9, Stutters DEF vars
<1> QED
  BY <1>1, <1>2, <1>3, <1>4, <1>5, <1>6, <1>7, <1>8, <1>9 DEF Next, Step

\* atomic_write_json implements the register: one instant at which the record is
\* taken, an answer that tells of it, and losses only where the answer allows them.
THEOREM WriteImplementsRegister == Spec => KeepsPromise
<1>1. ASSUME Init PROVE Promise!Init
  <2>1. names.canonical # "temp" /\ ~intruded /\ answer = "none"
    BY <1>1 DEF Init, NoFile
  <2>2. ~(\A n \in Possible : n.canonical = "temp")
    BY <2>1 DEF Possible
  <2> QED
    BY <2>1, <2>2 DEF Promise!Init
<1>2. WriteInv /\ [Next]_vars => [Promise!Next]_(Promise!vars)
  BY WriteMoves, MovesAreSteps
<1> QED
  BY WriteAlways, <1>1, <1>2, PTL DEF Spec, KeepsPromise, Promise!Spec
================================================================================
