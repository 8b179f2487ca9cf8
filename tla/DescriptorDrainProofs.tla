------------------------- MODULE DescriptorDrainProofs -------------------------
(***************************************************************************)
(* Proofs about DescriptorDrain, for any number of owners and of closes     *)
(* that fail.                                                               *)
(***************************************************************************)
EXTENDS DescriptorDrain, TLAPS

AtOwner == {"enter", "arm", "disarm", "call", "prove", "tail", "handler"}

\* A close touches the number only while nobody else can have it.
Untouched ==
  /\ \A o \in Owners : disposition[o] = "owned pending" => slot[o] = "ours"
  /\ pc \in AtOwner => turn \in Owners
  /\ pc = "arm" => disposition[turn] = "owned pending"
  /\ pc \in {"disarm", "call"} => slot[turn] = "ours"
  /\ pc \in {"disarm", "call", "prove"} => disposition[turn] # "owned pending"
  /\ ~struck

DrainInv == TypeOK /\ Untouched

\* The owners, and the positions of a pass, as the steps count through them.
LEMMA OwnerRange ==
  /\ 1 \in Owners
  /\ \A o \in Owners : o \in Nat /\ 1 <= o /\ o <= Count /\ o + 1 \in 1..(Count + 1)
  /\ \A n \in 1..(Count + 1) : n \in Nat /\ 1 <= n /\ (n \in Owners <=> n # Count + 1)
  /\ 1 \in 1..(Count + 1)
  BY CountAssumption DEF Owners

\* The types in three parts, each for the prover that can handle it.
Flags == held \in [Owners -> BOOLEAN] /\ retried \in BOOLEAN /\ struck \in BOOLEAN
Counters ==
  /\ turn \in 1..(Count + 1) /\ pass \in {1, 2}
  /\ closeErrors \in 0..MaxCloseErrors /\ interrupts \in 0..MaxInterrupts
Labels ==
  /\ slot \in [Owners -> {"ours", "free", "other"}]
  /\ disposition \in [Owners -> {"owned pending", "outcome unproved", "closed proved"}]
  /\ receiptError \in [Owners -> Faults]
  /\ pc \in {"turn", "enter", "arm", "disarm", "call", "prove", "tail", "handler", "end"}
  /\ {passError, raised, firstFault} \subseteq Faults

LEMMA TypeParts == TypeOK <=> Flags /\ Counters /\ Labels
  BY DEF TypeOK, Flags, Counters, Labels

LEMMA DrainInitially == Init => DrainInv
<1> SUFFICES ASSUME Init PROVE DrainInv
  OBVIOUS
<1>1. Flags
  BY ZenonT(30) DEF Init, Flags
<1>2. Counters
  <2>1. turn = 1 /\ pass = 1 /\ closeErrors = 0 /\ interrupts = 0
    BY DEF Init
  <2> QED
    BY ONLY <2>1, OwnerRange, FaultsAssumption DEF Counters
<1>3. Labels
  BY DEF Init, Labels, Faults
<1>4. Untouched
  BY DEF Init, Untouched, AtOwner
<1> QED
  BY <1>1, <1>2, <1>3, <1>4, TypeParts DEF DrainInv

LEMMA FlagsStep == DrainInv /\ [Next]_vars => Flags'
<1> SUFFICES ASSUME DrainInv, [Next]_vars PROVE Flags'
  OBVIOUS
<1>0. Flags
  BY TypeParts DEF DrainInv
<1>1. held' \in [Owners -> BOOLEAN]
  <2>1. held' = held \/ held' = [held EXCEPT ![turn] = FALSE]
    BY ZenonT(60) DEF Next, Line, Turn, Enter, Arm, Disarm, Call, Prove, Tail, Return,
         InterruptClose, InterruptTurn, InterruptPass, Reuse, owned, vars, Interrupted
  <2> QED
    BY <1>0, <2>1 DEF Flags
<1>2. retried' \in BOOLEAN
  <2>1. retried' = retried \/ retried' = FALSE \/ retried' = TRUE
    BY ZenonT(60) DEF Next, Line, Turn, Enter, Arm, Disarm, Call, Prove, Tail, Return,
         InterruptClose, InterruptTurn, InterruptPass, Reuse, control, Advance, vars
  <2> QED
    BY <1>0, <2>1 DEF Flags
<1>3. struck' \in BOOLEAN
  <2>1. struck' = struck \/ struck' = (struck \/ slot[turn] = "other")
    BY ZenonT(60) DEF Next, Line, Turn, Enter, Arm, Disarm, Call, Prove, Tail, Return,
         InterruptClose, InterruptTurn, InterruptPass, Reuse, Interrupted, vars
  <2> QED
    BY <1>0, <2>1 DEF Flags
<1> QED
  BY <1>1, <1>2, <1>3 DEF Flags

LEMMA CountersStep == DrainInv /\ [Next]_vars => Counters'
<1> SUFFICES ASSUME DrainInv, [Next]_vars PROVE Counters'
  OBVIOUS
<1>0. Counters /\ (pc \in AtOwner => turn \in Owners)
  BY TypeParts DEF DrainInv, Untouched
<1>1. turn' \in 1..(Count + 1)
  <2>1. \/ turn' = turn \/ turn' = 1
        \/ pc \in AtOwner /\ turn' = turn + 1
    BY ZenonT(60) DEF Next, Line, Turn, Enter, Arm, Disarm, Call, Prove, Tail, Return,
         InterruptClose, InterruptTurn, InterruptPass, Reuse, control, Advance, vars, AtOwner
  <2> QED
    BY <1>0, <2>1, OwnerRange DEF Counters
<1>2. pass' \in {1, 2}
  <2>1. pass' = pass \/ pass' = 2
    BY ZenonT(60) DEF Next, Line, Turn, Enter, Arm, Disarm, Call, Prove, Tail, Return,
         InterruptClose, InterruptTurn, InterruptPass, Reuse, control, vars
  <2> QED
    BY <1>0, <2>1 DEF Counters
<1>3. closeErrors' \in 0..MaxCloseErrors
  <2>1. \/ closeErrors' = closeErrors
        \/ closeErrors < MaxCloseErrors /\ closeErrors' = closeErrors + 1
    BY ZenonT(60) DEF Next, Line, Turn, Enter, Arm, Disarm, Call, Prove, Tail, Return,
         InterruptClose, InterruptTurn, InterruptPass, Reuse, budgets, Interrupted, vars
  <2> QED
    BY <1>0, <2>1, FaultsAssumption DEF Counters
<1>4. interrupts' \in 0..MaxInterrupts
  <2>1. \/ interrupts' = interrupts
        \/ interrupts < MaxInterrupts /\ interrupts' = interrupts + 1
    BY ZenonT(60) DEF Next, Line, Turn, Enter, Arm, Disarm, Call, Prove, Tail, Return,
         InterruptClose, InterruptTurn, InterruptPass, Reuse, budgets, Interrupted, vars
  <2> QED
    BY <1>0, <2>1, FaultsAssumption DEF Counters
<1> QED
  BY <1>1, <1>2, <1>3, <1>4 DEF Counters

LEMMA LabelsStep == DrainInv /\ [Next]_vars => Labels'
<1> SUFFICES ASSUME DrainInv, [Next]_vars PROVE Labels'
  OBVIOUS
<1>0. Labels /\ (pc \in AtOwner => turn \in Owners)
  BY TypeParts DEF DrainInv, Untouched
<1> USE <1>0 DEF Labels, owned, control, budgets, Faults, AtOwner
<1>1. CASE Turn
  BY <1>1 DEF Turn
<1>2. CASE Enter
  BY <1>2 DEF Enter
<1>3. CASE Arm
  BY <1>3 DEF Arm
<1>4. CASE Disarm
  BY <1>4 DEF Disarm
<1>5. CASE Call
  BY <1>5 DEF Call, InReceipt, Note, First
<1>6. CASE Prove
  BY <1>6 DEF Prove
<1>7. CASE Tail
  BY <1>7 DEF Tail, Advance
<1>8. CASE Return
  BY <1>8 DEF Return, Advance, First
<1>9. CASE InterruptClose
  BY <1>9 DEF InterruptClose, Interrupted, InReceipt, Note, First
<1>10. CASE InterruptTurn
  BY <1>10 DEF InterruptTurn, Interrupted, Note, First, Advance
<1>11. CASE InterruptPass
  BY <1>11 DEF InterruptPass, Interrupted, Note, First
<1>12. CASE Reuse
  BY <1>12 DEF Reuse
<1>13. CASE UNCHANGED vars
  BY <1>13 DEF vars
<1> QED
  BY <1>1, <1>2, <1>3, <1>4, <1>5, <1>6, <1>7, <1>8, <1>9, <1>10, <1>11, <1>12, <1>13
  DEF Next, Line

LEMMA TypeStep == DrainInv /\ [Next]_vars => TypeOK'
<1> SUFFICES ASSUME DrainInv, [Next]_vars PROVE TypeOK'
  OBVIOUS
<1>1. (Flags /\ Counters /\ Labels)'
  BY FlagsStep, CountersStep, LabelsStep
<1> QED
  BY <1>1 DEF TypeOK, Flags, Counters, Labels

LEMMA UntouchedStep == DrainInv /\ [Next]_vars => Untouched'
<1> SUFFICES ASSUME DrainInv, [Next]_vars PROVE Untouched'
  OBVIOUS
<1> USE DEF DrainInv, owned, control, budgets, AtOwner, Untouched, TypeOK
<1>1. CASE Turn
  BY <1>1 DEF Turn
<1>2. CASE Enter
  BY <1>2 DEF Enter
<1>3. CASE Arm
  BY <1>3 DEF Arm
<1>4. CASE Disarm
  BY <1>4 DEF Disarm
<1>5. CASE Call
  BY <1>5 DEF Call
<1>6. CASE Prove
  BY <1>6 DEF Prove
<1>7. CASE Tail
  BY <1>7 DEF Tail, Advance
<1>8. CASE Return
  BY <1>8 DEF Return, Advance
<1>9. CASE InterruptClose
  BY <1>9 DEF InterruptClose, Interrupted
<1>10. CASE InterruptTurn
  BY <1>10 DEF InterruptTurn, Interrupted, Advance
<1>11. CASE InterruptPass
  BY <1>11 DEF InterruptPass, Interrupted
<1>12. CASE Reuse
  BY <1>12 DEF Reuse
<1>13. CASE UNCHANGED vars
  BY <1>13 DEF vars
<1> QED
  BY <1>1, <1>2, <1>3, <1>4, <1>5, <1>6, <1>7, <1>8, <1>9, <1>10, <1>11, <1>12, <1>13
  DEF Next, Line

LEMMA DrainAlways == Spec => []DrainInv
<1>1. DrainInv /\ [Next]_vars => DrainInv'
  BY TypeStep, UntouchedStep DEF DrainInv
<1> QED
  BY DrainInitially, <1>1, PTL DEF Spec

\* Every variable keeps its type, the counters their bounds.
THEOREM TypeCorrect == Spec => []TypeOK
<1>1. DrainInv => TypeOK
  BY DEF DrainInv
<1> QED
  BY DrainAlways, <1>1, PTL

\* No close ever hits a number that was given to another file, however many
\* closes fail and however many exceptions come.
THEOREM StrikesNobody == Spec => []NeverStrikesAnother
<1>1. DrainInv => NeverStrikesAnother
  BY DEF DrainInv, Untouched, NeverStrikesAnother
<1> QED
  BY DrainAlways, <1>1, PTL
--------------------------------------------------------------------------------
Dispatched(o) == disposition[o] # "owned pending" /\ ~held[o]

\* How far the present pass has got.  An owner whose turn is taken a second
\* time without having been dispatched has cost the one exception.
Progress ==
  /\ \A o \in Owners : o < turn => Dispatched(o)
  /\ pc \in {"call", "prove", "tail", "handler"} => Dispatched(turn)
  /\ retried => Dispatched(turn) \/ interrupts > 0
  /\ pc = "end" => turn = Count + 1

\* Once an owner is dispatched the pass may go on to the next one.
LEMMA Advancing ==
  ASSUME DrainInv, Progress, turn \in Owners, Dispatched(turn), Advance, UNCHANGED owned
  PROVE  Progress'
<1>1. turn' = turn + 1 /\ pc' = "turn" /\ ~retried'
  BY DEF Advance
<1>2. ASSUME NEW o \in Owners, o < turn' PROVE Dispatched(o)
  <2>1. o < turn \/ o = turn
    BY <1>1, <1>2, OwnerRange
  <2> QED
    BY <2>1 DEF Progress
<1>3. \A o \in Owners : Dispatched(o) => Dispatched(o)'
  BY DEF owned, Dispatched
<1> QED
  BY <1>1, <1>2, <1>3 DEF Progress

LEMMA ProgressStep ==
  ASSUME MaxInterrupts <= 1
  PROVE  DrainInv /\ Progress /\ [Next]_vars => Progress'
<1> SUFFICES ASSUME DrainInv, Progress, [Next]_vars PROVE Progress'
  OBVIOUS
<1>0. TypeOK /\ (pc \in AtOwner => turn \in Owners)
  BY DEF DrainInv, Untouched
<1>a. interrupts \in 0..MaxInterrupts
  BY ONLY <1>0, TypeParts DEF Counters
<1> USE <1>0, OwnerRange, CountAssumption, FaultsAssumption
    DEF TypeOK, owned, control, budgets, AtOwner, Progress, Dispatched
<1>1. CASE Turn
  BY <1>1 DEF Turn
<1>2. CASE Enter
  BY <1>2 DEF Enter
<1>3. CASE Arm
  BY <1>3 DEF Arm
<1>4. CASE Disarm
  <2>1. disposition[turn] # "owned pending"
    BY <1>4 DEF DrainInv, Untouched, Disarm
  <2> QED
    BY <1>4, <2>1 DEF Disarm
<1>5. CASE Call
  BY <1>5 DEF Call
<1>6. CASE Prove
  BY <1>6 DEF Prove
<1>7. CASE Tail
  <2>1. Dispatched(turn) /\ UNCHANGED owned /\ turn \in Owners
    BY ONLY <1>7, <1>0, Progress, ZenonT(30) DEF Tail, Progress, AtOwner
  <2>2. CASE Advance
    BY ONLY <2>1, <2>2, DrainInv, Progress, Advancing
  <2>3. CASE UNCHANGED <<turn, retried, interrupts>> /\ pc' = "handler"
    BY <2>1, <2>3
  <2>4. Advance \/ (UNCHANGED <<turn, retried, interrupts>> /\ pc' = "handler")
    BY ONLY <1>7, ZenonT(30) DEF Tail, budgets
  <2> QED
    BY ONLY <2>2, <2>3, <2>4
<1>8. CASE Return
  <2>1. Dispatched(turn) /\ UNCHANGED owned /\ turn \in Owners
    BY ONLY <1>8, <1>0, Progress, ZenonT(30) DEF Return, Progress, AtOwner
  <2>2. CASE Advance
    BY ONLY <2>1, <2>2, DrainInv, Progress, Advancing
  <2>3. CASE UNCHANGED turn /\ pc' = "enter"
    BY <2>1, <2>3
  <2>4. Advance \/ (UNCHANGED turn /\ pc' = "enter")
    BY ONLY <1>8, ZenonT(30) DEF Return
  <2> QED
    BY ONLY <2>2, <2>3, <2>4
<1>9. CASE InterruptClose
  <2>1. UNCHANGED <<turn, disposition>>
    BY ONLY <1>9, ZenonT(30) DEF InterruptClose, Interrupted, control
  <2>2. interrupts' = interrupts + 1
    BY ONLY <1>9 DEF InterruptClose, Interrupted
  <2>3. interrupts' > 0
    BY ONLY <1>a, <2>2, FaultsAssumption
  <2>4. \/ pc' = "arm" /\ UNCHANGED held
        \/ /\ pc' = "tail" /\ disposition[turn] # "owned pending"
           /\ held' = [held EXCEPT ![turn] = FALSE]
    BY ONLY <1>9, ZenonT(30) DEF InterruptClose
  <2>5. turn \in Owners
    BY ONLY <1>0, <1>9 DEF InterruptClose, AtOwner
  <2> QED
    BY <2>1, <2>3, <2>4, <2>5
<1>10. CASE InterruptTurn
  <2>1. UNCHANGED owned /\ turn \in Owners
    BY ONLY <1>0, <1>10, ZenonT(30) DEF InterruptTurn, Interrupted, owned, AtOwner
  <2>2. interrupts < MaxInterrupts /\ interrupts' = interrupts + 1
    BY ONLY <1>10, ZenonT(30) DEF InterruptTurn, Interrupted
  <2>3. interrupts' > 0 /\ ~(interrupts > 0)
    BY ONLY <1>a, <2>2, FaultsAssumption, MaxInterrupts <= 1
  <2>4. CASE retried /\ Advance
    <3>1. Dispatched(turn)
      BY ONLY <2>3, <2>4, Progress DEF Progress
    <3> QED
      BY ONLY <2>1, <2>4, <3>1, DrainInv, Progress, Advancing
  <2>5. CASE UNCHANGED turn /\ pc' = "enter"
    BY <2>1, <2>3, <2>5
  <2>6. (retried /\ Advance) \/ (UNCHANGED turn /\ pc' = "enter")
    BY ONLY <1>10, ZenonT(30) DEF InterruptTurn
  <2> QED
    BY ONLY <2>4, <2>5, <2>6
<1>11. CASE InterruptPass
  <2>1. turn' = 1 /\ pc' = "turn" /\ retried' = FALSE
    BY <1>11 DEF InterruptPass
  <2>2. turn' = 1
    BY <2>1
  <2>3. ASSUME NEW o \in Owners PROVE ~(o < turn')
    BY ONLY <2>2, OwnerRange
  <2> QED
    BY <2>1, <2>3
<1>12. CASE Reuse
  BY <1>12 DEF Reuse
<1>13. CASE UNCHANGED vars
  BY <1>13 DEF vars
<1> QED
  BY <1>1, <1>2, <1>3, <1>4, <1>5, <1>6, <1>7, <1>8, <1>9, <1>10, <1>11, <1>12, <1>13
  DEF Next, Line

\* With the one exception the contract covers, any number of closes that fail
\* and any number of owners, no owner is left untried.
THEOREM EveryOwnerTried == MaxInterrupts <= 1 => (Spec => []NobodyForgotten)
<1> SUFFICES ASSUME MaxInterrupts <= 1 PROVE Spec => []NobodyForgotten
  OBVIOUS
<1>1. ASSUME Init PROVE Progress
  <2>0. turn = 1
    BY <1>1 DEF Init
  <2>1. ASSUME NEW o \in Owners PROVE ~(o < turn)
    BY <2>0, OwnerRange
  <2> QED
    BY <1>1, <2>1 DEF Init, Progress
<1>2. DrainInv /\ Progress /\ [Next]_vars => Progress'
  BY ProgressStep
<1>3. ASSUME DrainInv, Progress PROVE NobodyForgotten
  <2>1. ASSUME NEW o \in Owners PROVE o < Count + 1
    BY OwnerRange, CountAssumption
  <2> QED
    BY <1>3, <2>1 DEF Progress, Dispatched, NobodyForgotten
<1> QED
  BY DrainAlways, <1>1, <1>2, <1>3, PTL DEF Spec
--------------------------------------------------------------------------------
\* Where the first fault is kept until it is reported: by the pass, which may have
\* been told of an interrupt instead of a failed close, or, as long as the pass
\* knows of none, by the receipt of the owner whose close is under way.
Reported(error) ==
  error = firstFault \/ (firstFault = "close error" /\ error = "interrupt")

Kept ==
  /\ firstFault = "none" => passError = "none" /\ \A o \in Owners : receiptError[o] = "none"
  /\ passError # "none" => Reported(passError)
  /\ firstFault # "none" /\ passError = "none" =>
       pc \in AtOwner \ {"enter"} /\ receiptError[turn] = firstFault
  /\ pc = "handler" => receiptError[turn] # "none"
  /\ pc = "end" => raised = passError
\* The four variables Kept is about, and where the step is, decide it.
LEMMA KeptStep == DrainInv /\ Kept /\ [Next]_vars => Kept'
<1> SUFFICES ASSUME DrainInv, Kept, [Next]_vars PROVE Kept'
  OBVIOUS
<1>0. Labels /\ (pc \in AtOwner => turn \in Owners)
  BY TypeParts DEF DrainInv, Untouched
<1> USE <1>0 DEF Labels, Faults, Kept, Reported, AtOwner, First, Note, InReceipt
<1>1. CASE Turn
  BY <1>1 DEF Turn, owned, control
<1>2. CASE Enter
  BY <1>2 DEF Enter, control
<1>3. CASE Arm
  BY <1>3 DEF Arm, control
<1>4. CASE Disarm
  BY <1>4 DEF Disarm, control
<1>5. CASE Call
  BY <1>5 DEF Call, control
<1>6. CASE Prove
  BY <1>6 DEF Prove, control
<1>7. CASE Tail
  BY <1>7 DEF Tail, Advance, owned
<1>8. CASE Return
  <2>1. /\ passError' = First(passError, receiptError[turn]) /\ pc = "handler"
        /\ UNCHANGED <<receiptError, firstFault, raised>> /\ pc' \in {"turn", "enter"}
    BY ONLY <1>8 DEF Return, Advance, owned
  <2> QED
    BY <2>1
<1>9. CASE InterruptClose
  <2>1. /\ firstFault' = First(firstFault, "interrupt") /\ UNCHANGED <<passError, turn, raised>>
        /\ receiptError' = [receiptError EXCEPT ![turn] = First(@, "interrupt")]
        /\ pc' \in {"arm", "tail"} /\ pc \in AtOwner
    BY ONLY <1>9 DEF InterruptClose, Interrupted, Note, InReceipt, control, AtOwner
  <2> QED
    BY <2>1
<1>10. CASE InterruptTurn
  <2>1. /\ firstFault' = First(firstFault, "interrupt") /\ UNCHANGED <<receiptError, raised>>
        /\ passError' = First(passError, IF pc = "handler" THEN receiptError[turn]
                                                          ELSE "interrupt")
        /\ pc' \in {"turn", "enter"} /\ pc \in {"enter", "tail", "handler"}
    BY ONLY <1>10 DEF InterruptTurn, Interrupted, Note, Advance
  <2> QED
    BY <2>1
<1>11. CASE InterruptPass
  BY <1>11 DEF InterruptPass, Interrupted
<1>12. CASE Reuse
  BY <1>12 DEF Reuse, control
<1>13. CASE UNCHANGED vars
  BY <1>13 DEF vars
<1> QED
  BY <1>1, <1>2, <1>3, <1>4, <1>5, <1>6, <1>7, <1>8, <1>9, <1>10, <1>11, <1>12, <1>13
  DEF Next, Line

\* However many closes fail and however many exceptions come, the first thing that
\* went wrong is reported; only an exception may take the place of a failed close.
THEOREM FirstFaultReported == Spec => []FirstErrorKept
<1>1. Init => Kept
  BY DEF Init, Kept
<1>2. Kept => FirstErrorKept
  BY DEF Kept, Reported, FirstErrorKept, AtOwner
<1> QED
  BY DrainAlways, KeptStep, <1>1, <1>2, PTL DEF Spec
================================================================================
