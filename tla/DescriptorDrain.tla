---------------------------- MODULE DescriptorDrain ----------------------------
(***************************************************************************)
(* How codex_repair_rollout_reflinks.py closes the descriptors it owns:     *)
(* _drain_descriptor_owners makes up to two passes over the owners, each    *)
(* pass calls an owner's close up to twice, and a close dispatches os.close *)
(* unless its receipt says that it has been dispatched before.  One         *)
(* asynchronous exception may come at any line, os.close may fail, and a    *)
(* number that has been closed may be given to another file at any time.    *)
(***************************************************************************)
EXTENDS Naturals

CONSTANTS Count,           \* owners passed to the drain
          MaxCloseErrors,  \* os.close calls that raise
          MaxInterrupts    \* asynchronous exceptions; the contract covers one

ASSUME CountAssumption == Count \in Nat \ {0}
ASSUME FaultsAssumption == MaxCloseErrors \in Nat /\ MaxInterrupts \in Nat

Owners == 1..Count

VARIABLES slot,          \* what the descriptor number refers to in the kernel
          held,          \* the owner still has the number
          disposition,   \* of the close receipt
          receiptError,  \* per owner, the first error of its close
          pc, turn, pass,
          retried,       \* owner.close was dispatched a second time in this turn
          passError,     \* the drain pass receipt's first error
          raised,        \* what the drain reports in the end
          firstFault,    \* the first thing that went wrong at all
          struck,        \* a close has hit a number already given away
          closeErrors, interrupts

vars == <<slot, held, disposition, receiptError, pc, turn, pass, retried, passError,
          raised, firstFault, struck, closeErrors, interrupts>>

Faults == {"none", "close error", "interrupt"}

TypeOK ==
  /\ slot \in [Owners -> {"ours", "free", "other"}]
  /\ held \in [Owners -> BOOLEAN]
  /\ disposition \in [Owners -> {"owned pending", "outcome unproved", "closed proved"}]
  /\ receiptError \in [Owners -> Faults]
  /\ pc \in {"turn", "enter", "arm", "disarm", "call", "prove", "tail", "handler", "end"}
  /\ turn \in 1..(Count + 1) /\ pass \in {1, 2}
  /\ retried \in BOOLEAN /\ struck \in BOOLEAN
  /\ {passError, raised, firstFault} \subseteq Faults
  /\ closeErrors \in 0..MaxCloseErrors /\ interrupts \in 0..MaxInterrupts

Init ==
  /\ slot = [o \in Owners |-> "ours"] /\ held = [o \in Owners |-> TRUE]
  /\ disposition = [o \in Owners |-> "owned pending"]
  /\ receiptError = [o \in Owners |-> "none"]
  /\ pc = "turn" /\ turn = 1 /\ pass = 1 /\ retried = FALSE
  /\ passError = "none" /\ raised = "none" /\ firstFault = "none" /\ struck = FALSE
  /\ closeErrors = 0 /\ interrupts = 0

First(old, new) == IF old = "none" THEN new ELSE old
Note(fault) == firstFault' = First(firstFault, fault)
InReceipt(fault) ==
  receiptError' = [receiptError EXCEPT ![turn] = First(@, fault)]

budgets == <<closeErrors, interrupts>>
owned == <<slot, held, disposition, receiptError>>
control == <<turn, pass, retried, passError>>

\* The pass takes the next owner, or is complete and reports its first error.
Turn ==
  /\ pc = "turn"
  /\ IF turn \in Owners
     THEN pc' = "enter" /\ UNCHANGED raised
     ELSE pc' = "end" /\ raised' = passError
  /\ UNCHANGED <<owned, control, firstFault, struck, budgets>>

\* _DescriptorState.close: nothing to do for a closed one; for one whose close
\* was dispatched before only the number is forgotten.
Enter ==
  /\ pc = "enter"
  /\ IF disposition[turn] = "owned pending"
     THEN pc' = "arm" /\ UNCHANGED held
     ELSE pc' = "tail" /\ held' = [held EXCEPT ![turn] = FALSE]
  /\ UNCHANGED <<slot, disposition, receiptError, control, raised, firstFault, struck,
                 budgets>>

\* Mutant: the receipt is written only after the call.
NotArmed ==
  /\ pc = "arm"
  /\ pc' = "disarm"
  /\ UNCHANGED <<owned, control, raised, firstFault, struck, budgets>>

\* _close_once: the receipt says that the outcome is unproved before ...
Arm ==
  /\ pc = "arm"
  /\ disposition' = [disposition EXCEPT ![turn] = "outcome unproved"]
  /\ pc' = "disarm"
  /\ UNCHANGED <<slot, held, receiptError, control, raised, firstFault, struck, budgets>>

\* ... the number is forgotten, and that before ...
Disarm ==
  /\ pc = "disarm"
  /\ held' = [held EXCEPT ![turn] = FALSE]
  /\ pc' = "call"
  /\ UNCHANGED <<slot, disposition, receiptError, control, raised, firstFault, struck,
                 budgets>>

\* ... os.close, which may raise whether or not it has closed the number.
Call ==
  /\ pc = "call"
  /\ struck' = (struck \/ slot[turn] = "other")
  /\ \/ /\ slot' = [slot EXCEPT ![turn] = "free"]
        /\ pc' = "prove"
        /\ UNCHANGED <<receiptError, firstFault, closeErrors>>
     \/ /\ closeErrors < MaxCloseErrors /\ closeErrors' = closeErrors + 1
        /\ slot' \in {slot, [slot EXCEPT ![turn] = "free"]}
        /\ InReceipt("close error") /\ Note("close error")
        /\ pc' = "tail"
  /\ UNCHANGED <<held, disposition, control, raised, interrupts>>

Prove ==
  /\ pc = "prove"
  /\ disposition' = [disposition EXCEPT ![turn] = "closed proved"]
  /\ pc' = "tail"
  /\ UNCHANGED <<slot, held, receiptError, control, raised, firstFault, struck, budgets>>

Advance == turn' = turn + 1 /\ retried' = FALSE /\ pc' = "turn"

\* The close ends: it raises its receipt's first error unless the pass already
\* has an error, which then is its primary.
Tail ==
  /\ pc = "tail"
  /\ IF receiptError[turn] # "none" /\ passError = "none"
     THEN pc' = "handler" /\ UNCHANGED <<turn, retried>>
     ELSE Advance
  /\ UNCHANGED <<owned, pass, passError, raised, firstFault, struck, budgets>>

\* The pass keeps the first error and dispatches the close once more.
Return ==
  /\ pc = "handler"
  /\ passError' = First(passError, receiptError[turn])
  /\ IF retried THEN Advance ELSE retried' = TRUE /\ pc' = "enter" /\ UNCHANGED turn
  /\ UNCHANGED <<owned, pass, raised, firstFault, struck, budgets>>

Interrupted == /\ interrupts < MaxInterrupts /\ interrupts' = interrupts + 1
               /\ Note("interrupt")
               /\ UNCHANGED <<slot, disposition, raised, struck, closeErrors>>

\* Inside a close: the handler tries again what was not dispatched, and only
\* forgets the number otherwise.
InterruptClose ==
  /\ pc \in {"arm", "disarm", "call", "prove"}
  /\ Interrupted
  /\ InReceipt("interrupt")
  /\ IF disposition[turn] = "owned pending"
     THEN pc' = "arm" /\ UNCHANGED held
     ELSE pc' = "tail" /\ held' = [held EXCEPT ![turn] = FALSE]
  /\ UNCHANGED control

\* Mutant: the pass looks at the receipt instead of at what it caught.
InterruptForgotten ==
  /\ pc \in {"enter", "tail", "handler"}
  /\ Interrupted
  /\ passError' = First(passError, receiptError[turn])
  /\ IF retried THEN Advance ELSE retried' = TRUE /\ pc' = "enter" /\ UNCHANGED turn
  /\ UNCHANGED <<held, receiptError, pass>>

\* Around a close, where close itself has no handler: the pass keeps the error
\* it is told, and dispatches the close again unless it already has.
InterruptTurn ==
  /\ pc \in {"enter", "tail", "handler"}
  /\ Interrupted
  /\ passError' = First(passError, IF pc = "handler" THEN receiptError[turn]
                                                    ELSE "interrupt")
  /\ IF retried THEN Advance ELSE retried' = TRUE /\ pc' = "enter" /\ UNCHANGED turn
  /\ UNCHANGED <<held, receiptError, pass>>

\* Mutant: the drain ends with the first pass.
OnePass ==
  /\ pc = "turn" /\ pass = 1
  /\ Interrupted
  /\ passError' = First(passError, "interrupt")
  /\ turn' = Count + 1 /\ retried' = FALSE /\ pc' = "turn"
  /\ UNCHANGED <<held, receiptError, pass>>

\* Between two owners, where the pass itself has no handler: the drain goes
\* over all owners a second time, with the first error as its primary.
InterruptPass ==
  /\ pc = "turn" /\ pass = 1
  /\ Interrupted
  /\ passError' = First(passError, "interrupt")
  /\ pass' = 2 /\ turn' = 1 /\ retried' = FALSE /\ pc' = "turn"
  /\ UNCHANGED <<held, receiptError>>

\* Another open gets a number that is free.
Reuse ==
  /\ \E o \in Owners : slot[o] = "free" /\ slot' = [slot EXCEPT ![o] = "other"]
  /\ UNCHANGED <<held, disposition, receiptError, pc, control, raised, firstFault,
                 struck, budgets>>

Line == Turn \/ Enter \/ Arm \/ Disarm \/ Call \/ Prove \/ Tail \/ Return
Next == Line \/ InterruptClose \/ InterruptTurn \/ InterruptPass \/ Reuse
Spec == Init /\ [][Next]_vars
--------------------------------------------------------------------------------
\* A number is never closed after it was given to another file, whatever was
\* interrupted, failed and tried again.
NeverStrikesAnother == ~struck

\* When the drain is over no owner is left untried: each one's close was
\* dispatched, and nobody can use its number any more.
NobodyForgotten ==
  pc = "end" => \A o \in Owners : disposition[o] # "owned pending" /\ ~held[o]

\* An error is never lost, and the one reported is the one that came first: only
\* an interrupt between a failed close and its report takes the error's place,
\* never an error that of an interrupt.
FirstErrorKept ==
  pc = "end" => \/ raised = firstFault
                \/ firstFault = "close error" /\ raised = "interrupt"
================================================================================
