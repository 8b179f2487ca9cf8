------------------------------ MODULE StateWrite ------------------------------
(***************************************************************************)
(* One atomic_write_json of codex_repair_rollout_reflinks.py: the record is *)
(* written to a temporary file, synced, renamed over the canonical name,    *)
(* the directory is synced and the result is read back.  Every error and    *)
(* one asynchronous interrupt, at any line, lead to the handler, which has  *)
(* to find out whether the rename took effect: callers delete stages and    *)
(* intents when they are told that it did not.  Outsiders may put other     *)
(* files under the names or move the directory; processes are killed and    *)
(* power is lost.                                                           *)
(***************************************************************************)
EXTENDS Naturals

CONSTANTS MaxErrors,      \* system calls that fail, with or without effect
          MaxInterrupts,  \* asynchronous exceptions; the code covers one
          MaxIntrusions   \* replacements of a name or of the directory

ASSUME BoundsAssumption ==
  MaxErrors \in Nat /\ MaxInterrupts \in Nat /\ MaxIntrusions \in Nat

VARIABLES names,        \* the canonical and the temporary name, as seen now
          restorable,   \* the values of `names` a power loss may leave
          payload,      \* how much of the record the temporary object holds
          flushed,      \* ... and whether all of it is on disk
          mapped,       \* the path still names the directory held open
          pc,
          known,        \* the temporary object's identity was captured
          attempted, returned, synced,
          receipt,      \* receipt.publication, what a later interrupt reports
          answer,       \* what the caller was told
          cleanup,      \* of the temporary file: "none", "done", "failed"
          intruded,     \* an outsider has replaced the canonical name
          errors, interrupts, intrusions

vars == <<names, restorable, payload, flushed, mapped, pc, known, attempted, returned,
          synced, receipt, answer, cleanup, intruded, errors, interrupts, intrusions>>

NoFile == "no file"
Objects == {"old", "temp", "other", NoFile}
AtomicPublication == {"not-published", "published-unsynced", "durable", "ambiguous"}
Body == {"create", "write", "flush", "revalidate", "replace", "sync", "verify"}

TypeOK ==
  /\ names \in [canonical : Objects, temporary : Objects]
  /\ restorable \subseteq [canonical : Objects, temporary : Objects]
  /\ payload \in {"none", "part", "whole"}
  /\ pc \in Body \cup {"classify", "settle", "done", "off"}
  /\ {flushed, mapped, known, attempted, returned, synced, intruded} \subseteq BOOLEAN
  /\ receipt \in AtomicPublication
  /\ answer \in AtomicPublication \cup {"none"}
  /\ cleanup \in {"none", "done", "failed"}
  /\ errors \in 0..MaxErrors /\ interrupts \in 0..MaxInterrupts
  /\ intrusions \in 0..MaxIntrusions

Init ==
  /\ names \in [canonical : {"old", NoFile}, temporary : {NoFile}]
  /\ restorable = {names}
  /\ payload = "none" /\ flushed = FALSE /\ mapped = TRUE /\ pc = "create"
  /\ known = FALSE /\ attempted = FALSE /\ returned = FALSE /\ synced = FALSE
  /\ receipt = "not-published" /\ answer = "none" /\ cleanup = "none"
  /\ intruded = FALSE /\ errors = 0 /\ interrupts = 0 /\ intrusions = 0

faults == <<errors, interrupts>>
disk == <<names, restorable, payload, flushed>>
flags == <<known, attempted, returned, synced, receipt>>
told == <<answer, cleanup>>
world == <<mapped, intruded, intrusions>>

\* The step's last line ran, or an error or the interrupt came before it.
Error == errors < MaxErrors /\ errors' = errors + 1 /\ UNCHANGED interrupts
Interrupt == interrupts < MaxInterrupts /\ interrupts' = interrupts + 1 /\ UNCHANGED errors
Fault == Error \/ Interrupt

Then(next) == \/ pc' = next /\ UNCHANGED faults
              \/ pc' = "classify" /\ Fault

Change(new) == names' = new /\ restorable' = restorable \cup {new}
SyncDirectory == restorable' = {names}

\* Anything that goes wrong before a step had an effect.
FailBefore ==
  /\ pc \in Body /\ Fault
  /\ pc' = "classify"
  /\ UNCHANGED <<disk, flags, told, world>>

\* The file is created; its identity is taken in the same acquisition, unless
\* the interrupt comes before Python has the descriptor.
Create ==
  /\ pc = "create"
  /\ Change([names EXCEPT !.temporary = "temp"])
  /\ \/ known' = TRUE /\ Then("write")
     \/ known' = FALSE /\ Fault /\ pc' = "classify"
  /\ UNCHANGED <<payload, flushed, attempted, returned, synced, receipt, told, world>>

Write ==
  /\ pc = "write"
  /\ \/ payload' = "whole" /\ Then("flush")
     \/ payload' = "part" /\ Fault /\ pc' = "classify"
  /\ UNCHANGED <<names, restorable, flushed, flags, told, world>>

\* Mutant: the file is renamed without having been synced.
FlushForgotten ==
  /\ pc = "flush"
  /\ Then("revalidate")
  /\ UNCHANGED <<disk, flags, told, world>>

Flush ==
  /\ pc = "flush"
  /\ flushed' = TRUE
  /\ Then("revalidate")
  /\ UNCHANGED <<names, restorable, payload, flags, told, world>>

\* Mutant: the receipt keeps its default when the rename is entered.
ArmedTooLate ==
  /\ pc = "revalidate"
  /\ IF mapped THEN attempted' = TRUE /\ pc' = "replace"
               ELSE pc' = "classify" /\ UNCHANGED attempted
  /\ UNCHANGED <<disk, known, returned, synced, receipt, told, world, faults>>

\* The directory is looked at again, then the receipt becomes conservative.
Arm ==
  /\ pc = "revalidate"
  /\ IF mapped THEN /\ receipt' = "ambiguous" /\ attempted' = TRUE
                    /\ pc' = "replace"
               ELSE pc' = "classify" /\ UNCHANGED <<receipt, attempted>>
  /\ UNCHANGED <<disk, known, returned, synced, told, world, faults>>

\* os.replace; an outsider may have taken the temporary name.
Replace ==
  /\ pc = "replace"
  /\ IF names.temporary = NoFile
     THEN UNCHANGED <<names, restorable, returned, intruded, faults>> /\ pc' = "classify"
     ELSE /\ intruded' = (intruded \/ names.temporary = "other")
          /\ Change([canonical |-> names.temporary, temporary |-> NoFile])
          /\ \/ returned' = TRUE /\ pc' = "sync" /\ UNCHANGED faults
             \/ returned' = FALSE /\ Fault /\ pc' = "classify"
  /\ UNCHANGED <<payload, flushed, known, attempted, synced, receipt, told, mapped,
                 intrusions>>

Sync ==
  /\ pc = "sync"
  /\ IF mapped THEN /\ SyncDirectory
                    /\ \/ synced' = TRUE /\ pc' = "verify" /\ UNCHANGED faults
                       \/ synced' = FALSE /\ Fault /\ pc' = "classify"
               ELSE pc' = "classify" /\ UNCHANGED <<restorable, synced, faults>>
  /\ UNCHANGED <<names, payload, flushed, known, attempted, returned, receipt, told, world>>

\* The post-publication probe, and the receipt handed to the caller.
Verify ==
  /\ pc = "verify"
  /\ IF mapped /\ names.canonical = "temp" /\ payload = "whole"
     THEN receipt' = "durable" /\ answer' = "durable" /\ pc' = "done"
     ELSE pc' = "classify" /\ UNCHANGED <<receipt, answer>>
  /\ UNCHANGED <<disk, known, attempted, returned, synced, cleanup, world, faults>>

\* Mutant: a published record is called durable whether or not it was synced.
ProbedOptimistic(durably) ==
  IF ~known THEN "not-published"
  ELSE IF names.canonical = "temp" THEN "durable"
  ELSE IF names.temporary = "temp" THEN "not-published" ELSE "ambiguous"

\* _probe_atomic_publication: what it answers if it can read both names, and
\* what if it cannot.
Probed(durably) ==
  CASE ~known -> "not-published"
    [] known /\ names.canonical = "temp" /\ payload = "whole"
         -> IF durably THEN "durable" ELSE "published-unsynced"
    [] known /\ names.canonical # "temp" /\ names.temporary = "temp" -> "not-published"
    [] OTHER -> "ambiguous"
ProbeFailed == IF known THEN "ambiguous" ELSE "not-published"

\* The handler.  Without an attempted rename only an untouched temporary file
\* proves that nothing was published; with one the probe decides.
Publication(probe) ==
  IF ~mapped \/ (~attempted /\ probe # "not-published") THEN "ambiguous" ELSE probe

Classify ==
  /\ pc = "classify"
  /\ pc' = "settle"
  /\ \/ receipt' = Publication(Probed(returned /\ synced)) /\ UNCHANGED faults
     \/ receipt' = Publication(ProbeFailed) /\ Error
     \/ UNCHANGED receipt /\ Interrupt
  /\ UNCHANGED <<disk, known, attempted, returned, synced, told, world>>

\* Mutant: an interrupted cleanup is taken for a finished one.
SettledOnInterrupt ==
  /\ pc = "settle"
  /\ answer' = receipt
  /\ pc' = "done"
  /\ IF receipt # "not-published" \/ ~known
     THEN UNCHANGED <<names, restorable, cleanup, faults>>
     ELSE /\ cleanup' = "done"
          /\ \/ UNCHANGED faults /\ Change([names EXCEPT !.temporary = NoFile])
             \/ Interrupt /\ UNCHANGED <<names, restorable>>
  /\ UNCHANGED <<payload, flushed, flags, world>>

\* The identity-bound removal of a temporary file that was not published, by
\* the handler or after it; one interrupt in it is made good, an error is kept.
Settle ==
  /\ pc = "settle"
  /\ answer' = receipt
  /\ pc' = "done"
  /\ IF receipt # "not-published" \/ ~known
     THEN UNCHANGED <<names, restorable, cleanup, faults>>
     ELSE LET gone == [names EXCEPT !.temporary = NoFile] IN
          \/ /\ names.temporary \in {"temp", NoFile}
             /\ names' = gone /\ restorable' = {gone}
             /\ cleanup' = "done"
             /\ UNCHANGED errors
             /\ interrupts' \in interrupts..MaxInterrupts
          \/ /\ names.temporary = "temp" /\ Error
             /\ Change(gone)
             /\ cleanup' = "failed"
          \/ /\ cleanup' = "failed"
             /\ (names.temporary = "other" /\ UNCHANGED faults) \/ Error
             /\ UNCHANGED <<names, restorable>>
  /\ UNCHANGED <<payload, flushed, flags, world>>

\* Outsiders: another file, or none, under a name; the directory moved or back.
Intrude ==
  /\ intrusions < MaxIntrusions /\ intrusions' = intrusions + 1
  /\ \/ /\ \E f \in {"other", NoFile} :
              \/ Change([names EXCEPT !.canonical = f]) /\ intruded' = TRUE
              \/ Change([names EXCEPT !.temporary = f]) /\ UNCHANGED intruded
        /\ UNCHANGED mapped
     \/ mapped' = ~mapped /\ UNCHANGED <<names, restorable, intruded>>
  /\ UNCHANGED <<payload, flushed, pc, flags, told, faults>>

\* SIGKILL, or a power loss that takes back what was not synced.
Stop ==
  /\ pc \notin {"done", "off"}
  /\ pc' = "off"
  /\ UNCHANGED <<disk, flags, told, world, faults>>

Outage ==
  /\ pc # "off" \/ restorable # {names}
  /\ pc' = "off"
  /\ names' \in restorable
  /\ restorable' = {names'}
  /\ payload' \in (IF flushed THEN {payload} ELSE {"none", "part", "whole"})
  /\ UNCHANGED <<flushed, flags, told, world, faults>>

Step == \/ Create \/ Write \/ Flush \/ Arm \/ Replace \/ Sync \/ Verify
        \/ Classify \/ Settle \/ FailBefore

Next == Step \/ Intrude \/ Stop \/ Outage

Spec == Init /\ [][Next]_vars
-------------------------------------------------------------------------------
Possible == restorable \cup {names}

\* Whatever a reader finds under the canonical name, now or after a power
\* loss at any moment, is never a part of the new record.
WholeOrBefore ==
  \A n \in Possible : n.canonical = "temp" => payload = "whole" /\ flushed

\* A caller told "not published" never meets the new record later, not even
\* when outsiders interfered; one told "durable" has it for good; one told
\* "published, not synced" has it until power is lost.
AnswerTrue ==
  /\ answer = "not-published" => \A n \in Possible : n.canonical # "temp"
  /\ answer = "durable" /\ ~intruded => \A n \in Possible : n.canonical = "temp"
  /\ answer = "published-unsynced" /\ ~intruded /\ pc = "done" => names.canonical = "temp"

\* A write that was not published leaves no temporary file under its name,
\* unless the failed cleanup is reported or Python never learnt of the file.
NoLeftover ==
  pc = "done" /\ answer = "not-published" /\ known /\ cleanup # "failed"
    => names.temporary # "temp"

\* The write implements the atomic register with its answers.
Promise == INSTANCE RegisterPromise WITH
  value <- IF names.canonical = "temp" THEN "new"
           ELSE IF intruded THEN "foreign" ELSE "before",
  fixed <- \A n \in Possible : n.canonical = "temp",
  answer <- answer

KeepsPromise == Promise!Spec
===============================================================================
