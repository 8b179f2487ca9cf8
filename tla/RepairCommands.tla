---------------------------- MODULE RepairCommands ----------------------------
(***************************************************************************)
(* The commands `repair --apply`, `retry --apply` and `recover --apply` of   *)
(* codex_repair_rollout_reflinks.py over several rollouts, with the retry    *)
(* queue they share.  A transaction is here what its durable record says:    *)
(* open, done, deferred or failed (RepairTransaction has the steps between). *)
(* `repair` and `retry` keep a copy of the queue in memory, change the file  *)
(* and the copy as they go and write the copy over the file at the end.      *)
(* repair_lock allows one command at a time; dry runs and `inventory` change *)
(* nothing and are left out.                                                 *)
(***************************************************************************)
EXTENDS Naturals

CONSTANTS
  Count,       \* number of rollouts, which sort by their ids
  MaxStops,    \* bound on commands that end before they are done
  MaxFaults,   \* bound on safety failures and spurious instability
  MaxChanges   \* bound on changes of a pair by Codex or by the operator

ASSUME CommandsAssumption == /\ Count \in Nat \ {0}
                             /\ MaxStops \in Nat
                             /\ MaxFaults \in Nat
                             /\ MaxChanges \in Nat

VARIABLES
  queue,     \* retry-queue.json
  record,    \* what each rollout's intent or manifest says
  enabled,   \* queue_enabled of the open transaction
  class,     \* what an inspection of each pair would find now
  command, queueing,  \* the running command, and whether it uses the queue
  pc,        \* how far it has got
  todo,      \* the rollouts still to look at, or to process
  seen,      \* the classification of each rollout by this command
  memory,    \* its copy of the queue
  completed, \* rollouts its recovery has taken off the queue
  active, step,       \* the rollout in _repair_one or recovery, and its next step
  stops, faults, changes

durable == <<queue, record, enabled>>
volatile == <<command, queueing, pc, todo, seen, memory, completed, active, step>>
bounds == <<stops, faults, changes>>
vars == <<queue, record, enabled, class, command, queueing, pc, todo, seen, memory,
          completed, active, step, stops, faults, changes>>

Rollouts == 1..Count
Nobody == 0
Records == {"none", "open", "done", "deferred", "failed"}
\* A pair that cannot be cloned looks eligible until it is tried.
Classes == {"eligible", "deferred", "terminal", "uncloneable"}
\* Mutant: the inspection reports what only the attempt can find.
Foreseen(c) == c
Appearance(c) == IF c = "uncloneable" THEN "eligible" ELSE c
Unseen == [r \in Rollouts |-> "none"]
Seen == {r \in Rollouts : seen[r] # "none"}
Recorded == {r \in Rollouts : record[r] # "none"}

EndCommand ==
  /\ pc' = "idle" /\ command' = "none" /\ queueing' = FALSE
  /\ todo' = {} /\ seen' = Unseen /\ memory' = {} /\ completed' = {}
  /\ active' = Nobody /\ step' = "none"

Start(name) == pc = "idle" /\ command' = name /\ pc' = "recover"
               /\ UNCHANGED <<durable, class, seen, memory, completed, active, step, bounds>>

\* --rollout-id narrows the selection; --queue-unstable turns the queue on.
StartRepair ==
  /\ Start("repair")
  /\ todo' \in SUBSET Rollouts
  /\ queueing' \in BOOLEAN

StartRetry == Start("retry") /\ queueing' = TRUE /\ UNCHANGED todo

StartRecover == Start("recover") /\ UNCHANGED <<queueing, todo>>
------------------------------------------------------------------------------
(* _recover_all, before anything else.                                       *)

RecoverNext ==
  /\ pc = "recover" /\ active = Nobody
  /\ \E r \in Recorded :
       /\ record[r] # "failed"
       /\ active' = r
       /\ step' = IF record[r] = "open" THEN "decide" ELSE "settle"
  /\ UNCHANGED <<durable, class, command, queueing, pc, todo, seen, memory, completed, bounds>>

\* Mutant: a manifest that cannot be resumed is passed over.
RecoverPassesOver ==
  /\ pc = "recover" /\ active = Nobody
  /\ \E r \in Recorded : record[r] = "failed"
  /\ IF command = "recover" THEN EndCommand
     ELSE /\ pc' = "load"
          /\ UNCHANGED <<command, queueing, todo, seen, memory, completed, active, step>>
  /\ UNCHANGED <<durable, class, bounds>>

\* The first failure ends the command; a FAILED manifest is one for ever.
RecoverRefused ==
  /\ pc = "recover" /\ active = Nobody
  /\ \E r \in Recorded : record[r] = "failed"
  /\ EndCommand
  /\ UNCHANGED <<durable, class, bounds>>

RecoverDone ==
  /\ pc = "recover" /\ Recorded = {}
  /\ IF command = "recover" THEN EndCommand
     ELSE /\ pc' = "load"
          /\ UNCHANGED <<command, queueing, todo, seen, memory, completed, active, step>>
  /\ UNCHANGED <<durable, class, bounds>>
------------------------------------------------------------------------------
(* Loading the queue and looking at the pairs.                               *)

LoadForRepair ==
  /\ pc = "load" /\ command = "repair"
  /\ memory' = IF queueing THEN queue ELSE {}
  /\ pc' = "classify"
  /\ UNCHANGED <<durable, class, command, queueing, todo, seen, completed, active, step, bounds>>

\* retry looks at the queued rollouts only, and ends at once without any.
LoadForRetry ==
  /\ pc = "load" /\ command = "retry"
  /\ IF queue = {} THEN EndCommand
     ELSE /\ todo' = queue
          /\ memory' = queue \ completed
          /\ pc' = "classify"
          /\ UNCHANGED <<command, queueing, seen, completed, active, step>>
  /\ UNCHANGED <<durable, class, bounds>>

\* File and copy change together; a command that dies in between loses the copy.
Enqueue(r) == queue' = queue \cup {r} /\ memory' = memory \cup {r}
Dequeue(r) == queue' = queue \ {r} /\ memory' = memory \ {r}

\* persist_discovery_obligation: repair settles each pair it will not touch as
\* soon as it has looked at it.
Oblige(r, c) ==
  CASE command = "repair" /\ queueing /\ c = "deferred" -> Enqueue(r)
    [] command = "repair" /\ queueing /\ c = "terminal" -> Dequeue(r)
    [] OTHER -> UNCHANGED <<queue, memory>>

\* The selected rollouts are taken in the order of their ids.
First(r) == r \in todo /\ \A s \in todo : r <= s

Classify ==
  /\ pc = "classify"
  /\ \E r \in todo :
       /\ First(r)
       /\ seen' = [seen EXCEPT ![r] = Appearance(class[r])]
       /\ todo' = todo \ {r}
       /\ Oblige(r, Appearance(class[r]))
  /\ UNCHANGED <<record, enabled, class, command, queueing, pc, completed, active, step, bounds>>

ClassifyDone ==
  /\ pc = "classify" /\ todo = {}
  /\ todo' = Seen
  /\ pc' = "process"
  /\ UNCHANGED <<durable, class, command, queueing, seen, memory, completed, active, step, bounds>>
------------------------------------------------------------------------------
(* Processing the pairs in the order of their ids.                           *)

Turn(r) == pc = "process" /\ active = Nobody /\ First(r)

\* Mutant: retry leaves a terminal pair on the queue.
KeepsTerminal ==
  \E r \in todo :
    /\ Turn(r) /\ seen[r] # "eligible"
    /\ todo' = todo \ {r}
    /\ Oblige(r, seen[r])
    /\ UNCHANGED <<record, enabled, class, command, queueing, pc, seen, completed, active,
                   step, bounds>>

\* A pair that is not eligible; retry takes a terminal one off the queue.
PassOver ==
  \E r \in todo :
    /\ Turn(r) /\ seen[r] # "eligible"
    /\ todo' = todo \ {r}
    /\ IF command = "retry" /\ seen[r] = "terminal" THEN Dequeue(r) ELSE Oblige(r, seen[r])
    /\ UNCHANGED <<record, enabled, class, command, queueing, pc, seen, completed, active,
                   step, bounds>>

\* max_files or max_bytes is used up.
SkipByLimit ==
  \E r \in todo :
    /\ Turn(r) /\ seen[r] = "eligible" /\ command = "repair"
    /\ todo' = todo \ {r}
    /\ UNCHANGED <<durable, class, command, queueing, pc, seen, memory, completed, active,
                   step, bounds>>

BeginTransaction ==
  \E r \in todo :
    /\ Turn(r) /\ seen[r] = "eligible"
    /\ record' = [record EXCEPT ![r] = "open"]
    /\ enabled' = queueing
    /\ active' = r /\ step' = "decide" /\ todo' = todo \ {r}
    /\ UNCHANGED <<queue, class, command, queueing, pc, seen, memory, completed, bounds>>

Mark(outcome) == record' = [record EXCEPT ![active] = outcome]

\* The durable outcome.  A pair that changed since it was looked at is deferred;
\* recovery, which may find any stage of the transaction, finishes or defers it.
Decide ==
  /\ step = "decide"
  /\ \/ pc = "recover" /\ Mark("done")
     \/ pc = "recover" /\ Mark("deferred")
     \/ pc = "process" /\ class[active] = "eligible" /\ Mark("done")
     \/ pc = "process" /\ class[active] \in {"deferred", "terminal"} /\ Mark("deferred")
  /\ step' = "settle"
  /\ UNCHANGED <<queue, enabled, class, command, queueing, pc, todo, seen, memory, completed,
                 active, bounds>>

\* An intent whose pair turns out not to be cloneable is deleted.
DecideUnsupported ==
  /\ step = "decide" /\ pc = "process" /\ class[active] = "uncloneable"
  /\ Mark("none")
  /\ step' = "drop"
  /\ UNCHANGED <<queue, enabled, class, command, queueing, pc, todo, seen, memory, completed,
                 active, bounds>>

\* A safety failure ends the command: before PREPARED the record is deleted,
\* after it FAILED is retained.
Fault ==
  /\ step = "decide" /\ faults < MaxFaults /\ faults' = faults + 1
  /\ \/ /\ pc = "process"
        /\ Mark("deferred")
        /\ step' = "settle"
        /\ UNCHANGED <<command, queueing, pc, todo, seen, memory, completed, active>>
     \/ /\ pc = "process"
        /\ Mark("none")
        /\ EndCommand
     \/ /\ Mark("failed")
        /\ EndCommand
  /\ UNCHANGED <<queue, enabled, class, stops, changes>>

\* Mutant: the record of a deferral goes before the queue has it.
DeletedBeforeQueued ==
  /\ step = "settle"
  /\ Mark("none")
  /\ queue' = IF enabled /\ record[active] = "done" THEN queue \ {active} ELSE queue
  /\ step' = "conclude"
  /\ UNCHANGED <<enabled, class, command, queueing, pc, todo, seen, memory, completed,
                 active, bounds>>

\* The queue file is brought up to date while the record still exists.
Settle ==
  /\ step = "settle"
  /\ queue' = IF ~enabled THEN queue
              ELSE IF record[active] = "done" THEN queue \ {active} ELSE queue \cup {active}
  /\ step' = "conclude"
  /\ UNCHANGED <<record, enabled, class, command, queueing, pc, todo, seen, memory, completed,
                 active, bounds>>

\* Mutant: the copy in memory does not follow a deferral.
CopyMissesDeferral ==
  /\ step = "conclude"
  /\ Mark("none")
  /\ active' = Nobody /\ step' = "none"
  /\ memory' = IF pc = "process" /\ record[active] = "done" THEN memory \ {active} ELSE memory
  /\ UNCHANGED <<queue, enabled, class, command, queueing, pc, todo, seen, completed, bounds>>

\* The record goes; the copy in memory follows.
Conclude ==
  /\ step = "conclude"
  /\ Mark("none")
  /\ active' = Nobody /\ step' = "none"
  /\ completed' = IF pc = "recover" /\ record[active] = "done" /\ enabled
                  THEN completed \cup {active} ELSE completed
  /\ memory' = IF pc = "recover" THEN memory
               ELSE IF record[active] = "done" THEN memory \ {active}
               ELSE IF queueing /\ command = "repair" THEN memory \cup {active} ELSE memory
  /\ UNCHANGED <<queue, enabled, class, command, queueing, pc, todo, seen, bounds>>

\* CandidateUnsupportedError is off the queue for good.
Drop ==
  /\ step = "drop"
  /\ queue' = IF queueing /\ (command = "retry" \/ active \in memory)
              THEN queue \ {active} ELSE queue
  /\ memory' = memory \ {active}
  /\ active' = Nobody /\ step' = "none"
  /\ UNCHANGED <<record, enabled, class, command, queueing, pc, todo, seen, completed, bounds>>

\* The whole queue is written from memory.
Rewrite ==
  /\ pc = "process" /\ active = Nobody /\ todo = {}
  /\ queue' = IF queueing THEN memory ELSE queue
  /\ EndCommand
  /\ UNCHANGED <<record, enabled, class, bounds>>
------------------------------------------------------------------------------
\* SIGKILL, or a fatal error that leaves files as they are.
Stop ==
  /\ pc # "idle" /\ stops < MaxStops /\ stops' = stops + 1
  /\ EndCommand
  /\ UNCHANGED <<durable, class, faults, changes>>

Change ==
  /\ changes < MaxChanges /\ changes' = changes + 1
  /\ \E r \in Rollouts, c \in Classes : class' = [class EXCEPT ![r] = c]
  /\ UNCHANGED <<durable, volatile, stops, faults>>

Init ==
  /\ queue \in SUBSET Rollouts
  /\ record = [r \in Rollouts |-> "none"] /\ enabled = FALSE
  /\ class \in [Rollouts -> Classes]
  /\ pc = "idle" /\ command = "none" /\ queueing = FALSE
  /\ todo = {} /\ seen = Unseen /\ memory = {} /\ completed = {}
  /\ active = Nobody /\ step = "none"
  /\ stops = 0 /\ faults = 0 /\ changes = 0

Transact == BeginTransaction \/ Decide \/ DecideUnsupported \/ Settle \/ Conclude \/ Drop

Run == RecoverNext \/ RecoverRefused \/ RecoverDone \/ LoadForRepair \/ LoadForRetry
       \/ Classify \/ ClassifyDone \/ PassOver \/ SkipByLimit \/ Rewrite \/ Transact

Next == StartRepair \/ StartRetry \/ StartRecover \/ Run \/ Fault \/ Stop \/ Change

Spec == Init /\ [][Next]_vars

\* A running command goes on, and retry is run again and again.
FairSpec == Spec /\ WF_vars(Run) /\ SF_vars(StartRetry)
------------------------------------------------------------------------------
TypeOK ==
  /\ queue \in SUBSET Rollouts /\ record \in [Rollouts -> Records] /\ enabled \in BOOLEAN
  /\ class \in [Rollouts -> Classes]
  /\ command \in {"none", "repair", "retry", "recover"} /\ queueing \in BOOLEAN
  /\ pc \in {"idle", "recover", "load", "classify", "process"}
  /\ todo \in SUBSET Rollouts
  /\ seen \in [Rollouts -> {"none", "eligible", "deferred", "terminal"}]
  /\ memory \in SUBSET Rollouts /\ completed \in SUBSET Rollouts
  /\ active \in Rollouts \cup {Nobody}
  /\ step \in {"none", "decide", "settle", "conclude", "drop"}
  /\ stops \in 0..MaxStops /\ faults \in 0..MaxFaults /\ changes \in 0..MaxChanges

\* Recovery runs first and stops at the first failure, so no transaction begins
\* while another rollout's evidence lies about, whatever commands are stopped.
OneTransaction == \A r, s \in Recorded : r = s

\* The rewrite at the end of repair and retry never overwrites an obligation that
\* was recorded, or one that was settled, after the copy had been loaded.
RewriteChangesNothing ==
  [][pc = "process" /\ pc' = "idle" /\ stops' = stops => queue' = queue]_vars

\* A rollout is owed a retry while it is queued, or while its transaction is
\* recorded and may yet be abandoned.
Owed(r) == r \in queue \/ (record[r] \in {"open", "deferred"} /\ enabled)

\* An obligation ends only when the pair is repaired, is found terminal or not
\* cloneable, or has a safety failure that the command reports as fatal; no stop
\* between two steps loses one.
NoObligationLost ==
  [][\A r \in Rollouts : Owed(r) /\ ~Owed(r)' =>
       \/ "done" \in {record[r], record'[r]}
       \/ seen'[r] = "terminal"
       \/ active = r /\ "drop" \in {step, step'}
       \/ faults' > faults]_vars

\* A queued rollout is repaired or given up some day, unless its pair is to be
\* deferred again or a FAILED manifest blocks every command.
Drains ==
  \A r \in Rollouts :
    r \in queue ~> r \notin queue \/ class[r] = "deferred" \/ \E s \in Rollouts : record[s] = "failed"
==============================================================================
