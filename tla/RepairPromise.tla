---------------------------- MODULE RepairPromise ----------------------------
(***************************************************************************)
(* What `repair` promises about one rollout, with the journal, the stage    *)
(* directory and the fsyncs left out.  The mirror name `final` always maps  *)
(* to a whole object, the original mirror file or its reflink clone.  A     *)
(* transaction is first open; at one instant it is decided either way, and  *)
(* after a commit the clone never leaves the mirror name again, while       *)
(* without one the transaction closes only with the original in place.  A   *)
(* decided rollback of a transaction that uses the retry queue closes only  *)
(* with the rollout on the queue, a commit only with the rollout off it.    *)
(***************************************************************************)
VARIABLES final, decision, enabled, queued

vars == <<final, decision, enabled, queued>>

Init == /\ final \in {"original", "clone"}
        /\ decision = "none"
        /\ enabled = FALSE
        /\ queued \in BOOLEAN

\* A new transaction calls whatever the mirror name holds "the original".
Begin == /\ decision = "none"
         /\ decision' = "open"
         /\ final' = "original"
         /\ enabled' \in BOOLEAN
         /\ UNCHANGED queued

\* The two names may be exchanged until a commit is decided; a
\* power loss may undo a swap that was not yet durable.
Exchange == /\ decision \in {"open", "rollback"}
            /\ final' \in {"original", "clone"} \ {final}
            /\ UNCHANGED <<decision, enabled, queued>>

Decide == /\ decision = "open"
          /\ \/ decision' = "commit" /\ final = "clone"
             \/ decision' = "rollback"
          /\ UNCHANGED <<final, enabled, queued>>

\* The retry queue: a rollout is taken off it only when its repair committed,
\* or between transactions, when the pair was found unsupported.
Requeue == /\ \/ decision = "commit" /\ queued' = FALSE
              \/ decision \in {"open", "rollback"} /\ queued' = TRUE
              \/ decision = "none" /\ queued' = FALSE
           /\ UNCHANGED <<final, decision, enabled>>

Close == /\ \/ decision = "open" /\ final = "original"
            \/ decision = "commit" /\ (enabled => ~queued)
            \/ decision = "rollback" /\ final = "original" /\ (enabled => queued)
         /\ decision' = "none"
         /\ UNCHANGED <<final, enabled, queued>>

Next == Begin \/ Exchange \/ Decide \/ Requeue \/ Close

Spec == Init /\ [][Next]_vars
==============================================================================
