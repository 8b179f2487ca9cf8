--------------------------- MODULE RegisterPromise ---------------------------
(***************************************************************************)
(* What one atomic_write_json promises its caller: the canonical name shows *)
(* what was there before or the new record, the change happens at one       *)
(* instant and never after the answer, and the answer says truly whether it *)
(* happened and whether a power loss can still undo it.  Only the answer    *)
(* "ambiguous" promises nothing.                                            *)
(***************************************************************************)
VARIABLES value,     \* "before", "new", or "foreign" once an outsider interfered
          fixed,     \* the new record survives a power loss
          answer

vars == <<value, fixed, answer>>

Init == value = "before" /\ fixed = FALSE /\ answer = "none"

\* Before the answer; later only by a power loss that takes back what an
\* outsider did to a record that had been published.
Take == /\ value # "new"
        /\ answer = "none" \/ (value = "foreign" /\ answer # "not-published")
        /\ value' = "new" /\ fixed' \in BOOLEAN
        /\ UNCHANGED answer

Fix == /\ value = "new" /\ fixed' = TRUE
       /\ UNCHANGED <<value, answer>>

\* A power loss takes back what was not fixed, never what was.
Lose == /\ value = "new" /\ ~fixed
        /\ value' \in {"before", "foreign"}
        /\ UNCHANGED <<fixed, answer>>

Intrude == /\ value' = "foreign" /\ fixed' = FALSE
           /\ UNCHANGED answer

Answer == /\ answer = "none"
          /\ \/ answer' = "not-published" /\ value # "new"
             \/ answer' = "published-unsynced" /\ value \in {"new", "foreign"}
             \/ answer' = "durable" /\ (value = "new" => fixed) /\ value # "before"
             \/ answer' = "ambiguous"
          /\ UNCHANGED <<value, fixed>>

Next == Take \/ Fix \/ Lose \/ Intrude \/ Answer

Spec == Init /\ [][Next]_vars
==============================================================================
