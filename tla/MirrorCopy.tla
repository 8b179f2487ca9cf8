------------------------------ MODULE MirrorCopy ------------------------------
(***************************************************************************)
(* codex_rollout_mirror_copy.py sync-one: the held source is cloned (or     *)
(* copied) into a private stage beside the destination, cut after its last  *)
(* complete line, compared with the source while that may grow, be          *)
(* rewritten or be moved away, and renamed over the destination; a receipt  *)
(* says what was done.  The helper may fail at each of its calls and die at *)
(* each of its steps, and is run again.                                     *)
(***************************************************************************)
EXTENDS Naturals, SequencesExt

CONSTANTS NL, Text,        \* the bytes told apart: a line feed, and another one
          MaxAttempts,     \* _SOURCE_PREFIX_MAX_ATTEMPTS, 3 in the code
          MaxSize,         \* of the source
          MaxWrites,       \* changes of the source
          MaxRuns,         \* invocations of the helper
          MaxFaults,       \* calls that fail
          MaxIntrusions,   \* other files put under the destination name
          MaxChurns        \* existing mirrors that change while they are bound

ASSUME BytesAssumption == NL # Text
ASSUME AttemptsAssumption == MaxAttempts # 0
ASSUME BoundsAssumption ==
  {MaxAttempts, MaxSize, MaxWrites, MaxRuns, MaxFaults, MaxIntrusions, MaxChurns} \subseteq Nat

Contents == UNION {[1..n -> {NL, Text}] : n \in 0..MaxSize}
Absent == 0                \* no object; also "null" in a receipt
Intruder == MaxRuns + 1    \* run r stages the object r
Null == MaxSize + 1        \* no size

VARIABLES
  src, srcHere,            \* the source object; whether its path still names it
  dest,                    \* what the destination name refers to
  cand, stage,             \* the staged candidate and its private directory
  \* the helper
  pc, run,
  high,                    \* source_size and generation last seen: the high-water mark
  expected, bound,         \* destination_identity, and whether it has a snapshot
  method, fallback,        \* how the candidate was made; the copied source's snapshot
  publishSize, partial,
  attempted, published,    \* publish_attempted, published_identity
  before, after, grew, attempt, back,    \* of _require_source_prefix
  error,                   \* the exception under way
  receipt,
  \* the run's history and the bounds
  renamed, quiet, rewritten, faults, intrusions, churns

world == <<src, srcHere>>
staged == <<cand, stage>>
bindings == <<high, expected, bound, method, fallback>>
results == <<publishSize, partial>>
orientation == <<attempted, published>>
prefix == <<before, after, grew, attempt, back>>
history == <<renamed, quiet, rewritten, faults, intrusions, churns>>
vars == <<world, dest, staged, pc, run, bindings, results, orientation, prefix, error,
          receipt, history>>

Objects == 0..(MaxRuns + 1)
Sizes == 0..(MaxSize + 1)
Source == [bytes : Contents, tick : 0..MaxWrites]
Mark == [size : Sizes, tick : 0..MaxWrites]
NoReceipt == [outcome |-> "none"]

PrefixSteps == {"enter", "compare", "compare rest", "after", "terminal"}
Steps == {"idle", "bind source", "bind destination", "create stage", "clone", "copy",
          "staged", "trim", "sync", "decide", "retain", "retire", "retired", "done",
          "publish", "authorized", "rename", "tidy", "raised", "clean up", "close"}
         \cup PrefixSteps

TypeOK ==
  /\ src \in Source /\ srcHere \in BOOLEAN
  /\ dest \in [id : Objects, bytes : Contents]
  /\ cand \in [bytes : Contents, at : {"nowhere", "staged", "published", "unlinked"},
               synced : BOOLEAN]
  /\ stage \in {"none", "made", "removed"}
  /\ pc \in Steps /\ run \in 0..MaxRuns
  /\ high \in Mark /\ {before, after} \subseteq Mark
  /\ expected \in [id : Objects, bytes : Contents] /\ bound \in BOOLEAN
  /\ method \in {"null", "reflink", "copy"} /\ fallback \in Source
  /\ publishSize \in Sizes /\ partial \in {"null", "yes", "no"}
  /\ {attempted, published, grew} \subseteq BOOLEAN
  /\ attempt \in 1..MaxAttempts /\ back \in Steps
  /\ error \in {"none", "deferred", "fatal"}
  /\ {renamed, quiet, rewritten} \subseteq BOOLEAN
  /\ faults \in 0..MaxFaults /\ intrusions \in 0..MaxIntrusions
  /\ churns \in 0..MaxChurns

NoSource == [bytes |-> <<>>, tick |-> 0]
NoMark == [size |-> Null, tick |-> 0]
NoFile == [id |-> Absent, bytes |-> <<>>]

NoCandidate == [bytes |-> <<>>, at |-> "nowhere", synced |-> FALSE]

Init ==
  /\ src \in {[bytes |-> b, tick |-> 0] : b \in Contents} /\ srcHere = TRUE
  /\ dest = NoFile
  /\ pc = "idle" /\ run = 0
  /\ cand = NoCandidate /\ stage = "none"
  /\ high = NoMark /\ expected = NoFile /\ bound = FALSE
  /\ method = "null" /\ fallback = NoSource
  /\ publishSize = Null /\ partial = "null"
  /\ attempted = FALSE /\ published = FALSE
  /\ before = NoMark /\ after = NoMark /\ grew = FALSE /\ attempt = 1 /\ back = "idle"
  /\ error = "none" /\ receipt = NoReceipt /\ renamed = FALSE
  /\ quiet = TRUE /\ rewritten = FALSE
  /\ faults = 0 /\ intrusions = 0 /\ churns = 0
--------------------------------------------------------------------------------
MarkOf(source) == [size |-> Len(source.bytes), tick |-> source.tick]
\* The generation may change only with a growth.
Grown(now, then) == now.size > then.size \/ now = then

\* _last_complete_line_size: where the last complete line ends.
LastCompleteLine(bytes) ==
  LET ends == {i \in DOMAIN bytes : bytes[i] = NL}
  IN IF ends = {} THEN 0 ELSE CHOOSE i \in ends : \A j \in ends : j <= i

\* _require_destination_binding
DestinationBound == dest = expected

Raise(kind) == pc' = "raised" /\ error' = kind
Fault == /\ faults < MaxFaults /\ faults' = faults + 1 /\ quiet' = FALSE
         /\ UNCHANGED <<renamed, rewritten, intrusions, churns>>
Go(step) == pc' = step /\ UNCHANGED error

\* Any call of a step before the publication may fail.
FailsAt(steps) == pc \in steps /\ Fault /\ Raise("fatal")
Fail ==
  /\ FailsAt({"bind source", "bind destination", "create stage", "clone", "copy",
              "trim", "sync", "decide", "retire", "tidy", "publish"})
  /\ UNCHANGED <<world, dest, staged, run, bindings, results, orientation, prefix, receipt>>

\* A new process remembers nothing.
Begin ==
  /\ pc = "idle" /\ run < MaxRuns
  /\ run' = run + 1 /\ pc' = "bind source"
  /\ cand' = NoCandidate /\ stage' = "none"
  /\ high' = NoMark /\ expected' = NoFile /\ bound' = FALSE
  /\ method' = "null" /\ fallback' = NoSource
  /\ publishSize' = Null /\ partial' = "null"
  /\ attempted' = FALSE /\ published' = FALSE
  /\ before' = NoMark /\ after' = NoMark /\ grew' = FALSE /\ attempt' = 1 /\ back' = "idle"
  /\ error' = "none" /\ receipt' = NoReceipt /\ renamed' = FALSE /\ quiet' = srcHere
  /\ UNCHANGED <<world, dest, rewritten, faults, intrusions, churns>>

BindSource ==
  /\ pc = "bind source"
  /\ IF srcHere THEN high' = MarkOf(src) /\ Go("bind destination")
                ELSE UNCHANGED high /\ Raise("deferred")
  /\ UNCHANGED <<world, dest, staged, run, expected, bound, method, fallback, results,
                 orientation, prefix, receipt, history>>

\* An existing mirror is identified first and then read: it may change meanwhile.
BindDestination ==
  /\ pc = "bind destination"
  /\ expected' = dest
  /\ \/ /\ bound' = (dest.id # Absent) /\ Go("create stage")
        /\ UNCHANGED <<dest, history>>
     \/ /\ dest.id # Absent /\ churns < MaxChurns /\ churns' = churns + 1
        /\ quiet' = FALSE /\ (Raise("deferred") \/ Raise("fatal"))
        /\ dest' \in {[dest EXCEPT !.bytes = b] : b \in Contents \ {dest.bytes}}
        /\ UNCHANGED <<bound, renamed, rewritten, faults, intrusions>>
  /\ UNCHANGED <<world, staged, run, high, method, fallback, results, orientation, prefix,
                 receipt>>

CreateStage ==
  /\ pc = "create stage"
  /\ IF srcHere /\ DestinationBound THEN stage' = "made" /\ Go("clone")
                                    ELSE UNCHANGED stage /\ Raise("deferred")
  /\ UNCHANGED <<world, dest, cand, run, bindings, results, orientation, prefix, receipt,
                 history>>

Candidate(bytes) == cand' = [bytes |-> bytes, at |-> "staged", synced |-> FALSE]

\* A clone is one instant of the source, unless that grew since it was measured;
\* where the filesystem has no clone the source is read for a copy.
Clone ==
  /\ pc = "clone"
  /\ IF ~(srcHere /\ DestinationBound)
     THEN Raise("deferred") /\ UNCHANGED <<cand, method, fallback, history>>
     ELSE \/ /\ Candidate(src.bytes) /\ method' = "reflink" /\ Go("staged")
             /\ UNCHANGED <<fallback, history>>
          \/ /\ Candidate(src.bytes) /\ Fault /\ Raise("deferred")
             /\ UNCHANGED <<method, fallback>>
          \/ /\ fallback' = src /\ Go("copy")
             /\ UNCHANGED <<cand, method, history>>
  /\ UNCHANGED <<world, dest, stage, run, high, expected, bound, results, orientation,
                 prefix, receipt>>

\* The copy may mix the source as it was with the source as it is: it stands only
\* if the source is the same before and after.
Copy ==
  /\ pc = "copy"
  /\ IF ~(srcHere /\ DestinationBound)
     THEN Raise("deferred") /\ UNCHANGED <<cand, method>>
     ELSE /\ \E k \in 0..Len(fallback.bytes) :
               Candidate(SubSeq(fallback.bytes, 1, k)
                         \o SubSeq(src.bytes, k + 1, Len(src.bytes)))
          /\ method' = "copy"
          /\ IF src = fallback /\ cand'.bytes = fallback.bytes
             THEN Go("staged") ELSE Raise("deferred")
  /\ UNCHANGED <<world, dest, stage, run, high, expected, bound, fallback, results,
                 orientation, prefix, receipt, history>>

\* The end of _create_candidate
Staged ==
  /\ pc = "staged"
  /\ IF /\ Len(src.bytes) >= Len(cand.bytes)
        /\ Grown(MarkOf(src), high)
        /\ method = "copy" => src = fallback
     THEN high' = MarkOf(src) /\ Go("trim")
     ELSE UNCHANGED high /\ Raise("deferred")
  /\ UNCHANGED <<world, dest, staged, run, expected, bound, method, fallback, results,
                 orientation, prefix, receipt, history>>

\* The candidate is cut after its last complete line.
Trim ==
  /\ pc = "trim"
  /\ publishSize' = LastCompleteLine(cand.bytes)
  /\ IF publishSize' = 0
     THEN Go("retain") /\ UNCHANGED <<cand, partial>>
     ELSE /\ partial' = IF publishSize' = Len(cand.bytes) THEN "no" ELSE "yes"
          /\ cand' = [cand EXCEPT !.bytes = SubSeq(@, 1, publishSize')]
          /\ Go("sync")
  /\ UNCHANGED <<world, dest, stage, run, bindings, orientation, prefix, receipt, history>>

Call(return) == pc' = "enter" /\ back' = return /\ attempt' = 1 /\ UNCHANGED error

\* Mutant: the candidate is not synced.
SyncSkipped ==
  /\ pc = "sync"
  /\ Call("decide")
  /\ UNCHANGED <<world, dest, staged, run, bindings, results, orientation, before, after,
                 grew, receipt, history>>

Sync ==
  /\ pc = "sync"
  /\ cand' = [cand EXCEPT !.synced = TRUE]
  /\ Call("decide")
  /\ UNCHANGED <<world, dest, stage, run, bindings, results, orientation, before, after,
                 grew, receipt, history>>
--------------------------------------------------------------------------------
(* _require_source_prefix, which goes back to the step that called it.       *)
Leave == /\ before' = NoMark /\ after' = NoMark /\ grew' = FALSE
         /\ attempt' = 1 /\ back' = "idle"

\* Mutant: a source without an unfinished line counts as too short.
EnterStrict ==
  /\ pc = "enter"
  /\ before' = MarkOf(src)
  /\ grew' = (Len(src.bytes) > high.size)
  /\ IF /\ srcHere /\ (method = "copy" => src = fallback)
        /\ Grown(before', high) /\ before'.size > Len(cand.bytes)
     THEN Go("compare") ELSE Raise("deferred")
  /\ UNCHANGED <<world, dest, staged, run, bindings, results, orientation, after, attempt,
                 back, receipt, history>>

Enter ==
  /\ pc = "enter"
  /\ before' = MarkOf(src)
  /\ grew' = (Len(src.bytes) > high.size)
  /\ IF /\ srcHere /\ (method = "copy" => src = fallback)
        /\ Grown(before', high) /\ before'.size >= Len(cand.bytes)
     THEN Go("compare") ELSE Raise("deferred")
  /\ UNCHANGED <<world, dest, staged, run, bindings, results, orientation, after, attempt,
                 back, receipt, history>>

Agree(places) == \A i \in places : i <= Len(src.bytes) /\ src.bytes[i] = cand.bytes[i]

\* The source is read block by block, and may change between two of them.
Compare ==
  /\ pc = "compare"
  /\ IF Agree(DOMAIN cand.bytes \cap {1})
     THEN Go("compare rest") ELSE Raise("deferred")
  /\ UNCHANGED <<world, dest, staged, run, bindings, results, orientation, prefix, receipt,
                 history>>

CompareRest ==
  /\ pc = "compare rest"
  /\ IF Agree(DOMAIN cand.bytes \ {1})
     THEN Go("after") ELSE Raise("deferred")
  /\ UNCHANGED <<world, dest, staged, run, bindings, results, orientation, prefix, receipt,
                 history>>

After ==
  /\ pc = "after"
  /\ after' = MarkOf(src)
  /\ IF /\ Grown(after', before) /\ Grown(after', high) /\ srcHere
        /\ method = "copy" => src = fallback
     THEN Go("terminal") /\ high' = after' ELSE Raise("deferred") /\ UNCHANGED high
  /\ UNCHANGED <<world, dest, staged, run, expected, bound, method, fallback, results,
                 orientation, before, grew, attempt, back, receipt, history>>

\* Mutant: one attempt too many.
OneAttemptTooMany ==
  /\ pc = "terminal" /\ Grown(MarkOf(src), high)
  /\ high' = MarkOf(src) /\ attempt' = attempt + 1 /\ Go("enter")
  /\ UNCHANGED <<world, dest, staged, run, expected, bound, method, fallback, results,
                 orientation, before, after, grew, back, receipt, history>>

\* Mutant: a source that grew while it was compared is not compared again.
NoSecondLook ==
  /\ pc = "terminal"
  /\ Leave
  /\ IF ~Grown(MarkOf(src), high) \/ (method = "copy" /\ src # fallback)
     THEN Raise("deferred") /\ UNCHANGED high
     ELSE high' = MarkOf(src) /\ Go(back)
  /\ UNCHANGED <<world, dest, staged, run, expected, bound, method, fallback, results,
                 orientation, receipt, history>>

\* A source that grew meanwhile is compared again, MaxAttempts times in all.
Terminal ==
  /\ pc = "terminal"
  /\ LET now == MarkOf(src)
         again == grew \/ after.size > before.size \/ now.size > after.size
     IN IF ~Grown(now, high) \/ (method = "copy" /\ src # fallback) \/ (again /\ attempt = MaxAttempts)
        THEN Raise("deferred") /\ Leave /\ UNCHANGED high
        ELSE /\ high' = now
             /\ IF again THEN /\ attempt' = attempt + 1 /\ Go("enter")
                              /\ UNCHANGED <<before, after, grew, back>>
                         ELSE Leave /\ Go(back)
  /\ UNCHANGED <<world, dest, staged, run, expected, bound, method, fallback, results,
                 orientation, receipt, history>>
--------------------------------------------------------------------------------
\* _destination_is_unchanged
Decide ==
  /\ pc = "decide"
  /\ Go(IF expected.id # Absent /\ expected.bytes = cand.bytes THEN "retain" ELSE "publish")
  /\ UNCHANGED <<world, dest, staged, run, bindings, results, orientation, prefix, receipt,
                 history>>

\* Nothing to publish: the bindings hold before the stage is removed ...
Retain ==
  /\ pc = "retain"
  /\ IF srcHere /\ DestinationBound
     THEN Call("retire") ELSE Raise("deferred") /\ UNCHANGED <<attempt, back>>
  /\ UNCHANGED <<world, dest, staged, run, bindings, results, orientation, before, after,
                 grew, receipt, history>>

Retire ==
  /\ pc = "retire"
  /\ cand' = [cand EXCEPT !.at = "unlinked"] /\ stage' = "removed"
  /\ Go("retired")
  /\ UNCHANGED <<world, dest, run, bindings, results, orientation, prefix, receipt, history>>

\* ... and after it.
Retired ==
  /\ pc = "retired"
  /\ IF DestinationBound
     THEN Call("done") ELSE Raise("deferred") /\ UNCHANGED <<attempt, back>>
  /\ UNCHANGED <<world, dest, staged, run, bindings, results, orientation, before, after,
                 grew, receipt, history>>

\* publish_staged_name: its authorization and the validation after it are the
\* same bindings.
Publish ==
  /\ pc \in {"publish", "authorized"}
  /\ attempted' = TRUE
  /\ IF DestinationBound
     THEN Call(IF pc = "publish" THEN "authorized" ELSE "rename")
     ELSE Raise("deferred") /\ UNCHANGED <<attempt, back>>
  /\ UNCHANGED <<world, dest, staged, run, bindings, results, published, before, after,
                 grew, receipt, history>>

Renamed ==
  /\ dest' = [id |-> run, bytes |-> cand.bytes]
  /\ cand' = [cand EXCEPT !.at = "published"]

\* Mutant: the old mirror is unlinked before the new one is renamed.
UnlinkFirst ==
  /\ pc = "rename"
  /\ \/ /\ Renamed /\ published' = TRUE /\ Go("tidy") /\ renamed' = TRUE
        /\ UNCHANGED <<quiet, rewritten, faults, intrusions, churns>>
     \/ Fault /\ Raise("fatal") /\ dest' = NoFile /\ UNCHANGED <<cand, published>>
  /\ UNCHANGED <<world, stage, run, bindings, results, attempted, prefix, receipt>>

\* The rename may fail without an effect, and what follows it may fail after it.
Rename ==
  /\ pc = "rename"
  /\ IF dest.id # expected.id
     THEN Raise("fatal") /\ UNCHANGED <<dest, cand, published, history>>
     ELSE \/ /\ Renamed /\ published' = TRUE /\ Go("tidy")
             /\ renamed' = TRUE
             /\ UNCHANGED <<quiet, rewritten, faults, intrusions, churns>>
          \/ Fault /\ Raise("fatal") /\ UNCHANGED <<dest, cand, published>>
          \/ /\ Renamed /\ Raise("fatal") /\ UNCHANGED published
             /\ faults < MaxFaults /\ faults' = faults + 1 /\ quiet' = FALSE
             /\ renamed' = TRUE /\ UNCHANGED <<rewritten, intrusions, churns>>
  /\ UNCHANGED <<world, stage, run, bindings, results, attempted, prefix, receipt>>

\* The empty stage is removed and the name proved to be the published object's.
Tidy ==
  /\ pc = "tidy"
  /\ stage' = "removed"
  /\ IF dest.id = run THEN Go("done") ELSE Raise("fatal")
  /\ UNCHANGED <<world, dest, cand, run, bindings, results, orientation, prefix, receipt,
                 history>>
--------------------------------------------------------------------------------
\* Mutant: a publication that failed is taken for one without an effect.
OrientOptimistic ==
  /\ pc = "raised"
  /\ Go("clean up")
  /\ attempted' = published /\ UNCHANGED published
  /\ UNCHANGED <<world, dest, staged, run, bindings, results, prefix, receipt, history>>

\* _orient_publish_failure: the bound state before the rename or the one after it.
Orient ==
  /\ pc = "raised"
  /\ Go("clean up")
  /\ \/ /\ ~(attempted /\ ~published) /\ UNCHANGED <<orientation, history>>
     \/ /\ attempted /\ ~published
        /\ IF DestinationBound /\ cand.at = "staged"
           THEN attempted' = FALSE /\ UNCHANGED published
           ELSE published' = (dest.id = run) /\ UNCHANGED attempted
        /\ UNCHANGED history
     \/ attempted /\ ~published /\ Fault /\ UNCHANGED orientation
  /\ UNCHANGED <<world, dest, staged, run, bindings, results, prefix, receipt>>

\* Mutant: the cleanup removes the directory and forgets the candidate in it.
CleanUpSkips ==
  /\ pc = "clean up"
  /\ Go("close")
  /\ stage' = IF published \/ ~attempted THEN "removed" ELSE stage
  /\ UNCHANGED <<world, dest, cand, run, bindings, results, orientation, prefix, receipt,
                 history>>

\* _cleanup_stage after an error, unless the publication is ambiguous.
CleanUp ==
  /\ pc = "clean up"
  /\ Go("close")
  /\ \/ (attempted /\ ~published) /\ UNCHANGED <<staged, history>>
     \/ stage # "made" /\ UNCHANGED <<staged, history>>
     \/ /\ published \/ ~attempted
        /\ stage = "made" /\ stage' = "removed"
        /\ cand' = IF cand.at = "staged" THEN [cand EXCEPT !.at = "unlinked"] ELSE cand
        /\ UNCHANGED history
     \/ (published \/ ~attempted) /\ stage = "made" /\ Fault /\ UNCHANGED staged
  /\ UNCHANGED <<world, dest, run, bindings, results, orientation, prefix, receipt>>

\* Mutant: the size is that of the bound name, none if the mirror is empty.
OldSizeIfAny == IF bound /\ expected.bytes # <<>> THEN Len(expected.bytes) ELSE Null

OldSize == IF bound THEN Len(expected.bytes) ELSE Null
\* _receipt and _fatal_receipt
Receipt(outcome) ==
  LET mutated == IF outcome = "fatal"
                 THEN IF published THEN "yes" ELSE IF attempted THEN "unknown" ELSE "no"
                 ELSE IF outcome = "updated" THEN "yes" ELSE "no"
  IN [outcome |-> outcome, mutated |-> mutated,
      oldSize |-> OldSize, oldId |-> expected.id,
      newSize |-> CASE mutated = "yes" -> publishSize [] mutated = "no" -> OldSize
                    [] OTHER -> Null,
      newId |-> CASE mutated = "yes" -> run [] mutated = "no" -> expected.id
                  [] OTHER -> Absent,
      publishSize |-> publishSize, sourceSize |-> high.size, method |-> method,
      partial |-> partial]

Success == IF published THEN "updated"
           ELSE IF publishSize = 0 THEN "no-complete-line" ELSE "unchanged"

\* The descriptors are closed; one that stays open makes every outcome fatal.
Outcome(closed) ==
  CASE error = "none" /\ closed -> Success
    [] error = "deferred" /\ closed /\ ~attempted /\ stage # "made" -> "deferred"
    [] OTHER -> "fatal"

Close ==
  /\ pc \in {"done", "close"}
  /\ pc' = "idle"
  /\ \/ receipt' = Receipt(Outcome(TRUE)) /\ UNCHANGED history
     \/ receipt' = Receipt(Outcome(FALSE)) /\ Fault
  /\ UNCHANGED <<world, dest, staged, run, bindings, results, orientation, prefix, error>>

Stop ==
  /\ pc # "idle" /\ Fault
  /\ pc' = "idle"
  /\ UNCHANGED <<world, dest, staged, run, bindings, results, orientation, prefix, error,
                 receipt>>
--------------------------------------------------------------------------------
(* Codex goes on writing the source, or archives it.                        *)
Written(bytes) ==
  /\ src.tick < MaxWrites
  /\ src' = [bytes |-> bytes, tick |-> src.tick + 1]
  /\ quiet' = FALSE
  /\ UNCHANGED <<srcHere, dest, staged, pc, run, bindings, results, orientation, prefix,
                 error, receipt, renamed, faults, intrusions, churns>>

Grow == /\ Len(src.bytes) < MaxSize
           /\ \E b \in {NL, Text} : Written(Append(src.bytes, b))
           /\ UNCHANGED rewritten
Rewrite == rewritten' = TRUE /\ \E b \in Contents : Written(b)

Archive ==
  /\ srcHere /\ srcHere' = FALSE /\ quiet' = FALSE
  /\ UNCHANGED <<src, dest, staged, pc, run, bindings, results, orientation, prefix, error,
                 receipt, renamed, rewritten, faults, intrusions, churns>>

\* Somebody else puts a file under the destination name.
Intrude ==
  /\ intrusions < MaxIntrusions /\ intrusions' = intrusions + 1
  /\ dest.id # Intruder /\ dest' = [id |-> Intruder, bytes |-> <<>>]
  /\ quiet' = FALSE
  /\ UNCHANGED <<world, staged, pc, run, bindings, results, orientation, prefix, error,
                 receipt, renamed, rewritten, faults, churns>>

Line == \/ BindSource \/ BindDestination \/ CreateStage \/ Clone \/ Copy \/ Staged \/ Trim
        \/ Sync \/ Enter \/ Compare \/ CompareRest \/ After \/ Terminal \/ Decide \/ Retain
        \/ Retire \/ Retired \/ Publish \/ Rename \/ Tidy \/ Orient \/ CleanUp \/ Close
Next == \/ Begin \/ Line \/ Fail \/ Stop \/ Grow \/ Rewrite \/ Archive \/ Intrude
Spec == Init /\ [][Next]_vars
--------------------------------------------------------------------------------
Over == pc = "idle" /\ receipt # NoReceipt

\* A validation that lets the helper go on saw the staged bytes whole at the start
\* of the source, however that was written while it was compared.
ValidatedPrefix ==
  [][pc = "terminal" /\ pc' = back => IsPrefix(cand.bytes, src.bytes)]_vars

\* Only complete lines get the destination's name, and only once they are durable.
PublishedWhole ==
  [][dest'.id = run /\ dest'.id # dest.id
       => cand.synced /\ dest'.bytes # <<>> /\ dest'.bytes[Len(dest'.bytes)] = NL]_vars

\* While the source is only appended to and nobody else writes the mirror, a sync
\* never takes a line from the mirror, even one that fails or dies.
MirrorGrows ==
  [][~rewritten /\ intrusions' = 0 /\ churns' = 0 => IsPrefix(dest.bytes, dest'.bytes)]_vars

\* The receipt tells whether the destination was replaced, and where it can say
\* neither there was an attempt.  A deferred sync has not touched it.
ReceiptTrue ==
  Over => /\ receipt.mutated = "yes" => renamed
          /\ receipt.mutated = "no" => ~renamed
          /\ receipt.mutated = "unknown" => receipt.outcome = "fatal"

\* Every outcome but a fatal one has removed the private stage.
NothingLeftBehind ==
  Over /\ receipt.outcome # "fatal" => stage # "made" /\ cand.at # "staged"

\* When nothing fails and nobody interferes, the mirror has every complete line
\* the source has: neither the guards nor the retries cost a sync its effect.
QuietSyncCatchesUp ==
  Over /\ quiet =>
    /\ receipt.outcome \in {"updated", "unchanged", "no-complete-line"}
    /\ LET lines == SubSeq(src.bytes, 1, LastCompleteLine(src.bytes))
       IN lines # <<>> => dest.bytes = lines

\* _validate_receipt_payload: what validate-receipt, and with it the daily job,
\* takes for a receipt.
ReceiptValid(r) ==
  LET candidatePublished == r.outcome \in {"updated", "unchanged"}
                            \/ (r.outcome = "fatal" /\ r.mutated = "yes")
      kept == r.outcome \in {"unchanged", "no-complete-line", "deferred"}
              \/ (r.outcome = "fatal" /\ r.mutated = "no")
  IN /\ (r.oldSize = Null) = (r.oldId = Absent)
     /\ (r.newSize = Null) = (r.newId = Absent)
     /\ r.outcome \in {"deferred", "unchanged", "no-complete-line"} => r.mutated = "no"
     /\ r.outcome = "updated" => r.mutated = "yes"
     /\ r.mutated = "yes" => /\ r.newSize = r.publishSize /\ r.newId # Absent
                             /\ r.newId # r.oldId
     /\ candidatePublished => /\ r.publishSize \notin {0, Null} /\ r.sourceSize # Null
                              /\ r.sourceSize >= r.publishSize
                              /\ r.method # "null" /\ r.partial # "null"
                              /\ r.partial = "yes" => r.sourceSize > r.publishSize
     /\ r.outcome = "unchanged" => r.oldId # Absent /\ r.oldSize = r.publishSize
     /\ kept => r.newSize = r.oldSize /\ r.newId = r.oldId
     /\ r.outcome = "no-complete-line" => /\ r.publishSize = 0 /\ r.sourceSize # Null
                                          /\ r.partial = "null" /\ r.method # "null"
     /\ r.mutated = "unknown" => r.newSize = Null /\ r.newId = Absent

\* Every receipt sync-one prints is one that validate-receipt accepts, once an
\* existing mirror has been read: the caller would take a refused receipt for a
\* fatal error and stop the whole mirror sync.
ReceiptAccepted == Over /\ bound = (expected.id # Absent) => ReceiptValid(receipt)

\* codex_rollout_mirror_copy.py:80 and codex_rollout_mirror_common.sh:632: a transient
\* before the publication is a deferral, for which the caller skips the rollout.
DeferralAccepted == Over /\ receipt.outcome = "deferred" => ReceiptValid(receipt)
================================================================================
