---------------------------- MODULE MirrorCopyProofs ----------------------------
(***************************************************************************)
(* Proofs about MirrorCopy, for any bytes, sizes and number of changes,     *)
(* runs, failing calls and intrusions: the receipts of the helper, what it  *)
(* publishes, and that a quiet sync has its effect.                         *)
(***************************************************************************)
EXTENDS MirrorCopy, SequenceTheorems, WellFoundedInduction, TLAPS

USE DEF world, staged, bindings, results, orientation, prefix, history

LEMMA Bounds ==
  /\ MaxAttempts \in Nat /\ MaxAttempts # 0 /\ MaxSize \in Nat /\ MaxWrites \in Nat
  /\ MaxRuns \in Nat /\ MaxFaults \in Nat /\ MaxIntrusions \in Nat /\ MaxChurns \in Nat
<1>1. \A x : x \in {MaxAttempts, MaxSize, MaxWrites, MaxRuns, MaxFaults, MaxIntrusions,
                    MaxChurns} => x \in Nat
  BY BoundsAssumption, Zenon
<1> QED BY <1>1, AttemptsAssumption

LEMMA ContentsAre ==
  ASSUME NEW b PROVE b \in Contents <=> b \in Seq({NL, Text}) /\ Len(b) <= MaxSize
<1>1. ASSUME b \in Contents PROVE b \in Seq({NL, Text}) /\ Len(b) <= MaxSize
  <2>1. PICK n \in 0..MaxSize : b \in [1..n -> {NL, Text}]
    BY <1>1 DEF Contents
  <2> QED BY <2>1, Bounds
<1>2. ASSUME b \in Seq({NL, Text}), Len(b) <= MaxSize PROVE b \in Contents
  <2>1. Len(b) \in 0..MaxSize /\ b \in [1..Len(b) -> {NL, Text}]
    BY <1>2, Bounds, LenProperties
  <2> QED BY <2>1 DEF Contents
<1> QED BY <1>1, <1>2

LEMMA ContentsLength == ASSUME NEW b \in Contents PROVE Len(b) \in 0..MaxSize
  BY ContentsAre, LenProperties, Bounds

\* A sequence cut after its first n bytes.
LEMMA Cut ==
  ASSUME NEW b \in Contents, NEW n \in 0..Len(b)
  PROVE  /\ SubSeq(b, 1, n) \in Contents /\ Len(SubSeq(b, 1, n)) = n
         /\ \A i \in 1..n : SubSeq(b, 1, n)[i] = b[i]
<1>1. b \in Seq({NL, Text}) /\ Len(b) \in Nat /\ Len(b) <= MaxSize
  BY ContentsAre, LenProperties
<1>2. \A i \in 1..n : b[i] \in {NL, Text}
  BY <1>1, ElementOfSeq
<1>3. /\ SubSeq(b, 1, n) \in Seq({NL, Text})
      /\ Len(SubSeq(b, 1, n)) = IF 1 <= n THEN n - 1 + 1 ELSE 0
      /\ \A i \in 1..(n - 1 + 1) : SubSeq(b, 1, n)[i] = b[1 + i - 1]
  BY <1>1, <1>2, SubSeqProperties
<1>4. Len(SubSeq(b, 1, n)) = n /\ \A i \in 1..n : SubSeq(b, 1, n)[i] = b[i]
  BY ONLY <1>1, <1>3, n \in 0..Len(b)
<1>5. Len(SubSeq(b, 1, n)) <= MaxSize
  BY ONLY <1>1, <1>4, n \in 0..Len(b), Bounds
<1> QED BY <1>3, <1>4, <1>5, ContentsAre

LEMMA Added ==
  ASSUME NEW b \in Contents, Len(b) < MaxSize, NEW e \in {NL, Text}
  PROVE  /\ Append(b, e) \in Contents /\ Len(Append(b, e)) = Len(b) + 1
         /\ \A i \in 1..Len(b) : Append(b, e)[i] = b[i]
<1>1. b \in Seq({NL, Text}) /\ Len(b) \in Nat
  BY ContentsAre, LenProperties
<1>2. /\ Append(b, e) \in Seq({NL, Text}) /\ Len(Append(b, e)) = Len(b) + 1
      /\ \A i \in 1..Len(b) : Append(b, e)[i] = b[i]
  BY <1>1, AppendProperties
<1>3. Len(Append(b, e)) <= MaxSize
  BY <1>1, <1>2, Bounds
<1> QED BY <1>2, <1>3, ContentsAre

\* What Copy reads.
LEMMA Mixed ==
  ASSUME NEW a \in Contents, NEW b \in Contents, NEW k \in 0..Len(a)
  PROVE  SubSeq(a, 1, k) \o SubSeq(b, k + 1, Len(b)) \in Contents
<1> DEFINE rest == SubSeq(b, k + 1, Len(b))
<1>1. Len(a) \in 0..MaxSize /\ Len(b) \in 0..MaxSize /\ b \in Seq({NL, Text})
  BY ContentsLength, ContentsAre
<1>2. \A i \in (k + 1)..Len(b) : b[i] \in {NL, Text}
  BY <1>1, ElementOfSeq, Bounds
<1>3. rest \in Seq({NL, Text}) /\ Len(rest) = (IF k + 1 <= Len(b) THEN Len(b) - (k + 1) + 1 ELSE 0)
  BY <1>1, <1>2, SubSeqProperties, Bounds
<1>4. SubSeq(a, 1, k) \in Seq({NL, Text}) /\ Len(SubSeq(a, 1, k)) = k
  BY Cut, ContentsAre
<1> HIDE DEF rest
<1>5. SubSeq(a, 1, k) \o rest \in Seq({NL, Text}) /\ Len(SubSeq(a, 1, k) \o rest) = k + Len(rest)
  BY <1>3, <1>4, ConcatProperties
<1>6. k + Len(rest) <= MaxSize
  <2>1. k \in Nat /\ k <= MaxSize
    BY <1>1, Bounds
  <2>2. CASE k + 1 <= Len(b)
    <3>1. Len(rest) = Len(b) - k
      BY <1>1, <1>3, <2>1, <2>2
    <3> QED BY ONLY <1>1, <2>1, <2>2, <3>1, Bounds
  <2>3. CASE ~(k + 1 <= Len(b))
    <3>1. Len(rest) = 0
      BY ONLY <1>3, <2>3
    <3> QED BY ONLY <2>1, <3>1, Bounds
  <2> QED BY <2>2, <2>3
<1> QED BY <1>5, <1>6, ContentsAre DEF rest

LEMMA Empty == <<>> \in Contents /\ Len(<<>>) = 0
<1>1. <<>> \in Seq({NL, Text}) /\ Len(<<>>) = 0
  BY EmptySeq
<1>2. Len(<<>>) <= MaxSize
  BY <1>1, Bounds
<1> QED BY <1>1, <1>2, ContentsAre

\* A non-empty set of places has a last one.
LEMMA NatWell == IsWellFoundedOn({ss \in Nat \X Nat : ss[1] < ss[2]}, Nat)
  BY NatLessThanWellFounded DEF OpToRel

LEMMA LastPlace ==
  ASSUME NEW n \in Nat, NEW S, S \subseteq 1..n, S # {}
  PROVE  \E i \in S : \A j \in S : j <= i
<1> DEFINE T == {k \in Nat : n - k \in S}
           R == {ss \in Nat \X Nat : ss[1] < ss[2]}
<1>1. T \subseteq Nat /\ T # {}
  <2>1. PICK i \in S : TRUE
    OBVIOUS
  <2>2. n - i \in Nat /\ n - (n - i) = i
    BY <2>1
  <2> QED BY <2>1, <2>2
<1>2. \E x \in T : \A y \in T : ~ (<<y, x>> \in R)
  <2> HIDE DEF T, R
  <2>1. IsWellFoundedOn(R, Nat)
    BY NatWell DEF R
  <2> QED BY <1>1, <2>1, WFMin
<1>3. PICK x \in T : \A y \in T : ~(y < x)
  <2>1. \A x, y \in T : <<y, x>> \in R <=> y < x
    BY <1>1
  <2> QED BY <1>2, <2>1
<1>4. \A j \in S : j <= n - x
  <2>1. TAKE j \in S
  <2>2. n - j \in Nat /\ n - (n - j) = j
    BY <2>1
  <2>3. n - j \in T
    BY <2>2
  <2> QED BY <1>3, <2>2, <2>3
<1> QED BY <1>3, <1>4

\* Where the last complete line ends.
LEMMA LastLine ==
  ASSUME NEW b \in Contents
  PROVE  /\ LastCompleteLine(b) \in 0..Len(b)
         /\ LastCompleteLine(b) # 0 => b[LastCompleteLine(b)] = NL
         /\ \A i \in 1..Len(b) : b[i] = NL => i <= LastCompleteLine(b)
<1> DEFINE ends == {i \in DOMAIN b : b[i] = NL}
<1>1. Len(b) \in Nat /\ DOMAIN b = 1..Len(b)
  BY ContentsAre, LenProperties
<1>2. ends \subseteq 1..Len(b)
  BY <1>1
<1>3. LastCompleteLine(b) = IF ends = {} THEN 0 ELSE CHOOSE i \in ends : \A j \in ends : j <= i
  BY DEF LastCompleteLine
<1>4. CASE ends = {}
  BY <1>1, <1>3, <1>4
<1>5. CASE ends # {}
  <2>1. \E i \in ends : \A j \in ends : j <= i
    <3> HIDE DEF ends
    <3> QED BY <1>1, <1>2, <1>5, LastPlace
  <2>2. LastCompleteLine(b) \in ends /\ \A j \in ends : j <= LastCompleteLine(b)
    <3> HIDE DEF ends
    <3> QED BY <1>3, <1>5, <2>1
  <2> QED BY <1>1, <1>2, <2>2
<1> QED BY <1>4, <1>5
--------------------------------------------------------------------------------
\* The types in parts, each for the prover that can handle it.
Flags == {srcHere, bound, attempted, published, grew, renamed, quiet, rewritten} \subseteq BOOLEAN
Counters ==
  /\ run \in 0..MaxRuns /\ attempt \in 1..MaxAttempts
  /\ faults \in 0..MaxFaults /\ intrusions \in 0..MaxIntrusions /\ churns \in 0..MaxChurns
Labels ==
  /\ stage \in {"none", "made", "removed"} /\ pc \in Steps /\ back \in Steps
  /\ method \in {"null", "reflink", "copy"} /\ partial \in {"null", "yes", "no"}
  /\ error \in {"none", "deferred", "fatal"}
Files ==
  /\ src \in Source /\ fallback \in Source
  /\ dest \in [id : Objects, bytes : Contents] /\ expected \in [id : Objects, bytes : Contents]
CandidateType == [bytes : Contents, at : {"nowhere", "staged", "published", "unlinked"},
                  synced : BOOLEAN]
Candidates == cand \in CandidateType
Marks == high \in Mark /\ before \in Mark /\ after \in Mark /\ publishSize \in Sizes

LEMMA TypeParts == TypeOK <=> Flags /\ Counters /\ Labels /\ Files /\ Candidates /\ Marks
  BY Zenon DEF TypeOK, Flags, Counters, Labels, Files, Candidates, CandidateType, Marks

LEMMA TypeInitially == Init => TypeOK
<1> SUFFICES ASSUME Init PROVE TypeOK
  OBVIOUS
<1>1. Flags
  BY Zenon DEF Init, Flags
<1>2. Counters
  BY Bounds DEF Init, Counters
<1>3. Labels
  BY DEF Init, Labels, Steps, PrefixSteps
<1>4. Files /\ Candidates
  BY Empty, Bounds DEF Init, Files, Candidates,
    CandidateType, Source, Objects, NoSource, NoFile, NoCandidate, Absent
<1>5. Marks
  BY Bounds DEF Init, Marks, Mark, NoMark, Null, Sizes
<1> QED BY <1>1, <1>2, <1>3, <1>4, <1>5, TypeParts

LEMMA Comparison == ASSUME NEW a, NEW b PROVE (a > b) \in BOOLEAN
  OBVIOUS

LEMMA FlagsStep == Flags /\ [Next]_vars => Flags'
<1> SUFFICES ASSUME Flags, [Next]_vars PROVE Flags'
  OBVIOUS
<1> USE DEF Next, Line, Begin, BindSource, BindDestination, CreateStage, Clone, Copy, Staged, Trim,
      Sync, Enter, Compare, CompareRest, After, Decide, Retain, Retire, Retired, Publish, Rename,
      Tidy, Orient, CleanUp, Close, Fail, FailsAt, Stop, Grow, Rewrite, Archive, Intrude, Written,
      Fault, vars
<1>1. srcHere' = srcHere \/ srcHere' = FALSE
  BY ZenonT(60) DEF Terminal
<1>2. bound' = bound \/ bound' = FALSE \/ bound' = (dest.id # Absent)
  BY ZenonT(60) DEF Terminal
<1>3. attempted' = attempted \/ attempted' \in BOOLEAN
  BY ZenonT(60) DEF Terminal
<1>4. published' = published \/ published' = TRUE \/ published' = FALSE \/ published' = (dest.id = run)
  BY ZenonT(60) DEF Terminal
<1>5. grew' = grew \/ grew' = FALSE \/ grew' = (Len(src.bytes) > high.size)
  BY ZenonT(60) DEF Terminal, Leave
<1>6. renamed' = renamed \/ renamed' = FALSE \/ renamed' = TRUE
  BY ZenonT(60) DEF Terminal
<1>7. quiet' = quiet \/ quiet' = srcHere \/ quiet' = FALSE
  BY ZenonT(60) DEF Terminal
<1>8. rewritten' = rewritten \/ rewritten' = TRUE
  BY ZenonT(60) DEF Terminal
<1> QED
  <2>1. srcHere \in BOOLEAN /\ bound \in BOOLEAN /\ attempted \in BOOLEAN /\ published \in BOOLEAN
        /\ grew \in BOOLEAN /\ renamed \in BOOLEAN /\ quiet \in BOOLEAN /\ rewritten \in BOOLEAN
    BY Zenon DEF Flags
  <2>2. srcHere' \in BOOLEAN /\ bound' \in BOOLEAN /\ attempted' \in BOOLEAN
    BY ONLY <1>1, <1>2, <1>3, <2>1, ZenonT(60)
  <2>3. published' \in BOOLEAN
    BY ONLY <1>4, <2>1, ZenonT(60)
  <2>5. grew' \in BOOLEAN
    <3>1. (Len(src.bytes) > high.size) \in BOOLEAN
      BY Comparison, Zenon
    <3> QED BY ONLY <1>5, <2>1, <3>1, Zenon
  <2>4. renamed' \in BOOLEAN /\ quiet' \in BOOLEAN /\ rewritten' \in BOOLEAN
    BY ONLY <1>6, <1>7, <1>8, <2>1, ZenonT(60)
  <2> QED BY ONLY <2>2, <2>3, <2>4, <2>5, Zenon DEF Flags

LEMMA CountersStep == Counters /\ [Next]_vars => Counters'
<1> SUFFICES ASSUME Counters, [Next]_vars PROVE Counters'
  OBVIOUS
<1> USE DEF Next, Line, Begin, BindSource, BindDestination, CreateStage, Clone, Copy, Staged, Trim,
      Sync, Enter, Compare, CompareRest, After, Decide, Retain, Retire, Retired, Publish, Rename,
      Tidy, Orient, CleanUp, Close, Fail, FailsAt, Stop, Grow, Rewrite, Archive, Intrude, Written,
      Fault, vars
<1>1. run' = run \/ (run < MaxRuns /\ run' = run + 1)
  BY ZenonT(60) DEF Terminal
<1>2. faults' = faults \/ (faults < MaxFaults /\ faults' = faults + 1)
  BY ZenonT(60) DEF Terminal
<1>3. intrusions' = intrusions \/ (intrusions < MaxIntrusions /\ intrusions' = intrusions + 1)
  BY ZenonT(60) DEF Terminal
<1>4. churns' = churns \/ (churns < MaxChurns /\ churns' = churns + 1)
  BY ZenonT(60) DEF Terminal
<1>5. attempt' = attempt \/ attempt' = 1 \/ (attempt # MaxAttempts /\ attempt' = attempt + 1)
  <2>1. CASE Terminal
    <3> DEFINE again == grew \/ after.size > before.size \/ MarkOf(src).size > after.size
    <3>1. \/ Leave
          \/ ~(again /\ attempt = MaxAttempts) /\ again /\ attempt' = attempt + 1
      <4> HIDE DEF again
      <4> QED BY <2>1, Zenon DEF Terminal, again
    <3> QED BY ONLY <3>1 DEF Leave
  <2>2. CASE ~Terminal
    BY <2>2, ZenonT(60) DEF Call, Leave
  <2> QED BY <2>1, <2>2
<1> QED
  BY ONLY <1>1, <1>2, <1>3, <1>4, <1>5, Counters, Bounds DEF Counters

LEMMA LabelsStep == Labels /\ [Next]_vars => Labels'
<1> SUFFICES ASSUME Labels, [Next]_vars PROVE Labels'
  OBVIOUS
<1> USE DEF Next, Line, Begin, BindSource, BindDestination, CreateStage, Clone, Copy, Staged, Trim,
      Sync, Enter, Compare, CompareRest, After, Decide, Retain, Retire, Retired, Publish, Rename,
      Tidy, Orient, CleanUp, Close, Fail, FailsAt, Stop, Grow, Rewrite, Archive, Intrude, Written,
      Go, Raise, vars
<1>1. stage' \in {stage, "none", "made", "removed"}
  BY ZenonT(60) DEF Terminal
<1>2. method' \in {method, "null", "reflink", "copy"}
  BY ZenonT(60) DEF Terminal
<1>3. partial' \in {partial, "null", "yes", "no"}
  BY ZenonT(60) DEF Terminal
<1>4. error' \in {error, "none", "deferred", "fatal"}
  BY ZenonT(60) DEF Terminal, Call
<1>5. back' \in {back, "idle", "decide", "retire", "done", "authorized", "rename"}
  BY ZenonT(60) DEF Terminal, Call, Leave
<1>6. pc' \in Steps \cup {pc, back}
  <2>1. pc' \in {"idle", "bind source", "bind destination", "create stage", "clone", "copy",
          "staged", "trim", "sync", "decide", "retain", "retire", "retired", "done",
          "publish", "authorized", "rename", "tidy", "raised", "clean up", "close",
          "enter", "compare", "compare rest", "after", "terminal", pc, back}
    BY ZenonT(60) DEF Terminal, Call
  <2> QED BY ONLY <2>1 DEF Steps, PrefixSteps
<1> QED
  <2>1. pc' \in Steps /\ back' \in Steps
    BY ONLY <1>5, <1>6, Labels DEF Labels, Steps
  <2> QED BY ONLY <1>1, <1>2, <1>3, <1>4, <2>1, Labels DEF Labels

LEMMA CandidateMade ==
  /\ \A b \in Contents : [bytes |-> b, at |-> "staged", synced |-> FALSE] \in CandidateType
  /\ NoCandidate \in CandidateType
  /\ \A c \in CandidateType :
       /\ c.bytes \in Contents
       /\ [c EXCEPT !.synced = TRUE] \in CandidateType
       /\ [c EXCEPT !.at = "unlinked"] \in CandidateType
       /\ [c EXCEPT !.at = "published"] \in CandidateType
       /\ \A b \in Contents : [c EXCEPT !.bytes = b] \in CandidateType
<1> USE DEF CandidateType
<1>1. ASSUME NEW b \in Contents
      PROVE  [bytes |-> b, at |-> "staged", synced |-> FALSE] \in CandidateType
  BY Zenon
<1>2. NoCandidate \in CandidateType
  BY Empty, Zenon DEF NoCandidate
<1>3. ASSUME NEW c \in CandidateType
      PROVE  /\ c.bytes \in Contents
             /\ [c EXCEPT !.synced = TRUE] \in CandidateType
             /\ [c EXCEPT !.at = "unlinked"] \in CandidateType
             /\ [c EXCEPT !.at = "published"] \in CandidateType
  BY Zenon
<1>4. ASSUME NEW c \in CandidateType, NEW b \in Contents
      PROVE  [c EXCEPT !.bytes = b] \in CandidateType
  BY Zenon
<1> QED BY ONLY <1>1, <1>2, <1>3, <1>4, Zenon

\* Every byte sequence a step makes is again one of the contents.
LEMMA FilesStep == TypeOK /\ [Next]_vars => Files'
<1> SUFFICES ASSUME TypeOK, [Next]_vars PROVE Files'
  OBVIOUS
<1> USE DEF Next, Line, Begin, BindSource, BindDestination, CreateStage, Clone, Copy, Staged, Trim,
      Sync, Enter, Compare, CompareRest, After, Decide, Retain, Retire, Retired, Publish, Rename,
      Tidy, Orient, CleanUp, Close, Fail, Stop, Grow, Rewrite, Archive, Intrude, Written, vars
<1>1. \/ src' = src
      \/ /\ src.tick < MaxWrites
         /\ \/ \E b \in Contents : src' = [bytes |-> b, tick |-> src.tick + 1]
            \/ /\ Len(src.bytes) < MaxSize
               /\ \E e \in {NL, Text} : src' = [bytes |-> Append(src.bytes, e), tick |-> src.tick + 1]
  BY ZenonT(60) DEF Terminal
<1>2. fallback' = fallback \/ fallback' = NoSource \/ fallback' = src
  BY ZenonT(60) DEF Terminal
<1>3. expected' = expected \/ expected' = NoFile \/ expected' = dest
  BY ZenonT(60) DEF Terminal
<1>4. \/ dest' = dest
      \/ dest' \in {[dest EXCEPT !.bytes = b] : b \in Contents \ {dest.bytes}}
      \/ dest' = [id |-> run, bytes |-> cand.bytes]
      \/ dest' = [id |-> Intruder, bytes |-> <<>>]
  BY ZenonT(60) DEF Terminal, Renamed
<1>5. Files /\ Counters /\ Candidates
  BY Zenon, TypeParts
<1>6. src' \in Source
  <2>1. src.bytes \in Contents /\ src.tick \in 0..MaxWrites
    BY ONLY <1>5 DEF Files, Source
  <2>2. ASSUME NEW b \in Contents, src.tick < MaxWrites
        PROVE  [bytes |-> b, tick |-> src.tick + 1] \in Source
    BY ONLY <2>1, <2>2, Bounds DEF Source
  <2>3. ASSUME Len(src.bytes) < MaxSize, NEW e \in {NL, Text} PROVE Append(src.bytes, e) \in Contents
    BY <2>1, <2>3, Added
  <2> QED BY ONLY <1>1, <1>5, <2>2, <2>3 DEF Files
<1>7. fallback' \in Source
  BY ONLY <1>2, <1>5, Empty, Bounds DEF Files, Source, NoSource
<1>8. expected' \in [id : Objects, bytes : Contents]
  BY ONLY <1>3, <1>5, Empty, Bounds DEF Files, NoFile, Objects, Absent
<1>9. dest' \in [id : Objects, bytes : Contents]
  <2>1. cand.bytes \in Contents
    BY ONLY <1>5, CandidateMade, Zenon DEF Candidates
  <2> QED BY ONLY <1>4, <1>5, <2>1, Empty, Bounds DEF Files, Counters, Objects, Intruder
<1> QED BY ONLY <1>6, <1>7, <1>8, <1>9 DEF Files

LEMMA CandidatesStep == TypeOK /\ [Next]_vars => Candidates'
<1> SUFFICES ASSUME TypeOK, [Next]_vars PROVE Candidates'
  OBVIOUS
<1>1. cand \in CandidateType /\ cand.bytes \in Contents
  BY Zenon, TypeParts, CandidateMade DEF Candidates
<1>2. src.bytes \in Contents /\ fallback.bytes \in Contents
  <2>1. Files
    BY Zenon, TypeParts
  <2> QED BY ONLY <2>1 DEF Files, Source
<1>3. CASE Clone
  <2>1. cand' = cand \/ cand' = [bytes |-> src.bytes, at |-> "staged", synced |-> FALSE]
    BY <1>3, Zenon DEF Clone, Candidate
  <2> QED BY ONLY <1>1, <1>2, <2>1, CandidateMade, Zenon DEF Candidates
<1>4. CASE Copy
  <2>1. \/ cand' = cand
        \/ \E k \in 0..Len(fallback.bytes) :
             cand' = [bytes |-> SubSeq(fallback.bytes, 1, k) \o SubSeq(src.bytes, k + 1, Len(src.bytes)),
                      at |-> "staged", synced |-> FALSE]
    BY <1>4, Zenon DEF Copy, Candidate
  <2>2. \A k \in 0..Len(fallback.bytes) :
          SubSeq(fallback.bytes, 1, k) \o SubSeq(src.bytes, k + 1, Len(src.bytes)) \in Contents
    BY <1>2, Mixed
  <2> QED BY ONLY <1>1, <2>1, <2>2, CandidateMade, Zenon DEF Candidates
<1>5. CASE Trim
  <2>1. \/ cand' = cand
        \/ cand' = [cand EXCEPT !.bytes = SubSeq(cand.bytes, 1, LastCompleteLine(cand.bytes))]
    BY <1>5 DEF Trim
  <2>2. SubSeq(cand.bytes, 1, LastCompleteLine(cand.bytes)) \in Contents
    BY <1>1, LastLine, Cut
  <2> QED BY ONLY <1>1, <2>1, <2>2, CandidateMade, Zenon DEF Candidates
<1>6. CASE ~Clone /\ ~Copy /\ ~Trim
  <2>1. \/ cand' = cand \/ cand' = NoCandidate \/ cand' = [cand EXCEPT !.synced = TRUE]
        \/ cand' = [cand EXCEPT !.at = "unlinked"] \/ cand' = [cand EXCEPT !.at = "published"]
    BY <1>6, ZenonT(60) DEF Next, Line, Begin, BindSource, BindDestination, CreateStage, Staged, Sync,
      Enter, Compare, CompareRest, After, Terminal, Decide, Retain, Retire, Retired, Publish, Rename,
      Renamed, Tidy, Orient, CleanUp, Close, Fail, Stop, Grow, Rewrite, Archive, Intrude, Written, vars
  <2> QED BY ONLY <1>1, <2>1, CandidateMade, Zenon DEF Candidates
<1> QED BY <1>3, <1>4, <1>5, <1>6

LEMMA MarksStep == TypeOK /\ [Next]_vars => Marks'
<1> SUFFICES ASSUME TypeOK, [Next]_vars PROVE Marks'
  OBVIOUS
<1> USE DEF Next, Line, Begin, BindSource, BindDestination, CreateStage, Clone, Copy, Staged, Trim,
      Sync, Enter, Compare, CompareRest, After, Decide, Retain, Retire, Retired, Publish, Rename,
      Tidy, Orient, CleanUp, Close, Fail, Stop, Grow, Rewrite, Archive, Intrude, Written, vars
<1>1. high' = high \/ high' = NoMark \/ high' = MarkOf(src)
  BY ZenonT(60) DEF Terminal
<1>2. before' = before \/ before' = NoMark \/ before' = MarkOf(src)
  BY ZenonT(60) DEF Terminal, Leave
<1>3. after' = after \/ after' = NoMark \/ after' = MarkOf(src)
  BY ZenonT(60) DEF Terminal, Leave
<1>4. publishSize' = publishSize \/ publishSize' = Null \/ publishSize' = LastCompleteLine(cand.bytes)
  BY ZenonT(60) DEF Terminal
<1>5. Files /\ Candidates /\ Marks
  BY Zenon, TypeParts
<1>6. src.bytes \in Contents /\ src.tick \in 0..MaxWrites /\ cand.bytes \in Contents
  BY ONLY <1>5, CandidateMade DEF Files, Source, Candidates
<1>7. MarkOf(src) \in Mark
  BY ONLY <1>6, ContentsLength, Bounds DEF MarkOf, Mark, Sizes
<1>8. NoMark \in Mark
  BY ONLY Bounds DEF NoMark, Null, Mark, Sizes
<1>9. LastCompleteLine(cand.bytes) \in Sizes /\ Null \in Sizes
  <2>1. LastCompleteLine(cand.bytes) \in 0..Len(cand.bytes) /\ Len(cand.bytes) \in 0..MaxSize
    BY <1>6, LastLine, ContentsLength
  <2> QED BY ONLY <2>1, Bounds DEF Sizes, Null
<1> QED
  BY ONLY <1>1, <1>2, <1>3, <1>4, <1>5, <1>7, <1>8, <1>9 DEF Marks

LEMMA TypeStep == TypeOK /\ [Next]_vars => TypeOK'
<1> SUFFICES ASSUME TypeOK, [Next]_vars PROVE TypeOK'
  OBVIOUS
<1>1. Flags' /\ Counters' /\ Labels'
  BY Zenon, TypeParts, FlagsStep, CountersStep, LabelsStep
<1>2. Files' /\ Candidates' /\ Marks'
  BY Zenon, FilesStep, CandidatesStep, MarksStep
<1> QED BY Zenon, <1>1, <1>2 DEF TypeOK, Flags, Counters, Labels, Files, Candidates,
  CandidateType, Marks
--------------------------------------------------------------------------------
(* The invariant is built in layers, each of which keeps itself given the   *)
(* layers before it.                                                        *)
Failed == {"raised", "clean up", "close"}
Publishing == {"decide", "publish", "authorized", "rename"}
Keeping == {"retain", "retire", "retired", "done"}
Looking == {"compare", "compare rest", "after", "terminal"}
BeforeTrim == {"bind source", "bind destination", "create stage", "clone", "copy", "staged", "trim"}
PastTrim == {"sync", "decide", "retain", "retire", "retired", "publish", "authorized", "rename",
             "tidy", "done"} \cup PrefixSteps

\* The helper is at one of these steps, or compares the source on behalf of one.
Holds(steps) == pc \in steps \/ (pc \in PrefixSteps /\ back \in steps)

\* Which exception is under way where, and how far the private stage has come.
Control ==
  /\ pc \in Failed => error # "none"
  /\ pc \notin Failed \cup {"idle"} => error = "none"
  /\ pc \in PrefixSteps => back \in {"decide", "retire", "done", "authorized", "rename"}
  /\ pc \in {"clone", "copy"} => stage = "made"
  /\ cand.at = "staged" => stage = "made"
  /\ Holds({"retired", "done"}) => stage = "removed"

\* Nobody but this run's rename gives the destination's name to this run's object.
Owner ==
  /\ pc # "idle" => run # 0 /\ receipt = NoReceipt
  /\ dest.id \in 0..run \cup {Intruder}
  /\ run # 0 /\ dest.id = run => renamed
  /\ run # 0 => expected.id # run

\* What the helper knows of its own rename.
Oriented ==
  /\ published => renamed
  /\ renamed => attempted /\ cand.at = "published"
  /\ renamed => pc \in Failed \cup {"tidy", "done", "idle"}
  /\ pc = "tidy" => published
  /\ pc = "done" /\ renamed => published
  /\ Holds({"authorized", "rename"}) => attempted

\* How the sizes and names of a receipt hang together.
Kept == Holds(Keeping) /\ ~published
Sized ==
  /\ pc \in BeforeTrim => publishSize = Null /\ partial = "null"
  /\ pc \in {"staged", "trim"} => method # "null"
  /\ pc = "trim" => high.size # Null /\ Len(cand.bytes) <= high.size
  /\ publishSize # Null => /\ high.size # Null /\ publishSize <= high.size /\ method # "null"
                           /\ publishSize = 0 => partial = "null"
                           /\ publishSize # 0 => partial # "null"
                           /\ partial = "yes" => publishSize < high.size
  /\ pc \in PastTrim => publishSize # Null
  /\ Holds(Publishing \cup {"sync"}) => publishSize # 0 /\ Len(cand.bytes) = publishSize
  /\ renamed => publishSize \notin {0, Null}
  /\ Kept => publishSize = 0 \/ (expected.id # Absent /\ Len(expected.bytes) = publishSize)

\* What is on its way to the destination's name ends with a line feed and is durable.
Lines(bytes) == bytes # <<>> /\ bytes[Len(bytes)] = NL
Whole ==
  /\ Holds(Publishing \cup {"sync"}) => Lines(cand.bytes)
  /\ Holds(Publishing) => cand.synced

\* The blocks compared so far agree, as long as the source's generation has not changed.
Compared ==
  pc \in Looking =>
    /\ before.tick <= src.tick
    /\ pc = "compare rest" /\ before.tick = src.tick => Agree(DOMAIN cand.bytes \cap {1})
    /\ pc \in {"after", "terminal"} /\ before.tick = src.tick => Agree(DOMAIN cand.bytes)
    /\ pc = "terminal" => high = after /\ Grown(after, before)

\* An undisturbed mirror is a prefix of what replaces it, and that one of the source.
Making == {"staged", "trim"} \cup (PastTrim \ {"tidy", "done"})
Calm == ~rewritten /\ intrusions = 0 /\ churns = 0
Lengthening ==
  Calm => /\ IsPrefix(dest.bytes, src.bytes) /\ (dest.bytes = <<>> \/ Lines(dest.bytes))
          /\ pc \in Making => IsPrefix(dest.bytes, cand.bytes) /\ IsPrefix(cand.bytes, src.bytes)

\* What a receipt says, and what each of its outcomes takes.
Mutated(outcome) == IF outcome = "fatal"
                    THEN IF published THEN "yes" ELSE IF attempted THEN "unknown" ELSE "no"
                    ELSE IF outcome = "updated" THEN "yes" ELSE "no"

Told ==
  /\ run # 0
  /\ receipt.mutated = Mutated(receipt.outcome)
  /\ receipt.oldSize = OldSize /\ receipt.oldId = expected.id
  /\ receipt.mutated = "yes" => receipt.newSize = publishSize /\ receipt.newId = run
  /\ receipt.mutated = "no" => receipt.newSize = OldSize /\ receipt.newId = expected.id
  /\ receipt.mutated = "unknown" => receipt.newSize = Null /\ receipt.newId = Absent
  /\ receipt.publishSize = publishSize /\ receipt.sourceSize = high.size
  /\ receipt.method = method /\ receipt.partial = partial

Concluded ==
  \/ receipt.outcome = "fatal"
  \/ receipt.outcome = "deferred" /\ ~attempted /\ stage # "made"
  \/ receipt.outcome = "updated" /\ published /\ stage # "made"
  \/ receipt.outcome = "no-complete-line" /\ ~renamed /\ publishSize = 0 /\ stage # "made"
  \/ /\ receipt.outcome = "unchanged" /\ ~renamed /\ publishSize \notin {0, Null} /\ stage # "made"
     /\ expected.id # Absent /\ Len(expected.bytes) = publishSize

Answered == receipt # NoReceipt => pc = "idle" /\ Told /\ Concluded

\* A sync that nothing has disturbed: what it bound is still so, and what it staged is the
\* start of the source.
Trimmed ==
  /\ publishSize = LastCompleteLine(src.bytes)
  /\ cand.bytes = IF publishSize = 0 THEN src.bytes ELSE SubSeq(src.bytes, 1, publishSize)
Peaceful ==
  /\ srcHere /\ pc \notin Failed
  /\ pc # "bind source" => high = MarkOf(src)
  /\ pc \notin {"bind source", "bind destination", "tidy", "done"} => dest = expected
  /\ method = "copy" \/ pc = "copy" => fallback = src
  /\ pc \in {"staged", "trim"} => cand.bytes = src.bytes
  /\ pc \in PastTrim => Trimmed
  /\ pc \in Looking => before = MarkOf(src) /\ ~grew
  /\ pc = "terminal" => after = MarkOf(src)
  /\ pc = "tidy" => dest.id = run /\ dest.bytes = cand.bytes /\ publishSize # 0
  /\ Holds(Keeping) => publishSize = 0 \/ dest.bytes = cand.bytes
Peace == quiet /\ pc # "idle" => Peaceful

--------------------------------------------------------------------------------
(* What the steps of each phase leave alone.                                *)
LEMMA CandidateNow == TypeOK => cand \in CandidateType
  BY Zenon, TypeParts DEF Candidates

LEMMA CandidateRead ==
  ASSUME TypeOK
  PROVE  /\ cand.bytes \in Contents /\ cand.synced \in BOOLEAN
         /\ \A b : cand' = [cand EXCEPT !.bytes = b] =>
              cand'.at = cand.at /\ cand'.bytes = b /\ cand'.synced = cand.synced
         /\ \A a : cand' = [cand EXCEPT !.at = a] =>
              cand'.at = a /\ cand'.bytes = cand.bytes /\ cand'.synced = cand.synced
         /\ cand' = [cand EXCEPT !.synced = TRUE] =>
              cand'.at = cand.at /\ cand'.bytes = cand.bytes /\ cand'.synced = TRUE
<1>1. cand \in CandidateType
  BY Zenon, CandidateNow
<1>2. ASSUME NEW b, cand' = [cand EXCEPT !.bytes = b]
      PROVE  cand'.at = cand.at /\ cand'.bytes = b /\ cand'.synced = cand.synced
  BY <1>1, <1>2, Zenon DEF CandidateType
<1>3. ASSUME NEW a, cand' = [cand EXCEPT !.at = a]
      PROVE  cand'.at = a /\ cand'.bytes = cand.bytes /\ cand'.synced = cand.synced
  BY <1>1, <1>3, Zenon DEF CandidateType
<1>4. ASSUME cand' = [cand EXCEPT !.synced = TRUE]
      PROVE  cand'.at = cand.at /\ cand'.bytes = cand.bytes /\ cand'.synced = TRUE
  BY <1>1, <1>4, Zenon DEF CandidateType
<1>5. cand.bytes \in Contents /\ cand.synced \in BOOLEAN
  BY <1>1, Zenon DEF CandidateType
<1> QED BY <1>2, <1>3, <1>4, <1>5, Zenon

Opening == BindSource \/ BindDestination \/ CreateStage \/ Clone \/ Copy \/ Staged
Inner == \/ Sync \/ Enter \/ Compare \/ CompareRest \/ After \/ Terminal \/ Decide \/ Retain
         \/ Retire \/ Retired \/ Publish
Ending == Fail \/ Orient \/ CleanUp \/ Close \/ Stop
World == Grow \/ Rewrite \/ Archive \/ Intrude

LEMMA Phases == [Next]_vars => \/ Begin \/ Opening \/ Trim \/ Inner \/ Rename \/ Tidy
                               \/ Ending \/ World \/ UNCHANGED vars
  BY Zenon DEF Next, Line, Opening, Inner, Ending, World

LEMMA OpeningFrame ==
  Opening => /\ pc \in BeforeTrim \ {"trim"} /\ pc' \in (BeforeTrim \ {"bind source"}) \cup {"raised"}
             /\ src' = src /\ run' = run /\ srcHere' = srcHere
             /\ publishSize' = publishSize /\ partial' = partial
             /\ attempted' = attempted /\ published' = published /\ renamed' = renamed
             /\ rewritten' = rewritten /\ intrusions' = intrusions /\ receipt' = receipt
             /\ before' = before /\ after' = after /\ grew' = grew
<1> USE DEF BeforeTrim, Opening, BindSource, BindDestination, CreateStage, Clone, Copy, Staged, Fault
<1>1. Opening => pc \in BeforeTrim \ {"trim"} /\ pc' \in (BeforeTrim \ {"bind source"}) \cup {"raised"}
  BY ZenonT(60) DEF Go, Raise
<1>2. Opening => /\ src' = src /\ run' = run /\ srcHere' = srcHere
                 /\ publishSize' = publishSize /\ partial' = partial
                 /\ attempted' = attempted /\ published' = published /\ renamed' = renamed
                 /\ rewritten' = rewritten /\ intrusions' = intrusions /\ receipt' = receipt
                 /\ before' = before /\ after' = after /\ grew' = grew
  BY ZenonT(60)
<1> QED BY ONLY <1>1, <1>2, Zenon

LEMMA InnerFrame ==
  TypeOK /\ Inner =>
    /\ src' = src /\ srcHere' = srcHere /\ dest' = dest /\ run' = run
    /\ expected' = expected /\ bound' = bound /\ method' = method /\ fallback' = fallback
    /\ publishSize' = publishSize /\ partial' = partial /\ published' = published
    /\ receipt' = receipt /\ cand'.bytes = cand.bytes /\ cand'.synced = (Sync \/ cand.synced)
    /\ UNCHANGED history
<1> SUFFICES ASSUME TypeOK, Inner
             PROVE  /\ src' = src /\ srcHere' = srcHere /\ dest' = dest /\ run' = run
                    /\ expected' = expected /\ bound' = bound /\ method' = method /\ fallback' = fallback
                    /\ publishSize' = publishSize /\ partial' = partial /\ published' = published
                    /\ receipt' = receipt /\ cand'.bytes = cand.bytes
                    /\ cand'.synced = (Sync \/ cand.synced)
                    /\ UNCHANGED history
  OBVIOUS
<1> USE DEF Inner, Sync, Enter, Compare, CompareRest, After, Terminal, Decide, Retain, Retire,
      Retired, Publish
<1>1. /\ src' = src /\ srcHere' = srcHere /\ dest' = dest /\ run' = run
      /\ expected' = expected /\ bound' = bound /\ method' = method /\ fallback' = fallback
      /\ publishSize' = publishSize /\ partial' = partial /\ published' = published
      /\ receipt' = receipt /\ UNCHANGED history
  BY ZenonT(60)
<1>2. /\ Sync => cand' = [cand EXCEPT !.synced = TRUE]
      /\ ~Sync => cand' = cand \/ cand' = [cand EXCEPT !.at = "unlinked"]
  BY ZenonT(60)
<1>3. cand'.bytes = cand.bytes /\ cand'.synced = (Sync \/ cand.synced)
  <2> HIDE DEF Sync, Inner
  <2> QED BY ONLY <1>2, TypeOK, CandidateRead, Zenon
<1> QED BY ONLY <1>1, <1>3, Zenon

LEMMA InnerFlow ==
  Control /\ Inner =>
    /\ pc \in PastTrim \ {"tidy", "done"} /\ pc' \in (PastTrim \ {"sync", "tidy"}) \cup {"raised"}
    /\ Holds(Publishing \cup {"sync"})' => Holds(Publishing \cup {"sync"})
    /\ Holds(Publishing)' => Holds(Publishing) \/ Sync
    /\ Holds(Keeping)' =>
         \/ Holds(Keeping)
         \/ Holds(Publishing) /\ Decide /\ expected.id # Absent /\ expected.bytes = cand.bytes
  BY DEF Inner, Sync, Enter, Compare, CompareRest, After, Terminal, Decide, Retain, Retire,
      Retired, Publish, Control, PastTrim, PrefixSteps, Holds, Publishing, Keeping, Go,
      Raise, Call, Leave

LEMMA EndingFrame ==
  TypeOK /\ Ending =>
    /\ src' = src /\ srcHere' = srcHere /\ dest' = dest /\ run' = run /\ high' = high
    /\ expected' = expected /\ bound' = bound /\ method' = method /\ fallback' = fallback
    /\ publishSize' = publishSize /\ partial' = partial
    /\ cand'.bytes = cand.bytes /\ cand'.synced = cand.synced /\ pc # "idle"
    /\ renamed' = renamed /\ rewritten' = rewritten /\ intrusions' = intrusions /\ churns' = churns
    /\ pc' \in Failed \cup {"idle"}
<1> SUFFICES ASSUME TypeOK, Ending
             PROVE  /\ src' = src /\ srcHere' = srcHere /\ dest' = dest /\ run' = run /\ high' = high
                    /\ expected' = expected /\ bound' = bound /\ method' = method /\ fallback' = fallback
                    /\ publishSize' = publishSize /\ partial' = partial
                    /\ cand'.bytes = cand.bytes /\ cand'.synced = cand.synced /\ pc # "idle"
                    /\ renamed' = renamed /\ rewritten' = rewritten /\ intrusions' = intrusions
                    /\ churns' = churns /\ pc' \in Failed \cup {"idle"}
  OBVIOUS
<1> USE DEF Ending, Fail, FailsAt, Orient, CleanUp, Close, Stop, Fault
<1>1. /\ src' = src /\ srcHere' = srcHere /\ dest' = dest /\ run' = run /\ high' = high
      /\ expected' = expected /\ bound' = bound /\ method' = method /\ fallback' = fallback
      /\ publishSize' = publishSize /\ partial' = partial /\ pc # "idle"
      /\ renamed' = renamed /\ rewritten' = rewritten /\ intrusions' = intrusions /\ churns' = churns
  BY ZenonT(60)
<1>2. pc' \in Failed \cup {"idle"}
  BY ZenonT(60) DEF Failed, Go, Raise
<1>3. cand' = cand \/ cand' = [cand EXCEPT !.at = "unlinked"]
  BY ZenonT(60)
<1>4. cand'.bytes = cand.bytes /\ cand'.synced = cand.synced
  BY ONLY <1>3, TypeOK, CandidateRead, Zenon
<1> QED BY ONLY <1>1, <1>2, <1>4, Zenon

LEMMA WorldFrame ==
  World \/ UNCHANGED vars =>
    /\ pc' = pc /\ back' = back /\ cand' = cand /\ stage' = stage /\ run' = run /\ high' = high
    /\ expected' = expected /\ bound' = bound /\ method' = method /\ fallback' = fallback
    /\ publishSize' = publishSize /\ partial' = partial
    /\ attempted' = attempted /\ published' = published
    /\ before' = before /\ after' = after /\ grew' = grew
    /\ error' = error /\ receipt' = receipt /\ renamed' = renamed
    /\ \/ quiet' = FALSE
       \/ quiet' = quiet /\ src' = src /\ srcHere' = srcHere /\ dest' = dest
  BY ZenonT(60) DEF World, Grow, Rewrite, Archive, Intrude, Written, vars
--------------------------------------------------------------------------------

LEMMA ControlStep == TypeOK /\ Control /\ Oriented /\ [Next]_vars => Control'
<1> SUFFICES ASSUME TypeOK, Control, Oriented, [Next]_vars PROVE Control'
  OBVIOUS
<1> USE DEF Control, Holds, Failed, PrefixSteps, Go, Raise, Call
<1>1. CASE Begin
  BY <1>1 DEF Begin, NoCandidate
<1>2. CASE BindSource
  BY <1>2 DEF BindSource
<1>3. CASE BindDestination
  BY <1>3 DEF BindDestination
<1>4. CASE CreateStage
  BY <1>4 DEF CreateStage
<1>5. CASE Clone
  BY <1>5 DEF Clone, Candidate
<1>6. CASE Copy
  BY <1>6 DEF Copy, Candidate
<1>7. CASE Staged
  BY <1>7 DEF Staged
<1>8. CASE Trim
  <2>1. cand'.at = cand.at
    <3>1. cand' = cand \/ \E b : cand' = [cand EXCEPT !.bytes = b]
      BY <1>8, Zenon DEF Trim
    <3> QED BY <3>1, CandidateRead, Zenon
  <2>2. /\ stage' = stage /\ back' = back /\ error' = error
        /\ pc = "trim" /\ pc' \in {"retain", "sync"}
    BY <1>8 DEF Trim
  <2> QED BY ONLY <2>1, <2>2, Control DEF Control, Holds, Failed, PrefixSteps
<1>9. CASE Sync
  BY <1>9 DEF Sync
<1>10. CASE Enter
  BY <1>10 DEF Enter
<1>11. CASE Compare
  BY <1>11 DEF Compare
<1>12. CASE CompareRest
  BY <1>12 DEF CompareRest
<1>13. CASE After
  BY <1>13 DEF After
<1>14. CASE Terminal
  BY <1>14 DEF Terminal, Leave
<1>15. CASE Decide
  BY <1>15 DEF Decide
<1>16. CASE Retain
  BY <1>16 DEF Retain
<1>17. CASE Retire
  BY <1>17 DEF Retire
<1>18. CASE Retired
  BY <1>18 DEF Retired
<1>19. CASE Publish
  BY <1>19 DEF Publish
<1>20. CASE Rename
  <2>1. cand' = cand \/ cand'.at = "published"
    BY <1>20, CandidateRead, Zenon DEF Rename, Renamed
  <2>2. /\ stage' = stage /\ back' = back /\ pc = "rename"
        /\ (pc' = "raised" /\ error' = "fatal") \/ (pc' = "tidy" /\ error' = error)
    BY <1>20, Zenon DEF Rename
  <2> QED BY ONLY <2>1, <2>2, Control DEF Control, Holds, Failed, PrefixSteps
<1>21. CASE Tidy
  BY <1>21 DEF Tidy, Oriented
<1>22. CASE Orient
  BY <1>22 DEF Orient
<1>23. CASE CleanUp
  <2>1. (cand' = cand /\ stage' = stage) \/ cand'.at # "staged"
    <3>1. cand' = cand \/ cand' = [cand EXCEPT !.at = "unlinked"]
      BY <1>23, Zenon DEF CleanUp
    <3>2. cand' = [cand EXCEPT !.at = "unlinked"] => cand'.at = "unlinked"
      BY CandidateRead, Zenon
    <3>3. cand' # cand \/ stage' = stage \/ cand.at # "staged"
      BY <1>23, <3>2, Zenon DEF CleanUp
    <3> QED BY <3>1, <3>2, <3>3
  <2>2. back' = back /\ error' = error /\ pc = "clean up" /\ pc' = "close"
    BY <1>23, Zenon DEF CleanUp
  <2> QED BY ONLY <2>1, <2>2, Control DEF Control, Holds, Failed, PrefixSteps
<1>24. CASE Close
  BY <1>24 DEF Close
<1>25. CASE Fail
  BY <1>25 DEF Fail, FailsAt, Fault
<1>26. CASE Stop
  BY <1>26 DEF Stop, Fault
<1>27. CASE Grow
  BY <1>27 DEF Grow, Written
<1>28. CASE Rewrite
  BY <1>28 DEF Rewrite, Written
<1>29. CASE Archive
  BY <1>29 DEF Archive
<1>30. CASE Intrude
  BY <1>30 DEF Intrude
<1>31. CASE UNCHANGED vars
  BY <1>31 DEF vars
<1> QED
  BY <1>1, <1>2, <1>3, <1>4, <1>5, <1>6, <1>7, <1>8, <1>9, <1>10, <1>11, <1>12, <1>13, <1>14, <1>15,
    <1>16, <1>17, <1>18, <1>19, <1>20, <1>21, <1>22, <1>23, <1>24, <1>25, <1>26, <1>27, <1>28,
    <1>29, <1>30, <1>31, Zenon
    DEF Next, Line

LEMMA OwnerStep == TypeOK /\ Control /\ Oriented /\ Owner /\ [Next]_vars => Owner'
<1> SUFFICES ASSUME TypeOK, Control, Oriented, Owner, [Next]_vars PROVE Owner'
  OBVIOUS
<1>0. run \in 0..MaxRuns /\ MaxRuns \in Nat
  BY Zenon, TypeParts, Bounds DEF Counters
<1>1. CASE Begin
  <2>1. /\ run < MaxRuns /\ run' = run + 1 /\ dest' = dest /\ expected' = NoFile
        /\ receipt' = NoReceipt
    BY <1>1, Zenon DEF Begin
  <2>2. dest.id # run + 1 /\ dest.id \in 0..(run + 1) \cup {Intruder}
    BY ONLY <1>0, <2>1, Owner DEF Owner, Intruder
  <2> QED BY ONLY <1>0, <2>1, <2>2 DEF Owner, NoFile, Absent
<1>2. CASE BindDestination
  <2>1. /\ pc = "bind destination" /\ expected' = dest /\ run' = run /\ receipt' = receipt
        /\ renamed' = renamed /\ dest'.id = dest.id
    <3>1. \A b : [dest EXCEPT !.bytes = b].id = dest.id
      <4>1. dest \in [id : Objects, bytes : Contents]
        BY Zenon, TypeParts DEF Files
      <4> QED BY <4>1, Zenon
    <3> QED BY <1>2, <3>1, Zenon DEF BindDestination
  <2>2. ~renamed
    BY ONLY <2>1, Oriented, Zenon DEF Oriented, Failed
  <2> QED BY ONLY <2>1, <2>2, Owner, Zenon DEF Owner
<1>3. CASE Rename
  <2>1. /\ pc = "rename" /\ run' = run /\ expected' = expected /\ receipt' = receipt
        /\ \/ dest' = dest /\ renamed' = renamed
           \/ dest' = [id |-> run, bytes |-> cand.bytes] /\ renamed' = TRUE
    BY <1>3, Zenon DEF Rename, Renamed, Fault
  <2>2. run # 0 /\ receipt = NoReceipt
    BY ONLY <2>1, Owner, Zenon DEF Owner
  <2>3. CASE dest' = dest /\ renamed' = renamed
    BY ONLY <2>1, <2>2, <2>3, Owner, Zenon DEF Owner
  <2>4. CASE dest' = [id |-> run, bytes |-> cand.bytes] /\ renamed' = TRUE
    <3>1. dest'.id = run /\ run \in 0..run
      BY ONLY <2>4, <1>0
    <3> QED BY ONLY <2>1, <2>2, <2>4, <3>1, Owner, Zenon DEF Owner
  <2> QED BY <2>1, <2>3, <2>4
<1>4. CASE Close
  <2>1. /\ dest' = dest /\ run' = run /\ expected' = expected /\ renamed' = renamed /\ pc' = "idle"
    BY <1>4, Zenon DEF Close, Fault
  <2> QED BY ONLY <2>1, Owner, Zenon DEF Owner
<1>5. CASE Intrude
  <2>1. /\ dest' = [id |-> Intruder, bytes |-> <<>>] /\ run' = run /\ expected' = expected
        /\ pc' = pc /\ receipt' = receipt
    BY <1>5, Zenon DEF Intrude
  <2>2. Intruder # run
    BY ONLY <1>0 DEF Intruder
  <2>3. dest'.id = Intruder
    BY <2>1
  <2> QED BY ONLY <2>1, <2>2, <2>3, Owner, Zenon DEF Owner
<1>6. CASE ~Begin /\ ~BindDestination /\ ~Rename /\ ~Close /\ ~Intrude
  <2>1. /\ dest' = dest /\ run' = run /\ expected' = expected /\ renamed' = renamed
        /\ receipt' = receipt /\ (pc = "idle" => pc' = "idle")
    BY <1>6, ZenonT(60) DEF Next, Line, BindSource, CreateStage, Clone, Copy, Staged, Trim,
      Sync, Enter, Compare, CompareRest, After, Terminal, Decide, Retain, Retire, Retired, Publish,
      Tidy, Orient, CleanUp, Fail, FailsAt, Stop, Grow, Rewrite, Archive, Written, Fault, vars
  <2> QED BY ONLY <2>1, Owner, Zenon DEF Owner
<1> QED BY <1>1, <1>2, <1>3, <1>4, <1>5, <1>6

LEMMA OrientedStep == TypeOK /\ Control /\ Owner /\ Oriented /\ [Next]_vars => Oriented'
<1> SUFFICES ASSUME TypeOK, Control, Owner, Oriented, [Next]_vars PROVE Oriented'
  OBVIOUS
<1> DEFINE Later == Failed \cup {"tidy", "done", "idle"}
<1>1. CASE Begin
  <2>1. published' = FALSE /\ renamed' = FALSE /\ pc' = "bind source"
    BY <1>1, Zenon DEF Begin
  <2> QED BY ONLY <2>1, Zenon DEF Oriented, Holds, PrefixSteps, Failed
\* Up to the rename nothing has been renamed.
<1>2. CASE \/ BindSource \/ BindDestination \/ CreateStage \/ Clone \/ Copy \/ Staged \/ Trim
           \/ Sync \/ Enter \/ Compare \/ CompareRest \/ After \/ Terminal \/ Decide \/ Retain
           \/ Retire \/ Retired \/ Publish
  <2>1. /\ renamed' = renamed /\ published' = published
        /\ pc # "idle" /\ pc \notin Failed \cup {"tidy", "done"}
        /\ attempted' = attempted \/ (attempted' = TRUE /\ Publish)
    BY <1>2, ZenonT(60) DEF BindSource, BindDestination, CreateStage, Clone, Copy, Staged, Trim,
      Sync, Enter, Compare, CompareRest, After, Terminal, Decide, Retain, Retire, Retired, Publish,
      Fault, Failed
  <2>2. ~renamed /\ ~published
    BY ONLY <2>1, Oriented, Zenon DEF Oriented
  <2>3. pc' # "tidy"
    <3>1. pc' # "tidy" \/ (pc' = back /\ pc \in PrefixSteps)
      BY <1>2, ZenonT(60) DEF BindSource, BindDestination, CreateStage, Clone, Copy, Staged, Trim,
        Sync, Enter, Compare, CompareRest, After, Terminal, Decide, Retain, Retire, Retired, Publish,
        Go, Raise, Call, PrefixSteps
    <3> QED BY ONLY <3>1, Control DEF Control
  <2>4. Holds({"authorized", "rename"})' => attempted'
    <3>1. CASE Publish
      BY <3>1, Zenon DEF Publish
    <3>2. CASE ~Publish
      <4>1. Holds({"authorized", "rename"})' => Holds({"authorized", "rename"})
        BY <1>2, <3>2 DEF BindSource, BindDestination, CreateStage, Clone, Copy, Staged, Trim,
          Sync, Enter, Compare, CompareRest, After, Terminal, Decide, Retain, Retire, Retired, Leave,
          Go, Raise, Call, PrefixSteps, Holds
      <4> QED BY ONLY <2>1, <3>2, <4>1, Oriented, Zenon DEF Oriented
    <3> QED BY <3>1, <3>2
  <2> QED BY ONLY <2>1, <2>2, <2>3, <2>4, Zenon DEF Oriented
<1>3. CASE Rename
  <2>1. /\ pc = "rename" /\ attempted' = attempted /\ back' = back
        /\ \/ pc' = "raised" /\ cand' = cand /\ published' = published /\ renamed' = renamed
           \/ cand'.at = "published" /\ renamed' = TRUE /\ pc' = "tidy" /\ published' = TRUE
           \/ cand'.at = "published" /\ renamed' = TRUE /\ pc' = "raised" /\ published' = published
    BY <1>3, CandidateRead, Zenon DEF Rename, Renamed, Fault, Raise, Go
  <2>2. attempted /\ ~renamed /\ ~published
    BY ONLY <2>1, Oriented, Zenon DEF Oriented, Holds, Failed
  <2>3. /\ pc' \in Failed \cup {"tidy", "done", "idle"} /\ pc' # "done"
        /\ ~Holds({"authorized", "rename"})'
    BY ONLY <2>1 DEF Holds, Failed, PrefixSteps
  <2>4. CASE pc' = "raised" /\ cand' = cand /\ published' = published /\ renamed' = renamed
    <3>1. ~renamed' /\ ~published' /\ pc' # "tidy"
      BY ONLY <2>2, <2>4, Zenon
    <3> QED BY ONLY <3>1, <2>3, Zenon DEF Oriented
  <2>5. CASE cand'.at = "published" /\ renamed' = TRUE
    BY ONLY <2>1, <2>2, <2>3, <2>5, Zenon DEF Oriented
  <2> QED BY <2>1, <2>4, <2>5, Zenon
<1>4. CASE Orient
  <2>1. /\ pc = "raised" /\ pc' = "clean up" /\ renamed' = renamed /\ cand' = cand
        /\ \/ attempted' = attempted /\ published' = published
           \/ cand.at = "staged" /\ published' = published
           \/ published' = (dest.id = run) /\ attempted' = attempted
    BY <1>4, Zenon DEF Orient, Fault, Go
  <2>2. dest.id = run => renamed
    BY ONLY <2>1, Owner, Zenon DEF Owner
  <2>3. cand.at = "staged" => ~renamed
    BY ONLY Oriented, Zenon DEF Oriented
  <2>4. /\ pc' \in Failed \cup {"tidy", "done", "idle"} /\ pc' # "done" /\ pc' # "tidy"
        /\ ~Holds({"authorized", "rename"})'
    BY ONLY <2>1 DEF Holds, Failed, PrefixSteps
  <2>5. CASE attempted' = attempted /\ published' = published
    BY ONLY <2>1, <2>4, <2>5, Oriented, Zenon DEF Oriented
  <2>6. CASE cand.at = "staged" /\ published' = published
    BY ONLY <2>1, <2>3, <2>4, <2>6, Oriented, Zenon DEF Oriented
  <2>7. CASE published' = (dest.id = run) /\ attempted' = attempted
    BY ONLY <2>1, <2>2, <2>4, <2>7, Oriented, Zenon DEF Oriented
  <2> QED BY <2>1, <2>5, <2>6, <2>7, Zenon
<1>5. CASE Tidy \/ CleanUp \/ Close \/ Fail \/ Stop
  <2>1. /\ renamed' = renamed /\ published' = published /\ attempted' = attempted
        /\ cand' = cand \/ (cand.at = "staged" /\ CleanUp)
    BY <1>5, ZenonT(60) DEF Tidy, CleanUp, Close, Fail, FailsAt, Stop, Fault
  <2>2. cand.at = "staged" => ~renamed
    BY ONLY Oriented, Zenon DEF Oriented
  <2>3. pc' \in Failed \cup {"done", "idle"}
    BY <1>5, ZenonT(60) DEF Tidy, CleanUp, Close, Fail, FailsAt, Stop, Go, Raise, Failed
  <2>4. pc' = "done" => pc = "tidy"
    BY <1>5, ZenonT(60) DEF Tidy, CleanUp, Close, Fail, FailsAt, Stop, Go, Raise
  <2> QED BY ONLY <2>1, <2>2, <2>3, <2>4, Oriented, Zenon DEF Oriented, Holds, Failed, PrefixSteps
<1>6. CASE Grow \/ Rewrite \/ Archive \/ Intrude \/ UNCHANGED vars
  <2>1. /\ renamed' = renamed /\ published' = published /\ attempted' = attempted /\ cand' = cand
        /\ pc' = pc /\ back' = back
    BY <1>6, ZenonT(60) DEF Grow, Rewrite, Archive, Intrude, Written, vars
  <2> QED BY ONLY <2>1, Oriented, Zenon DEF Oriented, Holds
<1> QED BY <1>1, <1>2, <1>3, <1>4, <1>5, <1>6, Zenon DEF Next, Line

LEMMA SizeTypes ==
  TypeOK => /\ publishSize \in 0..(MaxSize + 1) /\ high.size \in 0..(MaxSize + 1)
            /\ Len(cand.bytes) \in 0..MaxSize /\ Len(src.bytes) \in 0..MaxSize
            /\ Len(expected.bytes) \in 0..MaxSize /\ MaxSize \in Nat
            /\ MarkOf(src).size = Len(src.bytes)
<1> SUFFICES ASSUME TypeOK
             PROVE  /\ publishSize \in 0..(MaxSize + 1) /\ high.size \in 0..(MaxSize + 1)
                    /\ Len(cand.bytes) \in 0..MaxSize /\ Len(src.bytes) \in 0..MaxSize
                    /\ Len(expected.bytes) \in 0..MaxSize /\ MaxSize \in Nat
                    /\ MarkOf(src).size = Len(src.bytes)
  OBVIOUS
<1>1. Files /\ Marks /\ cand.bytes \in Contents
  BY Zenon, TypeParts, CandidateRead
<1>2. src.bytes \in Contents /\ expected.bytes \in Contents
  BY ONLY <1>1 DEF Files, Source
<1>3. publishSize \in Sizes /\ high.size \in Sizes
  BY ONLY <1>1 DEF Marks, Mark
<1>4. MarkOf(src).size = Len(src.bytes)
  BY DEF MarkOf
<1> QED BY ONLY <1>1, <1>2, <1>3, <1>4, ContentsLength, Bounds DEF Sizes

LEMMA HighGrows ==
  TypeOK /\ Inner => high' = high \/ (high' = MarkOf(src) /\ Grown(MarkOf(src), high))
  BY ZenonT(60) DEF Inner, Sync, Enter, Compare, CompareRest, After, Terminal, Decide, Retain, Retire,
      Retired, Publish, Grown

LEMMA SizedStep == TypeOK /\ Control /\ Oriented /\ Sized /\ [Next]_vars => Sized'
<1> SUFFICES ASSUME TypeOK, Control, Oriented, Sized, [Next]_vars PROVE Sized'
  OBVIOUS
<1> DEFINE Bounded == publishSize # Null =>
                        /\ high.size # Null /\ publishSize <= high.size /\ method # "null"
                        /\ publishSize = 0 => partial = "null"
                        /\ publishSize # 0 => partial # "null"
                        /\ partial = "yes" => publishSize < high.size
<1>0. Sized <=> /\ pc \in BeforeTrim => publishSize = Null /\ partial = "null"
                /\ pc \in {"staged", "trim"} => method # "null"
                /\ pc = "trim" => high.size # Null /\ Len(cand.bytes) <= high.size
                /\ Bounded
                /\ pc \in PastTrim => publishSize # Null
                /\ Holds(Publishing \cup {"sync"}) => publishSize # 0 /\ Len(cand.bytes) = publishSize
                /\ renamed => publishSize \notin {0, Null}
                /\ Holds(Keeping) /\ ~published =>
                     publishSize = 0 \/ (expected.id # Absent /\ Len(expected.bytes) = publishSize)
  BY Zenon DEF Sized, Kept
<1>1. CASE Begin
  <2>1. /\ publishSize' = Null /\ partial' = "null" /\ renamed' = FALSE /\ pc' = "bind source"
    BY <1>1, Zenon DEF Begin
  <2>2. /\ pc' \in BeforeTrim /\ pc' \notin PastTrim /\ pc' \notin {"staged", "trim"} /\ pc' # "trim"
        /\ ~Holds(Publishing \cup {"sync"})' /\ ~Holds(Keeping)'
    BY ONLY <2>1 DEF BeforeTrim, PastTrim, Holds, Publishing, Keeping, PrefixSteps
  <2> QED BY <1>0, <2>1, <2>2, Zenon DEF Sized, Kept
<1>2. CASE Opening
  <2>1. /\ publishSize' = publishSize /\ partial' = partial /\ renamed' = renamed
        /\ pc \in BeforeTrim /\ pc' \in BeforeTrim \cup {"raised"}
    BY <1>2, OpeningFrame
  <2>2. /\ pc' \notin PastTrim /\ ~Holds(Publishing \cup {"sync"})' /\ ~Holds(Keeping)' /\ ~renamed
    BY ONLY <2>1, Oriented DEF BeforeTrim, PastTrim, Holds, Publishing, Keeping, PrefixSteps,
      Oriented, Failed
  <2>3. pc' \in {"staged", "trim"} => method' # "null"
    <3>1. \/ pc' \notin {"staged", "trim"}
          \/ method' \in {"reflink", "copy"}
          \/ pc = "staged" /\ method' = method
      BY <1>2, ZenonT(60) DEF Opening, BindSource, BindDestination, CreateStage, Clone, Copy, Staged,
        Go, Raise
    <3> QED BY ONLY <3>1, <1>0, Sized
  <2>4. pc' = "trim" => high'.size # Null /\ Len(cand'.bytes) <= high'.size
    <3>1. \/ pc' # "trim"
          \/ high' = MarkOf(src) /\ cand' = cand /\ Len(src.bytes) >= Len(cand.bytes)
      BY <1>2, ZenonT(60) DEF Opening, BindSource, BindDestination, CreateStage, Clone, Copy, Staged,
        Go, Raise
    <3> QED BY ONLY <3>1, SizeTypes, TypeOK DEF Null
  <2> QED BY <1>0, <2>1, <2>2, <2>3, <2>4, Zenon DEF Sized, Kept
<1>3. CASE Trim
  <2> DEFINE n == LastCompleteLine(cand.bytes)
  <2>1. /\ pc = "trim" /\ publishSize' = n /\ renamed' = renamed /\ high' = high /\ method' = method
        /\ \/ n = 0 /\ pc' = "retain" /\ partial' = partial
           \/ /\ n # 0 /\ pc' = "sync" /\ partial' = (IF n = Len(cand.bytes) THEN "no" ELSE "yes")
              /\ cand' = [cand EXCEPT !.bytes = SubSeq(cand.bytes, 1, n)]
    BY <1>3 DEF Trim, Go
  <2>2. cand.bytes \in Contents
    BY CandidateRead
  <2>3. n \in 0..Len(cand.bytes) /\ Len(SubSeq(cand.bytes, 1, n)) = n
    BY <2>2, LastLine, Cut
  <2> HIDE DEF n
  <2>4. /\ ~renamed /\ partial = "null" /\ method # "null" /\ high.size # Null
        /\ Len(cand.bytes) <= high.size
    <3>1. ~renamed
      BY ONLY <2>1, Oriented, Zenon DEF Oriented, Failed
    <3> QED BY <3>1, <1>0, <2>1 DEF BeforeTrim
  <2>5. n # Null /\ n <= high.size
    BY ONLY <2>3, <2>4, SizeTypes, TypeOK DEF Null
  <2>6. CASE n = 0
    <3>1. pc' = "retain" /\ partial' = partial
      BY <2>1, <2>6
    <3>2. /\ pc' \notin BeforeTrim /\ pc' \notin {"staged", "trim"} /\ pc' # "trim"
          /\ ~Holds(Publishing \cup {"sync"})'
      BY ONLY <3>1 DEF BeforeTrim, Holds, Publishing, Keeping, PrefixSteps
    <3>3. Bounded'
      BY ONLY <2>1, <2>4, <2>5, <2>6, <3>1
    <3> QED BY <2>1, <2>4, <2>5, <2>6, <3>2, <3>3, Zenon DEF Sized, Kept
  <2>7. CASE n # 0
    <3>1. /\ pc' = "sync" /\ partial' = (IF n = Len(cand.bytes) THEN "no" ELSE "yes")
          /\ cand' = [cand EXCEPT !.bytes = SubSeq(cand.bytes, 1, n)]
      BY <2>1, <2>7
    <3>2. Len(cand'.bytes) = n
      BY ONLY <2>3, <3>1, CandidateRead, TypeOK
    <3>3. /\ pc' \notin BeforeTrim /\ pc' \notin {"staged", "trim"} /\ pc' # "trim"
          /\ ~Holds(Keeping)'
      BY ONLY <3>1 DEF BeforeTrim, Holds, Keeping, PrefixSteps
    <3>4. Bounded'
      BY ONLY <2>1, <2>3, <2>4, <2>5, <2>7, <3>1, SizeTypes, TypeOK
    <3> QED BY <2>1, <2>4, <2>5, <2>7, <3>2, <3>3, <3>4, Zenon DEF Sized, Kept
  <2> QED BY <2>6, <2>7
<1>4. CASE Inner
  <2>1. /\ publishSize' = publishSize /\ partial' = partial /\ method' = method
        /\ expected' = expected /\ cand'.bytes = cand.bytes /\ published' = published
        /\ renamed' = renamed
    BY ONLY <1>4, TypeOK, InnerFrame, Zenon
  <2>2. /\ pc \in PastTrim /\ pc' \in (PastTrim \ {"sync", "tidy"}) \cup {"raised"}
        /\ Holds(Publishing \cup {"sync"})' => Holds(Publishing \cup {"sync"})
        /\ Holds(Keeping)' =>
             \/ Holds(Keeping)
             \/ Holds(Publishing) /\ expected.id # Absent /\ expected.bytes = cand.bytes
    BY ONLY <1>4, Control, InnerFlow, Zenon
  <2>3. pc' \notin BeforeTrim /\ pc' \notin {"staged", "trim"} /\ pc' # "trim"
    BY ONLY <2>2 DEF BeforeTrim, PastTrim, PrefixSteps
  <2>4. publishSize # Null /\ Bounded
    BY ONLY <2>2, <1>0, Sized, Zenon
  <2>5. high'.size # Null /\ high'.size \in Nat /\ high'.size >= high.size
    <3>1. high' = high \/ (high' = MarkOf(src) /\ Grown(MarkOf(src), high))
      BY <1>4, HighGrows
    <3> QED BY ONLY <3>1, <2>4, SizeTypes, TypeOK DEF Null, Grown
  <2>6. Bounded'
    BY ONLY <2>1, <2>4, <2>5, SizeTypes, TypeOK
  <2>7. Holds(Publishing) => Holds(Publishing \cup {"sync"})
    BY DEF Holds
  <2>8. Holds(Keeping)' /\ ~published' =>
          publishSize' = 0 \/ (expected'.id # Absent /\ Len(expected'.bytes) = publishSize')
    BY ONLY <1>0, Sized, <2>1, <2>2, <2>7, Zenon
  <2>9. Holds(Publishing \cup {"sync"})' => publishSize' # 0 /\ Len(cand'.bytes) = publishSize'
    BY ONLY <1>0, Sized, <2>1, <2>2, Zenon
  <2>10. renamed' => publishSize' \notin {0, Null}
    BY ONLY <1>0, Sized, <2>1, Zenon
  <2> HIDE DEF Bounded
  <2> QED BY ONLY <2>1, <2>3, <2>4, <2>6, <2>8, <2>9, <2>10, Zenon DEF Sized, Kept, Bounded
<1>5. CASE Rename
  <2>1. /\ pc = "rename" /\ pc' \in {"tidy", "raised"}
        /\ publishSize' = publishSize /\ partial' = partial /\ method' = method /\ high' = high
    BY <1>5, Zenon DEF Rename, Raise, Go
  <2>2. publishSize \notin {0, Null} /\ Bounded
    <3>1. Holds(Publishing \cup {"sync"}) /\ pc \in PastTrim
      BY ONLY <2>1 DEF Holds, Publishing, PastTrim
    <3> QED BY ONLY <3>1, <1>0, Sized, Zenon
  <2>3. /\ pc' \notin BeforeTrim /\ pc' \notin {"staged", "trim"} /\ pc' # "trim"
        /\ ~Holds(Publishing \cup {"sync"})' /\ ~Holds(Keeping)'
    BY ONLY <2>1 DEF BeforeTrim, Holds, Publishing, Keeping, PrefixSteps
  <2> QED BY <2>1, <2>2, <2>3, Zenon DEF Sized, Kept
<1>6. CASE Tidy
  <2>1. /\ pc = "tidy" /\ pc' \in {"done", "raised"} /\ published' = published /\ renamed' = renamed
        /\ publishSize' = publishSize /\ partial' = partial /\ method' = method /\ high' = high
    BY <1>6, Zenon DEF Tidy, Raise, Go
  <2>2. published
    BY ONLY <2>1, Oriented, Zenon DEF Oriented
  <2>3. /\ pc' \notin BeforeTrim /\ pc' \notin {"staged", "trim"} /\ pc' # "trim" /\ pc \in PastTrim
        /\ ~Holds(Publishing \cup {"sync"})'
    BY ONLY <2>1 DEF BeforeTrim, Holds, Publishing, Keeping, PrefixSteps, PastTrim
  <2> QED BY ONLY <1>0, Sized, <2>1, <2>2, <2>3, Zenon DEF Sized, Kept
<1>7. CASE Ending
  <2>1. /\ publishSize' = publishSize /\ partial' = partial /\ method' = method /\ high' = high
        /\ renamed' = renamed /\ pc' \in Failed \cup {"idle"}
    BY ONLY <1>7, TypeOK, EndingFrame, Zenon
  <2>2. /\ pc' \notin BeforeTrim /\ pc' \notin {"staged", "trim"} /\ pc' # "trim"
        /\ ~Holds(Publishing \cup {"sync"})' /\ ~Holds(Keeping)' /\ pc' \notin PastTrim
    BY ONLY <2>1 DEF BeforeTrim, Holds, Publishing, Keeping, PrefixSteps, PastTrim, Failed
  <2> QED BY ONLY <1>0, Sized, <2>1, <2>2, Zenon DEF Sized, Kept
<1>8. CASE World \/ UNCHANGED vars
  <2>1. /\ pc' = pc /\ back' = back /\ cand' = cand /\ high' = high /\ expected' = expected
        /\ method' = method /\ publishSize' = publishSize /\ partial' = partial
        /\ published' = published /\ renamed' = renamed
    BY ONLY <1>8, WorldFrame, Zenon
  <2> QED BY ONLY Sized, <2>1, Zenon DEF Sized, Kept, Holds
<1> QED BY ONLY [Next]_vars, Phases, <1>1, <1>2, <1>3, <1>4, <1>5, <1>6, <1>7, <1>8, Zenon

LEMMA ReceiptFields ==
  ASSUME NEW o, NEW r, r = Receipt(o)
  PROVE  /\ r.outcome = o
         /\ r.mutated = Mutated(o)
         /\ r.oldSize = OldSize /\ r.oldId = expected.id
         /\ r.mutated = "yes" => r.newSize = publishSize /\ r.newId = run
         /\ r.mutated = "no" => r.newSize = OldSize /\ r.newId = expected.id
         /\ r.mutated = "unknown" => r.newSize = Null /\ r.newId = Absent
         /\ r.publishSize = publishSize /\ r.sourceSize = high.size
         /\ r.method = method /\ r.partial = partial
<1> DEFINE m == Mutated(o)
           size == CASE m = "yes" -> publishSize [] m = "no" -> OldSize [] OTHER -> Null
           id == CASE m = "yes" -> run [] m = "no" -> expected.id [] OTHER -> Absent
<1>1. r = [outcome |-> o, mutated |-> m, oldSize |-> OldSize, oldId |-> expected.id,
           newSize |-> size, newId |-> id, publishSize |-> publishSize, sourceSize |-> high.size,
           method |-> method, partial |-> partial]
  BY Zenon DEF Receipt, Mutated
<1>2. /\ m = "yes" => size = publishSize /\ id = run
      /\ m = "no" => size = OldSize /\ id = expected.id
      /\ m = "unknown" => size = Null /\ id = Absent
  <2> HIDE DEF m
  <2> QED BY Zenon
<1> HIDE DEF size, id, m
<1>3. /\ r.outcome = o /\ r.mutated = m /\ r.oldSize = OldSize /\ r.oldId = expected.id
      /\ r.newSize = size /\ r.newId = id /\ r.publishSize = publishSize /\ r.sourceSize = high.size
      /\ r.method = method /\ r.partial = partial
  BY ONLY <1>1, Zenon
<1> QED BY ONLY <1>2, <1>3, Zenon DEF m

LEMMA OutcomeIs ==
  ASSUME NEW closed
  PROVE  \/ Outcome(closed) = "fatal"
         \/ error = "deferred" /\ ~attempted /\ stage # "made" /\ Outcome(closed) = "deferred"
         \/ error = "none" /\ published /\ Outcome(closed) = "updated"
         \/ error = "none" /\ ~published /\ publishSize = 0 /\ Outcome(closed) = "no-complete-line"
         \/ error = "none" /\ ~published /\ publishSize # 0 /\ Outcome(closed) = "unchanged"
  BY Zenon DEF Outcome, Success

LEMMA AnsweredStep ==
  TypeOK /\ Control /\ Owner /\ Oriented /\ Sized /\ Answered /\ [Next]_vars => Answered'
<1> SUFFICES ASSUME TypeOK, Control, Owner, Oriented, Sized, Answered, [Next]_vars PROVE Answered'
  OBVIOUS
<1>1. CASE Begin
  BY <1>1, Zenon DEF Begin, Answered
<1>2. CASE Close
  <2>1. /\ pc \in {"done", "close"} /\ pc' = "idle"
        /\ published' = published /\ attempted' = attempted /\ bound' = bound /\ expected' = expected
        /\ publishSize' = publishSize /\ run' = run /\ high' = high /\ method' = method
        /\ partial' = partial /\ stage' = stage /\ renamed' = renamed
    BY <1>2, Zenon DEF Close, Fault
  <2>2. PICK closed : receipt' = Receipt(Outcome(closed))
    BY <1>2, Zenon DEF Close
  <2>3. Told'
    <3>1. OldSize' = OldSize
      BY ONLY <2>1, Zenon DEF OldSize
    <3>2. Told' <=>
          /\ run # 0
          /\ receipt'.mutated = Mutated(receipt'.outcome)
          /\ receipt'.oldSize = OldSize /\ receipt'.oldId = expected.id
          /\ receipt'.mutated = "yes" => receipt'.newSize = publishSize /\ receipt'.newId = run
          /\ receipt'.mutated = "no" => receipt'.newSize = OldSize /\ receipt'.newId = expected.id
          /\ receipt'.mutated = "unknown" => receipt'.newSize = Null /\ receipt'.newId = Absent
          /\ receipt'.publishSize = publishSize /\ receipt'.sourceSize = high.size
          /\ receipt'.method = method /\ receipt'.partial = partial
      BY ONLY <2>1, <3>1, Zenon DEF Told, Mutated
    <3>3. run # 0
      BY ONLY <2>1, Owner DEF Owner
    <3>4. /\ receipt'.outcome = Outcome(closed)
          /\ receipt'.mutated = Mutated(Outcome(closed))
          /\ receipt'.oldSize = OldSize /\ receipt'.oldId = expected.id
          /\ receipt'.mutated = "yes" => receipt'.newSize = publishSize /\ receipt'.newId = run
          /\ receipt'.mutated = "no" => receipt'.newSize = OldSize /\ receipt'.newId = expected.id
          /\ receipt'.mutated = "unknown" => receipt'.newSize = Null /\ receipt'.newId = Absent
          /\ receipt'.publishSize = publishSize /\ receipt'.sourceSize = high.size
          /\ receipt'.method = method /\ receipt'.partial = partial
      BY ONLY <2>2, ReceiptFields, Zenon
    <3> QED BY ONLY <3>2, <3>3, <3>4, Zenon
  <2>4. receipt'.outcome = Outcome(closed)
    BY <2>2, ReceiptFields, Zenon
  <2>5. error = "none" => /\ pc = "done" /\ stage = "removed" /\ publishSize # Null
                          /\ ~published => /\ ~renamed
                                           /\ \/ publishSize = 0
                                              \/ expected.id # Absent /\ Len(expected.bytes) = publishSize
    <3>1. error = "none" => pc = "done"
      BY ONLY <2>1, Control DEF Control, Failed
    <3>2. pc = "done" => /\ Holds({"retired", "done"}) /\ pc \in PastTrim
                         /\ Holds(Keeping)
      BY DEF Holds, PastTrim, Keeping
    <3>3. pc = "done" /\ ~published => ~renamed
      BY ONLY Oriented, Zenon DEF Oriented
    <3>4. pc = "done" => stage = "removed"
      BY ONLY <3>2, Control, Zenon DEF Control
    <3>5. pc = "done" => /\ publishSize # Null
                         /\ ~published => \/ publishSize = 0
                                          \/ expected.id # Absent /\ Len(expected.bytes) = publishSize
      BY ONLY <3>2, Sized, Zenon DEF Sized, Kept
    <3> QED BY ONLY <3>1, <3>3, <3>4, <3>5, Zenon
  <2>6. Concluded'
    <3>1. /\ stage = "removed" => stage # "made"
          /\ publishSize # Null /\ publishSize # 0 => publishSize \notin {0, Null}
      OBVIOUS
    <3>2. \/ Outcome(closed) = "fatal"
          \/ Outcome(closed) = "deferred" /\ ~attempted /\ stage # "made"
          \/ Outcome(closed) = "updated" /\ published /\ stage # "made"
          \/ Outcome(closed) = "no-complete-line" /\ ~renamed /\ publishSize = 0 /\ stage # "made"
          \/ /\ Outcome(closed) = "unchanged" /\ ~renamed /\ publishSize \notin {0, Null}
             /\ stage # "made" /\ expected.id # Absent /\ Len(expected.bytes) = publishSize
      BY ONLY <2>5, <3>1, OutcomeIs, Zenon
    <3>3. Concluded' <=>
          \/ receipt'.outcome = "fatal"
          \/ receipt'.outcome = "deferred" /\ ~attempted /\ stage # "made"
          \/ receipt'.outcome = "updated" /\ published /\ stage # "made"
          \/ receipt'.outcome = "no-complete-line" /\ ~renamed /\ publishSize = 0 /\ stage # "made"
          \/ /\ receipt'.outcome = "unchanged" /\ ~renamed /\ publishSize \notin {0, Null}
             /\ stage # "made" /\ expected.id # Absent /\ Len(expected.bytes) = publishSize
      BY ONLY <2>1, Zenon DEF Concluded, Absent, Null
    <3> QED BY ONLY <2>4, <3>2, <3>3
  <2> QED BY <2>1, <2>3, <2>6, Zenon DEF Answered
<1>3. CASE World \/ UNCHANGED vars
  <2>1. /\ pc' = pc /\ receipt' = receipt /\ stage' = stage /\ renamed' = renamed
        /\ published' = published /\ attempted' = attempted /\ bound' = bound /\ expected' = expected
        /\ publishSize' = publishSize /\ run' = run /\ high' = high /\ method' = method
        /\ partial' = partial
    BY <1>3, WorldFrame, Zenon
  <2> QED BY ONLY <2>1, Answered, Zenon DEF Answered, Told, Mutated, Concluded, OldSize
<1>4. CASE ~Begin /\ ~Close /\ ~World /\ ~UNCHANGED vars
  <2>1. pc # "idle" /\ receipt' = receipt
    BY <1>4, ZenonT(60) DEF Next, Line, World, BindSource, BindDestination, CreateStage, Clone, Copy, Staged,
      Trim, Sync, Enter, Compare, CompareRest, After, Terminal, Decide, Retain, Retire, Retired, Publish,
      Rename, Tidy, Orient, CleanUp, Fail, FailsAt, Stop
  <2> QED BY ONLY <2>1, Owner, Zenon DEF Owner, Answered
<1> QED BY <1>1, <1>2, <1>3, <1>4

LEMMA ReceiptTrueNow == ASSUME TypeOK, Oriented, Answered PROVE ReceiptTrue
<1> SUFFICES ASSUME pc = "idle", receipt # NoReceipt
             PROVE  /\ receipt.mutated = "yes" => renamed
                    /\ receipt.mutated = "no" => ~renamed
                    /\ receipt.mutated = "unknown" => receipt.outcome = "fatal"
  BY Zenon DEF ReceiptTrue, Over
<1>1. Told /\ Concluded
  BY Zenon DEF Answered
<1>2. (published => renamed) /\ (renamed => attempted)
  BY Zenon DEF Oriented
<1>3. CASE receipt.outcome = "fatal"
  <2>1. receipt.mutated = IF published THEN "yes" ELSE IF attempted THEN "unknown" ELSE "no"
    BY <1>1, <1>3, Zenon DEF Told, Mutated
  <2> QED BY ONLY <1>2, <1>3, <2>1, Zenon
<1>4. CASE receipt.outcome # "fatal"
  <2>1. receipt.mutated = IF receipt.outcome = "updated" THEN "yes" ELSE "no"
    BY <1>1, <1>4, Zenon DEF Told, Mutated
  <2>2. IF receipt.outcome = "updated" THEN published ELSE ~renamed
    BY <1>1, <1>2, <1>4, Zenon DEF Concluded
  <2> QED BY ONLY <1>2, <1>4, <2>1, <2>2, Zenon
<1> QED BY <1>3, <1>4

LEMMA NothingLeftNow == ASSUME Control, Answered PROVE NothingLeftBehind
  BY Zenon DEF NothingLeftBehind, Over, Answered, Concluded, Control

LEMMA AcceptedNow ==
  ASSUME TypeOK, Owner, Oriented, Sized, Answered PROVE ReceiptAccepted
<1> SUFFICES ASSUME pc = "idle", receipt # NoReceipt, bound = (expected.id # Absent)
             PROVE  ReceiptValid(receipt)
  BY Zenon DEF ReceiptAccepted, Over
<1> DEFINE r == receipt
<1>1. Told /\ Concluded
  BY Zenon DEF Answered
<1>2. /\ r.mutated = IF r.outcome = "fatal"
                     THEN IF published THEN "yes" ELSE IF attempted THEN "unknown" ELSE "no"
                     ELSE IF r.outcome = "updated" THEN "yes" ELSE "no"
      /\ r.oldSize = OldSize /\ r.oldId = expected.id
      /\ r.mutated = "yes" => r.newSize = publishSize /\ r.newId = run
      /\ r.mutated = "no" => r.newSize = OldSize /\ r.newId = expected.id
      /\ r.mutated = "unknown" => r.newSize = Null /\ r.newId = Absent
      /\ r.publishSize = publishSize /\ r.sourceSize = high.size
      /\ r.method = method /\ r.partial = partial
      /\ run # 0
  BY ONLY <1>1, Zenon DEF Told, Mutated
<1>3. r.mutated = "yes" => published
  BY ONLY <1>1, <1>2, Zenon DEF Concluded
<1>4. published => publishSize \notin {0, Null}
  BY ONLY Oriented, Sized, Zenon DEF Oriented, Sized
<1>5. /\ OldSize = Null <=> expected.id = Absent
      /\ expected.id # Absent => OldSize = Len(expected.bytes)
  <2>1. Len(expected.bytes) \in 0..MaxSize /\ MaxSize \in Nat
    BY SizeTypes
  <2>2. Len(expected.bytes) # Null
    BY ONLY <2>1 DEF Null
  <2>3. bound <=> expected.id # Absent
    OBVIOUS
  <2> QED BY ONLY <2>2, <2>3, Zenon DEF OldSize
<1>6. /\ r.outcome \in {"fatal", "deferred", "updated", "no-complete-line", "unchanged"}
      /\ r.outcome = "updated" => published
      /\ r.outcome = "no-complete-line" => publishSize = 0
      /\ r.outcome = "unchanged" => /\ publishSize \notin {0, Null} /\ expected.id # Absent
                                    /\ Len(expected.bytes) = publishSize
  BY ONLY <1>1, Zenon DEF Concluded
<1>7. publishSize # Null => /\ high.size # Null /\ publishSize <= high.size /\ method # "null"
                            /\ publishSize = 0 => partial = "null"
                            /\ publishSize # 0 => partial # "null"
                            /\ partial = "yes" => publishSize < high.size
  BY ONLY Sized, Zenon DEF Sized
<1>8. /\ publishSize \in 0..(MaxSize + 1) /\ high.size \in 0..(MaxSize + 1) /\ MaxSize \in Nat
  BY SizeTypes
<1>9. expected.id # run
  BY ONLY <1>2, Owner DEF Owner
<1>10. 0 # Null /\ Absent = 0
  BY ONLY <1>8 DEF Null, Absent
<1>11. r.outcome # "fatal" => (r.mutated = "yes" <=> r.outcome = "updated")
  BY ONLY <1>2, Zenon
<1>12. /\ r.mutated \in {"yes", "no", "unknown"}
       /\ r.outcome \notin {"fatal", "updated"} => r.mutated = "no"
       /\ r.outcome = "updated" => r.mutated = "yes"
  BY ONLY <1>2, <1>6
<1> HIDE DEF r
<1>13. /\ r.oldSize = Null <=> r.oldId = Absent
       /\ r.newSize = Null <=> r.newId = Absent
  BY ONLY <1>2, <1>3, <1>4, <1>5, <1>10, <1>12, Zenon
<1>14. \/ r.outcome \in {"updated", "unchanged"}
       \/ r.outcome = "fatal" /\ r.mutated = "yes"
       => /\ r.publishSize \notin {0, Null} /\ r.sourceSize # Null
          /\ r.sourceSize >= r.publishSize
          /\ r.method # "null" /\ r.partial # "null"
          /\ r.partial = "yes" => r.sourceSize > r.publishSize
  <2>1. \/ r.outcome \in {"updated", "unchanged"}
        \/ r.outcome = "fatal" /\ r.mutated = "yes"
        => publishSize \notin {0, Null}
    BY ONLY <1>3, <1>4, <1>6, Zenon
  <2>2. publishSize \notin {0, Null} =>
          /\ high.size # Null /\ high.size >= publishSize /\ method # "null" /\ partial # "null"
          /\ partial = "yes" => high.size > publishSize
    BY ONLY <1>7, <1>8
  <2> QED BY ONLY <1>2, <2>1, <2>2, Zenon
<1>15. /\ r.outcome = "unchanged" => r.oldId # Absent /\ r.oldSize = r.publishSize
       /\ r.outcome = "no-complete-line" => /\ r.publishSize = 0 /\ r.sourceSize # Null
                                            /\ r.partial = "null" /\ r.method # "null"
  BY ONLY <1>2, <1>5, <1>6, <1>7, <1>10
<1>16. r.mutated = "yes" => r.newSize = r.publishSize /\ r.newId # Absent /\ r.newId # r.oldId
  BY ONLY <1>2, <1>9, <1>10, Zenon
<1>17. \/ r.outcome \in {"unchanged", "no-complete-line", "deferred"}
       \/ r.outcome = "fatal" /\ r.mutated = "no"
       => r.newSize = r.oldSize /\ r.newId = r.oldId
  BY ONLY <1>2, <1>12, Zenon
<1>18. /\ r.outcome \in {"deferred", "unchanged", "no-complete-line"} => r.mutated = "no"
       /\ r.mutated = "unknown" => r.newSize = Null /\ r.newId = Absent
  BY ONLY <1>2, <1>12
<1>19. ((r.oldSize = Null) = (r.oldId = Absent)) /\ ((r.newSize = Null) = (r.newId = Absent))
  BY ONLY <1>13
<1>20. ReceiptValid(r)
  BY ONLY <1>12, <1>14, <1>15, <1>16, <1>17, <1>18, <1>19, Zenon DEF ReceiptValid
<1> QED BY ONLY <1>20, Zenon DEF r

LEMMA CutWhole ==
  ASSUME TypeOK, Trim
  PROVE  LET n == LastCompleteLine(cand.bytes)
         IN  /\ pc = "trim" /\ publishSize' = n /\ n \in 0..Len(cand.bytes)
             /\ \/ n = 0 /\ pc' = "retain" /\ cand' = cand
                \/ /\ n # 0 /\ pc' = "sync" /\ cand'.bytes = SubSeq(cand.bytes, 1, n)
                   /\ Len(cand'.bytes) = n /\ Lines(cand'.bytes)
<1> DEFINE n == LastCompleteLine(cand.bytes)
<1>1. /\ pc = "trim" /\ publishSize' = n
      /\ \/ n = 0 /\ pc' = "retain" /\ cand' = cand
         \/ /\ n # 0 /\ pc' = "sync" /\ cand' = [cand EXCEPT !.bytes = SubSeq(cand.bytes, 1, n)]
  BY DEF Trim, Go
<1>2. cand.bytes \in Contents
  BY CandidateRead
<1>3. n \in 0..Len(cand.bytes) /\ (n # 0 => cand.bytes[n] = NL)
  BY <1>2, LastLine
<1>4. /\ Len(SubSeq(cand.bytes, 1, n)) = n
      /\ \A i \in 1..n : SubSeq(cand.bytes, 1, n)[i] = cand.bytes[i]
  <2> HIDE DEF n
  <2> QED BY <1>2, <1>3, Cut
<1>5. n # 0 => Lines(SubSeq(cand.bytes, 1, n))
  <2>1. Len(cand.bytes) \in Nat
    BY <1>2, ContentsLength
  <2>2. n # 0 => SubSeq(cand.bytes, 1, n) # <<>>
    BY ONLY <1>4, Empty
  <2> HIDE DEF n
  <2> QED BY ONLY <1>3, <1>4, <2>1, <2>2 DEF Lines
<1>6. cand' = [cand EXCEPT !.bytes = SubSeq(cand.bytes, 1, n)] => cand'.bytes = SubSeq(cand.bytes, 1, n)
  BY CandidateRead, Zenon
<1> QED
  <2> HIDE DEF n
  <2>1. /\ pc = "trim" /\ publishSize' = n /\ n \in 0..Len(cand.bytes)
        /\ \/ n = 0 /\ pc' = "retain" /\ cand' = cand
           \/ /\ n # 0 /\ pc' = "sync" /\ cand'.bytes = SubSeq(cand.bytes, 1, n)
              /\ Len(cand'.bytes) = n /\ Lines(cand'.bytes)
    BY ONLY <1>1, <1>3, <1>4, <1>5, <1>6, Zenon
  <2> QED BY <2>1, Zenon DEF n

LEMMA WholeStep == TypeOK /\ Control /\ Whole /\ [Next]_vars => Whole'
<1> SUFFICES ASSUME TypeOK, Control, Whole, [Next]_vars PROVE Whole'
  OBVIOUS
<1>1. CASE Begin \/ Opening \/ Rename \/ Tidy \/ Ending
  <2>1. pc' \in BeforeTrim \cup Failed \cup {"tidy", "done", "idle"}
    <3>1. CASE Begin
      BY <3>1 DEF Begin, BeforeTrim
    <3>2. CASE Opening
      BY <3>2, OpeningFrame DEF Failed
    <3>3. CASE Rename \/ Tidy
      BY <3>3, Zenon DEF Rename, Tidy, Raise, Go, Failed
    <3>4. CASE Ending
      BY <3>4, EndingFrame
    <3> QED BY <1>1, <3>1, <3>2, <3>3, <3>4
  <2>2. ~Holds(Publishing \cup {"sync"})' /\ ~Holds(Publishing)'
    BY ONLY <2>1 DEF BeforeTrim, Holds, Publishing, PrefixSteps, Failed
  <2> QED BY <2>2, Zenon DEF Whole
<1>2. CASE Trim
  <2>1. pc' = "retain" \/ (pc' = "sync" /\ Lines(cand'.bytes))
    BY <1>2, CutWhole, Zenon
  <2>2. ~Holds(Publishing)' /\ (pc' = "retain" => ~Holds(Publishing \cup {"sync"})')
    BY ONLY <2>1 DEF Holds, Publishing, PrefixSteps
  <2> QED BY ONLY <2>1, <2>2, Zenon DEF Whole
<1>3. CASE Inner
  <2>1. cand'.bytes = cand.bytes /\ cand'.synced = (Sync \/ cand.synced)
    BY ONLY <1>3, TypeOK, InnerFrame, Zenon
  <2>2. /\ Holds(Publishing \cup {"sync"})' => Holds(Publishing \cup {"sync"})
        /\ Holds(Publishing)' => Holds(Publishing) \/ Sync
    BY ONLY <1>3, Control, InnerFlow, Zenon
  <2>3. Lines(cand.bytes) => Lines(cand'.bytes)
    BY ONLY <2>1, Zenon DEF Lines
  <2>4. Holds(Publishing)' => cand'.synced
    BY ONLY <2>1, <2>2, Whole, Zenon DEF Whole
  <2>5. Holds(Publishing \cup {"sync"})' => Lines(cand'.bytes)
    BY ONLY <2>2, <2>3, Whole, Zenon DEF Whole
  <2> QED BY ONLY <2>4, <2>5, Zenon DEF Whole
<1>4. CASE World \/ UNCHANGED vars
  <2>1. pc' = pc /\ back' = back /\ cand' = cand
    BY ONLY <1>4, WorldFrame, Zenon
  <2> QED BY ONLY <2>1, Whole, Zenon DEF Whole, Holds, Lines
<1> QED BY ONLY [Next]_vars, Phases, <1>1, <1>2, <1>3, <1>4, Zenon

LEMMA OnlyRenamed ==
  ASSUME TypeOK, Owner, Whole, [Next]_vars, dest'.id = run, dest'.id # dest.id
  PROVE  cand.synced /\ dest'.bytes # <<>> /\ dest'.bytes[Len(dest'.bytes)] = NL
<1>1. run \in 0..MaxRuns /\ MaxRuns \in Nat
  BY Zenon, TypeParts, Bounds DEF Counters
<1>2. \A b : [dest EXCEPT !.bytes = b].id = dest.id
  <2>1. dest \in [id : Objects, bytes : Contents]
    BY Zenon, TypeParts DEF Files
  <2> QED BY <2>1, Zenon
<1>3. \/ dest' = dest
      \/ \E b : dest' = [dest EXCEPT !.bytes = b]
      \/ pc = "rename" /\ dest' = [id |-> run, bytes |-> cand.bytes]
      \/ dest' = [id |-> Intruder, bytes |-> <<>>]
  BY ZenonT(60) DEF Next, Line, Begin, BindSource, BindDestination, CreateStage, Clone, Copy, Staged,
    Trim, Sync, Enter, Compare, CompareRest, After, Terminal, Decide, Retain, Retire, Retired,
    Publish, Rename, Renamed, Tidy, Orient, CleanUp, Close, Fail, Stop, Grow, Rewrite, Archive,
    Intrude, Written, vars
<1>4. run # Intruder
  BY ONLY <1>1 DEF Intruder
<1>5. pc = "rename" /\ dest'.bytes = cand.bytes
  <2>1. dest' = [id |-> Intruder, bytes |-> <<>>] => dest'.id = Intruder
    OBVIOUS
  <2>2. dest' = [id |-> run, bytes |-> cand.bytes] => dest'.bytes = cand.bytes
    OBVIOUS
  <2>3. dest' # dest /\ ~\E b : dest' = [dest EXCEPT !.bytes = b]
    BY <1>2, Zenon
  <2> QED BY ONLY <1>3, <1>4, <2>1, <2>2, <2>3, dest'.id = run, Zenon
<1>6. Lines(cand.bytes) /\ cand.synced
  <2>1. Holds(Publishing \cup {"sync"}) /\ Holds(Publishing)
    BY ONLY <1>5 DEF Holds, Publishing
  <2> QED BY ONLY <2>1, Whole, Zenon DEF Whole
<1> QED BY ONLY <1>5, <1>6, Zenon DEF Lines

LEMMA TickTypes ==
  TypeOK => /\ before.tick \in Nat /\ src.tick \in Nat /\ after.tick \in Nat /\ high.tick \in Nat
            /\ before.size \in Nat /\ after.size \in Nat /\ high.size \in Nat
            /\ MarkOf(src).tick = src.tick /\ MarkOf(src).size = Len(src.bytes)
            /\ src.bytes \in Contents
<1> SUFFICES ASSUME TypeOK
             PROVE  /\ before.tick \in Nat /\ src.tick \in Nat /\ after.tick \in Nat /\ high.tick \in Nat
                    /\ before.size \in Nat /\ after.size \in Nat /\ high.size \in Nat
                    /\ MarkOf(src).tick = src.tick /\ MarkOf(src).size = Len(src.bytes)
                    /\ src.bytes \in Contents
  OBVIOUS
<1>1. Files /\ Marks
  BY Zenon, TypeParts
<1>2. src.tick \in Nat /\ src.bytes \in Contents
  BY ONLY <1>1, Bounds DEF Files, Source
<1>3. /\ before.tick \in Nat /\ after.tick \in Nat /\ high.tick \in Nat
      /\ before.size \in Nat /\ after.size \in Nat /\ high.size \in Nat
  BY ONLY <1>1, Bounds DEF Marks, Mark, Sizes
<1> QED BY ONLY <1>2, <1>3 DEF MarkOf

LEMMA ComparedStep == TypeOK /\ Control /\ Compared /\ [Next]_vars => Compared'
<1> SUFFICES ASSUME TypeOK, Control, Compared, [Next]_vars PROVE Compared'
  OBVIOUS
<1>1. CASE Begin \/ Opening \/ Trim \/ Rename \/ Tidy \/ Ending
  <2>1. pc' \in BeforeTrim \cup Failed \cup {"tidy", "done", "idle", "retain", "sync"}
    <3>1. CASE Begin
      BY <3>1 DEF Begin, BeforeTrim
    <3>2. CASE Opening
      BY <3>2, OpeningFrame DEF Failed
    <3>3. CASE Trim \/ Rename \/ Tidy
      BY <3>3, Zenon DEF Trim, Rename, Tidy, Raise, Go, Failed
    <3>4. CASE Ending
      BY <3>4, EndingFrame
    <3> QED BY <1>1, <3>1, <3>2, <3>3, <3>4
  <2>2. pc' \notin Looking
    BY ONLY <2>1 DEF BeforeTrim, Failed, Looking
  <2> QED BY ONLY <2>2, Zenon DEF Compared
<1>2. CASE Sync \/ Terminal \/ Decide \/ Retain \/ Retire \/ Retired \/ Publish
  <2>1. pc' \in {"enter", "raised", "retain", "publish", "retired"} \/ (pc \in PrefixSteps /\ pc' = back)
    BY <1>2, ZenonT(60) DEF Sync, Terminal, Decide, Retain, Retire, Retired, Publish, Go, Raise, Call,
      PrefixSteps
  <2>2. pc' \notin Looking
    BY ONLY <2>1, Control DEF Control, Looking
  <2> QED BY ONLY <2>2, Zenon DEF Compared
<1>3. CASE Enter
  <2>1. before' = MarkOf(src) /\ src' = src /\ pc' \in {"compare", "raised"}
    BY <1>3, Zenon DEF Enter, Go, Raise
  <2>2. before'.tick = src.tick /\ src'.tick = src.tick /\ src.tick \in Nat
    BY ONLY <2>1, TickTypes, TypeOK, Zenon
  <2>3. before'.tick <= src'.tick
    BY ONLY <2>2
  <2> QED BY ONLY <2>1, <2>3 DEF Compared
<1>4. CASE Compare
  <2>1. /\ pc = "compare" /\ before' = before /\ src' = src /\ cand' = cand
        /\ (pc' = "compare rest" /\ Agree(DOMAIN cand.bytes \cap {1})) \/ pc' = "raised"
    BY <1>4, Zenon DEF Compare, Go, Raise
  <2>2. Agree(DOMAIN cand.bytes \cap {1}) => Agree(DOMAIN cand.bytes \cap {1})'
    BY ONLY <2>1, Zenon DEF Agree
  <2> QED BY ONLY <2>1, <2>2, Compared DEF Compared, Looking
<1>5. CASE CompareRest
  <2>1. /\ pc = "compare rest" /\ before' = before /\ src' = src /\ cand' = cand
        /\ (pc' = "after" /\ Agree(DOMAIN cand.bytes \ {1})) \/ pc' = "raised"
    BY <1>5, Zenon DEF CompareRest, Go, Raise
  <2>2. Agree(DOMAIN cand.bytes \ {1}) /\ Agree(DOMAIN cand.bytes \cap {1}) => Agree(DOMAIN cand.bytes)'
    BY ONLY <2>1 DEF Agree
  <2> QED BY ONLY <2>1, <2>2, Compared DEF Compared, Looking
<1>6. CASE After
  <2>1. /\ pc = "after" /\ before' = before /\ src' = src /\ cand' = cand /\ after' = MarkOf(src)
        /\ (pc' = "terminal" /\ high' = after' /\ Grown(after', before)) \/ pc' = "raised"
    BY <1>6, Zenon DEF After, Go, Raise
  <2>2. Agree(DOMAIN cand.bytes) => Agree(DOMAIN cand.bytes)'
    BY ONLY <2>1, Zenon DEF Agree
  <2>3. pc' = "terminal" => high' = after' /\ Grown(after, before)'
    BY ONLY <2>1, Zenon DEF Grown
  <2> QED BY ONLY <2>1, <2>2, <2>3, Compared DEF Compared, Looking
<1>7. CASE World \/ UNCHANGED vars
  <2>1. /\ pc' = pc /\ before' = before /\ after' = after /\ high' = high /\ cand' = cand
    BY ONLY <1>7, WorldFrame, Zenon
  <2>2. src' = src \/ src'.tick = src.tick + 1
    <3>1. src' = src \/ \E b : src' = [bytes |-> b, tick |-> src.tick + 1]
      BY <1>7, Zenon DEF World, Grow, Rewrite, Archive, Intrude, Written, vars
    <3> QED BY ONLY <3>1
  <2>3. CASE src' = src
    BY ONLY <2>1, <2>3, Compared, Zenon DEF Compared, Agree, Grown
  <2>4. CASE src'.tick = src.tick + 1
    <3>1. pc \in Looking => /\ before.tick <= src.tick
                            /\ pc = "terminal" => high = after /\ Grown(after, before)
      BY ONLY Compared, Zenon DEF Compared
    <3>2. pc \in Looking => before'.tick <= src'.tick /\ before'.tick # src'.tick
      <4>1. before'.tick = before.tick /\ before.tick \in Nat /\ src.tick \in Nat
        BY ONLY <2>1, TickTypes, TypeOK, Zenon
      <4>2. pc \in Looking => before.tick <= src.tick
        BY ONLY <3>1, Zenon
      <4> QED BY ONLY <2>4, <4>1, <4>2
    <3>3. pc' = "terminal" /\ pc \in Looking => high' = after' /\ Grown(after, before)'
      BY ONLY <2>1, <3>1, Zenon DEF Grown
    <3> QED BY ONLY <2>1, <3>2, <3>3, Zenon DEF Compared
  <2> QED BY <2>2, <2>3, <2>4
<1> QED BY ONLY [Next]_vars, Phases, <1>1, <1>2, <1>3, <1>4, <1>5, <1>6, <1>7, Zenon DEF Inner

\* A sequence whose bytes are all at their places in another one begins that.
LEMMA PrefixByPlace ==
  ASSUME NEW a \in Contents, NEW b \in Contents
  PROVE  IsPrefix(a, b) <=> Len(a) <= Len(b) /\ \A i \in 1..Len(a) : a[i] = b[i]
<1>1. Len(a) \in Nat /\ Len(b) \in Nat /\ a \in Seq({NL, Text}) /\ b \in Seq({NL, Text})
  BY ContentsLength, ContentsAre, Bounds
<1>2. SubSeq(a, 1, Len(a)) = a
  BY <1>1, SubSeqFull
<1>3. CASE Len(a) <= Len(b)
  <2>1. Len(a) \in 0..Len(b)
    BY <1>1, <1>3
  <2>2. /\ SubSeq(b, 1, Len(a)) \in Seq({NL, Text}) /\ Len(SubSeq(b, 1, Len(a))) = Len(a)
        /\ \A i \in 1..Len(a) : SubSeq(b, 1, Len(a))[i] = b[i]
    BY <2>1, Cut, ContentsAre
  <2>3. (\A i \in 1..Len(a) : a[i] = b[i]) => a = SubSeq(b, 1, Len(a))
    <3> DEFINE c == SubSeq(b, 1, Len(a))
    <3>1. ASSUME \A i \in 1..Len(a) : a[i] = b[i]
          PROVE  a = c
      <4>1. c \in Seq({NL, Text}) /\ Len(c) = Len(a) /\ \A i \in 1..Len(a) : a[i] = c[i]
        BY <2>2, <3>1
      <4> HIDE DEF c
      <4> QED BY <1>1, <4>1, SeqEqual
    <3> QED BY <3>1
  <2>4. a = SubSeq(b, 1, Len(a)) => \A i \in 1..Len(a) : a[i] = b[i]
    BY ONLY <2>2, Zenon
  <2> QED BY ONLY <1>2, <1>3, <2>3, <2>4, Zenon DEF IsPrefix
<1>4. CASE ~(Len(a) <= Len(b))
  BY <1>4, Zenon DEF IsPrefix
<1> QED BY <1>3, <1>4

LEMMA SawPrefix ==
  ASSUME TypeOK, Control, Compared, [Next]_vars, pc = "terminal", pc' = back
  PROVE  IsPrefix(cand.bytes, src.bytes)
<1>1. back \in {"decide", "retire", "done", "authorized", "rename"}
  BY Control DEF Control, PrefixSteps
<1>2. Terminal
  <2>1. pc' # "terminal" /\ pc' # "raised" /\ pc' # "idle"
    BY <1>1
  <2> QED
    BY <2>1, ZenonT(60) DEF Next, Line, Begin, BindSource, BindDestination, CreateStage, Clone, Copy,
      Staged, Trim, Sync, Enter, Compare, CompareRest, After, Decide, Retain, Retire, Retired,
      Publish, Rename, Tidy, Orient, CleanUp, Close, Fail, FailsAt, Stop, Grow, Rewrite, Archive,
      Intrude, Written, vars
<1>3. /\ Grown(MarkOf(src), high)
      /\ ~(after.size > before.size) /\ ~(MarkOf(src).size > after.size)
  <2>1. pc' # "enter" /\ pc' # "raised"
    BY <1>1
  <2> QED BY <1>2, <2>1, Zenon DEF Terminal, Go, Raise
<1>4. /\ before.tick = src.tick => Agree(DOMAIN cand.bytes)
      /\ high = after /\ Grown(after, before)
  <2>1. pc \in Looking /\ pc \in {"after", "terminal"}
    BY DEF Looking
  <2> QED BY <2>1, Zenon, Compared DEF Compared
<1>5. MarkOf(src) = before
  BY ONLY <1>3, <1>4, TickTypes, TypeOK DEF Grown
<1>6. Agree(DOMAIN cand.bytes)
  BY ONLY <1>4, <1>5, TickTypes, TypeOK, Zenon
<1>7. cand.bytes \in Contents /\ src.bytes \in Contents
  BY CandidateRead, TickTypes
<1>8. DOMAIN cand.bytes = 1..Len(cand.bytes) /\ Len(cand.bytes) \in Nat /\ Len(src.bytes) \in Nat
  BY <1>7, ContentsAre, LenProperties
<1>9. Len(cand.bytes) <= Len(src.bytes)
  <2>1. CASE Len(cand.bytes) = 0
    BY <1>8, <2>1
  <2>2. CASE Len(cand.bytes) # 0
    <3>1. Len(cand.bytes) \in DOMAIN cand.bytes
      BY ONLY <1>8, <2>2
    <3> QED BY ONLY <1>6, <3>1, Zenon DEF Agree
  <2> QED BY <2>1, <2>2
<1> QED BY <1>6, <1>7, <1>8, <1>9, PrefixByPlace DEF Agree

--------------------------------------------------------------------------------
LEMMA PrefixSame == ASSUME NEW a \in Contents PROVE IsPrefix(a, a) /\ IsPrefix(<<>>, a)
<1>1. Len(a) \in Nat
  BY ContentsLength, Bounds
<1>2. IsPrefix(a, a)
  BY <1>1, PrefixByPlace
<1>3. <<>> \in Contents /\ Len(<<>>) = 0
  BY Empty
<1> QED BY <1>1, <1>2, <1>3, PrefixByPlace

LEMMA PrefixThrough ==
  ASSUME NEW a \in Contents, NEW b \in Contents, NEW c \in Contents, IsPrefix(a, b), IsPrefix(b, c)
  PROVE  IsPrefix(a, c)
<1>1. Len(a) \in Nat /\ Len(b) \in Nat /\ Len(c) \in Nat
  BY ContentsLength, Bounds
<1>2. /\ Len(a) <= Len(b) /\ \A i \in 1..Len(a) : a[i] = b[i]
      /\ Len(b) <= Len(c) /\ \A i \in 1..Len(b) : b[i] = c[i]
  BY PrefixByPlace
<1>3. Len(a) <= Len(c) /\ \A i \in 1..Len(a) : a[i] = c[i]
  BY ONLY <1>1, <1>2
<1> QED BY <1>3, PrefixByPlace

LEMMA PrefixAdded ==
  ASSUME NEW b \in Contents, Len(b) < MaxSize, NEW e \in {NL, Text}
  PROVE  IsPrefix(b, Append(b, e))
<1>1. Append(b, e) \in Contents /\ Len(b) \in Nat /\ Len(Append(b, e)) = Len(b) + 1
      /\ \A i \in 1..Len(b) : Append(b, e)[i] = b[i]
  BY Added, ContentsLength, Bounds
<1>2. Len(b) <= Len(Append(b, e))
  BY ONLY <1>1
<1> QED BY <1>1, <1>2, PrefixByPlace

\* Cutting a file after its last complete line takes none of its lines.
LEMMA PrefixCut ==
  ASSUME NEW a \in Contents, NEW b \in Contents, IsPrefix(a, b), a = <<>> \/ Lines(a)
  PROVE  /\ IsPrefix(a, SubSeq(b, 1, LastCompleteLine(b)))
         /\ IsPrefix(SubSeq(b, 1, LastCompleteLine(b)), b)
         /\ SubSeq(b, 1, LastCompleteLine(b)) \in Contents
<1> DEFINE n == LastCompleteLine(b)
           c == SubSeq(b, 1, n)
<1>1. n \in 0..Len(b) /\ \A i \in 1..Len(b) : b[i] = NL => i <= n
  BY LastLine
<1>2. Len(a) \in Nat /\ Len(b) \in Nat
  BY ContentsLength, Bounds
<1>3. Len(a) <= Len(b) /\ \A i \in 1..Len(a) : a[i] = b[i]
  BY PrefixByPlace
<1> HIDE DEF n
<1>4. c \in Contents /\ Len(c) = n /\ \A i \in 1..n : c[i] = b[i]
  BY <1>1, Cut
<1>5. Len(a) <= n
  <2>1. CASE a = <<>>
    <3>1. Len(a) = 0
      BY <2>1, Empty
    <3> QED BY ONLY <1>1, <1>2, <3>1
  <2>2. CASE a # <<>>
    <3>1. a[Len(a)] = NL
      BY <2>2 DEF Lines
    <3>2. Len(a) # 0
      <4>1. a \in Seq({NL, Text})
        BY ContentsAre
      <4> QED BY <2>2, <4>1, EmptySeq
    <3> QED BY ONLY <1>1, <1>2, <1>3, <3>1, <3>2
  <2> QED BY <2>1, <2>2
<1> HIDE DEF c
<1>6. IsPrefix(a, c)
  <2>1. Len(a) <= Len(c) /\ \A i \in 1..Len(a) : a[i] = c[i]
    BY ONLY <1>1, <1>2, <1>3, <1>4, <1>5
  <2> QED BY <1>4, <2>1, PrefixByPlace
<1>7. IsPrefix(c, b)
  <2>1. Len(c) <= Len(b) /\ \A i \in 1..Len(c) : c[i] = b[i]
    BY ONLY <1>1, <1>2, <1>4
  <2> QED BY <1>4, <2>1, PrefixByPlace
<1> QED BY <1>4, <1>6, <1>7 DEF c, n

LEMMA FileTypes ==
  TypeOK => /\ src.bytes \in Contents /\ dest.bytes \in Contents /\ cand.bytes \in Contents
            /\ fallback.bytes \in Contents /\ expected.bytes \in Contents
<1> SUFFICES ASSUME TypeOK
             PROVE  /\ src.bytes \in Contents /\ dest.bytes \in Contents /\ cand.bytes \in Contents
                    /\ fallback.bytes \in Contents /\ expected.bytes \in Contents
  OBVIOUS
<1>1. Files /\ cand.bytes \in Contents
  BY Zenon, TypeParts, CandidateRead
<1> QED BY ONLY <1>1 DEF Files, Source

\* While nobody interferes the source is only appended to and only the helper's
\* rename changes the mirror.
LEMMA CalmMoves ==
  ASSUME TypeOK, [Next]_vars, ~rewritten, intrusions' = 0, churns' = 0
  PROVE  /\ intrusions = 0 /\ churns = 0
         /\ dest' = dest \/ (Rename /\ dest' = [id |-> run, bytes |-> cand.bytes])
         /\ \/ src' = src \/ rewritten' = TRUE
            \/ /\ Len(src.bytes) < MaxSize
               /\ \E e \in {NL, Text} : src'.bytes = Append(src.bytes, e)
<1>1. intrusions \in Nat /\ churns \in Nat
  <2>1. Counters
    BY Zenon, TypeParts
  <2> QED BY ONLY <2>1, Bounds DEF Counters
<1> USE DEF Next, Line, Begin, BindSource, CreateStage, Clone, Copy, Staged, Trim, Sync, Enter,
      Compare, CompareRest, After, Terminal, Decide, Retain, Retire, Retired, Publish, Tidy, Orient,
      CleanUp, Close, Fail, FailsAt, Stop, Grow, Rewrite, Archive, Written, Fault, vars
<1>2. intrusions' = intrusions \/ (intrusions' = intrusions + 1 /\ Intrude)
  BY ZenonT(60) DEF BindDestination, Rename, Intrude
<1>3. churns' = churns \/ churns' = churns + 1
  BY ZenonT(60) DEF BindDestination, Rename, Intrude
<1>4. intrusions = 0 /\ churns = 0 /\ ~Intrude
  <2>1. intrusions = 0 /\ churns = 0
    BY ONLY <1>1, <1>2, <1>3, intrusions' = 0, churns' = 0
  <2>2. Intrude => intrusions' = intrusions + 1
    BY Zenon DEF Intrude
  <2> QED BY ONLY <2>1, <2>2, intrusions' = 0
<1>5. BindDestination => dest' = dest
  <2>1. BindDestination => dest' = dest \/ churns' = churns + 1
    BY Zenon DEF BindDestination
  <2> QED BY ONLY <2>1, <1>4, churns' = 0
<1>6. dest' = dest \/ (Rename /\ dest' = [id |-> run, bytes |-> cand.bytes])
  <2>1. CASE Rename
    BY <2>1, Zenon DEF Rename, Renamed
  <2>2. CASE ~Rename
    BY <1>4, <1>5, <2>2, ZenonT(60)
  <2> QED BY <2>1, <2>2
<1>7. \/ src' = src \/ rewritten' = TRUE
      \/ /\ Len(src.bytes) < MaxSize
         /\ \E e \in {NL, Text} : src'.bytes = Append(src.bytes, e)
  <2>1. \/ src' = src \/ rewritten' = TRUE
        \/ /\ Len(src.bytes) < MaxSize
           /\ \E e \in {NL, Text} : src' = [bytes |-> Append(src.bytes, e), tick |-> src.tick + 1]
    BY ZenonT(60) DEF BindDestination, Rename, Intrude
  <2>2. \A e : src' = [bytes |-> Append(src.bytes, e), tick |-> src.tick + 1]
               => src'.bytes = Append(src.bytes, e)
    BY ONLY TRUE
  <2> QED BY ONLY <2>1, <2>2, Zenon
<1> QED BY ONLY <1>4, <1>6, <1>7, Zenon

LEMMA LengtheningStep ==
  TypeOK /\ Control /\ Whole /\ Lengthening /\ [Next]_vars => Lengthening'
<1> SUFFICES ASSUME TypeOK, Control, Whole, Lengthening, [Next]_vars, Calm'
             PROVE  /\ IsPrefix(dest'.bytes, src'.bytes) /\ (dest'.bytes = <<>> \/ Lines(dest'.bytes))
                    /\ pc' \in Making => /\ IsPrefix(dest'.bytes, cand'.bytes)
                                         /\ IsPrefix(cand'.bytes, src'.bytes)
  BY Zenon DEF Lengthening, Making, Lines
<1>1. ~rewritten /\ rewritten' # TRUE
  <2>1. rewritten' = rewritten \/ rewritten' = TRUE
    BY ZenonT(60) DEF Next, Line, Begin, BindSource, BindDestination, CreateStage, Clone, Copy, Staged,
      Trim, Sync, Enter, Compare, CompareRest, After, Terminal, Decide, Retain, Retire, Retired,
      Publish, Rename, Tidy, Orient, CleanUp, Close, Fail, FailsAt, Stop, Grow, Rewrite, Archive,
      Intrude, Written, Fault, vars
  <2>2. ~rewritten'
    BY Zenon DEF Calm
  <2>3. rewritten' # TRUE
    BY ONLY <2>2
  <2>4. ~rewritten
    BY ONLY <2>1, <2>2, <2>3, Zenon
  <2> QED BY <2>3, <2>4
<1>2. intrusions' = 0 /\ churns' = 0
  BY Zenon DEF Calm
<1>3. /\ intrusions = 0 /\ churns = 0
      /\ dest' = dest \/ (Rename /\ dest' = [id |-> run, bytes |-> cand.bytes])
      /\ \/ src' = src
         \/ /\ Len(src.bytes) < MaxSize
            /\ \E e \in {NL, Text} : src'.bytes = Append(src.bytes, e)
  BY <1>1, <1>2, CalmMoves, Zenon
<1>4. /\ IsPrefix(dest.bytes, src.bytes) /\ (dest.bytes = <<>> \/ Lines(dest.bytes))
      /\ pc \in Making => IsPrefix(dest.bytes, cand.bytes) /\ IsPrefix(cand.bytes, src.bytes)
  BY ONLY <1>1, <1>3, Lengthening, Zenon DEF Lengthening, Calm, Making
<1>5. src.bytes \in Contents /\ dest.bytes \in Contents /\ cand.bytes \in Contents
  BY FileTypes, Zenon
<1>6. CASE Begin \/ Tidy \/ Ending \/ (Opening /\ ~Clone /\ ~Copy)
  <2>1. dest' = dest /\ src' = src
    <3>1. dest' = dest
      BY <1>3, <1>6, Zenon DEF Begin, Tidy, Ending, Opening, Rename, Fail, FailsAt, Orient, CleanUp, Close,
        Stop, BindSource, BindDestination, CreateStage, Staged
    <3>2. src' = src
      BY <1>6, EndingFrame, OpeningFrame, Zenon DEF Begin, Tidy
    <3> QED BY <3>1, <3>2
  <2>2. pc' \notin Making \/ (pc = "staged" /\ cand' = cand)
    <3>1. CASE Begin
      BY <3>1 DEF Begin, Making, PastTrim, PrefixSteps
    <3>2. CASE Tidy
      BY <3>2 DEF Tidy, Making, PastTrim, PrefixSteps, Go, Raise
    <3>3. CASE Ending
      BY <3>3, EndingFrame DEF Making, PastTrim, PrefixSteps, Failed
    <3>4. CASE Opening /\ ~Clone /\ ~Copy
      BY <3>4 DEF Opening, BindSource, BindDestination, CreateStage, Staged, Making, PastTrim,
        PrefixSteps, Go, Raise
    <3> QED BY <1>6, <3>1, <3>2, <3>3, <3>4
  <2>3. pc = "staged" => pc \in Making
    BY DEF Making
  <2> QED BY ONLY <1>4, <2>1, <2>2, <2>3, Zenon
<1>7. CASE Clone \/ Copy
  <2>1. dest' = dest /\ src' = src
    BY <1>7, Zenon DEF Clone, Copy
  <2>2. pc' \notin Making \/ cand'.bytes = src.bytes
    <3>1. CASE Clone
      <4>1. \/ pc' \in {"raised", "copy"}
            \/ cand' = [bytes |-> src.bytes, at |-> "staged", synced |-> FALSE]
        BY <3>1, Zenon DEF Clone, Candidate, Go, Raise
      <4>2. pc' \in {"raised", "copy"} => pc' \notin Making
        BY DEF Making, PastTrim, PrefixSteps
      <4> QED BY ONLY <4>1, <4>2
    <3>2. CASE Copy
      <4>1. pc' = "raised" \/ (src = fallback /\ cand'.bytes = fallback.bytes)
        BY <3>2, Zenon DEF Copy, Raise
      <4>2. pc' = "raised" => pc' \notin Making
        BY DEF Making, PastTrim, PrefixSteps
      <4> QED BY ONLY <4>1, <4>2
    <3> QED BY <1>7, <3>1, <3>2
  <2>3. IsPrefix(src.bytes, src.bytes)
    BY <1>5, PrefixSame
  <2> QED BY ONLY <1>4, <2>1, <2>2, <2>3, Zenon
<1>8. CASE Trim
  <2> DEFINE n == LastCompleteLine(cand.bytes)
  <2>1. dest' = dest /\ src' = src
    BY <1>8, Zenon DEF Trim
  <2>2. pc = "trim" /\ (cand' = cand \/ cand' = [cand EXCEPT !.bytes = SubSeq(cand.bytes, 1, n)])
    BY <1>8 DEF Trim
  <2>3. cand'.bytes = cand.bytes \/ cand'.bytes = SubSeq(cand.bytes, 1, n)
    BY ONLY <2>2, CandidateRead, TypeOK, Zenon
  <2>4. IsPrefix(dest.bytes, cand.bytes) /\ IsPrefix(cand.bytes, src.bytes)
    BY <1>4, <2>2 DEF Making
  <2>5. /\ IsPrefix(dest.bytes, SubSeq(cand.bytes, 1, n))
        /\ IsPrefix(SubSeq(cand.bytes, 1, n), cand.bytes)
        /\ SubSeq(cand.bytes, 1, n) \in Contents
    BY <1>4, <1>5, <2>4, PrefixCut
  <2> HIDE DEF n
  <2>6. IsPrefix(SubSeq(cand.bytes, 1, n), src.bytes)
    BY <1>5, <2>4, <2>5, PrefixThrough
  <2> QED BY ONLY <1>4, <2>1, <2>3, <2>4, <2>5, <2>6, Zenon
<1>9. CASE Inner
  <2>1. src' = src /\ dest' = dest /\ cand'.bytes = cand.bytes
    BY <1>9, InnerFrame, Zenon
  <2>2. pc \in Making
    BY <1>9, InnerFlow, Zenon DEF Making
  <2> QED BY ONLY <1>4, <2>1, <2>2, Zenon
<1>10. CASE Rename
  <2>1. src' = src /\ pc = "rename" /\ pc' \in {"raised", "tidy"}
    BY <1>10, Zenon DEF Rename, Go, Raise
  <2>2. pc \in Making /\ pc' \notin Making
    BY ONLY <2>1 DEF Making, PastTrim, PrefixSteps
  <2>3. Lines(cand.bytes)
    BY ONLY <2>1, Whole DEF Whole, Holds, Publishing, Lines
  <2>4. dest' = dest \/ dest'.bytes = cand.bytes
    BY <1>3
  <2> QED BY ONLY <1>4, <2>1, <2>2, <2>3, <2>4, Zenon DEF Lines
<1>11. CASE World \/ UNCHANGED vars
  <2>1. pc' = pc /\ cand' = cand
    BY <1>11, WorldFrame, Zenon
  <2>2. dest' = dest
    <3>1. Rename => pc = "rename" /\ pc' \in {"raised", "tidy"}
      BY Zenon DEF Rename, Go, Raise
    <3> QED BY ONLY <1>3, <2>1, <3>1
  <2>3. CASE src' = src
    BY ONLY <1>4, <2>1, <2>2, <2>3, Zenon
  <2>4. CASE Len(src.bytes) < MaxSize /\ \E e \in {NL, Text} : src'.bytes = Append(src.bytes, e)
    <3>1. src'.bytes \in Contents /\ IsPrefix(src.bytes, src'.bytes)
      BY <1>5, <2>4, Added, PrefixAdded
    <3>2. IsPrefix(dest.bytes, src'.bytes)
      BY <1>4, <1>5, <3>1, PrefixThrough
    <3>3. pc \in Making => IsPrefix(cand.bytes, src'.bytes)
      BY <1>4, <1>5, <3>1, PrefixThrough
    <3> QED BY ONLY <1>4, <2>1, <2>2, <3>2, <3>3, Zenon
  <2> QED BY <1>3, <2>3, <2>4
<1> QED BY ONLY [Next]_vars, Phases, <1>6, <1>7, <1>8, <1>9, <1>10, <1>11, Zenon

LEMMA OnlyLengthens ==
  ASSUME TypeOK, Lengthening, [Next]_vars, ~rewritten, intrusions' = 0, churns' = 0
  PROVE  IsPrefix(dest.bytes, dest'.bytes)
<1>1. /\ intrusions = 0 /\ churns = 0
      /\ dest' = dest \/ (Rename /\ dest' = [id |-> run, bytes |-> cand.bytes])
  BY CalmMoves, Zenon
<1>2. CASE dest' = dest
  <2>1. dest.bytes \in Contents
    BY FileTypes, Zenon
  <2> QED BY <1>2, <2>1, PrefixSame
<1>3. CASE Rename /\ dest' = [id |-> run, bytes |-> cand.bytes]
  <2>1. pc = "rename"
    BY <1>3, Zenon DEF Rename
  <2>2. pc \in Making
    BY ONLY <2>1 DEF Making, PastTrim
  <2>3. IsPrefix(dest.bytes, cand.bytes)
    BY ONLY <1>1, <2>2, Lengthening, ~rewritten, Zenon DEF Lengthening, Calm, Making
  <2> QED BY <1>3, <2>3
<1> QED BY <1>1, <1>2, <1>3

--------------------------------------------------------------------------------
\* What was read to the k-th byte before and from there on after, of the same source.
LEMMA ReadTwice ==
  ASSUME NEW b \in Contents, NEW k \in 0..Len(b)
  PROVE  SubSeq(b, 1, k) \o SubSeq(b, k + 1, Len(b)) = b
<1> DEFINE a == SubSeq(b, 1, k)
           c == SubSeq(b, k + 1, Len(b))
<1>1. b \in Seq({NL, Text}) /\ Len(b) \in Nat /\ k \in Nat /\ k <= Len(b)
  BY ContentsAre, LenProperties
<1>2. a \in Seq({NL, Text}) /\ Len(a) = k /\ \A i \in 1..k : a[i] = b[i]
  BY Cut, ContentsAre
<1>3. \A i \in (k + 1)..Len(b) : b[i] \in {NL, Text}
  BY <1>1, ElementOfSeq
<1>4. /\ c \in Seq({NL, Text})
      /\ Len(c) = (IF k + 1 <= Len(b) THEN Len(b) - (k + 1) + 1 ELSE 0)
      /\ \A i \in 1..(Len(b) - (k + 1) + 1) : c[i] = b[k + 1 + i - 1]
  BY <1>1, <1>3, SubSeqProperties
<1>5. Len(c) = Len(b) - k /\ \A i \in 1..Len(c) : c[i] = b[k + i]
  BY ONLY <1>1, <1>4
<1> HIDE DEF a, c
<1>6. /\ a \o c \in Seq({NL, Text}) /\ Len(a \o c) = Len(a) + Len(c)
      /\ \A i \in 1..(Len(a) + Len(c)) : (a \o c)[i] = IF i <= Len(a) THEN a[i] ELSE c[i - Len(a)]
  BY <1>2, <1>4, ConcatProperties
<1>7. Len(a \o c) = Len(b)
  BY ONLY <1>1, <1>2, <1>5, <1>6
<1>8. ASSUME NEW i \in 1..Len(b) PROVE (a \o c)[i] = b[i]
  <2>1. CASE i <= k
    BY ONLY <1>1, <1>2, <1>5, <1>6, <2>1
  <2>2. CASE ~(i <= k)
    <3>1. i - k \in 1..Len(c) /\ k + (i - k) = i
      BY ONLY <1>1, <1>5, <2>2, i \in 1..Len(b)
    <3>2. (a \o c)[i] = c[i - k]
      BY ONLY <1>1, <1>2, <1>5, <1>6, <2>2, i \in 1..Len(b)
    <3> QED BY ONLY <1>5, <3>1, <3>2
  <2> QED BY <2>1, <2>2
<1>9. a \o c = b
  BY <1>1, <1>6, <1>7, <1>8, SeqEqual
<1> QED BY <1>9 DEF a, c

\* The candidate of a quiet sync is the start of the source.
LEMMA StartOfSource ==
  ASSUME TypeOK, Trimmed
  PROVE  /\ Len(cand.bytes) <= Len(src.bytes) /\ Agree(DOMAIN cand.bytes)
         /\ MarkOf(src).size >= Len(cand.bytes)
<1>1. src.bytes \in Contents
  <2>1. Files
    BY Zenon, TypeParts
  <2> QED BY ONLY <2>1 DEF Files, Source
<1>2. Len(src.bytes) \in Nat /\ DOMAIN src.bytes = 1..Len(src.bytes)
  BY <1>1, ContentsAre, LenProperties
<1>3. LastCompleteLine(src.bytes) \in 0..Len(src.bytes)
  BY <1>1, LastLine
<1>4. CASE publishSize = 0
  BY ONLY <1>2, <1>4, Trimmed DEF Trimmed, Agree, MarkOf
<1>5. CASE publishSize # 0
  <2>1. /\ cand.bytes = SubSeq(src.bytes, 1, publishSize) /\ publishSize \in 0..Len(src.bytes)
    BY ONLY <1>3, <1>5, Trimmed DEF Trimmed
  <2>2. /\ Len(cand.bytes) = publishSize /\ \A i \in 1..publishSize : cand.bytes[i] = src.bytes[i]
        /\ cand.bytes \in Contents
    BY ONLY <1>1, <2>1, Cut
  <2>3. DOMAIN cand.bytes = 1..publishSize
    BY ONLY <2>2, ContentsAre, LenProperties
  <2> QED BY ONLY <1>2, <2>1, <2>2, <2>3 DEF Agree, MarkOf
<1> QED BY <1>4, <1>5

LEMMA GrownSame == ASSUME NEW m PROVE Grown(m, m)
  BY Zenon DEF Grown

LEMMA Quietly ==
  ASSUME [Next]_vars, quiet', ~Begin PROVE quiet /\ ~Fault /\ ~World
<1>1. ~Fault /\ ~World
  BY Zenon DEF Fault, World, Grow, Rewrite, Archive, Intrude, Written
<1>2. quiet' = quiet \/ quiet' = FALSE
  BY ZenonT(60) DEF Next, Line, BindSource, BindDestination, CreateStage, Clone, Copy, Staged, Trim,
      Sync, Enter, Compare, CompareRest, After, Terminal, Decide, Retain, Retire, Retired, Publish, Rename,
      Tidy, Orient, CleanUp, Close, Fail, FailsAt, Stop, Grow, Rewrite, Archive, Intrude, Written,
      Fault, vars
<1> QED BY ONLY <1>1, <1>2, quiet', Zenon

LEMMA PeaceOpening ==
  ASSUME TypeOK, Peaceful, Opening, quiet', ~Fault PROVE Peaceful'
<1>0. /\ srcHere /\ pc \notin Failed
      /\ pc # "bind source" => high = MarkOf(src)
      /\ pc \notin {"bind source", "bind destination", "tidy", "done"} => dest = expected
      /\ method = "copy" \/ pc = "copy" => fallback = src
      /\ pc \in {"staged", "trim"} => cand.bytes = src.bytes
  BY Zenon DEF Peaceful
<1>1. src' = src /\ srcHere' = srcHere /\ MarkOf(src)' = MarkOf(src)
  BY OpeningFrame, Zenon DEF MarkOf
<1>2. Grown(MarkOf(src), MarkOf(src))
  BY GrownSame
<1>3. \/ /\ pc' = "bind destination" /\ high' = MarkOf(src) /\ method' = method /\ fallback' = fallback
         /\ dest' = dest /\ expected' = expected /\ pc = "bind source"
      \/ /\ pc' = "create stage" /\ high' = high /\ method' = method /\ fallback' = fallback
         /\ dest' = dest /\ expected' = dest /\ pc = "bind destination"
      \/ /\ pc' = "clone" /\ high' = high /\ method' = method /\ fallback' = fallback
         /\ dest' = dest /\ expected' = expected /\ pc = "create stage"
      \/ /\ pc' = "staged" /\ high' = high /\ method' = "reflink" /\ cand'.bytes = src.bytes
         /\ dest' = dest /\ expected' = expected /\ pc = "clone"
      \/ /\ pc' = "copy" /\ high' = high /\ method' = method /\ fallback' = src
         /\ dest' = dest /\ expected' = expected /\ pc = "clone"
      \/ /\ pc' = "staged" /\ high' = high /\ fallback' = fallback /\ cand'.bytes = src.bytes
         /\ dest' = dest /\ expected' = expected /\ pc = "copy"
      \/ /\ pc' = "trim" /\ high' = MarkOf(src) /\ method' = method /\ fallback' = fallback
         /\ cand' = cand /\ dest' = dest /\ expected' = expected /\ pc = "staged"
  <2>1. CASE BindSource
    BY <1>0, <2>1, Zenon DEF BindSource, Go
  <2>2. CASE BindDestination
    BY <2>2, Zenon DEF BindDestination, Go
  <2>3. CASE CreateStage
    <3>1. pc = "create stage"
      BY <2>3, Zenon DEF CreateStage
    <3>2. srcHere /\ DestinationBound
      BY ONLY <1>0, <3>1 DEF DestinationBound
    <3> QED BY ONLY <2>3, <3>1, <3>2, Zenon DEF CreateStage, Go
  <2>4. CASE Clone
    <3>1. pc = "clone"
      BY <2>4, Zenon DEF Clone
    <3>2. srcHere /\ DestinationBound
      BY ONLY <1>0, <3>1 DEF DestinationBound
    <3>3. Candidate(src.bytes) => cand'.bytes = src.bytes
      BY DEF Candidate
    <3> QED BY ONLY <2>4, <3>1, <3>2, <3>3, ~Fault, Zenon DEF Clone, Go
  <2>5. CASE Copy
    <3>1. pc = "copy"
      BY <2>5, Zenon DEF Copy
    <3>2. srcHere /\ DestinationBound /\ fallback = src
      BY ONLY <1>0, <3>1 DEF DestinationBound
    <3>3. src.bytes \in Contents
      <4>1. Files
        BY Zenon, TypeParts
      <4> QED BY ONLY <4>1 DEF Files, Source
    <3>4. PICK k \in 0..Len(fallback.bytes) :
            Candidate(SubSeq(fallback.bytes, 1, k) \o SubSeq(src.bytes, k + 1, Len(src.bytes)))
      BY <2>5, <3>2, Zenon DEF Copy
    <3>5. SubSeq(fallback.bytes, 1, k) \o SubSeq(src.bytes, k + 1, Len(src.bytes)) = src.bytes
      BY ONLY <3>2, <3>3, k \in 0..Len(fallback.bytes), ReadTwice
    <3>6. cand'.bytes = src.bytes
      BY ONLY <3>4, <3>5 DEF Candidate
    <3> QED BY ONLY <2>5, <3>1, <3>2, <3>6, Zenon DEF Copy, Go
  <2>6. CASE Staged
    <3>1. pc = "staged"
      BY <2>6, Zenon DEF Staged
    <3>2. cand.bytes = src.bytes /\ (method = "copy" => src = fallback) /\ high = MarkOf(src)
      BY ONLY <1>0, <3>1
    <3>3. Len(src.bytes) >= Len(cand.bytes)
      BY <3>2, SizeTypes
    <3>4. Grown(MarkOf(src), high)
      BY ONLY <1>2, <3>2
    <3> QED BY ONLY <2>6, <3>1, <3>2, <3>3, <3>4, Zenon DEF Staged, Go
  <2> QED BY <2>1, <2>2, <2>3, <2>4, <2>5, <2>6, Zenon DEF Opening
<1>4. /\ pc' \notin Failed \cup {"bind source", "tidy", "done"} \cup PastTrim \cup Looking
      /\ ~Holds(Keeping)'
  BY ONLY <1>3 DEF Failed, PastTrim, Looking, Holds, PrefixSteps, Keeping
<1>5. /\ high' = MarkOf(src)
      /\ pc' # "bind destination" => dest' = expected'
      /\ method' = "copy" \/ pc' = "copy" => fallback' = src
      /\ pc' \in {"staged", "trim"} => cand'.bytes = src.bytes
  BY ONLY <1>0, <1>3
<1>6. pc' \notin Failed /\ pc' \notin PastTrim /\ pc' \notin Looking /\ pc' # "terminal" /\ pc' # "tidy"
  BY ONLY <1>4 DEF Looking
<1>7. srcHere'
  BY ONLY <1>0, <1>1, Zenon
<1> QED BY ONLY <1>1, <1>4, <1>5, <1>6, <1>7, Zenon DEF Peaceful

LEMMA PeaceTrim == ASSUME TypeOK, Peaceful, Trim, quiet' PROVE Peaceful'
<1>1. pc = "trim"
  BY Zenon DEF Trim
<1>2. /\ srcHere /\ high = MarkOf(src) /\ dest = expected /\ (method = "copy" => fallback = src)
      /\ cand.bytes = src.bytes
  BY <1>1 DEF Peaceful
<1>3. /\ srcHere' = srcHere /\ high' = high /\ src' = src /\ dest' = dest /\ expected' = expected
      /\ method' = method /\ fallback' = fallback
      /\ publishSize' = LastCompleteLine(cand.bytes)
      /\ \/ publishSize' = 0 /\ pc' = "retain" /\ cand' = cand
         \/ publishSize' # 0 /\ pc' = "sync"
            /\ cand' = [cand EXCEPT !.bytes = SubSeq(cand.bytes, 1, publishSize')]
  BY Zenon DEF Trim, Go
<1>4. publishSize' = 0 => cand'.bytes = cand.bytes
  BY ONLY <1>3, Zenon
<1>5. publishSize' # 0 => cand'.bytes = SubSeq(cand.bytes, 1, publishSize')
  BY ONLY <1>3, TypeOK, CandidateRead, Zenon
<1>6. Trimmed'
  BY ONLY <1>2, <1>3, <1>4, <1>5, Zenon DEF Trimmed
<1>7. pc' \in {"retain", "sync"} /\ (pc' = "sync" => ~Holds(Keeping)')
  BY ONLY <1>3 DEF Holds, PrefixSteps, Keeping
<1>8. /\ pc' \notin Failed /\ pc' # "copy" /\ pc' \notin {"staged", "trim"}
      /\ pc' \notin Looking /\ pc' # "terminal" /\ pc' # "tidy"
  BY ONLY <1>7 DEF Failed, Looking
<1>9. MarkOf(src)' = MarkOf(src)
  BY ONLY <1>3, Zenon DEF MarkOf
<1>10. pc' # "sync" => publishSize' = 0
  BY ONLY <1>3
<1> QED BY ONLY <1>2, <1>3, <1>6, <1>7, <1>8, <1>9, <1>10, Zenon DEF Peaceful

LEMMA PeaceInner ==
  ASSUME TypeOK, Control, Peaceful, Inner, quiet' PROVE Peaceful'
<1>0. /\ srcHere /\ pc \notin Failed /\ pc \in PastTrim \ {"tidy", "done"} /\ high = MarkOf(src)
      /\ dest = expected /\ (method = "copy" => src = fallback) /\ Trimmed
      /\ pc \in Looking => before = MarkOf(src) /\ ~grew
      /\ pc = "terminal" => after = MarkOf(src)
      /\ Holds(Keeping) => publishSize = 0 \/ dest.bytes = cand.bytes
  <2>1. pc \in PastTrim \ {"tidy", "done"}
    BY InnerFlow, Zenon
  <2>2. pc # "bind source" /\ pc \notin {"bind source", "bind destination", "tidy", "done"}
    BY ONLY <2>1 DEF PastTrim, PrefixSteps
  <2> QED BY <2>1, <2>2, Zenon DEF Peaceful
<1>1. /\ src' = src /\ srcHere' = srcHere /\ dest' = dest /\ expected' = expected
      /\ method' = method /\ fallback' = fallback /\ publishSize' = publishSize
      /\ cand'.bytes = cand.bytes /\ MarkOf(src)' = MarkOf(src)
  BY InnerFrame, Zenon DEF MarkOf
<1>2. /\ Len(cand.bytes) <= Len(src.bytes) /\ Agree(DOMAIN cand.bytes)
      /\ MarkOf(src).size >= Len(cand.bytes) /\ Grown(MarkOf(src), MarkOf(src))
  BY <1>0, StartOfSource, GrownSame
<1>3. DestinationBound
  BY ONLY <1>0, Zenon DEF DestinationBound
<1>4. ~(MarkOf(src).size > MarkOf(src).size)
  <2>1. MarkOf(src).size \in Nat
    BY SizeTypes
  <2> QED BY ONLY <2>1
<1>5. high' = MarkOf(src)
  BY <1>0, HighGrows, Zenon
<1>6. /\ pc' \in PastTrim \ {"tidy"}
      /\ pc' = "compare" => before' = MarkOf(src) /\ ~grew'
      /\ pc' \in Looking \ {"compare"} => pc \in Looking /\ before' = before /\ grew' = grew
      /\ pc' = "terminal" => after' = MarkOf(src)
  <2> DEFINE Onward == /\ pc' \in PastTrim \ {"tidy"}
                       /\ pc' = "compare" => before' = MarkOf(src) /\ ~grew'
                       /\ pc' \in Looking \ {"compare"} =>
                            pc \in Looking /\ before' = before /\ grew' = grew
                       /\ pc' = "terminal" => after' = MarkOf(src)
  <2>1. CASE Enter
    <3>1. before' = MarkOf(src) /\ grew' = (Len(src.bytes) > high.size)
      BY <2>1, Zenon DEF Enter
    <3>2. Grown(before', high) /\ before'.size >= Len(cand.bytes)
      BY ONLY <1>0, <1>2, <3>1, Zenon
    <3>3. pc' = "compare"
      BY ONLY <1>0, <2>1, <3>2, Zenon DEF Enter, Go
    <3>4. ~(Len(src.bytes) > high.size)
      BY ONLY <1>0, <1>4 DEF MarkOf
    <3>5. ~grew'
      BY ONLY <3>1, <3>4, Zenon
    <3> QED BY ONLY <3>1, <3>3, <3>5 DEF PastTrim, PrefixSteps, Looking
  <2>2. CASE Compare
    <3>1. Agree(DOMAIN cand.bytes \cap {1})
      BY ONLY <1>2, Zenon DEF Agree
    <3>2. pc = "compare" /\ pc' = "compare rest" /\ before' = before /\ grew' = grew
      BY ONLY <2>2, <3>1, Zenon DEF Compare, Go
    <3> QED BY ONLY <3>2 DEF PastTrim, PrefixSteps, Looking
  <2>3. CASE CompareRest
    <3>1. Agree(DOMAIN cand.bytes \ {1})
      BY ONLY <1>2, Zenon DEF Agree
    <3>2. pc = "compare rest" /\ pc' = "after" /\ before' = before /\ grew' = grew
      BY ONLY <2>3, <3>1, Zenon DEF CompareRest, Go
    <3> QED BY ONLY <3>2 DEF PastTrim, PrefixSteps, Looking
  <2>4. CASE After
    <3>1. pc = "after" /\ after' = MarkOf(src) /\ before' = before /\ grew' = grew
      BY <2>4, Zenon DEF After
    <3>2. before = MarkOf(src)
      BY ONLY <1>0, <3>1 DEF Looking
    <3>3. Grown(after', before) /\ Grown(after', high)
      BY ONLY <1>0, <1>2, <3>1, <3>2, Zenon
    <3>4. pc' = "terminal"
      BY ONLY <1>0, <2>4, <3>3, Zenon DEF After, Go
    <3> QED BY ONLY <3>1, <3>4 DEF PastTrim, PrefixSteps, Looking
  <2>5. CASE Terminal
    <3>1. pc = "terminal"
      BY <2>5, Zenon DEF Terminal
    <3>2. before = MarkOf(src) /\ ~grew /\ after = MarkOf(src)
      BY ONLY <1>0, <3>1 DEF Looking
    <3> DEFINE again == grew \/ after.size > before.size \/ MarkOf(src).size > after.size
    <3>3. ~again
      BY ONLY <1>4, <3>2, Zenon
    <3>4. ~(~Grown(MarkOf(src), high) \/ (method = "copy" /\ src # fallback)
            \/ (again /\ attempt = MaxAttempts))
      <4> HIDE DEF again
      <4> QED BY ONLY <1>0, <1>2, <3>3, Zenon
    <3>5. pc' = back
      <4> HIDE DEF again
      <4> QED BY ONLY <2>5, <3>3, <3>4, Zenon DEF Terminal, again, Go
    <3>6. back \in {"decide", "retire", "done", "authorized", "rename"}
      BY ONLY <3>1, Control DEF Control, PrefixSteps
    <3> QED BY ONLY <3>5, <3>6 DEF PastTrim, PrefixSteps, Looking
  <2>6. CASE Sync \/ Decide \/ Retain \/ Retire \/ Retired \/ Publish
    <3>1. pc' \in {"enter", "retain", "publish", "retired"}
      BY ONLY <1>0, <1>3, <2>6, ZenonT(60) DEF Sync, Decide, Retain, Retire, Retired, Publish, Call, Go
    <3> QED BY ONLY <3>1 DEF PastTrim, PrefixSteps, Looking
  <2> QED BY <2>1, <2>2, <2>3, <2>4, <2>5, <2>6, Zenon DEF Inner
<1>7. Holds(Keeping)' => \/ Holds(Keeping)
                         \/ Holds(Publishing) /\ expected.bytes = cand.bytes
  BY InnerFlow, Zenon DEF Keeping
<1>8. Holds(Keeping)' => publishSize' = 0 \/ dest'.bytes = cand'.bytes
  BY ONLY <1>0, <1>1, <1>7, Zenon
<1>9. Trimmed'
  BY ONLY <1>0, <1>1, Zenon DEF Trimmed
<1>10. /\ pc' \notin Failed /\ pc' # "copy" /\ pc' \notin {"staged", "trim"} /\ pc' # "tidy"
       /\ pc' \in Looking => before' = MarkOf(src) /\ ~grew'
  <2>1. pc' \notin Failed /\ pc' # "copy" /\ pc' \notin {"staged", "trim"} /\ pc' # "tidy"
    BY ONLY <1>6 DEF PastTrim, PrefixSteps, Failed
  <2>2. pc' \in Looking => before' = MarkOf(src) /\ ~grew'
    BY ONLY <1>0, <1>6, Zenon
  <2> QED BY ONLY <2>1, <2>2, Zenon
<1> QED BY ONLY <1>0, <1>1, <1>5, <1>6, <1>8, <1>9, <1>10, Zenon DEF Peaceful

LEMMA PeaceRename ==
  ASSUME TypeOK, Sized, Peaceful, Rename \/ Tidy, quiet', ~Fault PROVE Peaceful'
<1>1. /\ srcHere /\ pc \in {"rename", "tidy"} /\ high = MarkOf(src)
      /\ pc = "rename" => dest = expected
      /\ (method = "copy" => src = fallback) /\ Trimmed
      /\ pc = "tidy" => dest.id = run /\ dest.bytes = cand.bytes /\ publishSize # 0
  <2>1. pc \in {"rename", "tidy"}
    BY Zenon DEF Rename, Tidy
  <2>2. /\ pc # "bind source"
        /\ pc = "rename" => pc \notin {"bind source", "bind destination", "tidy", "done"}
        /\ pc \in PastTrim
    BY ONLY <2>1 DEF PastTrim
  <2> QED BY <2>1, <2>2, Zenon DEF Peaceful
<1>2. /\ src' = src /\ srcHere' = srcHere /\ high' = high /\ method' = method /\ fallback' = fallback
      /\ publishSize' = publishSize /\ MarkOf(src)' = MarkOf(src)
  BY Zenon DEF Rename, Tidy, MarkOf
<1>3. CASE Rename
  <2>1. pc = "rename"
    BY <1>3, Zenon DEF Rename
  <2>2. dest.id = expected.id /\ publishSize # 0
    <3>1. Holds(Publishing \cup {"sync"})
      BY ONLY <2>1 DEF Holds, Publishing
    <3> QED BY ONLY <1>1, <2>1, <3>1, Sized, Zenon DEF Sized
  <2>3. Renamed /\ pc' = "tidy"
    BY ONLY <1>3, <2>2, ~Fault, quiet', Zenon DEF Rename, Go
  <2>4. dest'.id = run /\ dest'.bytes = cand.bytes /\ run' = run
    <3>1. dest' = [id |-> run, bytes |-> cand.bytes]
      BY ONLY <2>3, Zenon DEF Renamed
    <3>2. run' = run
      BY <1>3, Zenon DEF Rename
    <3> QED BY ONLY <3>1, <3>2
  <2>5. cand'.bytes = cand.bytes
    BY ONLY <2>3, TypeOK, CandidateRead, Zenon DEF Renamed
  <2>6. Trimmed'
    BY ONLY <1>1, <1>2, <2>5, Zenon DEF Trimmed
  <2>7. /\ pc' \notin Failed /\ pc' # "copy" /\ pc' \notin {"staged", "trim"} /\ pc' \notin Looking
        /\ pc' \in {"bind source", "bind destination", "tidy", "done"} /\ pc' # "terminal" /\ ~Holds(Keeping)'
    BY ONLY <2>3 DEF Failed, Looking, Holds, Keeping, PrefixSteps
  <2> QED BY ONLY <1>1, <1>2, <2>2, <2>4, <2>5, <2>6, <2>7, Zenon DEF Peaceful
<1>4. CASE Tidy
  <2>1. pc = "tidy" /\ dest' = dest /\ cand' = cand
    BY <1>4, Zenon DEF Tidy
  <2>2. pc' = "done"
    BY ONLY <1>1, <1>4, <2>1, Zenon DEF Tidy, Go
  <2>3. Trimmed'
    BY ONLY <1>1, <1>2, <2>1, Zenon DEF Trimmed
  <2>4. /\ pc' \notin Failed /\ pc' # "copy" /\ pc' \notin {"staged", "trim"} /\ pc' \notin Looking
        /\ pc' \in {"bind source", "bind destination", "tidy", "done"} /\ pc' # "terminal" /\ pc' # "tidy"
    BY ONLY <2>2 DEF Failed, Looking
  <2> QED BY ONLY <1>1, <1>2, <2>1, <2>3, <2>4, Zenon DEF Peaceful
<1> QED BY <1>3, <1>4

LEMMA PeaceStep ==
  ASSUME TypeOK, Control, Sized, Peace, [Next]_vars PROVE Peace'
<1> SUFFICES ASSUME quiet', pc' # "idle" PROVE Peaceful'
  BY Zenon DEF Peace
<1>1. CASE Begin
  <2>1. /\ quiet' = srcHere /\ srcHere' = srcHere /\ pc' = "bind source" /\ method' = "null"
    BY <1>1, Zenon DEF Begin
  <2>2. /\ pc' \notin Failed /\ pc' \in {"bind source", "bind destination", "tidy", "done"}
        /\ pc' # "copy" /\ pc' \notin {"staged", "trim"} /\ pc' \notin PastTrim /\ pc' \notin Looking
        /\ pc' # "terminal" /\ pc' # "tidy" /\ ~Holds(Keeping)' /\ method' # "copy"
    BY ONLY <2>1 DEF Failed, PastTrim, PrefixSteps, Looking, Holds, Keeping
  <2>3. srcHere'
    BY ONLY <2>1, quiet', Zenon
  <2> QED BY ONLY <2>1, <2>2, <2>3, Zenon DEF Peaceful
<1>2. CASE ~Begin
  <2>1. quiet /\ ~Fault /\ ~World
    BY <1>2, Quietly
  <2>2. CASE pc = "idle"
    <3>1. ~Opening /\ ~Trim /\ ~Inner /\ ~Rename /\ ~Tidy /\ ~Ending
      BY <2>2 DEF Opening, Trim, Inner, Rename, Tidy, Ending, BindSource, BindDestination,
        CreateStage, Clone, Copy, Staged, Sync, Enter, Compare, CompareRest, After, Terminal, Decide,
        Retain, Retire, Retired, Publish, Orient, CleanUp, Close, Fail, FailsAt, Stop
    <3>2. pc' = pc
      BY ONLY <1>2, <2>1, <3>1, Phases, [Next]_vars, Zenon DEF vars
    <3> QED BY <2>2, <3>2
  <2>3. CASE pc # "idle"
    <3>1. Peaceful
      BY <2>1, <2>3, Zenon DEF Peace
    <3>2. ~Ending
      <4>1. pc \notin Failed
        BY ONLY <3>1, Zenon DEF Peaceful
      <4>2. Ending => pc' = "idle" \/ pc \in {"raised", "clean up"} \/ Fault
        BY Zenon DEF Ending, Fail, FailsAt, Orient, CleanUp, Close, Stop
      <4>3. pc \notin {"raised", "clean up"}
        BY ONLY <4>1 DEF Failed
      <4> QED BY ONLY <2>1, <4>2, <4>3, pc' # "idle", Zenon
    <3>3. UNCHANGED vars => Peaceful'
      <4> SUFFICES ASSUME UNCHANGED vars PROVE Peaceful'
        OBVIOUS
      <4>1. /\ pc' = pc /\ back' = back /\ src' = src /\ srcHere' = srcHere /\ high' = high
            /\ dest' = dest /\ expected' = expected /\ method' = method /\ fallback' = fallback
            /\ cand' = cand /\ publishSize' = publishSize /\ before' = before /\ grew' = grew
            /\ after' = after /\ run' = run
        BY Zenon DEF vars
      <4>2. MarkOf(src)' = MarkOf(src) /\ (Holds(Keeping)' <=> Holds(Keeping))
        BY ONLY <4>1, Zenon DEF MarkOf, Holds
      <4>3. Trimmed' <=> Trimmed
        BY ONLY <4>1, Zenon DEF Trimmed
      <4> QED BY ONLY <3>1, <4>1, <4>2, <4>3, Zenon DEF Peaceful
    <3> QED BY <1>2, <2>1, <3>1, <3>2, <3>3, Phases, PeaceOpening, PeaceTrim, PeaceInner,
          PeaceRename, Zenon
  <2> QED BY <2>2, <2>3
<1> QED BY <1>1, <1>2

\* A sync that was quiet to its end has caught up.
LEMMA CaughtUp ==
  ASSUME TypeOK, Control, Oriented, Peace, QuietSyncCatchesUp, [Next]_vars
  PROVE  QuietSyncCatchesUp'
<1> DEFINE lines == SubSeq(src.bytes, 1, LastCompleteLine(src.bytes))
           Good == /\ receipt.outcome \in {"updated", "unchanged", "no-complete-line"}
                   /\ lines # <<>> => dest.bytes = lines
<1> SUFFICES ASSUME pc' = "idle", receipt' # NoReceipt, quiet' PROVE Good'
  BY Zenon DEF QuietSyncCatchesUp, Over
<1>1. CASE Begin
  BY <1>1 DEF Begin
<1>2. CASE ~Begin
  <2>1. quiet /\ ~Fault /\ ~World
    BY <1>2, Quietly
  <2>2. CASE Close
    <3>1. /\ pc \in {"done", "close"} /\ src' = src /\ dest' = dest
          /\ receipt' = Receipt(Outcome(TRUE))
      BY <2>1, <2>2, Zenon DEF Close
    <3>2. pc # "idle"
      BY ONLY <3>1
    <3>3. Peaceful
      BY ONLY <2>1, <3>2, Peace, Zenon DEF Peace
    <3>4. pc = "done"
      <4>1. pc \notin Failed
        BY ONLY <3>3, Zenon DEF Peaceful
      <4> QED BY ONLY <3>1, <4>1 DEF Failed
    <3>5. /\ publishSize = LastCompleteLine(src.bytes)
          /\ cand.bytes = IF publishSize = 0 THEN src.bytes ELSE SubSeq(src.bytes, 1, publishSize)
          /\ publishSize = 0 \/ dest.bytes = cand.bytes
      <4>1. pc \in PastTrim /\ Holds(Keeping)
        BY ONLY <3>4 DEF PastTrim, Holds, Keeping
      <4> QED BY ONLY <3>3, <4>1, Zenon DEF Peaceful, Trimmed
    <3>6. error = "none"
      BY ONLY <3>4, Control DEF Control, Failed
    <3>7. receipt'.outcome = Outcome(TRUE)
      BY ONLY <3>1 DEF Receipt
    <3>8. Outcome(TRUE) = Success
      BY ONLY <3>6, Zenon DEF Outcome
    <3>9. Success \in {"updated", "unchanged", "no-complete-line"}
      BY Zenon DEF Success
    <3>10. lines # <<>> => dest.bytes = lines
      <4>1. CASE publishSize = 0
        <5>1. src.bytes \in Contents
          <6>1. Files
            BY Zenon, TypeParts
          <6> QED BY ONLY <6>1 DEF Files, Source
        <5>2. SubSeq(src.bytes, 1, 0) \in Contents /\ Len(SubSeq(src.bytes, 1, 0)) = 0
          <6>1. 0 \in 0..Len(src.bytes)
            BY ONLY <5>1, ContentsLength, Bounds
          <6> QED BY ONLY <5>1, <6>1, Cut
        <5>3. SubSeq(src.bytes, 1, 0) = <<>>
          BY ONLY <5>2, ContentsAre, EmptySeq
        <5>4. lines = SubSeq(src.bytes, 1, 0)
          BY ONLY <3>5, <4>1
        <5> QED BY ONLY <5>3, <5>4
      <4>2. CASE publishSize # 0
        BY ONLY <3>5, <4>2
      <4> QED BY ONLY <4>1, <4>2
    <3>11. lines' = lines
      BY ONLY <3>1, Zenon
    <3>12. receipt'.outcome \in {"updated", "unchanged", "no-complete-line"}
      BY ONLY <3>7, <3>8, <3>9
    <3> QED BY ONLY <3>1, <3>10, <3>11, <3>12, Zenon
  <2>3. CASE ~Close
    <3>1. UNCHANGED vars
      <4>1. ~Stop
        BY <2>1, Zenon DEF Stop
      <4>2. ~Opening /\ ~Trim /\ ~Rename /\ ~Tidy
        BY DEF Opening, BindSource, BindDestination, CreateStage, Clone, Copy, Staged, Trim, Rename,
          Tidy, Go, Raise
      <4>3. ~Fail /\ ~Orient /\ ~CleanUp
        BY DEF Fail, FailsAt, Orient, CleanUp, Go, Raise
      <4>4. ~Inner
        <5>1. Inner => pc' \in (PastTrim \ {"sync", "tidy"}) \cup {"raised"}
          BY InnerFlow, Zenon
        <5>2. pc' \notin (PastTrim \ {"sync", "tidy"}) \cup {"raised"}
          BY DEF PastTrim, PrefixSteps
        <5> QED BY ONLY <5>1, <5>2, Zenon
      <4> QED BY ONLY <1>2, <2>1, <2>3, <4>1, <4>2, <4>3, <4>4, Phases, [Next]_vars, Zenon DEF Ending
    <3>2. /\ pc' = pc /\ receipt' = receipt /\ quiet' = quiet /\ src' = src /\ dest' = dest
      BY <3>1, Zenon DEF vars
    <3>3. Good
      BY ONLY <3>2, pc' = "idle", receipt' # NoReceipt, quiet', QuietSyncCatchesUp, Zenon
        DEF QuietSyncCatchesUp, Over
    <3> QED BY ONLY <3>2, <3>3, Zenon
  <2> QED BY <2>2, <2>3
<1> QED BY <1>1, <1>2

--------------------------------------------------------------------------------
Inv == TypeOK /\ Control /\ Owner /\ Oriented /\ Sized /\ Answered

LEMMA Initially ==
  Init => /\ Inv /\ Whole /\ Compared /\ Lengthening /\ Peace /\ QuietSyncCatchesUp
<1> SUFFICES ASSUME Init
             PROVE  /\ Inv /\ Whole /\ Compared /\ Lengthening /\ Peace /\ QuietSyncCatchesUp
  OBVIOUS
<1>1. /\ pc = "idle" /\ back = "idle" /\ run = 0 /\ receipt = NoReceipt /\ cand = NoCandidate
      /\ stage = "none" /\ published = FALSE /\ attempted = FALSE /\ renamed = FALSE
      /\ publishSize = Null /\ error = "none" /\ partial = "null" /\ dest = NoFile
  BY Zenon DEF Init
<1>2. TypeOK
  BY TypeInitially
<1>3. \A steps : ~("idle" \in steps) => ~Holds(steps)
  <2>1. "idle" \notin PrefixSteps
    BY DEF PrefixSteps
  <2> QED BY ONLY <1>1, <2>1, Zenon DEF Holds
<1>4. /\ ~("idle" \in Publishing \cup {"sync"}) /\ ~("idle" \in Publishing) /\ ~("idle" \in Keeping)
      /\ ~("idle" \in {"retired", "done"}) /\ ~("idle" \in {"authorized", "rename"})
      /\ "idle" \notin Failed /\ "idle" \notin PrefixSteps /\ "idle" \notin {"clone", "copy"}
      /\ "idle" \notin BeforeTrim /\ "idle" \notin {"staged", "trim"} /\ "idle" \notin PastTrim
      /\ "idle" # "trim" /\ "idle" # "tidy" /\ "idle" # "done"
      /\ "idle" \notin Looking
      /\ "idle" \notin Making
  BY DEF Publishing, Keeping, Failed, PrefixSteps, BeforeTrim, PastTrim, Looking, Making
<1>5. NoCandidate.at # "staged" /\ NoFile.id = Absent /\ NoFile.bytes = <<>>
  BY DEF NoCandidate, NoFile
<1>6. Control
  BY ONLY <1>1, <1>3, <1>4, <1>5, Zenon DEF Control
<1>7. Owner
  <2>1. 0 \in 0..0
    OBVIOUS
  <2> QED BY ONLY <1>1, <1>5, <2>1, Zenon DEF Owner, Absent
<1>8. Oriented
  BY ONLY <1>1, <1>3, <1>4, Zenon DEF Oriented
<1>9. Sized
  <2>1. ~Kept
    BY ONLY <1>3, <1>4, Zenon DEF Kept, Keeping
  <2> QED BY ONLY <1>1, <1>3, <1>4, <2>1, Zenon DEF Sized
<1>10. Answered
  BY ONLY <1>1, Zenon DEF Answered
<1>11. Whole
  BY ONLY <1>3, <1>4, Zenon DEF Whole
<1>12. Compared
  BY ONLY <1>1, <1>4, Zenon DEF Compared
<1>13. Lengthening
  <2>1. src.bytes \in Contents
    <3>1. Files
      BY <1>2, Zenon, TypeParts
    <3> QED BY ONLY <3>1 DEF Files, Source
  <2>2. IsPrefix(<<>>, src.bytes)
    BY ONLY <2>1, PrefixSame
  <2> QED BY ONLY <1>1, <1>4, <1>5, <2>2, Zenon DEF Lengthening
<1>14. Peace
  BY ONLY <1>1, Zenon DEF Peace
<1>15. QuietSyncCatchesUp
  BY ONLY <1>1, Zenon DEF QuietSyncCatchesUp, Over
<1> QED BY ONLY <1>2, <1>6, <1>7, <1>8, <1>9, <1>10, <1>11, <1>12, <1>13, <1>14, <1>15, Zenon DEF Inv

LEMMA Invariance == Spec => []Inv
<1>1. Init => Inv
  BY Initially, Zenon
<1>2. Inv /\ [Next]_vars => Inv'
  <2> SUFFICES ASSUME Inv, [Next]_vars PROVE Inv'
    OBVIOUS
  <2>1. TypeOK'
    BY Zenon, TypeStep DEF Inv
  <2>2. Control' /\ Owner' /\ Oriented' /\ Sized' /\ Answered'
    BY Zenon, ControlStep, OwnerStep, OrientedStep, SizedStep, AnsweredStep DEF Inv
  <2> QED BY ONLY <2>1, <2>2, Zenon DEF Inv
<1> QED BY <1>1, <1>2, PTL DEF Spec

\* What the helper keeps of a sync, and the files it works on, have their types: no size or
\* generation it records is one the source or the mirror cannot have had.
THEOREM TypeCorrect == Spec => []TypeOK
<1>1. Inv => TypeOK
  BY Zenon DEF Inv
<1> QED BY <1>1, Invariance, PTL

\* A receipt says that the destination was replaced only if it was, that it was not only
\* if it was not, and is undecided only as a fatal one (_receipt, _fatal_receipt and
\* _orient_publish_failure after whatever failed).
THEOREM ReceiptTruthful == Spec => []ReceiptTrue
<1>1. Inv => ReceiptTrue
  BY Zenon, ReceiptTrueNow DEF Inv
<1> QED BY <1>1, Invariance, PTL

\* Every outcome but a fatal one has removed the private stage and the candidate in it.
THEOREM StageRemoved == Spec => []NothingLeftBehind
<1>1. Inv => NothingLeftBehind
  BY Zenon, NothingLeftNow DEF Inv
<1> QED BY <1>1, Invariance, PTL

\* validate-receipt accepts every receipt sync-one prints once it has read an existing mirror.
THEOREM ReceiptsAccepted == Spec => []ReceiptAccepted
<1>1. Inv => ReceiptAccepted
  BY Zenon, AcceptedNow DEF Inv
<1> QED BY <1>1, Invariance, PTL

\* A sync in which nothing failed and nobody interfered has every complete line of the
\* source in the mirror, and says so with an outcome that is no error.
THEOREM QuietSyncWorks == Spec => []QuietSyncCatchesUp
<1>1. Init => Peace /\ QuietSyncCatchesUp
  BY Initially, Zenon
<1>2. Inv /\ Peace /\ QuietSyncCatchesUp /\ [Next]_vars => (Peace /\ QuietSyncCatchesUp)'
  <2> SUFFICES ASSUME Inv, Peace, QuietSyncCatchesUp, [Next]_vars
               PROVE  (Peace /\ QuietSyncCatchesUp)'
    OBVIOUS
  <2> QED BY Zenon, PeaceStep, CaughtUp DEF Inv
<1> QED BY <1>1, <1>2, Invariance, PTL DEF Spec

\* _require_source_prefix lets the helper go on only when the staged bytes are the start of
\* the source, however that was written while it was compared.
THEOREM PrefixProven == Spec => ValidatedPrefix
<1>1. Init => Compared
  BY Initially, Zenon
<1>2. Inv /\ Compared /\ [Next]_vars => Compared'
  BY Zenon, ComparedStep DEF Inv
<1>3. Inv /\ Compared /\ [Next]_vars =>
        [pc = "terminal" /\ pc' = back => IsPrefix(cand.bytes, src.bytes)]_vars
  BY Zenon, SawPrefix DEF Inv
<1> QED BY <1>1, <1>2, <1>3, Invariance, PTL DEF Spec, ValidatedPrefix

\* What the destination's name comes to refer to is a durable file of complete lines.
THEOREM WholeLinesPublished == Spec => PublishedWhole
<1>1. Init => Whole
  BY Initially, Zenon
<1>2. Inv /\ Whole /\ [Next]_vars => Whole'
  BY Zenon, WholeStep DEF Inv
<1>3. Inv /\ Whole /\ [Next]_vars =>
        [dest'.id = run /\ dest'.id # dest.id
           => cand.synced /\ dest'.bytes # <<>> /\ dest'.bytes[Len(dest'.bytes)] = NL]_vars
  BY Zenon, OnlyRenamed DEF Inv
<1> QED BY <1>1, <1>2, <1>3, Invariance, PTL DEF Spec, PublishedWhole

\* Of a source that is only appended to, no sync, not even one that fails or is killed,
\* takes a line from the mirror.
THEOREM MirrorOnlyGrows == Spec => MirrorGrows
<1>1. Init => Whole /\ Lengthening
  BY Initially, Zenon
<1>2. Inv /\ Whole /\ [Next]_vars => Whole'
  BY Zenon, WholeStep DEF Inv
<1>3. Inv /\ Whole /\ Lengthening /\ [Next]_vars => Lengthening'
  BY Zenon, LengtheningStep DEF Inv
<1>4. Inv /\ Lengthening /\ [Next]_vars =>
        [~rewritten /\ intrusions' = 0 /\ churns' = 0 => IsPrefix(dest.bytes, dest'.bytes)]_vars
  BY Zenon, OnlyLengthens DEF Inv
<1> QED BY <1>1, <1>2, <1>3, <1>4, Invariance, PTL DEF Spec, MirrorGrows
================================================================================
