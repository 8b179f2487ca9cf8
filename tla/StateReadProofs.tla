---------------------------- MODULE StateReadProofs ----------------------------
(***************************************************************************)
(* Proofs about StateRead, for any blocks, any number of attempts and any   *)
(* number of writes and renames by outsiders.                               *)
(***************************************************************************)
EXTENDS StateRead, SequenceTheorems, TLAPS

Reading == {"first", "middle", "second", "after"}

\* The generations an attempt has seen are past or present, and while the one it
\* began with is the present one, what it has read is what the file holds; once the
\* last fstat has found it unmoved, what it has read is what the file has held.
Faithful ==
  /\ generation <= intrusions
  /\ before <= generation /\ after <= generation
  /\ pc \in Reading /\ before = generation =>
       /\ \A i \in 1..Len(first) : first[i] = content[i]
       /\ \A i \in 1..Len(second) : second[i] = content[i]
  /\ pc \in Reading => content \in held /\ (isMapped => content \in named)
  /\ pc = "after" => Len(second) = Size /\ (before = after => second \in held)

\* The readings as sequences, with their types.
Texts ==
  /\ content \in [1..Size -> Blocks]
  /\ first \in Seq(Blocks) /\ Len(first) <= Size
  /\ second \in Seq(Blocks) /\ Len(second) <= Size
  /\ observed \in [1..Size -> Blocks] \cup {<<>>}
  /\ result \in [1..Size -> Blocks] \cup {<<>>}
  /\ held \subseteq [1..Size -> Blocks] /\ named \subseteq [1..Size -> Blocks]

Counters ==
  /\ generation \in Nat /\ before \in Nat /\ after \in Nat
  /\ middle \in 0..MaxIntrusions /\ confirmed \in 0..MaxIntrusions
  /\ attempt \in 1..Attempts /\ intrusions \in 0..MaxIntrusions

Labels ==
  /\ isMapped \in BOOLEAN
  /\ pc \in {"begin", "first", "middle", "second", "after", "accepted", "refused"}

ReadInv == Texts /\ Counters /\ Labels /\ Faithful /\ NoTornRecord

LEMMA ReadInitially == Init => ReadInv
<1> SUFFICES ASSUME Init PROVE ReadInv
  OBVIOUS
<1>1. Texts
  BY DEF Init, Texts, Contents, Size
<1>2. Counters
  BY ReadAssumption DEF Init, Counters
<1>3. Labels
  BY DEF Init, Labels
<1>4. Faithful /\ NoTornRecord
  BY DEF Init, Faithful, NoTornRecord, Reading
<1> QED
  BY <1>1, <1>2, <1>3, <1>4 DEF ReadInv

\* The blocks of a reading that is complete are those of a content.
LEMMA WholeReading ==
  ASSUME NEW s \in Seq(Blocks), Len(s) = Size PROVE s \in [1..Size -> Blocks]
  BY LenProperties

LEMMA NextBlock ==
  ASSUME NEW s \in Seq(Blocks), Len(s) <= Size, Len(s) < Size, Texts
  PROVE  LET t == Append(s, content[Len(s) + 1])
         IN /\ t \in Seq(Blocks) /\ Len(t) <= Size
            /\ \A i \in 1..Len(t) : t[i] = IF i <= Len(s) THEN s[i] ELSE content[i]
<1>1. Len(s) + 1 \in 1..Size
  BY DEF Size
<1>2. content[Len(s) + 1] \in Blocks
  BY <1>1 DEF Texts
<1> QED
  BY <1>1, <1>2 DEF Size

LEMMA ReadStep == ReadInv /\ [Next]_vars => ReadInv'
<1> SUFFICES ASSUME ReadInv, [Next]_vars PROVE ReadInv'
  OBVIOUS
<1> USE DEF ReadInv, file, reader, history
<1>1. CASE Begin
  <2>1. Texts' /\ Counters'
    BY <1>1, ReadAssumption DEF Begin, Texts, Counters, Faithful, Size
  <2>2. Labels' /\ Faithful' /\ NoTornRecord'
    BY <1>1 DEF Begin, Labels, Faithful, NoTornRecord, Counters, Reading
  <2> QED
    BY <2>1, <2>2
<1>2. CASE ReadFirst
  <2>1. first \in Seq(Blocks) /\ Len(first) <= Size /\ Len(first) < Size
    BY <1>2 DEF ReadFirst, Texts
  <2>2. first' \in Seq(Blocks) /\ Len(first') <= Size
    BY <1>2, <2>1, NextBlock DEF ReadFirst
  <2>3. \A i \in 1..Len(first') : first'[i] = IF i <= Len(first) THEN first[i] ELSE content[i]
    BY <1>2, <2>1, NextBlock DEF ReadFirst
  <2>4. Texts' /\ Counters' /\ Labels' /\ NoTornRecord'
    BY <1>2, <2>2 DEF ReadFirst, Texts, Counters, Labels, NoTornRecord
  <2>5. Faithful'
    BY <1>2, <2>1, <2>3 DEF ReadFirst, Faithful, Reading
  <2> QED
    BY <2>4, <2>5
<1>3. CASE FstatMiddle
  <2>1. generation \in 0..MaxIntrusions
    BY ReadAssumption DEF Counters, Faithful
  <2>2. Texts' /\ Counters' /\ Labels' /\ NoTornRecord'
    BY <1>3, <2>1 DEF FstatMiddle, Texts, Counters, Labels, NoTornRecord
  <2>3. Faithful'
    BY <1>3 DEF FstatMiddle, Faithful, Reading
  <2> QED
    BY <2>2, <2>3
<1>4. CASE ReadSecond
  <2>1. second \in Seq(Blocks) /\ Len(second) <= Size /\ Len(second) < Size
    BY <1>4 DEF ReadSecond, Texts
  <2>2. second' \in Seq(Blocks) /\ Len(second') <= Size
    BY <1>4, <2>1, NextBlock DEF ReadSecond
  <2>3. \A i \in 1..Len(second') : second'[i] = IF i <= Len(second) THEN second[i] ELSE content[i]
    BY <1>4, <2>1, NextBlock DEF ReadSecond
  <2>4. Texts' /\ Counters' /\ Labels' /\ NoTornRecord'
    BY <1>4, <2>2 DEF ReadSecond, Texts, Counters, Labels, NoTornRecord
  <2>5. Faithful'
    BY <1>4, <2>1, <2>3 DEF ReadSecond, Faithful, Reading
  <2> QED
    BY <2>4, <2>5
<1>5. CASE FstatAfter
  <2>1. second \in [1..Size -> Blocks]
    BY <1>5, WholeReading DEF FstatAfter, Texts
  <2>2. before = generation => second = content
    BY <1>5, <2>1 DEF FstatAfter, Faithful, Reading, Texts
  <2>3. Texts' /\ Counters' /\ Labels' /\ NoTornRecord'
    BY <1>5 DEF FstatAfter, Texts, Counters, Labels, NoTornRecord
  <2>4. Faithful'
    BY <1>5, <2>2 DEF FstatAfter, Faithful, Reading, Counters
  <2> QED
    BY <2>3, <2>4
<1>6. CASE Judge
  <2>1. second \in [1..Size -> Blocks]
    BY <1>6, WholeReading DEF Judge, Texts, Faithful
  <2>2. Accept \/ Refuse \/ (attempt < Attempts /\ TryAgain)
    BY <1>6 DEF Judge
  <2>3. Texts' /\ Labels'
    BY <1>6, <2>1, <2>2 DEF Judge, Accept, Refuse, TryAgain, Texts, Labels
  <2>4. Counters'
    BY <1>6, <2>2, ReadAssumption DEF Judge, Accept, Refuse, TryAgain, Counters, Faithful
  <2>5. Faithful'
    BY <1>6, <2>2 DEF Judge, Accept, Refuse, TryAgain, Faithful, Reading
  <2>6. ASSUME pc' = "accepted" PROVE NoTornRecord'
    <3>1. /\ isMapped /\ before = after /\ result' = second /\ confirmed' = generation
          /\ UNCHANGED <<held, named, after>>
      BY <1>6, <2>6 DEF Judge, Unmoved, Accept, Refuse, TryAgain
    <3>2. pc \in Reading /\ Len(second) = Size /\ second \in held
      BY <1>6, <3>1 DEF Judge, Reading, Faithful
    <3>3. confirmed' = after' => second = content
      BY <2>1, <3>1, <3>2 DEF Faithful, Texts
    <3>4. content \in named
      BY <3>1, <3>2 DEF Faithful
    <3> QED
      BY <3>1, <3>2, <3>3, <3>4 DEF NoTornRecord
  <2> QED
    BY <2>3, <2>4, <2>5, <2>6 DEF NoTornRecord
<1>7. CASE WriteBlock
  <2>1. content' \in [1..Size -> Blocks]
    BY <1>7 DEF WriteBlock, Texts
  <2>2. Texts' /\ Labels' /\ NoTornRecord'
    BY <1>7, <2>1 DEF WriteBlock, Texts, Labels, NoTornRecord
  <2>3. Counters'
    BY <1>7, ReadAssumption DEF WriteBlock, Counters
  <2>4. Faithful'
    <3>1. generation' <= intrusions' /\ before' <= generation' /\ before' # generation'
      BY <1>7 DEF WriteBlock, Faithful, Counters
    <3>2. after' <= generation'
      BY <1>7 DEF WriteBlock, Faithful, Counters
    <3>3. /\ pc' \in Reading => content' \in held' /\ (isMapped' => content' \in named')
          /\ pc' = "after" => Len(second') = Size /\ (before' = after' => second' \in held')
      BY <1>7 DEF WriteBlock, Faithful
    <3> QED
      BY <3>1, <3>2, <3>3 DEF Faithful
  <2> QED
    BY <2>2, <2>3, <2>4
<1>8. CASE Remap
  <2>1. Texts' /\ Labels' /\ NoTornRecord'
    BY <1>8 DEF Remap, Texts, Labels, NoTornRecord
  <2>2. Counters' /\ Faithful'
    BY <1>8, ReadAssumption DEF Remap, Counters, Faithful, Reading
  <2> QED
    BY <2>1, <2>2
<1>9. CASE UNCHANGED vars
  BY <1>9 DEF vars, Texts, Counters, Labels, Faithful, NoTornRecord
<1> QED
  BY <1>1, <1>2, <1>3, <1>4, <1>5, <1>6, <1>7, <1>8, <1>9 DEF Next, Read

LEMMA ReadAlways == Spec => []ReadInv
  BY ReadInitially, ReadStep, PTL DEF Spec

\* Every variable keeps its type.
THEOREM ReadTypeCorrect == Spec => []TypeOK
<1>1. ReadInv => TypeOK
  <2> SUFFICES ASSUME ReadInv PROVE TypeOK
    OBVIOUS
  <2>1. \A s \in Seq(Blocks) : Len(s) <= Size => s \in Readings
    <3> SUFFICES ASSUME NEW s \in Seq(Blocks), Len(s) <= Size PROVE s \in Readings
      OBVIOUS
    <3>1. Len(s) \in 0..Size
      <4>1. Len(s) \in Nat
        BY LenProperties
      <4>2. \A n \in Nat : n <= Size => n \in 0..Size
        BY DEF Size
      <4> QED
        BY <4>1, <4>2
    <3>2. s \in [1..Len(s) -> Blocks]
      BY LenProperties
    <3>3. \E n \in 0..Size : s \in [1..n -> Blocks]
      BY <3>1, <3>2, Zenon
    <3> QED
      BY <3>3, Zenon DEF Readings
  <2>2. {generation, before, after} \subseteq 0..MaxIntrusions
    BY ReadAssumption DEF ReadInv, Counters, Faithful
  <2> QED
    BY <2>1, <2>2 DEF ReadInv, TypeOK, Texts, Counters, Labels, Contents
<1> QED
  BY ReadAlways, <1>1, PTL

\* An accepted record is what the held file held, all of it at one moment of the read,
\* whatever outsiders wrote and renamed between any two calls; and a record the name stood
\* for, unless they wrote it between the last fstat and the look at the name.
THEOREM NeverMixed == Spec => []NoTornRecord
<1>1. ReadInv => NoTornRecord
  BY DEF ReadInv
<1> QED
  BY ReadAlways, <1>1, PTL
================================================================================
