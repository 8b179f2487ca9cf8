------------------------------- MODULE StateRead -------------------------------
(***************************************************************************)
(* _read_json_from_descriptor of codex_repair_rollout_reflinks.py, on whose  *)
(* answer recovery and every guard of a transaction rest.                   *)
(* The record is read through a held descriptor, twice per attempt, block   *)
(* by block, between three fstats; only then the name is looked at.         *)
(* Outsiders may between any two of these calls write a block in place,     *)
(* which moves the generation (size, mtime, ctime), or make the canonical   *)
(* name refer to another file, or to this one again.                        *)
(***************************************************************************)
EXTENDS Naturals, Sequences

CONSTANTS Blocks,          \* what a block of the file may hold
          Attempts,        \* STATE_READ_ATTEMPTS
          MaxIntrusions    \* writes and renames by outsiders

ASSUME ReadAssumption == Attempts \in Nat \ {0} /\ MaxIntrusions \in Nat

Nothing == "nothing"
Size == 2

VARIABLES content,      \* the held file, block by block
          generation,
          isMapped,     \* the canonical name still maps to it
          pc, attempt,
          before, middle, after, \* generations seen by fstat
          first, second,         \* the two readings so far
          observed,              \* what an earlier attempt read
          result,
          held,         \* what the file has held since the attempt began,
          named,        \* what it has held while the name mapped to it,
          confirmed,    \* and its generation when the name was looked at
          intrusions

file == <<content, generation, isMapped, intrusions>>
reader == <<pc, attempt, before, middle, after, first, second, observed, result, confirmed>>
history == <<held, named>>
vars == <<file, reader, history>>

Contents == [1..Size -> Blocks]
Readings == UNION {[1..n -> Blocks] : n \in 0..Size}

TypeOK ==
  /\ content \in Contents /\ generation \in 0..MaxIntrusions
  /\ isMapped \in BOOLEAN
  /\ pc \in {"begin", "first", "middle", "second", "after", "accepted", "refused"}
  /\ attempt \in 1..Attempts
  /\ {before, middle, after, confirmed} \subseteq 0..MaxIntrusions
  /\ first \in Readings /\ second \in Readings
  /\ observed \in Contents \cup {<<>>} /\ result \in Contents \cup {<<>>}
  /\ held \subseteq Contents /\ named \subseteq Contents
  /\ intrusions \in 0..MaxIntrusions

\* The name has just been found to map to the file opened by it.
Init ==
  /\ content \in Contents /\ generation = 0 /\ isMapped = TRUE
  /\ pc = "begin" /\ attempt = 1
  /\ before = 0 /\ middle = 0 /\ after = 0 /\ confirmed = 0
  /\ first = <<>> /\ second = <<>> /\ observed = <<>> /\ result = <<>>
  /\ held = {} /\ named = {} /\ intrusions = 0

\* The first fstat; nothing looks at the name before the readings.
Begin ==
  /\ pc = "begin"
  /\ before' = generation
  /\ first' = <<>> /\ second' = <<>>
  /\ held' = {content} /\ named' = IF isMapped THEN {content} ELSE {}
  /\ pc' = "first"
  /\ UNCHANGED <<file, attempt, middle, after, observed, result, confirmed>>

\* _read_fd_bounded, one pread at a time.
ReadFirst ==
  /\ pc = "first" /\ Len(first) < Size
  /\ first' = Append(first, content[Len(first) + 1])
  /\ UNCHANGED <<file, history, pc, attempt, before, middle, after, second, observed, result,
                 confirmed>>

FstatMiddle ==
  /\ pc = "first" /\ Len(first) = Size
  /\ middle' = generation
  /\ pc' = "second"
  /\ UNCHANGED <<file, history, attempt, before, after, first, second, observed, result,
                 confirmed>>

ReadSecond ==
  /\ pc = "second" /\ Len(second) < Size
  /\ second' = Append(second, content[Len(second) + 1])
  /\ UNCHANGED <<file, history, pc, attempt, before, middle, after, first, observed, result,
                 confirmed>>

FstatAfter ==
  /\ pc = "second" /\ Len(second) = Size
  /\ after' = generation
  /\ pc' = "after"
  /\ UNCHANGED <<file, history, attempt, before, middle, first, second, observed, result,
                 confirmed>>

\* Mutant: two equal readings are believed without a look at the generation.
EqualIsEnough == TRUE

Unmoved == before = middle /\ middle = after

\* The readings of this and of the earlier attempts agree.
Agree == first = second /\ observed \in {<<>>, second}

Refuse == pc' = "refused" /\ UNCHANGED <<attempt, observed, result>>
Accept == pc' = "accepted" /\ observed' = second /\ result' = second /\ UNCHANGED attempt
TryAgain == pc' = "begin" /\ attempt' = attempt + 1 /\ observed' = second /\ UNCHANGED result

\* Mutant: an unstable generation is refused at once.
NoSecondChance ==
  /\ pc = "after"
  /\ confirmed' = generation
  /\ IF isMapped /\ Agree /\ Unmoved THEN Accept ELSE Refuse
  /\ UNCHANGED <<file, history, before, middle, after, first, second>>

\* The look at the name and, from what has been read, the verdict on the attempt.
Judge ==
  /\ pc = "after"
  /\ confirmed' = generation
  /\ \/ isMapped /\ Agree /\ Unmoved /\ Accept
     \/ isMapped /\ Agree /\ ~Unmoved /\ attempt < Attempts /\ TryAgain
     \/ ~(isMapped /\ Agree /\ (Unmoved \/ attempt < Attempts)) /\ Refuse
  /\ UNCHANGED <<file, history, before, middle, after, first, second>>

\* An outsider writes a block of the file, possibly what it already held.
WriteBlock ==
  /\ intrusions < MaxIntrusions /\ intrusions' = intrusions + 1
  /\ \E i \in 1..Size, b \in Blocks : content' = [content EXCEPT ![i] = b]
  /\ generation' = generation + 1
  /\ held' = held \cup {content'}
  /\ named' = IF isMapped THEN named \cup {content'} ELSE named
  /\ UNCHANGED <<isMapped, reader>>

\* An outsider renames the file away from the name, or back.
Remap ==
  /\ intrusions < MaxIntrusions /\ intrusions' = intrusions + 1
  /\ isMapped' = ~isMapped
  /\ named' = IF isMapped' THEN named \cup {content} ELSE named
  /\ UNCHANGED <<content, generation, held, reader>>

Read == Begin \/ ReadFirst \/ FstatMiddle \/ ReadSecond \/ FstatAfter \/ Judge
Next == Read \/ WriteBlock \/ Remap
Spec == Init /\ [][Next]_vars /\ WF_vars(Read)
--------------------------------------------------------------------------------
\* An accepted record is what the held file held, all of it at one moment of the
\* attempt, and never a mixture of two versions.  The name is looked at after the last
\* fstat: unless the file was written between the two, the record is one that the name
\* stood for, whatever the name referred to during the readings.
NoTornRecord ==
  pc = "accepted" => result \in held /\ (confirmed = after => result \in named)

\* Touching a record without changing it is survived while attempts are left:
\* fewer rewrites of the same bytes than attempts never refuse the read.
ToleratesTouch ==
  [](\A c \in held : c = content) /\ [](isMapped /\ intrusions < Attempts)
    => <>(pc = "accepted")
================================================================================
