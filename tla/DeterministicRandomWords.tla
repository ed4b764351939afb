----------------------- MODULE DeterministicRandomWords -----------------------
(***************************************************************************)
(* The test instrumentation of src/test/test_helpers.ts (lines 9-38) that  *)
(* replaces sjcl's prng.randomWords: each call returns nwords consecutive  *)
(* signed words starting at a global offset, wrapping to the lowest word   *)
(* past the highest, and moves the offset on by one.  The offset is a      *)
(* process global, undefined until the first call or reset.                *)
(*                                                                         *)
(* Width is the word width: 32 in the code (lowestValidNumber = -2^31,     *)
(* highestValidNumber = 2^31 - 1); runs take a smaller width so that the   *)
(* offset can be driven past the highest word in a few calls.  The offset  *)
(* itself is a JavaScript number and is never wrapped.                     *)
(***************************************************************************)
EXTENDS Integers, Sequences

CONSTANTS
    Width,      \* bits of a word
    MaxWords,   \* largest nwords a call asks for
    MaxOffset,  \* bound on the offset, i.e. on calls since the last reset
    None        \* global.deterministicOffset while undefined

ASSUME RandomWordsAssumption ==
    /\ Width \in Nat \ {0}
    /\ MaxWords \in Nat /\ MaxOffset \in Nat
    /\ None \notin Int

lowestValidNumber == -(2 ^ (Width - 1))
highestValidNumber == 2 ^ (Width - 1) - 1

\* 2^(Width - 1) is a positive natural for every Width in Nat \ {0}.  This is
\* arithmetic, not a property of the code; it is stated because the
\* provers treat ^ with a symbolic exponent as uninterpreted.
ASSUME PowerAssumption == 2 ^ (Width - 1) \in Nat \ {0}

VARIABLES
    deterministicOffset,  \* global.deterministicOffset
    requested,            \* the nwords argument of the last call
    output                \* the words the last call returned

vars == <<deterministicOffset, requested, output>>

\* Variant of the loop body below without the wrap test.
LoopStepNoWrap(s) ==
    [next |-> s.next + 1, output |-> Append(s.output, s.next)]

\* Variant of the loop body below that wraps at the highest word instead
\* of past it.
LoopStepWrapAtHighest(s) ==
    LET next == IF s.next >= highestValidNumber THEN lowestValidNumber
                ELSE s.next
    IN  [next |-> next + 1, output |-> Append(s.output, next)]

\* One iteration of the loop: wrap nextRandomInt if it is past the highest
\* word, push it, and increment it.
LoopStep(s) ==
    LET next == IF s.next > highestValidNumber THEN lowestValidNumber
                ELSE s.next
    IN  [next |-> next + 1, output |-> Append(s.output, next)]

\* The words the loop pushes for nwords, starting from offset.
Words(offset, nwords) ==
    LET loop[i \in 0 .. nwords] ==
            IF i = 0 THEN [next |-> offset, output |-> <<>>]
            ELSE LoopStep(loop[i - 1])
    IN  loop[nwords].output

\* The offset a call starts from: an undefined offset is reset to 0 first.
Offset ==
    IF deterministicOffset = None THEN 0 ELSE deterministicOffset

Init ==
    /\ deterministicOffset = None
    /\ requested = 0
    /\ output = <<>>

\* deterministicRandomWords(nwords, _paranoia); the paranoia level is
\* ignored.
RandomWords(nwords) ==
    /\ Offset < MaxOffset
    /\ requested' = nwords
    /\ output' = Words(Offset, nwords)
    /\ deterministicOffset' = Offset + 1

\* resetDeterministicOffset(), called before each test.
ResetDeterministicOffset ==
    /\ deterministicOffset' = 0
    /\ UNCHANGED <<requested, output>>

Next ==
    \/ \E n \in 0 .. MaxWords : RandomWords(n)
    \/ ResetDeterministicOffset

Spec == Init /\ [][Next]_vars

-----------------------------------------------------------------------------
(* Properties                                                              *)

\* The global offset is undefined or a natural up to MaxOffset, and the
\* last call asked for at most MaxWords words and got a sequence of numbers.
TypeOK ==
    /\ deterministicOffset \in (0 .. MaxOffset) \cup {None}
    /\ requested \in 0 .. MaxWords
    /\ output \in Seq(Int)

\* The reference: word j of a call is the offset, or the lowest word if the
\* offset is already past the highest, advanced by j - 1 modulo the
\* WordCount = 2^Width words of the width and read as a signed word.
WordCount == highestValidNumber - lowestValidNumber + 1

SignedWord(x) ==
    ((x - lowestValidNumber) % WordCount) + lowestValidNumber

ReferenceWords(offset, nwords) ==
    LET start == IF offset > highestValidNumber THEN lowestValidNumber
                 ELSE offset
    IN  [j \in 1 .. nwords |-> SignedWord(start + j - 1)]

\* Every call of deterministicRandomWords returns exactly the nwords words
\* it was asked for, and they are the words of the reference: consecutive
\* signed words modulo 2^Width from its starting offset, wrapping from the
\* highest word to the lowest (the test at line 20), also when the call
\* starts past the highest word.  So the sequence sjcl sees after
\* resetDeterministicOffset is fixed by the number of calls and their sizes
\* alone, and every word is a valid signed word of the width.
WordsMatchReference ==
    [][deterministicOffset' = Offset + 1 =>
          output' = ReferenceWords(Offset, requested')]_vars

=============================================================================
