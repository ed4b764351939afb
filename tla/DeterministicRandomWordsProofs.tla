------------------- MODULE DeterministicRandomWordsProofs -------------------
(***************************************************************************)
(* Proofs about deterministicRandomWords (src/test/test_helpers.ts), for   *)
(* every word width, every offset and every number of words: the loop of   *)
(* the code computes the reference of DeterministicRandomWords, the nwords *)
(* consecutive signed words modulo 2^Width from its starting offset.       *)
(*                                                                         *)
(* The argument.  The loop is the recursive function loop[i] of Words.     *)
(* Closed(offset, n) is its closed form: after i >= 1 iterations the       *)
(* counter is one past the i-th reference word and the output holds the    *)
(* first i reference words.  Closed satisfies the loop's recursion         *)
(* (ClosedSteps), which rests on one fact of modular arithmetic: the       *)
(* signed word after the highest is the lowest, and after any other word   *)
(* its successor (SignedWordSucc).  So the recursive definition has a      *)
(* solution, loop is one, and two solutions agree on every index by        *)
(* induction, stated as a least-counterexample argument over WFMin         *)
(* (LeastNat) since the provers cannot instantiate NatInduction's          *)
(* predicate parameter.                                                    *)
(***************************************************************************)
EXTENDS DeterministicRandomWords, WellFoundedInduction, TLAPS

-----------------------------------------------------------------------------
(* Arithmetic                                                              *)

\* Every non-empty set of naturals has a least element.
LEMMA LeastNat ==
    ASSUME NEW T \in SUBSET Nat, T # {}
    PROVE  \E x \in T : \A y \in T : ~(y < x)
<1> DEFINE R == OpToRel(<, Nat)
<1>1. \E x \in T : \A y \in T : ~(<<y, x>> \in R)
  BY NatLessThanWellFounded, WFMin, Zenon
<1>2. \A x, y \in Nat : y < x => <<y, x>> \in R
  BY Zenon DEF OpToRel
<1>3. QED
  BY <1>1, <1>2, Zenon

\* The remainder of b by m is s whenever b = m * k + s with s in 0 .. m - 1.
LEMMA ModUnique ==
    ASSUME NEW b \in Int, NEW m \in Nat \ {0}, NEW k \in Int,
           NEW s \in 0 .. m - 1, b = m * k + s
    PROVE  b % m = s
BY SMT

\* Every integer is a multiple of m plus its remainder by m.
LEMMA ModQuotient ==
    ASSUME NEW a \in Int, NEW m \in Nat \ {0}
    PROVE  \E q \in Int : a % m = a - m * q
<1>1. a \div m \in Int /\ a % m = a - m * (a \div m)
  BY SMTT(30)
<1>2. QED
  BY <1>1

\* Adding one to a number advances its remainder by one, from m - 1 to 0.
LEMMA ModSucc ==
    ASSUME NEW a \in Int, NEW m \in Nat \ {0}
    PROVE  (a + 1) % m = IF a % m = m - 1 THEN 0 ELSE (a % m) + 1
<1>1. PICK q \in Int : a % m = a - m * q
  BY ModQuotient
<1>2. a % m \in 0 .. m - 1
  BY SMT
<1>3. CASE a % m = m - 1
  <2>1. a + 1 = m * (q + 1) + 0 /\ q + 1 \in Int /\ 0 \in 0 .. m - 1
        /\ a + 1 \in Int
    BY <1>1, <1>3, SMT
  <2>2. QED
    BY <1>3, <2>1, ModUnique
<1>4. CASE a % m # m - 1
  <2>1. a + 1 = m * q + ((a % m) + 1) /\ (a % m) + 1 \in 0 .. m - 1
        /\ a + 1 \in Int
    BY <1>1, <1>2, <1>4, SMT
  <2>2. QED
    BY <1>4, <2>1, ModUnique
<1>5. QED
  BY <1>3, <1>4

\* The bounds of the width: the lowest word is at most 0, the highest at
\* least 0, and there are WordCount words from the lowest to the highest.
LEMMA WidthBounds ==
    /\ lowestValidNumber \in Int /\ highestValidNumber \in Int
    /\ lowestValidNumber <= 0 /\ 0 <= highestValidNumber
    /\ WordCount \in Nat \ {0}
    /\ highestValidNumber = lowestValidNumber + WordCount - 1
BY PowerAssumption DEF lowestValidNumber, highestValidNumber, WordCount

\* A signed word is a word of the width.
LEMMA SignedWordRange ==
    ASSUME NEW x \in Int
    PROVE  SignedWord(x) \in lowestValidNumber .. highestValidNumber
<1>1. (x - lowestValidNumber) % WordCount \in 0 .. WordCount - 1
  BY WidthBounds
<1>2. QED
  BY <1>1, WidthBounds DEF SignedWord

\* A word of the width is its own signed word.
LEMMA SignedWordId ==
    ASSUME NEW x \in lowestValidNumber .. highestValidNumber
    PROVE  SignedWord(x) = x
<1>1. (x - lowestValidNumber) % WordCount = x - lowestValidNumber
  BY WidthBounds, ModUnique
<1>2. QED
  BY <1>1, WidthBounds DEF SignedWord

\* The signed word after the highest is the lowest; after any other word
\* it is that word plus one.
LEMMA SignedWordSucc ==
    ASSUME NEW x \in Int
    PROVE  SignedWord(x + 1) =
              IF SignedWord(x) = highestValidNumber THEN lowestValidNumber
              ELSE SignedWord(x) + 1
<1> DEFINE a == x - lowestValidNumber
<1>1. a \in Int /\ (x + 1) - lowestValidNumber = a + 1
  BY WidthBounds
<1>2. (a + 1) % WordCount = IF a % WordCount = WordCount - 1 THEN 0
                            ELSE (a % WordCount) + 1
  BY <1>1, WidthBounds, ModSucc
<1>3. SignedWord(x) = highestValidNumber <=> a % WordCount = WordCount - 1
  BY WidthBounds DEF SignedWord
<1>4. QED
  BY <1>1, <1>2, <1>3, WidthBounds DEF SignedWord

-----------------------------------------------------------------------------
(* The loop and its closed form                                            *)

\* The word a call starts from: the offset, or the lowest word if the
\* offset is already past the highest.
Start(offset) ==
    IF offset > highestValidNumber THEN lowestValidNumber ELSE offset

\* The state of the loop after each iteration i: before the first the
\* counter is the offset and the output empty; after i >= 1 the counter is
\* one past the i-th reference word and the output the first i words.
Closed(offset, n) ==
    [i \in 0 .. n |->
        IF i = 0 THEN [next |-> offset, output |-> <<>>]
        ELSE [next |-> SignedWord(Start(offset) + i - 1) + 1,
              output |-> [j \in 1 .. i |-> SignedWord(Start(offset) + j - 1)]]]

\* The recursive function loop of Words, named.
Loop(offset, n) ==
    CHOOSE f : f = [i \in 0 .. n |->
                      IF i = 0 THEN [next |-> offset, output |-> <<>>]
                      ELSE LoopStep(f[i - 1])]

\* A call that starts from a natural offset starts from a word of the width.
LEMMA StartInWidth ==
    ASSUME NEW offset \in Nat
    PROVE  Start(offset) \in lowestValidNumber .. highestValidNumber
BY WidthBounds DEF Start

\* One iteration of the loop takes the closed form at i - 1 to the closed
\* form at i: the wrap test of LoopStep is the wrap of the signed words.
LEMMA ClosedStep ==
    ASSUME NEW offset \in Nat, NEW n \in Nat, NEW i \in 1 .. n
    PROVE  Closed(offset, n)[i] = LoopStep(Closed(offset, n)[i - 1])
<1> DEFINE c == Closed(offset, n)
           st == Start(offset)
<1>1. st \in lowestValidNumber .. highestValidNumber
  BY StartInWidth
<1>2. c[i] = [next |-> SignedWord(st + i - 1) + 1,
              output |-> [j \in 1 .. i |-> SignedWord(st + j - 1)]]
  BY DEF Closed
<1>3. CASE i = 1
  <2>1. c[i - 1] = [next |-> offset, output |-> <<>>]
    BY <1>3 DEF Closed
  <2>2. SignedWord(st) = st
    BY <1>1, SignedWordId
  <2>3. LoopStep(c[i - 1]) = [next |-> st + 1, output |-> <<st>>]
    BY <2>1, WidthBounds DEF LoopStep, Start
  <2>4. [j \in 1 .. i |-> SignedWord(st + j - 1)] = <<st>>
    BY <1>3, <1>1, <2>2, WidthBounds
  <2>5. QED
    BY <1>2, <1>3, <2>2, <2>3, <2>4, <1>1, WidthBounds
<1>4. CASE i > 1
  <2> DEFINE w == SignedWord(st + i - 2)
             out == [j \in 1 .. i - 1 |-> SignedWord(st + j - 1)]
  <2>1. c[i - 1] = [next |-> w + 1, output |-> out]
    BY <1>4 DEF Closed
  <2>2. w \in lowestValidNumber .. highestValidNumber
    BY <1>1, WidthBounds, SignedWordRange
  <2>3. SignedWord(st + i - 1) = IF w + 1 > highestValidNumber
                                 THEN lowestValidNumber ELSE w + 1
    <3>1. st + i - 2 \in Int /\ (st + i - 2) + 1 = st + i - 1
      BY <1>1, WidthBounds
    <3>2. SignedWord(st + i - 1) =
             IF w = highestValidNumber THEN lowestValidNumber ELSE w + 1
      BY <3>1, SignedWordSucc
    <3>3. QED
      BY <2>2, <3>2, WidthBounds
  <2>4. out \in Seq(Int) /\ Len(out) = i - 1
    <3>1. \A j \in 1 .. i - 1 : SignedWord(st + j - 1) \in Int
      BY <1>1, WidthBounds, SignedWordRange
    <3>2. QED
      BY <1>4, <3>1
  <2>5. Append(out, SignedWord(st + i - 1)) =
           [j \in 1 .. i |-> SignedWord(st + j - 1)]
    BY <1>4, <2>4
  <2>8. c[i - 1].next = w + 1 /\ c[i - 1].output = out
    BY <2>1
  <2>9. (IF c[i - 1].next > highestValidNumber THEN lowestValidNumber
         ELSE c[i - 1].next) = SignedWord(st + i - 1)
    BY <2>3, <2>8
  <2>6. LoopStep(c[i - 1]) = [next |-> SignedWord(st + i - 1) + 1,
                              output |-> Append(out, SignedWord(st + i - 1))]
    BY <2>8, <2>9, Zenon DEF LoopStep
  <2>7. QED
    BY <1>2, <2>5, <2>6
<1>5. QED
  BY <1>3, <1>4

\* The closed form solves the loop's recursion, so loop is defined, and it
\* is the only solution: at the least index where another solution differs
\* from it, both take one LoopStep from the index before, where they agree.
LEMMA LoopIsClosed ==
    ASSUME NEW offset \in Nat, NEW n \in Nat
    PROVE  Loop(offset, n) = Closed(offset, n)
<1> DEFINE c == Closed(offset, n)
           f == Loop(offset, n)
           Eqn(g) == [i \in 0 .. n |->
                        IF i = 0 THEN [next |-> offset, output |-> <<>>]
                        ELSE LoopStep(g[i - 1])]
<1>1. c = Eqn(c)
  <2>1. \A i \in 1 .. n : c[i] = LoopStep(c[i - 1])
    BY ClosedStep
  <2>2. c[0] = [next |-> offset, output |-> <<>>]
    BY DEF Closed
  <2>4. c = [i \in 0 .. n |-> c[i]]
    BY DEF Closed
  <2>5. \A i \in 0 .. n : i # 0 => i \in 1 .. n
    OBVIOUS
  <2>3. QED
    BY <2>1, <2>2, <2>4, <2>5, Zenon
<1>2. f = Eqn(f)
  BY <1>1 DEF Loop
<1>3. \A i \in 0 .. n : f[i] = c[i]
  <2> DEFINE T == {i \in 0 .. n : f[i] # c[i]}
  <2> SUFFICES T = {}
    OBVIOUS
  <2>1. SUFFICES ASSUME T # {} PROVE FALSE
    OBVIOUS
  <2>8. T \in SUBSET Nat
    OBVIOUS
  <2>2. PICK x \in T : \A y \in T : ~(y < x)
    BY <2>1, <2>8, LeastNat
  <2>3. x # 0
    BY <1>1, <1>2, <2>2
  <2>4. x - 1 \in 0 .. n /\ x - 1 < x /\ x \in 1 .. n
    BY <2>2, <2>3
  <2>5. f[x - 1] = c[x - 1]
    BY <2>2, <2>4
  <2>6. f[x] = LoopStep(f[x - 1]) /\ c[x] = LoopStep(c[x - 1])
    BY <1>1, <1>2, <2>4
  <2>7. QED
    BY <2>2, <2>5, <2>6
<1>4. QED
  BY <1>1, <1>2, <1>3

\* deterministicRandomWords(nwords) returns the reference words, for every
\* natural offset and nwords.
LEMMA WordsReference ==
    ASSUME NEW offset \in Nat, NEW n \in Nat
    PROVE  Words(offset, n) = ReferenceWords(offset, n)
<1>1. Words(offset, n) = Loop(offset, n)[n].output
  BY DEF Words, Loop
<1>2. Loop(offset, n)[n].output = Closed(offset, n)[n].output
  BY LoopIsClosed
<1>3. CASE n = 0
  BY <1>1, <1>2, <1>3 DEF Closed, ReferenceWords
<1>4. CASE n # 0
  BY <1>1, <1>2, <1>4 DEF Closed, ReferenceWords, Start
<1>5. QED
  BY <1>3, <1>4
-----------------------------------------------------------------------------
(* The specification                                                       *)

\* The offset a call starts from is a natural below MaxOffset.
LEMMA OffsetNat ==
    ASSUME TypeOK
    PROVE  Offset \in 0 .. MaxOffset
BY RandomWordsAssumption DEF TypeOK, Offset

\* The words a call returns are a sequence of nwords words of the width.
LEMMA ReferenceWordsInWidth ==
    ASSUME NEW offset \in Nat, NEW n \in Nat
    PROVE  /\ ReferenceWords(offset, n) \in Seq(Int)
           /\ Len(ReferenceWords(offset, n)) = n
           /\ \A j \in 1 .. n : ReferenceWords(offset, n)[j]
                                   \in lowestValidNumber .. highestValidNumber
<1>1. \A j \in 1 .. n : ReferenceWords(offset, n)[j]
                           \in lowestValidNumber .. highestValidNumber
  <2> SUFFICES ASSUME NEW j \in 1 .. n
               PROVE  ReferenceWords(offset, n)[j]
                         \in lowestValidNumber .. highestValidNumber
    OBVIOUS
  <2>1. Start(offset) + j - 1 \in Int
    BY StartInWidth, WidthBounds
  <2>2. ReferenceWords(offset, n)[j] = SignedWord(Start(offset) + j - 1)
    BY DEF ReferenceWords, Start
  <2>3. QED
    BY <2>1, <2>2, SignedWordRange
<1> DEFINE ws == [j \in 1 .. n |-> SignedWord(Start(offset) + j - 1)]
<1>2. ReferenceWords(offset, n) = ws
  BY DEF ReferenceWords, Start
<1>3. \A j \in 1 .. n : ws[j] \in Int
  BY <1>1, <1>2, WidthBounds
<1>4. ws \in Seq(Int) /\ Len(ws) = n
  BY <1>3
<1>5. QED
  BY <1>1, <1>2, <1>4

LEMMA InitTypeOK == Init => TypeOK
BY RandomWordsAssumption DEF Init, TypeOK

LEMMA NextTypeOK == TypeOK /\ [Next]_vars => TypeOK'
<1> SUFFICES ASSUME TypeOK, [Next]_vars PROVE TypeOK'
  OBVIOUS
<1>0. Offset \in 0 .. MaxOffset
  BY OffsetNat
<1>1. ASSUME NEW n \in 0 .. MaxWords, RandomWords(n) PROVE TypeOK'
  <2>1. output' = ReferenceWords(Offset, n)
    BY <1>0, <1>1, WordsReference DEF RandomWords
  <2>2. deterministicOffset' \in 0 .. MaxOffset /\ requested' \in 0 .. MaxWords
    BY <1>0, <1>1, RandomWordsAssumption DEF RandomWords
  <2>3. output' \in Seq(Int)
    BY <1>0, <2>1, ReferenceWordsInWidth
  <2>4. QED
    BY <2>2, <2>3 DEF TypeOK
<1>2. CASE ResetDeterministicOffset
  BY <1>2, RandomWordsAssumption DEF ResetDeterministicOffset, TypeOK
<1>3. CASE UNCHANGED vars
  BY <1>3 DEF vars, TypeOK
<1>4. QED
  BY <1>1, <1>2, <1>3 DEF Next

\* Type correctness of the test randomness: the global offset is undefined
\* or a natural up to MaxOffset, and every call returns a sequence of
\* integers; for every word width.
THEOREM TypeCorrect == Spec => []TypeOK
BY InitTypeOK, NextTypeOK, PTL DEF Spec

\* Every call of deterministicRandomWords returns the nwords words of the
\* reference, the consecutive signed words modulo 2^Width from its starting
\* offset (the action property WordsMatchReference of the run
\* random_words), for every width, offset and number of words.
THEOREM WordsMatchReferenceHolds == Spec => WordsMatchReference
<1>1. TypeOK /\ [Next]_vars =>
         [deterministicOffset' = Offset + 1 =>
             output' = ReferenceWords(Offset, requested')]_vars
  <2> SUFFICES ASSUME TypeOK, [Next]_vars
               PROVE  [deterministicOffset' = Offset + 1 =>
                          output' = ReferenceWords(Offset, requested')]_vars
    OBVIOUS
  <2>0. Offset \in 0 .. MaxOffset
    BY OffsetNat
  <2>1. ASSUME NEW n \in 0 .. MaxWords, RandomWords(n)
        PROVE  output' = ReferenceWords(Offset, requested')
    BY <2>0, <2>1, WordsReference DEF RandomWords
  <2>2. CASE ResetDeterministicOffset
    BY <2>0, <2>2 DEF ResetDeterministicOffset
  <2>3. CASE UNCHANGED vars
    BY <2>3
  <2>4. QED
    BY <2>1, <2>2, <2>3 DEF Next
<1>2. QED
  BY <1>1, TypeCorrect, PTL DEF WordsMatchReference, Spec

=============================================================================
