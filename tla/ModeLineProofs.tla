-------------------------- MODULE ModeLineProofs ---------------------------
(***************************************************************************)
(* Proofs about the reading of MODE lines, for mode strings and argument   *)
(* lists of any length and any letters.                                    *)
(***************************************************************************)
EXTENDS ModeLine, FiniteSetTheorems, SequenceTheorems, TLAPS

LEMMA MinOfTwo ==
  ASSUME NEW a \in Nat, NEW b \in Nat
  PROVE  Min({a, b}) = IF a <= b THEN a ELSE b
<1>1. \E x \in {a, b} : \A y \in {a, b} : x <= y
  <2>1. CASE a <= b
    BY <2>1
  <2>2. CASE ~(a <= b)
    BY <2>2
  <2>3. QED
    BY <2>1, <2>2
<1>2. Min({a, b}) \in {a, b} /\ \A y \in {a, b} : Min({a, b}) <= y
  BY <1>1 DEF Min
<1>3. QED
  BY <1>2

LEMMA MaxOfBounded ==
  ASSUME NEW S \in SUBSET Int, NEW m \in S, \A x \in S : x <= m
  PROVE  Max(S) = m
<1>1. \E x \in S : \A y \in S : x >= y
  OBVIOUS
<1>2. Max(S) \in S /\ \A y \in S : Max(S) >= y
  BY <1>1 DEF Max
<1>3. Max(S) \in Int /\ m \in Int /\ Max(S) >= m /\ Max(S) <= m
  BY <1>2
<1>4. QED
  BY <1>3

LEMMA ListsAreSequences ==
  ASSUME NEW n \in Nat, NEW S, NEW s \in ListsUpTo(n, S)
  PROVE  s \in Seq(S)
BY SeqDef DEF ListsUpTo

-----------------------------------------------------------------------------
(* Counting the modes of the string. *)

LEMMA LettersAreFinite ==
  ASSUME NEW p \in Nat
  PROVE  /\ IsFiniteSet(Letters(p)) /\ Cardinality(Letters(p)) \in Nat
         /\ IsFiniteSet(Wanting(p)) /\ Cardinality(Wanting(p)) \in Nat
<1>1. IsFiniteSet(1 .. p)
  BY FS_Interval
<1>2. Letters(p) \subseteq 1 .. p /\ Wanting(p) \subseteq 1 .. p
  BY DEF Letters, Wanting
<1>3. QED
  BY <1>1, <1>2, FS_Subset, FS_CardinalityType

\* A mode is one of those up to any later position.
LEMMA CountsGrow ==
  ASSUME NEW p \in Nat, NEW q \in Nat, p <= q
  PROVE  /\ Letters(p) \subseteq Letters(q)
         /\ Cardinality(Letters(p)) <= Cardinality(Letters(q))
         /\ p \in Letters(p) => Cardinality(Letters(p)) >= 1
         /\ Cardinality(Wanting(p)) <= Cardinality(Wanting(q))
         /\ p \in Wanting(p) => Cardinality(Wanting(p)) >= 1
<1>1. Letters(p) \subseteq Letters(q) /\ Wanting(p) \subseteq Wanting(q)
  BY DEF Letters, Wanting
<1>2. /\ IsFiniteSet(Letters(p)) /\ Cardinality(Letters(p)) \in Nat
      /\ IsFiniteSet(Wanting(p)) /\ Cardinality(Wanting(p)) \in Nat
      /\ IsFiniteSet(Letters(q)) /\ IsFiniteSet(Wanting(q))
  BY LettersAreFinite
<1>3. /\ Cardinality(Letters(p)) <= Cardinality(Letters(q))
      /\ Cardinality(Wanting(p)) <= Cardinality(Wanting(q))
  BY <1>1, <1>2, FS_Subset
<1>4. p \in Letters(p) => Cardinality(Letters(p)) # 0
  BY <1>2, FS_EmptySet
<1>5. p \in Wanting(p) => Cardinality(Wanting(p)) # 0
  BY <1>2, FS_EmptySet
<1>6. QED
  BY <1>1, <1>2, <1>3, <1>4, <1>5

\* What one more character changes.
LEMMA SignStep ==
  ASSUME NEW p \in Nat \ {0}
  PROVE  /\ SignAt(p + 1) = IF modeStr[p] \in Signs THEN modeStr[p] ELSE SignAt(p)
         /\ SignAt(1) = "none"
<1> DEFINE before(n) == {q \in 1 .. n - 1 : modeStr[q] \in Signs}
<1>1. CASE modeStr[p] \in Signs
  <2>1. before(p + 1) \in SUBSET Int /\ p \in before(p + 1) /\ \A x \in before(p + 1) : x <= p
    BY <1>1
  <2>2. Max(before(p + 1)) = p
    BY <2>1, MaxOfBounded
  <2>3. before(p + 1) # {}
    BY <2>1
  <2>4. SignAt(p + 1) = modeStr[p]
    BY <2>2, <2>3 DEF SignAt
  <2>5. QED
    BY <1>1, <2>4 DEF SignAt
<1>2. CASE modeStr[p] \notin Signs
  <2>1. before(p + 1) = before(p)
    BY <1>2
  <2>2. QED
    BY <1>2, <2>1 DEF SignAt
<1>3. QED
  BY <1>1, <1>2

LEMMA LetterStep ==
  ASSUME NEW p \in Nat \ {0}
  PROVE  /\ modeStr[p] \in Signs =>
              Letters(p) = Letters(p - 1) /\ Wanting(p) = Wanting(p - 1)
         /\ modeStr[p] \notin Signs =>
              /\ p \in Letters(p) /\ Letters(p) = Letters(p - 1) \cup {p}
              /\ Cardinality(Letters(p)) = Cardinality(Letters(p - 1)) + 1
         /\ modeStr[p] \notin Signs /\ ~NeedsArg(modeStr[p], SignAt(p)) =>
              p \notin Wanting(p) /\ Wanting(p) = Wanting(p - 1)
         /\ modeStr[p] \notin Signs /\ NeedsArg(modeStr[p], SignAt(p)) =>
              /\ p \in Wanting(p)
              /\ Cardinality(Wanting(p)) = Cardinality(Wanting(p - 1)) + 1
<1>1. /\ IsFiniteSet(Letters(p - 1)) /\ p \notin Letters(p - 1)
      /\ IsFiniteSet(Wanting(p - 1)) /\ p \notin Wanting(p - 1)
  BY LettersAreFinite DEF Letters, Wanting
<1>2. CASE modeStr[p] \in Signs
  <2>1. Letters(p) = Letters(p - 1)
    BY <1>2 DEF Letters
  <2>2. Wanting(p) = Wanting(p - 1)
    BY <2>1 DEF Wanting
  <2>3. QED
    BY <1>2, <2>1, <2>2
<1>3. CASE modeStr[p] \notin Signs
  <2>1. Letters(p) = Letters(p - 1) \cup {p}
    BY <1>3 DEF Letters
  <2>2. Cardinality(Letters(p)) = Cardinality(Letters(p - 1)) + 1
    BY <1>1, <2>1, FS_AddElement
  <2>3. CASE ~NeedsArg(modeStr[p], SignAt(p))
    <3>1. Wanting(p) = Wanting(p - 1)
      BY <2>1, <2>3 DEF Wanting
    <3>2. QED
      BY <1>1, <1>3, <2>1, <2>2, <2>3, <3>1
  <2>4. CASE NeedsArg(modeStr[p], SignAt(p))
    <3>1. Wanting(p) = Wanting(p - 1) \cup {p}
      BY <2>1, <2>4 DEF Wanting
    <3>2. Cardinality(Wanting(p)) = Cardinality(Wanting(p - 1)) + 1
      BY <1>1, <3>1, FS_AddElement
    <3>3. QED
      BY <1>3, <2>1, <2>2, <2>4, <3>1, <3>2
  <2>5. QED
    BY <2>3, <2>4
<1>4. QED
  BY <1>2, <1>3

-----------------------------------------------------------------------------
(* The loop over the mode string. *)

\* The counts depend on the string only.
LEMMA SameString ==
  ASSUME UNCHANGED modeStr, NEW p
  PROVE  SignAt(p)' = SignAt(p) /\ Letters(p)' = Letters(p) /\ Wanting(p)' = Wanting(p)
<1>1. \A q : SignAt(q)' = SignAt(q)
  BY DEF SignAt
<1>2. Letters(p)' = Letters(p)
  BY DEF Letters
<1>3. Wanting(p)' = Wanting(p)
  BY <1>1, <1>2 DEF Wanting
<1>4. QED
  BY <1>1, <1>2, <1>3

\* A mode change is appended for the character the loop is at.
LEMMA ModeIsRead ==
  ASSUME ModeLineInv, NextChar, Char \notin Signs, UNCHANGED sign,
         NEW arg \in (Word \ Colon) \cup {Empty},
         modes' = Append(modes, Mode(Char, sign, arg)),
         arg = IF i \in Wanting(i) THEN Arg(Cardinality(Wanting(i))) ELSE Empty,
         argIndex' = Min({Cardinality(Wanting(i)), Len(args)}) + 1
  PROVE  ModeLineInv'
<1> DEFINE Record == [mode : Letter, sign : Signs \cup {"none"},
                      arg : (Word \ Colon) \cup {Empty}]
<1>1. /\ stage = "modes" /\ i \in Nat \ {0} /\ i <= Len(modeStr) /\ i' = i + 1
      /\ UNCHANGED <<modeStr, words, stage, args, sign>>
      /\ modes \in Seq(Record) /\ Len(modes) \in Nat
  BY DEF ModeLineInv, NextChar
<1>2. Char \in Letter /\ sign \in Signs \cup {"none"}
  <2>1. Char \in Letter
    BY <1>1 DEF ModeLineInv, Char
  <2>2. sign \in Signs \cup {"none"}
    BY DEF ModeLineInv
  <2>3. QED
    BY <2>1, <2>2
<1>3. Mode(Char, sign, arg) \in Record
  BY <1>2 DEF Mode
<1>4. /\ modes' \in Seq(Record)
      /\ Len(modes') = Len(modes) + 1
      /\ \A k \in 1 .. Len(modes) : modes'[k] = modes[k]
      /\ modes'[Len(modes) + 1] = Mode(Char, sign, arg)
  <2> HIDE DEF Record
  <2>1. QED
    BY <1>1, <1>3, AppendProperties
<1>5. /\ Len(modes) = Cardinality(Letters(i - 1)) /\ SignAt(i) = sign
      /\ Len(modes') = Cardinality(Letters(i)) /\ Letters(i) = Letters(i - 1) \cup {i}
      /\ SignAt(i + 1) = sign
  BY <1>1, <1>4, LetterStep, SignStep DEF ModeLineInv, Char
<1>6. ASSUME NEW p \in Letters(i)
      PROVE  modes'[Cardinality(Letters(p))] =
               Mode(modeStr[p], SignAt(p),
                    IF p \in Wanting(p) THEN Arg(Cardinality(Wanting(p))) ELSE Empty)
  <2>1. CASE p = i
    BY <1>4, <1>5, <2>1 DEF Char
  <2>2. CASE p # i
    <3>1. p \in Letters(i - 1) /\ p \in Nat /\ p <= i - 1 /\ p \in Letters(p)
      BY <1>1, <1>5, <2>2 DEF Letters
    <3>2. Cardinality(Letters(p)) \in 1 .. Len(modes)
      BY <1>1, <1>5, <3>1, CountsGrow, LettersAreFinite
    <3>3. modes[Cardinality(Letters(p))] =
            Mode(modeStr[p], SignAt(p),
                 IF p \in Wanting(p) THEN Arg(Cardinality(Wanting(p))) ELSE Empty)
      BY <3>1 DEF ModeLineInv, ModesAreReadInOrder, ReadAs
    <3>4. QED
      BY <1>4, <3>2, <3>3
  <2>3. QED
    BY <2>1, <2>2
<1>7. \A k \in DOMAIN modes' : modes'[k].arg \notin Colon
  <2>1. TAKE k \in DOMAIN modes'
  <2>2. modes'[k] \in Record
    <3> HIDE DEF Record
    <3>1. k \in 1 .. Len(modes')
      BY <1>4, <2>1, LenProperties
    <3>2. QED
      BY <1>4, <3>1, ElementOfSeq
  <2>3. modes'[k].arg \in (Word \ Colon) \cup {Empty}
    BY <2>2
  <2>4. QED
    BY <2>3, ModeLineAssumption
<1>8. UNCHANGED <<modeStr, args>> /\ i' - 1 = i /\ i' = i + 1
  BY <1>1
<1>9. ModesAreReadInOrder'
  <2>1. Letters(i - 1)' = Letters(i)
    BY <1>8 DEF Letters
  <2>2. ASSUME NEW p \in Letters(i)
        PROVE  ReadAs(p)' = Mode(modeStr[p], SignAt(p),
                 IF p \in Wanting(p) THEN Arg(Cardinality(Wanting(p))) ELSE Empty)'
    <3>1. Letters(p)' = Letters(p) /\ SignAt(p)' = SignAt(p) /\ Wanting(p)' = Wanting(p)
      BY <1>8, SameString
    <3>2. QED
      BY <1>6, <1>8, <2>2, <3>1 DEF ReadAs, Arg
  <2>3. QED
    BY <1>1, <1>7, <2>1, <2>2 DEF ModesAreReadInOrder
<1>10. /\ SignAt(i)' = SignAt(i + 1)
       /\ Letters(i - 1)' = Letters(i)
       /\ Wanting(i - 1)' = Wanting(i)
  <2>1. \A q : SignAt(q)' = SignAt(q)
    BY <1>8, SameString
  <2>2. Letters(i - 1)' = Letters(i)
    BY <1>8 DEF Letters
  <2>3. SignAt(i)' = SignAt(i + 1)
    BY <1>8 DEF SignAt
  <2>4. Wanting(i - 1)' = Wanting(i)
    BY <1>8, <2>1, <2>2 DEF Wanting
  <2>5. QED
    BY <2>2, <2>3, <2>4
<1>11. /\ sign' = SignAt(i)'
       /\ argIndex' = (Min({Cardinality(Wanting(i - 1)), Len(args)}) + 1)'
       /\ Len(modes)' = Cardinality(Letters(i - 1))'
  BY <1>1, <1>5, <1>8, <1>10
<1>12. /\ (modeStr \in Seq(Letter \cup Signs) /\ words \in Seq(Word))'
       /\ (stage \in Stages /\ args \in Seq(Word \ Colon))'
       /\ (i \in 1 .. Len(modeStr) + 1 /\ sign \in Signs \cup {"none"})'
  BY <1>1, <1>2 DEF ModeLineInv
<1>13. QED
  BY <1>1, <1>4, <1>9, <1>11, <1>12 DEF ModeLineInv

LEMMA ModeStepsKeepModeLineInv ==
  ASSUME ModeLineInv, PlainMode \/ ModeWithArg \/ ModeLacksArg
  PROVE  ModeLineInv'
<1> DEFINE before == Cardinality(Wanting(i - 1))
<1>1. /\ i \in Nat \ {0} /\ sign = SignAt(i) /\ Char = modeStr[i]
      /\ before \in Nat /\ Len(args) \in Nat
      /\ argIndex = Min({before, Len(args)}) + 1
      /\ args \in Seq(Word \ Colon)
  <2>1. /\ i \in Nat \ {0} /\ sign = SignAt(i) /\ Char = modeStr[i]
        /\ argIndex = Min({before, Len(args)}) + 1
        /\ args \in Seq(Word \ Colon)
    BY DEF ModeLineInv, Char
  <2>2. i - 1 \in Nat /\ Len(args) \in Nat
    BY <2>1
  <2>3. before \in Nat
    BY <2>2, LettersAreFinite
  <2>4. QED
    BY <2>1, <2>2, <2>3
<1>2. argIndex = IF before <= Len(args) THEN before + 1 ELSE Len(args) + 1
  <2> HIDE DEF before
  <2>1. QED
    BY <1>1, MinOfTwo
<1>3. CASE PlainMode
  <2>1. NextChar /\ Char \notin Signs /\ UNCHANGED <<sign, argIndex>>
        /\ modes' = Append(modes, Mode(Char, sign, Empty))
    BY <1>3 DEF PlainMode
  <2>2. i \notin Wanting(i) /\ Wanting(i) = Wanting(i - 1)
    BY <1>1, <1>3, LetterStep DEF PlainMode
  <2>3. argIndex' = Min({Cardinality(Wanting(i)), Len(args)}) + 1
    BY <1>1, <2>1, <2>2
  <2>4. QED
    BY <2>1, <2>2, <2>3, ModeIsRead
<1>4. CASE ModeWithArg \/ ModeLacksArg
  <2>1. NextChar /\ Char \notin Signs /\ UNCHANGED sign
    BY <1>4 DEF ModeWithArg, ModeLacksArg
  <2>2. i \in Wanting(i) /\ Cardinality(Wanting(i)) = before + 1
    BY <1>1, <1>4, LetterStep DEF ModeWithArg, ModeLacksArg
  <2> HIDE DEF before
  <2>3. CASE ModeWithArg
    <3>1. /\ argIndex <= Len(args) /\ argIndex' = argIndex + 1
          /\ modes' = Append(modes, Mode(Char, sign, args[argIndex]))
      BY <2>3 DEF ModeWithArg
    <3>2. argIndex = before + 1 /\ before + 1 \in 1 .. Len(args)
      BY <1>1, <1>2, <3>1
    <3>3. args[argIndex] = Arg(Cardinality(Wanting(i))) /\ args[argIndex] \in Word \ Colon
      BY <1>1, <2>2, <3>2, ElementOfSeq DEF Arg
    <3>4. argIndex' = Min({Cardinality(Wanting(i)), Len(args)}) + 1
      BY <1>1, <2>2, <3>1, <3>2, MinOfTwo
    <3>5. QED
      BY <2>1, <2>2, <3>1, <3>3, <3>4, ModeIsRead
  <2>4. CASE ModeLacksArg
    <3>1. /\ argIndex > Len(args) /\ argIndex' = argIndex
          /\ modes' = Append(modes, Mode(Char, sign, Empty))
      BY <2>4 DEF ModeLacksArg
    <3>2. before >= Len(args) /\ argIndex = Len(args) + 1
      BY <1>1, <1>2, <3>1
    <3>3. Arg(Cardinality(Wanting(i))) = Empty
      BY <1>1, <2>2, <3>2 DEF Arg
    <3>4. argIndex' = Min({Cardinality(Wanting(i)), Len(args)}) + 1
      BY <1>1, <2>2, <3>1, <3>2, MinOfTwo
    <3>5. QED
      BY <2>1, <2>2, <3>1, <3>3, <3>4, ModeIsRead
  <2>5. QED
    BY <1>4, <2>3, <2>4
<1>5. QED
  BY <1>3, <1>4

\* A sign is in force from the next character on.
LEMMA SignKeepsModeLineInv ==
  ASSUME ModeLineInv, SignChar
  PROVE  ModeLineInv'
<1>1. /\ stage = "modes" /\ i \in Nat \ {0} /\ i <= Len(modeStr) /\ i' = i + 1
      /\ modeStr[i] \in Signs /\ sign' = modeStr[i]
      /\ UNCHANGED <<modeStr, words, stage, args, argIndex, modes>>
  BY DEF ModeLineInv, SignChar, NextChar, Char
<1>2. Letters(i) = Letters(i - 1) /\ Wanting(i) = Wanting(i - 1) /\ SignAt(i + 1) = sign'
  BY <1>1, LetterStep, SignStep
<1>3. \A p : /\ SignAt(p)' = SignAt(p) /\ Letters(p)' = Letters(p)
             /\ Wanting(p)' = Wanting(p)
  BY <1>1, SameString
<1>4. /\ Letters(i - 1)' = Letters(i - 1)
      /\ Wanting(i - 1)' = Wanting(i - 1)
      /\ SignAt(i)' = sign'
      /\ Letters(Len(modeStr))' = Letters(Len(modeStr))
  <2>1. Letters(i - 1)' = Letters(i)
    BY <1>1 DEF Letters
  <2>2. Wanting(i - 1)' = Wanting(i)
    BY <1>1, <1>3, <2>1 DEF Wanting
  <2>3. SignAt(i)' = SignAt(i + 1)
    BY <1>1 DEF SignAt
  <2>4. QED
    BY <1>1, <1>2, <2>1, <2>2, <2>3 DEF Letters
<1>5. ModesAreReadInOrder'
  BY <1>1, <1>3, <1>4 DEF ModeLineInv, ModesAreReadInOrder, ReadAs, Arg
<1>6. QED
  BY <1>1, <1>4, <1>5 DEF ModeLineInv

-----------------------------------------------------------------------------
(* Before and after the loop. *)

LEMMA NothingReadYet ==
  /\ Letters(0) = {} /\ Wanting(0) = {}
  /\ Cardinality(Letters(0)) = 0 /\ Cardinality(Wanting(0)) = 0
<1>1. Letters(0) = {}
  BY DEF Letters
<1>2. Wanting(0) = {}
  BY <1>1 DEF Wanting
<1>3. QED
  BY <1>1, <1>2, FS_EmptySet

LEMMA InitModeLineInv ==
  ASSUME Init
  PROVE  ModeLineInv
<1>1. /\ modeStr \in Seq(Letter \cup Signs) /\ words \in Seq(Word)
  BY ModeLineAssumption, ListsAreSequences DEF Init
<1>2. /\ stage = "parse" /\ args = <<>> /\ i = 1 /\ sign = "none" /\ argIndex = 1
      /\ modes = <<>>
  BY DEF Init
<1>3. SignAt(1) = "none"
  BY SignStep
<1>4. i - 1 = 0 /\ Len(args) = 0 /\ Len(modes) = 0 /\ DOMAIN modes = {}
  BY <1>2
<1>5. argIndex = Min({Cardinality(Wanting(i - 1)), Len(args)}) + 1
  <2>1. Cardinality(Wanting(i - 1)) = 0
    BY <1>4, NothingReadYet
  <2>2. Min({Cardinality(Wanting(i - 1)), Len(args)}) = 0
    BY <1>4, <2>1, MinOfTwo
  <2>3. QED
    BY <1>2, <2>2
<1>6. ModesAreReadInOrder
  BY <1>2, <1>4, NothingReadYet DEF ModesAreReadInOrder
<1>7. i \in 1 .. Len(modeStr) + 1
  BY <1>1, <1>2, LenProperties
<1>8. QED
  BY <1>1, <1>2, <1>3, <1>4, <1>5, <1>6, <1>7, NothingReadYet DEF ModeLineInv, Stages

LEMMA ParseKeepsModeLineInv ==
  ASSUME ModeLineInv, Parse
  PROVE  ModeLineInv'
<1>1. /\ stage = "parse" /\ stage' = "modes" /\ i = 1
      /\ UNCHANGED <<modeStr, words, i, sign, argIndex, modes>>
  BY DEF ModeLineInv, Parse
<1>2. args' \in Seq(Word \ Colon)
  <2>1. PICK n \in 0 .. Len(words) :
          (\A k \in 1 .. n : words[k] \notin Colon) /\ args' = SubSeq(words, 1, n)
    BY DEF Parse
  <2>2. words \in Seq(Word) /\ Len(words) \in Nat
    BY DEF ModeLineInv
  <2>3. \A k \in 1 .. n : words[k] \in Word \ Colon
    BY <2>1, <2>2
  <2>4. QED
    BY <2>1, <2>2, <2>3, SubSeqProperties, IsASeq
<1>3. i - 1 = 0 /\ Len(args') \in Nat /\ Len(args) \in Nat
  BY <1>1, <1>2 DEF ModeLineInv
<1>4. \A p : /\ SignAt(p)' = SignAt(p) /\ Letters(p)' = Letters(p)
             /\ Wanting(p)' = Wanting(p)
  BY <1>1, SameString
<1>5. /\ Letters(i - 1)' = {} /\ Cardinality(Letters(i - 1))' = 0
      /\ Cardinality(Wanting(i - 1))' = 0 /\ SignAt(i)' = SignAt(i)
  <2>1. Letters(i - 1)' = Letters(0)
    BY <1>1 DEF Letters
  <2>2. Wanting(i - 1)' = Wanting(0)
    BY <1>1, <1>3, <1>4, <2>1, NothingReadYet DEF Wanting
  <2>3. SignAt(i)' = SignAt(i)
    BY <1>1 DEF SignAt
  <2>4. QED
    BY <2>1, <2>2, <2>3, NothingReadYet
<1>6. Len(modes) = 0 /\ argIndex = 1
  BY <1>1, <1>3, MinOfTwo, NothingReadYet DEF ModeLineInv
<1>7. (argIndex = Min({Cardinality(Wanting(i - 1)), Len(args)}) + 1)'
  BY <1>1, <1>3, <1>5, <1>6, MinOfTwo
<1>8. ModesAreReadInOrder'
  BY <1>1, <1>5, <1>6 DEF ModeLineInv, ModesAreReadInOrder
<1>9. QED
  BY <1>1, <1>2, <1>5, <1>6, <1>7, <1>8 DEF ModeLineInv, Stages

LEMMA EndKeepsModeLineInv ==
  ASSUME ModeLineInv, EndOfModes \/ UNCHANGED vars
  PROVE  ModeLineInv'
<1>1. /\ UNCHANGED <<modeStr, words, args, i, sign, argIndex, modes>>
      /\ stage' = stage \/ (stage = "modes" /\ stage' = "done" /\ i > Len(modeStr))
  BY DEF EndOfModes, vars
<1>2. \A p : /\ SignAt(p)' = SignAt(p) /\ Letters(p)' = Letters(p)
             /\ Wanting(p)' = Wanting(p)
  BY <1>1, SameString
<1>3. /\ Letters(i - 1)' = Letters(i - 1)
      /\ Wanting(i - 1)' = Wanting(i - 1)
      /\ SignAt(i)' = SignAt(i)
      /\ Letters(Len(modeStr))' = Letters(Len(modeStr))
  <2>1. Letters(i - 1)' = Letters(i - 1) /\ Letters(Len(modeStr))' = Letters(Len(modeStr))
    BY <1>1 DEF Letters
  <2>2. Wanting(i - 1)' = Wanting(i - 1)
    BY <1>1, <1>2, <2>1 DEF Wanting
  <2>3. SignAt(i)' = SignAt(i)
    BY <1>1 DEF SignAt
  <2>4. QED
    BY <2>1, <2>2, <2>3
<1>4. stage' = "done" => i = Len(modeStr) + 1
  <2>1. Len(modeStr) \in Nat /\ i \in 1 .. Len(modeStr) + 1
    BY DEF ModeLineInv
  <2>2. i > Len(modeStr) => i = Len(modeStr) + 1
    BY <2>1
  <2>3. stage = "done" => i = Len(modeStr) + 1
    BY DEF ModeLineInv
  <2>4. QED
    BY <1>1, <2>2, <2>3
<1>5. (stage = "done" => Len(modes) = Cardinality(Letters(Len(modeStr))))'
  <2>1. i = Len(modeStr) + 1 => i - 1 = Len(modeStr)
    BY DEF ModeLineInv
  <2>2. QED
    BY <1>1, <1>3, <1>4, <2>1 DEF ModeLineInv
<1>6. ModesAreReadInOrder'
  BY <1>1, <1>2, <1>3, <1>5 DEF ModeLineInv, ModesAreReadInOrder, ReadAs, Arg
<1>7. QED
  BY <1>1, <1>3, <1>4, <1>6 DEF ModeLineInv, Stages

LEMMA NextModeLineInv ==
  ASSUME ModeLineInv, [Next]_vars
  PROVE  ModeLineInv'
<1>1. CASE Parse
  BY <1>1, ParseKeepsModeLineInv
<1>2. CASE SignChar
  BY <1>2, SignKeepsModeLineInv
<1>3. CASE PlainMode \/ ModeWithArg \/ ModeLacksArg
  BY <1>3, ModeStepsKeepModeLineInv
<1>4. CASE EndOfModes \/ UNCHANGED vars
  BY <1>4, EndKeepsModeLineInv
<1>5. QED
  BY <1>1, <1>2, <1>3, <1>4 DEF Next, Done

-----------------------------------------------------------------------------

\* Each mode of a MODE line is read once and in order, with its sign and with the
\* argument that stands at its place, for lines of any length.
THEOREM ModesKeepTheirOrder == Spec => []ModesAreReadInOrder
<1>1. ModeLineInv => ModesAreReadInOrder
  BY DEF ModeLineInv
<1>2. QED
  BY <1>1, InitModeLineInv, NextModeLineInv, PTL DEF Spec

LEMMA TheTableAgrees ==
  ASSUME WellFormed, NEW p \in Letters(Len(modeStr))
  PROVE  NeedsArg(modeStr[p], SignAt(p)) <=> <<modeStr[p], SignAt(p)>> \in Table
BY DEF WellFormed, Table, NeedsArg, Signs

LEMMA ModeLineInvFollowsTable ==
  ASSUME ModeLineInv
  PROVE  TableIsFollowed
<1> DEFINE last == Len(modeStr)
           yes == {p \in Letters(last) : <<modeStr[p], SignAt(p)>> \in Table}
<1> SUFFICES ASSUME stage = "done", WellFormed, Len(args) = Cardinality(yes)
             PROVE  /\ argIndex = Len(args) + 1
                    /\ \A p \in Letters(last) : ReadAs(p).arg # Empty <=> p \in yes
  BY DEF TableIsFollowed
<1>1. last \in Nat /\ i = last + 1 /\ i - 1 = last /\ args \in Seq(Word \ Colon)
  BY DEF ModeLineInv
<1>2. yes = Wanting(last)
  BY TheTableAgrees DEF Wanting
<1>3. Len(args) \in Nat /\ Cardinality(Wanting(last)) = Len(args)
  <2>1. Len(args) = Cardinality(yes)
    OBVIOUS
  <2>2. Len(args) \in Nat
    BY <1>1
  <2> HIDE DEF yes
  <2>3. QED
    BY <1>2, <2>1, <2>2
<1>4. argIndex = Len(args) + 1
  BY <1>1, <1>3, MinOfTwo DEF ModeLineInv
<1>5. ASSUME NEW p \in Letters(last)
      PROVE  ReadAs(p).arg # Empty <=> p \in yes
  <2>1. p \in Nat /\ p <= last /\ p \in Letters(p)
    BY <1>1 DEF Letters
  <2>2. ReadAs(p) = Mode(modeStr[p], SignAt(p),
                         IF p \in Wanting(p) THEN Arg(Cardinality(Wanting(p))) ELSE Empty)
    BY <1>1 DEF ModeLineInv, ModesAreReadInOrder
  <2>3. ReadAs(p).arg = IF p \in Wanting(p) THEN Arg(Cardinality(Wanting(p))) ELSE Empty
    BY <2>2 DEF Mode
  <2>4. p \in Wanting(p) <=> p \in yes
    BY <1>2, <2>1 DEF Wanting
  <2>5. ASSUME p \in Wanting(p)
        PROVE  Arg(Cardinality(Wanting(p))) # Empty
    <3>1. Cardinality(Wanting(p)) \in 1 .. Len(args)
      BY <1>1, <1>3, <2>1, <2>5, CountsGrow, LettersAreFinite
    <3>2. args[Cardinality(Wanting(p))] \in Word
      BY <1>1, <3>1, ElementOfSeq
    <3>3. QED
      BY <1>3, <3>1, <3>2, ModeLineAssumption DEF Arg
  <2>6. QED
    BY <2>3, <2>4, <2>5
<1>6. QED
  BY <1>4, <1>5

\* A well-formed MODE line with as many arguments as the table of _handleMode asks
\* for gives them to the modes the table names and leaves none over, for lines of
\* any length.
THEOREM TheTableIsFollowed == Spec => []TableIsFollowed
BY ModeLineInvFollowsTable, InitModeLineInv, NextModeLineInv, PTL DEF Spec

==============================================================================
