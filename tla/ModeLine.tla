------------------------------ MODULE ModeLine ------------------------------
(***************************************************************************)
(* How a MODE line becomes the vector of mode changes that HandleMode of   *)
(* ChannelCommands works on: Parser::parseLine (classes/Parser.cpp) and    *)
(* _parseMode (classes/CommandHandler.cpp).  The line has a channel and a  *)
(* mode string; words are what follows them.                               *)
(***************************************************************************)
EXTENDS Naturals, Sequences, FiniteSets, FiniteSetsExt

CONSTANTS
  Letter,   \* the characters of mode strings that are not signs
  Word,     \* the words that may follow the mode string
  Colon,    \* those of them that begin with ':'
  Empty,    \* the empty string
  MaxChars, \* characters in one mode string
  MaxWords  \* words after it

ASSUME ModeLineAssumption ==
  /\ Letter \cap {"+", "-", "none"} = {}
  /\ Colon \subseteq Word
  /\ Empty \notin Word
  /\ MaxChars \in Nat /\ MaxWords \in Nat

VARIABLES
  modeStr,  \* the mode string
  words,    \* the words after it
  stage,    \* "parse", "modes" (in the loop of _parseMode) or "done"
  args,     \* message.params from the third on
  i,        \* the character the loop is at
  sign,     \* the sign in force, "none" for the 0 before the first one
  argIndex, \* the argument to be given next
  modes     \* the vector built so far

vars == <<modeStr, words, stage, args, i, sign, argIndex, modes>>

Signs == {"+", "-"}
Stages == {"parse", "modes", "done"}
ListsUpTo(n, S) == UNION {[1 .. k -> S] : k \in 0 .. n}

Init ==
  /\ modeStr \in ListsUpTo(MaxChars, Letter \cup Signs)
  /\ words \in ListsUpTo(MaxWords, Word)
  /\ stage = "parse"
  /\ args = <<>>
  /\ i = 1
  /\ sign = "none"
  /\ argIndex = 1
  /\ modes = <<>>

-----------------------------------------------------------------------------

\* parseLine: what follows " :" is the trailing part, and MODE never looks at it;
\* the words before it are parameters.
Parse ==
  /\ stage = "parse"
  /\ \E n \in 0 .. Len(words) :
       /\ \A k \in 1 .. n : words[k] \notin Colon
       /\ n < Len(words) => words[n + 1] \in Colon
       /\ args' = SubSeq(words, 1, n)
  /\ stage' = "modes"
  /\ UNCHANGED <<modeStr, words, i, sign, argIndex, modes>>

\* Mutant: -l takes an argument.
NeedsArgForMinus(mode, s) ==
  ~(mode \in {"i", "t"} \/ (mode = "k" /\ s = "-"))

\* _modeNeedsArg
NeedsArg(mode, s) == ~(mode \in {"i", "t"} \/ (mode \in {"k", "l"} /\ s = "-"))

Char == modeStr[i]

\* The loop of _parseMode is at a character and goes on to the next.
NextChar ==
  /\ stage = "modes"
  /\ i <= Len(modeStr)
  /\ i' = i + 1
  /\ UNCHANGED <<modeStr, words, stage, args>>

SignChar ==
  /\ NextChar
  /\ Char \in Signs
  /\ sign' = Char
  /\ UNCHANGED <<argIndex, modes>>

Mode(c, s, arg) == [mode |-> c, sign |-> s, arg |-> arg]

PlainMode ==
  /\ NextChar
  /\ Char \notin Signs /\ ~NeedsArg(Char, sign)
  /\ modes' = Append(modes, Mode(Char, sign, Empty))
  /\ UNCHANGED <<sign, argIndex>>

\* Mutant: the argument is not used up.
ModeWithSameArg ==
  /\ NextChar
  /\ Char \notin Signs /\ NeedsArg(Char, sign)
  /\ argIndex <= Len(args)
  /\ modes' = Append(modes, Mode(Char, sign, args[argIndex]))
  /\ UNCHANGED <<sign, argIndex>>

ModeWithArg ==
  /\ NextChar
  /\ Char \notin Signs /\ NeedsArg(Char, sign)
  /\ argIndex <= Len(args)
  /\ modes' = Append(modes, Mode(Char, sign, args[argIndex]))
  /\ argIndex' = argIndex + 1
  /\ UNCHANGED sign

\* The handler of the mode will refuse it.
ModeLacksArg ==
  /\ NextChar
  /\ Char \notin Signs /\ NeedsArg(Char, sign)
  /\ argIndex > Len(args)
  /\ modes' = Append(modes, Mode(Char, sign, Empty))
  /\ UNCHANGED <<sign, argIndex>>

EndOfModes ==
  /\ stage = "modes" /\ i > Len(modeStr)
  /\ stage' = "done"
  /\ UNCHANGED <<modeStr, words, args, i, sign, argIndex, modes>>

Done == stage = "done" /\ UNCHANGED vars

Next ==
  \/ Parse \/ SignChar \/ PlainMode \/ ModeWithArg \/ ModeLacksArg
  \/ EndOfModes \/ Done

Spec == Init /\ [][Next]_vars

-----------------------------------------------------------------------------
(* What the line means, read off the line as a whole. *)

\* The sign in force at position p.
SignAt(p) ==
  LET before == {q \in 1 .. p - 1 : modeStr[q] \in Signs}
  IN IF before = {} THEN "none" ELSE modeStr[Max(before)]

\* The positions up to p that name a mode, and those whose mode wants an argument.
Letters(p) == {q \in 1 .. p : modeStr[q] \notin Signs}
Wanting(p) == {q \in Letters(p) : NeedsArg(modeStr[q], SignAt(q))}

\* The n-th argument.
Arg(n) == IF n <= Len(args) THEN args[n] ELSE Empty

\* The mode change that the mode at position p is read as.
ReadAs(p) == modes[Cardinality(Letters(p))]

\* Nothing of the line is lost, repeated or taken out of order, whatever modes it
\* names: each mode is read once, in order, with the sign in force where it stands,
\* and the n-th mode that wants an argument gets the n-th one, or none once they are
\* used up; what follows " :" is not among them.
ModesAreReadInOrder ==
  /\ stage = "done" => Len(modes) = Cardinality(Letters(Len(modeStr)))
  /\ \A p \in Letters(i - 1) :
       ReadAs(p) = Mode(modeStr[p], SignAt(p),
                        IF p \in Wanting(p) THEN Arg(Cardinality(Wanting(p))) ELSE Empty)
  /\ \A k \in DOMAIN modes : modes[k].arg \notin Colon

\* The table in the comment above _handleMode.
Table == {<<"k", "+">>, <<"l", "+">>, <<"o", "+">>, <<"o", "-">>}

\* Every mode of the string is one of the table's and stands after a sign.
WellFormed ==
  \A p \in Letters(Len(modeStr)) :
    modeStr[p] \in {"i", "t", "k", "l", "o"} /\ SignAt(p) \in Signs

\* A well-formed line with an argument for each mode that has a "yes" in the table,
\* and no more, gives an argument to exactly these modes and leaves none over.
TableIsFollowed ==
  LET yes == {p \in Letters(Len(modeStr)) : <<modeStr[p], SignAt(p)>> \in Table}
  IN stage = "done" /\ WellFormed /\ Len(args) = Cardinality(yes) =>
       /\ argIndex = Len(args) + 1
       /\ \A p \in Letters(Len(modeStr)) : ReadAs(p).arg # Empty <=> p \in yes

\* The inductive invariant: where the loop stands.
ModeLineInv ==
  /\ modeStr \in Seq(Letter \cup Signs)
  /\ words \in Seq(Word)
  /\ stage \in Stages
  /\ args \in Seq(Word \ Colon)
  /\ modes \in Seq([mode : Letter, sign : Signs \cup {"none"},
                    arg : (Word \ Colon) \cup {Empty}])
  /\ i \in 1 .. Len(modeStr) + 1
  /\ stage = "parse" => i = 1
  /\ stage = "done" => i = Len(modeStr) + 1
  /\ sign \in Signs \cup {"none"} /\ sign = SignAt(i)
  /\ argIndex = Min({Cardinality(Wanting(i - 1)), Len(args)}) + 1
  /\ Len(modes) = Cardinality(Letters(i - 1))
  /\ ModesAreReadInOrder

=============================================================================
