-------------------------- MODULE JoinKeysProofs ---------------------------
(***************************************************************************)
(* Proofs about the pairing of keys and channels in a JOIN line, for lines *)
(* of any length.                                                          *)
(***************************************************************************)
EXTENDS JoinKeys, SequenceTheorems, TLAPS

LEMMA ListsAreSequences ==
  ASSUME NEW n \in Nat, NEW S, NEW s \in ListsUpTo(n, S)
  PROVE  s \in Seq(S)
BY SeqDef DEF ListsUpTo

LEMMA InitJoinKeysInv == Init => JoinKeysInv
<1> SUFFICES ASSUME Init PROVE JoinKeysInv
  OBVIOUS
<1>1. locks \in Seq(Key \cup {Empty})
  BY ListsAreSequences, JoinKeysAssumption DEF Init
<1>2. keys \in Seq(Key \cup {Empty})
  <2>1. CASE keys \in ListsUpTo(MaxKeys, Key \cup {Empty})
    BY <2>1, ListsAreSequences, JoinKeysAssumption
  <2>2. CASE keys = [k \in DOMAIN locks |-> Empty]
    BY <1>1, <2>2
  <2>3. QED
    BY <2>1, <2>2 DEF Init
<1>3. QED
  BY <1>1, <1>2 DEF Init, JoinKeysInv

LEMMA NextJoinKeysInv == JoinKeysInv /\ [Next]_vars => JoinKeysInv'
<1> SUFFICES ASSUME JoinKeysInv, [Next]_vars PROVE JoinKeysInv'
  OBVIOUS
<1>1. CASE Position
  <2> DEFINE bad(p) == BadKey([NewChannel EXCEPT !.key = locks[p]], p, locks, keys)
  <2>1. /\ joined = {p \in 1 .. i - 1 : ~bad(p)}
        /\ i \in 1 .. Len(locks) /\ Len(locks) \in Nat
        /\ i' = i + 1 /\ UNCHANGED <<locks, keys>>
        /\ joined' = IF bad(i) THEN joined ELSE joined \cup {i}
    BY <1>1 DEF JoinKeysInv, Position
  <2> HIDE DEF bad
  <2>2. joined' = {p \in 1 .. i' - 1 : ~bad(p)}
    BY <2>1
  <2>3. QED
    BY <2>1, <2>2 DEF JoinKeysInv, bad
<1>2. CASE UNCHANGED vars
  BY <1>2 DEF JoinKeysInv, vars
<1>3. QED
  BY <1>1, <1>2 DEF Next, Done

LEMMA JoinKeysInvariant == Spec => []JoinKeysInv
BY InitJoinKeysInv, NextJoinKeysInv, PTL DEF Spec

\* The key of a channel, given at the channel's position, is always enough, on
\* JOIN lines of any length.
THEOREM KeySuffices == Spec => []TheKeyIsEnough
<1>1. JoinKeysInv => TheKeyIsEnough
  BY DEF JoinKeysInv, TheKeyIsEnough, BadKey, GivenKey, NewChannel
<1>2. QED
  BY <1>1, JoinKeysInvariant, PTL

=============================================================================
