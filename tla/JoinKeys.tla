------------------------------ MODULE JoinKeys ------------------------------
(***************************************************************************)
(* How _handleJoin (classes/CommandHandler.cpp) pairs the keys of a JOIN   *)
(* line with its channels, compared with the pairing the comment above the *)
(* handler gives: the i-th key is for the i-th channel.                    *)
(***************************************************************************)
EXTENDS ChannelState

CONSTANTS
  MaxNames,  \* channels in one JOIN line
  MaxKeys    \* keys in one JOIN line

ASSUME JoinKeysAssumption == MaxNames \in Nat /\ MaxKeys \in Nat

VARIABLES
  locks,  \* the key of each channel named, Empty where it has none
  keys,   \* the vector of keys the loop reads
  i,      \* the position the loop is at
  joined  \* the positions that joined

vars == <<locks, keys, i, joined>>

ListsUpTo(n, S) == UNION {[1 .. k -> S] : k \in 1 .. n}

\* Without a key parameter keys holds one empty string per channel.
Init ==
  /\ locks \in ListsUpTo(MaxNames, Key \cup {Empty})
  /\ keys \in ListsUpTo(MaxKeys, Key \cup {Empty})
                \cup {[k \in DOMAIN locks |-> Empty]}
  /\ i = 1
  /\ joined = {}

\* The channel at position i exists, is not full and not invite-only.
Position ==
  /\ i <= Len(locks)
  /\ joined' = IF BadKey([NewChannel EXCEPT !.key = locks[i]], i, locks, keys)
               THEN joined ELSE joined \cup {i}
  /\ i' = i + 1
  /\ UNCHANGED <<locks, keys>>

Done == i > Len(locks) /\ UNCHANGED vars

Next == Position \/ Done

Spec == Init /\ [][Next]_vars

-----------------------------------------------------------------------------

\* The key the line gives for position p: "#foo using key fubar and &bar using no
\* key" when there are fewer keys than channels.
GivenKey(p) == IF p <= Len(keys) THEN keys[p] ELSE Empty

\* "join channel #foo using key "fubar" and &bar using no key" (comment on JOIN): a
\* channel with a key is joined with that key only.
OnlyWithTheKey ==
  \A p \in joined : locks[p] # Empty => GivenKey(p) = locks[p]

\* Whoever gives a channel's key, or joins one that has none, is let in, however
\* many keys the other channels of the line want.
TheKeyIsEnough ==
  \A p \in 1 .. i - 1 : locks[p] \in {Empty, GivenKey(p)} => p \in joined

\* The inductive invariant: the positions passed that joined are those whose key
\* was not refused.
JoinKeysInv ==
  /\ locks \in Seq(Key \cup {Empty})
  /\ keys \in Seq(Key \cup {Empty})
  /\ i \in 1 .. Len(locks) + 1
  /\ joined = {p \in 1 .. i - 1 :
                 ~BadKey([NewChannel EXCEPT !.key = locks[p]], p, locks, keys)}

=============================================================================
