---------------------------- MODULE ChannelState ----------------------------
(***************************************************************************)
(* The data class Channel (classes/Channel.cpp): what a channel remembers  *)
(* and the pure effect each command has on it.  Channel::_users and        *)
(* Channel::_operators are sets of Client*, so their elements are heap     *)
(* addresses, not clients: an address stays in a set after the Client at   *)
(* that address was deleted, and a later Client may be allocated there.    *)
(***************************************************************************)
EXTENDS Naturals, FiniteSets, Sequences

CONSTANTS
  Addr,     \* heap addresses at which a Client object may be allocated
  Key,      \* channel keys (non-empty strings)
  UintMax,  \* UINT_MAX of the build
  UlongMax, \* ULONG_MAX of the build
  Empty     \* the empty string: no key, no nickname, no channel name

ASSUME ChannelAssumption ==
  /\ IsFiniteSet(Addr)
  /\ UintMax \in Nat \ {0}
  /\ UlongMax \in Nat
  /\ UintMax <= UlongMax
  /\ Empty \notin Key

\* _mode_k and _mode_l are set and cleared together with _key and _userLimit,
\* so "no key" is Empty and "no limit" is 0.  Of the topic only its presence
\* matters to any command.
Channel ==
  [users : SUBSET Addr, operators : SUBSET Addr,
   mode_i : BOOLEAN, mode_t : BOOLEAN,
   key : Key \cup {Empty}, limit : 0 .. UintMax, topic : BOOLEAN]

\* Channel(name, creationTime): also the value kept for a name without channel.
NewChannel ==
  [users |-> {}, operators |-> {}, mode_i |-> FALSE, mode_t |-> FALSE,
   key |-> Empty, limit |-> 0, topic |-> FALSE]

-----------------------------------------------------------------------------
(* JOIN *)

\* Mutant: everybody enters as an operator.
JoinedAsOperator(ch, a, created) ==
  [ch EXCEPT !.users = @ \cup {a}, !.operators = @ \cup {a}]

\* addUser, preceded by addOperator when this JOIN created the channel.
Joined(ch, a, created) ==
  [ch EXCEPT !.users = @ \cup {a},
             !.operators = IF created THEN @ \cup {a} ELSE @]

\* Mutant: an off-by-one in the limit test.
LimitReachedLate(ch) == ch.limit > 0 /\ ch.limit < Cardinality(ch.users)

\* ERR_CHANNELISFULL.  getNumOfUsers counts addresses, deleted ones included.
LimitReached(ch) == ch.limit > 0 /\ ch.limit <= Cardinality(ch.users)

\* Mutant: every channel of the line is compared with the first key.
BadKeyOfFirst(ch, i, chs, keys) ==
  /\ ch.key # Empty
  /\ \/ Len(keys) >= Len(chs) /\ keys[1] # ch.key
     \/ Len(keys) < i - 1

\* ERR_BADCHANNELKEY for the i-th (from 1; the code counts from 0) of the
\* channel names chs.  Without a key parameter the handler fills keys with one
\* empty string per channel.
BadKey(ch, i, chs, keys) ==
  /\ ch.key # Empty
  /\ \/ Len(keys) >= Len(chs) /\ keys[i] # ch.key
     \/ Len(keys) < i - 1

-----------------------------------------------------------------------------
(* Leaving: PART, KICK and QUIT all go through _removeClientFromChannel. *)

\* Mutant: the rank is taken away, the user stays.
WithoutRankOnly(ch, a) == [ch EXCEPT !.operators = @ \ {a}]

Without(ch, a) == [ch EXCEPT !.operators = @ \ {a}, !.users = @ \ {a}]

\* Mutant: nobody is promoted.
AfterLeaveNoHeir(ch, a, heir) == Without(ch, a)

\* When no operator is left, *getUsers().begin() becomes one.  The order of a
\* std::set<Client*> is that of the addresses, which the allocator chooses: the
\* heir is any remaining user.
AfterLeave(ch, a, heir) ==
  LET rest == Without(ch, a)
  IN IF rest.operators = {} THEN [rest EXCEPT !.operators = {heir}] ELSE rest

-----------------------------------------------------------------------------
(* MODE and TOPIC *)

\* strtoul saturates at ULONG_MAX and sets errno = ERANGE; it never clears errno,
\* and the handler does not either, so a value left by an earlier call counts.
LimitRefused(n, err) ==
  \/ n = 0
  \/ n >= UlongMax
  \/ err = "ERANGE"
  \/ n > UintMax

\* setTopic also raises _mode_t.
WithTopic(ch) == [ch EXCEPT !.topic = TRUE, !.mode_t = TRUE]

=============================================================================
