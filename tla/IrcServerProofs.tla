-------------------------- MODULE IrcServerProofs ---------------------------
(***************************************************************************)
(* Proofs about IrcServer for every value of its constants.                *)
(***************************************************************************)
EXTENDS IrcServer, SequenceTheorems, TLAPS

-----------------------------------------------------------------------------
(* What the operations on a channel return. *)

\* Leaving a channel, with a remaining user as heir, keeps it well-typed,
\* removes one user and leaves operators among the users.
LEMMA AfterLeaveFacts ==
  ASSUME NEW ch \in Channel, NEW a \in Addr, NEW h \in ch.users \ {a},
         ch.operators \subseteq ch.users
  PROVE  /\ AfterLeave(ch, a, h) \in Channel
         /\ AfterLeave(ch, a, h).users = ch.users \ {a}
         /\ AfterLeave(ch, a, h).operators \subseteq ch.users \ {a}
         /\ AfterLeave(ch, a, h).operators # {}
<1>1. h \in Addr
  BY DEF Channel
<1>2. /\ Without(ch, a) \in Channel
      /\ Without(ch, a).users = ch.users \ {a}
      /\ Without(ch, a).operators = ch.operators \ {a}
  BY DEF Without, Channel
<1>3. QED
  BY <1>1, <1>2 DEF AfterLeave, Channel

\* Joining adds one user, an operator when the channel is new.
LEMMA JoinedFacts ==
  ASSUME NEW ch \in Channel, NEW a \in Addr, NEW b \in BOOLEAN
  PROVE  /\ Joined(ch, a, b) \in Channel
         /\ Joined(ch, a, b).users = ch.users \cup {a}
         /\ Joined(ch, a, b).operators \subseteq ch.operators \cup {a}
BY DEF Joined, Channel

LEMMA NewFacts ==
  /\ NewChannel \in Channel /\ NewChannel.users = {} /\ NewChannel.operators = {}
  /\ NewClient \in Client /\ NewClient.channels = {}
<1>1. 0 \in 0 .. UintMax
  BY ChannelAssumption
<1>2. NewChannel \in Channel /\ NewChannel.users = {} /\ NewChannel.operators = {}
  BY <1>1 DEF NewChannel, Channel
<1>3. NewClient \in Client /\ NewClient.channels = {}
  BY DEF NewClient, Client
<1>4. QED
  BY <1>2, <1>3

\* Erasing the entry of fd from _pollfds removes fd and nothing else.
LEMMA PollfdsWithoutFacts ==
  ASSUME pollfds \in Seq(Fds), IsInjective(pollfds),
         NEW fd \in ToSet(pollfds)
  PROVE  /\ PollfdsWithout(fd) \in Seq(Fds)
         /\ IsInjective(PollfdsWithout(fd))
         /\ ToSet(PollfdsWithout(fd)) = ToSet(pollfds) \ {fd}
<1> DEFINE k == CHOOSE i \in DOMAIN pollfds : pollfds[i] = fd
           q == PollfdsWithout(fd)
           n == Len(pollfds)
<1>1. k \in 1 .. n /\ pollfds[k] = fd /\ n \in Nat /\ DOMAIN pollfds = 1 .. n
  <2>1. \E i \in DOMAIN pollfds : pollfds[i] = fd
    BY DEF ToSet
  <2>2. k \in DOMAIN pollfds /\ pollfds[k] = fd
    BY <2>1
  <2>3. n \in Nat /\ DOMAIN pollfds = 1 .. n
    OBVIOUS
  <2>4. QED
    BY <2>2, <2>3
<1>2. q = SubSeq(pollfds, 1, k - 1) \o SubSeq(pollfds, k + 1, n)
  BY DEF PollfdsWithout, RemoveAt
<1> HIDE DEF k, q, n
<1>3. /\ q \in Seq(Fds)
      /\ Len(q) = n - 1
      /\ \A i \in 1 .. n - 1 : q[i] = IF i < k THEN pollfds[i] ELSE pollfds[i + 1]
  <2> DEFINE l == SubSeq(pollfds, 1, k - 1)
             r == SubSeq(pollfds, k + 1, n)
  <2>1. \A i \in 1 .. n : pollfds[i] \in Fds
    BY <1>1
  <2>2. /\ l \in Seq(Fds) /\ Len(l) = k - 1
        /\ \A i \in 1 .. k - 1 : l[i] = pollfds[i]
    BY <1>1, <2>1, SubSeqProperties
  <2>3. /\ r \in Seq(Fds) /\ Len(r) = n - k
        /\ \A i \in 1 .. n - k : r[i] = pollfds[k + i]
    BY <1>1, <2>1, SubSeqProperties
  <2> HIDE DEF l, r
  <2>4. /\ l \o r \in Seq(Fds)
        /\ Len(l \o r) = n - 1
        /\ \A i \in 1 .. n - 1 :
             (l \o r)[i] = IF i <= k - 1 THEN l[i] ELSE r[i - (k - 1)]
    BY <1>1, <2>2, <2>3, ConcatProperties
  <2>5. q = l \o r
    BY <1>2 DEF l, r
  <2>6. ASSUME NEW i \in 1 .. n - 1
        PROVE  q[i] = IF i < k THEN pollfds[i] ELSE pollfds[i + 1]
    <3>1. CASE i < k
      BY <1>1, <2>2, <2>4, <2>5, <3>1
    <3>2. CASE i >= k
      BY <1>1, <2>3, <2>4, <2>5, <3>2
    <3>3. QED
      BY <1>1, <3>1, <3>2
  <2>7. QED
    BY <2>4, <2>5, <2>6
<1>4. IsInjective(q)
  <2>1. \A i, j \in 1 .. n : pollfds[i] = pollfds[j] => i = j
    BY <1>1 DEF IsInjective
  <2>2. DOMAIN q = 1 .. n - 1
    BY <1>1, <1>3
  <2>3. ASSUME NEW i \in 1 .. n - 1, NEW j \in 1 .. n - 1, q[i] = q[j]
        PROVE  i = j
    <3>1. \E a \in 1 .. n : q[i] = pollfds[a] /\ a = IF i < k THEN i ELSE i + 1
      BY <1>1, <1>3
    <3>2. \E b \in 1 .. n : q[j] = pollfds[b] /\ b = IF j < k THEN j ELSE j + 1
      BY <1>1, <1>3
    <3>3. PICK a \in 1 .. n, b \in 1 .. n :
            /\ a = (IF i < k THEN i ELSE i + 1) /\ b = (IF j < k THEN j ELSE j + 1)
            /\ pollfds[a] = pollfds[b]
      BY <2>3, <3>1, <3>2
    <3>4. a = b
      BY <2>1, <3>3
    <3>5. QED
      BY <1>1, <3>3, <3>4
  <2>4. QED
    BY <2>2, <2>3 DEF IsInjective
<1>5. ToSet(q) \subseteq ToSet(pollfds) \ {fd}
  BY <1>1, <1>3 DEF IsInjective, ToSet, n
<1>6. ASSUME NEW g \in ToSet(pollfds), g # fd
      PROVE  g \in ToSet(q)
  <2>1. PICK i \in 1 .. n : pollfds[i] = g
    BY <1>1 DEF ToSet
  <2>2. i # k
    BY <1>1, <1>6, <2>1
  <2>3. CASE i < k
    BY <1>1, <1>3, <2>1, <2>3 DEF ToSet
  <2>4. CASE i > k
    <3>1. i - 1 \in 1 .. n - 1 /\ q[i - 1] = g
      BY <1>1, <1>3, <2>1, <2>4
    <3>2. QED
      BY <1>3, <3>1 DEF ToSet
  <2>5. QED
    BY <1>1, <2>1, <2>2, <2>3, <2>4
<1>7. QED
  BY <1>3, <1>4, <1>5, <1>6 DEF q

-----------------------------------------------------------------------------
(* The inductive invariant in three parts, which different actions disturb:  *)
(* the connections and the loop, the objects, the MODE line in execution.    *)

ConnOK ==
  /\ status \in {"running", "stopped", "crashed"}
  /\ clients \in [Fds -> Addr \cup {NULL}]
  /\ pollfds \in Seq(Fds)
  /\ marked \in Seq(Fds)
  /\ cur \in 0 .. Len(pollfds)
  /\ stage \in Stages
  /\ errno \in {"other", "ERANGE", "EAGAIN"}
  /\ PollfdsMatchClients
  /\ status = "running" /\ stage = "disconnect" => cur = 0 /\ marked # <<>>
  /\ \A f, g \in Fds : clients[f] # NULL /\ clients[f] = clients[g] => f = g

ObjectsOK ==
  /\ obj \in [Addr -> Client]
  /\ existing \subseteq ChanName
  /\ channels \in [ChanName -> Channel]
  /\ \A a \in Addr \ Live : obj[a] = NewClient
  /\ \A c \in ChanName \ existing : channels[c] = NewChannel
  /\ NoDanglingChannel
  /\ OperatorsAreUsers
  /\ ChannelsAreInhabited

ModesOK ==
  /\ modes \in Seq(ModeChange)
  /\ modeChan \in ChanName \cup {Empty}
  /\ status = "running" /\ modes # <<>> => modeChan \in existing

Consistent == ConnOK /\ ObjectsOK /\ ModesOK

LEMMA IndInvParts == IndInv <=> Consistent
BY DEF Consistent, IndInv, TypeOK, LoopPosition, HeapOK, ConnOK, ObjectsOK, ModesOK

\* The descriptor served belongs to a connected client.
LEMMA SelfIsLive ==
  ASSUME ConnOK, status = "running", cur > 0
  PROVE  SelfFd \in Fds /\ SelfFd \in ToSet(pollfds) /\ Self \in Live /\ Self \in Addr
<1>1. cur \in 1 .. Len(pollfds) /\ DOMAIN pollfds = 1 .. Len(pollfds)
  BY DEF ConnOK
<1>2. SelfFd \in Fds /\ SelfFd \in ToSet(pollfds)
  BY <1>1 DEF ConnOK, SelfFd, ToSet
<1>3. clients[SelfFd] # NULL
  BY <1>2 DEF ConnOK, PollfdsMatchClients
<1>4. QED
  BY <1>2, <1>3 DEF ConnOK, Live, Self

\* A client that getClient returns is connected.
LEMMA GetClientIsLive ==
  ASSUME NEW n, NEW a, GetClient(n, a)
  PROVE  a \in Live
BY DEF GetClient, Matches, Live

\* A handler that leaves Clients and _pollfds alone keeps ConnOK.
LEMMA LineKeepsConnOK ==
  ASSUME ConnOK, NEW command, Line(command),
         status' \in {"running", "crashed"},
         marked' \in Seq(Fds), errno' \in {"other", "ERANGE", "EAGAIN"}
  PROVE  ConnOK'
BY DEF ConnOK, Line, PollfdsMatchClients, Stages

LEMMA MarkKeepsType ==
  ASSUME marked \in Seq(Fds), NEW fd \in Fds, Mark(fd)
  PROVE  marked' \in Seq(Fds) /\ marked' # <<>>
BY AppendProperties DEF Mark

\* Between two mode changes, when no MODE line is in execution, ModesOK only
\* depends on the line's variables.
LEMMA IdleKeepsModesOK ==
  ASSUME ModesOK, modes = <<>>, UNCHANGED modeVars
  PROVE  ModesOK'
BY DEF ModesOK, modeVars

\* Objects that are not touched stay consistent if no client is deleted.
LEMMA FrameKeepsObjectsOK ==
  ASSUME ObjectsOK, UNCHANGED <<clients, obj, chanVars>>
  PROVE  ObjectsOK'
BY DEF ObjectsOK, Live, NoDanglingChannel, OperatorsAreUsers, ChannelsAreInhabited, chanVars

\* Changing a connected client's record, but not the channels it keeps.
LEMMA ClientUpdateKeepsObjectsOK ==
  ASSUME ObjectsOK, UNCHANGED <<clients, chanVars>>,
         NEW a \in Live, a \in Addr, NEW r \in Client,
         r.channels = obj[a].channels, obj' = [obj EXCEPT ![a] = r]
  PROVE  ObjectsOK'
<1>1. obj' \in [Addr -> Client]
  BY DEF ObjectsOK
<1>2. \A b \in Addr : obj'[b].channels = obj[b].channels
  BY DEF ObjectsOK
<1>3. \A b \in Addr \ Live' : obj'[b] = NewClient
  BY DEF ObjectsOK, Live
<1>4. QED
  BY <1>1, <1>2, <1>3
  DEF ObjectsOK, NoDanglingChannel, OperatorsAreUsers, ChannelsAreInhabited, chanVars

\* Replacing an existing channel by one with the same users, and operators among
\* them.
LEMMA ChannelUpdateKeepsObjectsOK ==
  ASSUME ObjectsOK, UNCHANGED <<clients, obj, existing>>,
         NEW c \in existing, NEW ch \in Channel,
         ch.users = channels[c].users, ch.operators \subseteq ch.users,
         channels' = [channels EXCEPT ![c] = ch]
  PROVE  ObjectsOK'
<1>1. c \in ChanName
  BY DEF ObjectsOK
<1>2. channels' \in [ChanName -> Channel]
  BY DEF ObjectsOK
<1>3. \A d \in ChanName : channels'[d].users = channels[d].users
  BY <1>1 DEF ObjectsOK
<1>4. \A d \in ChanName \ {c} : channels'[d] = channels[d]
  BY <1>1 DEF ObjectsOK
<1>5. channels'[c] = ch
  BY <1>1 DEF ObjectsOK
<1>6. (\A d \in ChanName \ existing : channels[d] = NewChannel)'
  BY <1>4 DEF ObjectsOK
<1>7. NoDanglingChannel'
  BY <1>3 DEF ObjectsOK, NoDanglingChannel
<1>8. OperatorsAreUsers'
  BY <1>4, <1>5 DEF ObjectsOK, OperatorsAreUsers
<1>9. ChannelsAreInhabited'
  BY <1>3 DEF ObjectsOK, ChannelsAreInhabited
<1>10. QED
  BY <1>2, <1>6, <1>7, <1>8, <1>9 DEF ObjectsOK, Live

-----------------------------------------------------------------------------
(* Departures: the heart of QUIT, PART and KICK. *)

\* What is left of the channels in D and of the client after a has left them.
LEMMA RemoveFacts ==
  ASSUME ObjectsOK, NEW a \in Addr, NEW D \in SUBSET existing,
         NEW heir, RemoveFromChannels(a, D, heir)
  PROVE  /\ existing' \subseteq existing
         /\ channels' \in [ChanName -> Channel]
         /\ \A c \in ChanName \ existing' : channels'[c] = NewChannel
         /\ \A c \in existing \ D : c \in existing' /\ channels'[c] = channels[c]
         /\ \A c \in D \cap existing' :
              /\ channels'[c].users = channels[c].users \ {a}
              /\ channels'[c].operators \subseteq channels[c].users \ {a}
              /\ channels'[c].operators # {}
              /\ channels'[c].users # {}
         /\ \A c \in D \ existing' : channels[c].users \subseteq {a}
         /\ obj' = [obj EXCEPT ![a] = [obj[a] EXCEPT !.channels = obj[a].channels \ D]]
         /\ obj' \in [Addr -> Client]
         /\ obj'[a].channels = obj[a].channels \ D
         /\ \A b \in Addr \ {a} : obj'[b] = obj[b]
<1> DEFINE E == Emptied(a, D)
<1>1. /\ E \subseteq D
      /\ \A c \in D \ E : heir[c] \in channels[c].users \ {a}
      /\ \A c \in E : channels[c].users \subseteq {a}
      /\ existing' = existing \ E
      /\ \A c \in ChanName : channels'[c] =
           IF c \in E THEN NewChannel
           ELSE IF c \in D THEN AfterLeave(channels[c], a, heir[c])
           ELSE channels[c]
      /\ channels' = [c \in ChanName |-> channels'[c]]
      /\ obj' = [obj EXCEPT ![a] = ForgetChannels(@, D)]
  BY DEF RemoveFromChannels, Emptied
<1> HIDE DEF E
<1>2. D \subseteq ChanName /\ existing \subseteq ChanName /\ existing' \subseteq existing
  BY <1>1 DEF ObjectsOK
<1>3. ASSUME NEW c \in D \ E
      PROVE  /\ channels'[c] \in Channel
             /\ channels'[c].users = channels[c].users \ {a}
             /\ channels'[c].operators \subseteq channels[c].users \ {a}
             /\ channels'[c].operators # {}
             /\ channels'[c].users # {}
  <2>1. channels'[c] = AfterLeave(channels[c], a, heir[c])
    BY <1>1, <1>2
  <2>2. channels[c] \in Channel /\ channels[c].operators \subseteq channels[c].users
    BY <1>2 DEF ObjectsOK, OperatorsAreUsers
  <2>3. heir[c] \in channels[c].users \ {a}
    BY <1>1
  <2>4. QED
    BY <2>1, <2>2, <2>3, AfterLeaveFacts
<1>4. \A c \in ChanName \ D : channels'[c] = channels[c]
  BY <1>1
<1>5. \A c \in E : channels'[c] = NewChannel
  BY <1>1, <1>2
<1>6. obj' = [obj EXCEPT ![a] = [obj[a] EXCEPT !.channels = obj[a].channels \ D]]
  BY <1>1 DEF ObjectsOK, ForgetChannels
<1>7. /\ obj' \in [Addr -> Client]
      /\ obj'[a].channels = obj[a].channels \ D
      /\ \A b \in Addr \ {a} : obj'[b] = obj[b]
  BY <1>6 DEF ObjectsOK, Client
<1>8. channels' \in [ChanName -> Channel]
  <2>1. \A c \in ChanName : channels'[c] \in Channel
    BY <1>3, <1>4, <1>5, NewFacts DEF ObjectsOK
  <2>2. QED
    BY <1>1, <2>1
<1>9. \A c \in ChanName \ existing' : channels'[c] = NewChannel
  BY <1>1, <1>2, <1>4, <1>5 DEF ObjectsOK
<1>10. QED
  BY <1>1, <1>2, <1>3, <1>4, <1>6, <1>7, <1>8, <1>9

LEMMA RemoveKeepsObjectsOK ==
  ASSUME ObjectsOK, UNCHANGED clients,
         NEW a \in Live, a \in Addr, NEW D \in SUBSET existing,
         NEW heir, RemoveFromChannels(a, D, heir)
  PROVE  ObjectsOK'
<1>1. /\ existing' \subseteq existing
      /\ channels' \in [ChanName -> Channel]
      /\ \A c \in ChanName \ existing' : channels'[c] = NewChannel
      /\ \A c \in existing \ D : c \in existing' /\ channels'[c] = channels[c]
      /\ \A c \in D \cap existing' :
           /\ channels'[c].users = channels[c].users \ {a}
           /\ channels'[c].operators \subseteq channels[c].users \ {a}
           /\ channels'[c].operators # {}
           /\ channels'[c].users # {}
      /\ \A c \in D \ existing' : channels[c].users \subseteq {a}
      /\ obj' \in [Addr -> Client]
      /\ obj'[a].channels = obj[a].channels \ D
      /\ \A b \in Addr \ {a} : obj'[b] = obj[b]
  BY RemoveFacts
<1>2. \A b \in Addr \ Live' : obj'[b] = NewClient
  BY <1>1 DEF ObjectsOK, Live
<1>3. NoDanglingChannel'
  <2>1. SUFFICES ASSUME NEW b \in Addr, NEW c \in obj'[b].channels
                 PROVE  c \in existing' /\ b \in channels'[c].users
    BY DEF NoDanglingChannel
  <2>2. c \in obj[b].channels /\ c \in existing /\ b \in channels[c].users
    BY <1>1 DEF ObjectsOK, NoDanglingChannel
  <2>3. QED
    BY <1>1, <2>2
<1>4. OperatorsAreUsers'
  BY <1>1 DEF ObjectsOK, OperatorsAreUsers
<1>5. ChannelsAreInhabited'
  BY <1>1 DEF ObjectsOK, ChannelsAreInhabited
<1>6. QED
  BY <1>1, <1>2, <1>3, <1>4, <1>5 DEF ObjectsOK

LEMMA QuitKeepsConsistent ==
  ASSUME Consistent, HandleQuit
  PROVE  Consistent'
<1>1. ConnOK /\ ObjectsOK /\ ModesOK
  BY DEF Consistent
<1>2. Self \in Live /\ Self \in Addr /\ SelfFd \in Fds
  BY <1>1, SelfIsLive DEF HandleQuit, Line
<1>3. obj[Self].channels \subseteq existing
  BY <1>1, <1>2 DEF ObjectsOK, NoDanglingChannel
<1>4. ObjectsOK'
  BY <1>1, <1>2, <1>3, RemoveKeepsObjectsOK DEF HandleQuit, Line
<1>5. marked' \in Seq(Fds)
  BY <1>1, <1>2, MarkKeepsType DEF HandleQuit, ConnOK
<1>6. ConnOK'
  BY <1>1, <1>5, LineKeepsConnOK DEF HandleQuit, MayDie, ConnOK
<1>7. ModesOK'
  BY <1>1, IdleKeepsModesOK DEF HandleQuit, Line
<1>8. QED
  BY <1>4, <1>6, <1>7 DEF Consistent

LEMMA PartKeepsConsistent ==
  ASSUME Consistent, HandlePart
  PROVE  Consistent'
<1>1. ConnOK /\ ObjectsOK /\ ModesOK
  BY DEF Consistent
<1>2. Self \in Live /\ Self \in Addr
  BY <1>1, SelfIsLive DEF HandlePart, Line
<1>3. PICK D \in SUBSET {c \in existing : Self \in channels[c].users} :
        /\ status' \in {"running", "crashed"}
        /\ \E heir \in [ChanName -> Addr] : RemoveFromChannels(Self, D, heir)
  BY <1>1 DEF HandlePart, MayDie
<1>4. ObjectsOK'
  BY <1>1, <1>2, <1>3, RemoveKeepsObjectsOK DEF HandlePart, Line
<1>5. ConnOK'
  BY <1>1, <1>3, LineKeepsConnOK DEF HandlePart, ConnOK
<1>6. ModesOK'
  BY <1>1, IdleKeepsModesOK DEF HandlePart, Line
<1>7. QED
  BY <1>4, <1>5, <1>6 DEF Consistent

LEMMA KickKeepsConsistent ==
  ASSUME Consistent, HandleKick
  PROVE  Consistent'
<1>1. ConnOK /\ ObjectsOK /\ ModesOK
  BY DEF Consistent
<1>2. PICK c \in existing, n \in Nick, kicked \in Addr :
        /\ GetClient(n, kicked)
        /\ status' \in {"running", "crashed"}
        /\ \E heir \in [ChanName -> Addr] : RemoveFromChannels(kicked, {c}, heir)
  BY <1>1 DEF HandleKick, MayDie
<1>3. kicked \in Live
  BY <1>2, GetClientIsLive
<1>4. ObjectsOK'
  BY <1>1, <1>2, <1>3, RemoveKeepsObjectsOK DEF HandleKick, Line
<1>5. ConnOK'
  BY <1>1, <1>2, LineKeepsConnOK DEF HandleKick, ConnOK
<1>6. ModesOK'
  BY <1>1, IdleKeepsModesOK DEF HandleKick, Line
<1>7. QED
  BY <1>4, <1>5, <1>6 DEF Consistent

-----------------------------------------------------------------------------
(* Arrivals and the other commands. *)

LEMMA JoinKeepsConsistent ==
  ASSUME Consistent, HandleJoin
  PROVE  Consistent'
<1>1. ConnOK /\ ObjectsOK /\ ModesOK
  BY DEF Consistent
<1>2. Self \in Live /\ Self \in Addr
  BY <1>1, SelfIsLive DEF HandleJoin, Line
<1>3. PICK entered \in SUBSET ChanName :
        /\ channels' = [c \in ChanName |->
             IF c \in entered THEN Joined(channels[c], Self, c \notin existing)
             ELSE channels[c]]
        /\ existing' = existing \cup entered
        /\ obj' = [obj EXCEPT ![Self].channels = @ \cup entered]
        /\ Deref(UNION {channels[c].users : c \in entered})
  BY DEF HandleJoin, Entered
<1>4. \A c \in ChanName : channels[c] \in Channel
  BY <1>1 DEF ObjectsOK
<1>5. ASSUME NEW c \in entered
      PROVE  /\ channels'[c] \in Channel
             /\ channels'[c].users = channels[c].users \cup {Self}
             /\ channels'[c].operators \subseteq channels[c].operators \cup {Self}
  BY <1>2, <1>3, <1>4, JoinedFacts
<1>6. \A c \in ChanName \ entered : channels'[c] = channels[c]
  BY <1>3
<1>7. /\ obj' \in [Addr -> Client]
      /\ obj'[Self].channels = obj[Self].channels \cup entered
      /\ \A b \in Addr \ {Self} : obj'[b] = obj[b]
  BY <1>1, <1>2, <1>3 DEF ObjectsOK, Client
<1>8. clients' = clients
  BY DEF HandleJoin, Line
<1>9. ObjectsOK'
  <2>1. channels' \in [ChanName -> Channel]
    BY <1>3, <1>4, <1>5
  <2>2. \A b \in Addr \ Live' : obj'[b] = NewClient
    BY <1>1, <1>2, <1>7, <1>8 DEF ObjectsOK, Live
  <2>3. \A c \in ChanName \ existing' : channels'[c] = NewChannel
    BY <1>1, <1>3, <1>6 DEF ObjectsOK
  <2>4. NoDanglingChannel'
    <3>1. \A c \in existing : c \in existing' /\ channels[c].users \subseteq channels'[c].users
      <4>1. ASSUME NEW c \in existing, c \in entered
            PROVE  channels[c].users \subseteq channels'[c].users
        BY <1>5, <4>1
      <4>2. ASSUME NEW c \in existing, c \notin entered
            PROVE  channels[c].users \subseteq channels'[c].users
        BY <1>1, <1>6, <4>2 DEF ObjectsOK
      <4>3. QED
        BY <1>3, <4>1, <4>2
    <3>2. \A c \in entered : c \in existing' /\ Self \in channels'[c].users
      BY <1>3, <1>5
    <3>3. \A a \in Addr : \A c \in obj[a].channels : c \in existing /\ a \in channels[c].users
      BY <1>1 DEF ObjectsOK, NoDanglingChannel
    <3>4. ASSUME NEW a \in Addr, NEW c \in obj'[a].channels
          PROVE  c \in existing' /\ a \in channels'[c].users
      <4>1. CASE c \in obj[a].channels
        BY <3>1, <3>3, <4>1
      <4>2. CASE c \notin obj[a].channels
        <5>1. a = Self /\ c \in entered
          BY <1>7, <4>2
        <5>2. QED
          BY <3>2, <5>1
      <4>3. QED
        BY <4>1, <4>2
    <3>5. QED
      BY <3>4 DEF NoDanglingChannel
  <2>5. OperatorsAreUsers'
    <3>1. ASSUME NEW c \in existing'
          PROVE  channels'[c].operators \subseteq channels'[c].users
      <4>1. channels[c].operators \subseteq channels[c].users
        BY <1>1, <1>3, NewFacts DEF ObjectsOK, OperatorsAreUsers
      <4>2. QED
        BY <1>1, <1>3, <1>5, <1>6, <4>1 DEF ObjectsOK
    <3>2. QED
      BY <3>1 DEF OperatorsAreUsers
  <2>6. ChannelsAreInhabited'
    BY <1>1, <1>3, <1>5, <1>6 DEF ObjectsOK, ChannelsAreInhabited
  <2>7. QED
    BY <1>1, <1>3, <1>7, <2>1, <2>2, <2>3, <2>4, <2>5, <2>6 DEF ObjectsOK
<1>10. ConnOK'
  BY <1>1, <1>3, LineKeepsConnOK DEF HandleJoin, Deref, MayDie, ConnOK
<1>11. ModesOK'
  BY <1>1, IdleKeepsModesOK DEF HandleJoin, Line
<1>12. QED
  BY <1>9, <1>10, <1>11 DEF Consistent

\* PASS, NICK, USER and INVITE change the record of a connected client, but not
\* the channels it keeps.
LEMMA ClientCommandsKeepConsistent ==
  ASSUME Consistent,
         HandlePass \/ HandleNick \/ HandleUser \/ HandleInvite
  PROVE  Consistent'
<1>1. ConnOK /\ ObjectsOK /\ ModesOK
  BY DEF Consistent
<1>2. \A a \in Addr : obj[a] \in Client
  BY <1>1 DEF ObjectsOK
<1>3. CASE HandlePass
  <2>1. Self \in Live /\ Self \in Addr
    BY <1>1, <1>3, SelfIsLive DEF HandlePass, Line
  <2>2. PICK ok \in BOOLEAN : obj' = [obj EXCEPT ![Self].authenticated = ok]
    BY <1>3 DEF HandlePass
  <2>3. obj' = [obj EXCEPT ![Self] = [obj[Self] EXCEPT !.authenticated = ok]]
    BY <1>1, <2>1, <2>2 DEF ObjectsOK
  <2>4. ObjectsOK'
    BY <1>1, <1>2, <1>3, <2>1, <2>3, ClientUpdateKeepsObjectsOK
    DEF HandlePass, Line, Client
  <2>5. ConnOK'
    BY <1>1, <1>3, LineKeepsConnOK DEF HandlePass, ConnOK, Line
  <2>6. ModesOK'
    BY <1>1, <1>3, IdleKeepsModesOK DEF HandlePass, Line
  <2>7. QED
    BY <2>4, <2>5, <2>6 DEF Consistent
<1>4. CASE HandleNick
  <2>1. Self \in Live /\ Self \in Addr
    BY <1>1, <1>4, SelfIsLive DEF HandleNick, Line
  <2>2. PICK r \in Client : /\ r.channels = obj[Self].channels
                            /\ obj' = [obj EXCEPT ![Self] = r]
    <3>1. CASE obj' = [obj EXCEPT ![Self] = Registered(@)]
      BY <1>1, <1>2, <2>1, <3>1 DEF Registered, TryRegister, Client, ObjectsOK
    <3>2. ASSUME NEW n \in Nick,
                 obj' = [obj EXCEPT ![Self] = Registered([@ EXCEPT !.nick = n])]
          PROVE  \E r \in Client : /\ r.channels = obj[Self].channels
                                   /\ obj' = [obj EXCEPT ![Self] = r]
      BY <1>1, <1>2, <2>1, <3>2 DEF Registered, TryRegister, Client, ObjectsOK
    <3>3. QED
      BY <1>4, <3>1, <3>2 DEF HandleNick
  <2>3. ObjectsOK'
    BY <1>1, <1>4, <2>1, <2>2, ClientUpdateKeepsObjectsOK DEF HandleNick, Line
  <2>4. ConnOK'
    BY <1>1, <1>4, LineKeepsConnOK DEF HandleNick, ConnOK, Line, Deref, MayDie
  <2>5. ModesOK'
    BY <1>1, <1>4, IdleKeepsModesOK DEF HandleNick, Line
  <2>6. QED
    BY <2>3, <2>4, <2>5 DEF Consistent
<1>5. CASE HandleUser
  <2>1. Self \in Live /\ Self \in Addr
    BY <1>1, <1>5, SelfIsLive DEF HandleUser, Line
  <2>2. PICK ok \in BOOLEAN :
          obj' = [obj EXCEPT ![Self] = Registered([@ EXCEPT !.user = obj[Self].user \/ ok])]
    BY <1>5 DEF HandleUser
  <2>3. PICK r \in Client : /\ r.channels = obj[Self].channels
                            /\ obj' = [obj EXCEPT ![Self] = r]
    BY <1>1, <1>2, <2>1, <2>2 DEF Registered, TryRegister, Client, ObjectsOK
  <2>4. ObjectsOK'
    BY <1>1, <1>5, <2>1, <2>3, ClientUpdateKeepsObjectsOK DEF HandleUser, Line
  <2>5. ConnOK'
    BY <1>1, <1>5, LineKeepsConnOK DEF HandleUser, ConnOK, Line
  <2>6. ModesOK'
    BY <1>1, <1>5, IdleKeepsModesOK DEF HandleUser, Line
  <2>7. QED
    BY <2>4, <2>5, <2>6 DEF Consistent
<1>6. CASE HandleInvite
  <2>1. PICK c \in ChanName, n \in Nick, invited \in Addr :
          /\ GetClient(n, invited)
          /\ obj' = [obj EXCEPT ![invited].invited = @ \cup {c}]
    BY <1>6 DEF HandleInvite
  <2>2. invited \in Live
    BY <2>1, GetClientIsLive
  <2>3. obj' = [obj EXCEPT ![invited] =
                  [obj[invited] EXCEPT !.invited = obj[invited].invited \cup {c}]]
    BY <1>1, <2>1 DEF ObjectsOK
  <2>4. ObjectsOK'
    <3> DEFINE r == [obj[invited] EXCEPT !.invited = obj[invited].invited \cup {c}]
    <3>1. obj[invited] \in Client
      BY <1>1, <2>1 DEF ObjectsOK
    <3>2. r \in Client /\ r.channels = obj[invited].channels
      BY <2>1, <3>1 DEF Client
    <3>3. UNCHANGED <<clients, chanVars>>
      BY <1>6 DEF HandleInvite, Line
    <3>4. obj' = [obj EXCEPT ![invited] = r]
      BY <2>3
    <3> HIDE DEF r
    <3>5. QED
      BY <1>1, <2>1, <2>2, <3>2, <3>3, <3>4, ClientUpdateKeepsObjectsOK
  <2>5. status' \in {"running", "crashed"}
    BY <1>6 DEF HandleInvite, Line
  <2>6. ConnOK'
    BY <1>1, <1>6, <2>5, LineKeepsConnOK DEF HandleInvite, ConnOK
  <2>7. ModesOK'
    BY <1>1, <1>6, IdleKeepsModesOK DEF HandleInvite, Line
  <2>8. QED
    BY <2>4, <2>6, <2>7 DEF Consistent
<1>7. QED
  BY <1>3, <1>4, <1>5, <1>6

LEMMA TopicKeepsConsistent ==
  ASSUME Consistent, HandleTopic
  PROVE  Consistent'
<1>1. ConnOK /\ ObjectsOK /\ ModesOK
  BY DEF Consistent
<1>2. PICK c \in existing : /\ Deref(channels[c].users)
                            /\ channels' = [channels EXCEPT ![c] = WithTopic(@)]
  BY DEF HandleTopic
<1>3. channels[c] \in Channel /\ channels[c].operators \subseteq channels[c].users
  BY <1>1 DEF ObjectsOK, OperatorsAreUsers
<1>4. /\ WithTopic(channels[c]) \in Channel
      /\ WithTopic(channels[c]).users = channels[c].users
      /\ WithTopic(channels[c]).operators = channels[c].operators
  BY <1>3 DEF WithTopic, Channel
<1>5. channels' = [channels EXCEPT ![c] = WithTopic(channels[c])]
  BY <1>1, <1>2 DEF ObjectsOK
<1>6. ObjectsOK'
  BY <1>1, <1>3, <1>4, <1>5, ChannelUpdateKeepsObjectsOK DEF HandleTopic, Line
<1>7. ConnOK'
  BY <1>1, <1>2, LineKeepsConnOK DEF HandleTopic, Deref, MayDie, ConnOK
<1>8. ModesOK'
  BY <1>1, IdleKeepsModesOK DEF HandleTopic, Line
<1>9. QED
  BY <1>6, <1>7, <1>8 DEF Consistent

\* The handlers that change neither clients nor channels.
LEMMA ReadersKeepConsistent ==
  ASSUME Consistent, HandleMessage \/ HandleNames \/ ReplyOnly
  PROVE  Consistent'
<1>1. ConnOK /\ ObjectsOK /\ ModesOK
  BY DEF Consistent
<1>2. CASE HandleMessage
  <2>1. ObjectsOK'
    BY <1>1, <1>2, FrameKeepsObjectsOK DEF HandleMessage, Line
  <2>2. ConnOK'
    BY <1>1, <1>2, LineKeepsConnOK DEF HandleMessage, Deref, MayDie, ConnOK
  <2>3. ModesOK'
    BY <1>1, <1>2, IdleKeepsModesOK DEF HandleMessage, Line
  <2>4. QED
    BY <2>1, <2>2, <2>3 DEF Consistent
<1>3. CASE HandleNames
  <2>1. ObjectsOK'
    BY <1>1, <1>3, FrameKeepsObjectsOK DEF HandleNames, Line
  <2>2. ConnOK'
    BY <1>1, <1>3, LineKeepsConnOK DEF HandleNames, Deref, MayDie, ConnOK
  <2>3. ModesOK'
    BY <1>1, <1>3, IdleKeepsModesOK DEF HandleNames, Line
  <2>4. QED
    BY <2>1, <2>2, <2>3 DEF Consistent
<1>4. CASE ReplyOnly
  <2>1. ObjectsOK'
    BY <1>1, <1>4, FrameKeepsObjectsOK DEF ReplyOnly, Line
  <2>2. ConnOK'
    BY <1>1, <1>4, LineKeepsConnOK DEF ReplyOnly, Line, ConnOK
  <2>3. ModesOK'
    BY <1>1, <1>4, IdleKeepsModesOK DEF ReplyOnly, Line
  <2>4. QED
    BY <2>1, <2>2, <2>3 DEF Consistent
<1>5. QED
  BY <1>2, <1>3, <1>4

-----------------------------------------------------------------------------
(* MODE *)

LEMMA ModeKeepsConsistent ==
  ASSUME Consistent, HandleMode
  PROVE  Consistent'
<1>1. ConnOK /\ ObjectsOK /\ ModesOK
  BY DEF Consistent
<1>2. ObjectsOK'
  BY <1>1, FrameKeepsObjectsOK DEF HandleMode, Line
<1>3. ConnOK'
  BY <1>1, LineKeepsConnOK DEF HandleMode, Line, ConnOK
<1>4. modeChan' \in existing' /\ modeChan' \in ChanName
  BY <1>1 DEF HandleMode, ObjectsOK, chanVars
<1>5. modes' \in Seq(ModeChange)
  <2>1. PICK n \in 1 .. MaxModes :
          modes' \in [1 .. n -> {m \in ModeChange : m.mode \in ModeChars}]
    BY DEF HandleMode, ModeLists
  <2>2. n \in Nat /\ modes' \in [1 .. n -> ModeChange]
    BY <2>1, StateAssumption
  <2>3. QED
    BY <2>2, SeqDef
<1>6. ModesOK'
  BY <1>4, <1>5 DEF ModesOK
<1>7. QED
  BY <1>2, <1>3, <1>6 DEF Consistent

\* One step of the loop over the mode changes, apart from what it does to the
\* channel.
LEMMA NextModeFacts ==
  ASSUME Consistent, NextMode, status' \in {"running", "crashed"},
         errno' \in {"other", "ERANGE", "EAGAIN"}
  PROVE  ConnOK' /\ ModesOK'
<1>1. ConnOK /\ ObjectsOK /\ ModesOK
  BY DEF Consistent
<1>2. ConnOK'
  BY <1>1 DEF NextMode, ConnOK, PollfdsMatchClients, connVars
<1>3. modes' \in Seq(ModeChange)
  BY <1>1, HeadTailProperties DEF NextMode, ModesOK
<1>4. ModesOK'
  BY <1>1, <1>3 DEF NextMode, ModesOK
<1>5. QED
  BY <1>2, <1>4

LEMMA HeadIsModeChange ==
  ASSUME Consistent, NextMode
  PROVE  Head(modes) \in ModeChange /\ modeChan \in existing /\ channels[modeChan] \in Channel
<1>1. ConnOK /\ ObjectsOK /\ ModesOK
  BY DEF Consistent
<1>2. Head(modes) \in ModeChange
  BY <1>1, HeadTailProperties DEF NextMode, ModesOK
<1>3. modeChan \in existing
  BY <1>1 DEF NextMode, ModesOK
<1>4. QED
  BY <1>1, <1>2, <1>3 DEF ObjectsOK

\* A mode change that keeps the users, and the operators among them.
LEMMA ModeAppliedKeepsConsistent ==
  ASSUME Consistent, NextMode, NEW ch \in Channel,
         ch.users = channels[modeChan].users, ch.operators \subseteq ch.users,
         ModeApplied(ch), errno' \in {"other", "ERANGE", "EAGAIN"}
  PROVE  Consistent'
<1>1. ObjectsOK /\ modeChan \in existing
  BY HeadIsModeChange DEF Consistent
<1>2. ConnOK' /\ ModesOK'
  BY NextModeFacts DEF ModeApplied, Deref, MayDie
<1>3. ObjectsOK'
  BY <1>1, ChannelUpdateKeepsObjectsOK DEF NextMode, ModeApplied, connVars
<1>4. QED
  BY <1>2, <1>3 DEF Consistent

LEMMA ModeStepKeepsConsistent ==
  ASSUME Consistent, ModeStep
  PROVE  Consistent'
<1> DEFINE m == Head(modes)
           old == channels[modeChan]
<1>1. /\ ConnOK /\ ObjectsOK /\ ModesOK
      /\ errno \in {"other", "ERANGE", "EAGAIN"}
  BY DEF Consistent, ConnOK
<1>2. NextMode
  BY DEF ModeStep, ModeFlag, ModeKey, ModeLimit, ModeOperator, ModeRefused
<1>3. m \in ModeChange /\ modeChan \in existing /\ old \in Channel
  BY <1>2, HeadIsModeChange
<1>4. old.operators \subseteq old.users
  BY <1>1, <1>3 DEF ObjectsOK, OperatorsAreUsers
<1>5. status = "running"
  BY <1>2 DEF NextMode
<1> HIDE DEF m, old
<1>6. CASE ModeFlag
  <2>1. m.mode \in {"i", "t"} /\ m.plus \in BOOLEAN
    BY <1>3, <1>6 DEF ModeFlag, ModeChange, m
  <2>2. PICK ch \in {[old EXCEPT !.mode_i = m.plus], [old EXCEPT !.mode_t = m.plus]} :
          ModeApplied(ch)
    BY <1>6 DEF ModeFlag, m, old
  <2>3. ch \in Channel /\ ch.users = old.users /\ ch.operators = old.operators
    BY <1>3, <2>1 DEF Channel
  <2>4. errno' = errno
    BY <1>6 DEF ModeFlag
  <2>5. QED
    BY <1>1, <1>2, <1>4, <2>2, <2>3, <2>4, ModeAppliedKeepsConsistent DEF old
<1>7. CASE ModeKey
  <2>1. m.arg \in Key \cup {Empty}
    BY <1>3, <1>7 DEF ModeKey, ModeChange, m
  <2>2. ModeApplied([old EXCEPT !.key = m.arg]) /\ errno' = errno
    BY <1>7 DEF ModeKey, m, old
  <2>3. /\ [old EXCEPT !.key = m.arg] \in Channel
        /\ [old EXCEPT !.key = m.arg].users = old.users
        /\ [old EXCEPT !.key = m.arg].operators = old.operators
    BY <1>3, <2>1 DEF Channel
  <2>4. QED
    BY <1>1, <1>2, <1>4, <2>2, <2>3, ModeAppliedKeepsConsistent DEF old
<1>8. CASE ModeLimit
  <2>1. errno' \in {"other", "ERANGE", "EAGAIN"}
    BY <1>1, <1>8 DEF ModeLimit
  <2>2. CASE UNCHANGED <<status, channels>>
    <3>1. ObjectsOK'
      BY <1>1, <1>2, <2>2, FrameKeepsObjectsOK DEF NextMode, connVars, chanVars
    <3>2. QED
      BY <1>2, <1>5, <2>1, <2>2, <3>1, NextModeFacts DEF Consistent
  <2>3. ASSUME NEW n \in 0 .. UintMax, ModeApplied([old EXCEPT !.limit = n])
        PROVE  Consistent'
    <3>1. /\ [old EXCEPT !.limit = n] \in Channel
          /\ [old EXCEPT !.limit = n].users = old.users
          /\ [old EXCEPT !.limit = n].operators = old.operators
      BY <1>3 DEF Channel
    <3>2. QED
      BY <1>2, <1>4, <2>1, <2>3, <3>1, ModeAppliedKeepsConsistent DEF old
  <2>4. CASE \E n \in 0 .. UintMax : ModeApplied([old EXCEPT !.limit = n])
    BY <2>3, <2>4
  <2>5. 0 \in 0 .. UintMax
    BY ChannelAssumption
  <2>6. CASE ~m.plus
    BY <1>8, <2>4, <2>5, <2>6 DEF ModeLimit, m, old
  <2>7. CASE m.plus /\ m.arg \in Nat /\ ~(m.arg > UintMax)
    <3>1. m.arg \in 0 .. UintMax
      BY <2>7, ChannelAssumption
    <3>2. QED
      BY <1>8, <2>2, <2>4, <2>7, <3>1 DEF ModeLimit, m, old
  <2>8. CASE m.plus /\ m.arg \in Nat /\ m.arg > UintMax
    BY <1>8, <2>2, <2>8 DEF ModeLimit, LimitRefused, m
  <2>9. m.plus \in BOOLEAN /\ (m.plus => m.arg \in Nat)
    BY <1>3, <1>8, StateAssumption DEF ModeLimit, ModeChange, m
  <2>10. QED
    BY <2>6, <2>7, <2>8, <2>9
<1>9. CASE ModeOperator
  <2>1. PICK a \in Addr :
          /\ a \in old.users
          /\ ModeApplied([old EXCEPT !.operators = IF m.plus THEN @ \cup {a} ELSE @ \ {a}])
    BY <1>9 DEF ModeOperator, MayBecomeOperator, m, old
  <2> DEFINE ch == [old EXCEPT !.operators = IF m.plus THEN @ \cup {a} ELSE @ \ {a}]
  <2>2. ch \in Channel /\ ch.users = old.users /\ ch.operators \subseteq ch.users
    BY <1>3, <1>4, <2>1 DEF Channel
  <2>3. errno' = errno
    BY <1>9 DEF ModeOperator
  <2> HIDE DEF ch
  <2>4. QED
    BY <1>1, <1>2, <2>1, <2>2, <2>3, ModeAppliedKeepsConsistent DEF ch, old
<1>10. CASE ModeRefused
  <2>1. UNCHANGED <<status, channels, errno>>
    BY <1>10 DEF ModeRefused
  <2>2. ObjectsOK'
    BY <1>1, <1>2, <2>1, FrameKeepsObjectsOK DEF NextMode, connVars, chanVars
  <2>3. QED
    BY <1>1, <1>2, <1>5, <2>1, <2>2, NextModeFacts DEF Consistent
<1>11. QED
  BY <1>6, <1>7, <1>8, <1>9, <1>10 DEF ModeStep

-----------------------------------------------------------------------------
(* The poll loop. *)

LEMMA AcceptKeepsConsistent ==
  ASSUME Consistent, Accept
  PROVE  Consistent'
<1>1. ConnOK /\ ObjectsOK /\ ModesOK /\ status = "running" /\ cur = 0 /\ modes = <<>>
  BY DEF Consistent, Accept, Running
<1>2. PICK fd \in Fds, a \in Addr \ Live :
        /\ fd \notin ToSet(pollfds)
        /\ pollfds' = Append(pollfds, fd)
        /\ clients' = [clients EXCEPT ![fd] = a]
        /\ obj' = [obj EXCEPT ![a] = NewClient]
  BY DEF Accept, LowestFree
<1>3. /\ clients' \in [Fds -> Addr \cup {NULL}]
      /\ clients'[fd] = a /\ a # NULL
      /\ \A g \in Fds \ {fd} : clients'[g] = clients[g]
  BY <1>1, <1>2, StateAssumption DEF ConnOK
<1>4. Live' = Live \cup {a}
  <2>1. clients[fd] = NULL
    BY <1>1, <1>2 DEF ConnOK, PollfdsMatchClients
  <2>2. QED
    BY <1>3, <2>1 DEF Live
<1>5. /\ pollfds' \in Seq(Fds) /\ Len(pollfds') = Len(pollfds) + 1
      /\ \A i \in 1 .. Len(pollfds) : pollfds'[i] = pollfds[i]
      /\ pollfds'[Len(pollfds) + 1] = fd
  BY <1>1, <1>2, AppendProperties DEF ConnOK
<1>6. /\ Len(pollfds) \in Nat /\ DOMAIN pollfds = 1 .. Len(pollfds)
      /\ DOMAIN pollfds' = 1 .. Len(pollfds) + 1
  BY <1>1, <1>5 DEF ConnOK
<1>7. ToSet(pollfds') = ToSet(pollfds) \cup {fd}
  <2>1. ASSUME NEW g \in ToSet(pollfds')
        PROVE  g \in ToSet(pollfds) \cup {fd}
    <3>1. PICK i \in 1 .. Len(pollfds) + 1 : pollfds'[i] = g
      BY <1>6 DEF ToSet
    <3>2. QED
      BY <1>5, <1>6, <3>1 DEF ToSet
  <2>2. ASSUME NEW g \in ToSet(pollfds)
        PROVE  g \in ToSet(pollfds')
    <3>1. PICK i \in 1 .. Len(pollfds) : pollfds[i] = g
      BY <1>6 DEF ToSet
    <3>2. QED
      BY <1>5, <1>6, <3>1 DEF ToSet
  <2>3. fd \in ToSet(pollfds')
    BY <1>5, <1>6 DEF ToSet
  <2>4. QED
    BY <2>1, <2>2, <2>3
<1>8. IsInjective(pollfds')
  <2>1. IsInjective(pollfds)
    BY <1>1 DEF ConnOK, PollfdsMatchClients
  <2>2. \A i \in 1 .. Len(pollfds) : pollfds[i] # fd
    BY <1>2, <1>6 DEF ToSet
  <2>3. QED
    BY <1>5, <1>6, <2>1, <2>2 DEF IsInjective
<1>9. PollfdsMatchClients'
  BY <1>1, <1>3, <1>7, <1>8 DEF ConnOK, PollfdsMatchClients
<1>10. (\A f, g \in Fds : clients[f] # NULL /\ clients[f] = clients[g] => f = g)'
  BY <1>1, <1>2, <1>3 DEF ConnOK, Live
<1>11. ConnOK'
  BY <1>1, <1>3, <1>5, <1>6, <1>9, <1>10 DEF ConnOK, Accept
<1>12. /\ obj' \in [Addr -> Client]
       /\ obj'[a].channels = {}
       /\ \A b \in Addr \ {a} : obj'[b] = obj[b]
  BY <1>1, <1>2, NewFacts DEF ObjectsOK
<1>13. UNCHANGED <<chanVars, modeVars>>
  BY DEF Accept
<1>14. ObjectsOK'
  BY <1>1, <1>2, <1>4, <1>12, <1>13
  DEF ObjectsOK, NoDanglingChannel, OperatorsAreUsers, ChannelsAreInhabited, chanVars
<1>15. ModesOK'
  BY <1>1, <1>13, IdleKeepsModesOK
<1>16. QED
  BY <1>11, <1>14, <1>15 DEF Consistent

\* The steps of the loop that at most mark the client served.
LEMMA LoopStepsKeepConsistent ==
  ASSUME Consistent,
         NextEntry \/ ReadEof \/ ReadReset \/ Overrun \/ SendFails \/ EndOfLoop
  PROVE  Consistent'
<1>1. /\ ConnOK /\ ObjectsOK /\ ModesOK
      /\ marked \in Seq(Fds) /\ pollfds \in Seq(Fds) /\ Len(pollfds) \in Nat
  BY DEF Consistent, ConnOK
<1>2. /\ status = "running" /\ modes = <<>>
      /\ UNCHANGED <<status, clients, pollfds, obj, chanVars, modeVars>>
  BY DEF NextEntry, ReadEof, ReadReset, Overrun, SendFails, EndOfLoop, Running, connVars
<1>3. ObjectsOK'
  BY <1>1, <1>2, FrameKeepsObjectsOK
<1>4. ModesOK'
  BY <1>1, <1>2, IdleKeepsModesOK
<1>5. PollfdsMatchClients'
  BY <1>1, <1>2 DEF ConnOK, PollfdsMatchClients
<1>6. CASE NextEntry
  <2>1. cur' \in 0 .. Len(pollfds')
    BY <1>1, <1>2, <1>6 DEF ConnOK, NextEntry
  <2>2. ConnOK'
    BY <1>1, <1>2, <1>5, <1>6, <2>1 DEF ConnOK, NextEntry, Stages
  <2>3. QED
    BY <1>3, <1>4, <2>2 DEF Consistent
<1>7. CASE ReadEof \/ ReadReset \/ Overrun \/ SendFails
  <2>1. cur > 0 /\ cur' = cur /\ stage' \in Stages /\ stage' # "disconnect"
    BY <1>7 DEF ReadEof, ReadReset, Overrun, SendFails, Stages
  <2>2. SelfFd \in Fds
    BY <1>1, <1>2, <2>1, SelfIsLive
  <2>3. marked' \in Seq(Fds)
    BY <1>1, <1>7, <2>2, MarkKeepsType DEF ReadEof, ReadReset, Overrun, SendFails
  <2>4. errno' \in {"other", "ERANGE", "EAGAIN"}
    BY <1>1, <1>7 DEF ConnOK, ReadEof, ReadReset, Overrun, SendFails
  <2>5. ConnOK'
    BY <1>1, <1>2, <1>5, <2>1, <2>3, <2>4 DEF ConnOK
  <2>6. QED
    BY <1>3, <1>4, <2>5 DEF Consistent
<1>8. CASE EndOfLoop
  <2>1. cur' = 0 /\ 0 \in 0 .. Len(pollfds)
    BY <1>1, <1>8 DEF EndOfLoop
  <2>2. ConnOK'
    BY <1>1, <1>2, <1>5, <1>8, <2>1 DEF ConnOK, EndOfLoop, Stages
  <2>3. QED
    BY <1>3, <1>4, <2>2 DEF Consistent
<1>9. QED
  BY <1>6, <1>7, <1>8

LEMMA FrontProperties ==
  ASSUME NEW S, NEW s \in Seq(S), s # <<>>
  PROVE  /\ Last(s) \in S
         /\ Front(s) \in Seq(S)
         /\ Len(s) # 1 => Front(s) # <<>>
<1>1. Len(s) \in Nat \ {0} /\ \A i \in 1 .. Len(s) : s[i] \in S
  BY EmptySeq
<1>2. Last(s) \in S
  BY <1>1 DEF Last
<1>3. Front(s) \in Seq(S) /\ Len(Front(s)) = Len(s) - 1
  BY <1>1, SubSeqProperties DEF Front
<1>4. QED
  BY <1>1, <1>2, <1>3

LEMMA RemoveSingleClientKeepsConsistent ==
  ASSUME Consistent, RemoveSingleClient
  PROVE  Consistent'
<1> DEFINE fd == Last(marked)
           a == clients[fd]
<1>1. /\ ConnOK /\ ObjectsOK /\ ModesOK /\ modes = <<>>
      /\ status = "running" /\ stage = "disconnect" /\ marked # <<>> /\ cur = 0
  BY DEF Consistent, ConnOK, RemoveSingleClient, Running
<1>2. /\ fd \in Fds /\ marked' \in Seq(Fds)
      /\ stage' \in Stages /\ (stage' = "disconnect" => marked' # <<>>)
  BY <1>1, FrontProperties DEF RemoveSingleClient, ConnOK, Stages
<1> HIDE DEF fd
<1>3. ModesOK'
  BY <1>1, IdleKeepsModesOK DEF RemoveSingleClient
<1>4. CASE a # NULL
  <2>1. /\ obj' = [obj EXCEPT ![a] = NewClient]
        /\ clients' = [clients EXCEPT ![fd] = NULL]
        /\ pollfds' = PollfdsWithout(fd)
        /\ UNCHANGED <<status, cur, errno, chanVars>>
    BY <1>4 DEF RemoveSingleClient, fd
  <2>2. a \in Live /\ a \in Addr /\ fd \in ToSet(pollfds)
    BY <1>1, <1>2, <1>4 DEF ConnOK, PollfdsMatchClients, Live
  <2>3. /\ pollfds' \in Seq(Fds)
        /\ IsInjective(pollfds')
        /\ ToSet(pollfds') = ToSet(pollfds) \ {fd}
    BY <1>1, <2>1, <2>2, PollfdsWithoutFacts DEF ConnOK, PollfdsMatchClients
  <2>4. /\ clients' \in [Fds -> Addr \cup {NULL}]
        /\ clients'[fd] = NULL
        /\ \A g \in Fds \ {fd} : clients'[g] = clients[g]
    BY <1>1, <1>2, <2>1 DEF ConnOK
  <2>5. Live' = Live \ {a}
    <3>1. \A g \in Fds \ {fd} : clients[g] # a
      BY <1>1, <1>2, <1>4 DEF ConnOK
    <3>2. QED
      BY <1>2, <2>4, <3>1 DEF Live
  <2>6. PollfdsMatchClients'
    BY <1>1, <2>3, <2>4 DEF ConnOK, PollfdsMatchClients
  <2>7. cur' \in 0 .. Len(pollfds')
    BY <1>1, <2>1, <2>3
  <2>8. ConnOK'
    BY <1>1, <1>2, <2>1, <2>3, <2>4, <2>6, <2>7 DEF ConnOK
  <2>9. /\ obj' \in [Addr -> Client]
        /\ obj'[a] = NewClient
        /\ \A b \in Addr \ {a} : obj'[b] = obj[b]
    BY <1>1, <2>1, <2>2, NewFacts DEF ObjectsOK
  <2>10. ObjectsOK'
    BY <1>1, <2>1, <2>2, <2>5, <2>9, NewFacts
    DEF ObjectsOK, NoDanglingChannel, OperatorsAreUsers, ChannelsAreInhabited, chanVars
  <2>11. QED
    BY <1>3, <2>8, <2>10 DEF Consistent
<1>5. CASE a = NULL
  <2>1. status' = "crashed" /\ UNCHANGED <<obj, clients, pollfds, cur, errno, chanVars>>
    BY <1>5 DEF RemoveSingleClient, connVars, fd
  <2>2. PollfdsMatchClients'
    BY <2>1 DEF PollfdsMatchClients
  <2>3. ConnOK'
    BY <1>1, <1>2, <2>1, <2>2 DEF ConnOK
  <2>4. ObjectsOK'
    BY <1>1, <2>1, FrameKeepsObjectsOK
  <2>5. QED
    BY <1>3, <2>3, <2>4 DEF Consistent
<1>6. QED
  BY <1>4, <1>5

LEMMA ShutdownKeepsConsistent ==
  ASSUME Consistent, Shutdown
  PROVE  Consistent'
<1>1. ConnOK /\ ObjectsOK /\ ModesOK /\ modes = <<>>
  BY DEF Consistent, Shutdown, Running
<1>2. ConnOK'
  BY <1>1 DEF ConnOK, Shutdown, PollfdsMatchClients, Stages
<1>3. ModesOK'
  BY <1>1, IdleKeepsModesOK DEF Shutdown
<1>4. ObjectsOK'
  BY NewFacts
  DEF Shutdown, ObjectsOK, NoDanglingChannel, OperatorsAreUsers, ChannelsAreInhabited
<1>5. QED
  BY <1>2, <1>3, <1>4 DEF Consistent

-----------------------------------------------------------------------------
(* The theorems. *)

LEMMA InitConsistent == Init => Consistent
<1> SUFFICES ASSUME Init PROVE Consistent
  OBVIOUS
<1>1. ConnOK
  BY DEF Init, ConnOK, PollfdsMatchClients, Stages, ToSet, IsInjective
<1>2. ObjectsOK
  BY NewFacts DEF Init, ObjectsOK, NoDanglingChannel, OperatorsAreUsers, ChannelsAreInhabited
<1>3. ModesOK
  BY DEF Init, ModesOK
<1>4. QED
  BY <1>1, <1>2, <1>3 DEF Consistent

LEMMA NextKeepsConsistent == Consistent /\ [Next]_vars => Consistent'
<1> SUFFICES ASSUME Consistent, [Next]_vars PROVE Consistent'
  OBVIOUS
<1>1. CASE Handle
  BY <1>1, QuitKeepsConsistent, PartKeepsConsistent, KickKeepsConsistent,
     JoinKeepsConsistent, ClientCommandsKeepConsistent, TopicKeepsConsistent,
     ReadersKeepConsistent, ModeKeepsConsistent DEF Handle
<1>2. CASE ModeStep
  BY <1>2, ModeStepKeepsConsistent
<1>3. CASE Accept
  BY <1>3, AcceptKeepsConsistent
<1>4. CASE NextEntry \/ ReadEof \/ ReadReset \/ Overrun \/ SendFails \/ EndOfLoop
  BY <1>4, LoopStepsKeepConsistent
<1>5. CASE RemoveSingleClient
  BY <1>5, RemoveSingleClientKeepsConsistent
<1>6. CASE Shutdown
  BY <1>6, ShutdownKeepsConsistent
<1>7. CASE UNCHANGED vars
  BY <1>7 DEF vars, Consistent, ConnOK, ObjectsOK, ModesOK, PollfdsMatchClients, Live,
     NoDanglingChannel, OperatorsAreUsers, ChannelsAreInhabited
<1>8. QED
  BY <1>1, <1>2, <1>3, <1>4, <1>5, <1>6, <1>7 DEF Next, Terminated

\* IndInv is an invariant of the server, whatever its clients and their
\* connections do.
THEOREM Safety == Spec => []IndInv
<1>1. Spec => []Consistent
  BY InitConsistent, NextKeepsConsistent, PTL DEF Spec
<1>2. QED
  BY <1>1, IndInvParts, PTL

\* The variables have their types.
THEOREM TypeCorrect == Spec => []TypeOK
<1>1. IndInv => TypeOK
  BY DEF IndInv
<1>2. QED
  BY <1>1, Safety, PTL

\* No client ever keeps a Channel* to a deleted channel, or to one that does not
\* list it.
THEOREM ChannelPointersAreValid == Spec => []NoDanglingChannel
<1>1. IndInv => NoDanglingChannel
  BY DEF IndInv
<1>2. QED
  BY <1>1, Safety, PTL

\* Operators are users of their channel.
THEOREM OperatorsAreMembers == Spec => []OperatorsAreUsers
<1>1. IndInv => OperatorsAreUsers
  BY DEF IndInv
<1>2. QED
  BY <1>1, Safety, PTL

\* A channel without users does not exist.
THEOREM NoEmptyChannel == Spec => []ChannelsAreInhabited
<1>1. IndInv => ChannelsAreInhabited
  BY DEF IndInv
<1>2. QED
  BY <1>1, Safety, PTL

\* Clients and _pollfds agree while the server runs.
THEOREM ConnectionsArePolled == Spec => []PollfdsMatchClients
<1>1. IndInv => PollfdsMatchClients
  BY DEF IndInv
<1>2. QED
  BY <1>1, Safety, PTL

=============================================================================
