-------------------------- MODULE MembershipProofs ---------------------------
(***************************************************************************)
(* Proofs about who is in a channel, for every value of the constants:     *)
(* what a step does to the users of a channel, and, when every session     *)
(* ends with a QUIT that nothing follows, that the users of a channel are  *)
(* the connected clients that joined it.                                   *)
(***************************************************************************)
EXTENDS IrcServerProofs, FiniteSetTheorems

-----------------------------------------------------------------------------
(* What a step does to the users of the channels. *)

\* Nobody connects or disconnects, joins or leaves.
Calm ==
  /\ UNCHANGED <<clients, existing>>
  /\ \A c \in ChanName : channels'[c].users = channels[c].users
  /\ \A a \in Addr : obj'[a].channels = obj[a].channels

LEMMA FrameIsCalm ==
  ASSUME UNCHANGED <<clients, obj, chanVars>>
  PROVE  Calm
BY DEF Calm, chanVars

LEMMA ClientUpdateIsCalm ==
  ASSUME ObjectsOK, UNCHANGED <<clients, chanVars>>,
         NEW a \in Addr, NEW r, r.channels = obj[a].channels,
         obj' = [obj EXCEPT ![a] = r]
  PROVE  Calm
BY DEF ObjectsOK, Calm, chanVars

LEMMA ChannelUpdateIsCalm ==
  ASSUME ObjectsOK, UNCHANGED <<clients, obj, existing>>,
         NEW c \in ChanName, NEW ch, ch.users = channels[c].users,
         channels' = [channels EXCEPT ![c] = ch]
  PROVE  Calm
BY DEF ObjectsOK, Calm

LEMMA RegisteredKeepsChannels ==
  ASSUME NEW c \in Client
  PROVE  Registered(c).channels = c.channels
BY DEF Registered, Client

\* PASS, NICK, USER and INVITE.
LEMMA ClientCommandsAreCalm ==
  ASSUME Consistent,
         HandlePass \/ HandleNick \/ HandleUser \/ HandleInvite
  PROVE  Calm
<1>1. ConnOK /\ ObjectsOK /\ \A a \in Addr : obj[a] \in Client
  BY DEF Consistent, ObjectsOK
<1>2. UNCHANGED <<clients, chanVars>>
  BY DEF HandlePass, HandleNick, HandleUser, HandleInvite, Line
<1>3. Self \in Addr
  <2>1. CASE HandlePass \/ HandleNick \/ HandleUser
    BY <1>1, <2>1, SelfIsLive DEF HandlePass, HandleNick, HandleUser, Line
  <2>2. CASE HandleInvite
    BY <1>1, <2>2, SelfIsLive DEF HandleInvite, Line
  <2>3. QED
    BY <2>1, <2>2
<1>4. CASE HandlePass
  <2>1. PICK ok \in BOOLEAN : obj' = [obj EXCEPT ![Self].authenticated = ok]
    BY <1>4 DEF HandlePass
  <2>2. obj' = [obj EXCEPT ![Self] = [obj[Self] EXCEPT !.authenticated = ok]]
    BY <1>1, <2>1 DEF ObjectsOK
  <2>3. [obj[Self] EXCEPT !.authenticated = ok].channels = obj[Self].channels
    BY <1>1, <1>3 DEF Client
  <2>4. QED
    BY <1>1, <1>2, <1>3, <2>2, <2>3, ClientUpdateIsCalm
<1>5. CASE HandleNick
  <2>1. CASE obj' = [obj EXCEPT ![Self] = Registered(@)]
    <3>1. obj' = [obj EXCEPT ![Self] = Registered(obj[Self])]
      BY <1>1, <2>1 DEF ObjectsOK
    <3>2. QED
      BY <1>1, <1>2, <1>3, <3>1, RegisteredKeepsChannels, ClientUpdateIsCalm
  <2>2. CASE \E n \in Nick : obj' = [obj EXCEPT ![Self] = Registered([@ EXCEPT !.nick = n])]
    <3>1. PICK n \in Nick : obj' = [obj EXCEPT ![Self] = Registered([@ EXCEPT !.nick = n])]
      BY <2>2
    <3> DEFINE c == [obj[Self] EXCEPT !.nick = n]
    <3>2. obj' = [obj EXCEPT ![Self] = Registered(c)]
      BY <1>1, <3>1 DEF ObjectsOK
    <3>3. c \in Client /\ c.channels = obj[Self].channels
      BY <1>1, <1>3 DEF Client
    <3> HIDE DEF c
    <3>4. QED
      BY <1>1, <1>2, <1>3, <3>2, <3>3, RegisteredKeepsChannels, ClientUpdateIsCalm
  <2>3. QED
    BY <1>5, <2>1, <2>2 DEF HandleNick
<1>6. CASE HandleUser
  <2>1. PICK ok \in BOOLEAN :
          obj' = [obj EXCEPT ![Self] =
                    Registered([@ EXCEPT !.user = obj[Self].user \/ ok])]
    BY <1>6 DEF HandleUser
  <2> DEFINE c == [obj[Self] EXCEPT !.user = obj[Self].user \/ ok]
  <2>2. obj' = [obj EXCEPT ![Self] = Registered(c)]
    BY <2>1
  <2>3. c \in Client /\ c.channels = obj[Self].channels
    BY <1>1, <1>3 DEF Client
  <2> HIDE DEF c
  <2>4. QED
    BY <1>1, <1>2, <1>3, <2>2, <2>3, RegisteredKeepsChannels, ClientUpdateIsCalm
<1>7. CASE HandleInvite
  <2>1. PICK c \in ChanName, a \in Addr :
          obj' = [obj EXCEPT ![a].invited = @ \cup {c}]
    BY <1>7 DEF HandleInvite
  <2>2. obj' = [obj EXCEPT ![a] = [obj[a] EXCEPT !.invited = obj[a].invited \cup {c}]]
    BY <1>1, <2>1 DEF ObjectsOK
  <2>3. [obj[a] EXCEPT !.invited = obj[a].invited \cup {c}].channels = obj[a].channels
    BY <1>1 DEF Client
  <2>4. QED
    BY <1>1, <1>2, <2>2, <2>3, ClientUpdateIsCalm
<1>8. QED
  BY <1>4, <1>5, <1>6, <1>7

\* TOPIC and the steps of a MODE line.
LEMMA ChannelCommandsAreCalm ==
  ASSUME Consistent, HandleTopic \/ ModeStep
  PROVE  Calm
<1>1. ObjectsOK
  BY DEF Consistent
<1>2. CASE HandleTopic
  <2>1. PICK c \in existing : channels' = [channels EXCEPT ![c] = WithTopic(@)]
    BY <1>2 DEF HandleTopic
  <2>2. c \in ChanName /\ channels[c] \in Channel
    BY <1>1 DEF ObjectsOK
  <2>3. channels' = [channels EXCEPT ![c] = WithTopic(channels[c])]
    BY <1>1, <2>1 DEF ObjectsOK
  <2>4. WithTopic(channels[c]).users = channels[c].users
    BY <2>2 DEF WithTopic, Channel
  <2>5. QED
    BY <1>1, <1>2, <2>2, <2>3, <2>4, ChannelUpdateIsCalm DEF HandleTopic, Line
<1>3. CASE ModeStep
  <2> DEFINE old == channels[modeChan]
  <2>1. NextMode
    BY <1>3 DEF ModeStep, ModeFlag, ModeKey, ModeLimit, ModeOperator, ModeRefused
  <2>2. modeChan \in existing /\ modeChan \in ChanName /\ old \in Channel
    BY <1>1, <2>1, HeadIsModeChange DEF ObjectsOK
  <2>3. UNCHANGED <<clients, obj, existing>>
    BY <2>1 DEF NextMode, connVars
  <2>4. ASSUME NEW ch, ch.users = old.users, ModeApplied(ch)
        PROVE  Calm
    BY <1>1, <2>2, <2>3, <2>4, ChannelUpdateIsCalm DEF ModeApplied
  <2>5. CASE UNCHANGED channels
    BY <2>3, <2>5, FrameIsCalm DEF chanVars
  <2>6. /\ \A x : [old EXCEPT !.mode_i = x].users = old.users
        /\ \A x : [old EXCEPT !.mode_t = x].users = old.users
        /\ \A x : [old EXCEPT !.key = x].users = old.users
        /\ \A x : [old EXCEPT !.limit = x].users = old.users
        /\ \A x : [old EXCEPT !.operators = x].users = old.users
    BY <2>2 DEF Channel
  <2>7. \/ \E x : ModeApplied([old EXCEPT !.mode_i = x])
        \/ \E x : ModeApplied([old EXCEPT !.mode_t = x])
        \/ \E x : ModeApplied([old EXCEPT !.key = x])
        \/ \E x : ModeApplied([old EXCEPT !.limit = x])
        \/ \E x : ModeApplied([old EXCEPT !.operators = x])
        \/ UNCHANGED channels
    <3>1. CASE ModeFlag
      BY <3>1 DEF ModeFlag
    <3>2. CASE ModeKey
      BY <3>2 DEF ModeKey
    <3>3. CASE ModeLimit
      BY <3>3 DEF ModeLimit
    <3>4. CASE ModeOperator
      BY <3>4 DEF ModeOperator
    <3>5. CASE ModeRefused
      BY <3>5 DEF ModeRefused
    <3>6. QED
      BY <1>3, <3>1, <3>2, <3>3, <3>4, <3>5 DEF ModeStep
  <2> HIDE DEF old
  <2>8. QED
    BY <2>4, <2>5, <2>6, <2>7
<1>4. QED
  BY <1>2, <1>3

\* The other steps of the loop and of the handlers that change no membership.
CalmStep ==
  \/ HandlePass \/ HandleNick \/ HandleUser \/ HandleInvite \/ HandleTopic
  \/ HandleMode \/ HandleMessage \/ HandleNames \/ ReplyOnly \/ ModeStep
  \/ NextEntry \/ ReadEof \/ ReadReset \/ Overrun \/ SendFails \/ EndOfLoop
  \/ UNCHANGED vars

LEMMA CalmSteps ==
  ASSUME Consistent, CalmStep
  PROVE  Calm
<1>1. CASE HandlePass \/ HandleNick \/ HandleUser \/ HandleInvite
  BY <1>1, ClientCommandsAreCalm
<1>2. CASE HandleTopic \/ ModeStep
  BY <1>2, ChannelCommandsAreCalm
<1>3. CASE \/ HandleMode \/ HandleMessage \/ HandleNames \/ ReplyOnly
           \/ NextEntry \/ ReadEof \/ ReadReset \/ Overrun \/ SendFails \/ EndOfLoop
           \/ UNCHANGED vars
  <2>1. UNCHANGED <<clients, obj, chanVars>>
    BY <1>3 DEF HandleMode, HandleMessage, HandleNames, ReplyOnly, Line, NextEntry,
       ReadEof, ReadReset, Overrun, SendFails, EndOfLoop, connVars, chanVars, vars
  <2>2. QED
    BY <2>1, FrameIsCalm
<1>4. QED
  BY <1>1, <1>2, <1>3 DEF CalmStep

\* QUIT, PART and KICK remove a connected client from channels that exist.
LEMMA DepartureSteps ==
  ASSUME Consistent, HandleQuit \/ HandlePart \/ HandleKick
  PROVE  \E a \in Live \cap Addr : \E D \in SUBSET existing : \E heir :
           RemoveFromChannels(a, D, heir)
<1>1. ConnOK /\ ObjectsOK
  BY DEF Consistent
<1>2. CASE HandleQuit
  <2>1. Self \in Live \cap Addr
    BY <1>1, <1>2, SelfIsLive DEF HandleQuit, Line
  <2>2. obj[Self].channels \in SUBSET existing
    BY <1>1, <2>1 DEF ObjectsOK, NoDanglingChannel
  <2>3. QED
    BY <1>2, <2>1, <2>2 DEF HandleQuit
<1>3. CASE HandlePart
  <2>1. Self \in Live \cap Addr
    BY <1>1, <1>3, SelfIsLive DEF HandlePart, Line
  <2>2. PICK D \in SUBSET existing, heir \in [ChanName -> Addr] :
          RemoveFromChannels(Self, D, heir)
    BY <1>3 DEF HandlePart
  <2>3. QED
    BY <2>1, <2>2
<1>4. CASE HandleKick
  <2>1. PICK c \in existing, n \in Nick, kicked \in Addr, heir \in [ChanName -> Addr] :
          GetClient(n, kicked) /\ RemoveFromChannels(kicked, {c}, heir)
    BY <1>4 DEF HandleKick
  <2>2. kicked \in Live
    BY <2>1, GetClientIsLive
  <2>3. QED
    BY <2>1, <2>2
<1>5. QED
  BY <1>2, <1>3, <1>4

LEMMA DepartureFacts ==
  ASSUME Consistent, HandleQuit \/ HandlePart \/ HandleKick
  PROVE  \E a \in Live \cap Addr : \E D \in SUBSET existing :
           /\ existing' \subseteq existing
           /\ \A c \in ChanName \ existing' : channels'[c] = NewChannel
           /\ \A c \in existing \ D : c \in existing' /\ channels'[c] = channels[c]
           /\ \A c \in D \cap existing' :
                /\ channels'[c].users = channels[c].users \ {a}
                /\ channels'[c].operators # {}
           /\ obj'[a].channels = obj[a].channels \ D
           /\ \A b \in Addr \ {a} : obj'[b] = obj[b]
<1>1. PICK a \in Live \cap Addr, D \in SUBSET existing :
        \E heir : RemoveFromChannels(a, D, heir)
  BY DepartureSteps
<1>2. PICK heir : RemoveFromChannels(a, D, heir)
  BY <1>1
<1>3. ObjectsOK /\ a \in Addr
  BY DEF Consistent
<1>4. /\ existing' \subseteq existing
      /\ \A c \in ChanName \ existing' : channels'[c] = NewChannel
      /\ \A c \in existing \ D : c \in existing' /\ channels'[c] = channels[c]
      /\ \A c \in D \cap existing' :
           /\ channels'[c].users = channels[c].users \ {a}
           /\ channels'[c].operators \subseteq channels[c].users \ {a}
           /\ channels'[c].operators # {}
           /\ channels'[c].users # {}
      /\ obj'[a].channels = obj[a].channels \ D
      /\ \A b \in Addr \ {a} : obj'[b] = obj[b]
  BY <1>2, <1>3, RemoveFacts
<1>5. QED
  BY <1>4

-----------------------------------------------------------------------------
(* What arrivals and departures may do, whatever the connections do. *)

\* The names of a JOIN line that let Self in do so one by one.
LEMMA JoinFacts ==
  ASSUME Consistent, HandleJoin
  PROVE  /\ Self \in Live /\ Self \in Addr
         /\ \E entered \in SUBSET ChanName :
              /\ existing' = existing \cup entered
              /\ obj' = [obj EXCEPT ![Self].channels = @ \cup entered]
              /\ Deref(UNION {channels[c].users : c \in entered})
              /\ \A c \in entered : channels'[c].users = channels[c].users \cup {Self}
              /\ \A c \in ChanName \ entered : channels'[c] = channels[c]
              /\ \A c \in entered \cap existing :
                   /\ channels'[c].limit = channels[c].limit
                   /\ ~LimitReached(channels[c])
                   /\ ~Uninvited(channels[c], c)
<1>1. Self \in Live /\ Self \in Addr /\ ObjectsOK
  BY SelfIsLive DEF HandleJoin, Line, Consistent
<1>2. PICK chs, keys :
        /\ channels' = [c \in ChanName |->
             IF c \in Entered(chs, keys)
             THEN Joined(channels[c], Self, c \notin existing) ELSE channels[c]]
        /\ existing' = existing \cup Entered(chs, keys)
        /\ obj' = [obj EXCEPT ![Self].channels = @ \cup Entered(chs, keys)]
        /\ Deref(UNION {channels[c].users : c \in Entered(chs, keys)})
  BY DEF HandleJoin
<1> DEFINE entered == Entered(chs, keys)
<1>3. \A c \in entered \cap existing :
        ~LimitReached(channels[c]) /\ ~Uninvited(channels[c], c)
  BY DEF Entered, Admitted
<1>4. /\ channels' = [c \in ChanName |->
           IF c \in entered THEN Joined(channels[c], Self, c \notin existing)
           ELSE channels[c]]
      /\ existing' = existing \cup entered
      /\ obj' = [obj EXCEPT ![Self].channels = @ \cup entered]
      /\ Deref(UNION {channels[c].users : c \in entered})
      /\ entered \in SUBSET ChanName
  BY <1>2 DEF Entered
<1> HIDE DEF entered
<1>5. \A c \in entered : /\ channels'[c].users = channels[c].users \cup {Self}
                         /\ channels'[c].limit = channels[c].limit
  BY <1>1, <1>4 DEF ObjectsOK, Joined, Channel
<1>6. \A c \in ChanName \ entered : channels'[c] = channels[c]
  BY <1>4
<1>7. QED
  BY <1>1, <1>3, <1>4, <1>5, <1>6

\* Every step is calm, an arrival, a departure, the removal of a marked client or
\* the end.
LEMMA KindsOfSteps ==
  ASSUME [Next]_vars
  PROVE  \/ CalmStep \/ HandleJoin \/ HandleQuit \/ HandlePart \/ HandleKick
         \/ Accept \/ RemoveSingleClient \/ Shutdown
BY DEF Next, Handle, CalmStep, Terminated

LEMMA ArrivalWithinLimit ==
  ASSUME NEW ch \in Channel, NEW a \in Addr, ~LimitReached(ch), ch.limit > 0
  PROVE  Cardinality(ch.users \cup {a}) <= ch.limit
<1>1. ch.limit \in Nat /\ ch.users \subseteq Addr
  BY ChannelAssumption DEF Channel
<1>2. IsFiniteSet(ch.users)
  BY <1>1, ChannelAssumption, FS_Subset
<1>3. Cardinality(ch.users) \in Nat /\ Cardinality(ch.users) < ch.limit
  BY <1>1, <1>2, FS_CardinalityType DEF LimitReached
<1>4. Cardinality(ch.users \cup {a}) <= Cardinality(ch.users) + 1
  <2> DEFINE U == ch.users
  <2>1. IsFiniteSet(U) /\ Cardinality(U) \in Nat
    BY <1>2, <1>3
  <2> HIDE DEF U
  <2>2. Cardinality(U \cup {a}) = IF a \in U THEN Cardinality(U) ELSE Cardinality(U) + 1
    BY <2>1, FS_AddElement
  <2>3. Cardinality(U \cup {a}) <= Cardinality(U) + 1
    BY <2>1, <2>2
  <2>4. QED
    BY <2>3 DEF U
<1>5. IsFiniteSet(ch.users \cup {a})
  BY <1>2, FS_AddElement
<1>6. QED
  BY <1>1, <1>3, <1>4, <1>5, FS_CardinalityType

\* A JOIN lets nobody into a full channel or, uninvited, into an invite-only one.
THEOREM ArrivalsAreAdmitted == Spec => JoinHonoursLimitAndInvite
<1> DEFINE A == \A c \in existing, a \in Addr :
                  a \in channels'[c].users \ channels[c].users =>
                    /\ channels[c].limit > 0 =>
                         Cardinality(channels'[c].users) <= channels[c].limit
                    /\ channels[c].mode_i => c \in obj[a].invited
<1>1. ASSUME Consistent, [Next]_vars
      PROVE  A
  <2>1. ObjectsOK /\ existing \subseteq ChanName
    BY <1>1 DEF Consistent, ObjectsOK
  <2>2. SUFFICES ASSUME NEW c \in existing, NEW a \in Addr,
                        a \in channels'[c].users, a \notin channels[c].users
                 PROVE  /\ channels[c].limit > 0 =>
                             Cardinality(channels'[c].users) <= channels[c].limit
                        /\ channels[c].mode_i => c \in obj[a].invited
    OBVIOUS
  <2>3. CASE CalmStep
    BY <1>1, <2>1, <2>2, <2>3, CalmSteps DEF Calm
  <2>4. CASE HandleQuit \/ HandlePart \/ HandleKick
    BY <1>1, <2>1, <2>2, <2>4, DepartureFacts, NewFacts
  <2>5. CASE HandleJoin
    <3>1. /\ channels'[c].users = channels[c].users \cup {Self}
          /\ ~LimitReached(channels[c]) /\ ~Uninvited(channels[c], c)
          /\ a = Self
      BY <1>1, <2>1, <2>2, <2>5, JoinFacts
    <3>2. channels[c] \in Channel
      BY <2>1 DEF ObjectsOK
    <3>3. QED
      BY <3>1, <3>2, ArrivalWithinLimit DEF Uninvited
  <2>6. CASE Accept \/ RemoveSingleClient
    BY <2>2, <2>6 DEF Accept, RemoveSingleClient, chanVars
  <2>7. CASE Shutdown
    BY <2>1, <2>2, <2>7, NewFacts DEF Shutdown
  <2>8. QED
    BY <1>1, <2>3, <2>4, <2>5, <2>6, <2>7, KindsOfSteps
<1>2. Spec => []Consistent
  BY InitConsistent, NextKeepsConsistent, PTL DEF Spec
<1>3. Consistent /\ [Next]_vars => [A]_vars
  BY <1>1
<1> HIDE DEF A
<1>4. Spec => [][A]_vars
  BY <1>2, <1>3, PTL DEF Spec
<1>5. QED
  BY <1>4 DEF JoinHonoursLimitAndInvite, A

\* A channel that survives a departure has an operator: promotion reaches every
\* channel a client leaves, and always finds an heir.
THEOREM DeparturesPromote == Spec => DepartureLeavesAnOperator
<1> DEFINE A == \A c \in existing \cap existing' :
                  channels[c].users \ channels'[c].users # {} =>
                    channels'[c].operators # {}
<1>1. ASSUME Consistent, [Next]_vars
      PROVE  A
  <2>1. ObjectsOK /\ existing \subseteq ChanName
    BY <1>1 DEF Consistent, ObjectsOK
  <2>2. SUFFICES ASSUME NEW c \in existing \cap existing',
                        channels[c].users \ channels'[c].users # {}
                 PROVE  channels'[c].operators # {}
    OBVIOUS
  <2>3. CASE CalmStep
    BY <1>1, <2>1, <2>2, <2>3, CalmSteps DEF Calm
  <2>4. CASE HandleQuit \/ HandlePart \/ HandleKick
    BY <1>1, <2>1, <2>2, <2>4, DepartureFacts
  <2>5. CASE HandleJoin
    BY <1>1, <2>1, <2>2, <2>5, JoinFacts
  <2>6. CASE Accept \/ RemoveSingleClient
    BY <2>2, <2>6 DEF Accept, RemoveSingleClient, chanVars
  <2>7. CASE Shutdown
    BY <2>2, <2>7 DEF Shutdown
  <2>8. QED
    BY <1>1, <2>3, <2>4, <2>5, <2>6, <2>7, KindsOfSteps
<1>2. Spec => []Consistent
  BY InitConsistent, NextKeepsConsistent, PTL DEF Spec
<1>3. Consistent /\ [Next]_vars => [A]_vars
  BY <1>1
<1> HIDE DEF A
<1>4. Spec => [][A]_vars
  BY <1>2, <1>3, PTL DEF Spec
<1>5. QED
  BY <1>4 DEF DepartureLeavesAnOperator, A

-----------------------------------------------------------------------------
(* Sessions that end with a QUIT which nothing follows.                      *)

\* A marked client is marked once, is still connected and has left its channels:
\* deleting it takes no user away.
MarkedHaveLeft ==
  status = "running" =>
  /\ IsInjective(marked)
  /\ \A fd \in ToSet(marked) :
       clients[fd] # NULL /\ obj[clients[fd]].channels = {}

OrderlyInv ==
  Consistent /\ UsersAreTheJoinedClients /\ MarkedHaveLeft

\* Facts that the steps below share.
LEMMA OrderlyParts ==
  ASSUME OrderlyInv
  PROVE  /\ ConnOK /\ ObjectsOK /\ ModesOK
         /\ Live \subseteq Addr
         /\ marked \in Seq(Fds) /\ ToSet(marked) \subseteq Fds
         /\ \A fd \in Fds : clients[fd] # NULL => clients[fd] \in Live
         /\ \A c \in ChanName : channels[c].users \subseteq Live
<1>1. ConnOK /\ ObjectsOK /\ ModesOK
  BY DEF OrderlyInv, Consistent
<1>2. /\ Live \subseteq Addr
      /\ \A fd \in Fds : clients[fd] # NULL => clients[fd] \in Live
  BY <1>1 DEF ConnOK, Live
<1>3. marked \in Seq(Fds) /\ ToSet(marked) \subseteq Fds
  BY <1>1 DEF ConnOK, ToSet
<1>4. ASSUME NEW c \in ChanName
      PROVE  channels[c].users \subseteq Live
  <2>1. CASE c \in existing
    BY <2>1 DEF OrderlyInv, UsersAreTheJoinedClients
  <2>2. CASE c \notin existing
    BY <1>1, <2>2, NewFacts DEF ObjectsOK
  <2>3. QED
    BY <2>1, <2>2
<1>5. QED
  BY <1>1, <1>2, <1>3, <1>4

\* A broadcast to users of channels meets no deleted client.
LEMMA BroadcastIsSafe ==
  ASSUME OrderlyInv, NEW A, Deref(A),
         \A a \in A : \E c \in ChanName : a \in channels[c].users
  PROVE  status' = "running"
BY OrderlyParts DEF Deref, MayDie, Dangling

\* Nor does a departure, told to users of channels: it can only find a set of users
\* empty, in a channel that it deletes.
LEMMA DepartureIsSafe ==
  ASSUME OrderlyInv, NEW a, NEW D \in SUBSET existing, NEW heir,
         RemoveFromChannels(a, D, heir), NEW A,
         MayDie(Dangling(A) \/ ReadsEmptyBegin(a, D)),
         \A b \in A : \E c \in ChanName : b \in channels[c].users
  PROVE  status' = "running" \/ KnownUndefinedStep
<1>1. ~Dangling(A)
  BY OrderlyParts DEF Dangling
<1>2. CASE ReadsEmptyBegin(a, D)
  BY <1>2 DEF ReadsEmptyBegin, Emptied, RemoveFromChannels, KnownUndefinedStep
<1>3. CASE ~ReadsEmptyBegin(a, D)
  BY <1>1, <1>3 DEF MayDie
<1>4. QED
  BY <1>2, <1>3

LEMMA CoMembersAreUsers ==
  ASSUME OrderlyInv, Self \in Addr, NEW a \in CoMembers
  PROVE  \E c \in ChanName : a \in channels[c].users
BY OrderlyParts DEF CoMembers, ObjectsOK, NoDanglingChannel

\* The steps that change no membership mark nobody and, but for INVITE, do not crash.
LEMMA CalmStepsAreSafe ==
  ASSUME SessionsEndWithQuit, OrderlyInv, CalmStep, status = "running"
  PROVE  /\ marked' = marked
         /\ status' = "running" \/ HandleInvite
<1>1. ConnOK /\ ObjectsOK /\ existing \subseteq ChanName
  BY OrderlyParts DEF ObjectsOK
<1>2. CASE HandleNick
  <2>1. Self \in Addr
    BY <1>1, <1>2, SelfIsLive DEF HandleNick, Line
  <2>2. \A a \in CoMembers : \E c \in ChanName : a \in channels[c].users
    BY <2>1, CoMembersAreUsers
  <2>3. CASE UNCHANGED status
    BY <1>2, <2>3 DEF HandleNick
  <2>4. CASE Deref(IF obj[Self].nick # Empty THEN CoMembers \ {Self} ELSE {})
    BY <1>2, <2>2, <2>4, BroadcastIsSafe DEF HandleNick
  <2>5. QED
    BY <1>2, <2>3, <2>4 DEF HandleNick
<1>3. CASE HandleTopic
  <2>1. PICK c \in existing : Deref(channels[c].users)
    BY <1>3 DEF HandleTopic
  <2>2. QED
    BY <1>1, <1>3, <2>1, BroadcastIsSafe DEF HandleTopic
<1>4. CASE HandleMessage
  <2>1. PICK c \in existing : Deref(channels[c].users \ {Self})
    BY <1>4 DEF HandleMessage
  <2>2. QED
    BY <1>1, <1>4, <2>1, BroadcastIsSafe DEF HandleMessage
<1>5. CASE HandleNames
  <2>1. PICK D \in SUBSET existing : Deref(UNION {channels[c].users : c \in D})
    BY <1>5 DEF HandleNames
  <2>2. QED
    BY <1>1, <1>5, <2>1, BroadcastIsSafe DEF HandleNames
<1>6. CASE ModeStep
  <2>1. NextMode
    BY <1>6 DEF ModeStep, ModeFlag, ModeKey, ModeLimit, ModeOperator, ModeRefused
  <2>2. modeChan \in ChanName
    BY <1>1, <2>1, HeadIsModeChange DEF OrderlyInv
  <2>3. UNCHANGED status \/ Deref(channels[modeChan].users)
    BY <1>6 DEF ModeStep, ModeFlag, ModeKey, ModeLimit, ModeOperator, ModeRefused, ModeApplied
  <2>4. QED
    BY <2>1, <2>2, <2>3, BroadcastIsSafe DEF NextMode
<1>7. CASE ReadEof \/ ReadReset \/ Overrun \/ SendFails
  BY <1>7 DEF ReadEof, ReadReset, Overrun, SendFails, SessionsEndWithQuit
<1>8. CASE \/ HandlePass \/ HandleUser \/ HandleInvite \/ HandleMode \/ ReplyOnly
           \/ NextEntry \/ EndOfLoop \/ UNCHANGED vars
  BY <1>8 DEF HandlePass, HandleUser, HandleInvite, HandleMode, ReplyOnly,
     NextEntry, EndOfLoop, vars
<1>9. QED
  BY <1>2, <1>3, <1>4, <1>5, <1>6, <1>7, <1>8 DEF CalmStep

LEMMA CalmKeepsOrderly ==
  ASSUME OrderlyInv, Calm, status = "running", marked' = marked
  PROVE  UsersAreTheJoinedClients' /\ MarkedHaveLeft'
<1>1. /\ ObjectsOK /\ existing \subseteq ChanName /\ Live \subseteq Addr
      /\ ToSet(marked) \subseteq Fds
      /\ \A fd \in Fds : clients[fd] # NULL => clients[fd] \in Addr
  BY OrderlyParts DEF ObjectsOK
<1>2. Live' = Live
  BY DEF Calm, Live
<1>3. UsersAreTheJoinedClients'
  BY <1>1, <1>2 DEF OrderlyInv, UsersAreTheJoinedClients, Calm
<1>4. MarkedHaveLeft'
  BY <1>1 DEF OrderlyInv, MarkedHaveLeft, Calm
<1>5. QED
  BY <1>3, <1>4

\* Marking a client that is not marked yet.
LEMMA AppendFacts ==
  ASSUME NEW S, NEW s \in Seq(S), NEW x \in S, IsInjective(s), x \notin ToSet(s)
  PROVE  IsInjective(Append(s, x)) /\ ToSet(Append(s, x)) = ToSet(s) \cup {x}
<1> DEFINE t == Append(s, x)
           n == Len(s)
<1>1. n \in Nat /\ DOMAIN s = 1 .. n
  OBVIOUS
<1>2. /\ DOMAIN t = 1 .. n + 1
      /\ \A i \in 1 .. n : t[i] = s[i]
      /\ t[n + 1] = x
  BY AppendProperties
<1> HIDE DEF t, n
<1>3. \A i \in 1 .. n : s[i] # x
  BY <1>1 DEF ToSet
<1>4. IsInjective(t)
  BY <1>1, <1>2, <1>3 DEF IsInjective
<1>5. ToSet(t) \subseteq ToSet(s) \cup {x}
  BY <1>1, <1>2 DEF ToSet
<1>6. ToSet(s) \cup {x} \subseteq ToSet(t)
  BY <1>1, <1>2 DEF ToSet
<1>7. QED
  BY <1>4, <1>5, <1>6 DEF t

\* Taking the last mark off.
LEMMA FrontFacts ==
  ASSUME NEW S, NEW s \in Seq(S), s # <<>>, IsInjective(s)
  PROVE  /\ Last(s) \in ToSet(s)
         /\ IsInjective(Front(s))
         /\ ToSet(Front(s)) \subseteq ToSet(s) \ {Last(s)}
<1> DEFINE t == Front(s)
           n == Len(s)
<1>1. n \in Nat \ {0} /\ DOMAIN s = 1 .. n /\ \A i \in 1 .. n : s[i] \in S
  BY EmptySeq
<1>2. Len(t) = n - 1 /\ t \in Seq(S) /\ \A i \in 1 .. n - 1 : t[i] = s[i]
  BY <1>1, SubSeqProperties DEF Front
<1>3. DOMAIN t = 1 .. n - 1
  BY <1>1, <1>2
<1>4. Last(s) = s[n] /\ Last(s) \in ToSet(s)
  BY <1>1 DEF Last, ToSet
<1> HIDE DEF t, n
<1>5. IsInjective(t)
  BY <1>1, <1>2, <1>3 DEF IsInjective
<1>6. ToSet(t) \subseteq ToSet(s) \ {Last(s)}
  BY <1>1, <1>2, <1>3, <1>4 DEF IsInjective, ToSet
<1>7. QED
  BY <1>4, <1>5, <1>6 DEF t

\* A departure keeps both directions of the membership relation.
LEMMA RemoveKeepsMembership ==
  ASSUME OrderlyInv, UNCHANGED clients, NEW a \in Live, a \in Addr,
         NEW D \in SUBSET existing, NEW heir, RemoveFromChannels(a, D, heir)
  PROVE  /\ UsersAreTheJoinedClients'
         /\ obj'[a].channels = obj[a].channels \ D
         /\ \A b \in Addr : obj'[b].channels \subseteq obj[b].channels
<1>1. ObjectsOK /\ Live \subseteq Addr
  BY OrderlyParts
<1>2. /\ existing' \subseteq existing
      /\ \A c \in existing \ D : c \in existing' /\ channels'[c] = channels[c]
      /\ \A c \in D \cap existing' : channels'[c].users = channels[c].users \ {a}
      /\ obj'[a].channels = obj[a].channels \ D
      /\ \A b \in Addr \ {a} : obj'[b] = obj[b]
  <2>1. /\ existing' \subseteq existing
        /\ \A c \in existing \ D : c \in existing' /\ channels'[c] = channels[c]
    BY <1>1, RemoveFacts
  <2>2. ASSUME NEW c \in D \cap existing'
        PROVE  channels'[c].users = channels[c].users \ {a}
    <3>1. \A d \in D \cap existing' :
            /\ channels'[d].users = channels[d].users \ {a}
            /\ channels'[d].operators \subseteq channels[d].users \ {a}
            /\ channels'[d].operators # {}
            /\ channels'[d].users # {}
      BY <1>1, RemoveFacts
    <3>2. QED
      BY <3>1
  <2>3. /\ obj'[a].channels = obj[a].channels \ D
        /\ \A b \in Addr \ {a} : obj'[b] = obj[b]
    BY <1>1, RemoveFacts
  <2>4. QED
    BY <2>1, <2>2, <2>3
<1>3. \A b \in Addr : obj'[b].channels \subseteq obj[b].channels
  BY <1>2
<1>4. Live' = Live
  BY DEF Live
<1>5. ASSUME NEW c \in existing'
      PROVE  channels'[c].users = {b \in Live : c \in obj'[b].channels}
  <2>1. channels[c].users = {b \in Live : c \in obj[b].channels}
    BY <1>2 DEF OrderlyInv, UsersAreTheJoinedClients
  <2>2. CASE c \in D
    BY <1>1, <1>2, <2>1, <2>2
  <2>3. CASE c \notin D
    BY <1>1, <1>2, <2>1, <2>3
  <2>4. QED
    BY <2>2, <2>3
<1>6. QED
  BY <1>2, <1>3, <1>4, <1>5 DEF UsersAreTheJoinedClients

LEMMA QuitKeepsOrderly ==
  ASSUME SessionsEndWithQuit, OrderlyInv, HandleQuit
  PROVE  /\ UsersAreTheJoinedClients' /\ MarkedHaveLeft'
         /\ status' = "running" \/ KnownUndefinedStep
<1>1. /\ ConnOK /\ ObjectsOK /\ Live \subseteq Addr
      /\ marked \in Seq(Fds) /\ ToSet(marked) \subseteq Fds
  BY OrderlyParts
<1>2. /\ status = "running" /\ SelfFd \notin ToSet(marked)
      /\ UNCHANGED clients /\ marked' = Append(marked, SelfFd)
  BY DEF HandleQuit, Line, Mark, SessionsEndWithQuit
<1>3. /\ SelfFd \in Fds /\ Self \in Live /\ Self \in Addr
      /\ Self # NULL /\ Self = clients[SelfFd]
  BY <1>1, SelfIsLive DEF HandleQuit, Line, Self, Live
<1>4. obj[Self].channels \in SUBSET existing
  BY <1>1, <1>3 DEF ObjectsOK, NoDanglingChannel
<1>5. PICK heir : RemoveFromChannels(Self, obj[Self].channels, heir)
  BY DEF HandleQuit
<1>6. /\ UsersAreTheJoinedClients'
      /\ obj'[Self].channels = obj[Self].channels \ obj[Self].channels
      /\ \A b \in Addr : obj'[b].channels \subseteq obj[b].channels
  BY <1>2, <1>3, <1>4, <1>5, RemoveKeepsMembership
<1>7. status' = "running" \/ KnownUndefinedStep
  <2>1. \A a \in CoMembers \ {Self} : \E c \in ChanName : a \in channels[c].users
    BY <1>3, CoMembersAreUsers
  <2>2. MayDie(Dangling(CoMembers \ {Self})
                 \/ ReadsEmptyBegin(Self, obj[Self].channels))
    BY DEF HandleQuit
  <2>3. QED
    BY <1>4, <1>5, <2>1, <2>2, DepartureIsSafe
<1>8. IsInjective(marked') /\ ToSet(marked') = ToSet(marked) \cup {SelfFd}
  BY <1>1, <1>2, <1>3, AppendFacts DEF OrderlyInv, MarkedHaveLeft
<1>9. ASSUME NEW fd \in ToSet(marked')
      PROVE  clients[fd] # NULL /\ obj'[clients[fd]].channels = {}
  <2>1. CASE fd = SelfFd
    BY <1>3, <1>6, <2>1
  <2>2. CASE fd \in ToSet(marked)
    <3>1. clients[fd] # NULL /\ obj[clients[fd]].channels = {} /\ fd \in Fds
      BY <1>1, <1>2, <2>2 DEF OrderlyInv, MarkedHaveLeft
    <3>2. clients[fd] \in Addr
      BY <1>1, <3>1 DEF ConnOK
    <3>3. QED
      BY <1>6, <3>1, <3>2
  <2>3. QED
    BY <1>8, <2>1, <2>2
<1>10. MarkedHaveLeft'
  BY <1>2, <1>8, <1>9 DEF MarkedHaveLeft
<1>11. QED
  BY <1>6, <1>7, <1>10

\* PART and KICK mark nobody.
LEMMA PartKickKeepOrderly ==
  ASSUME OrderlyInv, HandlePart \/ HandleKick
  PROVE  /\ UsersAreTheJoinedClients' /\ MarkedHaveLeft'
         /\ status' = "running" \/ KnownUndefinedStep
<1>1. /\ ConnOK /\ ObjectsOK /\ existing \subseteq ChanName
      /\ ToSet(marked) \subseteq Fds
      /\ \A fd \in Fds : clients[fd] # NULL => clients[fd] \in Addr
  BY OrderlyParts DEF ObjectsOK
<1>2. status = "running" /\ UNCHANGED <<clients, marked>>
  BY DEF HandlePart, HandleKick, Line
<1>3. /\ UsersAreTheJoinedClients'
      /\ \A b \in Addr : obj'[b].channels \subseteq obj[b].channels
  <2>1. PICK a \in Live \cap Addr, D \in SUBSET existing :
          \E heir : RemoveFromChannels(a, D, heir)
    BY DepartureSteps DEF OrderlyInv
  <2>2. QED
    BY <1>2, <2>1, RemoveKeepsMembership
<1>4. status' = "running" \/ KnownUndefinedStep
  <2>1. CASE HandlePart
    <3>1. PICK D \in SUBSET existing, heir \in [ChanName -> Addr] :
            /\ MayDie(Dangling(UNION {channels[c].users : c \in D})
                        \/ ReadsEmptyBegin(Self, D))
            /\ RemoveFromChannels(Self, D, heir)
      BY <2>1 DEF HandlePart
    <3>2. QED
      BY <1>1, <3>1, DepartureIsSafe
  <2>2. CASE HandleKick
    <3>1. PICK c \in existing, kicked \in Addr, heir \in [ChanName -> Addr] :
            /\ MayDie(Dangling(channels[c].users) \/ ReadsEmptyBegin(kicked, {c}))
            /\ RemoveFromChannels(kicked, {c}, heir)
      BY <2>2 DEF HandleKick
    <3>2. QED
      BY <1>1, <3>1, DepartureIsSafe
  <2>3. QED
    BY <2>1, <2>2
<1>5. MarkedHaveLeft'
  BY <1>1, <1>2, <1>3 DEF OrderlyInv, MarkedHaveLeft
<1>6. QED
  BY <1>3, <1>4, <1>5

LEMMA JoinKeepsOrderly ==
  ASSUME SessionsEndWithQuit, OrderlyInv, HandleJoin
  PROVE  UsersAreTheJoinedClients' /\ MarkedHaveLeft' /\ status' = "running"
<1>1. /\ ConnOK /\ ObjectsOK /\ Live \subseteq Addr /\ existing \subseteq ChanName
      /\ ToSet(marked) \subseteq Fds
      /\ \A fd \in Fds : clients[fd] # NULL => clients[fd] \in Addr
  BY OrderlyParts DEF ObjectsOK
<1>2. /\ status = "running" /\ SelfFd \notin ToSet(marked)
      /\ UNCHANGED <<clients, marked>>
  BY DEF HandleJoin, Line, SessionsEndWithQuit
<1>3. SelfFd \in Fds /\ Self \in Live /\ Self \in Addr /\ Self = clients[SelfFd]
  BY <1>1, SelfIsLive DEF HandleJoin, Line, Self
<1>4. PICK entered \in SUBSET ChanName :
        /\ existing' = existing \cup entered
        /\ obj' = [obj EXCEPT ![Self].channels = @ \cup entered]
        /\ Deref(UNION {channels[c].users : c \in entered})
        /\ \A c \in entered : channels'[c].users = channels[c].users \cup {Self}
        /\ \A c \in ChanName \ entered : channels'[c] = channels[c]
  BY JoinFacts DEF OrderlyInv
<1>5. status' = "running"
  BY <1>4, BroadcastIsSafe
<1>6. /\ obj'[Self].channels = obj[Self].channels \cup entered
      /\ \A b \in Addr \ {Self} : obj'[b] = obj[b]
  BY <1>1, <1>3, <1>4 DEF ObjectsOK, Client
<1>7. UsersAreTheJoinedClients'
  <2>1. Live' = Live
    BY <1>2 DEF Live
  <2>2. ASSUME NEW c \in existing'
        PROVE  channels'[c].users = {b \in Live : c \in obj'[b].channels}
    <3>1. channels[c].users = {b \in Live : c \in obj[b].channels}
      <4>1. CASE c \in existing
        BY <4>1 DEF OrderlyInv, UsersAreTheJoinedClients
      <4>2. CASE c \notin existing
        BY <1>1, <1>4, <4>2, NewFacts DEF ObjectsOK, NoDanglingChannel
      <4>3. QED
        BY <4>1, <4>2
    <3>2. CASE c \in entered
      BY <1>1, <1>3, <1>4, <1>6, <3>1, <3>2
    <3>3. CASE c \notin entered
      BY <1>1, <1>3, <1>4, <1>6, <3>1, <3>3
    <3>4. QED
      BY <3>2, <3>3
  <2>3. QED
    BY <2>1, <2>2 DEF UsersAreTheJoinedClients
<1>8. MarkedHaveLeft'
  <2>1. ASSUME NEW fd \in ToSet(marked)
        PROVE  clients[fd] # NULL /\ obj'[clients[fd]].channels = {}
    <3>1. clients[fd] # NULL /\ obj[clients[fd]].channels = {} /\ fd \in Fds
      BY <1>1, <1>2 DEF OrderlyInv, MarkedHaveLeft
    <3>2. clients[fd] # Self
      BY <1>1, <1>2, <1>3, <3>1 DEF ConnOK
    <3>3. QED
      BY <1>1, <1>6, <3>1, <3>2
  <2>2. QED
    BY <1>2, <2>1 DEF OrderlyInv, MarkedHaveLeft
<1>9. QED
  BY <1>5, <1>7, <1>8

LEMMA AcceptKeepsOrderly ==
  ASSUME OrderlyInv, Accept
  PROVE  UsersAreTheJoinedClients' /\ MarkedHaveLeft' /\ status' = "running"
<1>1. /\ ConnOK /\ ObjectsOK /\ Live \subseteq Addr /\ existing \subseteq ChanName
      /\ ToSet(marked) \subseteq Fds
      /\ \A fd \in Fds : clients[fd] # NULL => clients[fd] \in Live
  BY OrderlyParts DEF ObjectsOK
<1>2. status = "running" /\ UNCHANGED <<status, marked, existing, channels>>
  BY DEF Accept, Running, chanVars
<1>3. PICK fd \in Fds, a \in Addr \ Live :
        /\ fd \notin ToSet(pollfds)
        /\ clients' = [clients EXCEPT ![fd] = a]
        /\ obj' = [obj EXCEPT ![a] = NewClient]
  BY DEF Accept, LowestFree
<1>4. clients[fd] = NULL
  BY <1>1, <1>2, <1>3 DEF ConnOK, PollfdsMatchClients
<1>5. clients'[fd] = a /\ \A g \in Fds \ {fd} : clients'[g] = clients[g]
  BY <1>1, <1>3 DEF ConnOK
<1>6. obj'[a].channels = {} /\ \A b \in Addr \ {a} : obj'[b] = obj[b]
  BY <1>1, <1>3, NewFacts DEF ObjectsOK
<1>7. Live' = Live \cup {a}
  BY <1>3, <1>4, <1>5, StateAssumption DEF Live
<1>8. UsersAreTheJoinedClients'
  <2>1. ASSUME NEW c \in existing
        PROVE  channels[c].users = {b \in Live' : c \in obj'[b].channels}
    <3>1. channels[c].users = {b \in Live : c \in obj[b].channels}
      BY DEF OrderlyInv, UsersAreTheJoinedClients
    <3>2. QED
      BY <1>1, <1>3, <1>6, <1>7, <3>1
  <2>2. QED
    BY <1>2, <2>1 DEF UsersAreTheJoinedClients
<1>9. MarkedHaveLeft'
  <2>1. ASSUME NEW g \in ToSet(marked)
        PROVE  clients'[g] # NULL /\ obj'[clients'[g]].channels = {}
    <3>1. clients[g] # NULL /\ obj[clients[g]].channels = {} /\ g \in Fds
      BY <1>1, <1>2 DEF OrderlyInv, MarkedHaveLeft
    <3>2. clients[g] \in Live /\ clients'[g] = clients[g]
      BY <1>1, <1>4, <1>5, <3>1
    <3>3. QED
      BY <1>1, <1>3, <1>6, <3>1, <3>2
  <2>2. QED
    BY <1>2, <2>1 DEF OrderlyInv, MarkedHaveLeft
<1>10. QED
  BY <1>2, <1>8, <1>9

LEMMA RemovalKeepsOrderly ==
  ASSUME OrderlyInv, RemoveSingleClient
  PROVE  UsersAreTheJoinedClients' /\ MarkedHaveLeft' /\ status' = "running"
<1> DEFINE fd == Last(marked)
           a == clients[fd]
<1>1. /\ ConnOK /\ ObjectsOK /\ Live \subseteq Addr /\ existing \subseteq ChanName
      /\ marked \in Seq(Fds) /\ ToSet(marked) \subseteq Fds
      /\ \A g \in Fds : clients[g] # NULL => clients[g] \in Live
  BY OrderlyParts DEF ObjectsOK
<1>2. /\ status = "running" /\ marked # <<>> /\ marked' = Front(marked)
      /\ UNCHANGED <<existing, channels>>
  BY <1>1 DEF RemoveSingleClient, Running, ConnOK, chanVars
<1>3. /\ IsInjective(marked)
      /\ \A g \in ToSet(marked) : clients[g] # NULL /\ obj[clients[g]].channels = {}
  BY <1>2 DEF OrderlyInv, MarkedHaveLeft
<1>4. /\ fd \in ToSet(marked) /\ IsInjective(marked')
      /\ ToSet(marked') \subseteq ToSet(marked) \ {fd}
  BY <1>1, <1>2, <1>3, FrontFacts
<1>5. /\ status' = status
      /\ obj' = [obj EXCEPT ![a] = NewClient]
      /\ clients' = [clients EXCEPT ![fd] = NULL]
  BY <1>3, <1>4 DEF RemoveSingleClient
<1> HIDE DEF fd
<1>6. fd \in Fds /\ a \in Live /\ a \in Addr /\ obj[a].channels = {}
  BY <1>1, <1>3, <1>4
<1>7. clients'[fd] = NULL /\ \A g \in Fds \ {fd} : clients'[g] = clients[g] /\ clients[g] # a
  BY <1>1, <1>3, <1>4, <1>5, <1>6 DEF ConnOK
<1>8. Live' = Live \ {a}
  BY <1>6, <1>7 DEF Live
<1>9. \A b \in Addr \ {a} : obj'[b] = obj[b]
  BY <1>1, <1>5 DEF ObjectsOK
<1> HIDE DEF a
<1>10. UsersAreTheJoinedClients'
  <2>1. ASSUME NEW c \in existing
        PROVE  channels[c].users = {b \in Live' : c \in obj'[b].channels}
    <3>1. channels[c].users = {b \in Live : c \in obj[b].channels}
      BY DEF OrderlyInv, UsersAreTheJoinedClients
    <3>2. QED
      BY <1>1, <1>6, <1>8, <1>9, <3>1
  <2>2. QED
    BY <1>2, <2>1 DEF UsersAreTheJoinedClients
<1>11. ASSUME NEW g \in ToSet(marked')
       PROVE  clients'[g] # NULL /\ obj'[clients'[g]].channels = {}
  <2>1. g \in ToSet(marked) /\ g \in Fds \ {fd}
    BY <1>1, <1>4
  <2>2. clients'[g] = clients[g] /\ clients[g] \in Addr \ {a}
    BY <1>1, <1>3, <1>7, <2>1
  <2>3. QED
    BY <1>3, <1>9, <2>1, <2>2
<1>12. MarkedHaveLeft'
  BY <1>4, <1>11 DEF MarkedHaveLeft
<1>13. QED
  BY <1>2, <1>5, <1>10, <1>12

LEMMA ShutdownKeepsOrderly ==
  ASSUME Shutdown
  PROVE  UsersAreTheJoinedClients' /\ MarkedHaveLeft' /\ status' = "stopped"
BY DEF Shutdown, UsersAreTheJoinedClients, MarkedHaveLeft

\* Nothing happens any more once the process has ended.
LEMMA ChangingStepsRun ==
  ASSUME [Next]_vars, ~UNCHANGED vars
  PROVE  status = "running"
BY DEF Next, Handle, Terminated, Accept, NextEntry, ReadEof, ReadReset,
   Overrun, SendFails, EndOfLoop, RemoveSingleClient, Shutdown, Running, Line,
   HandlePass, HandleNick, HandleUser, HandleQuit, HandleJoin, HandlePart,
   HandleKick, HandleInvite, HandleTopic, HandleMode, HandleMessage, HandleNames,
   ReplyOnly, ModeStep, ModeFlag, ModeKey, ModeLimit, ModeOperator, ModeRefused,
   NextMode

LEMMA NextKeepsOrderly ==
  ASSUME SessionsEndWithQuit, OrderlyInv, [Next]_vars
  PROVE  /\ OrderlyInv'
         /\ status' \in {status, "running", "stopped"} \/ KnownUndefinedStep
<1>1. Consistent'
  BY NextKeepsConsistent DEF OrderlyInv
<1>2. CASE UNCHANGED vars
  BY <1>1, <1>2 DEF OrderlyInv, vars, UsersAreTheJoinedClients, MarkedHaveLeft, Live
<1>3. CASE ~UNCHANGED vars
  <2>1. status = "running"
    BY <1>3, ChangingStepsRun
  <2>2. CASE CalmStep
    <3>1. /\ marked' = marked /\ Calm
          /\ status' = "running" \/ KnownUndefinedStep
      BY <2>1, <2>2, CalmStepsAreSafe, CalmSteps DEF OrderlyInv, KnownUndefinedStep
    <3>2. QED
      BY <1>1, <2>1, <3>1, CalmKeepsOrderly DEF OrderlyInv
  <2>3. CASE HandleJoin \/ HandleQuit \/ HandlePart \/ HandleKick
    BY <1>1, <2>3, JoinKeepsOrderly, QuitKeepsOrderly, PartKickKeepOrderly
    DEF OrderlyInv
  <2>4. CASE Accept \/ RemoveSingleClient \/ Shutdown
    BY <1>1, <2>4, AcceptKeepsOrderly, RemovalKeepsOrderly, ShutdownKeepsOrderly
    DEF OrderlyInv
  <2>5. QED
    BY <2>2, <2>3, <2>4, KindsOfSteps
<1>4. QED
  BY <1>2, <1>3

LEMMA InitOrderly == Init => OrderlyInv
<1> SUFFICES ASSUME Init PROVE OrderlyInv
  OBVIOUS
<1>1. UsersAreTheJoinedClients
  BY DEF Init, UsersAreTheJoinedClients
<1>2. MarkedHaveLeft
  BY DEF Init, MarkedHaveLeft, IsInjective, ToSet
<1>3. QED
  BY <1>1, <1>2, InitConsistent DEF OrderlyInv

\* When every session ends with a QUIT that nothing follows, the users of a channel are
\* the connected clients that have joined it, for any number of clients and channels.
THEOREM MembershipIsMutual ==
  SessionsEndWithQuit => (Spec => []UsersAreTheJoinedClients)
<1> SUFFICES ASSUME SessionsEndWithQuit PROVE Spec => []UsersAreTheJoinedClients
  OBVIOUS
<1>1. OrderlyInv /\ [Next]_vars => OrderlyInv'
  BY NextKeepsOrderly
<1>2. OrderlyInv => UsersAreTheJoinedClients
  BY DEF OrderlyInv
<1>3. QED
  BY <1>1, <1>2, InitOrderly, PTL DEF Spec

\* When every session ends with a QUIT that nothing follows, the server dies of the two
\* undefined steps of KnownUndefinedStep only, and survives all others.
THEOREM OrderlySessionsAreSafe ==
  SessionsEndWithQuit => (Spec => DiesOfKnownStepsOnly)
<1> SUFFICES ASSUME SessionsEndWithQuit PROVE Spec => DiesOfKnownStepsOnly
  OBVIOUS
<1> DEFINE A == status' = "crashed" => KnownUndefinedStep
<1>1. OrderlyInv /\ [Next]_vars => OrderlyInv'
  BY NextKeepsOrderly
<1>2. OrderlyInv /\ [Next]_vars => [A]_vars
  <2> SUFFICES ASSUME OrderlyInv, [Next]_vars, ~UNCHANGED vars
               PROVE  A
    OBVIOUS
  <2>1. status = "running"
    BY ChangingStepsRun
  <2>2. QED
    BY <2>1, NextKeepsOrderly
<1> HIDE DEF A
<1>3. Spec => [][A]_vars
  BY <1>1, <1>2, InitOrderly, PTL DEF Spec
<1>4. QED
  BY <1>3 DEF DiesOfKnownStepsOnly, A

=============================================================================
