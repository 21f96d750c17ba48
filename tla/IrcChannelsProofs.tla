------------------------- MODULE IrcChannelsProofs --------------------------
(***************************************************************************)
(* Proof that the server implements IrcChannels when every session ends    *)
(* with a QUIT that nothing follows, for every value of the other          *)
(* constants: each step of IrcServer is a step of IrcChannels on the       *)
(* connected clients and the users and operators of the channels, or       *)
(* leaves all three as they are.                                           *)
(***************************************************************************)
EXTENDS MembershipProofs

\* Nothing that IrcChannels speaks about changes.
Unseen ==
  /\ Live' = Live
  /\ \A c \in ChanName : /\ channels'[c].users = channels[c].users
                         /\ channels'[c].operators = channels[c].operators

LEMMA UnseenIsStutter ==
  ASSUME Unseen
  PROVE  UNCHANGED Promise!vars
BY DEF Unseen, Promise!vars

-----------------------------------------------------------------------------
(* The steps of IrcChannels in the terms of the server. *)

LEMMA IsConnect ==
  ASSUME NEW a \in Addr, a \notin Live, Live' = Live \cup {a}, UNCHANGED channels
  PROVE  Promise!Next
<1>1. Promise!Connect(a)
  BY DEF Promise!Connect
<1>2. QED
  BY <1>1 DEF Promise!Next

LEMMA IsDisconnect ==
  ASSUME NEW a \in Addr, a \in Live, Live' = Live \ {a}, UNCHANGED channels,
         \A c \in ChanName : a \notin channels[c].users
  PROVE  Promise!Next
<1>1. Promise!Disconnect(a)
  BY DEF Promise!Disconnect
<1>2. QED
  BY <1>1 DEF Promise!Next

LEMMA IsEnter ==
  ASSUME NEW a \in Addr, a \in Live, Live' = Live, NEW S \in SUBSET ChanName,
         \A c \in ChanName \ S : channels'[c] = channels[c],
         \A c \in S : channels'[c].users = channels[c].users \cup {a},
         \A c \in S : channels'[c].operators =
           IF channels[c].users = {} THEN {a} ELSE channels[c].operators
  PROVE  Promise!Next
<1>1. Promise!Enter(a, S)
  BY DEF Promise!Enter
<1>2. QED
  BY <1>1 DEF Promise!Next

LEMMA IsLeave ==
  ASSUME NEW a \in Addr, Live' = Live, NEW S \in SUBSET ChanName,
         \A c \in S : a \in channels[c].users,
         \A c \in ChanName \ S : channels'[c] = channels[c],
         \A c \in S : channels'[c].users = channels[c].users \ {a},
         \A c \in S : channels'[c].operators \in Promise!Successors(a, c),
         \A c \in ChanName : channels'[c].operators \in SUBSET Addr
  PROVE  Promise!Next
<1>1. Promise!Leave(a, S)
  BY DEF Promise!Leave
<1>2. QED
  BY <1>1 DEF Promise!Next

LEMMA IsSetRank ==
  ASSUME NEW a \in Addr, NEW d \in ChanName, Live' = Live,
         a \in channels[d].users, channels'[d].users = channels[d].users,
         \A c \in ChanName \ {d} : channels'[c] = channels[c],
         \/ channels'[d].operators = channels[d].operators \cup {a}
         \/ channels'[d].operators = channels[d].operators \ {a}
  PROVE  Promise!Next
<1>1. Promise!SetRank(d, a)
  BY DEF Promise!SetRank
<1>2. QED
  BY <1>1 DEF Promise!Next

LEMMA IsClose ==
  ASSUME Live' = {}, channels' = [c \in ChanName |-> NewChannel]
  PROVE  Promise!Next
<1>1. Promise!Close
  BY NewFacts DEF Promise!Close
<1>2. QED
  BY <1>1 DEF Promise!Next

-----------------------------------------------------------------------------
(* The steps of the server. *)

LEMMA AcceptConnects ==
  ASSUME OrderlyInv, Accept
  PROVE  Promise!Next
<1>1. ConnOK /\ UNCHANGED channels
  BY OrderlyParts DEF Accept, chanVars
<1>2. PICK fd \in Fds, a \in Addr \ Live :
        fd \notin ToSet(pollfds) /\ clients' = [clients EXCEPT ![fd] = a]
  BY DEF Accept, LowestFree
<1>3. clients[fd] = NULL
  BY <1>1, <1>2 DEF ConnOK, PollfdsMatchClients, Accept, Running
<1>4. clients'[fd] = a /\ \A g \in Fds \ {fd} : clients'[g] = clients[g]
  BY <1>1, <1>2 DEF ConnOK
<1>5. Live' = Live \cup {a}
  BY <1>2, <1>3, <1>4, StateAssumption DEF Live
<1>6. QED
  BY <1>1, <1>2, <1>5, IsConnect

LEMMA RemovalDisconnects ==
  ASSUME OrderlyInv, RemoveSingleClient
  PROVE  Promise!Next
<1> DEFINE fd == Last(marked)
           a == clients[fd]
<1>1. /\ ConnOK /\ ObjectsOK
      /\ marked \in Seq(Fds) /\ ToSet(marked) \subseteq Fds
      /\ \A g \in Fds : clients[g] # NULL => clients[g] \in Live
      /\ Live \subseteq Addr
  BY OrderlyParts
<1>2. status = "running" /\ marked # <<>> /\ UNCHANGED channels
  BY <1>1 DEF RemoveSingleClient, Running, ConnOK, chanVars
<1>3. /\ IsInjective(marked)
      /\ \A g \in ToSet(marked) : clients[g] # NULL /\ obj[clients[g]].channels = {}
  BY <1>2 DEF OrderlyInv, MarkedHaveLeft
<1>4. fd \in ToSet(marked)
  BY <1>1, <1>2, <1>3, FrontFacts
<1>5. clients' = [clients EXCEPT ![fd] = NULL]
  BY <1>3, <1>4 DEF RemoveSingleClient
<1> HIDE DEF fd
<1>6. fd \in Fds /\ a \in Live /\ a \in Addr /\ a # NULL /\ obj[a].channels = {}
  BY <1>1, <1>3, <1>4
<1>7. clients'[fd] = NULL /\ \A g \in Fds \ {fd} : clients'[g] = clients[g] /\ clients[g] # a
  BY <1>1, <1>5, <1>6 DEF ConnOK
<1>8. Live' = Live \ {a}
  BY <1>6, <1>7 DEF Live
<1> HIDE DEF a
<1>9. ASSUME NEW c \in ChanName
      PROVE  a \notin channels[c].users
  <2>1. CASE c \in existing
    BY <1>6, <2>1 DEF OrderlyInv, UsersAreTheJoinedClients
  <2>2. CASE c \notin existing
    BY <1>1, <2>2, NewFacts DEF ObjectsOK
  <2>3. QED
    BY <2>1, <2>2
<1>10. QED
  BY <1>2, <1>6, <1>8, <1>9, IsDisconnect

\* In an orderly run a channel without users does not exist.
LEMMA EmptyIsAbsent ==
  ASSUME OrderlyInv, NEW c \in ChanName
  PROVE  c \notin existing <=> channels[c].users = {}
<1>1. ObjectsOK
  BY OrderlyParts
<1>2. QED
  BY <1>1, NewFacts DEF ObjectsOK, ChannelsAreInhabited

LEMMA JoinEnters ==
  ASSUME OrderlyInv, HandleJoin
  PROVE  Promise!Next
<1>1. Self \in Live /\ Self \in Addr /\ ObjectsOK /\ Live' = Live
  <2>1. ConnOK /\ ObjectsOK
    BY OrderlyParts
  <2>2. UNCHANGED clients
    BY DEF HandleJoin, Line
  <2>3. Live' = Live
    BY <2>2 DEF Live
  <2>4. QED
    BY <2>1, <2>3, SelfIsLive DEF HandleJoin, Line
<1>2. PICK chs, keys :
        channels' = [c \in ChanName |->
             IF c \in Entered(chs, keys)
             THEN Joined(channels[c], Self, c \notin existing) ELSE channels[c]]
  BY DEF HandleJoin
<1> DEFINE entered == Entered(chs, keys)
<1>3. entered \in SUBSET ChanName
  BY DEF Entered
<1>4. channels' = [c \in ChanName |->
           IF c \in entered THEN Joined(channels[c], Self, c \notin existing)
           ELSE channels[c]]
  BY <1>2
<1> HIDE DEF entered
<1>5. \A c \in ChanName \ entered : channels'[c] = channels[c]
  BY <1>4
<1>6. ASSUME NEW c \in entered
      PROVE  /\ channels'[c].users = channels[c].users \cup {Self}
             /\ channels'[c].operators =
                  IF channels[c].users = {} THEN {Self} ELSE channels[c].operators
  <2>1. c \in ChanName /\ channels[c] \in Channel
    BY <1>1, <1>3 DEF ObjectsOK
  <2>2. channels'[c] = Joined(channels[c], Self, c \notin existing)
    BY <1>4, <2>1
  <2>3. CASE c \in existing
    <3>1. channels[c].users # {}
      BY <2>1, <2>3, EmptyIsAbsent
    <3>2. QED
      BY <2>1, <2>2, <2>3, <3>1 DEF Joined, Channel
  <2>4. CASE c \notin existing
    <3>1. channels[c].users = {} /\ channels[c].operators = {}
      BY <1>1, <2>1, <2>4, NewFacts DEF ObjectsOK
    <3>2. QED
      BY <2>1, <2>2, <2>4, <3>1 DEF Joined, Channel
  <2>5. QED
    BY <2>3, <2>4
<1>7. /\ \A c \in entered : channels'[c].users = channels[c].users \cup {Self}
      /\ \A c \in entered : channels'[c].operators =
           IF channels[c].users = {} THEN {Self} ELSE channels[c].operators
  BY <1>6
<1> HIDE DEF Self
<1>8. QED
  BY <1>1, <1>3, <1>5, <1>7, IsEnter

LEMMA RemovalLeaves ==
  ASSUME OrderlyInv, UNCHANGED clients, NEW a \in Addr, NEW D \in SUBSET existing,
         \A c \in D : a \in channels[c].users,
         NEW heir, RemoveFromChannels(a, D, heir)
  PROVE  Promise!Next
<1>1. ObjectsOK /\ Live' = Live /\ existing \subseteq ChanName
  BY OrderlyParts DEF Live, ObjectsOK
<1>2. /\ existing' \subseteq existing
      /\ channels' \in [ChanName -> Channel]
      /\ \A c \in ChanName \ existing' : channels'[c] = NewChannel
      /\ \A c \in existing \ D : c \in existing' /\ channels'[c] = channels[c]
  BY <1>1, RemoveFacts
<1>3. \A c \in ChanName \ D : channels'[c] = channels[c]
  BY <1>1, <1>2 DEF ObjectsOK
<1>4. \A c \in ChanName : channels'[c].operators \in SUBSET Addr
  BY <1>2 DEF Channel
<1>5. ASSUME NEW c \in D
      PROVE  /\ channels'[c].users = channels[c].users \ {a}
             /\ channels'[c].operators \in Promise!Successors(a, c)
  <2>1. c \in existing /\ c \in ChanName /\ channels[c] \in Channel
        /\ channels[c].operators \subseteq channels[c].users
    BY <1>1 DEF ObjectsOK, OperatorsAreUsers
  <2>2. CASE c \in Emptied(a, D)
    <3>1. channels'[c] = NewChannel /\ channels[c].users \ {a} = {}
      BY <2>1, <2>2 DEF RemoveFromChannels, Emptied
    <3>2. channels'[c].users = {} /\ channels'[c].operators = {}
      BY <3>1, NewFacts
    <3>3. QED
      BY <2>1, <3>1, <3>2 DEF Promise!Successors
  <2>3. CASE c \notin Emptied(a, D)
    <3>1. /\ channels'[c] = AfterLeave(channels[c], a, heir[c])
          /\ heir[c] \in channels[c].users \ {a}
      BY <2>1, <2>3 DEF RemoveFromChannels, Emptied
    <3>2. /\ channels'[c].users = channels[c].users \ {a}
          /\ channels'[c].operators =
               IF channels[c].operators \ {a} = {} THEN {heir[c]}
               ELSE channels[c].operators \ {a}
      BY <2>1, <3>1 DEF AfterLeave, Without, Channel
    <3>3. channels'[c].operators \in Promise!Successors(a, c)
      BY <2>1, <3>1, <3>2 DEF Promise!Successors
    <3>4. QED
      BY <3>2, <3>3
  <2>4. QED
    BY <2>2, <2>3
<1>6. QED
  BY <1>1, <1>3, <1>4, <1>5, IsLeave

LEMMA DeparturesLeave ==
  ASSUME OrderlyInv, HandleQuit \/ HandlePart \/ HandleKick
  PROVE  Promise!Next
<1>1. ConnOK /\ ObjectsOK /\ UNCHANGED clients
  BY OrderlyParts DEF HandleQuit, HandlePart, HandleKick, Line
<1>2. CASE HandleQuit
  <2>1. Self \in Addr
    BY <1>1, <1>2, SelfIsLive DEF HandleQuit, Line
  <2>2. /\ obj[Self].channels \in SUBSET existing
        /\ \A c \in obj[Self].channels : Self \in channels[c].users
    BY <1>1, <2>1 DEF ObjectsOK, NoDanglingChannel
  <2>3. PICK heir : RemoveFromChannels(Self, obj[Self].channels, heir)
    BY <1>2 DEF HandleQuit
  <2>4. QED
    BY <1>1, <2>1, <2>2, <2>3, RemovalLeaves
<1>3. CASE HandlePart
  <2>1. Self \in Addr
    BY <1>1, <1>3, SelfIsLive DEF HandlePart, Line
  <2>2. PICK D \in SUBSET {c \in existing : Self \in channels[c].users},
             heir \in [ChanName -> Addr] : RemoveFromChannels(Self, D, heir)
    BY <1>3 DEF HandlePart
  <2>3. D \in SUBSET existing /\ \A c \in D : Self \in channels[c].users
    OBVIOUS
  <2>4. QED
    BY <1>1, <2>1, <2>2, <2>3, RemovalLeaves
<1>4. CASE HandleKick
  <2>1. PICK c \in existing, kicked \in Addr, heir \in [ChanName -> Addr] :
          kicked \in channels[c].users /\ RemoveFromChannels(kicked, {c}, heir)
    BY <1>4 DEF HandleKick
  <2>2. {c} \in SUBSET existing /\ \A d \in {c} : kicked \in channels[d].users
    BY <2>1
  <2>3. QED
    BY <1>1, <2>1, <2>2, RemovalLeaves
<1>5. QED
  BY <1>2, <1>3, <1>4

\* A step of a MODE line gives or takes a rank, or is unseen.
LEMMA ModeSetsRank ==
  ASSUME OrderlyInv, ModeStep
  PROVE  Promise!Next \/ Unseen
<1> DEFINE d == modeChan
           old == channels[d]
<1>1. ObjectsOK /\ NextMode /\ Live' = Live
  <2>1. ObjectsOK /\ NextMode
    BY OrderlyParts
    DEF ModeStep, ModeFlag, ModeKey, ModeLimit, ModeOperator, ModeRefused
  <2>2. UNCHANGED clients
    BY <2>1 DEF NextMode, connVars
  <2>3. QED
    BY <2>1, <2>2 DEF Live
<1>2. d \in ChanName /\ old \in Channel
  BY <1>1, HeadIsModeChange DEF OrderlyInv, ObjectsOK
<1>3. ASSUME NEW ch, ModeApplied(ch)
      PROVE  channels'[d] = ch /\ \A c \in ChanName \ {d} : channels'[c] = channels[c]
  BY <1>1, <1>2, <1>3 DEF ModeApplied, ObjectsOK
<1>4. ASSUME NEW ch, ModeApplied(ch), ch.users = old.users, ch.operators = old.operators
      PROVE  Unseen
  <2>1. channels'[d] = ch /\ \A c \in ChanName \ {d} : channels'[c] = channels[c]
    BY <1>3, <1>4
  <2>2. QED
    BY <1>1, <1>2, <1>4, <2>1 DEF Unseen
<1>5. /\ \A x : LET ch == [old EXCEPT !.mode_i = x]
                IN ch.users = old.users /\ ch.operators = old.operators
      /\ \A x : LET ch == [old EXCEPT !.mode_t = x]
                IN ch.users = old.users /\ ch.operators = old.operators
      /\ \A x : LET ch == [old EXCEPT !.key = x]
                IN ch.users = old.users /\ ch.operators = old.operators
      /\ \A x : LET ch == [old EXCEPT !.limit = x]
                IN ch.users = old.users /\ ch.operators = old.operators
  BY <1>2 DEF Channel
<1>6. CASE UNCHANGED channels
  BY <1>1, <1>6 DEF Unseen
<1>7. CASE ModeFlag \/ ModeKey \/ ModeLimit \/ ModeRefused
  <2>1. \/ \E x : ModeApplied([old EXCEPT !.mode_i = x])
        \/ \E x : ModeApplied([old EXCEPT !.mode_t = x])
        \/ \E x : ModeApplied([old EXCEPT !.key = x])
        \/ \E x : ModeApplied([old EXCEPT !.limit = x])
        \/ UNCHANGED channels
    BY <1>7 DEF ModeFlag, ModeKey, ModeLimit, ModeRefused
  <2> HIDE DEF old, d
  <2>2. QED
    BY <1>4, <1>5, <1>6, <2>1
<1>8. CASE ModeOperator
  <2>1. PICK a \in Addr :
          /\ a \in old.users
          /\ ModeApplied([old EXCEPT
               !.operators = IF Head(modes).plus THEN @ \cup {a} ELSE @ \ {a}])
    BY <1>8 DEF ModeOperator, MayBecomeOperator
  <2> DEFINE ch == [old EXCEPT
               !.operators = IF Head(modes).plus THEN @ \cup {a} ELSE @ \ {a}]
  <2>2. ch.users = old.users
    BY <1>2 DEF Channel
  <2>3. ch.operators = old.operators \cup {a} \/ ch.operators = old.operators \ {a}
    BY <1>2 DEF Channel
  <2>4. channels'[d] = ch /\ \A c \in ChanName \ {d} : channels'[c] = channels[c]
    BY <1>3, <2>1
  <2> HIDE DEF ch
  <2>5. QED
    BY <1>1, <1>2, <2>1, <2>2, <2>3, <2>4, IsSetRank
<1>9. QED
  BY <1>7, <1>8 DEF ModeStep

\* The other calm steps leave the operators alone, too.
LEMMA CalmIsUnseen ==
  ASSUME OrderlyInv, CalmStep, ~ModeStep
  PROVE  Unseen
<1>1. ObjectsOK /\ Calm
  BY OrderlyParts, CalmSteps DEF OrderlyInv
<1>2. Live' = Live
  BY <1>1 DEF Calm, Live
<1>3. CASE HandleTopic
  <2>1. PICK c \in existing : channels' = [channels EXCEPT ![c] = WithTopic(@)]
    BY <1>3 DEF HandleTopic
  <2>2. c \in ChanName /\ channels[c] \in Channel
    BY <1>1 DEF ObjectsOK
  <2>3. channels' = [channels EXCEPT ![c] = WithTopic(channels[c])]
    BY <1>1, <2>1 DEF ObjectsOK
  <2>4. WithTopic(channels[c]).operators = channels[c].operators
    BY <2>2 DEF WithTopic, Channel
  <2>5. \A e \in ChanName : channels'[e].operators = channels[e].operators
    BY <1>1, <2>2, <2>3, <2>4 DEF ObjectsOK
  <2>6. QED
    BY <1>1, <1>2, <2>5 DEF Calm, Unseen
<1>4. CASE ~HandleTopic
  <2>1. UNCHANGED channels
    BY <1>4 DEF CalmStep, HandlePass, HandleNick, HandleUser, HandleInvite, HandleMode,
       HandleMessage, HandleNames, ReplyOnly, NextEntry, ReadEof, ReadReset, Overrun,
       SendFails, EndOfLoop, chanVars, vars
  <2>2. QED
    BY <1>2, <2>1 DEF Unseen
<1>5. QED
  BY <1>3, <1>4

LEMMA StepIsPromised ==
  ASSUME OrderlyInv, [Next]_vars
  PROVE  Promise!Next \/ UNCHANGED Promise!vars
<1>1. CASE CalmStep
  BY <1>1, ModeSetsRank, CalmIsUnseen, UnseenIsStutter
<1>2. CASE HandleJoin
  BY <1>2, JoinEnters
<1>3. CASE HandleQuit \/ HandlePart \/ HandleKick
  BY <1>3, DeparturesLeave
<1>4. CASE Accept \/ RemoveSingleClient
  BY <1>4, AcceptConnects, RemovalDisconnects
<1>5. CASE Shutdown
  <2>1. channels' = [c \in ChanName |-> NewChannel] /\ clients' = [fd \in Fds |-> NULL]
    BY <1>5 DEF Shutdown
  <2>2. Live' = {}
    BY <2>1 DEF Live
  <2>3. QED
    BY <2>1, <2>2, IsClose
<1>6. QED
  BY <1>1, <1>2, <1>3, <1>4, <1>5, KindsOfSteps

LEMMA InitIsPromised ==
  ASSUME Init
  PROVE  Promise!Init
<1>1. Live = {}
  BY DEF Init, Live
<1>2. \A c \in ChanName : channels[c].users = {} /\ channels[c].operators = {}
  BY NewFacts DEF Init
<1>3. QED
  BY <1>1, <1>2 DEF Promise!Init

\* When every session ends with a QUIT that nothing follows, the server implements
\* IrcChannels, for any number of clients, channels and nicknames and for lines of any
\* length.
THEOREM PromiseIsKept == SessionsEndWithQuit => (Spec => ChannelsBehaveAsPromised)
<1> SUFFICES ASSUME SessionsEndWithQuit PROVE Spec => ChannelsBehaveAsPromised
  OBVIOUS
<1>1. OrderlyInv /\ [Next]_vars => OrderlyInv'
  BY NextKeepsOrderly
<1>2. OrderlyInv /\ [Next]_vars => [Promise!Next]_(Promise!vars)
  BY StepIsPromised
<1>3. Init => Promise!Init
  BY InitIsPromised
<1>4. QED
  BY <1>1, <1>2, <1>3, InitOrderly, PTL DEF Spec, ChannelsBehaveAsPromised, Promise!Spec

=============================================================================
