------------------------- MODULE RegistrationProofs -------------------------
(***************************************************************************)
(* Proofs that only registered clients enter a channel and that nicknames  *)
(* are unique, for every value of the constants of IrcServer; and that all *)
(* the users of a channel are registered when every session ends with a    *)
(* QUIT that nothing follows.                                              *)
(***************************************************************************)
EXTENDS MembershipProofs

-----------------------------------------------------------------------------
(* The inductive invariant: a registered client still passes _tryRegister,   *)
(* and a client with channels is registered.  Unlike the properties, it      *)
(* speaks of the registered clients without channels, who may join next.     *)

SessionOK(c) ==
  /\ c.registered => TryRegister(c)
  /\ c.channels # {} => c.registered

SessionsOK == \A a \in Addr : SessionOK(obj[a])

RegistrationInv == Consistent /\ SessionsOK /\ NicknamesAreUnique

LEMMA RegisteredHasRegistered ==
  ASSUME NEW c, SessionOK(c), c.registered
  PROVE  HasRegistered(c)
BY DEF SessionOK, TryRegister, HasRegistered

LEMMA NewClientSession == SessionOK(NewClient)
BY DEF SessionOK, NewClient

\* The last statement of NICK and USER establishes the invariant.
LEMMA RegisteredFacts ==
  ASSUME NEW c \in Client, SessionOK(c)
  PROVE  SessionOK(Registered(c)) /\ Registered(c).nick = c.nick
BY DEF SessionOK, Registered, TryRegister, Client

\* A client without a change to its record of registration, who is in no more
\* channels or else is registered.
LEMMA SessionKept ==
  ASSUME NEW c \in Client, SessionOK(c), NEW D, NEW I
  PROVE  /\ SessionOK([c EXCEPT !.channels = c.channels \ D])
         /\ SessionOK([c EXCEPT !.invited = I])
         /\ c.registered => SessionOK([c EXCEPT !.channels = D])
BY DEF SessionOK, TryRegister, Client

\* One client's record is replaced.
LEMMA SessionReplaced ==
  ASSUME Consistent, SessionsOK, NEW a \in Addr, NEW r, SessionOK(r),
         obj' = [obj EXCEPT ![a] = r]
  PROVE  SessionsOK'
BY DEF SessionsOK, Consistent, ObjectsOK

\* Nicknames stay unique while no client changes its own.
LEMMA NicknamesKept ==
  ASSUME Consistent, NicknamesAreUnique, UNCHANGED clients,
         \A a \in Addr : obj'[a].nick = obj[a].nick
  PROVE  NicknamesAreUnique'
BY DEF NicknamesAreUnique, Consistent, ConnOK

LEMMA NicknamesKeptBy ==
  ASSUME Consistent, NicknamesAreUnique, UNCHANGED clients,
         NEW a \in Addr, NEW r, r.nick = obj[a].nick, obj' = [obj EXCEPT ![a] = r]
  PROVE  NicknamesAreUnique'
<1>1. \A b \in Addr : obj'[b].nick = obj[b].nick
  BY DEF Consistent, ObjectsOK
<1>2. QED
  BY <1>1, NicknamesKept

\* A departure is a replacement of the record of the client that leaves.
LEMMA RemoveKeepsRegistration ==
  ASSUME RegistrationInv, UNCHANGED clients, NEW a \in Addr,
         NEW D \in SUBSET existing, NEW heir, RemoveFromChannels(a, D, heir)
  PROVE  SessionsOK' /\ NicknamesAreUnique'
<1>1. Consistent /\ SessionsOK /\ NicknamesAreUnique /\ ObjectsOK
  BY DEF RegistrationInv, Consistent
<1>2. obj' = [obj EXCEPT ![a] = [obj[a] EXCEPT !.channels = obj[a].channels \ D]]
  BY <1>1, RemoveFacts
<1>3. obj[a] \in Client /\ SessionOK(obj[a])
  BY <1>1 DEF ObjectsOK, SessionsOK
<1>4. SessionOK([obj[a] EXCEPT !.channels = obj[a].channels \ D])
  BY <1>3, SessionKept
<1>5. [obj[a] EXCEPT !.channels = obj[a].channels \ D].nick = obj[a].nick
  BY <1>3 DEF Client
<1>6. QED
  BY <1>1, <1>2, <1>4, <1>5, SessionReplaced, NicknamesKeptBy

-----------------------------------------------------------------------------
(* The steps. *)

LEMMA DeparturesKeepRegistration ==
  ASSUME RegistrationInv, HandleQuit \/ HandlePart \/ HandleKick
  PROVE  SessionsOK' /\ NicknamesAreUnique'
<1>1. ConnOK /\ ObjectsOK
  BY DEF RegistrationInv, Consistent
<1>2. CASE HandleQuit
  <2>1. Self \in Addr /\ clients' = clients
    BY <1>1, <1>2, SelfIsLive DEF HandleQuit, Line
  <2>2. obj[Self].channels \in SUBSET existing
    BY <1>1, <2>1 DEF ObjectsOK, NoDanglingChannel
  <2>3. QED
    BY <1>2, <2>1, <2>2, RemoveKeepsRegistration DEF HandleQuit
<1>3. CASE HandlePart
  <2>1. Self \in Addr /\ clients' = clients
    BY <1>1, <1>3, SelfIsLive DEF HandlePart, Line
  <2>2. PICK D \in SUBSET existing, heir \in [ChanName -> Addr] :
          RemoveFromChannels(Self, D, heir)
    BY <1>3 DEF HandlePart
  <2>3. QED
    BY <2>1, <2>2, RemoveKeepsRegistration
<1>4. CASE HandleKick
  <2>1. clients' = clients
    BY <1>4 DEF HandleKick, Line
  <2>2. PICK c \in existing, kicked \in Addr, heir \in [ChanName -> Addr] :
          RemoveFromChannels(kicked, {c}, heir)
    BY <1>4 DEF HandleKick
  <2>3. QED
    BY <2>1, <2>2, RemoveKeepsRegistration
<1>5. QED
  BY <1>2, <1>3, <1>4

LEMMA JoinKeepsRegistration ==
  ASSUME RegistrationInv, HandleJoin
  PROVE  SessionsOK' /\ NicknamesAreUnique'
<1>1. Consistent /\ SessionsOK /\ NicknamesAreUnique /\ ConnOK /\ ObjectsOK
  BY DEF RegistrationInv, Consistent
<1>2. Self \in Addr /\ clients' = clients /\ obj[Self].registered
  BY <1>1, SelfIsLive DEF HandleJoin, Line
<1>3. PICK D : obj' = [obj EXCEPT ![Self].channels = D]
  BY DEF HandleJoin
<1>4. obj' = [obj EXCEPT ![Self] = [obj[Self] EXCEPT !.channels = D]]
  BY <1>1, <1>3 DEF ObjectsOK
<1>5. obj[Self] \in Client /\ SessionOK(obj[Self])
  BY <1>1, <1>2 DEF ObjectsOK, SessionsOK
<1>6. /\ SessionOK([obj[Self] EXCEPT !.channels = D])
      /\ [obj[Self] EXCEPT !.channels = D].nick = obj[Self].nick
  BY <1>2, <1>5, SessionKept DEF Client
<1>7. QED
  BY <1>1, <1>2, <1>4, <1>6, SessionReplaced, NicknamesKeptBy

LEMMA PassKeepsRegistration ==
  ASSUME RegistrationInv, HandlePass
  PROVE  SessionsOK' /\ NicknamesAreUnique'
<1>1. Consistent /\ SessionsOK /\ NicknamesAreUnique /\ ConnOK /\ ObjectsOK
  BY DEF RegistrationInv, Consistent
<1>2. Self \in Addr /\ clients' = clients /\ ~obj[Self].registered
  BY <1>1, SelfIsLive DEF HandlePass, Line
<1>3. PICK ok \in BOOLEAN : obj' = [obj EXCEPT ![Self].authenticated = ok]
  BY DEF HandlePass
<1>4. obj' = [obj EXCEPT ![Self] = [obj[Self] EXCEPT !.authenticated = ok]]
  BY <1>1, <1>3 DEF ObjectsOK
<1>5. obj[Self] \in Client /\ SessionOK(obj[Self])
  BY <1>1, <1>2 DEF ObjectsOK, SessionsOK
<1>6. /\ SessionOK([obj[Self] EXCEPT !.authenticated = ok])
      /\ [obj[Self] EXCEPT !.authenticated = ok].nick = obj[Self].nick
  BY <1>2, <1>5 DEF SessionOK, Client
<1>7. QED
  BY <1>1, <1>2, <1>4, <1>6, SessionReplaced, NicknamesKeptBy

LEMMA UserKeepsRegistration ==
  ASSUME RegistrationInv, HandleUser
  PROVE  SessionsOK' /\ NicknamesAreUnique'
<1>1. Consistent /\ SessionsOK /\ NicknamesAreUnique /\ ConnOK /\ ObjectsOK
  BY DEF RegistrationInv, Consistent
<1>2. Self \in Addr /\ clients' = clients
  BY <1>1, SelfIsLive DEF HandleUser, Line
<1>3. PICK ok \in BOOLEAN :
        obj' = [obj EXCEPT ![Self] = Registered([@ EXCEPT !.user = obj[Self].user \/ ok])]
  BY DEF HandleUser
<1> DEFINE c == [obj[Self] EXCEPT !.user = obj[Self].user \/ ok]
<1>4. obj' = [obj EXCEPT ![Self] = Registered(c)]
  BY <1>3
<1>5. obj[Self] \in Client /\ SessionOK(obj[Self])
  BY <1>1, <1>2 DEF ObjectsOK, SessionsOK
<1>6. c \in Client /\ SessionOK(c) /\ c.nick = obj[Self].nick
  BY <1>5 DEF SessionOK, TryRegister, Client
<1> HIDE DEF c
<1>7. SessionOK(Registered(c)) /\ Registered(c).nick = obj[Self].nick
  BY <1>6, RegisteredFacts
<1>8. QED
  BY <1>1, <1>2, <1>4, <1>7, SessionReplaced, NicknamesKeptBy

LEMMA NickKeepsRegistration ==
  ASSUME RegistrationInv, HandleNick
  PROVE  SessionsOK' /\ NicknamesAreUnique'
<1>1. Consistent /\ SessionsOK /\ NicknamesAreUnique /\ ConnOK /\ ObjectsOK
  BY DEF RegistrationInv, Consistent
<1>2. Self \in Addr /\ clients' = clients
  BY <1>1, SelfIsLive DEF HandleNick, Line
<1>3. obj[Self] \in Client /\ SessionOK(obj[Self])
  BY <1>1, <1>2 DEF ObjectsOK, SessionsOK
<1>4. CASE obj' = [obj EXCEPT ![Self] = Registered(@)]
  <2>1. obj' = [obj EXCEPT ![Self] = Registered(obj[Self])]
    BY <1>1, <1>4 DEF ObjectsOK
  <2>2. SessionOK(Registered(obj[Self])) /\ Registered(obj[Self]).nick = obj[Self].nick
    BY <1>3, RegisteredFacts
  <2>3. QED
    BY <1>1, <1>2, <2>1, <2>2, SessionReplaced, NicknamesKeptBy
<1>5. ASSUME NEW n \in Nick, ~NameTaken(n),
             obj' = [obj EXCEPT ![Self] = Registered([@ EXCEPT !.nick = n])]
      PROVE  SessionsOK' /\ NicknamesAreUnique'
  <2> DEFINE c == [obj[Self] EXCEPT !.nick = n]
  <2>1. obj' = [obj EXCEPT ![Self] = Registered(c)]
    BY <1>1, <1>5 DEF ObjectsOK
  <2>2. c \in Client /\ SessionOK(c) /\ c.nick = n
    BY <1>3, StateAssumption DEF SessionOK, TryRegister, Client
  <2> HIDE DEF c
  <2>3. SessionOK(Registered(c)) /\ Registered(c).nick = n
    BY <2>2, RegisteredFacts
  <2>4. SessionsOK'
    BY <1>1, <1>2, <2>1, <2>3, SessionReplaced
  <2>5. /\ obj'[Self].nick = n
        /\ \A b \in Addr \ {Self} : obj'[b] = obj[b]
    BY <1>1, <1>2, <2>1, <2>3 DEF ObjectsOK
  <2>6. \A f \in Fds : clients[f] # NULL => clients[f] \in Addr /\ obj[clients[f]].nick # n
    BY <1>1, <1>5 DEF NameTaken, ConnOK
  <2>7. \A f, g \in Fds : clients[f] # NULL /\ clients[f] = clients[g] => f = g
    BY <1>1 DEF ConnOK
  <2>8. NicknamesAreUnique'
    BY <1>1, <1>2, <2>5, <2>6, <2>7 DEF NicknamesAreUnique
  <2>9. QED
    BY <2>4, <2>8
<1>6. QED
  BY <1>4, <1>5 DEF HandleNick

LEMMA InviteKeepsRegistration ==
  ASSUME RegistrationInv, HandleInvite
  PROVE  SessionsOK' /\ NicknamesAreUnique'
<1>1. Consistent /\ SessionsOK /\ NicknamesAreUnique /\ ObjectsOK
  BY DEF RegistrationInv, Consistent
<1>2. PICK c \in ChanName, a \in Addr :
        obj' = [obj EXCEPT ![a].invited = @ \cup {c}]
  BY DEF HandleInvite
<1> DEFINE r == [obj[a] EXCEPT !.invited = obj[a].invited \cup {c}]
<1>3. obj' = [obj EXCEPT ![a] = r] /\ clients' = clients
  BY <1>1, <1>2 DEF ObjectsOK, HandleInvite, Line
<1>4. obj[a] \in Client /\ SessionOK(obj[a])
  BY <1>1 DEF ObjectsOK, SessionsOK
<1>5. SessionOK(r) /\ r.nick = obj[a].nick
  BY <1>4, SessionKept DEF Client
<1> HIDE DEF r
<1>6. QED
  BY <1>1, <1>3, <1>5, SessionReplaced, NicknamesKeptBy

LEMMA AcceptKeepsRegistration ==
  ASSUME RegistrationInv, Accept
  PROVE  SessionsOK' /\ NicknamesAreUnique'
<1>1. Consistent /\ SessionsOK /\ NicknamesAreUnique /\ ConnOK /\ ObjectsOK
  BY DEF RegistrationInv, Consistent
<1>2. PICK fd \in Fds, a \in Addr \ Live :
        /\ clients' = [clients EXCEPT ![fd] = a]
        /\ obj' = [obj EXCEPT ![a] = NewClient]
  BY DEF Accept
<1>3. SessionsOK'
  BY <1>1, <1>2, NewClientSession, SessionReplaced
<1>4. /\ obj'[a].nick = Empty
      /\ \A b \in Addr \ {a} : obj'[b] = obj[b]
  BY <1>1, <1>2 DEF ObjectsOK, NewClient
<1>5. /\ clients'[fd] = a
      /\ \A g \in Fds \ {fd} : clients'[g] = clients[g] /\ clients[g] # a
  BY <1>1, <1>2, StateAssumption DEF ConnOK, Live
<1>6. \A g \in Fds : clients[g] # NULL => clients[g] \in Addr
  BY <1>1 DEF ConnOK
<1>7. NicknamesAreUnique'
  BY <1>1, <1>4, <1>5, <1>6 DEF NicknamesAreUnique
<1>8. QED
  BY <1>3, <1>7

LEMMA RemovalKeepsRegistration ==
  ASSUME RegistrationInv, RemoveSingleClient
  PROVE  SessionsOK' /\ NicknamesAreUnique'
<1> DEFINE fd == Last(marked)
<1>1. Consistent /\ SessionsOK /\ NicknamesAreUnique /\ ConnOK /\ ObjectsOK
  BY DEF RegistrationInv, Consistent
<1>2. fd \in Fds
  BY <1>1, FrontProperties DEF RemoveSingleClient, Running, ConnOK
<1> HIDE DEF fd
<1>3. CASE clients[fd] = NULL
  BY <1>1, <1>3 DEF RemoveSingleClient, connVars, SessionsOK, NicknamesAreUnique, fd
<1>4. CASE clients[fd] # NULL
  <2>1. /\ obj' = [obj EXCEPT ![clients[fd]] = NewClient]
        /\ clients' = [clients EXCEPT ![fd] = NULL]
    BY <1>4 DEF RemoveSingleClient, fd
  <2>2. clients[fd] \in Addr
    BY <1>1, <1>2, <1>4 DEF ConnOK
  <2>3. SessionsOK'
    BY <1>1, <2>1, <2>2, NewClientSession, SessionReplaced
  <2>4. \A g \in Fds : clients[g] # NULL => clients[g] \in Addr
    BY <1>1 DEF ConnOK
  <2>5. \A g \in Fds \ {fd} : /\ clients'[g] = clients[g]
                              /\ clients[g] # NULL => clients[g] # clients[fd]
    BY <1>1, <1>2, <1>4, <2>1 DEF ConnOK
  <2>6. clients'[fd] = NULL
    BY <1>1, <1>2, <2>1 DEF ConnOK
  <2>7. \A g \in Fds \ {fd} : clients[g] # NULL => obj'[clients[g]] = obj[clients[g]]
    BY <1>1, <2>1, <2>4, <2>5 DEF ObjectsOK
  <2>8. NicknamesAreUnique'
    BY <1>1, <2>5, <2>6, <2>7 DEF NicknamesAreUnique
  <2>9. QED
    BY <2>3, <2>8
<1>5. QED
  BY <1>3, <1>4

\* All other steps leave the clients and their records alone, or stop the server.
LEMMA OthersKeepRegistration ==
  ASSUME RegistrationInv,
         \/ UNCHANGED <<clients, obj>>
         \/ Shutdown
  PROVE  SessionsOK' /\ NicknamesAreUnique'
<1>1. CASE UNCHANGED <<clients, obj>>
  BY <1>1 DEF RegistrationInv, SessionsOK, NicknamesAreUnique
<1>2. CASE Shutdown
  BY <1>2, NewClientSession DEF Shutdown, SessionsOK, NicknamesAreUnique
<1>3. QED
  BY <1>1, <1>2

LEMMA NextKeepsRegistration == RegistrationInv /\ [Next]_vars => RegistrationInv'
<1> SUFFICES ASSUME RegistrationInv, [Next]_vars PROVE RegistrationInv'
  OBVIOUS
<1>1. Consistent'
  BY NextKeepsConsistent DEF RegistrationInv
<1>2. CASE Handle
  <2>1. CASE \/ HandleTopic \/ HandleMode \/ HandleMessage \/ HandleNames \/ ReplyOnly
    <3>1. UNCHANGED <<clients, obj>>
      BY <2>1 DEF HandleTopic, HandleMode, HandleMessage, HandleNames, ReplyOnly, Line
    <3>2. QED
      BY <1>1, <3>1, OthersKeepRegistration DEF RegistrationInv
  <2>2. QED
    BY <1>1, <1>2, <2>1, DeparturesKeepRegistration, JoinKeepsRegistration,
       PassKeepsRegistration, UserKeepsRegistration, NickKeepsRegistration,
       InviteKeepsRegistration DEF Handle, RegistrationInv
<1>3. CASE \/ ModeStep \/ NextEntry \/ ReadEof \/ ReadReset \/ Overrun \/ SendFails
           \/ EndOfLoop \/ UNCHANGED vars
  <2>1. UNCHANGED <<clients, obj>>
    BY <1>3 DEF ModeStep, ModeFlag, ModeKey, ModeLimit, ModeOperator, ModeRefused,
       NextMode, NextEntry, ReadEof, ReadReset, Overrun, SendFails, EndOfLoop, connVars, vars
  <2>2. QED
    BY <1>1, <2>1, OthersKeepRegistration DEF RegistrationInv
<1>4. CASE Accept \/ RemoveSingleClient \/ Shutdown
  BY <1>1, <1>4, AcceptKeepsRegistration, RemovalKeepsRegistration,
     OthersKeepRegistration DEF RegistrationInv
<1>5. QED
  BY <1>2, <1>3, <1>4 DEF Next, Terminated

LEMMA InitRegistration == Init => RegistrationInv
<1> SUFFICES ASSUME Init PROVE RegistrationInv
  OBVIOUS
<1>1. SessionsOK
  BY NewClientSession DEF Init, SessionsOK
<1>2. NicknamesAreUnique
  BY DEF Init, NicknamesAreUnique
<1>3. QED
  BY <1>1, <1>2, InitConsistent DEF RegistrationInv

LEMMA RegistrationInvariant == Spec => []RegistrationInv
BY InitRegistration, NextKeepsRegistration, PTL DEF Spec

\* Only JOIN lets anybody into a channel, and only a client that has given the
\* password, a nickname and a user name, whatever the connections do.
THEOREM OnlyRegisteredClientsEnter == Spec => EntrantsHaveRegistered
<1> DEFINE A == \A c \in ChanName, a \in Addr :
                  a \in channels'[c].users \ channels[c].users => HasRegistered(obj[a])
<1>1. ASSUME RegistrationInv, [Next]_vars
      PROVE  A
  <2>1. Consistent /\ SessionsOK /\ ObjectsOK
    BY <1>1 DEF RegistrationInv, Consistent
  <2>2. SUFFICES ASSUME NEW c \in ChanName, NEW a \in Addr,
                        a \in channels'[c].users, a \notin channels[c].users
                 PROVE  HasRegistered(obj[a])
    OBVIOUS
  <2>3. CASE CalmStep
    BY <2>1, <2>2, <2>3, CalmSteps DEF Calm
  <2>4. CASE HandleQuit \/ HandlePart \/ HandleKick
    BY <2>1, <2>2, <2>4, DepartureFacts, NewFacts
  <2>5. CASE HandleJoin
    <3>1. a = Self
      BY <2>1, <2>2, <2>5, JoinFacts
    <3>2. SessionOK(obj[a]) /\ obj[a].registered
      BY <2>1, <2>5, <3>1 DEF SessionsOK, HandleJoin
    <3>3. QED
      BY <3>2, RegisteredHasRegistered
  <2>6. CASE Accept \/ RemoveSingleClient
    BY <2>2, <2>6 DEF Accept, RemoveSingleClient, chanVars
  <2>7. CASE Shutdown
    BY <2>2, <2>7, NewFacts DEF Shutdown
  <2>8. QED
    BY <1>1, <2>3, <2>4, <2>5, <2>6, <2>7, KindsOfSteps
<1>2. RegistrationInv /\ [Next]_vars => [A]_vars
  BY <1>1
<1> HIDE DEF A
<1>3. Spec => [][A]_vars
  BY <1>2, RegistrationInvariant, PTL DEF Spec
<1>4. QED
  BY <1>3 DEF EntrantsHaveRegistered, A

\* When every session ends with a QUIT that nothing follows, the addresses in
\* Channel::_users are those of clients that have given the password, a nickname and a
\* user name, and keep all three.
THEOREM RegistrationIsNotBypassed ==
  SessionsEndWithQuit => (Spec => []ChannelUsersHaveRegistered)
<1> SUFFICES ASSUME SessionsEndWithQuit PROVE Spec => []ChannelUsersHaveRegistered
  OBVIOUS
<1>1. RegistrationInv /\ UsersAreTheJoinedClients => ChannelUsersHaveRegistered
  <2> SUFFICES ASSUME RegistrationInv, UsersAreTheJoinedClients,
                      NEW c \in existing, NEW a \in channels[c].users
               PROVE  HasRegistered(obj[a])
    BY DEF ChannelUsersHaveRegistered
  <2>1. a \in Live /\ c \in obj[a].channels
    BY DEF UsersAreTheJoinedClients
  <2>2. a \in Addr
    BY <2>1 DEF RegistrationInv, Consistent, ConnOK, Live
  <2>3. SessionOK(obj[a]) /\ obj[a].registered
    BY <2>1, <2>2 DEF RegistrationInv, SessionsOK, SessionOK
  <2>4. QED
    BY <2>3, RegisteredHasRegistered
<1>2. QED
  BY <1>1, RegistrationInvariant, MembershipIsMutual, PTL

\* No two connected clients bear the same nickname.
THEOREM UniqueNicknames == Spec => []NicknamesAreUnique
<1>1. RegistrationInv => NicknamesAreUnique
  BY DEF RegistrationInv
<1>2. QED
  BY <1>1, RegistrationInvariant, PTL

=============================================================================
