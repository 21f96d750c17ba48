----------------------------- MODULE IrcServer ------------------------------
(***************************************************************************)
(* The whole server: Server::pollLoop (classes/Server.cpp) and the command *)
(* handlers it calls.  One thread serves the polled descriptors in turn;   *)
(* an iteration ends with the removal of the clients marked during it.     *)
(***************************************************************************)
EXTENDS ChannelCommands

Init ==
  /\ status = "running"
  /\ clients = [fd \in Fds |-> NULL]
  /\ pollfds = <<>>
  /\ marked = <<>>
  /\ cur = 0
  /\ stage = "ready"
  /\ obj = [a \in Addr |-> NewClient]
  /\ existing = {}
  /\ channels = [c \in ChanName |-> NewChannel]
  /\ modes = <<>>
  /\ modeChan = Empty
  /\ errno = "other"

Running == status = "running" /\ modes = <<>>

-----------------------------------------------------------------------------
(* The loop over _pollfds. *)

\* accept() returns the lowest descriptor that is not open.
LowestFree(fd) ==
  fd \notin ToSet(pollfds) /\ \A g \in Fds : g < fd => g \in ToSet(pollfds)

\* _accept_new_client.  The listening socket comes first in _pollfds and the new
\* entry, its revents 0, is not served before the next poll(): an iteration that
\* accepts and then serves is one that accepts, followed by one that serves.
Accept ==
  /\ Running /\ cur = 0 /\ stage = "ready"
  /\ \E fd \in Fds, a \in Addr \ Live :
       /\ LowestFree(fd)
       /\ pollfds' = Append(pollfds, fd)
       /\ clients' = [clients EXCEPT ![fd] = a]
       /\ obj' = [obj EXCEPT ![a] = NewClient]
  /\ UNCHANGED <<status, marked, cur, stage, errno, chanVars, modeVars>>

\* The loop goes on to the next descriptor that poll() reported.
NextEntry ==
  /\ Running /\ stage # "disconnect"
  /\ cur' \in cur + 1 .. Len(pollfds)
  /\ stage' = "ready"
  /\ UNCHANGED <<status, connVars, marked, obj, errno, chanVars, modeVars>>

\* A line that only draws replies to its sender: an unknown command, PING, PONG,
\* CAP, a message to a nickname, and every refusal of the other handlers that
\* changes nothing.
ReplyOnly ==
  /\ Line("OTHER")
  /\ UNCHANGED <<status, marked, obj, errno, chanVars, modeVars>>

\* recv() returns 0: errno keeps what an earlier call left there, and EAGAIN
\* makes the server take the end of the stream for an empty read.
ReadEof ==
  /\ Running /\ cur > 0 /\ stage = "ready" /\ "eof" \in Hazards
  /\ IF errno = "EAGAIN" THEN UNCHANGED marked ELSE Mark(SelfFd)
  /\ stage' = "done"
  /\ UNCHANGED <<status, connVars, cur, obj, errno, chanVars, modeVars>>

\* recv() returns -1.
ReadReset ==
  /\ Running /\ cur > 0 /\ stage = "ready" /\ "reset" \in Hazards
  /\ Mark(SelfFd)
  /\ errno' = "other"
  /\ stage' = "done"
  /\ UNCHANGED <<status, connVars, cur, obj, chanVars, modeVars>>

\* The receive buffer would exceed MAX_RECV_BUF, or a line is too long.
Overrun ==
  /\ Running /\ cur > 0 /\ stage \in {"ready", "lines"} /\ "overrun" \in Hazards
  /\ Mark(SelfFd)
  /\ stage' = "done"
  /\ UNCHANGED <<status, connVars, cur, obj, errno, chanVars, modeVars>>

\* _sendMsgBuf, when send() fails; a successful send changes nothing kept here.
SendFails ==
  /\ Running /\ cur > 0 /\ stage \in {"ready", "lines", "done"}
  /\ \/ "sendfail" \in Hazards /\ Mark(SelfFd) /\ errno' = "other"
     \/ "sendblock" \in Hazards /\ UNCHANGED marked /\ errno' = "EAGAIN"
  /\ stage' = "sent"
  /\ UNCHANGED <<status, connVars, cur, obj, chanVars, modeVars>>

-----------------------------------------------------------------------------
(* The end of an iteration: _disconnect_clients. *)

\* Mutant: marked clients are removed while the loop is still at its entry.
EndOfLoopEarly ==
  /\ Running /\ cur > 0 /\ stage # "disconnect"
  /\ stage' = IF marked = <<>> THEN "ready" ELSE "disconnect"
  /\ UNCHANGED <<status, connVars, marked, cur, obj, errno, chanVars, modeVars>>

EndOfLoop ==
  /\ Running /\ cur > 0 /\ stage # "disconnect"
  /\ cur' = 0
  /\ stage' = IF marked = <<>> THEN "ready" ELSE "disconnect"
  /\ UNCHANGED <<status, connVars, marked, obj, errno, chanVars, modeVars>>

\* Mutant: the wrong pollfd is erased.
PollfdsWithoutLast(fd) == RemoveAt(pollfds, Len(pollfds))

\* _pollfds after erasing the first entry for fd.
PollfdsWithout(fd) ==
  RemoveAt(pollfds, CHOOSE i \in DOMAIN pollfds : pollfds[i] = fd)

\* _remove_single_client: the Client is deleted, its channels are not told.
\* When the descriptor is not a key of Clients any more, the code deletes through
\* and erases end(), which the allocator answers by aborting the process.
RemoveSingleClient ==
  LET fd == Last(marked) IN
  /\ Running /\ stage = "disconnect"
  /\ marked' = Front(marked)
  /\ stage' = IF Len(marked) = 1 THEN "ready" ELSE "disconnect"
  /\ \/ /\ clients[fd] # NULL
        /\ obj' = [obj EXCEPT ![clients[fd]] = NewClient]
        /\ clients' = [clients EXCEPT ![fd] = NULL]
        /\ pollfds' = PollfdsWithout(fd)
        /\ UNCHANGED status
     \/ /\ clients[fd] = NULL
        /\ status' = "crashed"
        /\ UNCHANGED <<obj, connVars>>
  /\ UNCHANGED <<cur, errno, chanVars, modeVars>>

\* A signal, or an exception of the loop (a failing accept), ends in shutdown():
\* channels first, then clients, then every descriptor; _pollfds keeps its entries.
Shutdown ==
  /\ Running /\ cur = 0 /\ stage = "ready"
  /\ status' = "stopped"
  /\ existing' = {}
  /\ channels' = [c \in ChanName |-> NewChannel]
  /\ obj' = [a \in Addr |-> NewClient]
  /\ clients' = [fd \in Fds |-> NULL]
  /\ UNCHANGED <<pollfds, marked, cur, stage, errno, modeVars>>

\* The process has ended.
Terminated == status # "running" /\ UNCHANGED vars

Handle ==
  \/ HandlePass \/ HandleNick \/ HandleUser \/ HandleQuit
  \/ HandleJoin \/ HandlePart \/ HandleKick \/ HandleInvite \/ HandleTopic
  \/ HandleMode \/ HandleMessage \/ HandleNames \/ ReplyOnly

Next ==
  \/ Accept \/ NextEntry \/ Handle \/ ModeStep
  \/ ReadEof \/ ReadReset \/ Overrun \/ SendFails
  \/ EndOfLoop \/ RemoveSingleClient \/ Shutdown \/ Terminated

Spec == Init /\ [][Next]_vars

-----------------------------------------------------------------------------
(* Safety, whatever the connections do. *)

\* Every Channel* a client keeps points to an existing channel that lists the
\* client: hasChannel() and the loops of QUIT and NICK over Client::_channels
\* never meet a deleted Channel.
NoDanglingChannel ==
  \A a \in Addr : \A c \in obj[a].channels :
    c \in existing /\ a \in channels[c].users

\* The operators of a channel are among its users, however many joins, kicks,
\* MODE lines and promotions came before.
OperatorsAreUsers ==
  \A c \in existing : channels[c].operators \subseteq channels[c].users

\* A channel that exists has users; _removeClientFromChannel deletes it with the
\* last one (compare the comment on createChannel in Server.hpp).
ChannelsAreInhabited ==
  \A c \in existing : channels[c].users # {}

\* A client the server has welcomed, that holds what it was welcomed for.
HasRegistered(c) == c.registered /\ c.authenticated /\ c.nick # Empty /\ c.user

\* Whoever enters a channel has given the password, a nickname and a user name, in
\* whatever order and with whatever repetitions, and none of the three was taken
\* back.  This is about entering only: a Client created at the address of one that
\* was deleted without leaving (end of stream, reset) inherits its place in
\* Channel::_users, registered or not.
EntrantsHaveRegistered ==
  [][\A c \in ChanName, a \in Addr :
       a \in channels'[c].users \ channels[c].users => HasRegistered(obj[a])]_vars

\* No two connected clients bear the same nickname (NICK refuses one in use).
NicknamesAreUnique ==
  \A f, g \in Fds :
    /\ f # g
    /\ clients[f] # NULL /\ clients[g] # NULL
    /\ obj[clients[f]].nick # Empty
    => obj[clients[f]].nick # obj[clients[g]].nick

\* Clients and _pollfds hold the same descriptors, each once: the unbounded
\* search of replyToClient for the entry of a connected client ends.
PollfdsMatchClients ==
  status = "running" =>
  /\ \A fd \in Fds : clients[fd] # NULL <=> fd \in ToSet(pollfds)
  /\ IsInjective(pollfds)

\* A JOIN lets nobody into a channel that is full, nor into an invite-only
\* channel without an invitation, whatever the other names on its line are.
JoinHonoursLimitAndInvite ==
  [][\A c \in existing, a \in Addr :
       a \in channels'[c].users \ channels[c].users =>
         /\ channels[c].limit > 0 => Cardinality(channels'[c].users) <= channels[c].limit
         /\ channels[c].mode_i => c \in obj[a].invited]_vars

\* A channel that survives somebody's departure has an operator.
DepartureLeavesAnOperator ==
  [][\A c \in existing \cap existing' :
       channels[c].users \ channels'[c].users # {} => channels'[c].operators # {}]_vars

\* Where the loop stands: clients are removed between two iterations only, and
\* the channel a MODE line works on exists until the line is done.
LoopPosition ==
  status = "running" =>
  /\ stage = "disconnect" => cur = 0 /\ marked # <<>>
  /\ modes # <<>> => modeChan \in existing

\* Two descriptors never share a Client object; an address without Client and a
\* name without channel carry no leftovers.
HeapOK ==
  /\ \A f, g \in Fds : clients[f] # NULL /\ clients[f] = clients[g] => f = g
  /\ \A a \in Addr \ Live : obj[a] = NewClient
  /\ \A c \in ChanName \ existing : channels[c] = NewChannel

\* The inductive invariant: NoDanglingChannel is preserved by a departure only
\* because emptied channels are deleted and all others keep their other users,
\* by an arrival only because a fresh Client starts without channels, and by the
\* whole loop only because the client served is a live one.
IndInv ==
  /\ TypeOK
  /\ PollfdsMatchClients
  /\ LoopPosition
  /\ HeapOK
  /\ NoDanglingChannel
  /\ OperatorsAreUsers
  /\ ChannelsAreInhabited

-----------------------------------------------------------------------------
(* Safety while every connection ends with a QUIT that nothing follows.       *)

\* The hazards left then: a send may find the kernel's buffer full, INVITE may name a
\* channel that does not exist, and *begin() of an empty set may be fatal.
SessionsEndWithQuit == Hazards \subseteq {"sendblock", "inviteUnknown", "emptyBegin"}

\* A channel lists exactly the connected clients that joined it and have not
\* left: the two directions of the membership relation agree, and a broadcast
\* meets no deleted Client.
UsersAreTheJoinedClients ==
  \A c \in existing : channels[c].users = {a \in Live : c \in obj[a].channels}

\* Every address in Channel::_users is that of a client that registered: KICK,
\* INVITE, PART, PRIVMSG and MODE ask for membership only and thereby for
\* registration.
ChannelUsersHaveRegistered ==
  \A c \in existing : \A a \in channels[c].users : HasRegistered(obj[a])

\* The two undefined steps that one line of one client reaches: *begin() of the empty
\* set of users, read in every departure that deletes a channel, and the null
\* Channel* of an INVITE to a name without channel.
KnownUndefinedStep ==
  \/ \E c \in existing : c \notin existing'
  \/ HandleInvite

\* The process dies of these two only: however sessions that end with QUIT are
\* interleaved, no deleted Client is followed and no client is removed twice.
DiesOfKnownStepsOnly == [][status' = "crashed" => KnownUndefinedStep]_vars

\* What a user sees of the channels: who is connected, and each channel's users
\* and operators.
Promise == INSTANCE IrcChannels WITH
  User <- Addr,
  connected <- Live,
  members <- [c \in ChanName |-> channels[c].users],
  ops <- [c \in ChanName |-> channels[c].operators]

\* The server, with its loop, its pointers kept on both sides of the membership
\* relation and its deferred disconnects, behaves as IrcChannels: sessions end
\* outside every channel, only who creates a channel enters it as operator, rank is
\* held by users only, and no departure leaves a channel without operator.
ChannelsBehaveAsPromised == Promise!Spec

-----------------------------------------------------------------------------
(* What the comments of the source say and the code does not do. *)

\* "the channel ceases to exist when the last client leaves it" (Server.hpp): some
\* connected client has joined each channel.
ChannelCeasesWithLastClient ==
  \A c \in existing : \E a \in Live : c \in obj[a].channels

\* "A client session is ended with a quit message" (comment on QUIT) and
\* _disconnect_clients is for "removing all clients&sockets that had errors or
\* dsconnected": the removal ends sessions, not the server.
RemovalKeepsServing ==
  [][stage = "disconnect" => status' = "running"]_vars

\* "Must be a valid positive number" (the text of reply 696): a MODE +l whose
\* argument is one sets the limit.
ValidLimitIsSet ==
  [][\A n \in 1 .. UintMax :
       /\ modes # <<>> /\ modes' = Tail(modes)
       /\ Head(modes) = [mode |-> "l", plus |-> TRUE, arg |-> n]
       => channels'[modeChan].limit = n]_vars

=============================================================================
