---------------------------- MODULE Registration ----------------------------
(***************************************************************************)
(* Connection registration and the end of a session: the handlers of PASS, *)
(* NICK, USER and QUIT (classes/CommandHandler.cpp), one action each.      *)
(***************************************************************************)
EXTENDS IrcState

\* Mutant: the server welcomes a client that never sent its password.
TryRegisterWithoutPass(c) == c.nick # Empty /\ c.user

\* _tryRegister
TryRegister(c) == c.authenticated /\ c.nick # Empty /\ c.user

\* The last statement of NICK and USER, reached on their error paths as well.
Registered(c) == [c EXCEPT !.registered = @ \/ TryRegister(c)]

\* Mutant: only registered clients are asked for their nickname.
NameTakenByRegistered(n) ==
  \E fd \in Fds : /\ clients[fd] # NULL
                  /\ obj[clients[fd]].nick = n
                  /\ obj[clients[fd]].registered

\* _isNameDublicate with _compareNick, which is case sensitive.
NameTaken(n) ==
  \E fd \in Fds : clients[fd] # NULL /\ obj[clients[fd]].nick = n

\* PASS with a parameter; ok tells whether it equals the server's password.
HandlePass ==
  /\ Line("PASS")
  /\ ~obj[Self].registered
  /\ \E ok \in BOOLEAN : obj' = [obj EXCEPT ![Self].authenticated = ok]
  /\ UNCHANGED <<status, marked, errno, chanVars, modeVars>>

\* NICK: the nickname is refused (431, 432, 433), or set, after the client's
\* channels have been told when this replaces an earlier nickname.
HandleNick ==
  /\ Line("NICK")
  /\ \/ /\ obj' = [obj EXCEPT ![Self] = Registered(@)]
        /\ UNCHANGED status
     \/ \E n \in Nick :
          /\ ~NameTaken(n)
          /\ Deref(IF obj[Self].nick # Empty THEN CoMembers \ {Self} ELSE {})
          /\ obj' = [obj EXCEPT ![Self] = Registered([@ EXCEPT !.nick = n])]
  /\ UNCHANGED <<marked, errno, chanVars, modeVars>>

\* USER before registration; ok tells whether its parameters were complete.
HandleUser ==
  /\ Line("USER")
  /\ ~obj[Self].registered
  /\ \E ok \in BOOLEAN :
       obj' = [obj EXCEPT ![Self] =
                 Registered([@ EXCEPT !.user = obj[Self].user \/ ok])]
  /\ UNCHANGED <<status, marked, errno, chanVars, modeVars>>

-----------------------------------------------------------------------------

\* Mutant: the channel forgets the client, the client keeps its Channel*.
ForgetNothing(c, D) == c

\* leaveChannel for every channel of D.
ForgetChannels(c, D) == [c EXCEPT !.channels = @ \ D]

\* Mutant: channels are never removed.
EmptiedNever(a, D) == {}

\* The channels of D that lose their last user with a, and so are deleted.
Emptied(a, D) == {c \in D : channels[c].users \subseteq {a}}

\* The promotion comes before the test for an empty channel, so the last departure
\* reads *begin() of an empty set, which is undefined.  Where the process survives it,
\* some pointer is stored in a channel that the next statement deletes.
ReadsEmptyBegin(a, D) == "emptyBegin" \in Hazards /\ Emptied(a, D) # {}

\* _removeClientFromChannel(a, c) for every c in D.  The code visits the
\* channels one after the other; they do not influence each other.
RemoveFromChannels(a, D, heir) ==
  /\ \A c \in D : channels[c].users \subseteq {a} \/ heir[c] \in channels[c].users \ {a}
  /\ channels' = [c \in ChanName |->
       IF c \in Emptied(a, D) THEN NewChannel
       ELSE IF c \in D THEN AfterLeave(channels[c], a, heir[c])
       ELSE channels[c]]
  /\ existing' = existing \ Emptied(a, D)
  /\ obj' = [obj EXCEPT ![a] = ForgetChannels(@, D)]

\* Mutant: the handler and the loop both mark the client.
MarkTwice(fd) ==
  /\ Len(marked) + 1 < MaxMarks
  /\ marked' = marked \o <<fd, fd>>

\* markClientToDisconnect, bounded by MaxMarks.
Mark(fd) ==
  /\ Len(marked) < MaxMarks
  /\ marked' = Append(marked, fd)

\* QUIT: tell the channels, leave them, wait to be disconnected.
HandleQuit ==
  /\ Line("QUIT")
  /\ MayDie(Dangling(CoMembers \ {Self}) \/ ReadsEmptyBegin(Self, obj[Self].channels))
  /\ \E heir \in [ChanName -> Addr] :
       RemoveFromChannels(Self, obj[Self].channels, heir)
  /\ Mark(SelfFd)
  /\ UNCHANGED <<errno, modeVars>>

=============================================================================
