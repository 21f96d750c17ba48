-------------------------- MODULE ChannelCommands ---------------------------
(***************************************************************************)
(* The handlers of the commands that work on channels: JOIN, PART, KICK,   *)
(* INVITE, TOPIC, MODE, and of those that only read a channel to write to  *)
(* its users, PRIVMSG, NOTICE and NAMES (classes/CommandHandler.cpp).      *)
(***************************************************************************)
EXTENDS Registration

ListsOf(S) == UNION {[1 .. n -> S] : n \in 1 .. MaxTargets}

\* ERR_INVITEONLYCHAN
Uninvited(ch, c) == ch.mode_i /\ c \notin obj[Self].invited

\* The i-th name of a JOIN is let in; an invalid name, standing in the list as
\* Empty, never is.  keys is what the loop reads, one Empty per name if the line
\* has no key parameter.
Admitted(i, chs, keys) ==
  LET c == chs[i] IN
  /\ c # Empty
  /\ \/ c \notin existing
     \/ /\ c \notin obj[Self].channels
        /\ ~Uninvited(channels[c], c)
        /\ ~BadKey(channels[c], i, chs, keys)
        /\ ~LimitReached(channels[c])

\* The channels the line lets Self into.
Entered(chs, keys) ==
  {c \in ChanName : \E i \in DOMAIN chs : chs[i] = c /\ Admitted(i, chs, keys)}

\* JOIN.  The names of one line are handled in turn, each looking at its own
\* channel only, so the line admits Self to those some position admits.
HandleJoin ==
  /\ Line("JOIN")
  /\ obj[Self].registered
  /\ \E chs \in ListsOf(ChanName \cup {Empty}) :
     \E keys \in ListsOf(Key \cup {Empty}) \cup {[i \in DOMAIN chs |-> Empty]} :
       LET entered == Entered(chs, keys)
       IN /\ channels' = [c \in ChanName |->
               IF c \in entered THEN Joined(channels[c], Self, c \notin existing)
               ELSE channels[c]]
          /\ existing' = existing \cup entered
          /\ obj' = [obj EXCEPT ![Self].channels = @ \cup entered]
          /\ Deref(UNION {channels[c].users : c \in entered})
  /\ UNCHANGED <<marked, errno, modeVars>>

\* PART: Self leaves those of the named channels that list it, having told
\* their users.
HandlePart ==
  /\ Line("PART")
  /\ \E D \in SUBSET {c \in existing : Self \in channels[c].users} :
       /\ MayDie(Dangling(UNION {channels[c].users : c \in D}) \/ ReadsEmptyBegin(Self, D))
       /\ \E heir \in [ChanName -> Addr] : RemoveFromChannels(Self, D, heir)
  /\ UNCHANGED <<marked, errno, modeVars>>

\* KICK
HandleKick ==
  /\ Line("KICK")
  /\ \E c \in existing, n \in Nick, kicked \in Addr :
       /\ Self \in channels[c].users
       /\ Self \in channels[c].operators
       /\ GetClient(n, kicked)
       /\ kicked \in channels[c].users
       /\ MayDie(Dangling(channels[c].users) \/ ReadsEmptyBegin(kicked, {c}))
       /\ \E heir \in [ChanName -> Addr] : RemoveFromChannels(kicked, {c}, heir)
  /\ UNCHANGED <<marked, errno, modeVars>>

\* INVITE.  When no channel has the name, the handler still calls
\* channel->getName() on the null pointer, after recording the invitation.
HandleInvite ==
  /\ Line("INVITE")
  /\ \E c \in ChanName, n \in Nick, invited \in Addr :
       /\ GetClient(n, invited)
       /\ obj' = [obj EXCEPT ![invited].invited = @ \cup {c}]
       /\ \/ /\ c \in existing
             /\ Self \in channels[c].users
             /\ channels[c].mode_i => Self \in channels[c].operators
             /\ invited \notin channels[c].users
             /\ UNCHANGED status
          \/ /\ c \notin existing
             /\ "inviteUnknown" \in Hazards
             /\ status' = "crashed"
  /\ UNCHANGED <<marked, errno, chanVars, modeVars>>

\* TOPIC with a topic.  Membership is read from the client's side here.
HandleTopic ==
  /\ Line("TOPIC")
  /\ \E c \in existing \cap obj[Self].channels :
       /\ channels[c].mode_t => Self \in channels[c].operators
       /\ Deref(channels[c].users)
       /\ channels' = [channels EXCEPT ![c] = WithTopic(@)]
  /\ UNCHANGED <<obj, existing, marked, errno, modeVars>>

\* PRIVMSG and NOTICE to a channel reach every user but the sender.
HandleMessage ==
  /\ Line("PRIVMSG")
  /\ \E c \in existing :
       /\ Self \in channels[c].users
       /\ Deref(channels[c].users \ {Self})
  /\ UNCHANGED <<obj, marked, errno, chanVars, modeVars>>

\* NAMES reads the nickname of every user of the channels named.
HandleNames ==
  /\ Line("NAMES")
  /\ \E D \in SUBSET existing : Deref(UNION {channels[c].users : c \in D})
  /\ UNCHANGED <<obj, marked, errno, chanVars, modeVars>>

-----------------------------------------------------------------------------
(* MODE.  The operator check is made once for the line; the loop over the    *)
(* vector of mode changes is one ModeStep per element, and nothing else runs *)
(* in between.                                                               *)

ModeLists ==
  UNION {[1 .. n -> {m \in ModeChange : m.mode \in ModeChars}] : n \in 1 .. MaxModes}

HandleMode ==
  /\ Line("MODE")
  /\ \E c \in existing \cap obj[Self].channels :
       /\ Self \in channels[c].operators
       /\ modeChan' = c
  /\ modes' \in ModeLists
  /\ UNCHANGED <<status, obj, marked, errno, chanVars>>

\* One iteration of the loop ends.
NextMode ==
  /\ status = "running"
  /\ modes # <<>>
  /\ modes' = Tail(modes)
  /\ modeChan' = IF Tail(modes) = <<>> THEN Empty ELSE modeChan
  /\ UNCHANGED <<connVars, marked, cur, stage, obj, existing>>

\* The channel of the line changes to ch, and its users are told.
ModeApplied(ch) ==
  /\ channels' = [channels EXCEPT ![modeChan] = ch]
  /\ Deref(channels[modeChan].users)

\* _modeInvite, _modeTopic
ModeFlag ==
  LET m == Head(modes) IN
  /\ NextMode
  /\ \/ m.mode = "i" /\ ModeApplied([channels[modeChan] EXCEPT !.mode_i = m.plus])
     \/ m.mode = "t" /\ ModeApplied([channels[modeChan] EXCEPT !.mode_t = m.plus])
  /\ UNCHANGED errno

\* _modeKey: +k does not replace a key that is set.
ModeKey ==
  LET m == Head(modes) IN
  /\ NextMode
  /\ m.mode = "k"
  /\ m.plus => channels[modeChan].key = Empty
  /\ ModeApplied([channels[modeChan] EXCEPT !.key = m.arg])
  /\ UNCHANGED errno

\* _modeLimit
ModeLimit ==
  LET m == Head(modes)
      err == IF m.plus /\ m.arg > UlongMax THEN "ERANGE" ELSE errno IN
  /\ NextMode
  /\ m.mode = "l"
  /\ errno' = err
  /\ \/ ~m.plus /\ ModeApplied([channels[modeChan] EXCEPT !.limit = 0])
     \/ /\ m.plus
        /\ ~LimitRefused(m.arg, err)
        /\ ModeApplied([channels[modeChan] EXCEPT !.limit = m.arg])
     \/ /\ m.plus
        /\ LimitRefused(m.arg, err)
        /\ UNCHANGED <<status, channels>>

\* Mutant: operator rank is given to any client of the server.
MayBecomeOperatorAnyone(ch, a) == TRUE

\* ERR_USERNOTINCHANNEL otherwise
MayBecomeOperator(ch, a) == a \in ch.users

\* _modeOperator.  Nobody is promoted when -o removes the last operator.
ModeOperator ==
  LET m == Head(modes) IN
  /\ NextMode
  /\ m.mode = "o"
  /\ \E a \in Addr :
       /\ GetClient(m.arg, a)
       /\ MayBecomeOperator(channels[modeChan], a)
       /\ ModeApplied([channels[modeChan] EXCEPT
            !.operators = IF m.plus THEN @ \cup {a} ELSE @ \ {a}])
  /\ UNCHANGED errno

\* The changes that only draw a reply: an unknown mode or a missing argument, +k
\* over a key, +o or -o for somebody who is not on the channel.
ModeRefused ==
  LET m == Head(modes) IN
  /\ NextMode
  /\ \/ m.mode = "?"
     \/ m.mode = "k" /\ m.plus /\ channels[modeChan].key # Empty
     \/ /\ m.mode = "o"
        /\ ~\E a \in Addr : /\ GetClient(m.arg, a)
                            /\ MayBecomeOperator(channels[modeChan], a)
  /\ UNCHANGED <<status, channels, errno>>

ModeStep == ModeFlag \/ ModeKey \/ ModeLimit \/ ModeOperator \/ ModeRefused

=============================================================================
