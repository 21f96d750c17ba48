------------------------------ MODULE IrcState ------------------------------
(***************************************************************************)
(* The state of the server process (class Server with the Client and       *)
(* Channel objects it owns) and the lookups every command handler shares.  *)
(***************************************************************************)
EXTENDS ChannelState, SequencesExt

CONSTANTS
  NULL,       \* the null pointer
  Fds,        \* descriptors accept() can return
  Nick,       \* nicknames _checkNickChars accepts
  Lower,      \* Lower[n]: the nickname n after ::tolower
  ChanName,   \* channel names JOIN accepts: leading # or &, at most CHAN_MAX
  LimitArg,   \* the numbers sent as argument of MODE +l
  Commands,   \* the commands the clients send
  ModeChars,  \* the channel modes they change
  Hazards,    \* what connections may do besides sending well-behaved lines
  MaxModes,   \* mode changes in one MODE line
  MaxTargets, \* channels in one JOIN line
  MaxMarks    \* length of _clients_to_disconnect

\* eof, reset: the peer closes or resets the connection without QUIT.
\* overrun: more than MAX_RECV_BUF bytes pending, or a line of 510 and more.
\* sendfail, sendblock: send() returns -1, with EPIPE and the like, or EAGAIN.
\* pipeline: a read holds further lines after a QUIT.
\* inviteUnknown: INVITE names a channel that does not exist.
\* emptyBegin: reading *begin() of an empty set kills the process, as it does where
\* the library checks iterators.
AllHazards == {"eof", "reset", "overrun", "sendfail", "sendblock",
               "pipeline", "inviteUnknown", "emptyBegin"}

ASSUME StateAssumption ==
  /\ NULL \notin Addr
  /\ Fds \subseteq Nat
  /\ Empty \notin Nick
  /\ Empty \notin ChanName
  /\ Lower \in [Nick -> Nick]
  /\ LimitArg \subseteq Nat
  /\ Hazards \subseteq AllHazards
  /\ MaxModes \in Nat /\ MaxTargets \in Nat /\ MaxMarks \in Nat

VARIABLES
  status,   \* "running", "stopped" (shutdown() ran) or "crashed"
  clients,  \* Server::Clients: descriptor -> Client*, NULL where absent
  pollfds,  \* Server::_pollfds without the listening socket at index 0
  marked,   \* Server::_clients_to_disconnect
  cur,      \* index in _pollfds the loop of pollLoop is at; 0: listening socket
  stage,    \* what pollLoop is doing with that entry
  obj,      \* the Client object at each address
  existing, \* the keys of Server::Channels
  channels, \* the Channel object under each name
  modes,    \* mode changes of the MODE line in execution not yet applied
  modeChan, \* the channel that line names
  errno     \* the thread's errno, as far as the code reads it

connVars == <<clients, pollfds>>
chanVars == <<existing, channels>>
modeVars == <<modes, modeChan>>
vars == <<status, clients, pollfds, marked, cur, stage, obj, existing,
          channels, modes, modeChan, errno>>

-----------------------------------------------------------------------------

Client ==
  [authenticated : BOOLEAN, registered : BOOLEAN,
   nick : Nick \cup {Empty}, user : BOOLEAN,
   channels : SUBSET ChanName, invited : SUBSET ChanName]

\* Client(): also the value kept for an address at which no Client lives.
NewClient ==
  [authenticated |-> FALSE, registered |-> FALSE, nick |-> Empty,
   user |-> FALSE, channels |-> {}, invited |-> {}]

\* One element of the vector _parseMode returns: sign '+' or '-', mode, arg.
\* "?" stands for an unknown mode, a missing sign and a missing argument.
ModeChange ==
  [mode : {"i", "t", "?"}, plus : BOOLEAN, arg : {Empty}]
    \cup [mode : {"k"}, plus : {TRUE}, arg : Key]
    \cup [mode : {"l"}, plus : {TRUE}, arg : LimitArg]
    \cup [mode : {"k", "l"}, plus : {FALSE}, arg : {Empty}]
    \cup [mode : {"o"}, plus : BOOLEAN, arg : Nick]

Stages == {"ready", "lines", "done", "sent", "disconnect"}

\* The addresses of the Client objects that have not been deleted.
Live == {clients[fd] : fd \in Fds} \ {NULL}

ToLower(n) == IF n = Empty THEN Empty ELSE Lower[n]

\* The entries getClient(n) matches, and the client it returns: Clients is
\* walked in ascending descriptor order and the first match wins.
Matches(n) ==
  {fd \in Fds : /\ clients[fd] # NULL
                /\ ToLower(obj[clients[fd]].nick) = ToLower(n)}

GetClient(n, a) ==
  \E fd \in Matches(n) : /\ clients[fd] = a
                         /\ \A g \in Matches(n) : fd <= g

\* The client whose lines are being handled.
SelfFd == pollfds[cur]
Self == clients[SelfFd]

\* The users of the channels Self has joined.
CoMembers == UNION {channels[c].users : c \in obj[Self].channels}

\* A step that is undefined if bad: then the process dies, or it goes on with what it
\* finds in memory.
MayDie(bad) == status' \in IF bad THEN {"running", "crashed"} ELSE {"running"}

\* Some of the addresses are those of deleted Clients.
Dangling(addresses) == ~(addresses \subseteq Live)

\* Reading through the Client*s at these addresses.
Deref(addresses) == MayDie(Dangling(addresses))

\* One complete line of Self reaches its handler.  A line ends the "ready"
\* stage; further lines of the same read are handled in stage "lines".
Line(command) ==
  /\ status = "running"
  /\ command \in Commands
  /\ cur > 0
  /\ stage \in {"ready", "lines"}
  /\ modes = <<>>
  /\ SelfFd \in ToSet(marked) => "pipeline" \in Hazards
  /\ stage' = "lines"
  /\ UNCHANGED <<clients, pollfds, cur>>

TypeOK ==
  /\ status \in {"running", "stopped", "crashed"}
  /\ clients \in [Fds -> Addr \cup {NULL}]
  /\ pollfds \in Seq(Fds)
  /\ marked \in Seq(Fds)
  /\ cur \in 0 .. Len(pollfds)
  /\ stage \in Stages
  /\ obj \in [Addr -> Client]
  /\ existing \subseteq ChanName
  /\ channels \in [ChanName -> Channel]
  /\ modes \in Seq(ModeChange)
  /\ modeChan \in ChanName \cup {Empty}
  /\ errno \in {"other", "ERANGE", "EAGAIN"}

=============================================================================
