------------------------------ MODULE PollLoop ------------------------------
(***************************************************************************)
(* Server::init, Server::pollLoop and Server::shutdown (classes/Server.cpp *)
(* and main.cpp) as a loop over poll() events: the interest in POLLOUT,    *)
(* the send buffers, signals, exceptions and the descriptors.  What a line *)
(* means is IrcServer's subject; here it queues replies, or marks its      *)
(* sender.  The loop serves the listening socket first, then the others in *)
(* an order that matters to no property; the model takes any.              *)
(***************************************************************************)
EXTENDS Naturals, FiniteSets, FiniteSetsExt

CONSTANTS
  Fds,      \* descriptors accept() can return
  Listener, \* _serverSocketFd
  Reply,    \* the length of a reply
  Room,     \* what the kernel takes for a connection before the peer reads
  MaxLines, \* bound on the lines the clients send altogether
  Watched,  \* the descriptors the liveness properties speak of
  Hazards   \* what the environment does besides sending and reading

\* failure: a call made by init(), poll() or accept() fails.
\* close, reset: a peer closes or resets its connection.   quit: clients send QUIT.
\* pressure: the kernel, short of memory, takes nothing of a socket poll() reported.
\* signal: SIGINT, SIGQUIT or SIGTERM arrives.
AllHazards == {"failure", "close", "reset", "quit", "pressure", "signal"}

ASSUME PollLoopAssumption ==
  /\ Listener \notin Fds
  /\ Reply \in Nat \ {0}
  /\ Room \in Nat \ {0}
  /\ MaxLines \in Nat
  /\ Watched \subseteq Fds
  /\ Hazards \subseteq AllHazards

VARIABLES
  pc,       \* where the process is
  signal,   \* Server::_signal
  open,     \* the descriptors the process has open
  polled,   \* the descriptors in _pollfds
  pollout,  \* pollfd::events asks for POLLOUT
  revents,  \* pollfd::revents: "in" for POLLIN, "out" for POLLOUT
  left,     \* the events this iteration has not served yet
  marks,    \* how often a descriptor is in _clients_to_disconnect
  send_buf, \* the length of Client::send_buf
  backlog,  \* a connection waits to be accepted
  inbox,    \* complete lines the kernel holds for the server
  outbox,   \* bytes the kernel holds for the peer
  peer,     \* whether the peer has closed or reset the connection
  lines,    \* lines sent so far
  errno,    \* EAGAIN, or anything else; successful calls leave it alone
  orphans   \* history: the descriptors whose fcntl() failed after accept()

peerVars == <<backlog, inbox, outbox, peer, lines>>
osVars == <<errno, orphans>>
vars == <<pc, signal, open, polled, pollout, revents, left, marks, send_buf, peerVars,
          osVars>>

\* init: before socket().  setup: the listening socket exists.  while: at the
\* loop condition.  call: about to enter poll().  poll: blocked in it.
\* serve, remove: the loops over _pollfds and _clients_to_disconnect.
\* throw: an exception is on its way to main.  return: main returns.
PCs == {"init", "setup", "while", "call", "poll", "serve", "remove",
        "throw", "return", "ended", "crashed"}

Final == {"ended", "crashed"}

Looping == {"while", "call", "poll", "serve", "remove"}

\* The loop has been left in order, or never begun.
Stopped == {"throw", "return", "ended"}

All == Fds \cup {Listener}
Connected == polled \ {Listener}

Init ==
  /\ pc = "init"
  /\ signal = FALSE
  /\ open = {} /\ polled = {}
  /\ pollout = [fd \in Fds |-> FALSE]
  /\ revents = [fd \in All |-> {}]
  /\ left = {}
  /\ marks = [fd \in Fds |-> 0]
  /\ send_buf = [fd \in Fds |-> 0]
  /\ backlog = FALSE
  /\ inbox = [fd \in Fds |-> 0]
  /\ outbox = [fd \in Fds |-> 0]
  /\ peer = [fd \in Fds |-> "open"]
  /\ lines = 0
  /\ errno = "other"
  /\ orphans = {}

-----------------------------------------------------------------------------
(* init() *)

OpenSocket ==
  /\ pc = "init"
  /\ \/ open' = {Listener} /\ pc' = "setup"
     \/ "failure" \in Hazards /\ UNCHANGED open /\ pc' = "throw"
  /\ UNCHANGED <<signal, polled, pollout, revents, left, marks, send_buf, peerVars, osVars>>

\* Mutant: a failing listen() leaves the socket open.
SetupLeaks ==
  /\ pc = "setup"
  /\ \/ polled' = {Listener} /\ UNCHANGED open /\ pc' = "while"
     \/ "failure" \in Hazards /\ UNCHANGED <<open, polled>> /\ pc' = "throw"
  /\ UNCHANGED <<signal, pollout, revents, left, marks, send_buf, peerVars, osVars>>

\* setsockopt(), fcntl(), bind() and listen(): each failure closes the socket.
Setup ==
  /\ pc = "setup"
  /\ \/ polled' = {Listener} /\ UNCHANGED open /\ pc' = "while"
     \/ "failure" \in Hazards /\ open' = {} /\ UNCHANGED polled /\ pc' = "throw"
  /\ UNCHANGED <<signal, pollout, revents, left, marks, send_buf, peerVars, osVars>>

-----------------------------------------------------------------------------
(* poll() *)

\* Mutant: the loop runs forever.
WhileTrue ==
  /\ pc = "while"
  /\ pc' = "call"
  /\ UNCHANGED <<signal, open, polled, pollout, revents, left, marks, send_buf, peerVars,
                 osVars>>

\* while (Server::_signal == false)
While ==
  /\ pc = "while"
  /\ pc' = IF signal THEN "return" ELSE "call"
  /\ UNCHANGED <<signal, open, polled, pollout, revents, left, marks, send_buf, peerVars,
                 osVars>>

EnterPoll ==
  /\ pc = "call"
  /\ pc' = "poll"
  /\ UNCHANGED <<signal, open, polled, pollout, revents, left, marks, send_buf, peerVars,
                 osVars>>

\* A send() returns something other than EAGAIN, the kernel having memory.
Writable(fd) == outbox[fd] < Room \/ peer[fd] = "reset"

\* What poll() reports of an entry.
Ready(fd) ==
  IF fd = Listener
    THEN IF backlog THEN {"in"} ELSE {}
    ELSE (IF inbox[fd] > 0 \/ peer[fd] # "open" THEN {"in"} ELSE {})
           \cup (IF pollout[fd] /\ Writable(fd) THEN {"out"} ELSE {})

SomeReady == \E fd \in polled : Ready(fd) # {}

\* The events the loop over _pollfds will find in rev.
Pending(rev) == {event \in polled \X {"in", "out"} : event[2] \in rev[event[1]]}

\* Mutant: the loop breaks off after one event.
PollReturnsOne ==
  /\ pc = "poll" /\ SomeReady
  /\ revents' = [fd \in All |-> IF fd \in polled THEN Ready(fd) ELSE {}]
  /\ \E event \in Pending(revents') : left' = {event}
  /\ pc' = "serve"
  /\ UNCHANGED <<signal, open, polled, pollout, marks, send_buf, peerVars, osVars>>

PollReturns ==
  /\ pc = "poll" /\ SomeReady
  /\ revents' = [fd \in All |-> IF fd \in polled THEN Ready(fd) ELSE {}]
  /\ left' = Pending(revents')
  /\ pc' = "serve"
  /\ UNCHANGED <<signal, open, polled, pollout, marks, send_buf, peerVars, osVars>>

PollFails ==
  /\ pc = "poll" /\ "failure" \in Hazards
  /\ pc' = "throw"
  /\ UNCHANGED <<signal, open, polled, pollout, revents, left, marks, send_buf, peerVars,
                 osVars>>

\* SignalHandler.  It interrupts poll() if that is blocked, which then returns
\* -1 and leaves every revents as the previous iteration found it; the loop
\* serves them once more.
Signal ==
  /\ "signal" \in Hazards
  /\ pc \notin Final /\ ~signal
  /\ signal' = TRUE
  /\ IF pc = "poll" /\ ~SomeReady
       THEN pc' = "serve" /\ left' = Pending(revents) /\ errno' = "other"
       ELSE UNCHANGED <<pc, left, errno>>
  /\ UNCHANGED <<open, polled, pollout, revents, marks, send_buf, peerVars, orphans>>

-----------------------------------------------------------------------------
(* The loop over _pollfds. *)

Serving(fd, e) ==
  /\ pc = "serve"
  /\ <<fd, e>> \in left

\* Mutant: the revents of the new entry are not set, and the loop, whose bound is the
\* size of _pollfds, meets the entry in the same iteration.
AcceptUninitialised ==
  /\ Serving(Listener, "in")
  /\ backlog
  /\ \E fd \in Fds \ open :
       /\ open' = open \cup {fd}
       /\ polled' = polled \cup {fd}
       /\ left' = (left \ {<<Listener, "in">>}) \cup {<<fd, "in">>}
  /\ backlog' = FALSE
  /\ UNCHANGED <<pc, signal, pollout, revents, marks, send_buf, inbox, outbox, peer, lines,
                 osVars>>

\* _accept_new_client.  The loop over _pollfds still reaches the new entry, and finds
\* its revents 0.
Accept ==
  /\ Serving(Listener, "in")
  /\ backlog
  /\ \E fd \in Fds \ open :
       /\ open' = open \cup {fd}
       /\ polled' = polled \cup {fd}
  /\ backlog' = FALSE
  /\ left' = left \ {<<Listener, "in">>}
  /\ UNCHANGED <<pc, signal, pollout, revents, marks, send_buf, inbox, outbox, peer, lines,
                 osVars>>

\* accept() fails: no connection waits (the event was a stale one, or the
\* peer has given up), or the process has no descriptor left.
AcceptFails ==
  /\ Serving(Listener, "in")
  /\ ~backlog \/ Fds \subseteq open \/ "failure" \in Hazards
  /\ pc' = "throw"
  /\ left' = {}
  /\ UNCHANGED <<signal, open, polled, pollout, revents, marks, send_buf, peerVars, osVars>>

\* fcntl() fails: the new descriptor is open and in no table.
FcntlFails ==
  /\ Serving(Listener, "in")
  /\ backlog /\ "failure" \in Hazards
  /\ \E fd \in Fds \ open : open' = open \cup {fd} /\ orphans' = orphans \cup {fd}
  /\ backlog' = FALSE
  /\ pc' = "throw"
  /\ left' = {}
  /\ UNCHANGED <<signal, polled, pollout, revents, marks, send_buf, inbox, outbox, peer,
                 lines, errno>>

\* Entries are served in or before out, the listening socket first.
Turn(fd, e) ==
  /\ Serving(fd, e)
  /\ fd # Listener /\ <<Listener, "in">> \notin left
  /\ e = "out" => <<fd, "in">> \notin left
  /\ left' = left \ {<<fd, e>>}
  /\ UNCHANGED <<pc, signal, open, polled, revents>>

Marked(fd) == marks' = [marks EXCEPT ![fd] = @ + 1]

\* Mutant: interest in POLLOUT is not asked for while other output is pending.
QueuedLate(T) ==
  /\ send_buf' = [t \in Fds |-> IF t \in T THEN send_buf[t] + Reply ELSE send_buf[t]]
  /\ pollout' = [t \in Fds |->
       IF t \in T /\ send_buf[t] > 0 THEN TRUE ELSE pollout[t]]

\* replyToClient to each of T.
Queued(T) ==
  /\ send_buf' = [t \in Fds |-> IF t \in T THEN send_buf[t] + Reply ELSE send_buf[t]]
  /\ pollout' = [t \in Fds |-> IF t \in T THEN TRUE ELSE pollout[t]]

Quits(fd) == 0 .. (IF "quit" \in Hazards THEN inbox[fd] ELSE 0)

\* _receive_data: the lines of fd are handled.  Any clients may be sent replies;
\* each QUIT among the lines marks the sender; a MODE +l out of range sets errno.
Receive(fd) ==
  /\ Turn(fd, "in")
  /\ inbox[fd] > 0
  /\ inbox' = [inbox EXCEPT ![fd] = 0]
  /\ \E T \in SUBSET Connected : Queued(T)
  /\ \E n \in Quits(fd) : marks' = [marks EXCEPT ![fd] = @ + n]
  /\ errno' \in {errno, "other"}
  /\ UNCHANGED <<backlog, outbox, peer, lines, orphans>>

\* Mutant: a reset connection is taken for one without data.
ReceiveErrorQuietly(fd) ==
  /\ Turn(fd, "in")
  /\ peer[fd] = "reset"
  /\ errno' = "other"
  /\ UNCHANGED <<marks, pollout, send_buf, peerVars, orphans>>

\* recv() returns -1: the connection is gone.
ReceiveError(fd) ==
  /\ Turn(fd, "in")
  /\ peer[fd] = "reset" /\ Marked(fd)
  /\ errno' = "other"
  /\ UNCHANGED <<pollout, send_buf, peerVars, orphans>>

\* recv() returns -1 with EAGAIN: the event was a stale one.  Whether the client is
\* marked depends on recv_buf, where the -1 is added to a size (see LineBuffer).
ReceiveNothing(fd) ==
  /\ Turn(fd, "in")
  /\ peer[fd] = "open" /\ inbox[fd] = 0
  /\ errno' = "EAGAIN"
  /\ Marked(fd) \/ UNCHANGED marks
  /\ UNCHANGED <<pollout, send_buf, peerVars, orphans>>

\* Mutant: only a failing recv() is taken for the end of a connection.
ReceiveEndUnseen(fd) ==
  /\ Turn(fd, "in")
  /\ peer[fd] = "closed" /\ inbox[fd] = 0
  /\ UNCHANGED <<marks, pollout, send_buf, peerVars, osVars>>

\* recv() returns 0 and leaves errno alone: with the EAGAIN of an earlier call in it
\* the end of the stream passes for an empty read.
ReceiveEnd(fd) ==
  /\ Turn(fd, "in")
  /\ peer[fd] = "closed" /\ inbox[fd] = 0
  /\ IF errno = "EAGAIN" THEN UNCHANGED marks ELSE Marked(fd)
  /\ UNCHANGED <<pollout, send_buf, peerVars, osVars>>

\* Mutant: interest in POLLOUT ends with the first send.
SentOnce(fd, n) ==
  /\ send_buf' = [send_buf EXCEPT ![fd] = @ - n]
  /\ pollout' = [pollout EXCEPT ![fd] = FALSE]

\* send() has returned n.
Sent(fd, n) ==
  /\ send_buf' = [send_buf EXCEPT ![fd] = @ - n]
  /\ pollout' = [pollout EXCEPT ![fd] = IF send_buf[fd] = n THEN FALSE ELSE @]

\* _sendMsgBuf: the kernel takes some of the buffer.
Send(fd) ==
  /\ Turn(fd, "out")
  /\ peer[fd] # "reset"
  /\ \E n \in 1 .. Min({send_buf[fd], Room - outbox[fd]}) :
       /\ Sent(fd, n)
       /\ outbox' = [outbox EXCEPT ![fd] = @ + n]
  /\ UNCHANGED <<marks, backlog, inbox, peer, lines, osVars>>

\* send() returns -1: the connection is gone.
SendError(fd) ==
  /\ Turn(fd, "out")
  /\ peer[fd] = "reset" /\ Marked(fd)
  /\ errno' = "other"
  /\ UNCHANGED <<pollout, send_buf, peerVars, orphans>>

\* send() returns 0 for an empty buffer, after a stale event; or -1 with EAGAIN.
SendNothing(fd) ==
  /\ Turn(fd, "out")
  /\ peer[fd] # "reset"
  /\ \/ send_buf[fd] = 0 /\ UNCHANGED errno
     \/ /\ send_buf[fd] > 0
        /\ outbox[fd] = Room \/ "pressure" \in Hazards
        /\ errno' = "EAGAIN"
  /\ UNCHANGED <<marks, pollout, send_buf, peerVars, orphans>>

NobodyMarked == \A fd \in Fds : marks[fd] = 0

EndOfLoop ==
  /\ pc = "serve" /\ left = {}
  /\ pc' = IF NobodyMarked THEN "while" ELSE "remove"
  /\ UNCHANGED <<signal, open, polled, pollout, revents, left, marks, send_buf, peerVars,
                 osVars>>

-----------------------------------------------------------------------------
(* _disconnect_clients, shutdown() *)

\* Mutant: the pollfd stays.
RemoveKeepsPollfd(fd) ==
  /\ pc = "remove" /\ marks[fd] > 0 /\ fd \in polled
  /\ marks' = [marks EXCEPT ![fd] = @ - 1]
  /\ open' = open \ {fd}
  /\ pollout' = [pollout EXCEPT ![fd] = FALSE]
  /\ revents' = [revents EXCEPT ![fd] = {}]
  /\ send_buf' = [send_buf EXCEPT ![fd] = 0]
  /\ inbox' = [inbox EXCEPT ![fd] = 0]
  /\ outbox' = [outbox EXCEPT ![fd] = 0]
  /\ peer' = [peer EXCEPT ![fd] = "open"]
  /\ UNCHANGED <<pc, polled, signal, left, backlog, lines, osVars>>

\* _remove_single_client: the Client with its buffer, the pollfd and the
\* descriptor go; what the kernel still held for the peer is of no interest.
Remove(fd) ==
  /\ pc = "remove" /\ marks[fd] > 0 /\ fd \in polled
  /\ marks' = [marks EXCEPT ![fd] = @ - 1]
  /\ open' = open \ {fd}
  /\ polled' = polled \ {fd}
  /\ pollout' = [pollout EXCEPT ![fd] = FALSE]
  /\ revents' = [revents EXCEPT ![fd] = {}]
  /\ send_buf' = [send_buf EXCEPT ![fd] = 0]
  /\ inbox' = [inbox EXCEPT ![fd] = 0]
  /\ outbox' = [outbox EXCEPT ![fd] = 0]
  /\ peer' = [peer EXCEPT ![fd] = "open"]
  /\ UNCHANGED <<pc, signal, left, backlog, lines, osVars>>

\* A client marked twice is removed twice, which ends the process (see IrcServer).
RemoveAgain(fd) ==
  /\ pc = "remove" /\ marks[fd] > 0 /\ fd \notin polled
  /\ pc' = "crashed"
  /\ UNCHANGED <<signal, open, polled, pollout, revents, left, marks, send_buf, peerVars,
                 osVars>>

Removed ==
  /\ pc = "remove" /\ NobodyMarked
  /\ pc' = "while"
  /\ UNCHANGED <<signal, open, polled, pollout, revents, left, marks, send_buf, peerVars,
                 osVars>>

\* shutdown() closes what _pollfds holds.  After an exception main calls it, and
\* the destructor calls it again.
Shutdown ==
  /\ pc \in {"throw", "return"}
  /\ open' = open \ polled
  /\ pc' = IF pc = "throw" THEN "return" ELSE "ended"
  /\ UNCHANGED <<signal, polled, pollout, revents, left, marks, send_buf, peerVars, osVars>>

Server ==
  \/ OpenSocket \/ Setup \/ While \/ EnterPoll \/ PollReturns \/ PollFails
  \/ Accept \/ AcceptFails \/ FcntlFails \/ EndOfLoop \/ Removed \/ Shutdown
  \/ \E fd \in Fds : \/ Receive(fd) \/ ReceiveError(fd) \/ ReceiveNothing(fd)
                     \/ ReceiveEnd(fd) \/ Send(fd) \/ SendError(fd) \/ SendNothing(fd)
                     \/ Remove(fd) \/ RemoveAgain(fd)

-----------------------------------------------------------------------------
(* The peers. *)

serverVars == <<pc, signal, open, polled, pollout, revents, left, marks, send_buf, osVars>>

Connect ==
  /\ Listener \in polled /\ pc \notin Stopped \cup Final /\ ~backlog
  /\ backlog' = TRUE
  /\ UNCHANGED <<serverVars, inbox, outbox, peer, lines>>

SendLine(fd) ==
  /\ fd \in Connected /\ peer[fd] = "open" /\ lines < MaxLines
  /\ inbox' = [inbox EXCEPT ![fd] = @ + 1]
  /\ lines' = lines + 1
  /\ UNCHANGED <<serverVars, backlog, outbox, peer>>

ReadReplies(fd) ==
  /\ outbox[fd] > 0
  /\ outbox' = [outbox EXCEPT ![fd] = 0]
  /\ UNCHANGED <<serverVars, backlog, inbox, peer, lines>>

\* FIN: the peer sends nothing more; it may still read, or answer with RST.
Close(fd) ==
  /\ "close" \in Hazards /\ fd \in Connected /\ peer[fd] = "open"
  /\ peer' = [peer EXCEPT ![fd] = "closed"]
  /\ UNCHANGED <<serverVars, backlog, inbox, outbox, lines>>

\* RST
Reset(fd) ==
  /\ "reset" \in Hazards /\ fd \in Connected /\ peer[fd] # "reset"
  /\ peer' = [peer EXCEPT ![fd] = "reset"]
  /\ UNCHANGED <<serverVars, backlog, inbox, outbox, lines>>

Peers ==
  \/ Connect
  \/ \E fd \in Fds : SendLine(fd) \/ ReadReplies(fd) \/ Close(fd) \/ Reset(fd)

Ended == pc \in Final /\ UNCHANGED vars

Next == Server \/ Signal \/ Peers \/ Ended

\* The process is scheduled, clients read what the server sends them, and the kernel
\* does not refuse a socket with room for ever; nothing obliges clients to connect, to
\* send or to end, nor a signal to come.
Fairness ==
  /\ WF_vars(Server)
  /\ \A fd \in Fds : WF_vars(ReadReplies(fd)) /\ SF_vars(Send(fd))

Spec == Init /\ [][Next]_vars /\ Fairness

-----------------------------------------------------------------------------

TypeOK ==
  /\ pc \in PCs
  /\ signal \in BOOLEAN
  /\ open \subseteq All /\ polled \subseteq All
  /\ pollout \in [Fds -> BOOLEAN]
  /\ revents \in [All -> SUBSET {"in", "out"}]
  /\ left \subseteq polled \X {"in", "out"}
  /\ marks \in [Fds -> Nat]
  /\ send_buf \in [Fds -> Nat]
  /\ backlog \in BOOLEAN
  /\ inbox \in [Fds -> Nat]
  /\ outbox \in [Fds -> 0 .. Room]
  /\ peer \in [Fds -> {"open", "closed", "reset"}]
  /\ lines \in 0 .. MaxLines
  /\ errno \in {"other", "EAGAIN"}
  /\ orphans \subseteq Fds

\* POLLOUT is asked for exactly while output is pending: no reply is forgotten and
\* the loop does not spin on a writable socket (replyToClient, _sendMsgBuf).
PolloutWhilePending ==
  \A fd \in Fds : pollout[fd] <=> send_buf[fd] > 0

\* The descriptors the loop polls are the open ones: accept(), the removal of a
\* client and the closing of its socket never leave one without the other, so that
\* no event can come for a connection without a Client, and none is forgotten.
OpenArePolled ==
  /\ TypeOK
  /\ pc \in Looping => Listener \in open /\ open = polled

\* Whatever ends the process, at whatever point, the descriptors it opened are
\* closed ("close all open sockets / fds", the destructor of Server): nothing stays
\* open but a connection whose own fcntl() failed, which the code forgets.
NothingLeftOpen == pc = "ended" => open = orphans

\* The inductive invariant: what is open and not polled, at each point; events are
\* pending in the loop over _pollfds only.
PollInv ==
  /\ OpenArePolled
  /\ PolloutWhilePending
  /\ pc # "serve" => left = {}
  /\ pc = "init" => open = {} /\ polled = {}
  /\ pc = "setup" => open = {Listener} /\ polled = {}
  /\ pc \in {"init", "setup"} \cup Looping => orphans = {}
  /\ pc \in Stopped => open \ polled = orphans
  /\ orphans \cap polled = {}
  /\ pc = "ended" => open \cap polled = {}

\* Events are served after others of the same iteration have had their effects, and
\* those of a new entry are what the code stored.  Until a signal interrupts poll(),
\* each is still true of its descriptor when its turn comes.
EventHolds(fd, e) ==
  \/ fd = Listener /\ e = "in" /\ backlog
  \/ fd # Listener /\ e = "in" /\ (inbox[fd] > 0 \/ peer[fd] # "open")
  \/ fd # Listener /\ e = "out" /\ send_buf[fd] > 0 /\ Writable(fd)

EventsHold == ~signal => \A event \in left : EventHolds(event[1], event[2])

\* Until then a connection is marked for removal for what its peer did only: it sent a
\* line, which may be a QUIT, or closed or reset the connection.  Nobody is cut off
\* because the loop read from a socket without data.
MarkedForCause ==
  [][\A fd \in Fds :
       marks'[fd] > marks[fd] => inbox[fd] > 0 \/ peer[fd] # "open" \/ signal]_vars

\* A client is marked a second time, or has been: its second removal kills the server
\* (Server.cpp:54; RemovalKeepsServing of IrcServer is about that).
MarkedTwice ==
  \E fd \in Fds : marks[fd] > 1 \/ (marks[fd] = 1 /\ fd \notin polled)

\* What must happen happens, unless the server is stopped or killed by a double mark.
OrOver(event) == event \/ pc \in Stopped \/ MarkedTwice

\* A queued reply is sent, although sends are partial and the peer reads slowly.
RepliesArrive ==
  \A fd \in Watched : send_buf[fd] > 0 ~> OrOver(send_buf[fd] = 0)

\* A line that has arrived is read, however busy the other connections are.
LinesAreRead ==
  \A fd \in Watched : inbox[fd] > 0 ~> OrOver(inbox[fd] = 0)

\* A connection its peer has reset is removed; until then its events make every poll()
\* return at once.
ResetConnectionsGo ==
  \A fd \in Watched : peer[fd] = "reset" ~> OrOver(peer[fd] = "open")

\* So is one its peer has closed, unless calls keep leaving EAGAIN in errno, which
\* _receive_data reads although recv() did not set it.
ClosedConnectionsGo ==
  <>[](errno # "EAGAIN") =>
    \A fd \in Watched : peer[fd] = "closed" ~> OrOver(peer[fd] # "closed")

\* After a signal the server stops with the next event, if not at once.
StopsWithNextEvent == signal /\ SomeReady ~> pc \in Final

\* "set the static boolean to true to stop the server" (SignalHandler): a signal
\* stops the server.
SignalStopsServer == signal ~> pc \in Final

=============================================================================
