# ft_irc in TLA+

A specification of the IRC server of this repository: TLA+ modules translated
from `src/`, configurations that check them with TLC on small instances, and
proofs, checked by TLAPS, that the main invariants hold for every instance.

## The system

One process, one thread. `Server::pollLoop` polls the listening socket and the
client sockets, reads, hands complete lines to a `CommandHandler`, sends what is
queued, and at the end of an iteration removes the clients marked meanwhile.

| Component | Source | State | Operations | Modelled in |
|---|---|---|---|---|
| Poll loop, connection table | `classes/Server.cpp` | `Clients`, `_pollfds`, `_clients_to_disconnect`, `_signal`, `errno` | accept, read, send, mark, remove, shutdown | `IrcServer`, `IrcState` (with the handlers); `PollLoop` (with poll, signals, descriptors) |
| Registration | `classes/CommandHandler.cpp` 22-154, `classes/Client.cpp` | `Client::_authenticated`, `_registered`, names | PASS, NICK, USER, QUIT | `Registration` |
| Channels | `classes/CommandHandler.cpp` 156-798, `classes/Channel.cpp` | `Server::Channels`, `Channel::_users`, `_operators`, modes; `Client::_channels`, `_invitedChannelNames` | JOIN, PART, KICK, INVITE, TOPIC, MODE, PRIVMSG, NOTICE, NAMES | `ChannelState`, `ChannelCommands`; promise: `IrcChannels` |
| Keys of a JOIN line | `_handleJoin` | the two lists of one line | pairing keys and channels | `JoinKeys` |
| Receive buffer | `Client::extract_line`, `_receive_data` | `recv_buf` | append, extract, refuse | `LineBuffer`; promise: `LineStream` |
| Send buffer | `replyToClient`, `_sendMsgBuf` | `send_buf`, `POLLOUT` | append, drain | `PollLoop` |
| MODE parser | `_parseMode`, `_modeNeedsArg` | none | pairing mode characters and arguments | `ModeLine` |
| Line parser | `classes/Parser.cpp` | none | split a line | `ModeLine` (parameters and trailing part of a MODE line) |
| Replies | `classes/ServerResponse.cpp` | none | format, broadcast | the receivers only |
| Start-up | `main.cpp`, `Server::init` | `_serverSocketFd` | arguments, sockets, signals, exceptions | `PollLoop`, but for the arguments |

How they interact. The handlers run inside the read of one client and change the
tables of `Server` directly; `Channel` and `Client` point at each other
(`Channel::_users` are `Client*`, `Client::_channels` are `Channel*`), so every
handler must keep the two directions consistent; broadcasts follow
`Channel::_users` into `replyToClient`, which lengthens a send buffer and looks for
the client's `pollfd` to ask for `POLLOUT`.

What is hard here, although nothing runs in parallel: the order in which clients'
lines, ends of stream and send errors reach the loop; objects deleted at the end
of an iteration while others point at them; addresses and descriptors reused;
several marks of the same client in one iteration; lines that follow a QUIT in
the same read; lines cut anywhere by the network; partial sends; a signal at any
point; calls that fail half-way; `errno` read after calls that do not set it; lists
(channels and keys, modes and arguments) walked with shared indices. The file
`PROJECT.json` lists each hazard at its line, with the properties that would catch
it.

## The modules

    ChannelState        Channel records and the pure effect of each command on one
      IrcState          constants, variables, lookups, TypeOK
        Registration    PASS NICK USER QUIT; leaving channels; marking
          ChannelCommands   JOIN PART KICK INVITE TOPIC MODE PRIVMSG NAMES
            IrcServer       the poll loop, Init, Next, Spec, the properties
              (instance of IrcChannels: what users are promised about channels)
              MCIrcServer       constants for TLC
              IrcServerProofs   theorems: tables and pointers
                MembershipProofs    theorems: arrivals, departures, membership
                  RegistrationProofs  theorems: registration, nicknames
                  IrcChannelsProofs   theorem: IrcServer implements IrcChannels
      JoinKeys          the loop over one JOIN line
        JoinKeysProofs  theorems
    LineBuffer          bytes, reads, lines of one client
      (instance of LineStream: what a client is promised about its lines)
      LineBufferProofs  theorems
    PollLoop            poll events, send buffers, signals, failures, descriptors
      PollLoopProofs    theorems
    ModeLine            from a MODE line to a vector of mode changes
      ModeLineProofs    theorems

The server is cut at three seams, so that each model keeps what its properties need.
`IrcServer` takes lines whole and in any order a loop over `_pollfds` can meet them;
`LineBuffer` shows how bytes become these lines; `PollLoop` forgets what lines mean
(a line queues replies to any clients, or marks its sender) and keeps what poll()
reports, what is open and what is queued; `ModeLine` yields the lists of mode
changes that `HandleMode` takes.

### IrcServer

State and code. `clients` is `Server::Clients` (descriptor to address, `NULL`
where the map has no entry), `pollfds` is `_pollfds` without the listening socket,
`marked` is `_clients_to_disconnect`, `existing` and `channels` are
`Server::Channels`, `obj` is the Client object at each address. `cur` and `stage`
are the program counter of `pollLoop`: `ready` (the entry may be read), `lines`
(lines of a read are being handled), `done` (the read ended), `sent`, and
`disconnect` (inside `_disconnect_clients`). `modes` and `modeChan` are the MODE
line in execution.

Each handler is one action; its refusals that change nothing are `ReplyOnly`. MODE
is `HandleMode` followed by one `ModeStep` per element of the vector `_parseMode`
returns, with nothing else enabled in between. `Accept` is an iteration of its
own: a new entry has `revents` 0 and is not served before the next `poll()`, and
the listening socket comes first, so accepting and serving in one iteration is the
same as doing so in two.

Addresses. A channel's users are addresses, because the code stores `Client*`.
`RemoveSingleClient` frees the address without telling the channels, and `Accept`
may allocate it again (`Addr \ Live`): the model has the dangling pointers and the
inherited memberships of the code.

Undefined behaviour. Following a pointer to a deleted `Client` (`Deref`) either
kills the process (`status = "crashed"`) or goes on, the two outcomes a build
shows. Dereferencing the null channel in INVITE, and erasing `Clients.end()`
(which hands a pointer that was never allocated to `free`), kill it. The heir that
`_removeClientFromChannel` promotes is the first of a set ordered by address: any
remaining user. When nobody remains, the code reads `*begin()` of the empty set
(`CommandHandler.cpp:290`) before it deletes the channel. This is undefined, and it
happens in every departure that empties a channel (`ReadsEmptyBegin`). With the library
as built by the `Makefile` some pointer is stored in a set that the next statement
deletes; with checked iterators the process ends. The hazard `emptyBegin` adds the
second outcome. `DiesOfKnownStepsOnly` names this step, and the INVITE, as the two the
process may die of; it does not say that they do not happen.

Abstractions. Nicknames, keys and channel names are model values; a topic is
present or absent; `Lower` gives the lower-case form of a nickname, so a
configuration decides which names collide. A send that succeeds changes nothing
that is kept. Which ill-behaviour connections show is the constant `Hazards`, so
that the properties of well-behaved sessions can be told from those that hold
whatever happens.

`IrcChannels` is the abstract specification: users connect, enter channels, leave
them, are given and denied rank, and disconnect when they are in no channel; who
enters a channel that has nobody becomes its operator; when somebody leaves, an
operator remains or one of the rest becomes it. It has no loop, no pointers, no
deferred removal. The refinement maps `connected` to the addresses of live Clients
and `members` and `ops` to the two sets of each `Channel`.

### LineBuffer

One client: the bytes it has sent, how many of them `recv()` has returned (up to
`ReadSize` at a time, cut anywhere), `recv_buf`, and the lines passed to the
handlers. `Process` is the overflow check with `size_t` arithmetic: `Total` wraps
around when `bytes` is -1. `HandleLine`, `LineTooLong`, `EmptyLine` and `NoLine` are
the four ways an iteration of the loop of `_receive_data` ends. An empty line ends the
loop and leaves what follows it in the buffer; the rests of several reads can add up to
an overflow, so a client that sends empty lines may be cut off although all its lines
are short (the exception `EmptyLineRead` of `GoodClientsStay`). Of a line it matters
only whether it is a QUIT, which marks the client; the loop goes on, as in the code.
`LineStream` is the promise: a stream of bytes and the list of its non-empty lines,
of which a growing prefix has been handled. It finds the k-th line by its rank, as the
line that k - 1 others precede, which needs no recursion.

### PollLoop

`pc` follows `init`, the loop and `shutdown`; `open` and `polled` are the
descriptors the process holds and those in `_pollfds`; `revents` keeps what the last
successful `poll()` stored, so that the iteration after an interrupted one meets
stale events; the revents of a new entry are 0; `left` are the events of this iteration
not served yet. `outbox` is what the kernel holds for a peer (at most `Room`), so a send
may be partial, take nothing or fail. `peer` says whether the peer has closed or reset
the connection. The outcomes of a read are `Receive` (lines, which may queue replies to
any connected clients), `ReceiveError`, `ReceiveNothing` (a stale event) and
`ReceiveEnd`: `recv()` returned 0, and `errno`, which it does not set, decides whether
the server notices. Every system call that the code tests may fail under `failure`. An
exception leads through `main` to `shutdown()` twice (in `main` and in the destructor).
The history variable `orphans` records the descriptor whose `fcntl()` failed, which no
table holds.

### ModeLine

A mode string, the words after it, and the loop of `_parseMode` one character at a
time. The properties read the line as a whole (`SignAt`, `Letters`, `Wanting`), and
compare the loop's vector with that.

## What the runs check

Bounds common to the runs of `MCIrcServer`: two or three clients (as many
addresses, descriptors and nicknames), one channel, `MaxMarks` = 2 marks
per iteration (two are what it takes to remove a client twice). In `Everything`
`UintMax` = 2 and `UlongMax` = 3: of the limit arguments 0 to 3 the first and the last are
refused, 1 is a limit that turns the second client away and 2 one that admits it;
`StaleErrno` has the argument beyond `UlongMax`. Two
clients suffice for every relation between a leaver and a stayer, three for a
leaver, an heir and an operator among others. No handler relates two channels but by
naming or leaving several, which `RemoveFromChannels` and `HandleJoin` do for each by
itself; the theorems cover any number of channels. Addresses and nicknames are
symmetric: the allocator is arbitrary, and lower-case forms are only compared with each
other.

| Run | Instance | What it shows |
|---|---|---|
| `Everything` | 2 clients whose nicknames differ in case only, 1 channel with key, limit, +i and rank, JOIN lines of 2 names, all commands, all hazards | the inductive invariant `IndInv`; `Clients` and `_pollfds` agree; no pointer to a deleted channel, no empty channel, operators are users; nicknames are unique; only registered clients enter a channel, within the limit and invited |
| `Orderly` | 3 clients, every session ends with QUIT, sends may block, MODE lines of 2 changes | `_users` and `_channels` agree; the users of a channel are registered; of the undefined steps only a last departure's `*begin()` ends the process; departures leave an operator; the server implements `IrcChannels` |
| `JoinKeys` | lines of 3 channels and 3 keys | the right key is enough |
| `Reads` | streams of 7 bytes, reads of up to 3, buffer of 6, lines under 3 | `BufferIsBounded`; `GoodClientsStay`: short lines, none of them empty, never cost the connection (but for the wrap-around); the loop implements `LineStream`; `LinesAreServed` |
| `Delivery` | 2 descriptors, room for 1, 2 lines, failures, closed and reset connections, QUITs, refused sends, signals | `OpenArePolled`, `PolloutWhilePending`; `NothingLeftOpen`: but for a descriptor whose `fcntl()` failed; `MarkedForCause`: nobody is cut off for an event that holds no longer; replies are sent, lines read, closed and reset connections removed, a signal stops the server with the next event |
| `ModeLine` | strings of up to 4 of `i k l o x + -`, up to 3 words | each mode once, in order, with its sign and its argument; the table of `_handleMode` |

The bounds of the new modules. Seven bytes hold three non-empty lines, an
over-long one, or an empty one with lines on either side; a read of 3 can end
between CR and LF; the buffer of 6 is `LineLimit + ReadSize`, the least
`LineBufferAssumption` admits, so that it is met exactly. Streams of seven bytes are too
short for empty lines to overflow the buffer; the theorem about `GoodClientsStay` covers
the streams that are not. Two lines can queue replies of 2 for a client whose kernel
buffer has room for 1, which needs two sends; two descriptors give starvation and reuse.
The descriptors of `PollLoop` are interchangeable, so the liveness properties are checked
for one of them (`Watched`). Four
characters hold a sign, two modes and another sign, or three modes of which the last
lacks its argument.

Fairness. `LineBuffer` assumes `WF(Serve)`: poll() is level-triggered and the loop
serves every entry it reports (shown by `LinesAreRead`), so unread bytes are read and
the loop over the lines goes on. `PollLoop` assumes `WF(Server)`, that the process is
scheduled, and that each peer reads what the kernel holds for it; a peer that never
reads is owed nothing. `SF(Send)` says that the kernel, which under `pressure` may refuse
a socket that has room, does not do so for ever. The liveness properties excuse a server
that is stopped, and one in which a client is marked twice (`MarkedTwice`): its second
removal ends the process, which `DoubleQuit` shows. No other crash counts as success.
No fairness is assumed of clients that connect or send, of
signals, or of any single branch of the loop. The runs of `IrcServer` check safety
only: its loop may rest at any point. A state in which the process has ended stutters
(`Terminated`, `Ended`), so deadlock is checked everywhere but in `LineBuffer`, where
a client that is gone or has nothing to send rests.

Some runs end in a counterexample, where the code disagrees with what its comments
say; the traces are short and can be followed in the source:

| Run | Property | Code | Comment |
|---|---|---|---|
| `LastClient` | `ChannelCeasesWithLastClient` | `Server.cpp:55` | `Server.hpp:62-64` |
| `DoubleQuit` | `RemovalKeepsServing` | `Server.cpp:54` | `CommandHandler.cpp:136`, `Server.cpp:28` |
| `KeysLacking` | `OnlyWithTheKey` | `CommandHandler.cpp:227` | `CommandHandler.cpp:183-184` |
| `StaleErrno` | `ValidLimitIsSet` | `CommandHandler.cpp:633` | `CommandHandler.cpp:634` |
| `EmptyLine` | `EveryLineIsHandled` | `Server.cpp:213` | `Server.cpp:208` |
| `SignalLost` | `SignalStopsServer` | `Server.cpp:419` | `Server.cpp:326` |

More is visible in the model without a run of its own. INVITE for a channel that does
not exist follows a null pointer (`HandleInvite`, under `inviteUnknown`;
`CommandHandler.cpp:422`, against `Client.hpp:22`). The departure of a last user reads
`*begin()` of an empty set (`ReadsEmptyBegin`; `CommandHandler.cpp:290`). An EAGAIN left by
`send()` hides the end of a stream (`ReadEof`, `ReceiveEnd`, and the premise of
`ClosedConnectionsGo`; `Server.cpp:190`). A reset that `recv()` and `send()` both meet in
one iteration marks the client twice, like two QUITs (`Server.cpp:191` and 282). A failing
`fcntl()` loses a descriptor (`FcntlFails`; `Server.cpp:159`). Nicknames are told apart by
case when taken and not when looked up (`NameTaken` and `GetClient`;
`CommandHandler.cpp:849`, `Server.cpp:503`). And registration can be got round once a
connection has ended without QUIT: the deleted `Client` stays in `Channel::_users`, a new
one may be allocated at its address, and PART, KICK, INVITE, PRIVMSG and NOTICE ask only
whether that address is in the set, so the new client acts in the channel, as operator
perhaps, without a password.

Every property of a passing run has a mutant, an operator next to the definition it
replaces that changes it the way a slip in the code would (`EmptiedNever`,
`SentOnce`, `AfterLineKeepsLF`, ...), under which TLC finds the property violated.

## What the proofs show

The theorems hold for every value of the constants that satisfies the assumptions
named in the modules: `ChannelAssumption` (the integer limits, finitely many
addresses), `StateAssumption` (null is no address, descriptors are numbers, `Lower`
maps nicknames to nicknames), `JoinKeysAssumption`, `LineBufferAssumption` (sizes are
numbers, a line and a read fit the buffer, `size_t` holds their sum, CR is not LF),
`PollLoopAssumption` and `ModeLineAssumption` (signs are no letters, the empty string
is no word). Nothing bounds the clients, the channels, the length of a line, a buffer
or `Hazards`.

`IrcServerProofs`: `Spec => []IndInv`, and from it `TypeCorrect`,
`ChannelPointersAreValid`, `OperatorsAreMembers`, `NoEmptyChannel` and
`ConnectionsArePolled`. None of these properties is inductive alone.
`NoDanglingChannel` survives a QUIT only if emptied channels are deleted and the
others keep their other users; it survives the deletion of a `Client` only if no
other descriptor holds the same address; it survives `Accept` only if the fresh
`Client` has no channels (`HeapOK`); and a handler works on a live client only if
`cur` stands at an entry of `_pollfds` that `Clients` knows (`PollfdsMatchClients`,
`LoopPosition`). `IndInv` is the conjunction of all of them. Its proof groups the
conjuncts by who can disturb them: `ConnOK` (connections and loop), `ObjectsOK`
(clients and channels), `ModesOK` (the MODE line in execution). There is a lemma
per action, and lemmas on what several actions share: `RemoveFacts` (what is left
after a client leaves a set of channels: QUIT, PART and KICK), `AfterLeaveFacts`,
`JoinedFacts`, `ClientUpdateKeepsObjectsOK`, `ChannelUpdateKeepsObjectsOK`,
`PollfdsWithoutFacts` (erasing one entry of a sequence without repetitions).

`MembershipProofs`: every step is calm (it changes no membership), an arrival, a
departure, the removal of a marked client or the end (`KindsOfSteps`,
`CalmSteps`). Two theorems about steps need nothing more than `Consistent`:
`ArrivalsAreAdmitted` (the limit needs `IsFiniteSet(Addr)`) and
`DeparturesPromote`. Two are about sessions that end with a QUIT that nothing follows
(`SessionsEndWithQuit`: no hazard but sends that block, INVITEs to missing channels and a
fatal `*begin()` of an empty set): `MembershipIsMutual`, and `OrderlySessionsAreSafe`, by
which the process dies of the last two only (`KnownUndefinedStep`). Their invariant,
`OrderlyInv`, adds `MarkedHaveLeft`: a
marked client is marked once, still connected, and has left its channels. This is
what makes its deletion harmless, and it is exactly what a QUIT establishes and an
end of stream does not. The condition cannot be dropped: `LastClient` and
`DoubleQuit` are the counterexamples.

`RegistrationProofs`: `OnlyRegisteredClientsEnter`, `RegistrationIsNotBypassed` and
`UniqueNicknames`. Only JOIN lets anybody into a channel (`KindsOfSteps`, `CalmSteps`), and
JOIN asks for `registered`; that the client then has its password, nickname and user name
needs `SessionsOK`: `registered` implies the other three, and while it is set no handler
takes one back. This holds whatever the connections do. That every address in
`Channel::_users` is a registered client's holds only when sessions end with QUIT, and is
proved under `SessionsEndWithQuit`: there the users are the clients that joined
(`MembershipIsMutual`). Uniqueness needs that two descriptors never share an address,
which `Consistent` gives.

`IrcChannelsProofs`: `PromiseIsKept`, that the server implements `IrcChannels` under
`SessionsEndWithQuit`. One lemma per abstract action says which change of the server's
variables is that action (`IsEnter`, `IsLeave`, ...); one per kind of step of the
server says which change it makes, from `OrderlyInv`. The invariant is needed twice: the
removal of a client is `Disconnect` only because the client is in no channel, and
JOIN's test for an existing channel is the abstract test for members only because a
channel exists exactly while it has users (`EmptyIsAbsent`).

`JoinKeysProofs`: over lines of any length, the right key is enough (`KeySuffices`). That
it is needed is false, as `KeysLacking` shows.

`LineBufferProofs`: `BufferStaysBounded`: the sum compared with `MAX_RECV_BUF` does not
wrap around for a read that returned bytes, since `size_t` holds buffer and read; it
does for -1, and then nothing is appended. The other theorems rest on `LineInv`
(`BufferIsTheStream`): while it is in use, the buffer is the stream from `Pos`, where a
line starts, up to what has been read (`BufferInv`), and as many lines have been handled
as end before `Pos`; between reads it holds no complete line unless an empty one was
read (`RestInv`). `GoodClientsAreKept` follows: an overflow needs a rest longer than a
line may be, and a rest without CRLF that starts a line is shorter in a stream whose
lines are short. Neither half is inductive alone: a line extracted is a line of the
stream only because `Pos` starts one, and that holds only because the loop ends where
no CRLF is left. `LinesAreNeverCut` is the refinement of `LineStream`: the line
`HandleLine` extracts is the one whose rank is the number handled, so each step is
`Handle`, `Send`, `Disconnect` or a stutter. `HandledIsThePrefix` reads it over time:
what was handled as the k-th line stays the k-th of the stream however much is sent
later. The lemmas these proofs share are about `LineStream`'s operators: what one more
byte adds to `Ends`, `Starts` and `LineEnds`, that ranks below it stay, and that the
line of a given rank is unique.

`PollLoopProofs`: `DescriptorsArePolled`, `InterestMatchesOutput` and
`ShutdownIsClean`, from `PollInv`, which says what is open and not polled at each
point of the program (nothing in the loop, the listening socket during `init`, at
connections in `orphans` after an exception), and that events are pending only while
`_pollfds` is walked. `ServedEventsAreTrue` adds `EventsHold`: until a signal interrupts
`poll()`, each event still to be served is true. Serving one entry takes away nothing
another reported (a handler lengthens other clients' send buffers and never shortens
them, and only the entry's own read and send consume), peers only add, and a new entry
has no event. So a read that finds nothing happens only to stale events, and
`NobodyIsCutOff` follows: `MarkedForCause` for every step.

`ModeLineProofs`: `ModesKeepTheirOrder` and `TheTableIsFollowed`, from `ModeLineInv`:
at each character the sign is `SignAt`, the argument index is one more than the number
of modes so far that want an argument, capped by the number of arguments, and the vector
is as long as the number of modes so far. The lemmas `SignStep` and `LetterStep` say what
one more character changes in these counts.

Only model-checked: the liveness properties (`LinesAreServed`, `RepliesArrive`,
`LinesAreRead`, `ResetConnectionsGo`, `ClosedConnectionsGo`, `StopsWithNextEvent`), which are beyond the prover;
and the disagreements (`ChannelCeasesWithLastClient`, `RemovalKeepsServing`,
`OnlyWithTheKey`, `ValidLimitIsSet`, `EveryLineIsHandled`, `SignalStopsServer`), which are counterexamples.
Every invariant, action property and refinement of a passing run has a theorem.

## Not modelled

- The text of replies: wording, numerics, prefixes, CRLF, the width of 512. No property
  of the state depends on it, and a comparison of strings is not what a model checker is
  for. Two hazards that live there (texts broadcast without prefix and CRLF,
  `width()` taken for a length) are listed in `PROJECT.json` without property.
- `_checkNickChars`, the test of channel names, the case of command names, and
  `splitByComma`: predicates and functions of one string. Their results are inputs of the
  actions: a nickname the model has is one that passed, a name that failed is `Empty`.
- NUL bytes in a stream (`append(buf)` ends at the first one): excluded from `Byte`.
- The arguments of the program, the creation times, the log.
- `removeInvited`, `setPass`, `getOperators` and others that nothing calls.
- `Makefile` and `README.md` of the repository.
