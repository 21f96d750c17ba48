-------------------------- MODULE PollLoopProofs ---------------------------
(***************************************************************************)
(* Proofs about the poll loop, for any number of connections, any length   *)
(* of replies and any socket buffer.                                       *)
(***************************************************************************)
EXTENDS PollLoop, TLAPS

LEMMA MinOfTwo ==
  ASSUME NEW a \in Nat, NEW b \in Nat
  PROVE  Min({a, b}) \in Nat /\ Min({a, b}) <= a /\ Min({a, b}) <= b
<1>1. \E x \in {a, b} : \A y \in {a, b} : x <= y
  <2>1. CASE a <= b
    BY <2>1
  <2>2. CASE ~(a <= b)
    BY <2>2
  <2>3. QED
    BY <2>1, <2>2
<1>2. Min({a, b}) \in {a, b} /\ \A y \in {a, b} : Min({a, b}) <= y
  BY <1>1 DEF Min
<1>3. QED
  BY <1>2

LEMMA InitPollInv == Init => PollInv
<1> SUFFICES ASSUME Init PROVE PollInv
  OBVIOUS
<1>1. TypeOK
  <2>1. pollout \in [Fds -> BOOLEAN]
    BY DEF Init
  <2>2. outbox \in [Fds -> 0 .. Room] /\ lines \in 0 .. MaxLines
    BY PollLoopAssumption DEF Init
  <2>3. QED
    BY <2>1, <2>2 DEF Init, TypeOK, PCs, All
<1>2. PolloutWhilePending
  BY DEF Init, PolloutWhilePending
<1>3. QED
  BY <1>1, <1>2 DEF Init, PollInv, OpenArePolled, Looping, Stopped

-----------------------------------------------------------------------------
(* One lemma for each group of actions that touch the same part of the state. *)

\* init(), the loop condition and shutdown() change pc and the descriptors.
LEMMA ControlStepsKeepPollInv ==
  ASSUME PollInv,
         OpenSocket \/ Setup \/ While \/ EnterPoll \/ PollFails \/ EndOfLoop
           \/ Removed \/ Shutdown
  PROVE  PollInv'
<1> USE PollLoopAssumption
    DEF PollInv, OpenArePolled, TypeOK, PolloutWhilePending, PCs, Looping, Stopped, All,
        peerVars, osVars
<1>1. CASE OpenSocket
  BY <1>1 DEF OpenSocket
<1>2. CASE Setup
  BY <1>2 DEF Setup
<1>3. CASE While \/ EnterPoll \/ PollFails
  BY <1>3 DEF While, EnterPoll, PollFails
<1>4. CASE EndOfLoop \/ Removed
  BY <1>4 DEF EndOfLoop, Removed, NobodyMarked
<1>5. CASE Shutdown
  BY <1>5 DEF Shutdown
<1>6. QED
  BY <1>1, <1>2, <1>3, <1>4, <1>5

\* poll() returns, or a signal interrupts it: events become pending.
LEMMA EventsKeepPollInv ==
  ASSUME PollInv, PollReturns \/ Signal
  PROVE  PollInv'
<1>1. CASE PollReturns
  <2>1. \A fd \in All : Ready(fd) \subseteq {"in", "out"}
    BY DEF Ready
  <2>2. revents' \in [All -> SUBSET {"in", "out"}]
    BY <1>1, <2>1 DEF PollReturns
  <2>3. left' \subseteq polled \X {"in", "out"} /\ UNCHANGED polled
    BY <1>1 DEF PollReturns, Pending
  <2>4. QED
    BY <1>1, <2>2, <2>3
    DEF PollReturns, PollInv, OpenArePolled, TypeOK, PolloutWhilePending, PCs, Looping, Stopped,
        peerVars, osVars
<1>2. CASE Signal
  BY <1>2 DEF Signal, Pending, PollInv, OpenArePolled, TypeOK, PolloutWhilePending, PCs,
              Looping, Stopped, peerVars, osVars
<1>3. QED
  BY <1>1, <1>2

\* The listening socket: a descriptor is opened and polled, or the loop ends.
LEMMA AcceptStepsKeepPollInv ==
  ASSUME PollInv, Accept \/ AcceptFails \/ FcntlFails
  PROVE  PollInv'
<1> USE PollLoopAssumption
    DEF PollInv, OpenArePolled, TypeOK, PolloutWhilePending, PCs, Looping, Stopped, All,
        peerVars, osVars, Serving
<1>1. CASE Accept
  BY <1>1 DEF Accept
<1>2. CASE AcceptFails
  BY <1>2 DEF AcceptFails
<1>3. CASE FcntlFails
  <2>1. PICK fd \in Fds \ open : open' = open \cup {fd} /\ orphans' = orphans \cup {fd}
    BY <1>3 DEF FcntlFails
  <2>2. pc = "serve" /\ open = polled /\ orphans = {}
    BY <1>3 DEF FcntlFails
  <2>3. open' \ polled = orphans' /\ orphans' \cap polled = {}
    BY <2>1, <2>2
  <2>4. QED
    BY <1>3, <2>1, <2>3 DEF FcntlFails
<1>4. QED
  BY <1>1, <1>2, <1>3

\* Replies queued for any clients: the send buffers grow, and with them the
\* interest in POLLOUT.
LEMMA ReceiveKeepsPollInv ==
  ASSUME PollInv, NEW fd \in Fds,
         Receive(fd) \/ ReceiveError(fd) \/ ReceiveNothing(fd) \/ ReceiveEnd(fd)
  PROVE  PollInv'
<1>1. CASE Receive(fd)
  <2>1. /\ send_buf \in [Fds -> Nat] /\ pollout \in [Fds -> BOOLEAN]
        /\ PolloutWhilePending
        /\ Reply \in Nat /\ Reply > 0
    BY PollLoopAssumption DEF PollInv, OpenArePolled, TypeOK
  <2>2. PICK T \in SUBSET Connected : Queued(T)
    BY <1>1 DEF Receive
  <2>3. send_buf' \in [Fds -> Nat]
    BY <2>1, <2>2 DEF Queued
  <2>4. pollout' \in [Fds -> BOOLEAN]
    BY <2>1, <2>2 DEF Queued
  <2>5. PolloutWhilePending'
    <3>1. SUFFICES ASSUME NEW t \in Fds
                   PROVE  pollout'[t] <=> send_buf'[t] > 0
      BY DEF PolloutWhilePending
    <3>2. CASE t \in T
      BY <2>1, <2>2, <3>2 DEF Queued
    <3>3. CASE t \notin T
      BY <2>1, <2>2, <3>3 DEF Queued, PolloutWhilePending
    <3>4. QED
      BY <3>2, <3>3
  <2>6. marks' \in [Fds -> Nat] /\ inbox' \in [Fds -> Nat]
    <3>1. PICK n \in Quits(fd) : marks' = [marks EXCEPT ![fd] = @ + n]
      BY <1>1 DEF Receive
    <3>2. n \in Nat
      BY DEF Quits, PollInv, OpenArePolled, TypeOK
    <3>3. QED
      BY <1>1, <3>1, <3>2 DEF Receive, PollInv, OpenArePolled, TypeOK
  <2>7. /\ pc = "serve" /\ left' \subseteq left
        /\ UNCHANGED <<pc, signal, open, polled, revents, backlog, outbox, peer, lines,
                     orphans>>
        /\ errno' \in {errno, "other"}
    BY <1>1 DEF Receive, Turn, Serving
  <2>8. QED
    BY <2>3, <2>4, <2>5, <2>6, <2>7 DEF PollInv, OpenArePolled, TypeOK, Looping, Stopped
<1>2. CASE ReceiveError(fd) \/ ReceiveNothing(fd) \/ ReceiveEnd(fd)
  BY <1>2 DEF ReceiveError, ReceiveNothing, ReceiveEnd, Turn, Serving, Marked, PollInv,
              OpenArePolled, TypeOK, PolloutWhilePending, Looping, Stopped, peerVars, osVars
<1>3. QED
  BY <1>1, <1>2

\* send() takes at most what is there, and interest ends with the last byte.
LEMMA SendKeepsPollInv ==
  ASSUME PollInv, NEW fd \in Fds, Send(fd) \/ SendError(fd) \/ SendNothing(fd)
  PROVE  PollInv'
<1>1. CASE Send(fd)
  <2>1. /\ send_buf \in [Fds -> Nat] /\ pollout \in [Fds -> BOOLEAN]
        /\ outbox \in [Fds -> 0 .. Room] /\ Room \in Nat
        /\ PolloutWhilePending
    BY PollLoopAssumption DEF PollInv, OpenArePolled, TypeOK
  <2>2. PICK n \in 1 .. Min({send_buf[fd], Room - outbox[fd]}) :
          Sent(fd, n) /\ outbox' = [outbox EXCEPT ![fd] = @ + n]
    BY <1>1 DEF Send
  <2>3. n \in Nat /\ n >= 1 /\ n <= send_buf[fd] /\ n <= Room - outbox[fd]
    BY <2>1, <2>2, MinOfTwo
  <2>4. send_buf' \in [Fds -> Nat] /\ outbox' \in [Fds -> 0 .. Room]
    BY <2>1, <2>2, <2>3 DEF Sent
  <2>5. pollout' \in [Fds -> BOOLEAN]
    BY <2>1, <2>2 DEF Sent
  <2>6. PolloutWhilePending'
    <3>1. SUFFICES ASSUME NEW t \in Fds
                   PROVE  pollout'[t] <=> send_buf'[t] > 0
      BY DEF PolloutWhilePending
    <3>2. CASE t # fd
      BY <2>1, <2>2, <3>2 DEF Sent, PolloutWhilePending
    <3>3. CASE t = fd
      <4>1. send_buf'[t] = send_buf[t] - n
        BY <2>1, <2>2, <3>3 DEF Sent
      <4>2. pollout'[t] = IF send_buf[t] = n THEN FALSE ELSE pollout[t]
        BY <2>1, <2>2, <3>3 DEF Sent
      <4>3. pollout[t]
        BY <2>1, <2>3, <3>3 DEF PolloutWhilePending
      <4>4. QED
        BY <2>1, <2>3, <3>3, <4>1, <4>2, <4>3
    <3>4. QED
      BY <3>2, <3>3
  <2>7. QED
    BY <1>1, <2>4, <2>5, <2>6
    DEF Send, Turn, Serving, PollInv, OpenArePolled, TypeOK, Looping, Stopped, osVars
<1>2. CASE SendError(fd) \/ SendNothing(fd)
  BY <1>2 DEF SendError, SendNothing, Turn, Serving, Marked, PollInv, OpenArePolled, TypeOK,
              PolloutWhilePending, Looping, Stopped, peerVars, osVars
<1>3. QED
  BY <1>1, <1>2

\* A client is removed from everything at once.
LEMMA RemovalKeepsPollInv ==
  ASSUME PollInv, NEW fd \in Fds, Remove(fd) \/ RemoveAgain(fd)
  PROVE  PollInv'
<1> USE PollLoopAssumption
    DEF PollInv, OpenArePolled, TypeOK, PolloutWhilePending, PCs, Looping, Stopped, All,
        peerVars, osVars
<1>1. CASE Remove(fd)
  BY <1>1 DEF Remove
<1>2. CASE RemoveAgain(fd)
  BY <1>2 DEF RemoveAgain
<1>3. QED
  BY <1>1, <1>2

LEMMA PeersKeepPollInv ==
  ASSUME PollInv, Peers \/ UNCHANGED vars
  PROVE  PollInv'
<1> USE PollLoopAssumption
    DEF PollInv, OpenArePolled, TypeOK, PolloutWhilePending, Looping, Stopped, All,
        peerVars, osVars,
        serverVars
<1>1. CASE Connect \/ UNCHANGED vars
  BY <1>1 DEF Connect, vars
<1>2. ASSUME NEW fd \in Fds, SendLine(fd) \/ ReadReplies(fd) \/ Close(fd) \/ Reset(fd)
      PROVE  PollInv'
  <2>1. CASE SendLine(fd)
    BY <2>1 DEF SendLine
  <2>2. CASE ReadReplies(fd)
    BY <2>2 DEF ReadReplies
  <2>3. CASE Close(fd) \/ Reset(fd)
    BY <2>3 DEF Close, Reset
  <2>4. QED
    BY <1>2, <2>1, <2>2, <2>3
<1>3. QED
  BY <1>1, <1>2 DEF Peers

LEMMA NextPollInv == PollInv /\ [Next]_vars => PollInv'
<1> SUFFICES ASSUME PollInv, [Next]_vars PROVE PollInv'
  OBVIOUS
<1>1. CASE Server
  BY <1>1, ControlStepsKeepPollInv, EventsKeepPollInv, AcceptStepsKeepPollInv,
     ReceiveKeepsPollInv, SendKeepsPollInv, RemovalKeepsPollInv DEF Server
<1>2. CASE Signal
  BY <1>2, EventsKeepPollInv
<1>3. CASE Peers \/ Ended \/ UNCHANGED vars
  BY <1>3, PeersKeepPollInv DEF Ended
<1>4. QED
  BY <1>1, <1>2, <1>3 DEF Next

-----------------------------------------------------------------------------

LEMMA PollInvariant == Spec => []PollInv
BY InitPollInv, NextPollInv, PTL DEF Spec

\* The loop polls exactly the descriptors that are open, however connections come
\* and go.
THEOREM DescriptorsArePolled == Spec => []OpenArePolled
<1>1. PollInv => OpenArePolled
  BY DEF PollInv
<1>2. QED
  BY <1>1, PollInvariant, PTL

\* POLLOUT is asked for exactly while something is to be sent, whatever the sizes of
\* replies and of the kernel's buffer.
THEOREM InterestMatchesOutput == Spec => []PolloutWhilePending
<1>1. PollInv => PolloutWhilePending
  BY DEF PollInv
<1>2. QED
  BY <1>1, PollInvariant, PTL

\* However the process ends, short of a crash, no descriptor is left open but that
\* of a connection whose own fcntl() failed.
THEOREM ShutdownIsClean == Spec => []NothingLeftOpen
<1>1. PollInv => NothingLeftOpen
  <2>1. SUFFICES ASSUME PollInv, pc = "ended" PROVE open = orphans
    BY DEF NothingLeftOpen
  <2>2. open \ polled = orphans /\ open \cap polled = {}
    BY <2>1 DEF PollInv, Stopped
  <2>3. QED
    BY <2>2
<1>2. QED
  BY <1>1, PollInvariant, PTL

-----------------------------------------------------------------------------
(* Events are true of their descriptors until a signal interrupts poll().    *)

\* poll() reports what is the case, and asks for POLLOUT where output is pending.
LEMMA PollReportsTheTruth ==
  ASSUME PollInv, PollReturns
  PROVE  EventsHold'
<1>1. SUFFICES ASSUME NEW event \in Pending(revents')
               PROVE  EventHolds(event[1], event[2])'
  BY DEF PollReturns, EventsHold
<1> DEFINE fd == event[1]
           e == event[2]
<1>2. /\ fd \in polled /\ fd \in All /\ e \in {"in", "out"} /\ e \in Ready(fd)
      /\ UNCHANGED <<send_buf, peerVars, osVars>>
  BY <1>1 DEF Pending, PollReturns, PollInv, OpenArePolled, TypeOK
<1>3. fd # Listener => fd \in Fds /\ (pollout[fd] => send_buf[fd] > 0)
  BY <1>2 DEF All, PollInv, PolloutWhilePending
<1>4. EventHolds(fd, e)
  BY <1>2, <1>3 DEF Ready, Writable, EventHolds
<1>5. QED
  BY <1>2, <1>4 DEF EventHolds, Writable, peerVars, osVars

\* Serving one event takes nothing away that another event reported.
LEMMA ServingKeepsEventsHold ==
  ASSUME PollInv, EventsHold, NEW fd \in Fds,
         \/ Receive(fd) \/ ReceiveError(fd) \/ ReceiveNothing(fd) \/ ReceiveEnd(fd)
         \/ Send(fd) \/ SendError(fd) \/ SendNothing(fd)
  PROVE  EventsHold'
<1>1. SUFFICES ASSUME ~signal, NEW event \in left'
               PROVE  EventHolds(event[1], event[2])'
  BY DEF EventsHold, Receive, ReceiveError, ReceiveNothing, ReceiveEnd,
              Send, SendError, SendNothing, Turn
<1> DEFINE g == event[1]
           e == event[2]
<1>2. /\ event \in left /\ event = <<g, e>> /\ g \in All
      /\ EventHolds(g, e)
  BY <1>1 DEF EventsHold, Receive, ReceiveError, ReceiveNothing, ReceiveEnd,
              Send, SendError, SendNothing, Turn, PollInv,
              OpenArePolled, TypeOK
<1>3. /\ send_buf \in [Fds -> Nat] /\ inbox \in [Fds -> Nat] /\ outbox \in [Fds -> 0 .. Room]
      /\ g # Listener => g \in Fds
  BY <1>2 DEF PollInv, OpenArePolled, TypeOK, All
<1> HIDE DEF g, e
<1>4. CASE Receive(fd)
  <2>1. /\ event # <<fd, "in">>
        /\ UNCHANGED <<backlog, outbox, peer>>
        /\ inbox' = [inbox EXCEPT ![fd] = 0]
    BY <1>1, <1>4 DEF Receive, Turn
  <2>2. PICK T \in SUBSET Connected : Queued(T)
    BY <1>4 DEF Receive
  <2>3. \A t \in Fds : send_buf[t] > 0 => send_buf'[t] > 0
    BY <1>3, <2>2, PollLoopAssumption DEF Queued
  <2>4. g # Listener /\ e = "in" => inbox'[g] = inbox[g]
    BY <1>2, <1>3, <2>1
  <2>5. EventHolds(g, e)'
    BY <1>2, <1>3, <2>1, <2>3, <2>4 DEF EventHolds, Writable
  <2>6. QED
    BY <2>5 DEF g, e
<1>5. CASE Send(fd)
  <2>1. PICK n \in 1 .. Min({send_buf[fd], Room - outbox[fd]}) :
          Sent(fd, n) /\ outbox' = [outbox EXCEPT ![fd] = @ + n]
    BY <1>5 DEF Send
  <2>2. event # <<fd, "out">> /\ UNCHANGED <<backlog, inbox, peer>>
    BY <1>1, <1>5 DEF Send, Turn
  <2>3. g # Listener /\ e = "out" => send_buf'[g] = send_buf[g] /\ outbox'[g] = outbox[g]
    BY <1>2, <1>3, <2>1, <2>2 DEF Sent
  <2>4. EventHolds(g, e)'
    BY <1>2, <2>2, <2>3 DEF EventHolds, Writable
  <2>5. QED
    BY <2>4 DEF g, e
<1>6. CASE \/ ReceiveError(fd) \/ ReceiveNothing(fd) \/ ReceiveEnd(fd)
           \/ SendError(fd) \/ SendNothing(fd)
  <2>1. EventHolds(g, e)'
    BY <1>2, <1>6 DEF ReceiveError, ReceiveNothing, ReceiveEnd, SendError, SendNothing,
                      EventHolds, Writable, peerVars, osVars
  <2>2. QED
    BY <2>1 DEF g, e
<1>7. QED
  BY <1>4, <1>5, <1>6

\* The connection that accept() takes is the one reported, and the new entry has no
\* events.
LEMMA AcceptKeepsEventsHold ==
  ASSUME PollInv, EventsHold, Accept
  PROVE  EventsHold'
<1>1. SUFFICES ASSUME ~signal, NEW event \in left'
               PROVE  EventHolds(event[1], event[2])'
  BY DEF EventsHold, Accept
<1>2. event \in left /\ event # <<Listener, "in">> /\ event = <<event[1], event[2]>>
  BY <1>1 DEF Accept, PollInv, OpenArePolled, TypeOK
<1>3. EventHolds(event[1], event[2]) /\ event[1] # Listener
  BY <1>1, <1>2 DEF EventsHold, EventHolds, Writable
<1>4. QED
  BY <1>3 DEF Accept, EventHolds, Writable

\* What a peer does makes no event untrue.
LEMMA PeersKeepEventsHold ==
  ASSUME PollInv, EventsHold, Peers
  PROVE  EventsHold'
<1>1. SUFFICES ASSUME ~signal, NEW event \in left
               PROVE  EventHolds(event[1], event[2])'
  BY DEF EventsHold, Peers, Connect, SendLine, ReadReplies, Close, Reset, serverVars
<1>2. EventHolds(event[1], event[2]) /\ event[1] \in All
  BY <1>1 DEF EventsHold, PollInv, OpenArePolled, TypeOK
<1> DEFINE g == event[1]
           e == event[2]
<1>3. /\ inbox \in [Fds -> Nat] /\ outbox \in [Fds -> 0 .. Room]
      /\ peer \in [Fds -> {"open", "closed", "reset"}]
      /\ g # Listener => g \in Fds
      /\ 0 < Room
  BY <1>2, PollLoopAssumption DEF PollInv, OpenArePolled, TypeOK, All
<1> HIDE DEF g, e
<1>4. CASE Connect
  BY <1>2, <1>4 DEF Connect, EventHolds, Writable, serverVars
<1>5. ASSUME NEW fd \in Fds, SendLine(fd) \/ ReadReplies(fd) \/ Close(fd) \/ Reset(fd)
      PROVE  EventHolds(event[1], event[2])'
  <2>1. CASE SendLine(fd)
    <3>1. g # Listener /\ inbox[g] > 0 => inbox'[g] > 0
      BY <1>3, <2>1 DEF SendLine
    <3>2. QED
      BY <1>2, <2>1, <3>1 DEF SendLine, EventHolds, Writable, serverVars, g, e
  <2>2. CASE ReadReplies(fd)
    <3>1. g # Listener /\ outbox[g] < Room => outbox'[g] < Room
      BY <1>3, <2>2 DEF ReadReplies
    <3>2. QED
      BY <1>2, <2>2, <3>1 DEF ReadReplies, EventHolds, Writable, serverVars, g, e
  <2>3. CASE Close(fd) \/ Reset(fd)
    <3>1. g # Listener => /\ peer[g] # "open" => peer'[g] # "open"
                          /\ peer[g] = "reset" => peer'[g] = "reset"
      BY <1>3, <2>3 DEF Close, Reset
    <3>2. QED
      BY <1>2, <2>3, <3>1 DEF Close, Reset, EventHolds, Writable, serverVars, g, e
  <2>4. QED
    BY <1>5, <2>1, <2>2, <2>3
<1>6. QED
  BY <1>4, <1>5 DEF Peers

LEMMA NextKeepsEventsHold == PollInv /\ EventsHold /\ [Next]_vars => EventsHold'
<1> SUFFICES ASSUME PollInv, EventsHold, [Next]_vars PROVE EventsHold'
  OBVIOUS
<1>1. CASE UNCHANGED vars \/ Ended
  BY <1>1 DEF Ended, vars, peerVars, osVars, EventsHold, EventHolds, Writable
<1>2. CASE Signal
  BY <1>2 DEF Signal, EventsHold
<1>3. CASE \/ OpenSocket \/ Setup \/ While \/ EnterPoll \/ PollFails \/ EndOfLoop \/ Removed
           \/ Shutdown \/ AcceptFails \/ FcntlFails
           \/ \E fd \in Fds : Remove(fd) \/ RemoveAgain(fd)
  <2>1. left' = {}
    BY <1>3 DEF OpenSocket, Setup, While, EnterPoll, PollFails, EndOfLoop, Removed, Shutdown,
                AcceptFails, FcntlFails, Remove, RemoveAgain, PollInv
  <2>2. QED
    BY <2>1 DEF EventsHold
<1>4. CASE PollReturns \/ Accept \/ Peers
  BY <1>4, PollReportsTheTruth, AcceptKeepsEventsHold, PeersKeepEventsHold
<1>5. CASE \E fd \in Fds : \/ Receive(fd) \/ ReceiveError(fd) \/ ReceiveNothing(fd)
                           \/ ReceiveEnd(fd) \/ Send(fd) \/ SendError(fd) \/ SendNothing(fd)
  BY <1>5, ServingKeepsEventsHold
<1>6. QED
  BY <1>1, <1>2, <1>3, <1>4, <1>5 DEF Next, Server

LEMMA EventsInvariant == Spec => []EventsHold
<1>1. Init => EventsHold
  BY DEF Init, EventsHold
<1>2. QED
  BY <1>1, PollInvariant, NextKeepsEventsHold, PTL DEF Spec

\* Which steps mark, and what they have seen.
LEMMA MarksHaveCauses ==
  ASSUME PollInv, EventsHold, [Next]_vars, NEW fd \in Fds, marks'[fd] > marks[fd]
  PROVE  inbox[fd] > 0 \/ peer[fd] # "open" \/ signal
<1>1. marks \in [Fds -> Nat] /\ fd # Listener
  BY PollLoopAssumption DEF PollInv, OpenArePolled, TypeOK
<1>2. marks' # marks
  BY <1>1
<1>3. PICK g \in Fds : \/ Receive(g) \/ ReceiveError(g) \/ ReceiveNothing(g) \/ ReceiveEnd(g)
                      \/ SendError(g) \/ Remove(g)
  BY <1>2 DEF Next, Server, OpenSocket, Setup, While, EnterPoll, PollReturns, PollFails, Accept,
     AcceptFails, FcntlFails, EndOfLoop, Removed, Shutdown, Send, SendNothing, RemoveAgain,
     Signal, Peers,
     Connect, SendLine, ReadReplies, Close, Reset, Ended, serverVars, vars
<1>4. g = fd
  <2>1. \/ \E n \in Nat : marks' = [marks EXCEPT ![g] = n]
        \/ marks' = marks
    BY <1>1, <1>3 DEF Receive, Quits, ReceiveError, ReceiveNothing, ReceiveEnd,
                      SendError, Remove, Marked, PollInv,
                      OpenArePolled, TypeOK
  <2>2. QED
    BY <1>1, <1>2, <2>1
<1>5. CASE Receive(g)
  BY <1>4, <1>5 DEF Receive
<1>6. CASE ReceiveNothing(g)
  <2>1. <<fd, "in">> \in left
    BY <1>4, <1>6 DEF ReceiveNothing, Turn, Serving
  <2>2. ~signal => EventHolds(fd, "in")
    BY <2>1 DEF EventsHold
  <2>3. QED
    BY <1>1, <2>2 DEF EventHolds, Writable
<1>7. CASE ReceiveError(g) \/ ReceiveEnd(g) \/ SendError(g)
  BY <1>2, <1>4, <1>7 DEF ReceiveError, ReceiveEnd, SendError
<1>8. CASE Remove(g)
  <2>1. marks'[fd] = marks[fd] - 1
    BY <1>1, <1>4, <1>8 DEF Remove
  <2>2. QED
    BY <1>1, <2>1
<1>9. QED
  BY <1>3, <1>5, <1>6, <1>7, <1>8

\* Until a signal interrupts poll(), the loop serves no event that is not true any more:
\* accept() is called when a connection waits, recv() when there is something to read,
\* send() when there is something to send and room for it.
THEOREM ServedEventsAreTrue == Spec => []EventsHold
BY EventsInvariant

\* No connection is cut off for a read from a socket without data, for any number of
\* connections and whatever the other ones do.
THEOREM NobodyIsCutOff == Spec => MarkedForCause
<1> DEFINE A == \A fd \in Fds :
                  marks'[fd] > marks[fd] => inbox[fd] > 0 \/ peer[fd] # "open" \/ signal
<1>1. PollInv /\ EventsHold /\ [Next]_vars => [A]_vars
  BY MarksHaveCauses
<1> HIDE DEF A
<1>2. Spec => [][A]_vars
  BY <1>1, PollInvariant, EventsInvariant, PTL DEF Spec
<1>3. QED
  BY <1>2 DEF MarkedForCause, A

=============================================================================
