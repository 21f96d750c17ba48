----------------------------- MODULE LineBuffer -----------------------------
(***************************************************************************)
(* How the bytes of one client become lines: Server::_receive_data         *)
(* (classes/Server.cpp) and Client::extract_line (classes/Client.cpp).     *)
(* The other clients and the handlers are IrcServer's subject; of a line   *)
(* it only matters here whether it is a QUIT.                              *)
(***************************************************************************)
EXTENDS Integers, SequencesExt, FiniteSetsExt

CONSTANTS
  Text,       \* the bytes a line is made of
  Quit,       \* a line that begins with this byte is a QUIT
  CR, LF,
  ReadSize,   \* recv() returns at most this many bytes (sizeof buf - 1)
  MaxRecvBuf, \* MAX_RECV_BUF
  LineLimit,  \* a line has to be shorter than this (510)
  SizeMax,    \* the largest size_t
  MaxSent,    \* bound on the bytes the client sends
  Hazards     \* what the client and the network may do

\* long: lines of LineLimit bytes and more.    empty: lines without text.
\* spurious: recv() fails with EAGAIN after POLLIN.
AllHazards == {"long", "empty", "spurious"}

ASSUME LineBufferAssumption ==
  /\ Quit \in Text
  /\ CR # LF
  /\ ReadSize \in Nat \ {0}
  /\ LineLimit \in Nat \ {0}
  /\ MaxRecvBuf \in Nat /\ LineLimit + ReadSize <= MaxRecvBuf
  /\ SizeMax \in Nat /\ MaxRecvBuf + ReadSize <= SizeMax
  /\ MaxSent \in Nat
  /\ Hazards \subseteq AllHazards

VARIABLES
  sent,     \* all bytes the client has sent
  taken,    \* how many of them recv() has returned
  recv_buf, \* Client::recv_buf
  stage,    \* "poll", "lines" (in the loop of _receive_data) or "gone" (removed)
  marked,   \* the client is in _clients_to_disconnect
  handled   \* the lines passed to the parser and the handler

vars == <<sent, taken, recv_buf, stage, marked, handled>>

\* No NUL: append(buf) would end at it and lose the rest of that read.
Byte == Text \cup {CR, LF}

\* Where the CRLF pairs of s begin.
Ends(s) == {i \in 1 .. Len(s) - 1 : s[i] = CR /\ s[i + 1] = LF}

\* The promise made to the client.
Promise ==
  INSTANCE LineStream WITH gone <- stage = "gone"

\* No line of s reaches LineLimit bytes: from where one starts, a CRLF begins within
\* as many bytes, unless they are not there yet (the last may be half of a CRLF).
Short(s) ==
  \A b \in Promise!Starts(s) :
    LET last == b + LineLimit - 1 IN
    last <= Len(s) => \/ \E e \in Ends(s) : b <= e /\ e <= last
                      \/ last = Len(s) /\ s[last] = CR

EmptyLines(s) == Ends(s) \cap Promise!Starts(s)

Init ==
  /\ sent = <<>>
  /\ taken = 0
  /\ recv_buf = <<>>
  /\ stage = "poll"
  /\ marked = FALSE
  /\ handled = <<>>

-----------------------------------------------------------------------------
(* The client. *)

Send ==
  /\ Len(sent) < MaxSent
  /\ \E b \in Byte : sent' = Append(sent, b)
  /\ Short(sent') \/ "long" \in Hazards
  /\ EmptyLines(sent') = {} \/ "empty" \in Hazards
  /\ UNCHANGED <<taken, recv_buf, stage, marked, handled>>

-----------------------------------------------------------------------------
(* recv() and the check against overflow. *)

\* Mutant: the new bytes are not counted.
TotalBefore(bytes) == Len(recv_buf)

\* recv_buf.size() + bytes: bytes is converted to size_t, so -1 wraps around.
Total(bytes) == (Len(recv_buf) + bytes) % (SizeMax + 1)

\* recv() returned bytes, and stored buf.
Process(bytes, buf) ==
  IF Total(bytes) > MaxRecvBuf
    THEN marked' = TRUE /\ UNCHANGED <<recv_buf, stage>>
    ELSE /\ recv_buf' = recv_buf \o buf
         /\ stage' = "lines"
         /\ UNCHANGED marked

Read ==
  /\ stage = "poll" /\ ~marked
  /\ taken < Len(sent)
  /\ taken' = Min({taken + ReadSize, Len(sent)})
  /\ Process(taken' - taken, SubSeq(sent, taken + 1, taken'))
  /\ UNCHANGED <<sent, handled>>

\* recv() returns -1 with EAGAIN, which the code does not take for an error.
ReadNothing ==
  /\ "spurious" \in Hazards
  /\ stage = "poll" /\ ~marked
  /\ taken = Len(sent)
  /\ Process(-1, <<>>)
  /\ UNCHANGED <<sent, taken, handled>>

-----------------------------------------------------------------------------
(* The loop over the lines of recv_buf. *)

\* Mutant: the line feed stays in the buffer.
AfterLineKeepsLF(i) == SubSeq(recv_buf, i + 1, Len(recv_buf))

\* recv_buf without the line that ends before position i, and its CRLF.
AfterLine(i) == SubSeq(recv_buf, i + 2, Len(recv_buf))

\* find(): i is where the first CRLF of recv_buf begins; extract_line() returns
\* the i - 1 bytes before it, and removes them.
Extract(i) ==
  /\ stage = "lines"
  /\ i \in Ends(recv_buf)
  /\ \A j \in Ends(recv_buf) : i <= j
  /\ recv_buf' = AfterLine(i)
  /\ UNCHANGED <<sent, taken>>

\* Mutant: the CRLF is counted.
FitsWithEnd(length) == length + 2 < LineLimit

Fits(length) == length < LineLimit

\* The line goes to the parser and its handler.
HandleLine ==
  \E i \in 2 .. Len(recv_buf) :
    /\ Extract(i)
    /\ Fits(i - 1)
    /\ handled' = Append(handled, SubSeq(recv_buf, 1, i - 1))
    /\ marked' = (marked \/ recv_buf[1] = Quit)
    /\ UNCHANGED stage

LineTooLong ==
  /\ \E i \in 2 .. Len(recv_buf) : Extract(i) /\ ~Fits(i - 1)
  /\ marked' = TRUE
  /\ stage' = "poll"
  /\ UNCHANGED handled

\* extract_line() returns an empty string for an empty line as well: the loop
\* ends there, whatever follows it in the buffer.
EmptyLine ==
  /\ Extract(1)
  /\ stage' = "poll"
  /\ UNCHANGED <<marked, handled>>

\* Mutant: the loop ends when the buffer is empty only.
NoLineLate ==
  /\ stage = "lines"
  /\ recv_buf = <<>>
  /\ stage' = "poll"
  /\ UNCHANGED <<sent, taken, recv_buf, marked, handled>>

NoLine ==
  /\ stage = "lines"
  /\ Ends(recv_buf) = {}
  /\ stage' = "poll"
  /\ UNCHANGED <<sent, taken, recv_buf, marked, handled>>

\* The iteration of the poll loop ends: _disconnect_clients.
Disconnect ==
  /\ stage = "poll" /\ marked
  /\ stage' = "gone"
  /\ UNCHANGED <<sent, taken, recv_buf, marked, handled>>

-----------------------------------------------------------------------------

Serve == Read \/ HandleLine \/ LineTooLong \/ EmptyLine \/ NoLine \/ Disconnect

Next == Send \/ Serve \/ ReadNothing

\* poll() is level-triggered and the loop serves every entry it reports, so a
\* client with unread bytes is read again; nothing obliges the client to send.
Fairness == WF_vars(Serve)

Spec == Init /\ [][Next]_vars /\ Fairness

TypeOK ==
  /\ sent \in Seq(Byte)
  /\ taken \in 0 .. Len(sent)
  /\ recv_buf \in Seq(Byte)
  /\ stage \in {"poll", "lines", "gone"}
  /\ marked \in BOOLEAN
  /\ handled \in Seq(Seq(Byte))

\* The buffer never outgrows MAX_RECV_BUF, wherever the reads cut the stream and
\* although the sum that is compared with it can wrap around.
BufferIsBounded == TypeOK /\ Len(recv_buf) <= MaxRecvBuf

QuitHandled == \E k \in DOMAIN handled : handled[k][1] = Quit

\* An empty line was among the bytes read.
EmptyLineRead == \E e \in EmptyLines(sent) : e < taken

\* A client whose lines are short loses its connection by a QUIT only, however its
\* lines are spread over reads.  Two exceptions: the wrap-around of Total on an
\* empty buffer, when recv() fails with EAGAIN; and a client that sends empty lines,
\* each of which keeps what follows it in the buffer until that overflows.
GoodClientsStay ==
  marked /\ Short(sent) /\ ~EmptyLineRead /\ ~QuitHandled => recv_buf = <<>>

\* The loop implements the promise: no line is lost, cut, repeated or reordered.
LinesAreHandledInOrder == Promise!Spec

\* The first byte that is in no line extracted yet.
Pos == taken - Len(recv_buf) + 1

\* recv_buf will be read again.
InUse == stage = "lines" \/ (stage = "poll" /\ ~marked)

\* While it is in use the buffer holds the bytes read from Pos on, a line starts
\* there, and all lines before have been handled.
BufferInv ==
  InUse =>
    /\ Len(recv_buf) <= taken
    /\ \A i \in DOMAIN recv_buf : recv_buf[i] = sent[Pos + i - 1]
    /\ Pos \in Promise!Starts(sent)
    /\ Len(handled) = Cardinality(Promise!EndsBefore(sent, Pos))

\* Between two reads the buffer holds no complete line.
RestInv == stage = "poll" /\ ~marked => Ends(recv_buf) = {} \/ EmptyLineRead

\* The inductive invariant.
LineInv == BufferIsBounded /\ BufferInv /\ RestInv /\ GoodClientsStay

\* s up to its first empty line.
BeforeEmptyLine(s) ==
  IF EmptyLines(s) = {} THEN s ELSE SubSeq(s, 1, Min(EmptyLines(s)) - 1)

\* A complete line that no empty line precedes is handled in the end, unless the
\* client goes: no reading is needed beyond that of the bytes it consists of.
LinesAreServed ==
  \A k \in 1 .. MaxSent :
    Len(Promise!Lines(BeforeEmptyLine(sent))) >= k
      ~> Len(handled) >= k \/ stage = "gone"

\* "extract full lines if any, send each individually to PARSE + HANDLE"
\* (_receive_data): every complete line is handled, unless the client goes.
EveryLineIsHandled ==
  \A k \in 1 .. MaxSent :
    Len(Promise!Lines(sent)) >= k ~> Len(handled) >= k \/ stage = "gone"

=============================================================================
