----------------------------- MODULE LineStream -----------------------------
(***************************************************************************)
(* What a client is promised about the lines it sends (the comments of     *)
(* Client::extract_line and Server::_receive_data): each complete line     *)
(* that is not empty is handled once, in the order sent, however the       *)
(* network cuts the stream.  That it is handled at all, unless the client  *)
(* is disconnected first, is LinesAreServed of LineBuffer.                 *)
(***************************************************************************)
EXTENDS Integers, SequencesExt, FiniteSetsExt

CONSTANTS
  Byte, \* what a client can send
  CR, LF

VARIABLES
  sent,    \* all bytes the client has sent
  handled, \* the lines handled so far
  gone     \* the client was disconnected

vars == <<sent, handled, gone>>

\* Where the CRLF pairs of s begin, and where its lines do.
Ends(s) == {i \in 1 .. Len(s) - 1 : s[i] = CR /\ s[i + 1] = LF}
Starts(s) == {1} \cup {e + 2 : e \in Ends(s)}

\* Where the complete lines of s that are not empty end, and how many of them end
\* before position i.
LineEnds(s) == Ends(s) \ Starts(s)
EndsBefore(s, i) == {e \in LineEnds(s) : e < i}

\* The line that ends at e, without its CRLF.
LineAt(s, e) == SubSeq(s, Max({b \in Starts(s) : b <= e}), e - 1)

\* The complete lines of s that are not empty, in order: the k-th is the one that
\* k - 1 others precede.
Lines(s) ==
  [k \in 1 .. Cardinality(LineEnds(s)) |->
     LineAt(s, CHOOSE e \in LineEnds(s) : Cardinality(EndsBefore(s, e)) = k - 1)]

-----------------------------------------------------------------------------

Init == sent = <<>> /\ handled = <<>> /\ gone = FALSE

Send ==
  /\ \E b \in Byte : sent' = Append(sent, b)
  /\ UNCHANGED <<handled, gone>>

Handle ==
  /\ ~gone
  /\ Len(handled) < Len(Lines(sent))
  /\ handled' = Append(handled, Lines(sent)[Len(handled) + 1])
  /\ UNCHANGED <<sent, gone>>

Disconnect == ~gone /\ gone' = TRUE /\ UNCHANGED <<sent, handled>>

Next == Send \/ Handle \/ Disconnect

Spec == Init /\ [][Next]_vars

=============================================================================
