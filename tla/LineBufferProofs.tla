------------------------- MODULE LineBufferProofs --------------------------
(***************************************************************************)
(* Proofs about the receive buffer, for streams of any length and any size *)
(* of reads, buffer and size_t that LineBufferAssumption allows.           *)
(***************************************************************************)
EXTENDS LineBuffer, SequenceTheorems, FiniteSetTheorems, TLAPS

LEMMA MinOfTwo ==
  ASSUME NEW a \in Nat, NEW b \in Nat
  PROVE  Min({a, b}) \in Nat /\ Min({a, b}) <= a /\ Min({a, b}) <= b
<1>1. \E x \in {a, b} : \A y \in {a, b} : x <= y
  <2>1. CASE a <= b
    BY <2>1
  <2>2. CASE ~(a <= b)
    BY <2>2
  <2>3. QED
    BY <2>1, <2>2
<1>2. Min({a, b}) \in {a, b} /\ \A y \in {a, b} : Min({a, b}) <= y
  BY <1>1 DEF Min
<1>3. QED
  BY <1>2

\* A minimum of two is one of them: what Read needs to advance.
LEMMA MinIsOne ==
  ASSUME NEW a \in Nat, NEW b \in Nat, NEW c \in Nat, c <= a, c <= b
  PROVE  c <= Min({a, b})
<1>1. \E x \in {a, b} : \A y \in {a, b} : x <= y
  <2>1. CASE a <= b
    BY <2>1
  <2>2. CASE ~(a <= b)
    BY <2>2
  <2>3. QED
    BY <2>1, <2>2
<1>2. Min({a, b}) \in {a, b}
  BY <1>1 DEF Min
<1>3. QED
  BY <1>2

LEMMA Difference ==
  ASSUME NEW a \in Nat, NEW b \in Nat, NEW c \in Nat, a <= b, b <= a + c
  PROVE  b - a \in Nat /\ b - a <= c
OBVIOUS

\* The sum compared with MAX_RECV_BUF is the true one when recv() has returned data.
LEMMA NoWrapAround ==
  ASSUME NEW x \in Nat, NEW n \in Nat, NEW r \in Nat, NEW b \in Nat, NEW m \in Nat,
         x <= b, n <= r, b + r <= m
  PROVE  (x + n) % (m + 1) = x + n
OBVIOUS

\* The bytes of a read and of a line.
LEMMA SubSeqFacts ==
  ASSUME NEW S, NEW s \in Seq(S), NEW m \in Nat \ {0}, NEW n \in Nat, n <= Len(s)
  PROVE  /\ SubSeq(s, m, n) \in Seq(S)
         /\ Len(SubSeq(s, m, n)) <= Len(s)
         /\ m <= n + 1 => Len(SubSeq(s, m, n)) = n - m + 1
BY SubSeqProperties

LEMMA ReadBytes ==
  ASSUME NEW S, NEW s \in Seq(S), NEW t \in Nat, NEW u \in Nat, t <= u, u <= Len(s)
  PROVE  SubSeq(s, t + 1, u) \in Seq(S) /\ Len(SubSeq(s, t + 1, u)) = u - t
BY SubSeqFacts

LEMMA InitBounded == Init => BufferIsBounded
<1> SUFFICES ASSUME Init PROVE BufferIsBounded
  OBVIOUS
<1>1. sent \in Seq(Byte) /\ recv_buf \in Seq(Byte) /\ handled \in Seq(Seq(Byte))
  BY EmptySeq DEF Init
<1>2. Len(sent) = 0 /\ Len(recv_buf) = 0
  BY EmptySeq DEF Init
<1>3. taken \in 0 .. Len(sent) /\ Len(recv_buf) <= MaxRecvBuf
  BY <1>2, LineBufferAssumption DEF Init
<1>4. QED
  BY <1>1, <1>3 DEF Init, BufferIsBounded, TypeOK

LEMMA SendKeepsBounded ==
  ASSUME BufferIsBounded, Send
  PROVE  BufferIsBounded'
BY DEF Send, BufferIsBounded, TypeOK

\* A read that passes the check leaves at most MAX_RECV_BUF bytes.
LEMMA ReadKeepsBounded ==
  ASSUME BufferIsBounded, Read
  PROVE  BufferIsBounded'
<1> DEFINE n == taken' - taken
           buf == SubSeq(sent, taken + 1, taken')
<1>0. sent \in Seq(Byte) /\ recv_buf \in Seq(Byte) /\ UNCHANGED <<sent, handled>>
  BY DEF BufferIsBounded, TypeOK, Read
<1>1. /\ Len(sent) \in Nat /\ taken \in Nat /\ taken < Len(sent)
      /\ Len(recv_buf) \in Nat /\ Len(recv_buf) <= MaxRecvBuf
  BY DEF BufferIsBounded, TypeOK, Read
<1>2. taken' = Min({taken + ReadSize, Len(sent)})
  BY DEF Read
<1>3. ReadSize \in Nat /\ MaxRecvBuf \in Nat /\ SizeMax \in Nat /\ MaxRecvBuf + ReadSize <= SizeMax
  BY LineBufferAssumption
<1>4. /\ taken' \in Nat /\ taken' <= Len(sent) /\ taken <= taken'
      /\ n \in Nat /\ n <= ReadSize
  BY <1>1, <1>2, <1>3, MinOfTwo, MinIsOne
<1>5. buf \in Seq(Byte) /\ Len(buf) = n
  BY <1>0, <1>1, <1>4, ReadBytes
<1>6. Total(n) = Len(recv_buf) + n
  <2> HIDE DEF n
  <2>1. (Len(recv_buf) + n) % (SizeMax + 1) = Len(recv_buf) + n
    BY <1>1, <1>3, <1>4, NoWrapAround
  <2>2. QED
    BY <2>1 DEF Total
<1>7. Process(n, buf) /\ stage = "poll"
  BY DEF Read
<1>8. CASE Total(n) > MaxRecvBuf
  BY <1>0, <1>1, <1>4, <1>7, <1>8 DEF Process, BufferIsBounded, TypeOK
<1>9. CASE ~(Total(n) > MaxRecvBuf)
  <2>1. recv_buf' = recv_buf \o buf /\ stage' = "lines" /\ UNCHANGED marked
    BY <1>7, <1>9 DEF Process
  <2>2. recv_buf' \in Seq(Byte) /\ Len(recv_buf') = Len(recv_buf) + n
    BY <1>0, <1>1, <1>5, <2>1, ConcatProperties
  <2>3. QED
    BY <1>0, <1>1, <1>3, <1>4, <1>6, <1>9, <2>1, <2>2 DEF BufferIsBounded, TypeOK
<1>10. QED
  BY <1>8, <1>9

\* A read without data leaves the buffer alone, whatever the sum wraps to.
LEMMA ReadNothingKeepsBounded ==
  ASSUME BufferIsBounded, ReadNothing
  PROVE  BufferIsBounded'
<1>1. recv_buf \in Seq(Byte)
  BY DEF BufferIsBounded, TypeOK
<1>2. recv_buf' = recv_buf
  BY <1>1, ConcatEmptySeq DEF ReadNothing, Process
<1>3. QED
  BY <1>2 DEF ReadNothing, Process, BufferIsBounded, TypeOK

\* A line that is extracted shortens the buffer.
LEMMA ExtractShortens ==
  ASSUME BufferIsBounded, NEW i, Extract(i)
  PROVE  /\ i \in 1 .. Len(recv_buf)
         /\ recv_buf' \in Seq(Byte) /\ Len(recv_buf') <= Len(recv_buf)
         /\ UNCHANGED <<sent, taken>>
BY SubSeqFacts DEF Extract, AfterLine, Ends, BufferIsBounded, TypeOK

LEMMA LinesKeepBounded ==
  ASSUME BufferIsBounded, HandleLine \/ LineTooLong \/ EmptyLine \/ NoLine \/ Disconnect
  PROVE  BufferIsBounded'
<1>1. CASE HandleLine
  <2>1. PICK i \in 2 .. Len(recv_buf) :
          /\ Extract(i)
          /\ handled' = Append(handled, SubSeq(recv_buf, 1, i - 1))
          /\ marked' = (marked \/ recv_buf[1] = Quit)
          /\ UNCHANGED stage
    BY <1>1 DEF HandleLine
  <2>2. /\ recv_buf' \in Seq(Byte) /\ Len(recv_buf') <= Len(recv_buf)
        /\ UNCHANGED <<sent, taken>>
    BY <2>1, ExtractShortens
  <2>3. handled' \in Seq(Seq(Byte))
    <3>1. SubSeq(recv_buf, 1, i - 1) \in Seq(Byte)
      BY SubSeqFacts DEF BufferIsBounded, TypeOK
    <3>2. QED
      BY <2>1, <3>1, AppendProperties DEF BufferIsBounded, TypeOK
  <2>4. marked' \in BOOLEAN
    BY <2>1
  <2>5. QED
    BY <2>1, <2>2, <2>3, <2>4, LineBufferAssumption DEF BufferIsBounded, TypeOK
<1>2. CASE LineTooLong \/ EmptyLine
  <2>1. PICK i : Extract(i)
    BY <1>2 DEF LineTooLong, EmptyLine
  <2>2. /\ recv_buf' \in Seq(Byte) /\ Len(recv_buf') <= Len(recv_buf)
        /\ UNCHANGED <<sent, taken>>
    BY <2>1, ExtractShortens
  <2>3. /\ stage' = "poll" /\ marked' \in BOOLEAN
        /\ UNCHANGED handled
    BY <1>2 DEF LineTooLong, EmptyLine, BufferIsBounded, TypeOK
  <2>4. QED
    BY <2>2, <2>3, LineBufferAssumption DEF BufferIsBounded, TypeOK
<1>3. CASE NoLine \/ Disconnect
  BY <1>3 DEF NoLine, Disconnect, BufferIsBounded, TypeOK
<1>4. QED
  BY <1>1, <1>2, <1>3

LEMMA NextKeepsBounded == BufferIsBounded /\ [Next]_vars => BufferIsBounded'
<1> SUFFICES ASSUME BufferIsBounded, [Next]_vars PROVE BufferIsBounded'
  OBVIOUS
<1>1. CASE Next
  BY <1>1, SendKeepsBounded, ReadKeepsBounded, ReadNothingKeepsBounded, LinesKeepBounded
  DEF Next, Serve
<1>2. CASE UNCHANGED vars
  BY <1>2 DEF vars, BufferIsBounded, TypeOK
<1>3. QED
  BY <1>1, <1>2

\* Whatever a client sends and however the network cuts it, its receive buffer stays
\* within MAX_RECV_BUF, for any size_t that holds MAX_RECV_BUF and one read.
THEOREM BufferStaysBounded == Spec => []BufferIsBounded
BY InitBounded, NextKeepsBounded, PTL DEF Spec

-----------------------------------------------------------------------------
(* Where lines start and end in a stream.                                    *)

\* LineStream has its own copies of the library's definitions.
LEMMA SameLibrary ==
  ASSUME NEW S
  PROVE  Promise!Cardinality(S) = Cardinality(S) /\ Promise!Max(S) = Max(S)
BY DEF Promise!Cardinality, Cardinality, Promise!Max, Max

LEMMA EndsFacts ==
  ASSUME NEW s \in Seq(Byte)
  PROVE  /\ Promise!Ends(s) = Ends(s)
         /\ \A e \in Ends(s) : /\ e \in Nat /\ e >= 1 /\ e + 1 <= Len(s)
                               /\ s[e] = CR /\ s[e + 1] = LF
         /\ \A e \in Ends(s) : e + 1 \notin Ends(s)
         /\ IsFiniteSet(Ends(s))
<1>1. Len(s) \in Nat
  OBVIOUS
<1>2. Promise!Ends(s) = Ends(s)
  BY DEF Promise!Ends, Ends
<1>3. \A e \in Ends(s) : /\ e \in Nat /\ e >= 1 /\ e + 1 <= Len(s)
                         /\ s[e] = CR /\ s[e + 1] = LF
  BY <1>1 DEF Ends
<1>4. \A e \in Ends(s) : e + 1 \notin Ends(s)
  BY <1>3, LineBufferAssumption
<1>5. IsFiniteSet(Ends(s))
  <2>1. IsFiniteSet(1 .. Len(s) - 1)
    BY <1>1, FS_Interval
  <2>2. Ends(s) \in SUBSET (1 .. Len(s) - 1)
    BY DEF Ends
  <2>3. QED
    BY <2>1, <2>2, FS_Subset
<1>6. QED
  BY <1>2, <1>3, <1>4, <1>5

\* No CRLF begins with the byte before a line: that byte is a line feed.
LEMMA StartsFacts ==
  ASSUME NEW s \in Seq(Byte), NEW b \in Promise!Starts(s)
  PROVE  b \in Nat /\ b >= 1 /\ b - 1 \notin Ends(s) /\ (b = 1 \/ b - 2 \in Ends(s))
<1>1. b = 1 \/ \E e \in Ends(s) : b = e + 2
  BY EndsFacts DEF Promise!Starts
<1>2. CASE b = 1
  BY <1>2, EndsFacts
<1>3. ASSUME NEW e \in Ends(s), b = e + 2
      PROVE  b \in Nat /\ b >= 1 /\ b - 1 \notin Ends(s) /\ b - 2 \in Ends(s)
  <2>1. b - 1 = e + 1 /\ b - 2 = e
    BY <1>3, EndsFacts
  <2>2. QED
    BY <1>3, <2>1, EndsFacts
<1>4. QED
  BY <1>1, <1>2, <1>3

LEMMA EndsBeforeFacts ==
  ASSUME NEW s \in Seq(Byte), NEW i
  PROVE  /\ IsFiniteSet(Promise!LineEnds(s)) /\ IsFiniteSet(Promise!EndsBefore(s, i))
         /\ Cardinality(Promise!LineEnds(s)) \in Nat
         /\ Cardinality(Promise!EndsBefore(s, i)) \in Nat
         /\ Promise!EndsBefore(s, i) \subseteq Promise!LineEnds(s)
         /\ Promise!LineEnds(s) \subseteq Ends(s)
<1>1. Promise!LineEnds(s) \subseteq Ends(s)
  BY EndsFacts DEF Promise!LineEnds
<1>2. Promise!EndsBefore(s, i) \subseteq Promise!LineEnds(s)
  BY DEF Promise!EndsBefore
<1>3. IsFiniteSet(Promise!LineEnds(s))
  BY <1>1, EndsFacts, FS_Subset
<1>4. IsFiniteSet(Promise!EndsBefore(s, i))
  BY <1>2, <1>3, FS_Subset
<1>5. QED
  BY <1>1, <1>2, <1>3, <1>4, FS_CardinalityType

\* The first CRLF at or after the start of a line ends that line.
LEMMA NextLine ==
  ASSUME NEW s \in Seq(Byte), NEW pos \in Promise!Starts(s), NEW e \in Ends(s),
         pos <= e, \A d \in Ends(s) : ~(pos <= d /\ d < e)
  PROVE  /\ e + 2 \in Promise!Starts(s)
         /\ \A b \in Promise!Starts(s) : b <= e => b <= pos
         /\ pos = e => Promise!EndsBefore(s, e + 2) = Promise!EndsBefore(s, pos)
         /\ pos < e => /\ e \in Promise!LineEnds(s)
                       /\ Promise!EndsBefore(s, e) = Promise!EndsBefore(s, pos)
                       /\ Promise!EndsBefore(s, e + 2) = Promise!EndsBefore(s, pos) \cup {e}
<1>1. /\ pos \in Nat /\ pos >= 1 /\ pos - 1 \notin Ends(s)
      /\ e \in Nat /\ e + 1 \notin Ends(s)
      /\ \A d \in Ends(s) : d \in Nat
  BY StartsFacts, EndsFacts
<1>2. e + 2 \in Promise!Starts(s)
  BY EndsFacts DEF Promise!Starts
<1>3. ASSUME NEW b \in Promise!Starts(s), b <= e
      PROVE  b <= pos
  <2>1. b \in Nat /\ (b = 1 \/ b - 2 \in Ends(s))
    BY StartsFacts
  <2>2. CASE b = 1
    BY <1>1, <2>2
  <2>3. CASE b - 2 \in Ends(s)
    <3>1. b - 2 < pos
      BY <1>1, <1>3, <2>1, <2>3
    <3>2. b - 2 # pos - 1
      BY <1>1, <2>3
    <3>3. QED
      BY <1>1, <2>1, <3>1, <3>2
  <2>4. QED
    BY <2>1, <2>2, <2>3
<1>4. ASSUME NEW d \in Promise!LineEnds(s)
      PROVE  /\ d < e <=> d < pos
             /\ d < e + 2 <=> d < pos \/ d = e
  <2>1. d \in Ends(s) /\ d \in Nat /\ d # e + 1
    BY <1>1 DEF Promise!LineEnds, Promise!Ends, Ends
  <2>2. QED
    BY <1>1, <2>1
<1>5. ASSUME pos < e
      PROVE  e \in Promise!LineEnds(s)
  <2>1. e \notin Promise!Starts(s)
    BY <1>1, <1>3, <1>5
  <2>2. QED
    BY <2>1, EndsFacts DEF Promise!LineEnds
<1>6. pos = e => Promise!EndsBefore(s, e + 2) = Promise!EndsBefore(s, pos)
  <2>1. pos \notin Promise!LineEnds(s)
    BY DEF Promise!LineEnds
  <2>2. QED
    BY <1>4, <2>1 DEF Promise!EndsBefore
<1>7. ASSUME pos < e
      PROVE  /\ Promise!EndsBefore(s, e) = Promise!EndsBefore(s, pos)
             /\ Promise!EndsBefore(s, e + 2) = Promise!EndsBefore(s, pos) \cup {e}
  BY <1>4, <1>5, <1>7 DEF Promise!EndsBefore
<1>8. QED
  BY <1>2, <1>3, <1>5, <1>6, <1>7

LEMMA MaxIs ==
  ASSUME NEW S, NEW m \in S, m \in Int, \A x \in S : x \in Int /\ x <= m
  PROVE  Max(S) = m
<1>1. \A x \in S : (\A y \in S : x >= y) => x = m
  OBVIOUS
<1>2. \A y \in S : m >= y
  OBVIOUS
<1>3. QED
  BY <1>1, <1>2 DEF Max

\* The bytes before a position are the same in a longer stream.
LEMMA SameSubSeq ==
  ASSUME NEW s \in Seq(Byte), NEW t \in Seq(Byte), NEW m \in Nat \ {0}, NEW n \in Nat,
         n <= Len(s), \A i \in 1 .. Len(s) : t[i] = s[i]
  PROVE  SubSeq(t, m, n - 1) = SubSeq(s, m, n - 1)
OBVIOUS

\* pos is where the line that ends at e starts.
LEMMA LineFrom ==
  ASSUME NEW s \in Seq(Byte), NEW e \in Nat, NEW pos \in Promise!Starts(s), pos <= e,
         \A b \in Promise!Starts(s) : b <= e => b <= pos
  PROVE  Promise!LineAt(s, e) = SubSeq(s, pos, e - 1)
<1> DEFINE B == {b \in Promise!Starts(s) : b <= e}
<1>1. \A b \in Promise!Starts(s) : b \in Int
  BY StartsFacts
<1>2. pos \in B /\ pos \in Int /\ \A b \in B : b \in Int /\ b <= pos
  BY <1>1
<1>3. Promise!Max(B) = pos
  <2> HIDE DEF B
  <2>1. QED
    BY <1>2, MaxIs, SameLibrary
<1>4. QED
  BY <1>3 DEF Promise!LineAt

\* Distinct line ends have distinct numbers of line ends before them.
LEMMA RankIsUnique ==
  ASSUME NEW s \in Seq(Byte), NEW d \in Promise!LineEnds(s), NEW e \in Promise!LineEnds(s),
         d < e
  PROVE  Cardinality(Promise!EndsBefore(s, d)) < Cardinality(Promise!EndsBefore(s, e))
<1> DEFINE D == Promise!EndsBefore(s, d)
           E == Promise!EndsBefore(s, e)
<1>1. \A x \in Promise!LineEnds(s) : x \in Nat
  BY EndsBeforeFacts, EndsFacts
<1>2. D \cup {d} \subseteq E /\ d \notin D
  BY <1>1 DEF Promise!EndsBefore
<1>3. IsFiniteSet(D) /\ IsFiniteSet(E) /\ Cardinality(D) \in Nat /\ Cardinality(E) \in Nat
  BY EndsBeforeFacts
<1> HIDE DEF D, E
<1>4. Cardinality(D \cup {d}) = Cardinality(D) + 1
  BY <1>2, <1>3, FS_AddElement
<1>5. Cardinality(D \cup {d}) <= Cardinality(E)
  BY <1>2, <1>3, FS_Subset
<1>6. Cardinality(D) < Cardinality(E)
  BY <1>3, <1>4, <1>5
<1>7. QED
  BY <1>6 DEF D, E

\* Lines(s) has the line that ends at e in the place the earlier lines leave it.
LEMMA LineOfEnd ==
  ASSUME NEW s \in Seq(Byte), NEW e \in Promise!LineEnds(s), NEW n \in Nat,
         Cardinality(Promise!EndsBefore(s, e)) = n
  PROVE  /\ n < Len(Promise!Lines(s))
         /\ Promise!Lines(s)[n + 1] = Promise!LineAt(s, e)
<1> DEFINE L == Promise!LineEnds(s)
           E == Promise!EndsBefore(s, e)
           rank(d) == Promise!Cardinality(Promise!EndsBefore(s, d))
           line(k) == Promise!LineAt(s, CHOOSE d \in L : rank(d) = k - 1)
<1>1. /\ IsFiniteSet(L) /\ IsFiniteSet(E) /\ E \subseteq L
      /\ Cardinality(L) \in Nat
      /\ \A d \in L : d \in Nat
  BY EndsBeforeFacts, EndsFacts
<1>2. e \notin E /\ E \cup {e} \subseteq L
  <2>1. ~(e < e)
    BY <1>1
  <2>2. e \notin E
    BY <2>1 DEF Promise!EndsBefore
  <2>3. QED
    BY <1>1, <2>2
<1>3. n + 1 <= Cardinality(L)
  <2> HIDE DEF L, E
  <2>1. Cardinality(E \cup {e}) = Cardinality(E) + 1
    BY <1>1, <1>2, FS_AddElement
  <2>2. Cardinality(E \cup {e}) <= Cardinality(L)
    BY <1>1, <1>2, FS_Subset
  <2>3. Cardinality(E) = n
    BY DEF E
  <2>4. QED
    BY <1>1, <2>1, <2>2, <2>3
<1>4. \A d \in L : rank(d) = n => d = e
  <2>1. SUFFICES ASSUME NEW d \in L, rank(d) = n PROVE d = e
    OBVIOUS
  <2>2. Cardinality(Promise!EndsBefore(s, d)) = n
    BY <2>1, SameLibrary
  <2>4. ~(d < e) /\ ~(e < d)
    BY <2>2, RankIsUnique
  <2>3. QED
    BY <1>1, <2>4
<1>5. (CHOOSE d \in L : rank(d) = (n + 1) - 1) = e
  <2>1. (n + 1) - 1 = n /\ rank(e) = n
    BY SameLibrary
  <2> HIDE DEF L, rank
  <2>2. QED
    BY <1>4, <2>1 DEF L
<1>6. n + 1 \in 1 .. Cardinality(L)
  BY <1>1, <1>3
<1>7. Promise!Lines(s) = [k \in 1 .. Cardinality(L) |-> line(k)]
  <2>1. Promise!Cardinality(L) = Cardinality(L)
    BY SameLibrary
  <2>2. Promise!Lines(s) = [k \in 1 .. Promise!Cardinality(L) |-> line(k)]
    BY DEF Promise!Lines
  <2>3. QED
    BY <2>1, <2>2
<1>8. line(n + 1) = Promise!LineAt(s, e)
  BY <1>5, Zenon
<1> HIDE DEF L, line
<1>9. /\ Promise!Lines(s)[n + 1] = line(n + 1)
      /\ Len(Promise!Lines(s)) = Cardinality(L)
  BY <1>1, <1>6, <1>7
<1>10. QED
  BY <1>1, <1>3, <1>8, <1>9

LEMMA LinesLength ==
  ASSUME NEW s \in Seq(Byte)
  PROVE  Len(Promise!Lines(s)) \in Nat
<1> DEFINE n == Promise!Cardinality(Promise!LineEnds(s))
           line(k) == Promise!LineAt(s, CHOOSE d \in Promise!LineEnds(s) :
                        Promise!Cardinality(Promise!EndsBefore(s, d)) = k - 1)
<1>1. n \in Nat
  BY EndsBeforeFacts, SameLibrary
<1>2. Promise!Lines(s) = [k \in 1 .. n |-> line(k)]
  BY DEF Promise!Lines
<1> HIDE DEF n, line
<1>3. QED
  BY <1>1, <1>2

-----------------------------------------------------------------------------
(* What is true of a stream stays true when it grows.                        *)

LEMMA GrowthFacts ==
  ASSUME NEW s \in Seq(Byte), NEW b \in Byte
  PROVE  /\ Append(s, b) \in Seq(Byte) /\ Len(Append(s, b)) = Len(s) + 1
         /\ \A i \in 1 .. Len(s) : Append(s, b)[i] = s[i]
         /\ Ends(s) \subseteq Ends(Append(s, b))
         /\ \A e \in Ends(Append(s, b)) : e \in Ends(s) \/ e = Len(s)
         /\ Promise!Starts(s) \subseteq Promise!Starts(Append(s, b))
         /\ \A c \in Promise!Starts(Append(s, b)) : c \in Promise!Starts(s) \/ c = Len(s) + 2
<1> DEFINE t == Append(s, b)
<1>1. /\ t \in Seq(Byte) /\ Len(t) = Len(s) + 1 /\ Len(s) \in Nat
      /\ \A i \in 1 .. Len(s) : t[i] = s[i]
  BY AppendProperties
<1>2. Ends(s) \subseteq Ends(t)
  BY <1>1 DEF Ends
<1>3. \A e \in Ends(t) : e \in Ends(s) \/ e = Len(s)
  BY <1>1 DEF Ends
<1>4. /\ Promise!Starts(s) \subseteq Promise!Starts(t)
      /\ \A c \in Promise!Starts(t) : c \in Promise!Starts(s) \/ c = Len(s) + 2
  <2> HIDE DEF t
  <2>1. Promise!Ends(s) = Ends(s) /\ Promise!Ends(t) = Ends(t)
    BY <1>1, EndsFacts
  <2>2. QED
    BY <1>2, <1>3, <2>1 DEF Promise!Starts
<1>5. QED
  BY <1>1, <1>2, <1>3, <1>4

\* A byte more ends no line before a place where a line starts.
LEMMA GrowthKeepsEndsBefore ==
  ASSUME NEW s \in Seq(Byte), NEW b \in Byte,
         NEW pos \in Promise!Starts(s), pos <= Len(s) + 1
  PROVE  Promise!EndsBefore(Append(s, b), pos) = Promise!EndsBefore(s, pos)
<1> DEFINE t == Append(s, b)
<1>1. /\ t \in Seq(Byte) /\ Len(s) \in Nat
      /\ Ends(s) \subseteq Ends(t)
      /\ \A e \in Ends(t) : e \in Ends(s) \/ e = Len(s)
      /\ Promise!Starts(s) \subseteq Promise!Starts(t)
      /\ \A c \in Promise!Starts(t) : c \in Promise!Starts(s) \/ c = Len(s) + 2
  BY GrowthFacts
<1> HIDE DEF t
<1>2. /\ Promise!Ends(s) = Ends(s) /\ Promise!Ends(t) = Ends(t)
      /\ \A e \in Ends(s) : e \in Nat /\ e + 1 <= Len(s)
      /\ \A e \in Ends(t) : e \in Nat
  BY <1>1, EndsFacts
<1>3. pos \in Nat /\ pos - 1 \notin Ends(t)
  <2>1. pos \in Promise!Starts(t)
    BY <1>1
  <2>2. QED
    BY <1>1, <2>1, StartsFacts
<1>4. ASSUME NEW e \in Nat, e < pos
      PROVE  e \in Promise!LineEnds(t) <=> e \in Promise!LineEnds(s)
  <2>1. e \in Ends(t) <=> e \in Ends(s)
    BY <1>1, <1>3, <1>4
  <2>2. e \in Promise!Starts(t) <=> e \in Promise!Starts(s)
    BY <1>1, <1>3, <1>4
  <2>3. QED
    BY <1>2, <2>1, <2>2 DEF Promise!LineEnds
<1>5. Promise!LineEnds(t) \subseteq Nat /\ Promise!LineEnds(s) \subseteq Nat
  BY <1>2 DEF Promise!LineEnds
<1>6. Promise!EndsBefore(t, pos) = Promise!EndsBefore(s, pos)
  BY <1>4, <1>5 DEF Promise!EndsBefore
<1>7. QED
  BY <1>6 DEF t

\* A line that is complete stays what it is.
LEMMA GrowthKeepsLines ==
  ASSUME NEW s \in Seq(Byte), NEW b \in Byte, NEW e \in Promise!LineEnds(s),
         NEW pos \in Promise!Starts(s), pos <= e,
         \A c \in Promise!Starts(s) : c <= e => c <= pos
  PROVE  /\ e \in Promise!LineEnds(Append(s, b))
         /\ Promise!EndsBefore(Append(s, b), e) = Promise!EndsBefore(s, e)
         /\ pos \in Promise!Starts(Append(s, b))
         /\ \A c \in Promise!Starts(Append(s, b)) : c <= e => c <= pos
         /\ Promise!LineAt(Append(s, b), e) = Promise!LineAt(s, e)
<1> DEFINE t == Append(s, b)
<1>1. /\ t \in Seq(Byte) /\ Len(s) \in Nat
      /\ \A i \in 1 .. Len(s) : t[i] = s[i]
      /\ Ends(s) \subseteq Ends(t)
      /\ \A d \in Ends(t) : d \in Ends(s) \/ d = Len(s)
      /\ Promise!Starts(s) \subseteq Promise!Starts(t)
      /\ \A c \in Promise!Starts(t) : c \in Promise!Starts(s) \/ c = Len(s) + 2
  BY GrowthFacts
<1>2. /\ e \in Nat /\ e >= 1 /\ e + 1 <= Len(s) /\ e \in Ends(s) /\ e \notin Promise!Starts(s)
  <2>1. e \in Ends(s) /\ e \notin Promise!Starts(s)
    BY EndsFacts DEF Promise!LineEnds
  <2>2. QED
    BY <2>1, EndsFacts
<1>3. e \in Promise!LineEnds(t) /\ e \in Ends(t)
  <2>1. Promise!Ends(t) = Ends(t)
    BY <1>1, EndsFacts
  <2>2. e # Len(s) + 2
    BY <1>1, <1>2
  <2>3. QED
    BY <1>1, <1>2, <2>1, <2>2 DEF Promise!LineEnds
<1>4. Promise!EndsBefore(t, e) = Promise!EndsBefore(s, e)
  <2>1. ASSUME NEW d, d < e
        PROVE  d \in Promise!LineEnds(t) <=> d \in Promise!LineEnds(s)
    <3>1. Promise!Ends(t) = Ends(t) /\ Promise!Ends(s) = Ends(s)
      BY <1>1, EndsFacts
    <3>2. d \in Ends(t) => d \in Nat
      BY <1>1, EndsFacts
    <3>3. d \in Ends(t) <=> d \in Ends(s)
      BY <1>1, <1>2, <2>1, <3>2
    <3>4. d \in Ends(t) => (d \in Promise!Starts(t) <=> d \in Promise!Starts(s))
      BY <1>1, <1>2, <2>1, <3>2
    <3>5. QED
      BY <3>1, <3>3, <3>4 DEF Promise!LineEnds
  <2>2. QED
    BY <2>1 DEF Promise!EndsBefore
<1>5. pos \in Promise!Starts(t) /\ \A c \in Promise!Starts(t) : c <= e => c <= pos
  <2>1. ~(Len(s) + 2 <= e)
    BY <1>1, <1>2
  <2>2. QED
    BY <1>1, <2>1
<1>6. SubSeq(t, pos, e - 1) = SubSeq(s, pos, e - 1)
  <2>1. pos \in Nat \ {0} /\ e <= Len(s)
    BY <1>1, <1>2, StartsFacts
  <2> HIDE DEF t
  <2>2. QED
    BY <1>1, <1>2, <2>1, SameSubSeq
<1>7. /\ Promise!LineAt(t, e) = SubSeq(t, pos, e - 1)
      /\ Promise!LineAt(s, e) = SubSeq(s, pos, e - 1)
  <2> HIDE DEF t
  <2>1. QED
    BY <1>1, <1>2, <1>5, LineFrom
<1>8. QED
  BY <1>3, <1>4, <1>5, <1>6, <1>7

\* A line that is too long stays so.
LEMMA GrowthKeepsLong ==
  ASSUME NEW s \in Seq(Byte), NEW b \in Byte, Short(Append(s, b))
  PROVE  Short(s)
<1> DEFINE t == Append(s, b)
<1> DEFINE last(c) == c + LineLimit - 1
<1>1. SUFFICES ASSUME NEW c \in Promise!Starts(s), last(c) <= Len(s)
               PROVE  \/ \E e \in Ends(s) : c <= e /\ e <= last(c)
                      \/ last(c) = Len(s) /\ s[last(c)] = CR
  BY DEF Short
<1>2. /\ t \in Seq(Byte) /\ Len(t) = Len(s) + 1 /\ Len(s) \in Nat
      /\ \A e \in Ends(t) : e \in Ends(s) \/ e = Len(s)
      /\ c \in Promise!Starts(t) /\ c \in Nat /\ LineLimit \in Nat
  <2>1. /\ t \in Seq(Byte) /\ Len(t) = Len(s) + 1
        /\ \A e \in Ends(t) : e \in Ends(s) \/ e = Len(s)
        /\ Promise!Starts(s) \subseteq Promise!Starts(t)
    BY GrowthFacts
  <2>2. QED
    BY <2>1, StartsFacts, LineBufferAssumption
<1>3. \E e \in Ends(t) : c <= e /\ e <= last(c)
  <2>1. last(c) <= Len(t) /\ last(c) # Len(t)
    BY <1>1, <1>2
  <2>2. QED
    BY <1>2, <2>1 DEF Short
<1>4. PICK e \in Ends(t) : c <= e /\ e <= last(c)
  BY <1>3
<1>5. CASE e \in Ends(s)
  BY <1>4, <1>5
<1>6. CASE e = Len(s)
  <2>1. last(c) = Len(s)
    BY <1>1, <1>2, <1>4, <1>6
  <2>2. s[Len(s)] = CR
    <3>1. t[e] = CR /\ e \in 1 .. Len(s)
      <4> HIDE DEF t
      <4>1. QED
        BY <1>2, <1>4, <1>6, EndsFacts
    <3>2. \A i \in 1 .. Len(s) : t[i] = s[i]
      BY GrowthFacts
    <3>3. QED
      BY <1>6, <3>1, <3>2
  <2>3. QED
    BY <2>1, <2>2
<1>7. QED
  BY <1>2, <1>4, <1>5, <1>6

-----------------------------------------------------------------------------
(* The inductive invariant.                                                  *)

\* The facts about the state that every step below starts from.
LEMMA StateFacts ==
  ASSUME BufferIsBounded
  PROVE  /\ sent \in Seq(Byte) /\ Len(sent) \in Nat
         /\ taken \in Nat /\ taken <= Len(sent)
         /\ recv_buf \in Seq(Byte) /\ Len(recv_buf) \in Nat
         /\ DOMAIN recv_buf = 1 .. Len(recv_buf)
         /\ handled \in Seq(Seq(Byte)) /\ Len(handled) \in Nat
BY DEF BufferIsBounded, TypeOK

\* The CRLF pairs of the buffer are those of the stream.
LEMMA EndsOfBuffer ==
  ASSUME BufferIsBounded, BufferInv, InUse
  PROVE  /\ Pos \in Nat /\ Pos >= 1 /\ Pos + Len(recv_buf) = taken + 1
         /\ \A i \in Ends(recv_buf) : Pos + i - 1 \in Ends(sent)
         /\ \A e \in Ends(sent) : Pos <= e /\ e < taken => e - Pos + 1 \in Ends(recv_buf)
<1>1. /\ sent \in Seq(Byte) /\ Len(sent) \in Nat /\ taken \in Nat /\ taken <= Len(sent)
      /\ recv_buf \in Seq(Byte) /\ Len(recv_buf) \in Nat
      /\ DOMAIN recv_buf = 1 .. Len(recv_buf)
  BY StateFacts
<1>2. /\ Len(recv_buf) <= taken
      /\ \A i \in 1 .. Len(recv_buf) : recv_buf[i] = sent[Pos + i - 1]
  BY <1>1 DEF BufferInv
<1>3. Pos \in Nat /\ Pos >= 1 /\ Pos + Len(recv_buf) = taken + 1
  BY <1>1, <1>2 DEF Pos
<1> HIDE DEF Pos
<1>4. ASSUME NEW i \in Ends(recv_buf)
      PROVE  Pos + i - 1 \in Ends(sent)
  <2>1. /\ i \in 1 .. Len(recv_buf) /\ i + 1 \in 1 .. Len(recv_buf)
        /\ recv_buf[i] = CR /\ recv_buf[i + 1] = LF
    BY <1>1 DEF Ends
  <2>2. sent[Pos + i - 1] = CR /\ sent[Pos + (i + 1) - 1] = LF
    BY <1>2, <2>1
  <2>3. Pos + (i + 1) - 1 = (Pos + i - 1) + 1 /\ Pos + i - 1 \in 1 .. Len(sent) - 1
    BY <1>1, <1>3, <2>1
  <2>4. QED
    BY <2>2, <2>3 DEF Ends
<1>5. ASSUME NEW e \in Ends(sent), Pos <= e, e < taken
      PROVE  e - Pos + 1 \in Ends(recv_buf)
  <2> DEFINE i == e - Pos + 1
  <2>1. e \in Nat /\ sent[e] = CR /\ sent[e + 1] = LF
    BY <1>1, EndsFacts
  <2>2. i \in 1 .. Len(recv_buf) - 1 /\ i \in 1 .. Len(recv_buf) /\ i + 1 \in 1 .. Len(recv_buf)
    BY <1>1, <1>3, <1>5, <2>1
  <2>3. Pos + i - 1 = e /\ Pos + (i + 1) - 1 = e + 1
    BY <1>3, <2>1
  <2>4. recv_buf[i] = CR /\ recv_buf[i + 1] = LF
    BY <1>2, <2>1, <2>2, <2>3
  <2>5. QED
    BY <2>2, <2>4 DEF Ends
<1>6. QED
  BY <1>3, <1>4, <1>5

LEMMA InitLineInv == Init => LineInv
<1> SUFFICES ASSUME Init PROVE LineInv
  OBVIOUS
<1>1. BufferIsBounded
  BY InitBounded
<1>2. Ends(recv_buf) = {} /\ Promise!EndsBefore(sent, Pos) = {}
  <2>1. Ends(<<>>) = {}
    BY DEF Ends
  <2>2. QED
    BY <2>1, EndsBeforeFacts, <1>1, StateFacts DEF Init
<1>3. Pos = 1
  BY DEF Init, Pos
<1>4. Cardinality(Promise!EndsBefore(sent, Pos)) = 0
  BY <1>2, FS_EmptySet
<1>5. BufferInv
  <2>1. 1 \in Promise!Starts(sent)
    BY DEF Promise!Starts
  <2>2. Len(recv_buf) = 0 /\ DOMAIN recv_buf = {} /\ Len(handled) = 0
    BY DEF Init
  <2>3. Promise!Cardinality({}) = Cardinality({})
    BY SameLibrary
  <2>4. QED
    BY <1>3, <1>4, <2>1, <2>2 DEF BufferInv, Init
<1>6. RestInv /\ GoodClientsStay
  BY <1>2 DEF RestInv, GoodClientsStay, Init
<1>7. QED
  BY <1>1, <1>5, <1>6 DEF LineInv

LEMMA SendKeepsLineInv ==
  ASSUME LineInv, Send
  PROVE  LineInv'
<1>1. BufferIsBounded /\ BufferIsBounded'
  BY SendKeepsBounded DEF LineInv
<1>2. PICK b \in Byte : sent' = Append(sent, b)
  BY DEF Send
<1>3. UNCHANGED <<taken, recv_buf, stage, marked, handled>>
  BY DEF Send
<1>4. /\ sent \in Seq(Byte) /\ Len(sent) \in Nat /\ taken \in Nat /\ taken <= Len(sent)
      /\ recv_buf \in Seq(Byte) /\ Len(recv_buf) \in Nat
      /\ DOMAIN recv_buf = 1 .. Len(recv_buf)
  BY <1>1, StateFacts
<1>5. /\ \A i \in 1 .. Len(sent) : sent'[i] = sent[i]
      /\ Ends(sent) \subseteq Ends(sent')
      /\ Promise!Starts(sent) \subseteq Promise!Starts(sent')
  BY <1>2, <1>4, GrowthFacts
<1>6. Pos' = Pos /\ InUse' = InUse
  BY <1>3 DEF Pos, InUse
<1>7. BufferInv'
  <2>1. SUFFICES ASSUME InUse
                 PROVE  /\ Len(recv_buf') <= taken'
                        /\ \A i \in DOMAIN recv_buf' : recv_buf'[i] = sent'[Pos' + i - 1]
                        /\ Pos' \in Promise!Starts(sent')
                        /\ Len(handled') = Cardinality(Promise!EndsBefore(sent', Pos'))
    BY <1>6 DEF BufferInv
  <2>2. /\ Len(recv_buf) <= taken
        /\ \A i \in 1 .. Len(recv_buf) : recv_buf[i] = sent[Pos + i - 1]
        /\ Pos \in Promise!Starts(sent)
        /\ Len(handled) = Cardinality(Promise!EndsBefore(sent, Pos))
    BY <1>4, <2>1 DEF LineInv, BufferInv
  <2>3. Pos \in Nat /\ Pos >= 1 /\ Pos + Len(recv_buf) = taken + 1
    BY <1>4, <2>2 DEF Pos
  <2>4. \A i \in 1 .. Len(recv_buf) : recv_buf[i] = sent'[Pos + i - 1]
    <3>1. \A i \in 1 .. Len(recv_buf) : Pos + i - 1 \in 1 .. Len(sent)
      BY <1>4, <2>3
    <3>2. QED
      BY <1>5, <2>2, <3>1
  <2>5. Promise!EndsBefore(sent', Pos) = Promise!EndsBefore(sent, Pos)
    BY <1>2, <1>4, <2>2, <2>3, GrowthKeepsEndsBefore
  <2>6. QED
    BY <1>3, <1>4, <1>5, <1>6, <2>2, <2>4, <2>5
<1>8. EmptyLineRead => EmptyLineRead'
  BY <1>3, <1>5 DEF EmptyLineRead, EmptyLines
<1>9. RestInv'
  BY <1>3, <1>8 DEF LineInv, RestInv
<1>10. Short(sent') => Short(sent)
  BY <1>2, <1>4, GrowthKeepsLong
<1>11. GoodClientsStay'
  BY <1>3, <1>8, <1>10 DEF LineInv, GoodClientsStay, QuitHandled
<1>12. QED
  BY <1>1, <1>7, <1>9, <1>11 DEF LineInv

\* A read finds the buffer without a complete line; if lines are short, little more
\* than one line is in it.
LEMMA RestIsShort ==
  ASSUME LineInv, stage = "poll", ~marked, Short(sent), ~EmptyLineRead
  PROVE  Len(recv_buf) <= LineLimit
<1>1. /\ Len(sent) \in Nat /\ taken \in Nat /\ taken <= Len(sent)
      /\ Len(recv_buf) \in Nat /\ LineLimit \in Nat /\ LineLimit >= 1
      /\ BufferIsBounded
  BY StateFacts, LineBufferAssumption DEF LineInv
<1>2. InUse /\ Ends(recv_buf) = {}
  BY DEF LineInv, RestInv, InUse
<1>3. /\ Pos \in Promise!Starts(sent)
      /\ Pos \in Nat /\ Pos >= 1 /\ Pos + Len(recv_buf) = taken + 1
      /\ \A e \in Ends(sent) : ~(Pos <= e /\ e < taken)
  BY <1>2, EndsOfBuffer DEF LineInv, BufferInv
<1> HIDE DEF Pos
<1>4. SUFFICES ASSUME Len(recv_buf) > LineLimit PROVE FALSE
  BY <1>1
<1> DEFINE last == Pos + LineLimit - 1
<1>5. last < taken /\ last < Len(sent) /\ last <= Len(sent)
  BY <1>1, <1>3, <1>4
<1>6. PICK e \in Ends(sent) : Pos <= e /\ e <= last
  BY <1>1, <1>3, <1>5 DEF Short
<1>7. e \in Nat /\ e < taken
  <2>1. sent \in Seq(Byte)
    BY <1>1, StateFacts
  <2>2. e \in Nat
    BY <2>1, EndsFacts
  <2>3. QED
    BY <1>1, <1>3, <1>5, <1>6, <2>2
<1>8. QED
  BY <1>3, <1>6, <1>7

LEMMA ReadKeepsLineInv ==
  ASSUME LineInv, Read
  PROVE  LineInv'
<1> DEFINE n == taken' - taken
           buf == SubSeq(sent, taken + 1, taken')
<1>1. BufferIsBounded /\ BufferIsBounded'
  BY ReadKeepsBounded DEF LineInv
<1>2. /\ sent \in Seq(Byte) /\ Len(sent) \in Nat /\ taken \in Nat /\ taken <= Len(sent)
      /\ recv_buf \in Seq(Byte) /\ Len(recv_buf) \in Nat
      /\ DOMAIN recv_buf = 1 .. Len(recv_buf)
  BY <1>1, StateFacts
<1>3. /\ stage = "poll" /\ ~marked /\ InUse /\ taken < Len(sent)
      /\ taken' = Min({taken + ReadSize, Len(sent)})
      /\ Process(n, buf) /\ UNCHANGED <<sent, handled>>
  BY DEF Read, InUse
<1>4. /\ ReadSize \in Nat /\ MaxRecvBuf \in Nat /\ SizeMax \in Nat /\ LineLimit \in Nat
      /\ MaxRecvBuf + ReadSize <= SizeMax /\ LineLimit + ReadSize <= MaxRecvBuf
  BY LineBufferAssumption
<1>5. /\ taken' \in Nat /\ taken' <= Len(sent) /\ taken <= taken'
      /\ n \in Nat /\ n <= ReadSize
  <2>1. /\ taken + ReadSize \in Nat /\ taken <= taken + ReadSize
        /\ taken' = Min({taken + ReadSize, Len(sent)})
    BY <1>2, <1>3, <1>4
  <2>2. taken' \in Nat /\ taken' <= taken + ReadSize /\ taken' <= Len(sent)
    BY <1>2, <2>1, MinOfTwo
  <2>3. taken <= taken'
    BY <1>2, <2>1, MinIsOne
  <2>4. taken \in Nat /\ ReadSize \in Nat
    BY <1>2, <1>4
  <2>5. n \in Nat /\ n <= ReadSize
    BY <2>2, <2>3, <2>4, Difference
  <2>6. QED
    BY <2>2, <2>3, <2>5
<1>6. Total(n) = Len(recv_buf) + n
  <2>1. Len(recv_buf) <= MaxRecvBuf
    BY <1>1 DEF BufferIsBounded
  <2> HIDE DEF n
  <2>2. (Len(recv_buf) + n) % (SizeMax + 1) = Len(recv_buf) + n
    BY <1>2, <1>4, <1>5, <2>1, NoWrapAround
  <2>3. QED
    BY <2>2 DEF Total
<1>7. EmptyLineRead => EmptyLineRead'
  <2>1. \A e \in EmptyLines(sent) : e \in Nat
    BY <1>2, EndsFacts DEF EmptyLines
  <2>2. QED
    BY <1>2, <1>3, <1>5, <2>1 DEF EmptyLineRead
<1>8. CASE Total(n) > MaxRecvBuf
  <2>1. marked' /\ UNCHANGED <<recv_buf, stage>>
    BY <1>3, <1>8 DEF Process
  <2>2. ~(Short(sent) /\ ~EmptyLineRead)
    <3>1. SUFFICES ASSUME Short(sent), ~EmptyLineRead PROVE FALSE
      OBVIOUS
    <3>2. Len(recv_buf) <= LineLimit
      BY <1>3, <3>1, RestIsShort
    <3>3. Len(recv_buf) + n > MaxRecvBuf
      BY <1>6, <1>8
    <3> HIDE DEF n
    <3>4. QED
      BY <1>2, <1>4, <1>5, <3>2, <3>3
  <2>3. GoodClientsStay'
    BY <1>3, <1>7, <2>2 DEF GoodClientsStay
  <2>4. BufferInv' /\ RestInv'
    BY <1>3, <2>1 DEF BufferInv, RestInv, InUse
  <2>5. QED
    BY <1>1, <2>3, <2>4 DEF LineInv
<1>9. CASE ~(Total(n) > MaxRecvBuf)
  <2>1. recv_buf' = recv_buf \o buf /\ stage' = "lines" /\ ~marked'
    BY <1>3, <1>9 DEF Process
  <2>2. buf \in Seq(Byte) /\ Len(buf) = n /\ \A j \in 1 .. n : buf[j] = sent[taken + j]
    <3>1. buf \in Seq(Byte) /\ Len(buf) = n
      BY <1>2, <1>5, ReadBytes
    <3>2. \A j \in 1 .. n : buf[j] = sent[taken + j]
      BY <1>2, <1>5
    <3>3. QED
      BY <3>1, <3>2
  <2>3. /\ Len(recv_buf') = Len(recv_buf) + n
        /\ DOMAIN recv_buf' = 1 .. Len(recv_buf) + n
        /\ \A j \in 1 .. Len(recv_buf) : recv_buf'[j] = recv_buf[j]
        /\ \A j \in Len(recv_buf) + 1 .. Len(recv_buf) + n :
             recv_buf'[j] = buf[j - Len(recv_buf)]
    <3> HIDE DEF buf, n
    <3>1. QED
      BY <1>2, <1>5, <2>1, <2>2, ConcatProperties
  <2>4. /\ Len(recv_buf) <= taken
        /\ \A i \in 1 .. Len(recv_buf) : recv_buf[i] = sent[Pos + i - 1]
        /\ Pos \in Promise!Starts(sent)
        /\ Len(handled) = Cardinality(Promise!EndsBefore(sent, Pos))
    BY <1>2, <1>3 DEF LineInv, BufferInv
  <2>5. /\ Pos \in Nat /\ Pos + Len(recv_buf) = taken + 1
        /\ Pos' = Pos /\ Len(recv_buf') <= taken'
    BY <1>2, <1>5, <2>3, <2>4 DEF Pos
  <2>6. \A i \in DOMAIN recv_buf' : recv_buf'[i] = sent[Pos + i - 1]
    <3>1. SUFFICES ASSUME NEW i \in 1 .. Len(recv_buf) + n
                   PROVE  recv_buf'[i] = sent[Pos + i - 1]
      BY <2>3
    <3> HIDE DEF buf, Pos, n
    <3>2. CASE i <= Len(recv_buf)
      BY <1>2, <1>5, <2>3, <2>4, <3>2
    <3>3. CASE i > Len(recv_buf)
      <4>1. i - Len(recv_buf) \in 1 .. n /\ i \in Len(recv_buf) + 1 .. Len(recv_buf) + n
        BY <1>2, <1>5, <3>3
      <4>2. recv_buf'[i] = sent[taken + (i - Len(recv_buf))]
        BY <2>2, <2>3, <4>1
      <4>3. taken + (i - Len(recv_buf)) = Pos + i - 1
        BY <1>2, <1>5, <2>5
      <4>4. QED
        BY <4>2, <4>3
    <3>4. QED
      BY <1>2, <3>2, <3>3
  <2>7. BufferInv'
    BY <1>3, <2>4, <2>5, <2>6 DEF BufferInv
  <2>8. RestInv' /\ GoodClientsStay'
    BY <2>1 DEF RestInv, GoodClientsStay
  <2>9. QED
    BY <1>1, <2>7, <2>8 DEF LineInv
<1>10. QED
  BY <1>8, <1>9

\* recv() without data marks a client whose buffer is empty, and no other.
LEMMA ReadNothingKeepsLineInv ==
  ASSUME LineInv, ReadNothing
  PROVE  LineInv'
<1>1. BufferIsBounded /\ BufferIsBounded'
  BY ReadNothingKeepsBounded DEF LineInv
<1>2. /\ recv_buf \in Seq(Byte) /\ Len(recv_buf) \in Nat /\ Len(recv_buf) <= MaxRecvBuf
      /\ MaxRecvBuf \in Nat /\ SizeMax \in Nat /\ MaxRecvBuf <= SizeMax
  BY <1>1, StateFacts, LineBufferAssumption DEF BufferIsBounded
<1>3. /\ stage = "poll" /\ ~marked /\ InUse /\ Process(-1, <<>>)
      /\ UNCHANGED <<sent, taken, handled>>
  BY DEF ReadNothing, InUse
<1>4. recv_buf' = recv_buf
  BY <1>2, <1>3, ConcatEmptySeq DEF Process
<1>5. BufferInv'
  BY <1>3, <1>4 DEF LineInv, BufferInv, Pos
<1>6. CASE Total(-1) > MaxRecvBuf
  <2>1. recv_buf = <<>>
    <3>1. SUFFICES ASSUME Len(recv_buf) >= 1 PROVE FALSE
      BY <1>2, EmptySeq
    <3>2. Total(-1) = Len(recv_buf) - 1
      <4>1. (Len(recv_buf) + -1) % (SizeMax + 1) = Len(recv_buf) - 1
        BY <1>2, <3>1
      <4>2. QED
        BY <4>1 DEF Total
    <3>3. QED
      BY <1>2, <1>6, <3>2
  <2>2. RestInv' /\ GoodClientsStay'
    BY <1>3, <1>4, <1>6, <2>1 DEF Process, RestInv, GoodClientsStay
  <2>3. QED
    BY <1>1, <1>5, <2>2 DEF LineInv
<1>7. CASE ~(Total(-1) > MaxRecvBuf)
  <2>1. RestInv' /\ GoodClientsStay'
    BY <1>3, <1>7 DEF Process, RestInv, GoodClientsStay
  <2>2. QED
    BY <1>1, <1>5, <2>1 DEF LineInv
<1>8. QED
  BY <1>6, <1>7

\* What extract_line() removes is the line that starts at Pos, up to its CRLF.
LEMMA ExtractFacts ==
  ASSUME LineInv, NEW i, Extract(i)
  PROVE  /\ InUse /\ i \in 1 .. Len(recv_buf) - 1
         /\ Pos \in Nat /\ Pos + i - 1 \in Ends(sent) /\ Pos + i - 1 < taken
         /\ \A d \in Ends(sent) : ~(Pos <= d /\ d < Pos + i - 1)
         /\ Pos' = (Pos + i - 1) + 2 /\ Len(recv_buf') <= taken'
         /\ \A j \in DOMAIN recv_buf' : recv_buf'[j] = sent[Pos' + j - 1]
<1>1. /\ BufferIsBounded /\ BufferInv /\ InUse
      /\ sent \in Seq(Byte) /\ Len(sent) \in Nat /\ taken \in Nat /\ taken <= Len(sent)
      /\ recv_buf \in Seq(Byte) /\ Len(recv_buf) \in Nat
      /\ DOMAIN recv_buf = 1 .. Len(recv_buf)
  BY StateFacts DEF LineInv, Extract, InUse
<1>2. /\ i \in Ends(recv_buf) /\ i \in 1 .. Len(recv_buf) - 1
      /\ \A j \in Ends(recv_buf) : i <= j
      /\ recv_buf' = SubSeq(recv_buf, i + 2, Len(recv_buf))
      /\ sent' = sent /\ taken' = taken
  BY DEF Extract, Ends, AfterLine
<1>3. /\ Pos \in Nat /\ Pos >= 1 /\ Pos + Len(recv_buf) = taken + 1
      /\ Pos + i - 1 \in Ends(sent)
      /\ \A e \in Ends(sent) : Pos <= e /\ e < taken => e - Pos + 1 \in Ends(recv_buf)
      /\ \A j \in 1 .. Len(recv_buf) : recv_buf[j] = sent[Pos + j - 1]
  BY <1>1, <1>2, EndsOfBuffer DEF BufferInv
<1>4. /\ recv_buf' \in Seq(Byte) /\ Len(recv_buf') = Len(recv_buf) - i - 1
      /\ DOMAIN recv_buf' = 1 .. Len(recv_buf) - i - 1
      /\ \A j \in 1 .. Len(recv_buf) - i - 1 : recv_buf'[j] = recv_buf[j + i + 1]
  <2> DEFINE m == i + 2
             n == Len(recv_buf)
  <2>1. m \in Nat \ {0} /\ m <= n + 1 /\ n \in Nat /\ n <= Len(recv_buf)
    BY <1>1, <1>2
  <2>2. recv_buf' \in Seq(Byte) /\ Len(recv_buf') = Len(recv_buf) - m + 1
    <3> HIDE DEF m, n
    <3>1. /\ SubSeq(recv_buf, m, n) \in Seq(Byte)
          /\ Len(SubSeq(recv_buf, m, n)) = n - m + 1
      BY <1>1, <2>1, SubSeqFacts
    <3>2. QED
      BY <1>2, <3>1 DEF m, n
  <2>3. \A j \in 1 .. Len(recv_buf) - i - 1 : recv_buf'[j] = recv_buf[j + i + 1]
    BY <1>1, <1>2, <2>1
  <2>4. Len(recv_buf') = Len(recv_buf) - i - 1
    <3>1. i \in Int /\ Len(recv_buf) \in Int
      BY <1>1, <1>2
    <3>2. QED
      BY <2>2, <3>1
  <2>5. DOMAIN recv_buf' = 1 .. Len(recv_buf')
    BY <2>2
  <2> HIDE DEF m, n
  <2>6. QED
    BY <2>2, <2>3, <2>4, <2>5
<1>5. Pos' = (Pos + i - 1) + 2
  <2>1. Pos' = taken - (Len(recv_buf) - i - 1) + 1
    BY <1>2, <1>4 DEF Pos
  <2>2. Pos = taken - Len(recv_buf) + 1 /\ i \in Int /\ Len(recv_buf) \in Int /\ taken \in Int
    BY <1>1, <1>2 DEF Pos
  <2>3. taken - (Len(recv_buf) - i - 1) + 1 = (taken - Len(recv_buf) + 1 + i - 1) + 2
    BY <2>2
  <2>4. QED
    BY <2>1, <2>2, <2>3
<1> HIDE DEF Pos
<1>6. Pos + i - 1 < taken /\ Len(recv_buf') <= taken'
  <2>1. /\ i \in Nat /\ i >= 1 /\ i <= Len(recv_buf) - 1 /\ Len(recv_buf) \in Nat
        /\ taken \in Nat /\ Pos \in Nat /\ Pos >= 1 /\ Pos + Len(recv_buf) = taken + 1
    BY <1>1, <1>2, <1>3
  <2>2. Len(recv_buf') = Len(recv_buf) - i - 1 /\ taken' = taken
    BY <1>2, <1>4
  <2>3. QED
    BY <2>1, <2>2
<1>7. ASSUME NEW d \in Ends(sent), Pos <= d, d < Pos + i - 1
      PROVE  FALSE
  <2>1. d \in Nat
    BY <1>1, EndsFacts
  <2>2. d - Pos + 1 \in Ends(recv_buf)
    BY <1>1, <1>2, <1>3, <1>6, <1>7, <2>1
  <2>3. i <= d - Pos + 1
    BY <1>2, <2>2
  <2>4. Pos \in Nat /\ i \in Nat
    BY <1>2, <1>3
  <2>5. QED
    BY <1>7, <2>1, <2>3, <2>4
<1>8. ASSUME NEW j \in DOMAIN recv_buf'
      PROVE  recv_buf'[j] = sent[Pos' + j - 1]
  <2>1. j \in 1 .. Len(recv_buf) - i - 1 /\ j + i + 1 \in 1 .. Len(recv_buf)
    <3>1. i \in Nat /\ Len(recv_buf) \in Nat
      BY <1>1, <1>2
    <3>2. j \in 1 .. Len(recv_buf) - i - 1
      BY <1>4
    <3>3. QED
      BY <3>1, <3>2
  <2>2. recv_buf'[j] = sent[Pos + (j + i + 1) - 1]
    BY <1>3, <1>4, <2>1
  <2>3. Pos + (j + i + 1) - 1 = Pos' + j - 1
    <3>1. Pos \in Int /\ i \in Int /\ j \in Int
      BY <1>1, <1>2, <1>3, <2>1
    <3>2. QED
      BY <1>5, <3>1
  <2>4. QED
    BY <2>2, <2>3
<1>9. QED
  BY <1>1, <1>2, <1>3, <1>5, <1>6, <1>7, <1>8

\* The line counts as handled unless it is empty.
LEMMA ExtractCounts ==
  ASSUME LineInv, NEW i, Extract(i)
  PROVE  /\ Pos \in Promise!Starts(sent) /\ Pos' \in Promise!Starts(sent)
         /\ Len(handled) = Cardinality(Promise!EndsBefore(sent, Pos))
         /\ i = 1 => /\ EmptyLineRead
                     /\ Cardinality(Promise!EndsBefore(sent, Pos')) = Len(handled)
         /\ i > 1 => /\ Pos + i - 1 \in Promise!LineEnds(sent)
                     /\ Promise!EndsBefore(sent, Pos + i - 1) = Promise!EndsBefore(sent, Pos)
                     /\ \A b \in Promise!Starts(sent) : b <= Pos + i - 1 => b <= Pos
                     /\ Cardinality(Promise!EndsBefore(sent, Pos')) = Len(handled) + 1
<1> DEFINE e == Pos + i - 1
           E == Promise!EndsBefore(sent, Pos)
<1>1. /\ InUse /\ i \in Nat /\ i >= 1
      /\ Pos \in Nat /\ e \in Ends(sent) /\ e < taken
      /\ \A d \in Ends(sent) : ~(Pos <= d /\ d < e)
      /\ Pos' = e + 2
  BY ExtractFacts
<1>2. /\ sent \in Seq(Byte) /\ Pos \in Promise!Starts(sent)
      /\ Len(handled) = Cardinality(E)
  BY <1>1, StateFacts DEF LineInv, BufferInv
<1>3. Pos <= e /\ (i = 1 <=> e = Pos) /\ (i > 1 <=> Pos < e) /\ e \in Nat
  BY <1>1
<1> HIDE DEF Pos, e
<1>4. /\ e + 2 \in Promise!Starts(sent)
      /\ \A b \in Promise!Starts(sent) : b <= e => b <= Pos
      /\ Pos = e => Promise!EndsBefore(sent, e + 2) = E
      /\ Pos < e => /\ e \in Promise!LineEnds(sent)
                    /\ Promise!EndsBefore(sent, e) = E
                    /\ Promise!EndsBefore(sent, e + 2) = E \cup {e}
  BY <1>1, <1>2, <1>3, NextLine
<1>5. i = 1 => EmptyLineRead /\ Cardinality(Promise!EndsBefore(sent, Pos')) = Len(handled)
  BY <1>1, <1>2, <1>3, <1>4 DEF EmptyLineRead, EmptyLines
<1>6. Pos < e => Cardinality(Promise!EndsBefore(sent, Pos')) = Len(handled) + 1
  <2>1. IsFiniteSet(E) /\ e \notin E
    <3>1. ~(e < Pos) \/ ~(Pos < e)
      BY <1>1, <1>3
    <3>2. Pos < e => e \notin E
      BY <3>1 DEF Promise!EndsBefore
    <3>3. e = Pos => e \notin E
      BY <1>2 DEF Promise!EndsBefore, Promise!LineEnds
    <3>4. IsFiniteSet(E)
      BY <1>2, EndsBeforeFacts
    <3>5. QED
      BY <1>1, <1>3, <3>2, <3>3, <3>4
  <2> HIDE DEF E
  <2>2. Cardinality(E \cup {e}) = Cardinality(E) + 1
    BY <2>1, FS_AddElement
  <2>3. QED
    BY <1>1, <1>2, <1>4, <2>2
<1>7. QED
  BY <1>1, <1>2, <1>3, <1>4, <1>5, <1>6 DEF e

LEMMA HandleLineKeepsLineInv ==
  ASSUME LineInv, HandleLine
  PROVE  LineInv'
<1>1. PICK i \in 2 .. Len(recv_buf) :
        /\ Extract(i) /\ Fits(i - 1)
        /\ handled' = Append(handled, SubSeq(recv_buf, 1, i - 1))
        /\ marked' = (marked \/ recv_buf[1] = Quit)
        /\ UNCHANGED stage
  BY DEF HandleLine
<1>2. /\ recv_buf \in Seq(Byte) /\ Len(recv_buf) \in Nat
      /\ handled \in Seq(Seq(Byte)) /\ Len(handled) \in Nat
      /\ stage = "lines" /\ stage' = "lines" /\ sent' = sent /\ taken' = taken
  BY <1>1, StateFacts DEF LineInv, Extract
<1> DEFINE line == SubSeq(recv_buf, 1, i - 1)
<1>3. line \in Seq(Byte) /\ line[1] = recv_buf[1]
  BY <1>1, <1>2
<1>4. /\ Len(handled') = Len(handled) + 1
      /\ \A k \in 1 .. Len(handled) : handled'[k] = handled[k]
      /\ handled'[Len(handled) + 1] = line
      /\ DOMAIN handled' = 1 .. Len(handled) + 1 /\ DOMAIN handled = 1 .. Len(handled)
  <2> HIDE DEF line
  <2>1. handled' = Append(handled, line)
    BY <1>1 DEF line
  <2>2. QED
    BY <1>2, <1>3, <2>1, AppendProperties
<1>5. BufferInv'
  BY <1>1, <1>2, <1>4, ExtractFacts, ExtractCounts DEF BufferInv
<1>6. RestInv'
  BY <1>2 DEF RestInv
<1>7. QuitHandled => QuitHandled'
  <2>1. SUFFICES ASSUME NEW k \in 1 .. Len(handled), handled[k][1] = Quit
                 PROVE  QuitHandled'
    BY <1>4 DEF QuitHandled
  <2>2. handled'[k][1] = Quit /\ k \in DOMAIN handled'
    BY <1>2, <1>4, <2>1
  <2>3. QED
    BY <2>2 DEF QuitHandled
<1>8. GoodClientsStay'
  <2>1. SUFFICES ASSUME marked', Short(sent), ~EmptyLineRead, ~QuitHandled'
                 PROVE  FALSE
    BY <1>2 DEF GoodClientsStay, EmptyLineRead
  <2>2. recv_buf[1] # Quit
    <3>1. Len(handled) + 1 \in DOMAIN handled'
      BY <1>2, <1>4
    <3>2. QED
      BY <1>3, <1>4, <2>1, <3>1 DEF QuitHandled
  <2>3. recv_buf = <<>>
    BY <1>1, <1>7, <2>1, <2>2 DEF LineInv, GoodClientsStay
  <2>4. QED
    BY <1>1, <1>2, <2>3, EmptySeq
<1>9. BufferIsBounded'
  BY LinesKeepBounded DEF LineInv
<1>10. QED
  BY <1>5, <1>6, <1>8, <1>9 DEF LineInv

\* A line the check refuses is no line of a client whose lines are short.
LEMMA LineTooLongKeepsLineInv ==
  ASSUME LineInv, LineTooLong
  PROVE  LineInv'
<1>1. PICK i \in 2 .. Len(recv_buf) : Extract(i) /\ ~Fits(i - 1)
  BY DEF LineTooLong
<1>2. marked' = TRUE /\ stage' = "poll" /\ sent' = sent /\ taken' = taken
  BY <1>1 DEF LineTooLong, Extract
<1>3. /\ sent \in Seq(Byte) /\ Len(sent) \in Nat /\ taken \in Nat /\ taken <= Len(sent)
      /\ Len(recv_buf) \in Nat /\ LineLimit \in Nat /\ LineLimit >= 1
  BY StateFacts, LineBufferAssumption DEF LineInv
<1>4. /\ Pos \in Nat /\ Pos + i - 1 < taken
      /\ \A d \in Ends(sent) : ~(Pos <= d /\ d < Pos + i - 1)
      /\ Pos \in Promise!Starts(sent)
  BY <1>1, ExtractFacts, ExtractCounts
<1> HIDE DEF Pos
<1>5. ~Short(sent)
  <2> DEFINE last == Pos + LineLimit - 1
  <2>1. last < Pos + i - 1 /\ last < Len(sent) /\ last <= Len(sent)
    BY <1>1, <1>3, <1>4 DEF Fits
  <2>2. \A d \in Ends(sent) : d \in Nat
    BY <1>3, EndsFacts
  <2>3. ~(\E d \in Ends(sent) : Pos <= d /\ d <= last)
    BY <1>1, <1>3, <1>4, <2>1, <2>2
  <2>4. ~(last = Len(sent))
    BY <1>3, <1>4, <2>1
  <2>5. QED
    BY <1>4, <2>1, <2>3, <2>4 DEF Short
<1>6. BufferInv' /\ RestInv' /\ GoodClientsStay'
  BY <1>2, <1>5 DEF BufferInv, RestInv, GoodClientsStay, InUse
<1>7. QED
  BY <1>6, LinesKeepBounded DEF LineInv

LEMMA EmptyLineKeepsLineInv ==
  ASSUME LineInv, EmptyLine
  PROVE  LineInv'
<1>1. /\ Extract(1) /\ sent' = sent /\ taken' = taken
      /\ stage' = "poll" /\ UNCHANGED <<marked, handled>>
  BY DEF EmptyLine, Extract
<1>2. EmptyLineRead'
  BY <1>1, ExtractCounts DEF EmptyLineRead
<1>3. BufferInv'
  BY <1>1, ExtractFacts, ExtractCounts DEF BufferInv
<1>4. QED
  BY <1>2, <1>3, LinesKeepBounded DEF LineInv, RestInv, GoodClientsStay

LEMMA NextKeepsLineInv == LineInv /\ [Next]_vars => LineInv'
<1> SUFFICES ASSUME LineInv, [Next]_vars PROVE LineInv'
  OBVIOUS
<1>1. CASE NoLine
  <2>1. BufferInv' /\ RestInv' /\ GoodClientsStay'
    BY <1>1 DEF NoLine, LineInv, BufferInv, RestInv, GoodClientsStay, InUse, Pos,
                EmptyLineRead, QuitHandled
  <2>2. QED
    BY <1>1, <2>1, LinesKeepBounded DEF LineInv
<1>2. CASE Disconnect
  <2>1. BufferInv' /\ RestInv' /\ GoodClientsStay'
    BY <1>2 DEF Disconnect, LineInv, BufferInv, RestInv, GoodClientsStay, InUse,
                EmptyLineRead, QuitHandled
  <2>2. QED
    BY <1>2, <2>1, LinesKeepBounded DEF LineInv
<1>3. CASE UNCHANGED vars
  BY <1>3 DEF vars, LineInv, BufferIsBounded, TypeOK, BufferInv, RestInv, GoodClientsStay,
              InUse, Pos, EmptyLineRead, QuitHandled
<1>4. QED
  BY <1>1, <1>2, <1>3, SendKeepsLineInv, ReadKeepsLineInv, ReadNothingKeepsLineInv,
     HandleLineKeepsLineInv, LineTooLongKeepsLineInv, EmptyLineKeepsLineInv
  DEF Next, Serve

\* The buffer in use is the stream from the start of a line on, and every line before
\* that start has been handled.
THEOREM BufferIsTheStream == Spec => []LineInv
BY InitLineInv, NextKeepsLineInv, PTL DEF Spec

\* However long its lines' stream and wherever recv() cuts it, a client whose lines are
\* short and not empty is disconnected by a QUIT only, or by a recv() that fails with
\* EAGAIN while its buffer is empty.
THEOREM GoodClientsAreKept == Spec => []GoodClientsStay
<1>1. LineInv => GoodClientsStay
  BY DEF LineInv
<1>2. QED
  BY <1>1, BufferIsTheStream, PTL

-----------------------------------------------------------------------------
(* LineBuffer implements LineStream.                                         *)

\* What extract_line() returns is the line of the stream that ends there.
LEMMA ExtractIsLine ==
  ASSUME LineInv, NEW i \in Nat, i > 1, Extract(i)
  PROVE  SubSeq(recv_buf, 1, i - 1) = Promise!LineAt(sent, Pos + i - 1)
<1> DEFINE e == Pos + i - 1
<1>1. /\ InUse /\ i \in 1 .. Len(recv_buf) - 1 /\ Pos \in Nat
      /\ Pos \in Promise!Starts(sent)
      /\ \A b \in Promise!Starts(sent) : b <= e => b <= Pos
  BY ExtractFacts, ExtractCounts
<1>2. /\ sent \in Seq(Byte) /\ Len(sent) \in Nat /\ taken \in Nat /\ taken <= Len(sent)
      /\ recv_buf \in Seq(Byte) /\ Len(recv_buf) \in Nat
      /\ Pos >= 1 /\ Pos + Len(recv_buf) = taken + 1
      /\ \A j \in 1 .. Len(recv_buf) : recv_buf[j] = sent[Pos + j - 1]
  BY <1>1, StateFacts, EndsOfBuffer DEF LineInv, BufferInv
<1> HIDE DEF Pos
<1>3. e \in Nat /\ Pos <= e
  BY <1>1
<1>4. Promise!LineAt(sent, e) = SubSeq(sent, Pos, e - 1)
  <2> HIDE DEF e
  <2>1. QED
    BY <1>1, <1>2, <1>3, LineFrom
<1>5. SubSeq(recv_buf, 1, i - 1) = SubSeq(sent, Pos, e - 1)
  <2> DEFINE f == SubSeq(recv_buf, 1, i - 1)
             g == SubSeq(sent, Pos, e - 1)
  <2>1. f \in Seq(Byte) /\ Len(f) = i - 1 /\ \A j \in 1 .. i - 1 : f[j] = recv_buf[j]
    BY <1>1, <1>2
  <2>2. Pos \in Nat \ {0} /\ e - 1 \in Nat /\ e - 1 <= Len(sent) /\ Pos <= (e - 1) + 1
    BY <1>1, <1>2
  <2>3. g \in Seq(Byte) /\ Len(g) = (e - 1) - Pos + 1
    <3> HIDE DEF e
    <3>1. QED
      BY <1>2, <2>2, SubSeqFacts
  <2>4. (e - 1) - Pos + 1 = i - 1
    BY <1>1
  <2>5. \A j \in 1 .. i - 1 : g[j] = sent[Pos + j - 1]
    BY <1>1, <1>2, <2>2
  <2>6. \A j \in 1 .. i - 1 : f[j] = g[j]
    BY <1>1, <1>2, <2>1, <2>5
  <2> HIDE DEF f, g, e
  <2>7. f = g
    BY <2>1, <2>3, <2>4, <2>6, SeqEqual
  <2>8. QED
    BY <2>7 DEF f, g
<1>6. QED
  BY <1>4, <1>5

\* A line is handled only when it is the next one.
LEMMA HandleLineIsHandle == LineInv /\ HandleLine => Promise!Handle
<1> SUFFICES ASSUME LineInv, HandleLine PROVE Promise!Handle
  OBVIOUS
<1>1. PICK i \in 2 .. Len(recv_buf) :
        /\ Extract(i)
        /\ handled' = Append(handled, SubSeq(recv_buf, 1, i - 1))
        /\ UNCHANGED stage
  BY DEF HandleLine
<1>2. /\ sent \in Seq(Byte) /\ Len(handled) \in Nat /\ i \in Nat /\ i > 1
      /\ stage = "lines" /\ sent' = sent
  BY <1>1, StateFacts DEF LineInv, Extract
<1>3. /\ Pos + i - 1 \in Promise!LineEnds(sent)
      /\ Cardinality(Promise!EndsBefore(sent, Pos + i - 1)) = Len(handled)
  BY <1>1, <1>2, ExtractCounts
<1>4. /\ Len(handled) < Len(Promise!Lines(sent))
      /\ Promise!Lines(sent)[Len(handled) + 1] = Promise!LineAt(sent, Pos + i - 1)
  BY <1>2, <1>3, LineOfEnd
<1>5. SubSeq(recv_buf, 1, i - 1) = Promise!LineAt(sent, Pos + i - 1)
  BY <1>1, <1>2, ExtractIsLine
<1>6. handled' = Append(handled, Promise!Lines(sent)[Len(handled) + 1])
  BY <1>1, <1>4, <1>5
<1>7. QED
  BY <1>1, <1>2, <1>4, <1>6 DEF Promise!Handle

LEMMA StepIsPromised == LineInv /\ [Next]_vars => [Promise!Next]_(Promise!vars)
<1> SUFFICES ASSUME LineInv, [Next]_vars PROVE [Promise!Next]_(Promise!vars)
  OBVIOUS
<1>1. CASE Send
  BY <1>1 DEF Send, Promise!Next, Promise!Send
<1>2. CASE HandleLine
  BY <1>2, HandleLineIsHandle DEF Promise!Next
<1>3. CASE Disconnect
  BY <1>3 DEF Disconnect, Promise!Next, Promise!Disconnect
<1>4. CASE Read \/ ReadNothing
  BY <1>4 DEF Read, ReadNothing, Process, Promise!vars
<1>5. CASE LineTooLong \/ EmptyLine
  BY <1>5 DEF LineTooLong, EmptyLine, Extract, Promise!vars
<1>6. CASE NoLine
  BY <1>6 DEF NoLine, Promise!vars
<1>7. CASE UNCHANGED vars
  BY <1>7 DEF vars, Promise!vars
<1>8. QED
  BY <1>1, <1>2, <1>3, <1>4, <1>5, <1>6, <1>7 DEF Next, Serve

\* Every behaviour of the receive buffer is one LineStream allows: wherever recv() cuts
\* the stream, no line is cut, lost, repeated or reordered before it is handled.
THEOREM LinesAreNeverCut == Spec => LinesAreHandledInOrder
<1>1. Init => Promise!Init
  BY DEF Init, Promise!Init
<1>2. QED
  BY <1>1, BufferIsTheStream, StepIsPromised, PTL
  DEF Spec, LinesAreHandledInOrder, Promise!Spec

-----------------------------------------------------------------------------
(* What has been handled stays the beginning of the stream.                  *)

\* The k-th line handled is the k-th line of all that was ever sent.
HandledSoFar ==
  /\ Len(handled) <= Len(Promise!Lines(sent))
  /\ \A k \in DOMAIN handled : handled[k] = Promise!Lines(sent)[k]

\* Line k of s ends at e and starts at pos.
IsLine(s, k, pos, e) ==
  /\ pos <= e
  /\ \A b \in Promise!Starts(s) : b <= e => b <= pos
  /\ Cardinality(Promise!EndsBefore(s, e)) = k - 1

\* Each line handled is somewhere in the stream, with k - 1 lines before it.
HandledInv ==
  \A k \in DOMAIN handled :
    \E e \in Promise!LineEnds(sent), pos \in Promise!Starts(sent) :
      IsLine(sent, k, pos, e) /\ handled[k] = Promise!LineAt(sent, e)

LEMMA SendKeepsHandledInv ==
  ASSUME LineInv, HandledInv, Send
  PROVE  HandledInv'
<1>1. PICK b \in Byte : sent' = Append(sent, b)
  BY DEF Send
<1>2. sent \in Seq(Byte) /\ handled' = handled
  BY StateFacts DEF LineInv, Send
<1>3. SUFFICES ASSUME NEW k \in DOMAIN handled
               PROVE  \E e \in Promise!LineEnds(sent'), pos \in Promise!Starts(sent') :
                        IsLine(sent', k, pos, e) /\ handled[k] = Promise!LineAt(sent', e)
  BY <1>2 DEF HandledInv
<1>4. PICK e \in Promise!LineEnds(sent), pos \in Promise!Starts(sent) :
        IsLine(sent, k, pos, e) /\ handled[k] = Promise!LineAt(sent, e)
  BY DEF HandledInv
<1>5. /\ e \in Promise!LineEnds(sent') /\ pos \in Promise!Starts(sent')
      /\ Promise!EndsBefore(sent', e) = Promise!EndsBefore(sent, e)
      /\ \A c \in Promise!Starts(sent') : c <= e => c <= pos
      /\ Promise!LineAt(sent', e) = Promise!LineAt(sent, e)
  BY <1>1, <1>2, <1>4, GrowthKeepsLines DEF IsLine
<1>6. IsLine(sent', k, pos, e)
  BY <1>4, <1>5 DEF IsLine
<1>7. QED
  BY <1>4, <1>5, <1>6

LEMMA HandleLineKeepsHandledInv ==
  ASSUME LineInv, HandledInv, HandleLine
  PROVE  HandledInv'
<1>1. PICK i \in 2 .. Len(recv_buf) :
        Extract(i) /\ handled' = Append(handled, SubSeq(recv_buf, 1, i - 1))
  BY DEF HandleLine
<1>2. /\ handled \in Seq(Seq(Byte)) /\ Len(handled) \in Nat /\ i \in Nat /\ i > 1
      /\ sent' = sent /\ Pos \in Nat
  BY <1>1, StateFacts, ExtractFacts DEF LineInv, Extract
<1> DEFINE line == SubSeq(recv_buf, 1, i - 1)
           n == Len(handled)
           e == Pos + i - 1
<1>3. /\ DOMAIN handled' = 1 .. n + 1 /\ DOMAIN handled = 1 .. n
      /\ \A k \in 1 .. n : handled'[k] = handled[k]
      /\ handled'[n + 1] = line
  <2>1. handled' = Append(handled, line)
    BY <1>1
  <2> HIDE DEF line
  <2>2. QED
    BY <1>2, <2>1
<1>4. /\ e \in Promise!LineEnds(sent) /\ Pos \in Promise!Starts(sent)
      /\ line = Promise!LineAt(sent, e)
      /\ IsLine(sent, n + 1, Pos, e)
  <2>1. line = Promise!LineAt(sent, e)
    BY <1>1, <1>2, ExtractIsLine
  <2>2. /\ e \in Promise!LineEnds(sent) /\ Pos \in Promise!Starts(sent)
        /\ \A b \in Promise!Starts(sent) : b <= e => b <= Pos
        /\ Cardinality(Promise!EndsBefore(sent, e)) = n
    BY <1>1, <1>2, ExtractCounts
  <2>3. Pos <= e /\ (n + 1) - 1 = n
    BY <1>2
  <2>4. QED
    BY <2>1, <2>2, <2>3 DEF IsLine
<1> HIDE DEF line, e
<1>5. ASSUME NEW k \in 1 .. n
      PROVE  \E d \in Promise!LineEnds(sent), pos \in Promise!Starts(sent) :
               IsLine(sent, k, pos, d) /\ handled'[k] = Promise!LineAt(sent, d)
  BY <1>3 DEF HandledInv
<1>6. \A k \in 1 .. n + 1 : k \in 1 .. n \/ k = n + 1
  BY <1>2
<1>7. QED
  BY <1>2, <1>3, <1>4, <1>5, <1>6 DEF HandledInv

LEMMA NextKeepsHandledInv == LineInv /\ HandledInv /\ [Next]_vars => HandledInv'
<1> SUFFICES ASSUME LineInv, HandledInv, [Next]_vars PROVE HandledInv'
  OBVIOUS
<1>1. CASE ~(Send \/ HandleLine)
  <2>1. UNCHANGED <<sent, handled>>
    BY <1>1 DEF Next, Serve, Read, ReadNothing, LineTooLong, EmptyLine, Extract, NoLine,
                Disconnect, vars
  <2>2. QED
    BY <2>1 DEF HandledInv
<1>2. QED
  BY <1>1, SendKeepsHandledInv, HandleLineKeepsHandledInv

LEMMA HandledInvSuffices ==
  ASSUME LineInv, HandledInv
  PROVE  HandledSoFar
<1>1. sent \in Seq(Byte) /\ Len(handled) \in Nat /\ DOMAIN handled = 1 .. Len(handled)
  BY StateFacts DEF LineInv
<1>2. ASSUME NEW k \in 1 .. Len(handled)
      PROVE  k <= Len(Promise!Lines(sent)) /\ handled[k] = Promise!Lines(sent)[k]
  <2>1. PICK e \in Promise!LineEnds(sent) :
          /\ Cardinality(Promise!EndsBefore(sent, e)) = k - 1
          /\ handled[k] = Promise!LineAt(sent, e)
    BY <1>1 DEF HandledInv, IsLine
  <2> DEFINE n == k - 1
  <2>2. n \in Nat /\ n + 1 = k /\ Cardinality(Promise!EndsBefore(sent, e)) = n
    BY <1>1, <2>1
  <2>3. n < Len(Promise!Lines(sent)) /\ Promise!Lines(sent)[n + 1] = Promise!LineAt(sent, e)
    <3> HIDE DEF n
    <3>1. QED
      BY <1>1, <2>2, LineOfEnd
  <2>4. Len(Promise!Lines(sent)) \in Nat
    BY <1>1, LinesLength
  <2>5. QED
    BY <1>1, <2>1, <2>2, <2>3, <2>4
<1>3. Len(handled) <= Len(Promise!Lines(sent))
  <2>1. CASE Len(handled) = 0
    BY <1>1, <2>1, LinesLength
  <2>2. CASE Len(handled) # 0
    <3>1. Len(handled) \in 1 .. Len(handled)
      BY <1>1, <2>2
    <3>2. QED
      BY <1>2, <3>1
  <2>3. QED
    BY <2>1, <2>2
<1>4. QED
  BY <1>1, <1>2, <1>3 DEF HandledSoFar

\* Whatever is still to come, the lines handled are the first lines of all that was sent,
\* each in its place: nothing that arrives later can change what a handled line was.
THEOREM HandledIsThePrefix == Spec => []HandledSoFar
<1>1. Init => HandledInv
  BY DEF Init, HandledInv
<1>2. Spec => []HandledInv
  BY <1>1, BufferIsTheStream, NextKeepsHandledInv, PTL DEF Spec
<1>3. LineInv /\ HandledInv => HandledSoFar
  BY HandledInvSuffices
<1>4. QED
  BY <1>2, <1>3, BufferIsTheStream, PTL

=============================================================================
