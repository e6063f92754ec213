------------------------- MODULE RequestParserProofs --------------------------
(***************************************************************************)
(* What the parser accepts is what was sent, for messages of every length  *)
(* and every segmentation.  The invariant says where in the message the    *)
(* buffer begins: everything before has been consumed, everything from     *)
(* there to what has been received is in it.  Two more invariants rest on  *)
(* it: where in the chunks a chunked body is (BodyInv), and that a request *)
(* is not refused (RequestInv).                                            *)
(***************************************************************************)
EXTENDS RequestParserProps, SequenceFacts

Atom  == RequestLine \cup HeaderLine \cup BodyByte
State == {"REQUEST_LINE", "HEADERS", "ERROR"} \cup BodyState
Error == {-1, 400, 413, 415, 505}

Place  == {"recv", "parse", "done", "ended"}
Status == {0, -1, 200, 400, 405, 413, 415, 505}

\* How many atoms of m come before its body.
HeadLen(m) == 3 * Len(m.headers) + 5

-----------------------------------------------------------------------------
(* The invariant.                                                          *)

\* k atoms are consumed, the others that have come are in the buffer of q.
Buffered(q, k) == k \in 0..sent /\ q.raw = SubSeq(Wire(msg), k + 1, sent)

\* The first n header lines, as they passed the check of each line.
HeaderPart(q, n) ==
  /\ LineIsValid(msg) /\ q.line = msg.line
  /\ q.headers = {msg.headers[i] : i \in 1..n}
  /\ \A i \in 1..n : LET f == msg.headers[i] IN
       f.key # "" /\ (f.key = "cookie" => f.wellFormed)
  /\ \A i, j \in 1..n : i # j /\ msg.headers[j].key \in SameName(msg.headers[i].key) =>
       msg.headers[i].key \in LengthKeys /\ msg.headers[i] = msg.headers[j]

\* The whole header has passed the checks at its end.
HeaderOver(q) ==
  /\ LineIsValid(msg) /\ HeaderIsValid(msg)
  /\ q.line = msg.line /\ q.headers = Range(msg.headers)
  /\ sent >= HeadLen(msg)

IsPlain == Values(msg, "transfer-encoding") = {}

\* The state of the parser says what it has consumed.
ParserIs(q) ==
  /\ q \in Parser
  /\ q.state = "REQUEST_LINE" => Buffered(q, 0) /\ q.headers = {} /\ q.body = <<>>
  /\ q.state = "HEADERS" =>
       /\ \E n \in 0..Len(msg.headers) : Buffered(q, 3 * n + 3) /\ HeaderPart(q, n)
       /\ q.body = <<>>
  /\ q.state \in BodyState => HeaderOver(q)
  /\ q.state = "BODY_CONTENT_LENGTH" =>
       /\ IsPlain /\ Announced(msg) = {Len(q.body) + q.left}
       /\ Buffered(q, HeadLen(msg) + Len(q.body))
       /\ q.body = SubSeq(Wire(msg), HeadLen(msg) + 1, HeadLen(msg) + Len(q.body))
  /\ q.state = "BODY_CHUNKED" => ~IsPlain /\ q.raw \in Seq(BodyByte)
  /\ q.state = "BODY_NONE" => q.body = <<>> /\ q.raw \in Seq(BodyByte)
  /\ q.state = "COMPLETE" =>
       ~IsPlain \/ q.body = <<>> \/ Announced(msg) = {Len(q.body)}

\* The handler: as long as it reads, a server has been looked up when the header
\* is over, and what was announced fits.
HandlerIs ==
  /\ h \in Handler
  /\ h.pc \notin {"done", "ended"} =>
       /\ p.state \notin {"COMPLETE", "ERROR"}
       /\ h.resolved <=> p.state \in BodyState
       /\ h.resolved => \A n \in Announced(msg) : n <= limit
       /\ h.status = 0

InputInv == /\ msg \in Messages /\ limit \in Limits /\ sent \in 0..Len(Wire(msg))
            /\ ParserIs(p) /\ HandlerIs
            /\ RefusesForAReason /\ AcceptsHeaderSent /\ AnnouncedLimitIsRespected

-----------------------------------------------------------------------------
(* Atoms and messages.                                                     *)

\* A text is no byte.
LEMMA TextIsNoByte ==
  ASSUME NEW x \in RequestLine \cup HeaderLine
  PROVE  x # CR
<1>1. DOMAIN CR = {"byte"} BY DEF CR, Byte
<1>2. CASE x \in RequestLine
  <2> DEFINE None == [method |-> "", version |-> ""]
  <2>0. DOMAIN None = {"method", "version"} OBVIOUS
  <2>1. "method" \in DOMAIN x
    <3>1. CASE x = None BY <2>0, <3>1
    <3>2. CASE x # None BY <1>2, <3>2 DEF RequestLine
    <3> QED BY <3>1, <3>2
  <2> QED BY <1>1, <2>1
<1>3. CASE x \in HeaderLine
  <2>1. "key" \in DOMAIN x BY <1>3 DEF HeaderLine
  <2> QED BY <1>1, <2>1
<1> QED BY <1>2, <1>3

\* The two bytes of a line end.
LEMMA LineEndBytes ==
  /\ CR \in BodyByte /\ LF \in BodyByte /\ CR # LF
  /\ CRLF \in Seq(BodyByte) /\ Len(CRLF) = 2 /\ CRLF[1] = CR /\ CRLF[2] = LF
<1>1. CR \in BodyByte /\ LF \in BodyByte BY DEF CR, LF, BodyByte
<1>2. CR # LF
  <2>1. CR.byte = "CR" /\ LF.byte = "LF" BY DEF CR, LF, Byte
  <2> QED BY <2>1
<1> QED BY <1>1, <1>2 DEF CRLF

\* Places of a text and of its line end.
LEMMA TerminatedTexts ==
  ASSUME NEW texts \in Seq(RequestLine \cup HeaderLine)
  PROVE  LET t == Terminated(texts) IN
         /\ t \in Seq(Atom) /\ Len(t) = 3 * Len(texts)
         /\ \A i \in 0..Len(texts) - 1 :
              t[3 * i + 1] = texts[i + 1] /\ t[3 * i + 2] = CR /\ t[3 * i + 3] = LF
<1> DEFINE n == Len(texts)
           t == Terminated(texts)
<1>1. n \in Nat /\ \A i \in 1..n : texts[i] \in RequestLine \cup HeaderLine
  BY LenProperties, ElementOfSeq
<1>2. DOMAIN t = 1..3 * n BY DEF Terminated
<1>3. \A i \in 1..3 * n : i % 3 = 1 => (i + 2) \div 3 \in 1..n BY <1>1
<1>4. \A i \in 1..3 * n : t[i] \in Atom
  BY <1>1, <1>3, LineEndBytes DEF Terminated, Atom
<1>5. t \in [1..3 * n -> Atom] BY <1>2, <1>4 DEF Terminated
<1>6. t \in Seq(Atom) /\ Len(t) = 3 * n
  <2>1. 3 * n \in Nat BY <1>1
  <2>2. t \in Seq(Atom) BY <1>5, <2>1, SeqDef
  <2> QED BY <1>2, <2>1, <2>2, LenProperties
<1>7. ASSUME NEW i \in 0..n - 1
      PROVE  t[3 * i + 1] = texts[i + 1] /\ t[3 * i + 2] = CR /\ t[3 * i + 3] = LF
  <2>1. 3 * i + 1 \in 1..3 * n /\ 3 * i + 2 \in 1..3 * n /\ 3 * i + 3 \in 1..3 * n
    BY <1>1
  <2>2. (3 * i + 1) % 3 = 1 /\ (3 * i + 2) % 3 = 2 /\ (3 * i + 3) % 3 = 0
        /\ (3 * i + 1 + 2) \div 3 = i + 1
    BY <1>1
  <2> QED BY <2>1, <2>2 DEF Terminated
<1> QED BY <1>6, <1>7

\* What is where in a message.
LEMMA WireAtoms ==
  ASSUME NEW m \in Message
  PROVE  LET w == Wire(m)
             n == Len(m.headers)
         IN  /\ n \in Nat /\ Len(m.tail) \in Nat
             /\ w \in Seq(Atom) /\ Len(w) = HeadLen(m) + Len(m.tail)
             /\ w[1] = m.line /\ w[2] = CR /\ w[3] = LF
             /\ \A i \in 1..n : /\ w[3 * i + 1] = m.headers[i]
                                /\ w[3 * i + 2] = CR /\ w[3 * i + 3] = LF
             /\ w[3 * n + 4] = CR /\ w[3 * n + 5] = LF
             /\ \A i \in HeadLen(m) + 1..Len(w) : w[i] \in BodyByte
             /\ \A i \in 1..Len(m.tail) : w[HeadLen(m) + i] = m.tail[i]
<1> DEFINE Text == RequestLine \cup HeaderLine
           texts == <<m.line>> \o m.headers
           t == Terminated(texts)
           n == Len(m.headers)
           w == Wire(m)
<1>1. m.line \in RequestLine /\ m.headers \in Seq(HeaderLine) /\ m.tail \in Seq(BodyByte)
  BY DEF Message
<1>2. n \in Nat /\ Len(m.tail) \in Nat BY <1>1, LenProperties
<1>3. /\ texts \in Seq(Text) /\ Len(texts) = n + 1 /\ texts[1] = m.line
      /\ \A i \in 1..n : texts[i + 1] = m.headers[i]
  <2>1. <<m.line>> \in Seq(Text) /\ Len(<<m.line>>) = 1 /\ <<m.line>>[1] = m.line BY <1>1
  <2>2. m.headers \in Seq(Text) BY <1>1, SeqMonotonic
  <2>3. /\ texts \in Seq(Text) /\ Len(texts) = 1 + n
        /\ \A i \in 1..1 + n : texts[i] = IF i <= 1 THEN <<m.line>>[i] ELSE m.headers[i - 1]
    BY <2>1, <2>2, ConcatProperties
  <2> QED BY <1>2, <2>1, <2>3
<1> HIDE DEF texts
<1>4. /\ t \in Seq(Atom) /\ Len(t) = 3 * (n + 1)
      /\ \A i \in 0..n : t[3 * i + 1] = texts[i + 1] /\ t[3 * i + 2] = CR /\ t[3 * i + 3] = LF
  BY <1>2, <1>3, TerminatedTexts
<1> HIDE DEF t
<1>5. /\ t \o CRLF \in Seq(Atom) /\ Len(t \o CRLF) = 3 * n + 5
      /\ \A i \in 1..3 * n + 5 :
           (t \o CRLF)[i] = IF i <= 3 * n + 3 THEN t[i] ELSE CRLF[i - (3 * n + 3)]
  <2>1. CRLF \in Seq(Atom) BY LineEndBytes, SeqMonotonic DEF Atom
  <2>2. /\ t \o CRLF \in Seq(Atom) /\ Len(t \o CRLF) = Len(t) + Len(CRLF)
        /\ \A i \in 1..Len(t) + Len(CRLF) :
             (t \o CRLF)[i] = IF i <= Len(t) THEN t[i] ELSE CRLF[i - Len(t)]
    BY <1>4, <2>1, ConcatProperties
  <2> QED BY <1>2, <1>4, <2>2, LineEndBytes
<1> DEFINE u == t \o CRLF
           l == Len(m.tail)
<1>6. /\ w \in Seq(Atom) /\ Len(w) = 3 * n + 5 + l
      /\ \A i \in 1..3 * n + 5 + l :
           w[i] = IF i <= 3 * n + 5 THEN u[i] ELSE m.tail[i - (3 * n + 5)]
  <2>1. m.tail \in Seq(Atom) BY <1>1, SeqMonotonic DEF Atom
  <2>2. w = u \o m.tail BY DEF Wire, u, t, texts
  <2>3. u \in Seq(Atom) /\ Len(u) = 3 * n + 5 BY <1>5
  <2> HIDE DEF u, w
  <2>4. /\ u \o m.tail \in Seq(Atom) /\ Len(u \o m.tail) = Len(u) + Len(m.tail)
        /\ \A i \in 1..Len(u) + Len(m.tail) :
             (u \o m.tail)[i] = IF i <= Len(u) THEN u[i] ELSE m.tail[i - Len(u)]
    BY <2>1, <2>3, ConcatProperties
  <2> QED BY <2>2, <2>3, <2>4
<1>7. \A i \in 1..3 * n + 5 : u[i] = IF i <= 3 * n + 3 THEN t[i] ELSE CRLF[i - (3 * n + 3)]
  BY <1>5
<1>8. \A i \in HeadLen(m) + 1..Len(w) : w[i] = m.tail[i - (3 * n + 5)]
                                        /\ i - (3 * n + 5) \in 1..l
  <2> DEFINE a == 3 * n + 5
  <2>1. a \in Nat /\ l \in Nat BY <1>2
  <2>2. Len(w) = a + l /\ HeadLen(m) = a BY <1>6 DEF HeadLen
  <2>3. \A i \in 1..a + l : w[i] = IF i <= a THEN u[i] ELSE m.tail[i - a] BY <1>6
  <2> HIDE DEF a, l, u, w
  <2>4. \A i \in a + 1..a + l : i \in 1..a + l /\ ~(i <= a) /\ i - a \in 1..l BY <2>1
  <2>5. \A i \in a + 1..a + l : w[i] = m.tail[i - a] /\ i - a \in 1..l BY <2>3, <2>4
  <2> QED BY <2>2, <2>5 DEF a
<1> HIDE DEF u, w, n, l
<1>9. n \in Nat /\ l \in Nat BY <1>2 DEF n, l
<1>10. \A i \in 1..3 * n + 3 : w[i] = t[i]
  <2> SUFFICES ASSUME NEW i \in 1..3 * n + 3 PROVE w[i] = t[i] OBVIOUS
  <2>1. i \in Int /\ i <= 3 * n + 3 /\ i <= 3 * n + 5 /\ i \in 1..3 * n + 5
        /\ i \in 1..3 * n + 5 + l
    BY <1>9
  <2> QED BY <1>6, <1>7, <2>1
<1>11. w[3 * n + 4] = CR /\ w[3 * n + 5] = LF
  <2>1. ASSUME NEW j \in 1..2
        PROVE  w[3 * n + 3 + j] = CRLF[j]
    <3> DEFINE i == 3 * n + 3 + j
    <3>1. i \in 1..3 * n + 5 /\ i \in 1..3 * n + 5 + l /\ i <= 3 * n + 5
          /\ ~(i <= 3 * n + 3) /\ i - (3 * n + 3) = j
      BY <1>9
    <3> HIDE DEF i
    <3>2. w[i] = u[i] BY <1>6, <3>1
    <3>3. u[i] = CRLF[i - (3 * n + 3)] BY <1>7, <3>1
    <3> QED BY <3>1, <3>2, <3>3 DEF i
  <2>2. 3 * n + 4 = 3 * n + 3 + 1 /\ 3 * n + 5 = 3 * n + 3 + 2 BY <1>9
  <2> QED BY <2>1, <2>2, LineEndBytes
<1>12. \A i \in 0..n : w[3 * i + 1] = texts[i + 1] /\ w[3 * i + 2] = CR /\ w[3 * i + 3] = LF
  <2> SUFFICES ASSUME NEW i \in 0..n
               PROVE  w[3 * i + 1] = texts[i + 1] /\ w[3 * i + 2] = CR /\ w[3 * i + 3] = LF
    OBVIOUS
  <2>1. /\ 3 * i + 1 \in 1..3 * n + 3 /\ 3 * i + 2 \in 1..3 * n + 3
        /\ 3 * i + 3 \in 1..3 * n + 3
    BY <1>9
  <2>2. w[3 * i + 1] = t[3 * i + 1] /\ w[3 * i + 2] = t[3 * i + 2]
        /\ w[3 * i + 3] = t[3 * i + 3]
    BY <1>10, <2>1
  <2>3. t[3 * i + 1] = texts[i + 1] /\ t[3 * i + 2] = CR /\ t[3 * i + 3] = LF
    BY <1>4 DEF n
  <2> QED BY <2>2, <2>3
<1>13. w[1] = m.line /\ w[2] = CR /\ w[3] = LF
  <2>1. 0 \in 0..n /\ 3 * 0 + 1 = 1 /\ 3 * 0 + 2 = 2 /\ 3 * 0 + 3 = 3 /\ 0 + 1 = 1
    BY <1>9
  <2>2. w[3 * 0 + 1] = texts[0 + 1] /\ w[3 * 0 + 2] = CR /\ w[3 * 0 + 3] = LF
    BY <1>12, <2>1
  <2> QED BY <1>3, <2>1, <2>2
<1>14. \A i \in 1..n : /\ w[3 * i + 1] = m.headers[i]
                       /\ w[3 * i + 2] = CR /\ w[3 * i + 3] = LF
  <2>1. \A i \in 1..n : i \in 0..n /\ texts[i + 1] = m.headers[i] BY <1>3, <1>9 DEF n
  <2> QED BY <1>12, <2>1
<1>15. \A i \in HeadLen(m) + 1..Len(w) : w[i] \in BodyByte
  BY <1>1, <1>8, ElementOfSeq DEF l
<1>16. w \in Seq(Atom) /\ Len(w) = HeadLen(m) + l
  BY <1>6 DEF HeadLen, n
<1>17. \A i \in 1..l : w[HeadLen(m) + i] = m.tail[i]
  <2> DEFINE a == 3 * n + 5
  <2>1. a \in Nat /\ HeadLen(m) = a /\ Len(w) = a + l BY <1>9, <1>16 DEF HeadLen, n
  <2>2. \A i \in a + 1..a + l : w[i] = m.tail[i - a] BY <1>8, <2>1 DEF n
  <2> HIDE DEF a
  <2>3. \A i \in 1..l : a + i \in a + 1..a + l /\ a + i - a = i BY <1>9, <2>1
  <2> QED BY <2>1, <2>2, <2>3
<1> QED BY <1>9, <1>11, <1>13, <1>14, <1>15, <1>16, <1>17 DEF n, l, w

-----------------------------------------------------------------------------
(* Lines of the buffer.                                                    *)

\* A buffer with a line end: the line, and what is after it, which is shorter.
LEMMA FirstLineIs ==
  ASSUME NEW S, NEW s \in Seq(S), HasEndOfLine(s)
  PROVE  /\ FirstLine(s) \in Seq(S) /\ AfterFirstLine(s) \in Seq(S)
         /\ Len(AfterFirstLine(s)) < Len(s) /\ Len(s) \in Nat
<1> DEFINE k == Min(LineEnds(s))
<1>1. Len(s) \in Nat /\ \A i \in 1..Len(s) : s[i] \in S BY LenProperties, ElementOfSeq
<1>2. k \in 1..Len(s) - 1
  <2>1. LineEnds(s) \subseteq 1..Len(s) - 1 BY DEF LineEnds
  <2>2. LineEnds(s) \subseteq Nat /\ LineEnds(s) # {} BY <1>1, <2>1 DEF HasEndOfLine
  <2> QED BY <2>1, <2>2, MinIsSmallest
<1> HIDE DEF k
<1>3. SubSeq(s, 1, k - 1) \in Seq(S)
  <2>1. \A i \in 1..k - 1 : s[i] \in S BY <1>1, <1>2
  <2> QED BY <1>2, <2>1, SubSeqProperties
<1>4. SubSeq(s, k + 2, Len(s)) \in Seq(S)
      /\ Len(SubSeq(s, k + 2, Len(s))) = IF k + 2 <= Len(s) THEN Len(s) - (k + 2) + 1 ELSE 0
  <2>1. \A i \in k + 2..Len(s) : s[i] \in S BY <1>1, <1>2
  <2> QED BY <1>1, <1>2, <2>1, SubSeqProperties
<1> QED BY <1>1, <1>2, <1>3, <1>4 DEF FirstLine, AfterFirstLine, k

\* A piece of a sequence.
LEMMA PieceIs ==
  ASSUME NEW S, NEW w \in Seq(S), NEW k \in Nat, NEW n \in k..Len(w)
  PROVE  LET s == SubSeq(w, k + 1, n) IN
         /\ s \in Seq(S) /\ Len(s) = n - k
         /\ \A i \in 1..n - k : s[i] = w[k + i]
<1> DEFINE s == SubSeq(w, k + 1, n)
<1>1. Len(w) \in Nat /\ \A i \in 1..Len(w) : w[i] \in S BY LenProperties, ElementOfSeq
<1>2. k + 1 \in Int /\ n \in Int /\ \A i \in k + 1..n : w[i] \in S BY <1>1
<1>3. /\ s \in Seq(S) /\ Len(s) = IF k + 1 <= n THEN n - (k + 1) + 1 ELSE 0
      /\ \A i \in 1..n - (k + 1) + 1 : s[i] = w[k + 1 + i - 1]
  BY <1>2, SubSeqProperties
<1> HIDE DEF s
<1>4. Len(s) = n - k BY <1>1, <1>3
<1>5. \A i \in 1..n - k : s[i] = w[k + i]
  <2> SUFFICES ASSUME NEW i \in 1..n - k PROVE s[i] = w[k + i] OBVIOUS
  <2>1. i \in 1..n - (k + 1) + 1 /\ k + 1 + i - 1 = k + i BY <1>1
  <2> QED BY <1>3, <2>1
<1> QED BY <1>3, <1>4, <1>5 DEF s

\* What is left of a piece when d elements are dropped, and what they were.
LEMMA DropIs ==
  ASSUME NEW S, NEW w \in Seq(S), NEW k \in Nat, NEW n \in k..Len(w), NEW d \in 0..n - k
  PROVE  LET s == SubSeq(w, k + 1, n) IN
         /\ SubSeq(s, d + 1, Len(s)) = SubSeq(w, k + d + 1, n)
         /\ SubSeq(s, 1, d) = SubSeq(w, k + 1, k + d)
<1> DEFINE s == SubSeq(w, k + 1, n)
<1>1. Len(w) \in Nat BY LenProperties
<1>2. s \in Seq(S) /\ Len(s) = n - k BY PieceIs
<1>3. SubSeq(s, d + 1, Len(s)) = SubSeq(w, k + d + 1, n)
  <2>1. CASE d = n - k
    <3>1. d + 1 \in Int /\ Len(s) \in Int /\ Len(s) < d + 1 BY <1>1, <1>2, <2>1
    <3>2. k + d + 1 \in Int /\ n \in Int /\ n < k + d + 1 BY <1>1, <2>1
    <3> QED BY <3>1, <3>2, SubSeqEmpty
  <2>2. CASE d # n - k
    <3>1. /\ k + 1 \in 1..Len(w) /\ n \in 1..Len(w)
          /\ d + 1 \in 1..n - (k + 1) + 1 /\ n - k \in 1..n - (k + 1) + 1
      BY <1>1, <2>2
    <3>2. SubSeq(s, d + 1, n - k) = SubSeq(w, k + 1 + (d + 1) - 1, k + 1 + (n - k) - 1)
      BY <3>1, SubSeqOfSubSeq
    <3>3. k + 1 + (d + 1) - 1 = k + d + 1 /\ k + 1 + (n - k) - 1 = n BY <1>1
    <3> QED BY <1>2, <3>2, <3>3
  <2> QED BY <2>1, <2>2
<1>4. SubSeq(s, 1, d) = SubSeq(w, k + 1, k + d)
  <2>1. CASE d = 0
    <3>1. 1 \in Int /\ d \in Int /\ d < 1 BY <2>1
    <3>2. k + 1 \in Int /\ k + d \in Int /\ k + d < k + 1 BY <2>1
    <3> QED BY <3>1, <3>2, SubSeqEmpty
  <2>2. CASE d # 0
    <3>1. /\ k + 1 \in 1..Len(w) /\ n \in 1..Len(w)
          /\ 1 \in 1..n - (k + 1) + 1 /\ d \in 1..n - (k + 1) + 1
      BY <1>1, <2>2
    <3>2. SubSeq(s, 1, d) = SubSeq(w, k + 1 + 1 - 1, k + 1 + d - 1)
      BY <3>1, SubSeqOfSubSeq
    <3>3. k + 1 + 1 - 1 = k + 1 /\ k + 1 + d - 1 = k + d BY <1>1
    <3> QED BY <3>2, <3>3
  <2> QED BY <2>1, <2>2
<1> QED BY <1>3, <1>4

\* The next line of a buffer that begins with a text.
LEMMA NextText ==
  ASSUME NEW S, NEW w \in Seq(S), NEW k \in Nat, NEW n \in k..Len(w),
         w[k + 1] # CR, w[k + 2] = CR, w[k + 3] = LF,
         HasEndOfLine(SubSeq(w, k + 1, n))
  PROVE  LET s == SubSeq(w, k + 1, n) IN
         /\ FirstLine(s) # <<>> /\ FirstLine(s)[1] = w[k + 1]
         /\ AfterFirstLine(s) = SubSeq(w, k + 4, n) /\ k + 3 <= n
<1> DEFINE s == SubSeq(w, k + 1, n)
<1>0. Len(w) \in Nat BY LenProperties
<1>1. s \in Seq(S) /\ Len(s) = n - k /\ \A i \in 1..n - k : s[i] = w[k + i] BY PieceIs
<1> HIDE DEF s
<1>2. PICK i \in 1..n - k - 1 : s[i] = CR /\ s[i + 1] = LF
  BY <1>1 DEF HasEndOfLine, LineEnds, s
<1>3. 1 \in 1..n - k /\ s[1] # CR BY <1>0, <1>1, <1>2
<1>4. i # 1 /\ k + 3 <= n BY <1>0, <1>2, <1>3
<1>5. 2 \in LineEnds(s) /\ 1 \notin LineEnds(s)
  <2>1. 2 \in 1..n - k /\ 3 \in 1..n - k /\ 2 \in 1..n - k - 1 BY <1>0, <1>4
  <2>2. s[2] = CR /\ s[3] = LF BY <1>1, <2>1
  <2> QED BY <1>1, <1>3, <2>1, <2>2 DEF LineEnds
<1>6. Min(LineEnds(s)) = 2
  <2>1. LineEnds(s) \subseteq Nat BY <1>0, <1>1 DEF LineEnds
  <2>2. Min(LineEnds(s)) \in LineEnds(s) /\ Min(LineEnds(s)) <= 2
    BY <1>5, <2>1, MinIsSmallest
  <2>3. 0 \notin LineEnds(s) BY <1>0, <1>1 DEF LineEnds
  <2> HIDE DEF s
  <2> QED BY <1>5, <2>1, <2>2, <2>3
<1>7. FirstLine(s) = SubSeq(w, k + 1, k + 1) /\ AfterFirstLine(s) = SubSeq(w, k + 4, n)
  <2>1. 1 \in 0..n - k /\ 3 \in 0..n - k BY <1>0, <1>4
  <2>2. SubSeq(s, 1, 1) = SubSeq(w, k + 1, k + 1) BY <2>1, DropIs DEF s
  <2>3. SubSeq(s, 3 + 1, Len(s)) = SubSeq(w, k + 3 + 1, n) BY <2>1, DropIs DEF s
  <2>4. 2 - 1 = 1 /\ 2 + 2 = 3 + 1 /\ k + 3 + 1 = k + 4 OBVIOUS
  <2> QED BY <1>6, <2>2, <2>3, <2>4 DEF FirstLine, AfterFirstLine
<1>8. FirstLine(s) # <<>> /\ FirstLine(s)[1] = w[k + 1]
  <2>1. k + 1 \in k..Len(w) /\ k + 1 - k = 1 /\ 1 \in 1..1 BY <1>0, <1>4
  <2>2. Len(FirstLine(s)) = 1 /\ FirstLine(s)[1] = w[k + 1] BY <1>7, <2>1, PieceIs
  <2> QED BY <2>2
<1> QED BY <1>4, <1>7, <1>8 DEF s

\* The next line of a buffer that begins with a line end.
LEMMA NextEmpty ==
  ASSUME NEW S, NEW w \in Seq(S), NEW k \in Nat, NEW n \in k..Len(w),
         w[k + 1] = CR, w[k + 2] = LF,
         HasEndOfLine(SubSeq(w, k + 1, n))
  PROVE  LET s == SubSeq(w, k + 1, n) IN
         /\ FirstLine(s) = <<>>
         /\ AfterFirstLine(s) = SubSeq(w, k + 3, n) /\ k + 2 <= n
<1> DEFINE s == SubSeq(w, k + 1, n)
<1>0. Len(w) \in Nat BY LenProperties
<1>1. s \in Seq(S) /\ Len(s) = n - k /\ \A i \in 1..n - k : s[i] = w[k + i] BY PieceIs
<1> HIDE DEF s
<1>2. PICK i \in 1..n - k - 1 : TRUE
  BY <1>1 DEF HasEndOfLine, LineEnds, s
<1>3. k + 2 <= n BY <1>0, <1>2
<1>4. 1 \in LineEnds(s)
  <2>1. 1 \in 1..n - k /\ 2 \in 1..n - k /\ 1 \in 1..n - k - 1 BY <1>0, <1>3
  <2>2. s[1] = CR /\ s[2] = LF BY <1>1, <2>1
  <2> QED BY <1>1, <2>1, <2>2 DEF LineEnds
<1>5. Min(LineEnds(s)) = 1
  <2>1. LineEnds(s) \subseteq Nat BY <1>0, <1>1 DEF LineEnds
  <2>2. Min(LineEnds(s)) \in LineEnds(s) /\ Min(LineEnds(s)) <= 1
    BY <1>4, <2>1, MinIsSmallest
  <2>3. 0 \notin LineEnds(s) BY <1>0, <1>1 DEF LineEnds
  <2> QED BY <2>1, <2>2, <2>3
<1>6. FirstLine(s) = <<>> /\ AfterFirstLine(s) = SubSeq(w, k + 3, n)
  <2>1. 0 \in 0..n - k /\ 2 \in 0..n - k BY <1>0, <1>3
  <2>2. SubSeq(s, 1, 0) = <<>> BY SubSeqEmpty
  <2>3. SubSeq(s, 2 + 1, Len(s)) = SubSeq(w, k + 2 + 1, n) BY <2>1, DropIs DEF s
  <2>4. 1 - 1 = 0 /\ 1 + 2 = 2 + 1 /\ k + 2 + 1 = k + 3 OBVIOUS
  <2> QED BY <1>5, <2>2, <2>3, <2>4 DEF FirstLine, AfterFirstLine
<1> QED BY <1>3, <1>6 DEF s

-----------------------------------------------------------------------------
(* Lists of checks.                                                        *)

\* The first check that fails is one of the list; if there is none, none fails.
LEMMA FirstFaultIs ==
  ASSUME NEW S, NEW checks \in Seq(S)
  PROVE  LET k == FirstFault(checks) IN
         \/ k = 0 /\ \A i \in 1..Len(checks) : ~checks[i].fails
         \/ k \in 1..Len(checks) /\ checks[k].fails
<1> DEFINE I == {i \in 1..Len(checks) : checks[i].fails}
<1>1. Len(checks) \in Nat BY LenProperties
<1>2. FirstFault(checks) = IF I # {} THEN Min(I) ELSE 0
  BY DEF FirstFault, SelectInSeq
<1>3. I # {} => Min(I) \in I
  <2>1. I \subseteq Nat BY <1>1
  <2> QED BY <2>1, MinIsSmallest
<1> QED BY <1>2, <1>3

\* The checks of a request line, in general.
LEMMA LineFault ==
  ASSUME NEW a, NEW b, NEW c
  PROVE  LET checks == <<[fails |-> a, code |-> -1], [fails |-> b, code |-> 400],
                          [fails |-> c, code |-> 505]>>
             k == FirstFault(checks)
         IN  /\ k = 0 => ~a /\ ~b /\ ~c
             /\ k # 0 => \/ checks[k].code = -1 /\ a
                         \/ checks[k].code = 400
                         \/ checks[k].code = 505 /\ c
             /\ k # 0 => a \/ b \/ c
<1> DEFINE x1 == [fails |-> a, code |-> -1]
           x2 == [fails |-> b, code |-> 400]
           x3 == [fails |-> c, code |-> 505]
           checks == <<x1, x2, x3>>
           k == FirstFault(checks)
<1>1. x1.fails <=> a BY Zenon
<1>2. x2.fails <=> b BY Zenon
<1>3. x3.fails <=> c BY Zenon
<1>4. /\ x1.code = -1 /\ x2.code = 400 /\ x3.code = 505
  OBVIOUS
<1> HIDE DEF x1, x2, x3
<1>5. /\ checks \in Seq({x1, x2, x3}) /\ Len(checks) = 3
      /\ checks[1] = x1 /\ checks[2] = x2 /\ checks[3] = x3
  OBVIOUS
<1> HIDE DEF checks
<1>6. \/ k = 0 /\ \A i \in 1..3 : ~checks[i].fails
      \/ k \in 1..3 /\ checks[k].fails
  BY <1>5, FirstFaultIs
<1> HIDE DEF k
<1>7. CASE k = 0
  <2>1. \A i \in {1, 2, 3} : ~checks[i].fails BY <1>6, <1>7
  <2> QED BY <1>1, <1>2, <1>3, <1>5, <1>7, <2>1 DEF k, checks, x1, x2, x3
<1>8. CASE k # 0
  <2>1. k = 1 \/ k = 2 \/ k = 3 BY <1>6, <1>8
  <2>2. \E x \in {x1, x2, x3} : checks[k] = x /\ x.fails
    BY <1>5, <1>6, <1>8, <2>1
  <2>3. \/ checks[k].code = -1 /\ a
        \/ checks[k].code = 400
        \/ checks[k].code = 505 /\ c
    BY <1>1, <1>2, <1>3, <1>4, <2>2
  <2>4. a \/ b \/ c BY <1>1, <1>2, <1>3, <2>2
  <2> QED BY <1>8, <2>3, <2>4 DEF k, checks, x1, x2, x3
<1> QED BY <1>7, <1>8

\* The checks of a header line.
LEMMA FieldFault ==
  ASSUME NEW a, NEW b, NEW c, NEW d
  PROVE  LET checks == <<[fails |-> a, code |-> -1], [fails |-> b, code |-> 400],
                          [fails |-> c, code |-> 400], [fails |-> d, code |-> 400]>>
             k == FirstFault(checks)
         IN  /\ k = 0 => ~a /\ ~b /\ ~c /\ ~d
             /\ k # 0 => \/ checks[k].code = -1 /\ a
                         \/ checks[k].code = 400
             /\ k # 0 => a \/ b \/ c \/ d
<1> DEFINE x1 == [fails |-> a, code |-> -1]
           x2 == [fails |-> b, code |-> 400]
           x3 == [fails |-> c, code |-> 400]
           x4 == [fails |-> d, code |-> 400]
           checks == <<x1, x2, x3, x4>>
           k == FirstFault(checks)
<1>1. x1.fails <=> a BY Zenon
<1>2. x2.fails <=> b BY Zenon
<1>3. x3.fails <=> c BY Zenon
<1>4. x4.fails <=> d BY Zenon
<1>5. /\ x1.code = -1 /\ x2.code = 400 /\ x3.code = 400
      /\ x4.code = 400
  OBVIOUS
<1> HIDE DEF x1, x2, x3, x4
<1>6. /\ checks \in Seq({x1, x2, x3, x4}) /\ Len(checks) = 4
      /\ checks[1] = x1 /\ checks[2] = x2 /\ checks[3] = x3
      /\ checks[4] = x4
  OBVIOUS
<1> HIDE DEF checks
<1>7. \/ k = 0 /\ \A i \in 1..4 : ~checks[i].fails
      \/ k \in 1..4 /\ checks[k].fails
  BY <1>6, FirstFaultIs
<1> HIDE DEF k
<1>8. CASE k = 0
  <2>1. \A i \in {1, 2, 3, 4} : ~checks[i].fails BY <1>7, <1>8
  <2> QED BY <1>1, <1>2, <1>3, <1>4, <1>6, <1>8, <2>1 DEF k, checks, x1, x2, x3, x4
<1>9. CASE k # 0
  <2>1. k = 1 \/ k = 2 \/ k = 3 \/ k = 4 BY <1>7, <1>9
  <2>2. \E x \in {x1, x2, x3, x4} : checks[k] = x /\ x.fails
    BY <1>6, <1>7, <1>9, <2>1
  <2>3. \/ checks[k].code = -1 /\ a
        \/ checks[k].code = 400
    BY <1>1, <1>2, <1>3, <1>4, <1>5, <2>2
  <2>4. a \/ b \/ c \/ d BY <1>1, <1>2, <1>3, <1>4, <2>2
  <2> QED BY <1>9, <2>3, <2>4 DEF k, checks, x1, x2, x3, x4
<1> QED BY <1>8, <1>9

\* The checks of a header.
LEMMA HeaderFault ==
  ASSUME NEW a, NEW b, NEW c, NEW d, NEW e, NEW f
  PROVE  LET checks == <<[fails |-> a, code |-> 400], [fails |-> b, code |-> 400],
                          [fails |-> c, code |-> 400], [fails |-> d, code |-> 415],
                          [fails |-> e, code |-> 400], [fails |-> f, code |-> 400]>>
             k == FirstFault(checks)
         IN  /\ k = 0 => ~a /\ ~b /\ ~c /\ ~d /\ ~e /\ ~f
             /\ k # 0 => \/ checks[k].code = 415 /\ d
                         \/ checks[k].code = 400
             /\ k # 0 => a \/ b \/ c \/ d \/ e \/ f
<1> DEFINE x1 == [fails |-> a, code |-> 400]
           x2 == [fails |-> b, code |-> 400]
           x3 == [fails |-> c, code |-> 400]
           x4 == [fails |-> d, code |-> 415]
           x5 == [fails |-> e, code |-> 400]
           x6 == [fails |-> f, code |-> 400]
           checks == <<x1, x2, x3, x4, x5, x6>>
           k == FirstFault(checks)
<1>1. x1.fails <=> a BY Zenon
<1>2. x2.fails <=> b BY Zenon
<1>3. x3.fails <=> c BY Zenon
<1>4. x4.fails <=> d BY Zenon
<1>5. x5.fails <=> e BY Zenon
<1>6. x6.fails <=> f BY Zenon
<1>7. /\ x1.code = 400 /\ x2.code = 400 /\ x3.code = 400
      /\ x4.code = 415 /\ x5.code = 400 /\ x6.code = 400
  OBVIOUS
<1> HIDE DEF x1, x2, x3, x4, x5, x6
<1>8. /\ checks \in Seq({x1, x2, x3, x4, x5, x6}) /\ Len(checks) = 6
      /\ checks[1] = x1 /\ checks[2] = x2 /\ checks[3] = x3
      /\ checks[4] = x4 /\ checks[5] = x5 /\ checks[6] = x6
  OBVIOUS
<1> HIDE DEF checks
<1>9. \/ k = 0 /\ \A i \in 1..6 : ~checks[i].fails
      \/ k \in 1..6 /\ checks[k].fails
  BY <1>8, FirstFaultIs
<1> HIDE DEF k
<1>10. CASE k = 0
  <2>1. \A i \in {1, 2, 3, 4, 5, 6} : ~checks[i].fails BY <1>9, <1>10
  <2> QED BY <1>1, <1>2, <1>3, <1>4, <1>5, <1>6, <1>8, <1>10, <2>1 DEF k, checks, x1, x2, x3, x4, x5, x6
<1>11. CASE k # 0
  <2>1. k = 1 \/ k = 2 \/ k = 3 \/ k = 4 \/ k = 5 \/ k = 6 BY <1>9, <1>11
  <2>2. \E x \in {x1, x2, x3, x4, x5, x6} : checks[k] = x /\ x.fails
    BY <1>8, <1>9, <1>11, <2>1
  <2>3. \/ checks[k].code = 415 /\ d
        \/ checks[k].code = 400
    BY <1>1, <1>2, <1>3, <1>4, <1>5, <1>6, <1>7, <2>2
  <2>4. a \/ b \/ c \/ d \/ e \/ f BY <1>1, <1>2, <1>3, <1>4, <1>5, <1>6, <2>2
  <2> QED BY <1>11, <2>3, <2>4 DEF k, checks, x1, x2, x3, x4, x5, x6
<1> QED BY <1>10, <1>11

-----------------------------------------------------------------------------
(* The parse functions.                                                    *)

\* A line of the message cannot be read.
Unreadable == msg.line = NoLine \/ Sent(msg, "") # {}

\* A reason for an error that the message gives.
Reason(error) ==
  /\ error = 413 => \E n \in Announced(msg) : n > TenMb
  /\ error = 415 => \E f \in Values(msg, "content-type") : f.type = "other"
  /\ error = 505 => msg.line.version = "other"
  /\ error = -1  => Unreadable

\* A bad request needs no other reason.
LEMMA BadRequest == 400 \in Error /\ Reason(400)
BY DEF Error, Reason

\* What the other error codes need.
LEMMA Reasons ==
  /\ -1 \in Error /\ (Unreadable => Reason(-1))
  /\ 413 \in Error /\ ((\E n \in Announced(msg) : n > TenMb) => Reason(413))
  /\ 415 \in Error
  /\ ((\E f \in Values(msg, "content-type") : f.type = "other") => Reason(415))
  /\ 505 \in Error /\ (msg.line.version = "other" => Reason(505))
<1>1. -1 \in Error /\ 413 \in Error /\ 415 \in Error /\ 505 \in Error BY DEF Error
<1>2. Unreadable => Reason(-1) BY DEF Reason
<1>3. (\E n \in Announced(msg) : n > TenMb) => Reason(413) BY DEF Reason
<1>4. (\E f \in Values(msg, "content-type") : f.type = "other") => Reason(415)
  BY DEF Reason
<1>5. msg.line.version = "other" => Reason(505) BY DEF Reason
<1> QED BY <1>1, <1>2, <1>3, <1>4, <1>5

\* What one turn of parseNext makes of q.
Turn(q, r) ==
  /\ r.res \in {"OK", "AGAIN", "ERROR"} /\ ParserIs(r.p)
  /\ r.res = "ERROR" => r.p.state = "ERROR" /\ Reason(r.p.error)
  /\ r.res # "ERROR" => r.p.state # "ERROR" /\ (q.state \in BodyState => r.p.state \in BodyState)
  /\ r.res = "AGAIN" => r.p.state # "COMPLETE"
  /\ r.res = "OK" => r.p.state = "COMPLETE" \/ Len(r.p.raw) < Len(q.raw)

Received == msg \in Messages /\ sent \in 0..Len(Wire(msg))

\* A message is of its type, and what it is made of.
LEMMA MessageIs ==
  ASSUME Received
  PROVE  /\ msg \in Message /\ msg.line \in RequestLine
         /\ msg.headers \in Seq(HeaderLine) /\ DOMAIN msg.headers = 1..Len(msg.headers)
         /\ \A i \in 1..Len(msg.headers) : msg.headers[i] \in HeaderLine
         /\ Len(msg.headers) \in Nat /\ sent \in Nat
<1>1. msg \in Message BY RequestParserAssumption DEF Received
<1>2. msg.line \in RequestLine /\ msg.headers \in Seq(HeaderLine) BY <1>1 DEF Message
<1>3. sent \in Nat BY <1>1, WireAtoms DEF Received
<1> QED BY <1>1, <1>2, <1>3, LenProperties, ElementOfSeq

\* What a parser is made of.
LEMMA ParserIsMadeOf ==
  ASSUME NEW q \in Parser
  PROVE  /\ q.raw \in Seq(Atom) /\ q.body \in Seq(BodyByte) /\ q.headers \in SUBSET HeaderLine
         /\ q.left \in Nat /\ q.size \in Nat /\ q.error \in Error /\ q.state \in State
<1>1. Parser = [state: State, error: Error, left: Nat, size: Nat, waiting: BOOLEAN,
                raw: Seq(Atom), line: RequestLine, headers: SUBSET HeaderLine,
                body: Seq(BodyByte)]
  BY DEF Parser, State, Error, Atom
<1> QED BY <1>1

\* A parser stays one when a field is given a value of its type.
LEMMA ParserWith ==
  ASSUME NEW q \in Parser
  PROVE  /\ \A x \in State          : [q EXCEPT !.state = x] \in Parser
         /\ \A x \in Error          : [q EXCEPT !.error = x] \in Parser
         /\ \A x \in Nat            : [q EXCEPT !.left = x] \in Parser
         /\ \A x \in Nat            : [q EXCEPT !.size = x] \in Parser
         /\ \A x \in BOOLEAN        : [q EXCEPT !.waiting = x] \in Parser
         /\ \A x \in Seq(Atom)      : [q EXCEPT !.raw = x] \in Parser
         /\ \A x \in RequestLine    : [q EXCEPT !.line = x] \in Parser
         /\ \A x \in SUBSET HeaderLine : [q EXCEPT !.headers = x] \in Parser
         /\ \A x \in Seq(BodyByte)  : [q EXCEPT !.body = x] \in Parser
<1>1. ASSUME NEW A, NEW B, NEW C, NEW D, NEW E, NEW F, NEW G, NEW H, NEW I, 
             NEW r \in [state: A, error: B, left: C, size: D, waiting: E, raw: F,
                        line: G, headers: H, body: I]
      PROVE  LET R == [state: A, error: B, left: C, size: D, waiting: E, raw: F,
                        line: G, headers: H, body: I]
             IN  /\ \A x \in A : [r EXCEPT !.state = x] \in R
                 /\ \A x \in B : [r EXCEPT !.error = x] \in R
                 /\ \A x \in C : [r EXCEPT !.left = x] \in R
                 /\ \A x \in D : [r EXCEPT !.size = x] \in R
                 /\ \A x \in E : [r EXCEPT !.waiting = x] \in R
                 /\ \A x \in F : [r EXCEPT !.raw = x] \in R
                 /\ \A x \in G : [r EXCEPT !.line = x] \in R
                 /\ \A x \in H : [r EXCEPT !.headers = x] \in R
                 /\ \A x \in I : [r EXCEPT !.body = x] \in R
  OBVIOUS
<1>2. Parser = [state: State, error: Error, left: Nat, size: Nat, waiting: BOOLEAN,
                raw: Seq(Atom), line: RequestLine, headers: SUBSET HeaderLine,
                body: Seq(BodyByte)]
  BY DEF Parser, State, Error, Atom
<1> QED BY <1>1, <1>2, Zenon

\* A parser that refuses says why.
LEMMA FailIs ==
  ASSUME NEW q \in Parser, NEW code \in Error, Reason(code), NEW q0
  PROVE  Turn(q0, Fail(q, code))
<1> DEFINE r == [q EXCEPT !.state = "ERROR", !.error = code]
<1>1. r \in Parser
  <2>1. "ERROR" \in State BY DEF State
  <2>2. [q EXCEPT !.state = "ERROR"] \in Parser BY <2>1, ParserWith
  <2> QED BY <2>2, ParserWith
<1>2. r.state = "ERROR" /\ r.error = code BY DEF Parser
<1> HIDE DEF r
<1>3. ParserIs(r) BY <1>1, <1>2 DEF ParserIs, BodyState
<1>4. Fail(q, code) = [res |-> "ERROR", p |-> r] BY DEF Fail, Result, r
<1> QED BY <1>2, <1>3, <1>4 DEF Turn

\* Nothing is done before a line is there.
LEMMA AgainIs ==
  ASSUME NEW q, ParserIs(q), q.state \notin {"ERROR", "COMPLETE"}
  PROVE  Turn(q, Result("AGAIN", q))
BY DEF Turn, Result

\* The request line.
LEMMA RequestLineTurn ==
  ASSUME Received, NEW q, ParserIs(q), q.state = "REQUEST_LINE"
  PROVE  Turn(q, ParseRequestLine(q))
<1> DEFINE w == Wire(msg)
           raw == AfterFirstLine(q.raw)
           r == [q EXCEPT !.raw = raw]
<1>1. /\ q \in Parser /\ q.raw = SubSeq(w, 0 + 1, sent) /\ q.headers = {} /\ q.body = <<>>
  BY DEF ParserIs, Buffered
<1>2. CASE ~HasEndOfLine(q.raw)
  BY <1>2, AgainIs DEF ParseRequestLine
<1>3. ASSUME HasEndOfLine(q.raw)
      PROVE  Turn(q, ParseRequestLine(q))
  <2>1. /\ w \in Seq(Atom) /\ w[1] = msg.line /\ w[2] = CR /\ w[3] = LF /\ msg.line # CR
        /\ sent \in 0..Len(w)
    BY MessageIs, WireAtoms, TextIsNoByte DEF Received
  <2>2. /\ FirstLine(q.raw)[1] = msg.line
        /\ raw = SubSeq(w, 4, sent) /\ 3 <= sent
    <3>1. w[0 + 1] # CR /\ w[0 + 2] = CR /\ w[0 + 3] = LF /\ 0 \in Nat BY <2>1
    <3>2. /\ FirstLine(q.raw)[1] = w[0 + 1]
          /\ AfterFirstLine(q.raw) = SubSeq(w, 0 + 4, sent) /\ 0 + 3 <= sent
      BY <1>1, <1>3, <2>1, <3>1, NextText
    <3> QED BY <2>1, <3>2
  <2>3. raw \in Seq(Atom) /\ Len(raw) < Len(q.raw)
    <3>1. q.raw \in Seq(Atom) BY <1>1, ParserIsMadeOf
    <3> QED BY <1>3, <3>1, FirstLineIs
  <2> DEFINE l == msg.line
             a == l = NoLine
             b == l.method = "other"
             c == l.version = "other"
             checks == <<[fails |-> a, code |-> -1], [fails |-> b, code |-> 400],
                         [fails |-> c, code |-> 505]>>
             k == FirstFault(checks)
             t == [r EXCEPT !.state = "HEADERS", !.line = l]
  <2>4. ParseRequestLine(q) = IF k # 0 THEN Fail(r, checks[k].code) ELSE Result("OK", t)
    BY <1>3, <2>2 DEF ParseRequestLine
  <2> DEFINE code == checks[k].code
  <2>5. /\ k = 0 => ~a /\ ~b /\ ~c
        /\ k # 0 => (code = -1 /\ a) \/ code = 400 \/ (code = 505 /\ c)
    <3> HIDE DEF a, b, c
    <3> QED BY LineFault
  <2> HIDE DEF k, code
  <2>6. CASE k # 0
    <3>1. (code = -1 /\ a) \/ code = 400 \/ (code = 505 /\ c) BY <2>5, <2>6
    <3>2. Reason(code) /\ code \in Error
      <4>1. CASE code = -1 /\ a
        <5>1. Unreadable /\ code = -1 BY <4>1 DEF Unreadable
        <5> QED BY <5>1, Reasons
      <4>2. CASE code = 400 BY <4>2, BadRequest
      <4>3. CASE code = 505 /\ c BY <4>3, Reasons
      <4> QED BY <3>1, <4>1, <4>2, <4>3
    <3>3. r \in Parser BY <1>1, <2>3, ParserWith
    <3>4. Turn(q, Fail(r, code)) BY <3>2, <3>3, FailIs
    <3> QED BY <2>4, <2>6, <3>4 DEF code
  <2>7. CASE k = 0
    <3>1. LineIsValid(msg) BY <2>5, <2>7, MessageIs DEF LineIsValid, RequestLine, NoLine
    <3>2. /\ t \in Parser /\ t.state = "HEADERS" /\ t.line = msg.line /\ t.headers = {}
          /\ t.body = <<>> /\ t.raw = raw
      <4>1. "HEADERS" \in State /\ l \in RequestLine BY MessageIs DEF State
      <4>2. r \in Parser BY <1>1, <2>3, ParserWith
      <4>3. r.headers = {} /\ r.body = <<>> /\ r.raw = raw BY <1>1 DEF Parser
      <4> HIDE DEF r, l
      <4>4. [r EXCEPT !.state = "HEADERS"] \in Parser BY <4>1, <4>2, ParserWith
      <4>5. t \in Parser BY <4>1, <4>4, ParserWith
      <4>6. /\ t.state = "HEADERS" /\ t.line = l /\ t.headers = r.headers
            /\ t.body = r.body /\ t.raw = r.raw
        BY <4>2 DEF Parser
      <4> QED BY <4>3, <4>5, <4>6 DEF l
    <3> HIDE DEF t
    <3>3. HeaderPart(t, 0) BY <3>1, <3>2 DEF HeaderPart
    <3>4. Buffered(t, 3 * 0 + 3) BY <2>2, <3>2, MessageIs DEF Buffered
    <3>5. 0 \in 0..Len(msg.headers) BY MessageIs
    <3>6. ParserIs(t) BY <3>2, <3>3, <3>4, <3>5 DEF ParserIs, BodyState
    <3>7. Turn(q, [res |-> "OK", p |-> t])
      BY <2>3, <3>2, <3>6 DEF Turn, BodyState
    <3> QED BY <2>4, <2>7, <3>7 DEF Result
  <2> QED BY <2>6, <2>7
<1> QED BY <1>2, <1>3
\* What follows the header is bytes of the body.
LEMMA TailIsBytes ==
  ASSUME Received, NEW k \in Nat, HeadLen(msg) <= k, NEW n \in 0..Len(Wire(msg))
  PROVE  SubSeq(Wire(msg), k + 1, n) \in Seq(BodyByte)
<1> DEFINE w == Wire(msg)
<1>1. /\ \A i \in HeadLen(msg) + 1..Len(w) : w[i] \in BodyByte
      /\ Len(w) \in Nat /\ HeadLen(msg) \in Nat
  <2>1. msg \in Message /\ Len(msg.headers) \in Nat BY MessageIs
  <2>2. w \in Seq(Atom) /\ \A i \in HeadLen(msg) + 1..Len(w) : w[i] \in BodyByte
    BY <2>1, WireAtoms
  <2>3. Len(w) \in Nat BY <2>2, LenProperties
  <2> QED BY <2>1, <2>2, <2>3 DEF HeadLen
<1>2. n \in 0..Len(w) OBVIOUS
<1> HIDE DEF w
<1>3. \A i \in k + 1..n : w[i] \in BodyByte BY <1>1, <1>2
<1>4. k + 1 \in Int /\ n \in Int BY <1>1, <1>2
<1> QED BY <1>3, <1>4, SubSeqProperties DEF w

\* One more number.
LEMMA OneMore ==
  ASSUME NEW n \in Nat
  PROVE  1..n + 1 = 1..n \cup {n + 1}
OBVIOUS

LEMMA NextIsOne ==
  ASSUME NEW N \in Nat, NEW n \in 0..N - 1
  PROVE  n \in Nat /\ n + 1 \in 1..N
OBVIOUS

\* Two lines have the same name, or not, in either order.
LEMMA SameNames ==
  ASSUME NEW k, NEW l, l \in SameName(k)
  PROVE  k \in SameName(l)
BY DEF SameName, LengthKeys, CodingKeys

\* One more header line that passes its checks.
LEMMA HeaderPartGrows ==
  ASSUME Received, NEW q, NEW n \in 0..Len(msg.headers) - 1, HeaderPart(q, n),
         NEW f, f = msg.headers[n + 1], NEW t, t.line = q.line,
         t.headers = q.headers \cup {f},
         f.key # "",
         ~(f.key \in LengthKeys /\ Found(q, f) \ {f} # {}),
         ~(f.key \in {"host", "content-type"} \cup CodingKeys /\ Found(q, f) # {}),
         ~(f.key = "cookie" /\ (Has(q, "cookie") \/ ~f.wellFormed))
  PROVE  HeaderPart(t, n + 1)
<1> DEFINE H == msg.headers
<1>1. n \in Nat /\ n + 1 \in 1..Len(H) /\ f \in HeaderLine
  <2>1. Len(H) \in Nat /\ \A i \in 1..Len(H) : H[i] \in HeaderLine BY MessageIs
  <2>2. n \in Nat /\ n + 1 \in 1..Len(H) BY <2>1, NextIsOne
  <2> QED BY <2>1, <2>2
<1>2. \A i \in 1..n + 1 : i \in 1..n \/ i = n + 1 BY <1>1, OneMore
<1>3. q.headers = {H[i] : i \in 1..n} BY DEF HeaderPart
<1>4. t.headers = {H[i] : i \in 1..n + 1}
  <2>1. 1..n + 1 = 1..n \cup {n + 1} BY <1>1, OneMore
  <2> QED BY <1>3, <2>1
<1>5. f.key \in {"host", "content-type", "cookie"} \cup LengthKeys \cup CodingKeys
  BY <1>1 DEF HeaderLine, LengthKeys, CodingKeys
<1>6. ASSUME NEW i \in 1..n, H[i].key \in SameName(f.key)
      PROVE  f.key \in LengthKeys /\ H[i] = f
  <2>1. H[i] \in Found(q, f) BY <1>3, <1>6 DEF Found
  <2>2. f.key # "cookie"
    <3>1. f.key = "cookie" => H[i].key = "cookie"
      BY <1>6 DEF SameName, LengthKeys, CodingKeys
    <3>2. H[i] \in q.headers BY <1>3
    <3> QED BY <3>1, <3>2 DEF Has, Fields
  <2>3. f.key \in LengthKeys BY <1>5, <2>1, <2>2
  <2> QED BY <2>1, <2>3
<1>7. ASSUME NEW i \in 1..n + 1, NEW j \in 1..n + 1, i # j, H[j].key \in SameName(H[i].key)
      PROVE  H[i].key \in LengthKeys /\ H[i] = H[j]
  <2>1. CASE i \in 1..n /\ j \in 1..n BY <1>7, <2>1 DEF HeaderPart
  <2>2. CASE i = n + 1 /\ j \in 1..n BY <1>6, <1>7, <2>2
  <2>3. CASE i \in 1..n /\ j = n + 1
    <3>1. H[i].key \in SameName(f.key) BY <1>7, <2>3, SameNames
    <3> QED BY <1>6, <2>3, <3>1
  <2> QED BY <1>2, <1>7, <2>1, <2>2, <2>3
<1>8. ASSUME NEW i \in 1..n + 1
      PROVE  H[i].key # "" /\ (H[i].key = "cookie" => H[i].wellFormed)
  <2>1. CASE i \in 1..n BY <2>1 DEF HeaderPart
  <2>2. CASE i = n + 1 BY <2>2
  <2> QED BY <1>2, <2>1, <2>2
<1> QED BY <1>4, <1>7, <1>8 DEF HeaderPart

\* A header line that is not the last.
LEMMA FieldTurn ==
  ASSUME Received, NEW q, ParserIs(q), q.state = "HEADERS", HasEndOfLine(q.raw),
         NEW n \in 0..Len(msg.headers) - 1, Buffered(q, 3 * n + 3), HeaderPart(q, n)
  PROVE  Turn(q, ParseHeaderFields(q))
<1> DEFINE w == Wire(msg)
           N == Len(msg.headers)
           f == msg.headers[n + 1]
           raw == AfterFirstLine(q.raw)
           r == [q EXCEPT !.raw = raw]
<1>1. q \in Parser /\ q.raw = SubSeq(w, 3 * n + 3 + 1, sent) /\ 3 * n + 3 <= sent
      /\ q.body = <<>>
  BY DEF ParserIs, Buffered
<1>2. N \in Nat /\ n \in Nat /\ n + 1 \in 1..N /\ f \in HeaderLine BY MessageIs
<1>3. /\ w \in Seq(Atom) /\ w[3 * (n + 1) + 1] = f /\ w[3 * (n + 1) + 2] = CR
      /\ w[3 * (n + 1) + 3] = LF /\ f # CR /\ sent \in 0..Len(w) /\ Len(w) \in Nat
  BY <1>2, MessageIs, WireAtoms, TextIsNoByte, LenProperties DEF Received
<1> DEFINE k == 3 * n + 3
<1>4. /\ k \in Nat /\ k = 3 * (n + 1) /\ k + 4 = 3 * (n + 1) + 3 + 1
      /\ k + 3 = 3 * (n + 1) + 3 /\ sent \in k..Len(w)
  BY <1>1, <1>2, <1>3
<1>5. /\ FirstLine(q.raw) # <<>> /\ FirstLine(q.raw)[1] = f
      /\ raw = SubSeq(w, 3 * (n + 1) + 3 + 1, sent) /\ 3 * (n + 1) + 3 <= sent
  <2> HIDE DEF w, f
  <2>1. w[k + 1] # CR /\ w[k + 2] = CR /\ w[k + 3] = LF BY <1>3, <1>4
  <2>2. HasEndOfLine(SubSeq(w, k + 1, sent)) BY <1>1
  <2> HIDE DEF k
  <2>3. LET s == SubSeq(w, k + 1, sent) IN
        /\ FirstLine(s) # <<>> /\ FirstLine(s)[1] = w[k + 1]
        /\ AfterFirstLine(s) = SubSeq(w, k + 4, sent) /\ k + 3 <= sent
    BY <1>3, <1>4, <2>1, <2>2, NextText
  <2> QED BY <1>1, <1>3, <1>4, <2>3 DEF k
<1>6. raw \in Seq(Atom) /\ Len(raw) < Len(q.raw)
  <2>1. q.raw \in Seq(Atom) BY <1>1, ParserIsMadeOf
  <2> QED BY <2>1, FirstLineIs
<1>7. r \in Parser BY <1>1, <1>6, ParserWith
<1>8. /\ r.headers = q.headers /\ r.line = q.line /\ r.raw = raw /\ r.state = "HEADERS"
      /\ r.body = <<>>
  BY <1>1 DEF Parser
<1> HIDE DEF r, f
<1> DEFINE a == f.key = ""
           b == f.key \in LengthKeys /\ Found(r, f) \ {f} # {}
           c == f.key \in {"host", "content-type"} \cup CodingKeys /\ Found(r, f) # {}
           d == f.key = "cookie" /\ (Has(r, "cookie") \/ ~f.wellFormed)
           checks == <<[fails |-> a, code |-> -1], [fails |-> b, code |-> 400],
                       [fails |-> c, code |-> 400], [fails |-> d, code |-> 400]>>
           fault == FirstFault(checks)
           code == checks[fault].code
           t == [r EXCEPT !.headers = r.headers \cup {f}]
<1>9. FieldChecks(r, f) = checks BY DEF FieldChecks
<1>10. ParseHeaderFields(q) = IF fault # 0 THEN Fail(r, code) ELSE Result("OK", t)
  <2> DEFINE j == FirstFault(FieldChecks(r, f))
  <2>1. ParseHeaderFields(q) = IF j # 0 THEN Fail(r, FieldChecks(r, f)[j].code)
                               ELSE Result("OK", t)
    BY <1>5 DEF ParseHeaderFields, r
  <2> HIDE DEF checks
  <2> QED BY <1>9, <2>1
<1>11. /\ fault = 0 => ~a /\ ~b /\ ~c /\ ~d
       /\ fault # 0 => (code = -1 /\ a) \/ code = 400
  <2> HIDE DEF a, b, c, d
  <2> QED BY FieldFault
<1> HIDE DEF fault, code
<1>12. CASE fault # 0
  <2>1. (code = -1 /\ a) \/ code = 400 BY <1>11, <1>12
  <2>2. Reason(code) /\ code \in Error
    <3>1. CASE code = -1 /\ a
      <4>1. n + 1 \in DOMAIN msg.headers BY <1>2, MessageIs
      <4>2. n + 1 \in Sent(msg, "") BY <3>1, <4>1 DEF Sent, f
      <4>3. Unreadable BY <4>2 DEF Unreadable
      <4>4. code = -1 BY <3>1
      <4> QED BY <4>3, <4>4, Reasons
    <3>2. CASE code = 400 BY <3>2, BadRequest
    <3> QED BY <2>1, <3>1, <3>2
  <2>3. Turn(q, Fail(r, code)) BY <1>7, <2>2, FailIs
  <2> QED BY <1>10, <1>12, <2>3
<1>13. CASE fault = 0
  <2>1. r.headers \cup {f} \in SUBSET HeaderLine BY <1>2, <1>7 DEF Parser, f
  <2>2. t \in Parser BY <1>7, <2>1, ParserWith
  <2>3. /\ t.state = "HEADERS" /\ t.line = q.line /\ t.headers = q.headers \cup {f}
        /\ t.body = <<>> /\ t.raw = raw
    BY <1>7, <1>8 DEF Parser
  <2> HIDE DEF t
  <2>4. HeaderPart(t, n + 1)
    <3>1. HeaderPart(r, n) BY <1>8 DEF HeaderPart
    <3>2. f = msg.headers[n + 1] BY DEF f
    <3>3. /\ f.key # ""
          /\ ~(f.key \in LengthKeys /\ Found(r, f) \ {f} # {})
          /\ ~(f.key \in {"host", "content-type"} \cup CodingKeys /\ Found(r, f) # {})
          /\ ~(f.key = "cookie" /\ (Has(r, "cookie") \/ ~f.wellFormed))
      BY <1>11, <1>13
    <3>4. t.line = r.line /\ t.headers = r.headers \cup {f} BY <1>8, <2>3
    <3> QED BY <3>1, <3>2, <3>3, <3>4, HeaderPartGrows
  <2>5. Buffered(t, 3 * (n + 1) + 3) BY <1>2, <1>3, <1>5, <2>3 DEF Buffered
  <2>6. n + 1 \in 0..N BY <1>2
  <2>7. ParserIs(t) BY <2>2, <2>3, <2>4, <2>5, <2>6 DEF ParserIs, BodyState
  <2>8. Turn(q, [res |-> "OK", p |-> t])
    BY <1>6, <2>3, <2>7 DEF Turn, BodyState
  <2> QED BY <1>10, <1>13, <2>8 DEF Result
<1> QED BY <1>12, <1>13
\* The parser's fields are the message's, when it has them all.
LEMMA FieldsAre ==
  ASSUME Received, NEW q, q.headers = Range(msg.headers)
  PROVE  /\ \A key : Fields(q, key) = Values(msg, key)
         /\ \A key : Has(q, key) <=> Sent(msg, key) # {}
         /\ Lengths(q) = Announced(msg) /\ (IsMultipart(q) <=> Multipart(msg))
         /\ IsChunked(q) <=> ~IsPlain
<1>1. ASSUME NEW key PROVE Fields(q, key) = Values(msg, key)
  BY DEF Fields, Values, Sent, Range
<1>2. ASSUME NEW key PROVE Values(msg, key) # {} <=> Sent(msg, key) # {}
  BY DEF Values
<1>3. ASSUME NEW key PROVE Has(q, key) <=> Sent(msg, key) # {}
  BY <1>1, <1>2 DEF Has
<1>4. Lengths(q) = Announced(msg) BY <1>1, Zenon DEF Lengths, Announced
<1>5. IsMultipart(q) <=> Multipart(msg) BY <1>1, Zenon DEF IsMultipart, Multipart
<1>6. IsChunked(q) <=> ~IsPlain BY <1>1 DEF IsChunked, Has, IsPlain
<1> QED BY <1>1, <1>3, <1>4, <1>5, <1>6

\* The first n lines are all of them.
LEMMA AllLines ==
  ASSUME Received
  PROVE  Range(msg.headers) = {msg.headers[i] : i \in 1..Len(msg.headers)}
BY MessageIs DEF Range

\* A valid header announces at most one length, a number.
LEMMA AnnouncedIsOne ==
  ASSUME Received, HeaderIsValid(msg), NEW x \in Announced(msg)
  PROVE  Announced(msg) = {x} /\ x \in Nat
<1> DEFINE H == msg.headers
<1>1. \A i \in DOMAIN H : H[i] \in HeaderLine BY MessageIs
<1>2. \A y \in Announced(msg) : \E i \in DOMAIN H :
        H[i].key = "content-length" /\ y = H[i].length
  BY DEF Announced, Values, Sent
<1>3. \A i, j \in DOMAIN H :
        i # j /\ H[i].key = "content-length" /\ H[j].key = "content-length" =>
          H[i].length = H[j].length
  BY DEF HeaderIsValid, SameName, LengthKeys
<1>4. PICK i \in DOMAIN H : H[i].key = "content-length" /\ x = H[i].length BY <1>2
<1>5. ASSUME NEW y \in Announced(msg) PROVE y = x
  <2>1. PICK j \in DOMAIN H : H[j].key = "content-length" /\ y = H[j].length BY <1>2
  <2> QED BY <1>3, <1>4, <2>1
<1>6. x \in Nat \cup {-1} BY <1>1, <1>4 DEF HeaderLine
<1>7. x # -1 BY DEF HeaderIsValid
<1> QED BY <1>5, <1>6, <1>7

\* A header whose lines have passed their checks and which passes those at its
\* end is valid.
LEMMA HeaderHolds ==
  ASSUME Received, NEW q, HeaderPart(q, Len(msg.headers)),
         ~(q.line.version = "1.1" /\ ~Has(q, "host")),
         ~(Has(q, "content-length") /\ Has(q, "transfer-encoding")),
         ~\E f \in Fields(q, "transfer-encoding") : ~f.chunked \/ f.padded,
         ~\E f \in Fields(q, "content-type") : f.type = "other",
         ~\E f \in Fields(q, "content-length") : f.length = -1 \/ f.padded
  PROVE  q.headers = Range(msg.headers) /\ LineIsValid(msg) /\ HeaderIsValid(msg)
<1> DEFINE H == msg.headers
<1>1. q.headers = Range(H) BY AllLines DEF HeaderPart
<1>2. /\ \A key : Fields(q, key) = Values(msg, key)
      /\ \A key : Has(q, key) <=> Sent(msg, key) # {}
  BY <1>1, FieldsAre
<1>3. DOMAIN H = 1..Len(H) BY MessageIs
<1>4. Sent(msg, "") = {} BY <1>3 DEF Sent, HeaderPart
<1>5. msg.line.version = "1.1" => Sent(msg, "host") # {} BY <1>2 DEF HeaderPart
<1>6. ASSUME NEW i \in DOMAIN H, NEW j \in DOMAIN H, i # j, H[j].key \in SameName(H[i].key)
      PROVE  /\ H[i].key \in LengthKeys /\ H[i].key = H[j].key
             /\ H[i].key = "content-length" => H[i].length = H[j].length
  BY <1>3, <1>6 DEF HeaderPart
<1>7. Announced(msg) = {} \/ Values(msg, "transfer-encoding") = {}
  <2>1. Values(msg, "content-length") = {} \/ Values(msg, "transfer-encoding") = {}
    BY <1>2 DEF Has
  <2> QED BY <2>1 DEF Announced
<1>8. \A f \in Values(msg, "transfer-encoding") : f.chunked BY <1>2
<1>9. \A f \in Values(msg, "content-type") : f.type # "other" BY <1>2
<1>10. \A f \in Values(msg, "cookie") : f.wellFormed
  BY <1>3 DEF Values, Sent, HeaderPart
<1>11. -1 \notin Announced(msg)
  <2>1. \A f \in Values(msg, "content-length") : f.length # -1 BY <1>2
  <2> QED BY <2>1, Zenon DEF Announced
<1>12. HeaderIsValid(msg)
  BY <1>4, <1>5, <1>6, <1>7, <1>8, <1>9, <1>10, <1>11 DEF HeaderIsValid
<1> QED BY <1>1, <1>12 DEF HeaderPart

\* Where the parser goes when the header is over.
LEMMA BodyBegins ==
  ASSUME Received, NEW q \in Parser, HeaderOver(q), q.body = <<>>,
         Buffered(q, HeadLen(msg)), q.state = BodyStateOf(q),
         q.state = "BODY_CONTENT_LENGTH" => q.left = CHOOSE n \in Lengths(q) : TRUE
  PROVE  ParserIs(q)
<1>1. /\ Lengths(q) = Announced(msg) /\ (IsChunked(q) <=> ~IsPlain)
      /\ HeaderIsValid(msg)
  BY FieldsAre DEF HeaderOver
<1>2. q.state \in BodyState BY DEF BodyStateOf, BodyState
<1>3. HeadLen(msg) \in Nat /\ HeadLen(msg) <= sent
  BY MessageIs DEF HeadLen, HeaderOver
<1>4. q.raw \in Seq(BodyByte)
  <2>1. HeadLen(msg) <= HeadLen(msg) /\ sent \in 0..Len(Wire(msg)) BY <1>3 DEF Received
  <2>2. SubSeq(Wire(msg), HeadLen(msg) + 1, sent) \in Seq(BodyByte)
    BY <1>3, <2>1, TailIsBytes
  <2> QED BY <2>2 DEF Buffered
<1>5. Len(q.body) = 0 /\ HeadLen(msg) + 0 = HeadLen(msg) BY <1>3
<1>6. ASSUME q.state = "BODY_CONTENT_LENGTH"
      PROVE  /\ IsPlain /\ Announced(msg) = {Len(q.body) + q.left}
             /\ Buffered(q, HeadLen(msg) + Len(q.body))
             /\ q.body = SubSeq(Wire(msg), HeadLen(msg) + 1, HeadLen(msg) + Len(q.body))
  <2>1. IsPlain /\ Announced(msg) # {} BY <1>1, <1>6 DEF BodyStateOf
  <2>2. q.left \in Announced(msg) BY <1>1, <1>6, <2>1
  <2>3. Announced(msg) = {q.left} /\ q.left \in Nat BY <1>1, <2>2, AnnouncedIsOne
  <2>4. 0 + q.left = q.left BY <2>3
  <2>5. SubSeq(Wire(msg), HeadLen(msg) + 1, HeadLen(msg)) = <<>>
    <3>1. HeadLen(msg) + 1 \in Int /\ HeadLen(msg) \in Int /\ HeadLen(msg) < HeadLen(msg) + 1
      BY <1>3
    <3> QED BY <3>1, SubSeqEmpty
  <2> QED BY <1>5, <2>1, <2>3, <2>4, <2>5
<1>7. q.state = "BODY_CHUNKED" => ~IsPlain BY <1>1 DEF BodyStateOf
<1> QED BY <1>2, <1>4, <1>6, <1>7 DEF ParserIs, BodyState
\* The empty line at the end of the header.
LEMMA HeaderEndTurn ==
  ASSUME Received, NEW q, ParserIs(q), q.state = "HEADERS", HasEndOfLine(q.raw),
         NEW n \in Nat, n = Len(msg.headers), Buffered(q, 3 * n + 3), HeaderPart(q, n)
  PROVE  Turn(q, ParseHeaderFields(q))
<1> DEFINE w == Wire(msg)
           raw == AfterFirstLine(q.raw)
           r == [q EXCEPT !.raw = raw]
           k == 3 * n + 3
<1>1. q \in Parser /\ q.raw = SubSeq(w, k + 1, sent) /\ k <= sent /\ q.body = <<>>
  BY DEF ParserIs, Buffered
<1>2. /\ w \in Seq(Atom) /\ w[3 * n + 4] = CR /\ w[3 * n + 5] = LF
      /\ sent \in 0..Len(w) /\ Len(w) \in Nat
  BY MessageIs, WireAtoms, LenProperties DEF Received
<1>3. /\ k \in Nat /\ k + 1 = 3 * n + 4 /\ k + 2 = 3 * n + 5 /\ k + 3 = HeadLen(msg) + 1
      /\ sent \in k..Len(w)
  BY <1>1, <1>2 DEF HeadLen
<1>4. /\ FirstLine(q.raw) = <<>> /\ raw = SubSeq(w, HeadLen(msg) + 1, sent)
      /\ HeadLen(msg) \in 0..sent
  <2> HIDE DEF w, k
  <2>1. w[k + 1] = CR /\ w[k + 2] = LF BY <1>2, <1>3
  <2>2. LET s == SubSeq(w, k + 1, sent) IN
        /\ FirstLine(s) = <<>> /\ AfterFirstLine(s) = SubSeq(w, k + 3, sent)
        /\ k + 2 <= sent
    BY <1>1, <1>2, <1>3, <2>1, NextEmpty
  <2>3. HeadLen(msg) \in 0..sent
    <3>1. k + 2 <= sent BY <2>2
    <3>2. sent \in Nat BY <1>2
    <3>3. HeadLen(msg) = k + 2 BY DEF HeadLen, k
    <3> QED BY <1>3, <3>1, <3>2, <3>3
  <2> QED BY <1>1, <1>3, <2>2, <2>3
<1>5. raw \in Seq(Atom) /\ Len(raw) < Len(q.raw)
  <2>1. q.raw \in Seq(Atom) BY <1>1, ParserIsMadeOf
  <2> QED BY <2>1, FirstLineIs
<1>6. r \in Parser BY <1>1, <1>5, ParserWith
<1>7. /\ r.headers = q.headers /\ r.line = q.line /\ r.raw = raw /\ r.body = <<>>
      /\ r.left = q.left
  BY <1>1 DEF Parser
<1> HIDE DEF r
<1> DEFINE a == r.line.version = "1.1" /\ ~Has(r, "host")
           b == Has(r, "content-length") /\ Has(r, "transfer-encoding")
           c == \E f \in Fields(r, "transfer-encoding") : ~f.chunked \/ f.padded
           d == \E f \in Fields(r, "content-type") : f.type = "other"
           e == \E f \in Fields(r, "content-length") : f.length = -1 \/ f.padded
           g == r.line.method \in {"GET", "DELETE"} /\ BodyStateOf(r) # "BODY_NONE"
           checks == <<[fails |-> a, code |-> 400], [fails |-> b, code |-> 400],
                       [fails |-> c, code |-> 400], [fails |-> d, code |-> 415],
                       [fails |-> e, code |-> 400], [fails |-> g, code |-> 400]>>
           fault == FirstFault(checks)
           code == checks[fault].code
           state == BodyStateOf(r)
           left == IF state = "BODY_CONTENT_LENGTH" THEN CHOOSE x \in Lengths(r) : TRUE
                   ELSE r.left
           t == [r EXCEPT !.state = state, !.left = left]
<1>8. HeaderChecks(r) = checks BY DEF HeaderChecks
<1>9. ParseHeaderFields(q) = IF fault # 0 THEN Fail(r, code) ELSE Result("OK", t)
  <2> DEFINE j == FirstFault(HeaderChecks(r))
  <2>1. ParseHeaderFields(q) = IF j # 0 THEN Fail(r, HeaderChecks(r)[j].code)
                               ELSE Result("OK", t)
    BY <1>4 DEF ParseHeaderFields, r
  <2> HIDE DEF checks
  <2> QED BY <1>8, <2>1
<1>10. /\ fault = 0 => ~a /\ ~b /\ ~c /\ ~d /\ ~e /\ ~g
       /\ fault # 0 => (code = 415 /\ d) \/ code = 400
  <2> HIDE DEF a, b, c, d, e, g
  <2> QED BY HeaderFault
<1>11. HeaderPart(r, Len(msg.headers)) BY <1>7 DEF HeaderPart
<1>12. r.headers = Range(msg.headers) BY <1>11, AllLines DEF HeaderPart
<1> HIDE DEF fault, code
<1>13. CASE fault # 0
  <2>1. (code = 415 /\ d) \/ code = 400 BY <1>10, <1>13
  <2>2. Reason(code) /\ code \in Error
    <3>1. CASE code = 415 /\ d
      <4>1. \E f \in Values(msg, "content-type") : f.type = "other"
        BY <1>12, <3>1, FieldsAre
      <4>2. code = 415 BY <3>1
      <4> QED BY <4>1, <4>2, Reasons
    <3>2. CASE code = 400 BY <3>2, BadRequest
    <3> QED BY <2>1, <3>1, <3>2
  <2>3. Turn(q, Fail(r, code)) BY <1>6, <2>2, FailIs
  <2> QED BY <1>9, <1>13, <2>3
<1>14. CASE fault = 0
  <2>1. ~a /\ ~b /\ ~c /\ ~d /\ ~e BY <1>10, <1>14
  <2>2. LineIsValid(msg) /\ HeaderIsValid(msg) BY <1>11, <2>1, HeaderHolds
  <2>3. state \in BodyState BY DEF BodyStateOf, BodyState
  <2>4. left \in Nat
    <3>1. CASE state = "BODY_CONTENT_LENGTH"
      <4>1. Lengths(r) # {} /\ Lengths(r) = Announced(msg)
        BY <1>12, <3>1, FieldsAre DEF BodyStateOf
      <4>2. left \in Announced(msg) BY <3>1, <4>1
      <4> QED BY <2>2, <4>2, AnnouncedIsOne
    <3>2. CASE state # "BODY_CONTENT_LENGTH" BY <1>6, <3>2 DEF Parser
    <3> QED BY <3>1, <3>2
  <2> HIDE DEF state, left
  <2>5. t \in Parser
    <3>1. state \in State BY <2>3 DEF State
    <3>2. [r EXCEPT !.state = state] \in Parser BY <1>6, <3>1, ParserWith
    <3> QED BY <2>4, <3>2, ParserWith
  <2>6. /\ t.state = state /\ t.left = left /\ t.headers = r.headers /\ t.line = r.line
        /\ t.body = <<>> /\ t.raw = raw
    BY <1>6, <1>7 DEF Parser
  <2> HIDE DEF t
  <2>7. HeaderOver(t)
    <3>1. t.headers = Range(msg.headers) /\ t.line = msg.line
      BY <1>11, <1>12, <2>6 DEF HeaderPart
    <3>2. sent >= HeadLen(msg) BY <1>2, <1>4
    <3> QED BY <2>2, <3>1, <3>2 DEF HeaderOver
  <2>8. Buffered(t, HeadLen(msg)) BY <1>4, <2>6 DEF Buffered
  <2>9. BodyStateOf(t) = BodyStateOf(r) /\ Lengths(t) = Lengths(r)
    BY <2>6 DEF BodyStateOf, IsChunked, Lengths, Has, Fields
  <2>10. t.state = BodyStateOf(t) BY <2>6, <2>9 DEF state
  <2>11. t.state = "BODY_CONTENT_LENGTH" => t.left = CHOOSE x \in Lengths(t) : TRUE
    BY <2>6, <2>9 DEF left
  <2>12. ParserIs(t) BY <2>5, <2>6, <2>7, <2>8, <2>10, <2>11, BodyBegins
  <2>13. t.state # "ERROR" /\ t.state \in BodyState BY <2>3, <2>6 DEF BodyState
  <2>14. Turn(q, [res |-> "OK", p |-> t]) BY <1>5, <2>6, <2>12, <2>13 DEF Turn
  <2> QED BY <1>9, <1>14, <2>14 DEF Result
<1> QED BY <1>13, <1>14

\* A header line, or the end of the header.
LEMMA HeaderTurn ==
  ASSUME Received, NEW q, ParserIs(q), q.state = "HEADERS"
  PROVE  Turn(q, ParseHeaderFields(q))
<1>1. CASE ~HasEndOfLine(q.raw) BY <1>1, AgainIs DEF ParseHeaderFields
<1>2. CASE HasEndOfLine(q.raw)
  <2>1. PICK n \in 0..Len(msg.headers) : Buffered(q, 3 * n + 3) /\ HeaderPart(q, n)
    BY DEF ParserIs
  <2>2. Len(msg.headers) \in Nat BY MessageIs
  <2>3. CASE n = Len(msg.headers) BY <1>2, <2>1, <2>2, <2>3, HeaderEndTurn
  <2>4. CASE n # Len(msg.headers)
    <3>1. n \in 0..Len(msg.headers) - 1 BY <2>2, <2>4
    <3> QED BY <1>2, <2>1, <3>1, FieldTurn
  <2> QED BY <2>3, <2>4
<1> QED BY <1>1, <1>2
-----------------------------------------------------------------------------
(* The body.                                                               *)

\* A sequence in two.
LEMMA CutIs ==
  ASSUME NEW S, NEW s \in Seq(S), NEW n \in 0..Len(s)
  PROVE  /\ SubSeq(s, 1, n) \in Seq(S) /\ Len(SubSeq(s, 1, n)) = n
         /\ SubSeq(s, n + 1, Len(s)) \in Seq(S)
         /\ Len(SubSeq(s, n + 1, Len(s))) = Len(s) - n
<1>1. Len(s) \in Nat /\ \A i \in 1..Len(s) : s[i] \in S BY LenProperties, ElementOfSeq
<1>2. SubSeq(s, 1, n) \in Seq(S) /\ Len(SubSeq(s, 1, n)) = n
  <2>1. \A i \in 1..n : s[i] \in S BY <1>1
  <2>2. /\ SubSeq(s, 1, n) \in Seq(S)
        /\ Len(SubSeq(s, 1, n)) = IF 1 <= n THEN n - 1 + 1 ELSE 0
    BY <1>1, <2>1, SubSeqProperties
  <2> QED BY <1>1, <2>2
<1>3. /\ SubSeq(s, n + 1, Len(s)) \in Seq(S)
      /\ Len(SubSeq(s, n + 1, Len(s))) = Len(s) - n
  <2>1. \A i \in n + 1..Len(s) : s[i] \in S BY <1>1
  <2>2. n + 1 \in Int /\ Len(s) \in Int BY <1>1
  <2>3. /\ SubSeq(s, n + 1, Len(s)) \in Seq(S)
        /\ Len(SubSeq(s, n + 1, Len(s))) = IF n + 1 <= Len(s) THEN Len(s) - (n + 1) + 1 ELSE 0
    BY <2>1, <2>2, SubSeqProperties
  <2> QED BY <1>1, <2>3
<1> QED BY <1>2, <1>3

\* The end of a body: it is complete, or one of its parts is refused.
LEMMA FinishedTurn ==
  ASSUME NEW q, NEW s \in Parser, HeaderOver(s),
         ~IsPlain \/ s.body = <<>> \/ Announced(msg) = {Len(s.body)}
  PROVE  Turn(q, Finished(s))
<1> DEFINE t == [s EXCEPT !.state = "COMPLETE"]
<1>1. CASE IsMultipart(s) /\ Byte("!") \in Range(s.body)
  <2>1. Turn(q, Fail(s, 400)) BY BadRequest, FailIs
  <2> QED BY <1>1, <2>1 DEF Finished
<1>2. CASE ~(IsMultipart(s) /\ Byte("!") \in Range(s.body))
  <2>1. t \in Parser BY ParserWith DEF State, BodyState
  <2>2. /\ t.state = "COMPLETE" /\ t.headers = s.headers /\ t.line = s.line
        /\ t.body = s.body
    BY DEF Parser
  <2>3. Finished(s) = [res |-> "OK", p |-> t] BY <1>2 DEF Finished, Result
  <2> HIDE DEF t
  <2>4. HeaderOver(t) BY <2>2 DEF HeaderOver
  <2>5. ParserIs(t) BY <2>1, <2>2, <2>4 DEF ParserIs, BodyState
  <2> QED BY <2>2, <2>3, <2>5 DEF Turn, BodyState
<1> QED BY <1>1, <1>2

\* What is there of the body moves from the buffer to it.
LEMMA TakeIs ==
  ASSUME Received, NEW q, ParserIs(q), q.state = "BODY_CONTENT_LENGTH",
         NEW n \in 0..Len(q.raw), n <= q.left
  PROVE  LET r == Take(q, n) IN
         /\ ParserIs(r) /\ r.state = "BODY_CONTENT_LENGTH"
         /\ Announced(msg) = {Len(r.body) + r.left}
<1> DEFINE w == Wire(msg)
           a == HeadLen(msg)
           b == Len(q.body)
           body == q.body \o SubSeq(q.raw, 1, n)
           raw == SubSeq(q.raw, n + 1, Len(q.raw))
           r == Take(q, n)
<1>1. /\ q \in Parser /\ HeaderOver(q) /\ IsPlain /\ Announced(msg) = {b + q.left}
      /\ a + b \in 0..sent /\ q.raw = SubSeq(w, a + b + 1, sent)
      /\ q.body = SubSeq(w, a + 1, a + b)
  BY DEF ParserIs, Buffered, BodyState
<1>2. b \in Nat /\ q.left \in Nat BY <1>1, LenProperties, ParserIsMadeOf
<1>3. /\ w \in Seq(Atom) /\ Len(w) \in Nat /\ a \in Nat /\ sent \in 0..Len(w)
  <2>1. msg \in Message /\ Len(msg.headers) \in Nat BY MessageIs
  <2>2. w \in Seq(Atom) BY <2>1, WireAtoms
  <2> QED BY <2>1, <2>2, LenProperties DEF HeadLen, Received
<1>4. /\ Len(q.raw) = sent - (a + b) /\ raw = SubSeq(w, a + b + n + 1, sent)
      /\ SubSeq(q.raw, 1, n) = SubSeq(w, a + b + 1, a + b + n)
      /\ n \in 0..sent - (a + b)
  <2> HIDE DEF w, a, b
  <2>1. a + b \in Nat /\ sent \in a + b..Len(w) BY <1>1, <1>2, <1>3
  <2> DEFINE k == a + b
  <2> HIDE DEF k
  <2>2. k \in Nat /\ sent \in k..Len(w) BY <2>1 DEF k
  <2>3. Len(SubSeq(w, k + 1, sent)) = sent - k BY <1>3, <2>2, PieceIs
  <2>4. q.raw = SubSeq(w, k + 1, sent) BY <1>1 DEF k
  <2>5. n \in 0..sent - k BY <2>3, <2>4
  <2>6. LET s == SubSeq(w, k + 1, sent) IN
        /\ SubSeq(s, n + 1, Len(s)) = SubSeq(w, k + n + 1, sent)
        /\ SubSeq(s, 1, n) = SubSeq(w, k + 1, k + n)
    BY <1>3, <2>2, <2>5, DropIs
  <2> QED BY <2>3, <2>4, <2>5, <2>6 DEF k
<1>5. body = SubSeq(w, a + 1, a + b + n)
  <2> HIDE DEF w, a, b
  <2> DEFINE i == a + 1
             j == a + b
             l == a + b + n
  <2>1. i \in 1..Len(w) + 1 /\ j \in i - 1..Len(w) /\ l \in j..Len(w)
    BY <1>1, <1>2, <1>3, <1>4
  <2>2. /\ q.body = SubSeq(w, i, j) /\ SubSeq(q.raw, 1, n) = SubSeq(w, j + 1, l)
    BY <1>1, <1>4
  <2> HIDE DEF i, j, l
  <2>3. SubSeq(w, i, j) \o SubSeq(w, j + 1, l) = SubSeq(w, i, l)
    BY <1>3, <2>1, ConcatAdjacentSubSeq
  <2> QED BY <2>2, <2>3 DEF i, l
<1>6. body \in Seq(BodyByte) /\ Len(body) = b + n
  <2>1. a + b + n \in 0..Len(w)
    <3> HIDE DEF w, a, b
    <3> QED BY <1>1, <1>2, <1>3, <1>4
  <2>2. body \in Seq(BodyByte)
    <3>1. a <= a BY <1>3
    <3>2. SubSeq(w, a + 1, a + b + n) \in Seq(BodyByte) BY <1>3, <2>1, <3>1, TailIsBytes
    <3> QED BY <1>5, <3>2
  <2>3. q.raw \in Seq(Atom) /\ q.body \in Seq(Atom)
    <3>1. q.raw \in Seq(Atom) BY <1>1, ParserIsMadeOf
    <3>2. q.body \in Seq(BodyByte) BY <1>1, ParserIsMadeOf
    <3>3. q.body \in Seq(Atom) BY <3>2, SeqMonotonic DEF Atom
    <3> QED BY <3>1, <3>3
  <2>4. SubSeq(q.raw, 1, n) \in Seq(Atom) /\ Len(SubSeq(q.raw, 1, n)) = n BY <2>3, CutIs
  <2>5. Len(body) = b + n
    <3> DEFINE x == SubSeq(q.raw, 1, n)
    <3>1. x \in Seq(Atom) /\ Len(x) = n BY <2>4
    <3> HIDE DEF x
    <3>2. Len(q.body \o x) = Len(q.body) + Len(x) BY <2>3, <3>1, ConcatProperties
    <3> QED BY <3>1, <3>2 DEF x
  <2> QED BY <2>2, <2>5
<1>7. raw \in Seq(Atom) 
  <2>1. q.raw \in Seq(Atom) BY <1>1, ParserIsMadeOf
  <2> QED BY <2>1, CutIs
<1>8. r = [[[q EXCEPT !.body = body] EXCEPT !.raw = raw] EXCEPT !.left = q.left - n]
  BY <1>1 DEF Take, Parser
<1> HIDE DEF body, raw
<1>9. q.left - n \in Nat
  <2>1. n \in Nat BY <1>2, <1>3, <1>4
  <2> QED BY <1>2, <2>1
<1>10. r \in Parser
  <2>1. [q EXCEPT !.body = body] \in Parser BY <1>1, <1>6, ParserWith
  <2>2. [[q EXCEPT !.body = body] EXCEPT !.raw = raw] \in Parser BY <1>7, <2>1, ParserWith
  <2> QED BY <1>8, <1>9, <2>2, ParserWith
<1>11. /\ r.state = "BODY_CONTENT_LENGTH" /\ r.body = body /\ r.raw = raw
       /\ r.left = q.left - n /\ r.headers = q.headers /\ r.line = q.line
  BY <1>1, <1>8 DEF Parser
<1> HIDE DEF r
<1>12. HeaderOver(r) BY <1>1, <1>11 DEF HeaderOver
<1>13. Announced(msg) = {Len(r.body) + r.left}
  <2>1. n \in Nat BY <1>2, <1>3, <1>4
  <2>2. b + n + (q.left - n) = b + q.left BY <1>2, <2>1
  <2> QED BY <1>1, <1>6, <1>11, <2>2
<1>14. Buffered(r, a + Len(r.body))
  <2> HIDE DEF w, a, b
  <2>1. n \in Nat BY <1>2, <1>3, <1>4
  <2>2. a + (b + n) = a + b + n /\ a + b + n \in 0..sent BY <1>1, <1>2, <1>3, <1>4, <2>1
  <2>3. r.raw = SubSeq(w, a + b + n + 1, sent) BY <1>4, <1>11 DEF raw
  <2> QED BY <1>6, <1>11, <2>2, <2>3 DEF Buffered, w
<1>15. r.body = SubSeq(w, a + 1, a + Len(r.body))
  <2> HIDE DEF w, a, b
  <2>1. n \in Nat BY <1>2, <1>3, <1>4
  <2>2. a + (b + n) = a + b + n BY <1>2, <1>3, <2>1
  <2>3. r.body = SubSeq(w, a + 1, a + b + n) BY <1>5, <1>11
  <2> QED BY <1>6, <1>11, <2>2, <2>3
<1>16. ParserIs(r)
  BY <1>1, <1>10, <1>11, <1>12, <1>13, <1>14, <1>15 DEF ParserIs, BodyState
<1> QED BY <1>11, <1>13, <1>16 DEF r
\* A body of announced length: what of it is there leaves the buffer, and a line end
\* after it.
LEMMA LengthCases ==
  ASSUME Received, NEW q, ParserIs(q), q.state = "BODY_CONTENT_LENGTH"
  PROVE  LET n == Min({Len(q.raw), q.left})
             r == Take(q, n)
             s == IF IsPrefix(CRLF, r.raw)
                    THEN [r EXCEPT !.raw = SubSeq(r.raw, 3, Len(r.raw))] ELSE r
         IN  /\ n \in 0..Len(q.raw) /\ n <= q.left /\ n \in Nat /\ n \in {Len(q.raw), q.left}
             /\ r.raw = SubSeq(q.raw, n + 1, Len(q.raw)) /\ r.left = q.left - n
             /\ ParserIs(r) /\ r.state = "BODY_CONTENT_LENGTH"
             /\ Announced(msg) = {Len(r.body) + r.left}
             /\ r \in Parser /\ HeaderOver(r) /\ r.left \in Nat /\ Len(r.body) \in Nat
             /\ s \in Parser /\ s.headers = r.headers /\ s.line = r.line /\ s.body = r.body
             /\ ParseBodyContentLength(q) =
                  IF q.raw = <<>> THEN Result("AGAIN", q)
                  ELSE IF TooLarge(q, n) THEN Fail(q, 413)
                  ELSE IF r.left > 0 THEN Result("AGAIN", r)
                  ELSE IF s.raw # <<>> THEN Fail(s, 400)
                  ELSE Finished(s)
<1> DEFINE n == Min({Len(q.raw), q.left})
           r == Take(q, n)
           dropped == [r EXCEPT !.raw = SubSeq(r.raw, 3, Len(r.raw))]
           s == IF IsPrefix(CRLF, r.raw) THEN dropped ELSE r
<1>1. /\ q \in Parser /\ q.raw \in Seq(Atom) /\ q.left \in Nat /\ q.body \in Seq(BodyByte)
      /\ Announced(msg) = {Len(q.body) + q.left} /\ HeaderOver(q)
  BY DEF ParserIs, Parser, Atom, BodyState
<1>2. Len(q.raw) \in Nat /\ Len(q.body) \in Nat BY <1>1, LenProperties
<1>3. n \in 0..Len(q.raw) /\ n <= q.left /\ n \in Nat /\ n \in {Len(q.raw), q.left}
  <2>1. {Len(q.raw), q.left} \subseteq Nat /\ {Len(q.raw), q.left} # {} BY <1>1, <1>2
  <2>2. n \in {Len(q.raw), q.left} /\ n <= Len(q.raw) /\ n <= q.left
    BY <2>1, MinIsSmallest
  <2> HIDE DEF n
  <2> QED BY <1>1, <1>2, <2>2
<1> HIDE DEF n
<1>4. r.raw = SubSeq(q.raw, n + 1, Len(q.raw)) /\ r.left = q.left - n
  BY <1>1 DEF Take, Parser
<1>5. /\ ParserIs(r) /\ r.state = "BODY_CONTENT_LENGTH"
      /\ Announced(msg) = {Len(r.body) + r.left}
  BY <1>3, TakeIs
<1> HIDE DEF r
<1>6. /\ r \in Parser /\ HeaderOver(r) /\ r.raw \in Seq(Atom) /\ r.left \in Nat
      /\ Len(r.body) \in Nat /\ r.raw \in Seq(Atom)
  <2>1. r \in Parser /\ HeaderOver(r) BY <1>5 DEF ParserIs, BodyState
  <2>2. r.raw \in Seq(Atom) /\ r.left \in Nat /\ r.body \in Seq(BodyByte)
    BY <2>1, ParserIsMadeOf
  <2> QED BY <2>1, <2>2, LenProperties
<1>7. /\ s \in Parser /\ s.headers = r.headers /\ s.line = r.line /\ s.body = r.body
  <2>1. CASE IsPrefix(CRLF, r.raw)
    <3>1. Len(r.raw) \in Nat /\ 2 <= Len(r.raw)
      BY <1>6, <2>1, LineEndBytes, LenProperties DEF IsPrefix
    <3>2. 2 \in 0..Len(r.raw) /\ 2 + 1 = 3 BY <3>1
    <3>3. SubSeq(r.raw, 2 + 1, Len(r.raw)) \in Seq(Atom) BY <1>6, <3>2, CutIs
    <3>4. dropped \in Parser BY <1>6, <3>2, <3>3, ParserWith
    <3>5. /\ dropped.headers = r.headers /\ dropped.line = r.line
          /\ dropped.body = r.body
      BY <1>6 DEF Parser
    <3> HIDE DEF dropped
    <3> QED BY <2>1, <3>4, <3>5
  <2>2. CASE ~IsPrefix(CRLF, r.raw) BY <1>6, <2>2
  <2> QED BY <2>1, <2>2
<1> HIDE DEF s
<1>8. ParseBodyContentLength(q) =
        IF q.raw = <<>> THEN Result("AGAIN", q)
        ELSE IF TooLarge(q, n) THEN Fail(q, 413)
        ELSE IF r.left > 0 THEN Result("AGAIN", r)
        ELSE IF s.raw # <<>> THEN Fail(s, 400)
        ELSE Finished(s)
  BY DEF ParseBodyContentLength, n, r, s
<1> QED BY <1>3, <1>4, <1>5, <1>6, <1>7, <1>8 DEF s, r, n

\* A turn that reads a body of announced length.
LEMMA LengthTurn ==
  ASSUME Received, NEW q, ParserIs(q), q.state = "BODY_CONTENT_LENGTH"
  PROVE  Turn(q, ParseBodyContentLength(q))
<1> DEFINE n == Min({Len(q.raw), q.left})
           r == Take(q, n)
           s == IF IsPrefix(CRLF, r.raw)
                  THEN [r EXCEPT !.raw = SubSeq(r.raw, 3, Len(r.raw))] ELSE r
<1>1. /\ q \in Parser /\ q.left \in Nat /\ q.body \in Seq(BodyByte)
      /\ Announced(msg) = {Len(q.body) + q.left}
  BY DEF ParserIs, Parser, BodyState
<1>2. Len(q.body) \in Nat BY <1>1, LenProperties
<1>3. n \in Nat /\ n <= q.left BY LengthCases
<1>4. /\ ParserIs(r) /\ r.state = "BODY_CONTENT_LENGTH"
      /\ Announced(msg) = {Len(r.body) + r.left}
  BY LengthCases
<1>5. HeaderOver(r) /\ r.left \in Nat /\ Len(r.body) \in Nat BY LengthCases
<1>6. s \in Parser /\ s.headers = r.headers /\ s.line = r.line /\ s.body = r.body
  BY LengthCases
<1>7. ParseBodyContentLength(q) =
        IF q.raw = <<>> THEN Result("AGAIN", q)
        ELSE IF TooLarge(q, n) THEN Fail(q, 413)
        ELSE IF r.left > 0 THEN Result("AGAIN", r)
        ELSE IF s.raw # <<>> THEN Fail(s, 400)
        ELSE Finished(s)
  BY LengthCases
<1> HIDE DEF n, r, s
<1>8. CASE q.raw = <<>> BY <1>7, <1>8, AgainIs
<1>9. CASE q.raw # <<>> /\ TooLarge(q, n)
  <2>1. Len(q.body) + q.left > TenMb
    BY <1>1, <1>2, <1>3, <1>9, RequestParserAssumption DEF TooLarge
  <2>2. \E x \in Announced(msg) : x > TenMb BY <1>1, <2>1
  <2>3. 413 \in Error /\ Reason(413) BY <2>2, Reasons
  <2> QED BY <1>1, <1>7, <1>9, <2>3, FailIs
<1>10. CASE q.raw # <<>> /\ ~TooLarge(q, n) /\ r.left > 0
  <2>1. Turn(q, Result("AGAIN", r)) BY <1>4 DEF Turn, Result, BodyState
  <2> QED BY <1>7, <1>10, <2>1
<1>11. CASE q.raw # <<>> /\ ~TooLarge(q, n) /\ ~(r.left > 0) /\ s.raw # <<>>
  <2>1. Turn(q, Fail(s, 400)) BY <1>6, BadRequest, FailIs
  <2> QED BY <1>7, <1>11, <2>1
<1>12. CASE q.raw # <<>> /\ ~TooLarge(q, n) /\ ~(r.left > 0) /\ s.raw = <<>>
  <2>1. r.left = 0 BY <1>5, <1>12
  <2>2. Announced(msg) = {Len(s.body)} BY <1>4, <1>5, <1>6, <2>1
  <2>3. HeaderOver(s) BY <1>5, <1>6 DEF HeaderOver
  <2>4. Turn(q, Finished(s)) BY <1>6, <2>2, <2>3, FinishedTurn
  <2> QED BY <1>7, <1>12, <2>4
<1> QED BY <1>8, <1>9, <1>10, <1>11, <1>12

\* What makes a parser that reads chunks.
LEMMA ChunkedIs ==
  ASSUME NEW q \in Parser, HeaderOver(q), ~IsPlain, q.raw \in Seq(BodyByte),
         q.state = "BODY_CHUNKED"
  PROVE  ParserIs(q)
BY DEF ParserIs, BodyState

\* The size of a chunk.
LEMMA ChunkSizeTurn ==
  ASSUME NEW q, ParserIs(q), q.state = "BODY_CHUNKED"
  PROVE  Turn(q, ParseChunkSize(q))
<1> DEFINE n == Number(FirstLine(q.raw))
           raw == AfterFirstLine(q.raw)
           r == [q EXCEPT !.raw = raw]
           z == [r EXCEPT !.size = 0]
           rest == SubSeq(raw, 3, Len(raw))
           e == [z EXCEPT !.raw = rest]
           u == [[r EXCEPT !.size = n] EXCEPT !.waiting = FALSE]
<1>1. q \in Parser /\ HeaderOver(q) /\ ~IsPlain /\ q.raw \in Seq(BodyByte)
  BY DEF ParserIs, BodyState
<1>2. CASE ~HasEndOfLine(q.raw) BY <1>2, AgainIs DEF ParseChunkSize
<1>3. CASE HasEndOfLine(q.raw)
  <2>1. raw \in Seq(BodyByte) /\ Len(raw) < Len(q.raw) BY <1>1, <1>3, FirstLineIs
  <2>2. raw \in Seq(Atom) BY <2>1, SeqMonotonic DEF Atom
  <2>3. r \in Parser BY <1>1, <2>2, ParserWith
  <2>4. /\ r.state = q.state /\ r.headers = q.headers /\ r.line = q.line /\ r.raw = raw
    BY <1>1 DEF Parser
  <2>5. z \in Parser
    <3> HIDE DEF r
    <3> QED BY <2>3, ParserWith
  <2>6. /\ z.state = q.state /\ z.headers = q.headers /\ z.line = q.line /\ z.raw = raw
    BY <1>1 DEF Parser
  <2>7. ParseChunkSize(q) =
          IF n = -1 THEN Fail(r, 400)
          ELSE IF n \in Nat \ {0} THEN Result("OK", u)
          ELSE IF Len(raw) < 2 THEN Result("AGAIN", z)
          ELSE IF ~IsPrefix(CRLF, raw) THEN Fail(z, 400)
          ELSE Finished(e)
    <3>1. [[r EXCEPT !.size = 0] EXCEPT !.raw = SubSeq(r.raw, 3, Len(r.raw))] = e
      BY <2>4
    <3> HIDE DEF n, e
    <3> QED BY <1>1, <1>3, <2>4, <3>1 DEF ParseChunkSize, n
  <2>8. CASE n = -1
    <3>1. Turn(q, Fail(r, 400)) BY <2>3, BadRequest, FailIs
    <3> QED BY <2>7, <2>8, <3>1
  <2>9. CASE n # -1 /\ n \in Nat \ {0}
    <3>1. u \in Parser
      <4> HIDE DEF r, n
      <4>1. [r EXCEPT !.size = n] \in Parser BY <2>3, <2>9, ParserWith
      <4> QED BY <4>1, ParserWith
    <3>2. /\ u.state = "BODY_CHUNKED" /\ u.headers = q.headers /\ u.line = q.line
          /\ u.raw = raw
      <4> HIDE DEF n, raw
      <4> QED BY <1>1 DEF Parser
    <3> HIDE DEF u
    <3>3. HeaderOver(u) BY <1>1, <3>2 DEF HeaderOver
    <3>4. ParserIs(u) BY <1>1, <2>1, <3>1, <3>2, <3>3, ChunkedIs
    <3>5. Turn(q, Result("OK", u)) BY <2>1, <3>2, <3>4 DEF Turn, Result, BodyState
    <3> QED BY <2>7, <2>9, <3>5
  <2> HIDE DEF z, r, u
  <2>10. HeaderOver(z) BY <1>1, <2>6 DEF HeaderOver
  <2>11. CASE n # -1 /\ n \notin Nat \ {0} /\ Len(raw) < 2
    <3>1. ParserIs(z) BY <1>1, <2>1, <2>5, <2>6, <2>10, ChunkedIs
    <3>2. Turn(q, Result("AGAIN", z)) BY <2>6, <3>1 DEF Turn, Result, BodyState
    <3> QED BY <2>7, <2>11, <3>2
  <2>12. CASE n # -1 /\ n \notin Nat \ {0} /\ ~(Len(raw) < 2) /\ ~IsPrefix(CRLF, raw)
    <3>1. Turn(q, Fail(z, 400)) BY <2>5, BadRequest, FailIs
    <3> QED BY <2>7, <2>12, <3>1
  <2>13. CASE n # -1 /\ n \notin Nat \ {0} /\ ~(Len(raw) < 2) /\ IsPrefix(CRLF, raw)
    <3>1. Len(raw) \in Nat BY <2>2, LenProperties
    <3>2. 2 \in 0..Len(raw) /\ 2 + 1 = 3 BY <2>13, <3>1
    <3>3. rest \in Seq(Atom)
      <4>1. SubSeq(raw, 2 + 1, Len(raw)) \in Seq(Atom) BY <2>2, <3>2, CutIs
      <4> QED BY <3>2, <4>1
    <3> HIDE DEF rest
    <3>4. e \in Parser BY <2>5, <3>3, ParserWith
    <3>5. e.headers = z.headers /\ e.line = z.line BY <2>5 DEF Parser
    <3> HIDE DEF e
    <3>6. HeaderOver(e) BY <2>10, <3>5 DEF HeaderOver
    <3>7. Turn(q, Finished(e)) BY <1>1, <3>4, <3>6, FinishedTurn
    <3> QED BY <2>7, <2>13, <3>7
  <2> QED BY <2>8, <2>9, <2>11, <2>12, <2>13
<1> QED BY <1>2, <1>3

\* The data of a chunk.
LEMMA ChunkDataTurn ==
  ASSUME NEW q, ParserIs(q), q.state = "BODY_CHUNKED"
  PROVE  Turn(q, ParseChunkData(q))
<1> DEFINE size == q.size
           body == q.body \o SubSeq(q.raw, 1, size)
           raw == SubSeq(q.raw, size + 3, Len(q.raw))
           t == [[[[q EXCEPT !.body = body] EXCEPT !.raw = raw] EXCEPT !.size = 0]
                  EXCEPT !.waiting = TRUE]
<1>1. /\ q \in Parser /\ HeaderOver(q) /\ ~IsPlain /\ q.raw \in Seq(BodyByte)
      /\ size \in Nat /\ q.body \in Seq(BodyByte)
  BY DEF ParserIs, BodyState, Parser
<1>2. CASE Len(q.raw) < q.size + 2 BY <1>2, AgainIs DEF ParseChunkData
<1>3. CASE ~(Len(q.raw) < q.size + 2)
  <2>1. Len(q.raw) \in Nat BY <1>1, LenProperties
  <2> HIDE DEF size
  <2>2. size \in 0..Len(q.raw) /\ size + 2 \in 0..Len(q.raw) /\ size + 2 + 1 = size + 3
    BY <1>1, <1>3, <2>1 DEF size
  <2>3. SubSeq(q.raw, 1, size) \in Seq(BodyByte) BY <1>1, <2>2, CutIs
  <2>4. body \in Seq(BodyByte) BY <1>1, <2>3, ConcatProperties
  <2>5. raw \in Seq(BodyByte) /\ Len(raw) = Len(q.raw) - (size + 2)
    <3> DEFINE d == size + 2
    <3>1. d \in 0..Len(q.raw) BY <2>2
    <3> HIDE DEF d
    <3>2. /\ SubSeq(q.raw, d + 1, Len(q.raw)) \in Seq(BodyByte)
          /\ Len(SubSeq(q.raw, d + 1, Len(q.raw))) = Len(q.raw) - d
      BY <1>1, <3>1, CutIs
    <3> QED BY <2>2, <3>2 DEF d
  <2>6. raw \in Seq(Atom) BY <2>5, SeqMonotonic DEF Atom
  <2>7. ParseChunkData(q) = Result("OK", t)
    BY <1>1, <1>3 DEF ParseChunkData, Parser, size
  <2> HIDE DEF raw, body
  <2>8. t \in Parser
    <3>1. [q EXCEPT !.body = body] \in Parser BY <1>1, <2>4, ParserWith
    <3>2. [[q EXCEPT !.body = body] EXCEPT !.raw = raw] \in Parser
      BY <2>6, <3>1, ParserWith
    <3>3. [[[q EXCEPT !.body = body] EXCEPT !.raw = raw] EXCEPT !.size = 0] \in Parser
      BY <3>2, ParserWith
    <3> QED BY <3>3, ParserWith
  <2>9. /\ t.state = "BODY_CHUNKED" /\ t.headers = q.headers /\ t.line = q.line
        /\ t.raw = raw
    BY <1>1 DEF Parser
  <2> HIDE DEF t
  <2>10. HeaderOver(t) BY <1>1, <2>9 DEF HeaderOver
  <2>11. ParserIs(t) BY <1>1, <2>5, <2>8, <2>9, <2>10, ChunkedIs
  <2>12. Len(raw) < Len(q.raw) BY <1>1, <2>1, <2>5
  <2>13. Turn(q, Result("OK", t)) BY <2>9, <2>11, <2>12 DEF Turn, Result, BodyState
  <2> QED BY <2>7, <2>13
<1> QED BY <1>2, <1>3

\* Every turn of parseNext, in every state it is called in.
LEMMA ParseNextTurn ==
  ASSUME Received, NEW q, ParserIs(q), q.state \notin {"ERROR", "COMPLETE"}
  PROVE  Turn(q, ParseNext(q))
<1>1. /\ q \in Parser
      /\ q.state \in {"REQUEST_LINE", "HEADERS", "BODY_CONTENT_LENGTH", "BODY_CHUNKED",
                      "BODY_NONE"}
  BY DEF ParserIs, Parser, BodyState
<1>2. CASE q.state = "REQUEST_LINE"
  BY <1>2, RequestLineTurn DEF ParseNext
<1>3. CASE q.state = "HEADERS"
  BY <1>3, HeaderTurn DEF ParseNext
<1>4. CASE q.state = "BODY_CONTENT_LENGTH"
  BY <1>4, LengthTurn DEF ParseNext
<1>5. CASE q.state = "BODY_CHUNKED"
  BY <1>5, ChunkSizeTurn, ChunkDataTurn DEF ParseNext, ParseBodyChunked
<1>6. CASE q.state = "BODY_NONE"
  <2> DEFINE t == [q EXCEPT !.state = "COMPLETE"]
  <2>1. t \in Parser BY <1>1, ParserWith DEF State, BodyState
  <2>2. /\ t.state = "COMPLETE" /\ t.headers = q.headers /\ t.line = q.line
        /\ t.body = <<>>
    BY <1>1, <1>6 DEF Parser, ParserIs, BodyState
  <2>3. ParseNext(q) = Result("OK", t) BY <1>6 DEF ParseNext
  <2> HIDE DEF t
  <2>4. HeaderOver(t) BY <1>6, <2>2 DEF HeaderOver, ParserIs, BodyState
  <2>5. ParserIs(t) BY <2>1, <2>2, <2>4 DEF ParserIs, BodyState
  <2>6. Turn(q, Result("OK", t)) BY <2>2, <2>5 DEF Turn, Result, BodyState
  <2> QED BY <2>3, <2>6
<1> QED BY <1>1, <1>2, <1>3, <1>4, <1>5, <1>6
-----------------------------------------------------------------------------
(* The steps of handleRead.                                                *)

LEMMA InputInit == Init => InputInv
<1> SUFFICES ASSUME Init PROVE InputInv
  OBVIOUS
<1>1. msg \in Message /\ Received /\ limit \in Limits
  <2>1. msg \in Message BY RequestParserAssumption DEF Init
  <2>2. Len(Wire(msg)) \in Nat BY <2>1, WireAtoms, LenProperties
  <2> QED BY <2>1, <2>2 DEF Init, Received
<1>2. p \in Parser
  <2>1. NoLine \in RequestLine BY DEF NoLine, RequestLine
  <2>2. <<>> \in Seq(BodyByte) /\ <<>> \in Seq(Atom) BY EmptySeq
  <2>3. "REQUEST_LINE" \in State /\ -1 \in Error BY DEF State, Error
  <2>4. p \in [state: State, error: Error, left: Nat, size: Nat, waiting: BOOLEAN,
               raw: Seq(Atom), line: RequestLine, headers: SUBSET HeaderLine,
               body: Seq(BodyByte)]
    BY <2>1, <2>2, <2>3 DEF Init
  <2> QED BY <2>4 DEF Parser, State, Error, Atom
<1>3. Buffered(p, 0)
  <2>1. 1 \in Int /\ 0 \in Int /\ 0 < 1 /\ 0 + 1 = 1 OBVIOUS
  <2>2. SubSeq(Wire(msg), 0 + 1, 0) = <<>> BY <2>1, SubSeqEmpty
  <2> QED BY <2>2 DEF Init, Buffered
<1>4. ParserIs(p) BY <1>2, <1>3 DEF Init, ParserIs, BodyState
<1>5. HandlerIs BY DEF Init, HandlerIs, Handler, BodyState
<1>6. RefusesForAReason /\ AcceptsHeaderSent /\ AnnouncedLimitIsRespected
  BY DEF Init, RefusesForAReason, AcceptsHeaderSent, AnnouncedLimitIsRespected
<1> QED BY <1>1, <1>4, <1>5, <1>6 DEF InputInv, Received

\* The handler with a value of its type in a field.
LEMMA HandlerWith ==
  ASSUME NEW g \in Handler
  PROVE  /\ \A x \in Place   : [g EXCEPT !.pc = x] \in Handler
         /\ \A x \in BOOLEAN : [g EXCEPT !.resolved = x] \in Handler
         /\ \A x \in Status  : [g EXCEPT !.status = x] \in Handler
<1>1. ASSUME NEW A, NEW B, NEW C, NEW f \in [pc: A, resolved: B, status: C]
      PROVE  /\ \A x \in A : [f EXCEPT !.pc = x] \in [pc: A, resolved: B, status: C]
             /\ \A x \in B : [f EXCEPT !.resolved = x] \in [pc: A, resolved: B, status: C]
             /\ \A x \in C : [f EXCEPT !.status = x] \in [pc: A, resolved: B, status: C]
  OBVIOUS
<1>2. Handler = [pc: Place, resolved: BOOLEAN, status: Status]
  BY DEF Handler, Place, Status
<1> QED BY <1>1, <1>2, Zenon

\* What has been received is more of the same message.
LEMMA BufferGrows ==
  ASSUME NEW S, NEW w \in Seq(S), NEW k \in Nat, NEW i \in k..Len(w), NEW n \in i..Len(w)
  PROVE  SubSeq(w, k + 1, i) \o SubSeq(w, i + 1, n) = SubSeq(w, k + 1, n)
<1> DEFINE m == k + 1
<1>1. Len(w) \in Nat BY LenProperties
<1>2. m \in 1..Len(w) + 1 /\ i \in m - 1..Len(w) BY <1>1
<1> HIDE DEF m
<1>3. SubSeq(w, m, i) \o SubSeq(w, i + 1, n) = SubSeq(w, m, n)
  BY <1>2, ConcatAdjacentSubSeq
<1> QED BY <1>3 DEF m

LEMMA RecvKeeps == InputInv /\ Recv => InputInv'
<1> SUFFICES ASSUME InputInv, Recv PROVE InputInv'
  OBVIOUS
<1> DEFINE w == Wire(msg)
<1>1. /\ Received /\ ParserIs(p) /\ HandlerIs /\ p \in Parser /\ limit \in Limits
      /\ h \in Handler
  BY DEF InputInv, Received, ParserIs, HandlerIs
<1>2. msg \in Message /\ w \in Seq(Atom) /\ Len(w) \in Nat /\ sent \in 0..Len(w)
      /\ Len(msg.headers) \in Nat /\ HeadLen(msg) \in Nat
  <2>1. msg \in Message /\ Len(msg.headers) \in Nat BY <1>1, MessageIs
  <2>2. w \in Seq(Atom) BY <2>1, WireAtoms
  <2> QED BY <1>1, <2>1, <2>2, LenProperties DEF Received, HeadLen
<1>3. PICK n \in sent + 1..Len(w) :
        sent' = n /\ p' = [p EXCEPT !.raw = p.raw \o SubSeq(w, sent + 1, n)]
  BY DEF Recv
<1>4. msg' = msg /\ limit' = limit /\ h' = [h EXCEPT !.pc = "parse"] /\ h.pc = "recv"
  BY DEF Recv
<1> DEFINE piece == SubSeq(w, sent + 1, n)
           raw == p.raw \o piece
<1>5. n \in sent..Len(w) /\ n \in 0..Len(w)
  <2> HIDE DEF w
  <2> QED BY <1>2, <1>3
<1>6. piece \in Seq(Atom)
  <2> HIDE DEF w
  <2>1. sent \in Nat BY <1>2
  <2> QED BY <1>2, <1>5, <2>1, PieceIs
<1>7. raw \in Seq(Atom)
  <2>1. p.raw \in Seq(Atom) BY <1>1, ParserIsMadeOf
  <2> QED BY <1>6, <2>1, ConcatProperties
<1> HIDE DEF piece
<1>8. /\ p' \in Parser /\ p'.raw = raw /\ p'.state = p.state /\ p'.headers = p.headers
      /\ p'.line = p.line /\ p'.body = p.body /\ p'.left = p.left
  <2>1. p' = [p EXCEPT !.raw = raw] BY <1>3 DEF piece
  <2>2. p' \in Parser BY <1>1, <1>7, <2>1, ParserWith
  <2> HIDE DEF raw
  <2>3. /\ [p EXCEPT !.raw = raw].raw = raw /\ [p EXCEPT !.raw = raw].state = p.state
        /\ [p EXCEPT !.raw = raw].headers = p.headers
        /\ [p EXCEPT !.raw = raw].line = p.line /\ [p EXCEPT !.raw = raw].body = p.body
        /\ [p EXCEPT !.raw = raw].left = p.left
    BY <1>1 DEF Parser
  <2> QED BY <2>1, <2>2, <2>3
<1>9. ASSUME NEW k \in Nat, Buffered(p, k) PROVE Buffered(p, k)'
  <2> HIDE DEF w
  <2>1. p.raw = SubSeq(w, k + 1, sent) /\ k \in 0..sent BY <1>9 DEF Buffered, w
  <2>2. sent \in k..Len(w) BY <1>2, <2>1
  <2>3. SubSeq(w, k + 1, sent) \o SubSeq(w, sent + 1, n) = SubSeq(w, k + 1, n)
    BY <1>2, <1>5, <2>2, BufferGrows
  <2>4. p'.raw = SubSeq(w, k + 1, n) BY <1>8, <2>1, <2>3 DEF piece
  <2>5. k \in 0..n BY <1>2, <1>3, <2>1
  <2> QED BY <1>3, <1>4, <2>4, <2>5 DEF Buffered, w
<1>10. ASSUME NEW n1, HeaderPart(p, n1) PROVE HeaderPart(p, n1)'
  <2>1. msg' = msg /\ p'.line = p.line /\ p'.headers = p.headers BY <1>4, <1>8
  <2>2. LineIsValid(msg') /\ p'.line = msg'.line /\ p'.headers = {msg'.headers[i] : i \in 1..n1}
    <3>1. LineIsValid(msg) /\ p.line = msg.line /\ p.headers = {msg.headers[i] : i \in 1..n1}
      BY <1>10 DEF HeaderPart
    <3> QED BY <2>1, <3>1
  <2>3. \A i \in 1..n1 : LET f == msg'.headers[i] IN
          f.key # "" /\ (f.key = "cookie" => f.wellFormed)
    BY <1>10, <2>1 DEF HeaderPart
  <2>4. \A i, j \in 1..n1 : i # j /\ msg'.headers[j].key \in SameName(msg'.headers[i].key) =>
          msg'.headers[i].key \in LengthKeys /\ msg'.headers[i] = msg'.headers[j]
    BY <1>10, <2>1 DEF HeaderPart
  <2> QED BY <2>2, <2>3, <2>4, Zenon DEF HeaderPart
<1>11. ASSUME HeaderOver(p) PROVE HeaderOver(p)'
  <2>1. n >= HeadLen(msg)
    <3> HIDE DEF w
    <3> QED BY <1>2, <1>3, <1>11 DEF HeaderOver
  <2> QED BY <1>3, <1>4, <1>8, <1>11, <2>1 DEF HeaderOver
<1>12. ASSUME HeaderOver(p), p.raw \in Seq(BodyByte) PROVE p'.raw \in Seq(BodyByte)
  <2>1. sent \in Nat /\ HeadLen(msg) <= sent BY <1>2, <1>12 DEF HeaderOver
  <2>2. piece \in Seq(BodyByte) BY <1>1, <1>5, <2>1, TailIsBytes DEF piece
  <2> QED BY <1>8, <1>12, <2>2, ConcatProperties
<1>13. IsPlain' = IsPlain /\ Announced(msg)' = Announced(msg) /\ HeadLen(msg)' = HeadLen(msg)
       /\ Wire(msg)' = Wire(msg)
  BY <1>4 DEF IsPlain
<1>14. p.state \notin {"COMPLETE", "ERROR"} BY <1>1, <1>4 DEF HandlerIs
<1>15. ParserIs(p)'
  <2>1. p.state = "REQUEST_LINE" => (Buffered(p, 0) /\ p.headers = {} /\ p.body = <<>>)'
    BY <1>1, <1>8, <1>9 DEF ParserIs
  <2>2. p.state = "HEADERS" =>
          /\ \E i \in 0..Len(msg'.headers) : Buffered(p, 3 * i + 3)' /\ HeaderPart(p, i)'
          /\ p'.body = <<>>
    <3>1. ASSUME p.state = "HEADERS"
          PROVE  \E i \in 0..Len(msg.headers) : Buffered(p, 3 * i + 3)' /\ HeaderPart(p, i)'
      <4>1. PICK i \in 0..Len(msg.headers) : Buffered(p, 3 * i + 3) /\ HeaderPart(p, i)
        BY <1>1, <3>1 DEF ParserIs
      <4>2. 3 * i + 3 \in Nat BY <1>2
      <4> QED BY <1>9, <1>10, <4>1, <4>2
    <3> QED BY <1>1, <1>4, <1>8, <3>1 DEF ParserIs
  <2>3. p.state \in BodyState => HeaderOver(p)' BY <1>1, <1>11 DEF ParserIs
  <2>4. p.state = "BODY_CONTENT_LENGTH" =>
          /\ IsPlain' /\ Announced(msg)' = {Len(p'.body) + p'.left}
          /\ Buffered(p, HeadLen(msg) + Len(p.body))'
          /\ p'.body = SubSeq(Wire(msg)', HeadLen(msg)' + 1, HeadLen(msg)' + Len(p'.body))
    <3>1. p.body \in Seq(BodyByte) BY <1>1, ParserIsMadeOf
    <3>2. Len(p.body) \in Nat BY <3>1, LenProperties
    <3>3. HeadLen(msg) + Len(p.body) \in Nat BY <1>2, <3>2
    <3>4. p.state = "BODY_CONTENT_LENGTH" => Buffered(p, HeadLen(msg) + Len(p.body))
      BY <1>1 DEF ParserIs
    <3>5. ASSUME p.state = "BODY_CONTENT_LENGTH"
          PROVE  Buffered(p, HeadLen(msg) + Len(p.body))'
      <4>1. PICK k \in Nat : k = HeadLen(msg) + Len(p.body) /\ Buffered(p, k)
        BY <3>3, <3>4, <3>5
      <4>2. Buffered(p, k)' BY <1>9, <4>1
      <4>3. HeadLen(msg') + Len(p'.body) = k BY <1>4, <1>8, <4>1
      <4> QED BY <4>2, <4>3 DEF Buffered
    <3>6. ASSUME p.state = "BODY_CONTENT_LENGTH"
          PROVE  /\ IsPlain /\ Announced(msg) = {Len(p.body) + p.left}
                 /\ p.body = SubSeq(Wire(msg), HeadLen(msg) + 1, HeadLen(msg) + Len(p.body))
      BY <1>1, <3>6 DEF ParserIs
    <3> QED BY <1>8, <1>13, <3>5, <3>6
  <2>5. p.state = "BODY_CHUNKED" => ~IsPlain' /\ p'.raw \in Seq(BodyByte)
    BY <1>1, <1>12, <1>13 DEF ParserIs, BodyState
  <2>6. p.state = "BODY_NONE" => p'.body = <<>> /\ p'.raw \in Seq(BodyByte)
    BY <1>1, <1>8, <1>12 DEF ParserIs, BodyState
  <2> QED BY <1>8, <1>14, <2>1, <2>2, <2>3, <2>4, <2>5, <2>6 DEF ParserIs
<1>16. /\ h' \in Handler /\ h'.pc = "parse" /\ h'.resolved = h.resolved
       /\ h'.status = h.status
  BY <1>1, <1>4 DEF Handler
<1>17. HandlerIs'
  BY <1>1, <1>4, <1>8, <1>13, <1>16 DEF HandlerIs
<1>18. h'.status = 0 BY <1>1, <1>4, <1>16 DEF HandlerIs
<1>19. (RefusesForAReason /\ AcceptsHeaderSent /\ AnnouncedLimitIsRespected)'
  BY <1>16, <1>18 DEF RefusesForAReason, AcceptsHeaderSent, AnnouncedLimitIsRespected
<1>20. msg' \in Messages /\ limit' \in Limits /\ sent' \in 0..Len(Wire(msg'))
  BY <1>1, <1>3, <1>4, <1>5 DEF Received
<1> QED BY <1>15, <1>17, <1>19, <1>20 DEF InputInv
\* What is known of a parser holds of the next one if it is that one.
LEMMA ParserStays ==
  ASSUME NEW q, ParserIs(q), p' = q, msg' = msg, sent' = sent
  PROVE  ParserIs(p)'
<1>1. ASSUME NEW k, Buffered(q, k) PROVE Buffered(p, k)'
  BY <1>1 DEF Buffered
<1>2. ASSUME NEW n, HeaderPart(q, n) PROVE HeaderPart(p, n)'
  BY <1>2, Zenon DEF HeaderPart
<1>3. HeaderOver(q) => HeaderOver(p)' BY Zenon DEF HeaderOver
<1>4. /\ IsPlain' = IsPlain /\ Announced(msg') = Announced(msg)
      /\ HeadLen(msg') = HeadLen(msg) /\ Wire(msg') = Wire(msg)
  BY DEF IsPlain
<1>5. q.state = "REQUEST_LINE" => Buffered(p, 0)'
  BY <1>1 DEF ParserIs
<1>6. ASSUME q.state = "HEADERS"
      PROVE  \E n \in 0..Len(msg.headers) : Buffered(p, 3 * n + 3)' /\ HeaderPart(p, n)'
  BY <1>1, <1>2, <1>6 DEF ParserIs
<1>7. ASSUME q.state = "BODY_CONTENT_LENGTH"
      PROVE  Buffered(p, HeadLen(msg) + Len(p.body))'
  BY <1>7 DEF ParserIs, Buffered
<1> QED BY <1>3, <1>4, <1>5, <1>6, <1>7 DEF ParserIs

LEMMA RecvEndKeeps == InputInv /\ RecvEnd => InputInv'
<1> SUFFICES ASSUME InputInv, RecvEnd PROVE InputInv'
  OBVIOUS
<1>1. /\ msg' = msg /\ limit' = limit /\ sent' = sent /\ p' = p
      /\ h' = [h EXCEPT !.pc = "ended", !.status = 400] /\ h \in Handler
  BY DEF RecvEnd, InputInv, HandlerIs
<1>2. h' \in Handler /\ h'.pc = "ended" /\ h'.status = 400
  <2> DEFINE status == 400
  <2>1. h' = [[h EXCEPT !.pc = "ended"] EXCEPT !.status = status] BY <1>1
  <2>2. status \in Status BY DEF Status
  <2> HIDE DEF status
  <2>3. [h EXCEPT !.pc = "ended"] \in Handler BY <1>1, HandlerWith DEF Place
  <2>4. h' \in Handler BY <2>1, <2>2, <2>3, HandlerWith
  <2>5. Handler = [pc: Place, resolved: BOOLEAN, status: Status]
    BY DEF Handler, Place, Status
  <2>6. h'.pc = "ended" /\ h'.status = status BY <1>1, <2>1, <2>5
  <2> QED BY <2>4, <2>6 DEF status
<1>3. ParserIs(p)'
  <2>1. ParserIs(p) BY DEF InputInv
  <2> QED BY <1>1, <2>1, ParserStays
<1>4. HandlerIs' BY <1>2 DEF HandlerIs
<1>5. (RefusesForAReason /\ AcceptsHeaderSent /\ AnnouncedLimitIsRespected)'
  BY <1>2 DEF RefusesForAReason, AcceptsHeaderSent, AnnouncedLimitIsRespected
<1>6. msg' \in Messages /\ limit' \in Limits /\ sent' \in 0..Len(Wire(msg'))
  BY <1>1 DEF InputInv
<1> QED BY <1>3, <1>4, <1>5, <1>6 DEF InputInv

\* parseNext and what handleRead does with its result.
LEMMA ParseKeeps == InputInv /\ Parse => InputInv'
<1> SUFFICES ASSUME InputInv, Parse PROVE InputInv'
  OBVIOUS
<1> DEFINE r == ParseNext(p)
           q == r.p
<1>1. /\ Received /\ ParserIs(p) /\ HandlerIs /\ h \in Handler /\ limit \in Nat
      /\ msg' = msg /\ limit' = limit /\ sent' = sent /\ p' = q /\ h.pc = "parse"
  BY RequestParserAssumption DEF InputInv, Received, HandlerIs, Parse
<1>2. /\ p.state \notin {"COMPLETE", "ERROR"} /\ (h.resolved <=> p.state \in BodyState)
      /\ h.status = 0 /\ (h.resolved => \A n \in Announced(msg) : n <= limit)
  BY <1>1 DEF HandlerIs
<1>3. Turn(p, r) BY <1>1, <1>2, ParseNextTurn
<1>4. \/ r.res = "ERROR" /\ Done(q.error, h.resolved)
      \/ r.res # "ERROR" /\ MethodRefused(q) /\ Done(405, TRUE)
      \/ r.res # "ERROR" /\ ~MethodRefused(q) /\ SizeRefused(q) /\ Done(413, TRUE)
      \/ /\ r.res # "ERROR" /\ ~MethodRefused(q) /\ ~SizeRefused(q)
         /\ r.res = "OK" /\ q.state = "COMPLETE" /\ Done(200, TRUE)
      \/ /\ r.res # "ERROR" /\ ~MethodRefused(q) /\ ~SizeRefused(q)
         /\ ~(r.res = "OK" /\ q.state = "COMPLETE")
         /\ h' = [h EXCEPT !.pc = IF r.res = "AGAIN" THEN "recv" ELSE "parse",
                           !.resolved = @ \/ q.state \in BodyState]
  BY DEF Parse
<1> HIDE DEF r
<1>5. ParserIs(q) /\ ParserIs(p)' BY <1>1, <1>3, ParserStays DEF Turn
<1>6. ASSUME q.state \in BodyState
      PROVE  /\ HeaderOver(q) /\ Lengths(q) = Announced(msg)
             /\ \A n \in Announced(msg) : n \in Nat
  <2>1. HeaderOver(q) BY <1>5, <1>6 DEF ParserIs
  <2> QED BY <1>1, <2>1, FieldsAre, AnnouncedIsOne DEF HeaderOver
<1>7. msg' \in Messages /\ limit' \in Limits /\ sent' \in 0..Len(Wire(msg'))
  BY <1>1 DEF InputInv
<1>8. ASSUME NEW status \in Status, NEW resolved \in BOOLEAN, Done(status, resolved)
      PROVE  h' \in Handler /\ h'.pc = "done" /\ h'.status = status
  <2> DEFINE n == [h EXCEPT !.pc = "done", !.status = status, !.resolved = resolved]
  <2>1. [h EXCEPT !.pc = "done"] \in Handler BY <1>1, HandlerWith DEF Place
  <2>2. [[h EXCEPT !.pc = "done"] EXCEPT !.status = status] \in Handler
    BY <2>1, HandlerWith
  <2>3. n \in Handler BY <2>2, HandlerWith
  <2>4. Handler = [pc: Place, resolved: BOOLEAN, status: Status]
    BY DEF Handler, Place, Status
  <2>5. n.pc = "done" /\ n.status = status BY <1>1, <2>4
  <2>6. h' = n BY <1>8 DEF Done
  <2> QED BY <2>3, <2>5, <2>6
<1>9. CASE r.res = "ERROR" /\ Done(q.error, h.resolved)
  <2>1. Reason(q.error) /\ q.error \in Error
    BY <1>3, <1>5, <1>9 DEF Turn, ParserIs, Parser, Error
  <2>2. h' \in Handler /\ h'.pc = "done" /\ h'.status = q.error
    <3>1. q.error \in Status BY <2>1 DEF Error, Status
    <3>2. h.resolved \in BOOLEAN BY <1>1 DEF Handler
    <3> QED BY <1>8, <1>9, <3>1, <3>2
  <2>3. q.error # 200 /\ q.error # 405 BY <2>1 DEF Error
  <2>4. HandlerIs' BY <2>2 DEF HandlerIs
  <2>5. RefusesForAReason'
    <3>1. h'.status # 405 /\ msg' = msg BY <1>1, <2>2, <2>3
    <3>2. h'.status = 413 => \E n \in Announced(msg') : n > limit' \/ n > TenMb
      BY <1>1, <2>1, <2>2 DEF Reason
    <3>3. h'.status = 415 => \E f \in Values(msg', "content-type") : f.type = "other"
      BY <1>1, <2>1, <2>2 DEF Reason
    <3>4. h'.status = 505 => msg'.line.version = "other"
      BY <1>1, <2>1, <2>2 DEF Reason
    <3>5. h'.status = -1 => msg'.line = NoLine \/ Sent(msg', "") # {}
      BY <1>1, <2>1, <2>2 DEF Reason, Unreadable
    <3> QED BY <3>1, <3>2, <3>3, <3>4, <3>5 DEF RefusesForAReason
  <2>6. (AcceptsHeaderSent /\ AnnouncedLimitIsRespected)'
    BY <2>2, <2>3 DEF AcceptsHeaderSent, AnnouncedLimitIsRespected
  <2> QED BY <1>5, <1>7, <2>4, <2>5, <2>6 DEF InputInv
<1>10. CASE r.res # "ERROR" /\ MethodRefused(q) /\ Done(405, TRUE)
  <2>1. h' \in Handler /\ h'.pc = "done" /\ h'.status = 405
    <3>1. 405 \in Status BY DEF Status
    <3>2. Done(405, TRUE) BY <1>10
    <3> QED BY <1>8, <3>1, <3>2
  <2>2. msg.line.method \notin AllowedMethods
    BY <1>6, <1>10 DEF MethodRefused, Over, HeaderOver
  <2>3. HandlerIs' BY <2>1 DEF HandlerIs
  <2>4. RefusesForAReason' BY <1>1, <2>1, <2>2 DEF RefusesForAReason
  <2>5. (AcceptsHeaderSent /\ AnnouncedLimitIsRespected)'
    BY <2>1 DEF AcceptsHeaderSent, AnnouncedLimitIsRespected
  <2> QED BY <1>5, <1>7, <2>3, <2>4, <2>5 DEF InputInv
<1>11. CASE /\ r.res # "ERROR" /\ ~MethodRefused(q) /\ SizeRefused(q)
            /\ Done(413, TRUE)
  <2>1. h' \in Handler /\ h'.pc = "done" /\ h'.status = 413
    <3>1. 413 \in Status BY DEF Status
    <3>2. Done(413, TRUE) BY <1>11
    <3> QED BY <1>8, <3>1, <3>2
  <2>2. \E n \in Announced(msg) : n > limit BY <1>6, <1>11 DEF SizeRefused, Over
  <2>3. HandlerIs' BY <2>1 DEF HandlerIs
  <2>4. RefusesForAReason' BY <1>1, <2>1, <2>2 DEF RefusesForAReason
  <2>5. (AcceptsHeaderSent /\ AnnouncedLimitIsRespected)'
    BY <2>1 DEF AcceptsHeaderSent, AnnouncedLimitIsRespected
  <2> QED BY <1>5, <1>7, <2>3, <2>4, <2>5 DEF InputInv
<1>12. ASSUME ~SizeRefused(q), q.state \in BodyState
       PROVE  \A n \in Announced(msg) : n \in Nat /\ n <= limit
  <2>1. CASE h.resolved BY <1>2, <1>6, <1>12, <2>1
  <2>2. CASE ~h.resolved
    <3>1. \A n \in Announced(msg) : n \in Nat /\ ~(n > limit)
      BY <1>6, <1>12, <2>2 DEF SizeRefused, Over
    <3> QED BY <1>1, <3>1
  <2> QED BY <2>1, <2>2
<1>13. CASE /\ r.res # "ERROR" /\ ~MethodRefused(q) /\ ~SizeRefused(q)
            /\ r.res = "OK" /\ q.state = "COMPLETE" /\ Done(200, TRUE)
  <2>1. h' \in Handler /\ h'.pc = "done" /\ h'.status = 200
    <3>1. 200 \in Status BY DEF Status
    <3>2. Done(200, TRUE) BY <1>13
    <3> QED BY <1>8, <3>1, <3>2
  <2>2. HeaderOver(q) /\ (~IsPlain \/ q.body = <<>> \/ Announced(msg) = {Len(q.body)})
    BY <1>5, <1>6, <1>13 DEF ParserIs, BodyState
  <2>3. HandlerIs' BY <2>1 DEF HandlerIs
  <2>4. RefusesForAReason' BY <2>1 DEF RefusesForAReason
  <2>5. AcceptsHeaderSent' BY <1>1, <2>2 DEF AcceptsHeaderSent, HeaderOver
  <2>6. IsPlain => Len(q.body) <= limit
    <3>1. CASE q.body = <<>> BY <1>1, <3>1
    <3>2. CASE Announced(msg) = {Len(q.body)}
      BY <1>12, <1>13, <3>2 DEF BodyState
    <3> QED BY <2>2, <3>1, <3>2
  <2>7. AnnouncedLimitIsRespected'
    BY <1>1, <2>6 DEF AnnouncedLimitIsRespected, IsPlain
  <2> QED BY <1>5, <1>7, <2>3, <2>4, <2>5, <2>7 DEF InputInv
<1>14. CASE /\ r.res # "ERROR" /\ ~MethodRefused(q) /\ ~SizeRefused(q)
            /\ ~(r.res = "OK" /\ q.state = "COMPLETE")
            /\ h' = [h EXCEPT !.pc = IF r.res = "AGAIN" THEN "recv" ELSE "parse",
                              !.resolved = @ \/ q.state \in BodyState]
  <2>1. q.state \notin {"COMPLETE", "ERROR"} BY <1>3, <1>14 DEF Turn
  <2>2. /\ h' \in Handler /\ h'.status = 0 /\ h'.pc \notin {"done", "ended"}
        /\ h'.resolved <=> (h.resolved \/ q.state \in BodyState)
    <3> DEFINE pc == IF r.res = "AGAIN" THEN "recv" ELSE "parse"
               resolved == h.resolved \/ q.state \in BodyState
    <3>1. pc \in Place /\ pc \notin {"done", "ended"} /\ resolved \in BOOLEAN
      BY DEF Place
    <3>2. h' = [h EXCEPT !.pc = pc, !.resolved = resolved] BY <1>14
    <3> HIDE DEF pc, resolved
    <3>3. /\ h' \in Handler /\ h'.pc = pc /\ h'.status = h.status
          /\ h'.resolved = resolved
      <4> DEFINE n == [h EXCEPT !.pc = pc, !.resolved = resolved]
      <4>1. [h EXCEPT !.pc = pc] \in Handler BY <1>1, <3>1, HandlerWith
      <4>2. n \in Handler BY <3>1, <4>1, HandlerWith
      <4>3. n.pc = pc /\ n.status = h.status /\ n.resolved = resolved BY <1>1 DEF Handler
      <4> QED BY <3>2, <4>2, <4>3
    <3> QED BY <1>2, <3>1, <3>3 DEF resolved
  <2>3. h'.resolved <=> q.state \in BodyState BY <1>2, <1>3, <1>14, <2>2 DEF Turn
  <2>4. h'.resolved => \A n \in Announced(msg) : n <= limit
    BY <1>12, <1>14, <2>3
  <2>5. HandlerIs' BY <1>1, <2>1, <2>2, <2>3, <2>4 DEF HandlerIs
  <2>6. (RefusesForAReason /\ AcceptsHeaderSent /\ AnnouncedLimitIsRespected)'
    BY <2>2 DEF RefusesForAReason, AcceptsHeaderSent, AnnouncedLimitIsRespected
  <2> QED BY <1>5, <1>7, <2>5, <2>6 DEF InputInv
<1> QED BY <1>4, <1>9, <1>10, <1>11, <1>13, <1>14

LEMMA StutterKeeps == InputInv /\ UNCHANGED vars => InputInv'
<1> SUFFICES ASSUME InputInv, UNCHANGED vars PROVE InputInv'
  OBVIOUS
<1>1. msg' = msg /\ limit' = limit /\ sent' = sent /\ p' = p /\ h' = h BY DEF vars
<1>2. ParserIs(p)' BY <1>1, ParserStays DEF InputInv
<1>3. HandlerIs' BY <1>1 DEF InputInv, HandlerIs
<1>4. RefusesForAReason'
  <2>1. ASSUME h.pc = "done"
        PROVE  /\ h.status = 405 => msg.line.method \notin AllowedMethods
               /\ h.status = 413 => \E n \in Announced(msg) : n > limit \/ n > TenMb
               /\ h.status = 415 => \E f \in Values(msg, "content-type") : f.type = "other"
               /\ h.status = 505 => msg.line.version = "other"
               /\ h.status = -1  => Unreadable
    BY <2>1 DEF InputInv, RefusesForAReason, Unreadable
  <2>2. Unreadable' = Unreadable BY <1>1 DEF Unreadable
  <2>3. ASSUME h'.pc = "done"
        PROVE  /\ h'.status = 405 => msg'.line.method \notin AllowedMethods
               /\ h'.status = 413 => \E n \in Announced(msg') : n > limit' \/ n > TenMb
               /\ h'.status = 415 => \E f \in Values(msg', "content-type") : f.type = "other"
               /\ h'.status = 505 => msg'.line.version = "other"
               /\ h'.status = -1  => Unreadable'
    BY <1>1, <2>1, <2>2, <2>3
  <2> QED BY <2>3 DEF RefusesForAReason, Unreadable
<1>5. AcceptsHeaderSent' BY <1>1 DEF InputInv, AcceptsHeaderSent
<1>6. AnnouncedLimitIsRespected' BY <1>1 DEF InputInv, AnnouncedLimitIsRespected
<1>7. msg' \in Messages /\ limit' \in Limits /\ sent' \in 0..Len(Wire(msg'))
  BY <1>1 DEF InputInv
<1> QED BY <1>2, <1>3, <1>4, <1>5, <1>6, <1>7 DEF InputInv

-----------------------------------------------------------------------------
(* The theorems.                                                           *)

\* However the bytes are segmented, the parser and handleRead are where the
\* invariant says: the header of a request that is accepted is the one that was
\* sent (AcceptsHeaderSent), no announced length goes past the limit
\* (AnnouncedLimitIsRespected), and a refusal has its reason (RefusesForAReason).
THEOREM Input == Spec => []InputInv
<1>1. InputInv /\ [Next]_vars => InputInv'
  BY RecvKeeps, RecvEndKeeps, ParseKeeps, StutterKeeps DEF Next
<1> QED BY <1>1, InputInit, PTL DEF Spec

\* Every variable is of its type: what is left of a body is never negative.
THEOREM ParserTyping == Spec => []TypeOK
<1>1. InputInv => TypeOK
  BY RequestParserAssumption DEF InputInv, TypeOK, ParserIs, HandlerIs
<1> QED BY <1>1, Input, PTL

\* The header of a request that is accepted is the one that was sent, and valid.
THEOREM HeaderAsSent == Spec => []AcceptsHeaderSent
<1>1. InputInv => AcceptsHeaderSent BY DEF InputInv
<1> QED BY <1>1, Input, PTL

\* No body longer than client_max_body_size gets through if its length is announced.
THEOREM LimitRespected == Spec => []AnnouncedLimitIsRespected
<1>1. InputInv => AnnouncedLimitIsRespected BY DEF InputInv
<1> QED BY <1>1, Input, PTL

\* A refusal names a fault the message has.
THEOREM RefusalsHaveReasons == Spec => []RefusesForAReason
<1>1. InputInv => RefusesForAReason BY DEF InputInv
<1> QED BY <1>1, Input, PTL

\* Header, body so far and buffer are what has been received.
THEOREM NothingIsLost == Spec => []InputIsKept
<1>1. ASSUME InputInv, p.state = "BODY_CONTENT_LENGTH"
      PROVE  /\ SubSeq(Wire(msg), 1, sent)
                  = SubSeq(Wire(msg), 1, Len(Wire(msg)) - Len(msg.tail)) \o p.body \o p.raw
             /\ Announced(msg) = {Len(p.body) + p.left}
  <2> DEFINE w == Wire(msg)
             a == HeadLen(msg)
             b == Len(p.body)
             k == a + b
  <2>1. /\ Received /\ p \in Parser /\ Announced(msg) = {b + p.left}
        /\ k \in 0..sent /\ p.raw = SubSeq(w, k + 1, sent) /\ p.body = SubSeq(w, a + 1, k)
    BY <1>1 DEF InputInv, Received, ParserIs, Buffered
  <2>2. /\ w \in Seq(Atom) /\ Len(w) = a + Len(msg.tail) /\ Len(w) \in Nat
        /\ Len(msg.tail) \in Nat /\ a \in Nat /\ sent \in 0..Len(w)
    <3>1. msg \in Message /\ Len(msg.headers) \in Nat BY <2>1, MessageIs
    <3>2. w \in Seq(Atom) /\ Len(w) = a + Len(msg.tail) /\ Len(msg.tail) \in Nat
      BY <3>1, WireAtoms
    <3>3. Len(w) \in Nat BY <3>2, LenProperties
    <3>4. a \in Nat BY <3>1 DEF HeadLen
    <3> QED BY <2>1, <3>2, <3>3, <3>4 DEF Received
  <2>3. b \in Nat /\ k \in Nat
    <3>1. p.body \in Seq(BodyByte) BY <2>1, ParserIsMadeOf
    <3>2. b \in Nat BY <3>1, LenProperties
    <3> QED BY <2>2, <3>2
  <2>4. a \in 0..k /\ k \in a..Len(w) /\ sent \in k..Len(w)
    <3> HIDE DEF w, a, b
    <3> QED BY <2>1, <2>2, <2>3
  <2>5. Len(w) - Len(msg.tail) = a BY <2>2
  <2> HIDE DEF w, a, b, k
  <2>6. 0 \in Nat /\ a \in 0..Len(w) /\ k \in 0..Len(w) BY <2>2, <2>4
  <2>7. SubSeq(w, 0 + 1, a) \o SubSeq(w, a + 1, k) = SubSeq(w, 0 + 1, k)
    BY <2>2, <2>4, <2>6, BufferGrows
  <2>8. SubSeq(w, 0 + 1, k) \o SubSeq(w, k + 1, sent) = SubSeq(w, 0 + 1, sent)
    BY <2>2, <2>4, <2>6, BufferGrows
  <2>9. 0 + 1 = 1 OBVIOUS
  <2> QED BY <2>1, <2>5, <2>7, <2>8, <2>9 DEF w, b
<1>2. InputInv => InputIsKept BY <1>1 DEF InputIsKept
<1> QED BY <1>2, Input, PTL

\* A turn of the loop that leads to another one takes something out of the buffer.
THEOREM TurnsConsume == Spec => []EveryTurnConsumes
<1>1. ASSUME InputInv, h.pc = "parse"
      PROVE  LET r == ParseNext(p) IN
             r.res = "OK" => r.p.state = "COMPLETE" \/ Len(r.p.raw) < Len(p.raw)
  <2>1. Received /\ ParserIs(p) /\ p.state \notin {"COMPLETE", "ERROR"}
    BY <1>1 DEF InputInv, Received, HandlerIs
  <2>2. Turn(p, ParseNext(p)) BY <2>1, ParseNextTurn
  <2> QED BY <2>2 DEF Turn
<1>2. InputInv => EveryTurnConsumes BY <1>1 DEF EveryTurnConsumes
<1> QED BY <1>2, Input, PTL

-----------------------------------------------------------------------------
(* What a tail stands for.                                                 *)

\* A function that is given at each place by its value at a later one.
GoesBack(V, N, ends, later, G, D) ==
  /\ D \in [0..N -> V]
  /\ D = [c \in 0..N |-> IF later[c] = c THEN ends[c] ELSE G[c][D[later[c]]]]

\* Such a function there is.
LEMMA BackwardExists ==
  ASSUME NEW V, NEW N \in Nat, NEW ends \in [0..N -> V], NEW later \in [0..N -> 0..N],
         NEW G \in [0..N -> [V -> V]], \A c \in 0..N : later[c] >= c
  PROVE  \E D : GoesBack(V, N, ends, later, G, D)
<1> DEFINE Is(D, c) == D[c] = IF later[c] = c THEN ends[c] ELSE G[c][D[later[c]]]
           From(k) == N - k..N
           Good == {k \in 0..N : \E D \in [From(k) -> V] : \A c \in From(k) : Is(D, c)}
<1>1. 0 \in Good
  <2> DEFINE D == [c \in From(0) |-> ends[c]]
  <2>1. \A c \in From(0) : c = N /\ N \in 0..N /\ later[N] = N OBVIOUS
  <2>2. D \in [From(0) -> V] BY <2>1
  <2>3. \A c \in From(0) : Is(D, c) BY <2>1
  <2>4. \E E \in [From(0) -> V] : \A c \in From(0) : Is(E, c) BY <2>2, <2>3
  <2>5. 0 \in 0..N OBVIOUS
  <2> HIDE DEF Is, From
  <2> QED BY <2>4, <2>5
<1>2. ASSUME NEW k \in 1..N, k - 1 \in Good PROVE k \in Good
  <2>1. PICK D \in [From(k - 1) -> V] : \A c \in From(k - 1) : Is(D, c) BY <1>2
  <2> DEFINE m == N - k
             E == [c \in From(k) |->
                     IF c # m THEN D[c] ELSE IF later[m] = m THEN ends[m] ELSE G[m][D[later[m]]]]
  <2>2. /\ m \in 0..N /\ m \in From(k) /\ m \notin From(k - 1)
        /\ \A c \in From(k) : c # m => c \in From(k - 1)
        /\ From(k - 1) \subseteq From(k) /\ From(k) \subseteq 0..N
        /\ \A c \in From(k) : later[c] # c => later[c] \in From(k - 1)
        /\ \A c \in From(k - 1) : later[c] \in From(k - 1)
    OBVIOUS
  <2> HIDE DEF m, From
  <2>3. E \in [From(k) -> V]
    <3> SUFFICES ASSUME NEW c \in From(k) PROVE E[c] \in V OBVIOUS
    <3>1. CASE c # m BY <2>2, <3>1
    <3>2. CASE c = m /\ later[m] = m BY <2>2, <3>2
    <3>3. CASE c = m /\ later[m] # m
      <4>1. D[later[m]] \in V /\ G[m] \in [V -> V] BY <2>2, <3>3
      <4> QED BY <2>2, <3>3, <4>1
    <3> QED BY <3>1, <3>2, <3>3
  <2>4. \A c \in From(k - 1) : E[c] = D[c] BY <2>2
  <2>5. ASSUME NEW c \in From(k) PROVE Is(E, c)
    <3>1. CASE c # m
      <4>1. c \in From(k - 1) /\ later[c] \in From(k - 1) BY <2>2, <3>1
      <4>2. Is(D, c) /\ E[c] = D[c] /\ E[later[c]] = D[later[c]] BY <2>1, <2>4, <4>1
      <4> QED BY <4>2
    <3>2. CASE c = m
      <4>1. E[c] = IF later[c] = c THEN ends[c] ELSE G[c][D[later[c]]] BY <3>2
      <4>2. later[c] # c => E[later[c]] = D[later[c]] BY <2>2, <2>4
      <4> QED BY <4>1, <4>2
    <3> QED BY <3>1, <3>2
  <2> HIDE DEF E, Is
  <2> QED BY <2>3, <2>5
<1>3. N \in Good
  <2>1. Good \in SUBSET (0..N) OBVIOUS
  <2> HIDE DEF Good
  <2>2. Good = 0..N BY <1>1, <1>2, <2>1, UpTo
  <2> QED BY <2>2
<1>4. PICK D \in [From(N) -> V] : \A c \in From(N) : Is(D, c) BY <1>3
<1>5. From(N) = 0..N OBVIOUS
<1>6. D \in [0..N -> V] /\ \A c \in 0..N : Is(D, c) BY <1>4, <1>5
<1>7. D = [c \in 0..N |-> D[c]] BY <1>6
<1>8. D = [c \in 0..N |-> IF later[c] = c THEN ends[c] ELSE G[c][D[later[c]]]]
  BY <1>6, <1>7
<1> QED BY <1>6, <1>8 DEF GoesBack

\* A chunk is of its type, and comes before the next one.
LEMMA ChunkIs ==
  ASSUME NEW tail \in Seq(BodyByte), NEW c \in 0..Len(tail)
  PROVE  LET chunk == ChunkAt(tail, c) IN
         /\ chunk.data \in Seq(BodyByte) /\ chunk.ends \in SUBSET Seq(BodyByte)
         /\ chunk.next \in 0..Len(tail) /\ chunk.next >= c
<1> DEFINE N == Len(tail)
           rest == SubSeq(tail, c + 1, N)
           size == Number(FirstLine(rest))
           after == AfterFirstLine(rest)
           a == c + Len(rest) - Len(after)
           End(what) == [data |-> <<>>, next |-> c, ends |-> what]
           Before(d, place) == [data |-> d, next |-> place, ends |-> {}]
           chunk == ChunkAt(tail, c)
           Fine(x) == /\ x.data \in Seq(BodyByte) /\ x.ends \in SUBSET Seq(BodyByte)
                      /\ x.next \in 0..N /\ x.next >= c
<1>1. N \in Nat BY LenProperties
<1>2. rest \in Seq(BodyByte) /\ Len(rest) = N - c
  <2>1. c \in Nat /\ N \in c..Len(tail) BY <1>1
  <2> QED BY <2>1, PieceIs
<1>3. chunk = IF ~HasEndOfLine(rest) \/ size = -1 THEN End({})
              ELSE IF size \in Nat \ {0}
                THEN IF a + size + 2 > N THEN End({})
                     ELSE Before(SubSeq(tail, a + 1, a + size), a + size + 2)
              ELSE IF IsPrefix(CRLF, after) THEN End({<<>>})
              ELSE Before(<<>>, a)
  BY DEF ChunkAt
<1> HIDE DEF rest, size, chunk
<1>4. <<>> \in Seq(BodyByte) OBVIOUS
<1>5. Fine(End({})) /\ Fine(End({<<>>})) BY <1>1, <1>4
<1>6. ASSUME HasEndOfLine(rest) PROVE a \in c..N
  <2>1. after \in Seq(BodyByte) /\ Len(after) < Len(rest) BY <1>2, <1>6, FirstLineIs
  <2>2. Len(after) \in Nat BY <2>1, LenProperties
  <2> HIDE DEF after
  <2> QED BY <1>1, <1>2, <2>1, <2>2
<1> HIDE DEF a, after
<1>7. CASE ~HasEndOfLine(rest) \/ size = -1
  <2>1. chunk = End({}) BY <1>3, <1>7
  <2> QED BY <1>5, <2>1 DEF chunk
<1>8. CASE HasEndOfLine(rest) /\ size # -1 /\ size \in Nat \ {0} /\ a + size + 2 > N
  <2>1. chunk = End({}) BY <1>3, <1>8
  <2> QED BY <1>5, <2>1 DEF chunk
<1>9. CASE HasEndOfLine(rest) /\ size # -1 /\ size \in Nat \ {0} /\ ~(a + size + 2 > N)
  <2> DEFINE d == SubSeq(tail, a + 1, a + size)
  <2>1. a \in Nat /\ a + size \in a..Len(tail) /\ a + size + 2 \in 0..N /\ a + size + 2 >= c
    BY <1>1, <1>6, <1>9
  <2>2. d \in Seq(BodyByte) BY <2>1, PieceIs
  <2> HIDE DEF d
  <2>3. Fine(Before(d, a + size + 2)) BY <2>1, <2>2
  <2>4. chunk = Before(d, a + size + 2) BY <1>3, <1>9 DEF d
  <2> HIDE DEF Before
  <2> QED BY <2>3, <2>4 DEF chunk
<1>10. CASE HasEndOfLine(rest) /\ size # -1 /\ size \notin Nat \ {0} /\ IsPrefix(CRLF, after)
  <2>1. chunk = End({<<>>}) BY <1>3, <1>10
  <2> QED BY <1>5, <2>1 DEF chunk
<1>11. CASE HasEndOfLine(rest) /\ size # -1 /\ size \notin Nat \ {0} /\ ~IsPrefix(CRLF, after)
  <2>1. Fine(Before(<<>>, a)) BY <1>1, <1>4, <1>6, <1>11
  <2>2. chunk = Before(<<>>, a) BY <1>3, <1>11
  <2> HIDE DEF Before
  <2> QED BY <2>1, <2>2 DEF chunk
<1> QED BY <1>7, <1>8, <1>9, <1>10, <1>11 DEF chunk

\* What the chunks from a place on amount to.
LEMMA DecodingIs ==
  ASSUME NEW tail \in Seq(BodyByte), NEW c \in 0..Len(tail)
  PROVE  LET chunk == ChunkAt(tail, c) IN
         /\ Decoding(tail)[c] = IF chunk.next = c THEN chunk.ends
                                ELSE {chunk.data \o d : d \in Decoding(tail)[chunk.next]}
         /\ Decoding(tail)[c] \in SUBSET Seq(BodyByte)
<1> DEFINE N == Len(tail)
           V == SUBSET Seq(BodyByte)
           ends == [i \in 0..N |-> ChunkAt(tail, i).ends]
           later == [i \in 0..N |-> ChunkAt(tail, i).next]
           G == [i \in 0..N |-> [v \in V |-> {ChunkAt(tail, i).data \o d : d \in v}]]
           Is(D) == D = [i \in 0..N |-> LET chunk == ChunkAt(tail, i) IN
                           IF chunk.next = i THEN chunk.ends
                           ELSE {chunk.data \o d : d \in D[chunk.next]}]
<1>1. N \in Nat BY LenProperties
<1>2. /\ ends \in [0..N -> V] /\ later \in [0..N -> 0..N]
      /\ \A i \in 0..N : later[i] >= i
  BY ChunkIs
<1>3. G \in [0..N -> [V -> V]]
  <2> SUFFICES ASSUME NEW i \in 0..N, NEW v \in V
               PROVE  {ChunkAt(tail, i).data \o d : d \in v} \in V
    OBVIOUS
  <2>1. ChunkAt(tail, i).data \in Seq(BodyByte) BY ChunkIs
  <2> QED BY <2>1, ConcatProperties
<1>4. PICK E : GoesBack(V, N, ends, later, G, E)
  <2> HIDE DEF N, V, ends, later, G
  <2>1. \A i \in 0..N : later[i] >= i BY <1>2
  <2>2. ends \in [0..N -> V] /\ later \in [0..N -> 0..N] BY <1>2
  <2> QED BY <1>1, <1>3, <2>1, <2>2, BackwardExists
<1>5. \A i \in 0..N, v \in V : G[i][v] = {ChunkAt(tail, i).data \o d : d \in v} OBVIOUS
<1>6. Is(E)
  <2>0. /\ E \in [0..N -> V]
        /\ E = [i \in 0..N |-> IF later[i] = i THEN ends[i] ELSE G[i][E[later[i]]]]
    <3> HIDE DEF N, V, ends, later, G
    <3> QED BY <1>4 DEF GoesBack
  <2>1. E = [i \in 0..N |-> E[i]] BY <2>0
  <2>2. ASSUME NEW i \in 0..N
        PROVE  E[i] = LET chunk == ChunkAt(tail, i) IN
                      IF chunk.next = i THEN chunk.ends
                      ELSE {chunk.data \o d : d \in E[chunk.next]}
    <3>1. E[i] = IF later[i] = i THEN ends[i] ELSE G[i][E[later[i]]]
      <4> HIDE DEF N, V, ends, later, G
      <4> QED BY <2>0
    <3>2. later[i] = ChunkAt(tail, i).next /\ ends[i] = ChunkAt(tail, i).ends OBVIOUS
    <3>3. E[later[i]] \in V BY <1>2, <2>0
    <3>4. G[i][E[later[i]]] = {ChunkAt(tail, i).data \o d : d \in E[later[i]]}
      <4> HIDE DEF V, G
      <4> QED BY <1>5, <3>3
    <3> HIDE DEF ends, later, G
    <3> QED BY <3>1, <3>2, <3>4
  <2> QED BY <2>1, <2>2, Zenon
<1>7. Is(Decoding(tail))
  <2>1. Decoding(tail) = CHOOSE D : Is(D) BY DEF Decoding
  <2> HIDE DEF Is
  <2> QED BY <1>6, <2>1
<1>8. \A i \in 0..N : Decoding(tail)[i] = LET chunk == ChunkAt(tail, i) IN
                      IF chunk.next = i THEN chunk.ends
                      ELSE {chunk.data \o d : d \in Decoding(tail)[chunk.next]}
  BY <1>7, Zenon
<1> DEFINE Good == {k \in 0..N : \A i \in N - k..N : Decoding(tail)[i] \in V}
<1>9. ASSUME NEW i \in 0..N, \A j \in i + 1..N : Decoding(tail)[j] \in V
      PROVE  Decoding(tail)[i] \in V
  <2> DEFINE chunk == ChunkAt(tail, i)
  <2>1. /\ chunk.data \in Seq(BodyByte) /\ chunk.ends \in SUBSET Seq(BodyByte)
        /\ chunk.next \in 0..N /\ chunk.next >= i
    BY ChunkIs
  <2>2. Decoding(tail)[i] = IF chunk.next = i THEN chunk.ends
                            ELSE {chunk.data \o d : d \in Decoding(tail)[chunk.next]}
    BY <1>8
  <2> HIDE DEF chunk, N
  <2>3. CASE chunk.next = i BY <2>1, <2>2, <2>3
  <2>4. CASE chunk.next # i
    <3>1. chunk.next \in i + 1..N BY <1>1, <2>1, <2>4
    <3>2. Decoding(tail)[chunk.next] \in V BY <1>9, <3>1
    <3>3. \A d \in Decoding(tail)[chunk.next] : chunk.data \o d \in Seq(BodyByte)
      BY <2>1, <3>2, ConcatProperties
    <3>4. {chunk.data \o d : d \in Decoding(tail)[chunk.next]} \in V BY <3>3
    <3> HIDE DEF V
    <3> QED BY <2>2, <2>4, <3>4
  <2> QED BY <2>3, <2>4
<1>10. N \in Good
  <2>1. 0 \in Good
    <3>1. \A i \in N - 0..N : i = N /\ N \in 0..N /\ N + 1..N = {} BY <1>1
    <3> HIDE DEF N, V
    <3>2. N \in 0..N /\ \A j \in N + 1..N : Decoding(tail)[j] \in V BY <1>1
    <3>3. Decoding(tail)[N] \in V BY <1>9, <3>2
    <3>4. 0 \in 0..N BY <1>1
    <3> QED BY <3>1, <3>3, <3>4
  <2>2. ASSUME NEW k \in 1..N, k - 1 \in Good PROVE k \in Good
    <3> HIDE DEF N, V
    <3> DEFINE m == N - k
    <3>1. m \in 0..N /\ k \in 0..N BY <1>1
    <3>2. \A j \in m + 1..N : j \in N - (k - 1)..N BY <1>1
    <3>3. \A j \in m + 1..N : Decoding(tail)[j] \in V BY <2>2, <3>2
    <3> HIDE DEF m
    <3>4. Decoding(tail)[m] \in V BY <1>9, <3>1, <3>3
    <3>5. \A j \in m..N : j = m \/ j \in m + 1..N BY <1>1, <3>1
    <3>6. \A j \in m..N : Decoding(tail)[j] \in V BY <3>3, <3>4, <3>5
    <3> QED BY <3>1, <3>6 DEF m
  <2>3. Good \in SUBSET (0..N) OBVIOUS
  <2> HIDE DEF Good, N, V
  <2>4. Good = 0..N BY <1>1, <2>1, <2>2, <2>3, UpTo
  <2> QED BY <1>1, <2>4
<1>11. Decoding(tail)[c] \in V
  <2>1. c \in N - N..N BY <1>1
  <2> HIDE DEF V, N
  <2> QED BY <1>10, <2>1
<1> QED BY <1>8, <1>11

-----------------------------------------------------------------------------
(* Lines of a piece.                                                       *)

\* The first line of a piece, and what is after it.
LEMMA LineOfPiece ==
  ASSUME NEW S, NEW w \in Seq(S), NEW k \in Nat, NEW n \in k..Len(w),
         HasEndOfLine(SubSeq(w, k + 1, n))
  PROVE  LET s == SubSeq(w, k + 1, n)
             e == Min(LineEnds(s))
         IN  /\ e \in 1..n - k - 1 /\ w[k + e] = CR /\ w[k + e + 1] = LF
             /\ \A i \in 1..e - 1 : ~(w[k + i] = CR /\ w[k + i + 1] = LF)
             /\ FirstLine(s) = SubSeq(w, k + 1, k + e - 1)
             /\ AfterFirstLine(s) = SubSeq(w, k + e + 2, n)
<1> DEFINE s == SubSeq(w, k + 1, n)
           e == Min(LineEnds(s))
<1>1. s \in Seq(S) /\ Len(s) = n - k /\ \A i \in 1..n - k : s[i] = w[k + i] BY PieceIs
<1>2. Len(w) \in Nat /\ n \in Nat BY LenProperties
<1> HIDE DEF s
<1>3. LineEnds(s) = {i \in 1..n - k - 1 : s[i] = CR /\ s[i + 1] = LF} BY <1>1 DEF LineEnds
<1>4. e \in LineEnds(s) /\ \A i \in LineEnds(s) : e <= i
  <2>1. LineEnds(s) \subseteq Nat /\ LineEnds(s) # {} BY <1>2, <1>3 DEF HasEndOfLine, s
  <2> QED BY <2>1, MinIsSmallest
<1> HIDE DEF e
<1>5. e \in 1..n - k - 1 /\ s[e] = CR /\ s[e + 1] = LF BY <1>3, <1>4
<1>6. \A i \in 1..e - 1 : ~(s[i] = CR /\ s[i + 1] = LF)
  <2> SUFFICES ASSUME NEW i \in 1..e - 1 PROVE ~(s[i] = CR /\ s[i + 1] = LF) OBVIOUS
  <2>1. i \in 1..n - k - 1 /\ ~(e <= i) BY <1>2, <1>5
  <2> QED BY <1>3, <1>4, <2>1
<1>7. \A i \in 1..e : s[i] = w[k + i] /\ s[i + 1] = w[k + i + 1]
  <2> SUFFICES ASSUME NEW i \in 1..e PROVE s[i] = w[k + i] /\ s[i + 1] = w[k + i + 1]
    OBVIOUS
  <2>1. i \in 1..n - k /\ i + 1 \in 1..n - k /\ k + (i + 1) = k + i + 1 BY <1>2, <1>5
  <2>2. s[i + 1] = w[k + (i + 1)] BY <1>1, <2>1
  <2> QED BY <1>1, <2>1, <2>2
<1>8. FirstLine(s) = SubSeq(w, k + 1, k + e - 1)
  <2> DEFINE d == e - 1
  <2>1. d \in 0..n - k /\ k + d = k + e - 1 BY <1>2, <1>5
  <2> HIDE DEF d
  <2>2. SubSeq(s, 1, d) = SubSeq(w, k + 1, k + d) BY <2>1, DropIs DEF s
  <2> QED BY <2>1, <2>2 DEF FirstLine, e, d
<1>9. AfterFirstLine(s) = SubSeq(w, k + e + 2, n)
  <2> DEFINE d == e + 1
  <2>1. d \in 0..n - k /\ k + d + 1 = k + e + 2 /\ d + 1 = e + 2 BY <1>2, <1>5
  <2> HIDE DEF d
  <2>2. SubSeq(s, d + 1, Len(s)) = SubSeq(w, k + d + 1, n) BY <2>1, DropIs DEF s
  <2> QED BY <2>1, <2>2 DEF AfterFirstLine, e
<1>10. \A i \in 1..e - 1 : ~(w[k + i] = CR /\ w[k + i + 1] = LF)
  <2>1. \A i \in 1..e - 1 : i \in 1..e BY <1>5
  <2> QED BY <1>6, <1>7, <2>1
<1>11. w[k + e] = CR /\ w[k + e + 1] = LF
  <2>1. e \in 1..e BY <1>5
  <2> QED BY <1>5, <1>7, <2>1
<1> QED BY <1>5, <1>8, <1>9, <1>10, <1>11 DEF s, e

\* A piece that has two bytes at its beginning and its end has a line.
LEMMA LineIsThere ==
  ASSUME NEW S, NEW w \in Seq(S), NEW k \in Nat, NEW n \in k..Len(w),
         NEW e \in 1..n - k - 1, w[k + e] = CR, w[k + e + 1] = LF
  PROVE  HasEndOfLine(SubSeq(w, k + 1, n))
<1> DEFINE s == SubSeq(w, k + 1, n)
<1>1. s \in Seq(S) /\ Len(s) = n - k /\ \A i \in 1..n - k : s[i] = w[k + i] BY PieceIs
<1>2. Len(w) \in Nat /\ n \in Nat BY LenProperties
<1> HIDE DEF s
<1>3. e \in 1..n - k /\ e + 1 \in 1..n - k /\ k + (e + 1) = k + e + 1 BY <1>2
<1>4. s[e] = CR /\ s[e + 1] = LF BY <1>1, <1>3
<1>5. e \in LineEnds(s) BY <1>1, <1>4 DEF LineEnds
<1> QED BY <1>5 DEF HasEndOfLine, s

\* A longer piece has the same first line, as soon as the shorter one has it.
LEMMA SameFirstLine ==
  ASSUME NEW S, NEW w \in Seq(S), NEW k \in Nat, NEW n \in k..Len(w),
         NEW N \in n..Len(w), HasEndOfLine(SubSeq(w, k + 1, n))
  PROVE  LET s == SubSeq(w, k + 1, n)
             t == SubSeq(w, k + 1, N)
             a == k + Len(t) - Len(AfterFirstLine(t))
         IN  /\ HasEndOfLine(t) /\ FirstLine(t) = FirstLine(s) /\ a \in k + 2..n
             /\ AfterFirstLine(s) = SubSeq(w, a + 1, n)
             /\ AfterFirstLine(t) = SubSeq(w, a + 1, N)
<1> DEFINE s == SubSeq(w, k + 1, n)
           t == SubSeq(w, k + 1, N)
           e == Min(LineEnds(s))
           g == Min(LineEnds(t))
<1>1. Len(w) \in Nat /\ n \in Nat /\ N \in Nat /\ N \in k..Len(w) /\ n <= N
  BY LenProperties
<1>2. /\ e \in 1..n - k - 1 /\ w[k + e] = CR /\ w[k + e + 1] = LF
      /\ \A i \in 1..e - 1 : ~(w[k + i] = CR /\ w[k + i + 1] = LF)
      /\ FirstLine(s) = SubSeq(w, k + 1, k + e - 1)
      /\ AfterFirstLine(s) = SubSeq(w, k + e + 2, n)
  BY LineOfPiece
<1>3. HasEndOfLine(t)
  <2> HIDE DEF e
  <2>1. e \in 1..N - k - 1 BY <1>1, <1>2
  <2> QED BY <1>1, <1>2, <2>1, LineIsThere
<1>4. /\ g \in 1..N - k - 1 /\ w[k + g] = CR /\ w[k + g + 1] = LF
      /\ \A i \in 1..g - 1 : ~(w[k + i] = CR /\ w[k + i + 1] = LF)
      /\ FirstLine(t) = SubSeq(w, k + 1, k + g - 1)
      /\ AfterFirstLine(t) = SubSeq(w, k + g + 2, N)
  <2>1. N \in k..Len(w) BY <1>1
  <2>2. HasEndOfLine(SubSeq(w, k + 1, N)) BY <1>3
  <2> HIDE DEF e
  <2> QED BY ONLY <2>1, <2>2, LineOfPiece, k \in Nat, w \in Seq(S)
<1> HIDE DEF e, g
<1>5. g = e
  <2>1. g \in Int /\ e \in Int /\ g >= 1 /\ e >= 1 BY <1>2, <1>4
  <2>2. ~(e < g)
    <3>1. ASSUME e < g PROVE e \in 1..g - 1 BY <2>1, <3>1
    <3> QED BY <1>2, <1>4, <3>1
  <2>3. ~(g < e)
    <3>1. ASSUME g < e PROVE g \in 1..e - 1 BY <2>1, <3>1
    <3> QED BY <1>2, <1>4, <3>1
  <2> QED BY <2>1, <2>2, <2>3
<1> DEFINE a == k + e + 1
<1>6. a \in k + 2..n /\ a \in Nat /\ a + 1 = k + e + 2 BY <1>1, <1>2
<1>7. k + Len(t) - Len(AfterFirstLine(t)) = a
  <2> HIDE DEF a
  <2>1. Len(t) = N - k BY <1>1, PieceIs
  <2>2. N \in a..Len(w) BY <1>1, <1>6
  <2>3. Len(SubSeq(w, a + 1, N)) = N - a BY <1>6, <2>2, PieceIs
  <2>4. AfterFirstLine(t) = SubSeq(w, a + 1, N) BY <1>4, <1>5, <1>6
  <2> HIDE DEF t
  <2>5. k + (N - k) - (N - a) = a BY <1>1, <1>6
  <2> QED BY <2>1, <2>3, <2>4, <2>5
<1>8. FirstLine(t) = FirstLine(s) BY <1>2, <1>4, <1>5
<1>9. /\ AfterFirstLine(s) = SubSeq(w, a + 1, n)
      /\ AfterFirstLine(t) = SubSeq(w, a + 1, N)
  BY <1>2, <1>4, <1>5, <1>6
<1> HIDE DEF a, s, t
<1> QED BY <1>3, <1>6, <1>7, <1>8, <1>9 DEF s, t

\* Two bytes at the beginning of a piece.
LEMMA BeginsWithLineEnd ==
  ASSUME NEW S, NEW w \in Seq(S), CR \in S, LF \in S, NEW k \in Nat, NEW n \in k..Len(w)
  PROVE  IsPrefix(CRLF, SubSeq(w, k + 1, n))
           <=> k + 2 <= n /\ w[k + 1] = CR /\ w[k + 2] = LF
<1> DEFINE s == SubSeq(w, k + 1, n)
<1>1. s \in Seq(S) /\ Len(s) = n - k /\ \A i \in 1..n - k : s[i] = w[k + i] BY PieceIs
<1>2. Len(w) \in Nat /\ n \in Nat BY LenProperties
<1> HIDE DEF s
<1>3. CRLF \in Seq(S) /\ Len(CRLF) = 2 /\ CRLF[1] = CR /\ CRLF[2] = LF BY DEF CRLF
<1>4. IsPrefix(CRLF, s) <=> 2 <= n - k /\ \A i \in 1..2 : CRLF[i] = s[i]
  <2>1. IsPrefix(CRLF, s) <=> Len(CRLF) <= Len(s) /\ \A i \in 1..Len(CRLF) : CRLF[i] = s[i]
    <3>1. s \in Seq(S) /\ CRLF \in Seq(S) BY <1>1, <1>3
    <3> QED BY ONLY <3>1, PrefixIs
  <2> QED BY <1>1, <1>3, <2>1
<1>5. 1..2 = {1, 2} OBVIOUS
<1>6. ASSUME 2 <= n - k PROVE s[1] = w[k + 1] /\ s[2] = w[k + 2]
  <2>1. 1 \in 1..n - k /\ 2 \in 1..n - k BY <1>2, <1>6
  <2> QED BY <1>1, <2>1
<1>7. 2 <= n - k <=> k + 2 <= n BY <1>2
<1> QED BY <1>3, <1>4, <1>5, <1>6, <1>7 DEF s

-----------------------------------------------------------------------------
(* The body.                                                               *)

\* How many bytes after the header have come.
Got == sent - HeadLen(msg)

\* body and what is decoded from the place c of the tail on make all of it.
Stands(body, c) ==
  Decoding(msg.tail)[0] = {body \o d : d \in Decoding(msg.tail)[c]}

\* The empty line after the last chunk, which the parser has come to too early.
EndAt(c) == c + 2 <= Len(msg.tail) /\ msg.tail[c + 1] = CR /\ msg.tail[c + 2] = LF

\* Where the parser is in the chunks: before a size line, or before the data.
ChunksAre(q) ==
  \E c \in 0..Got :
    /\ q.raw = SubSeq(msg.tail, c + 1, Got)
    /\ q.waiting => EndAt(c) \/ Stands(q.body, c)
    /\ ~q.waiting =>
         /\ q.size \in Nat \ {0}
         /\ IF c + q.size + 2 > Len(msg.tail) THEN Decoding(msg.tail)[0] = {}
            ELSE Stands(q.body \o SubSeq(msg.tail, c + 1, c + q.size), c + q.size + 2)

\* A body is only read of a request that may have one.
BodyMayCome == msg.line.method \in {"GET", "DELETE"} => IsPlain /\ Announced(msg) = {}

\* What the parser has of the body.
BodyIs(q) ==
  /\ msg.coded => IsPrefix(q.body, msg.data)
  /\ q.state \in {"REQUEST_LINE", "HEADERS"} => q.waiting
  /\ q.state \in BodyState => BodyMayCome
  /\ q.state = "BODY_CHUNKED" => ChunksAre(q)
  /\ q.state = "BODY_CONTENT_LENGTH" => q.left > 0
  /\ q.state = "BODY_NONE" => ~HasBody(msg)
  /\ q.state = "COMPLETE" =>
       BodyIsValid(msg) /\ q.body = IF HasBody(msg) THEN msg.data ELSE <<>>

\* The tail of a message.
LEMMA TailIs ==
  ASSUME Received
  PROVE  /\ msg.tail \in Seq(BodyByte) /\ Len(msg.tail) \in Nat
         /\ msg.data \in Seq(BodyByte) /\ msg.coded \in BOOLEAN
         /\ Got <= Len(msg.tail) /\ HeadLen(msg) \in Nat /\ Got \in Int
         /\ \A c \in Nat : \A n \in c..Len(msg.tail) :
              SubSeq(Wire(msg), HeadLen(msg) + c + 1, HeadLen(msg) + n) = SubSeq(msg.tail, c + 1, n)
<1> DEFINE w == Wire(msg)
           t == msg.tail
           a == HeadLen(msg)
<1>1. /\ msg \in Message /\ t \in Seq(BodyByte) /\ Len(t) \in Nat
      /\ msg.data \in Seq(BodyByte) /\ msg.coded \in BOOLEAN
  BY MessageIs, LenProperties DEF Message
<1>2. a \in Nat BY MessageIs DEF HeadLen
<1>3. /\ w \in Seq(Atom) /\ Len(w) = a + Len(t)
      /\ \A i \in 1..Len(t) : w[a + i] = t[i]
  BY <1>1, WireAtoms
<1>4. sent \in 0..Len(w) BY DEF Received
<1> HIDE DEF w, t, a
<1>5. ASSUME NEW c \in Nat, NEW n \in c..Len(t)
      PROVE  SubSeq(w, a + c + 1, a + n) = SubSeq(t, c + 1, n)
  <2> DEFINE b == a + c
             m == a + n
             x == SubSeq(w, b + 1, m)
             y == SubSeq(t, c + 1, n)
  <2>1. b \in Nat /\ m \in b..Len(w) /\ m - b = n - c
    BY <1>1, <1>2, <1>3
  <2> HIDE DEF b, m
  <2>2. x \in Seq(Atom) /\ Len(x) = n - c /\ \A i \in 1..n - c : x[i] = w[b + i]
    BY <1>3, <2>1, PieceIs
  <2>3. y \in Seq(BodyByte) /\ Len(y) = n - c /\ \A i \in 1..n - c : y[i] = t[c + i]
    BY <1>1, PieceIs
  <2> HIDE DEF x, y
  <2>4. \A i \in 1..n - c : x[i] = y[i]
    <3> SUFFICES ASSUME NEW i \in 1..n - c PROVE x[i] = y[i] OBVIOUS
    <3>1. c + i \in 1..Len(t) /\ a + (c + i) = b + i BY <1>1, <1>2 DEF b
    <3> QED BY <1>3, <2>2, <2>3, <3>1
  <2>5. y \in Seq(Atom) BY <2>3, SeqMonotonic DEF Atom
  <2>6. x = y BY <2>2, <2>3, <2>4, <2>5, SeqEqual
  <2> QED BY <2>6 DEF x, y, b, m
<1>6. Got <= Len(t) /\ Got \in Int BY <1>1, <1>2, <1>3, <1>4 DEF Got, a
<1> QED BY <1>1, <1>2, <1>5, <1>6 DEF w, t, a

\* A line of nothing has no number.
LEMMA NoNumber == Number(<<>>) = -1
<1>1. {i \in 1..Len(<<>>) : <<>>[i] \notin {Byte(" "), CR, LF}} = {} OBVIOUS
<1> QED BY <1>1 DEF Number

\* A parser that refuses has the same body.
LEMMA FailKeepsBody ==
  ASSUME NEW q \in Parser, NEW code, msg.coded => IsPrefix(q.body, msg.data)
  PROVE  BodyIs(Fail(q, code).p)
<1> DEFINE t == [q EXCEPT !.state = "ERROR", !.error = code]
<1>1. t.state = "ERROR" /\ t.body = q.body BY DEF Parser
<1>2. Fail(q, code).p = t BY DEF Fail, Result
<1> HIDE DEF t
<1> QED BY <1>1, <1>2 DEF BodyIs, BodyState

\* The chunk at a place that is not the empty line at the end.
LEMMA SameChunk ==
  ASSUME Received, NEW c \in 0..Got, HasEndOfLine(SubSeq(msg.tail, c + 1, Got))
  PROVE  LET s    == SubSeq(msg.tail, c + 1, Got)
             size == Number(FirstLine(s))
         IN  /\ EndAt(c) => size = -1
             /\ \E a \in c + 1..Got :
                  /\ AfterFirstLine(s) = SubSeq(msg.tail, a + 1, Got)
                  /\ size # -1 /\ size \in Nat \ {0} =>
                       ChunkAt(msg.tail, c) =
                         IF a + size + 2 > Len(msg.tail)
                           THEN [data |-> <<>>, next |-> c, ends |-> {}]
                           ELSE [data |-> SubSeq(msg.tail, a + 1, a + size),
                                 next |-> a + size + 2, ends |-> {}]
                  /\ size # -1 /\ size \notin Nat \ {0} =>
                       ChunkAt(msg.tail, c) =
                         IF EndAt(a) THEN [data |-> <<>>, next |-> c, ends |-> {<<>>}]
                         ELSE [data |-> <<>>, next |-> a, ends |-> {}]
<1> DEFINE t == msg.tail
           N == Len(t)
           s == SubSeq(t, c + 1, Got)
           rest == SubSeq(t, c + 1, N)
           size == Number(FirstLine(s))
<1>1. /\ t \in Seq(BodyByte) /\ N \in Nat /\ Got \in c..N /\ N \in Got..Len(t) /\ c \in Nat
      /\ Got \in Nat
  BY TailIs
<1>2. HasEndOfLine(s) BY DEF s
<1> HIDE DEF t
<1> DEFINE a == c + Len(rest) - Len(AfterFirstLine(rest))
<1>3. /\ HasEndOfLine(rest) /\ FirstLine(rest) = FirstLine(s) /\ a \in c + 2..Got
      /\ AfterFirstLine(s) = SubSeq(t, a + 1, Got)
      /\ AfterFirstLine(rest) = SubSeq(t, a + 1, N)
  <2>1. HasEndOfLine(SubSeq(t, c + 1, Got)) BY <1>2
  <2>2. Got \in c..Len(t) BY <1>1
  <2> HIDE DEF N
  <2> QED BY <1>1, <2>1, <2>2, SameFirstLine
<1>4. ASSUME EndAt(c) PROVE size = -1
  <2>1. t[c + 1] = CR /\ t[c + 2] = LF BY <1>4 DEF EndAt, t
  <2>2. FirstLine(s) = <<>> BY <1>1, <1>2, <2>1, NextEmpty
  <2> QED BY <2>2, NoNumber
<1>5. a = c + Len(rest) - Len(AfterFirstLine(rest)) OBVIOUS
<1> HIDE DEF a
<1>6. a \in c + 1..Got /\ a \in Nat /\ N \in a..Len(t) BY <1>1, <1>3
<1>7. IsPrefix(CRLF, SubSeq(t, a + 1, N)) <=> EndAt(a)
  <2>1. IsPrefix(CRLF, SubSeq(t, a + 1, N)) <=> a + 2 <= N /\ t[a + 1] = CR /\ t[a + 2] = LF
    BY <1>1, <1>6, LineEndBytes, BeginsWithLineEnd
  <2> QED BY <2>1 DEF EndAt, t
<1>8. ChunkAt(t, c) =
        IF size = -1 THEN [data |-> <<>>, next |-> c, ends |-> {}]
        ELSE IF size \in Nat \ {0}
          THEN IF a + size + 2 > N THEN [data |-> <<>>, next |-> c, ends |-> {}]
               ELSE [data |-> SubSeq(t, a + 1, a + size), next |-> a + size + 2, ends |-> {}]
        ELSE IF IsPrefix(CRLF, SubSeq(t, a + 1, N))
          THEN [data |-> <<>>, next |-> c, ends |-> {<<>>}]
        ELSE [data |-> <<>>, next |-> a, ends |-> {}]
  <2> DEFINE n == Number(FirstLine(rest))
             after == AfterFirstLine(rest)
             b == c + Len(rest) - Len(after)
  <2>1. n = size /\ after = SubSeq(t, a + 1, N) /\ b = a BY <1>3, <1>5
  <2>2. ChunkAt(t, c) =
          IF ~HasEndOfLine(rest) \/ n = -1 THEN [data |-> <<>>, next |-> c, ends |-> {}]
          ELSE IF n \in Nat \ {0}
            THEN IF b + n + 2 > N THEN [data |-> <<>>, next |-> c, ends |-> {}]
                 ELSE [data |-> SubSeq(t, b + 1, b + n), next |-> b + n + 2, ends |-> {}]
          ELSE IF IsPrefix(CRLF, after)
            THEN [data |-> <<>>, next |-> c, ends |-> {<<>>}]
          ELSE [data |-> <<>>, next |-> b, ends |-> {}]
    BY DEF ChunkAt
  <2>3. HasEndOfLine(rest) BY <1>3
  <2> HIDE DEF n, after, b, size, rest
  <2> QED BY <2>1, <2>2, <2>3
<1> HIDE DEF size
<1>9. /\ size # -1 /\ size \in Nat \ {0} =>
           ChunkAt(t, c) = IF a + size + 2 > N THEN [data |-> <<>>, next |-> c, ends |-> {}]
                           ELSE [data |-> SubSeq(t, a + 1, a + size), next |-> a + size + 2,
                                 ends |-> {}]
      /\ size # -1 /\ size \notin Nat \ {0} =>
           ChunkAt(t, c) = IF EndAt(a) THEN [data |-> <<>>, next |-> c, ends |-> {<<>>}]
                           ELSE [data |-> <<>>, next |-> a, ends |-> {}]
  BY <1>7, <1>8
<1> QED BY <1>3, <1>4, <1>6, <1>9 DEF t, size

\* What makes a parser that is at a place in the chunks.
LEMMA AtChunk ==
  ASSUME NEW q, q.state = "BODY_CHUNKED", BodyMayCome,
         msg.coded => IsPrefix(q.body, msg.data), ChunksAre(q)
  PROVE  BodyIs(q)
BY DEF BodyIs, BodyState

\* Before a chunk and after it the same is to be decoded.
LEMMA OneChunkOn ==
  ASSUME Received, NEW c \in 0..Len(msg.tail), NEW body \in Seq(BodyByte), Stands(body, c)
  PROVE  LET chunk == ChunkAt(msg.tail, c) IN
         /\ chunk.next # c => Stands(body \o chunk.data, chunk.next)
         /\ chunk.next = c /\ chunk.ends = {} => Decoding(msg.tail)[0] = {}
         /\ chunk.next = c /\ chunk.ends = {<<>>} => Decoding(msg.tail)[0] = {body}
<1> DEFINE chunk == ChunkAt(msg.tail, c)
           D == Decoding(msg.tail)
<1>1. /\ chunk.data \in Seq(BodyByte) /\ chunk.ends \in SUBSET Seq(BodyByte)
      /\ chunk.next \in 0..Len(msg.tail) /\ chunk.next >= c
  BY TailIs, ChunkIs
<1>2. /\ D[c] = IF chunk.next = c THEN chunk.ends ELSE {chunk.data \o d : d \in D[chunk.next]}
      /\ D[chunk.next] \in SUBSET Seq(BodyByte)
  <2>1. msg.tail \in Seq(BodyByte) BY TailIs
  <2>2. D[c] = IF chunk.next = c THEN chunk.ends ELSE {chunk.data \o d : d \in D[chunk.next]}
    BY <2>1, DecodingIs
  <2>3. \A i \in 0..Len(msg.tail) : D[i] \in SUBSET Seq(BodyByte) BY <2>1, DecodingIs
  <2> QED BY <1>1, <2>2, <2>3
<1>3. D[0] = {body \o d : d \in D[c]} BY DEF Stands
<1> HIDE DEF chunk, D
<1>4. ASSUME chunk.next # c PROVE D[0] = {(body \o chunk.data) \o d : d \in D[chunk.next]}
  <2>1. D[c] = {chunk.data \o d : d \in D[chunk.next]} BY <1>2, <1>4
  <2>2. D[0] = {body \o (chunk.data \o d) : d \in D[chunk.next]} BY <1>3, <2>1
  <2>3. \A d \in D[chunk.next] : body \o (chunk.data \o d) = (body \o chunk.data) \o d
    <3> SUFFICES ASSUME NEW d \in D[chunk.next]
                 PROVE  body \o (chunk.data \o d) = (body \o chunk.data) \o d
      OBVIOUS
    <3> DEFINE x == chunk.data
    <3>1. x \in Seq(BodyByte) /\ d \in Seq(BodyByte) BY <1>1, <1>2
    <3> HIDE DEF x
    <3>2. (body \o x) \o d = body \o (x \o d) BY ONLY <3>1, body \in Seq(BodyByte), ConcatAssociative
    <3> QED BY <3>2 DEF x
  <2> QED BY <2>2, <2>3
<1>5. body \o <<>> = body BY ConcatEmptySeq
<1>6. chunk.next # c => Stands(body \o chunk.data, chunk.next) BY <1>4 DEF D, Stands
<1>7. chunk.next = c /\ chunk.ends = {} => D[0] = {} BY <1>2, <1>3
<1>8. chunk.next = c /\ chunk.ends = {<<>>} => D[0] = {body}
  <2> SUFFICES ASSUME chunk.next = c, chunk.ends = {<<>>} PROVE D[0] = {body} OBVIOUS
  <2>1. D[c] = {<<>>} BY <1>2
  <2>2. {body \o d : d \in {<<>>}} = {body \o <<>>} OBVIOUS
  <2> QED BY <1>3, <1>5, <2>1, <2>2
<1> QED BY <1>6, <1>7, <1>8 DEF chunk, D

\* What is decoded so far is a prefix of the data.
LEMMA DecodedIsPrefix ==
  ASSUME Received, StandsForData(msg), ~IsPlain, msg.coded,
         NEW c \in 0..Len(msg.tail), NEW body \in Seq(BodyByte), Stands(body, c)
  PROVE  IsPrefix(body, msg.data)
<1>1. Decoding(msg.tail)[0] = {msg.data} BY DEF StandsForData, IsPlain
<1>2. msg.tail \in Seq(BodyByte) /\ msg.data \in Seq(BodyByte) BY TailIs
<1>3. Decoding(msg.tail)[c] \in SUBSET Seq(BodyByte) BY <1>2, DecodingIs
<1>4. PICK d \in Decoding(msg.tail)[c] : msg.data = body \o d BY <1>1 DEF Stands
<1>5. d \in Seq(BodyByte) BY <1>3
<1>6. /\ Len(msg.data) = Len(body) + Len(d) /\ Len(body) \in Nat /\ Len(d) \in Nat
      /\ \A i \in 1..Len(body) + Len(d) :
           msg.data[i] = IF i <= Len(body) THEN body[i] ELSE d[i - Len(body)]
  BY <1>4, <1>5, ConcatProperties, LenProperties
<1>7. \A i \in 1..Len(body) : i \in 1..Len(body) + Len(d) /\ i <= Len(body) BY <1>6
<1>8. \A i \in 1..Len(body) : body[i] = msg.data[i] BY <1>6, <1>7
<1>9. Len(body) <= Len(msg.data) BY <1>6
<1> QED BY <1>2, <1>8, <1>9, PrefixIs

\* The last chunk has come: the body is all the data.
LEMMA ChunksEnd ==
  ASSUME Received, StandsForData(msg), ~IsPlain, HeaderIsValid(msg), BodyMayCome,
         NEW q \in Parser, q.state = "BODY_CHUNKED",
         Decoding(msg.tail)[0] = {q.body}, msg.coded => IsPrefix(q.body, msg.data),
         IsMultipart(q) <=> Multipart(msg)
  PROVE  BodyIs(Finished(q).p)
<1>1. msg.coded /\ msg.data = q.body
  <2>1. Decoding(msg.tail)[0] = IF msg.coded THEN {msg.data} ELSE {}
    BY DEF StandsForData, IsPlain
  <2> QED BY <2>1
<1>2. CASE IsMultipart(q) /\ Byte("!") \in Range(q.body)
  BY <1>2, FailKeepsBody DEF Finished
<1>3. CASE ~(IsMultipart(q) /\ Byte("!") \in Range(q.body))
  <2> DEFINE t == [q EXCEPT !.state = "COMPLETE"]
  <2>1. t.state = "COMPLETE" /\ t.body = q.body BY DEF Parser
  <2>2. Finished(q).p = t BY <1>3 DEF Finished, Result
  <2> HIDE DEF t
  <2>3. HasBody(msg) BY DEF HasBody, IsPlain
  <2>4. Announced(msg) = {} BY DEF HeaderIsValid, IsPlain
  <2>5. BodyIsValid(msg)
    BY <1>1, <1>3, <2>3, <2>4 DEF BodyIsValid, BodyMayCome
  <2> QED BY <1>1, <2>1, <2>2, <2>3, <2>5 DEF BodyIs, BodyState
<1> QED BY <1>2, <1>3

\* A turn that reads the size of a chunk.
LEMMA ChunkSizeBody ==
  ASSUME Received, StandsForData(msg), NEW q, ParserIs(q), q.state = "BODY_CHUNKED",
         BodyIs(q), q.waiting
  PROVE  BodyIs(ParseChunkSize(q).p)
<1> DEFINE n == Number(FirstLine(q.raw))
           raw == AfterFirstLine(q.raw)
           r == [q EXCEPT !.raw = raw]
           z == [r EXCEPT !.size = 0]
           rest == SubSeq(raw, 3, Len(raw))
           e == [z EXCEPT !.raw = rest]
           u == [[r EXCEPT !.size = n] EXCEPT !.waiting = FALSE]
           N == Len(msg.tail)
           D == Decoding(msg.tail)
<1>1. /\ q \in Parser /\ HeaderOver(q) /\ ~IsPlain /\ q.raw \in Seq(BodyByte)
      /\ q.body \in Seq(BodyByte) /\ HeaderIsValid(msg)
  BY DEF ParserIs, BodyState, Parser, HeaderOver
<1>2. BodyMayCome /\ ChunksAre(q) /\ (msg.coded => IsPrefix(q.body, msg.data))
  BY DEF BodyIs, BodyState
<1>3. CASE ~HasEndOfLine(q.raw) BY <1>3 DEF ParseChunkSize, Result
<1>4. CASE HasEndOfLine(q.raw)
  <2>1. raw \in Seq(BodyByte) BY <1>1, <1>4, FirstLineIs
  <2>2. raw \in Seq(Atom) BY <2>1, SeqMonotonic DEF Atom
  <2>3. r \in Parser BY <1>1, <2>2, ParserWith
  <2>4. r.raw = raw /\ r.body = q.body /\ r.state = q.state BY <1>1 DEF Parser
  <2>5. z \in Parser
    <3> HIDE DEF r
    <3> QED BY <2>3, ParserWith
  <2>6. /\ z.state = q.state /\ z.headers = q.headers /\ z.body = q.body /\ z.raw = raw
        /\ z.waiting = q.waiting
    BY <1>1 DEF Parser
  <2>7. ParseChunkSize(q) =
          IF n = -1 THEN Fail(r, 400)
          ELSE IF n \in Nat \ {0} THEN Result("OK", u)
          ELSE IF Len(raw) < 2 THEN Result("AGAIN", z)
          ELSE IF ~IsPrefix(CRLF, raw) THEN Fail(z, 400)
          ELSE Finished(e)
    <3>1. [[r EXCEPT !.size = 0] EXCEPT !.raw = SubSeq(r.raw, 3, Len(r.raw))] = e
      BY <2>4
    <3> HIDE DEF n, e
    <3> QED BY <1>1, <1>4, <2>4, <3>1 DEF ParseChunkSize, n
  <2>8. /\ u.state = "BODY_CHUNKED" /\ u.raw = raw /\ u.body = q.body
        /\ u.size = n /\ u.waiting = FALSE
    <3> HIDE DEF n, raw
    <3> QED BY <1>1 DEF Parser
  <2>9. PICK c \in 0..Got : /\ q.raw = SubSeq(msg.tail, c + 1, Got)
                            /\ EndAt(c) \/ Stands(q.body, c)
    BY <1>2 DEF ChunksAre
  <2>10. /\ msg.tail \in Seq(BodyByte) /\ N \in Nat /\ Got \in Int /\ Got <= N BY TailIs
  <2>11. c \in Nat /\ c \in 0..N /\ Got \in 0..N BY <2>9, <2>10
  <2> DEFINE chunk == ChunkAt(msg.tail, c)
  <2>12. /\ EndAt(c) => n = -1
         /\ \E a \in c + 1..Got :
              /\ raw = SubSeq(msg.tail, a + 1, Got)
              /\ n # -1 /\ n \in Nat \ {0} =>
                   chunk = IF a + n + 2 > N THEN [data |-> <<>>, next |-> c, ends |-> {}]
                           ELSE [data |-> SubSeq(msg.tail, a + 1, a + n),
                                 next |-> a + n + 2, ends |-> {}]
              /\ n # -1 /\ n \notin Nat \ {0} =>
                   chunk = IF EndAt(a) THEN [data |-> <<>>, next |-> c, ends |-> {<<>>}]
                           ELSE [data |-> <<>>, next |-> a, ends |-> {}]
    <3>1. HasEndOfLine(SubSeq(msg.tail, c + 1, Got)) BY <1>4, <2>9
    <3>2. q.raw = SubSeq(msg.tail, c + 1, Got) BY <2>9
    <3> QED BY ONLY <3>1, <3>2, SameChunk, Received, c \in 0..Got
  <2>13. PICK a \in c + 1..Got :
              /\ raw = SubSeq(msg.tail, a + 1, Got)
              /\ n # -1 /\ n \in Nat \ {0} =>
                   chunk = IF a + n + 2 > N THEN [data |-> <<>>, next |-> c, ends |-> {}]
                           ELSE [data |-> SubSeq(msg.tail, a + 1, a + n),
                                 next |-> a + n + 2, ends |-> {}]
              /\ n # -1 /\ n \notin Nat \ {0} =>
                   chunk = IF EndAt(a) THEN [data |-> <<>>, next |-> c, ends |-> {<<>>}]
                           ELSE [data |-> <<>>, next |-> a, ends |-> {}]
    BY <2>12
  <2> HIDE DEF n, raw, r, z, u, e, chunk
  <2>14. a \in 0..Got /\ a # c /\ a \in Nat BY <2>10, <2>11
  <2>15. ASSUME n # -1
         PROVE  /\ chunk.next # c => Stands(q.body \o chunk.data, chunk.next)
                /\ chunk.next = c /\ chunk.ends = {} => D[0] = {}
                /\ chunk.next = c /\ chunk.ends = {<<>>} => D[0] = {q.body}
    <3>1. Stands(q.body, c) BY <2>9, <2>12, <2>15
    <3> QED BY <1>1, <2>11, <3>1, OneChunkOn DEF chunk
  <2>16. CASE n = -1
    <3>1. ParseChunkSize(q) = Fail(r, 400) BY <2>7, <2>16
    <3>2. msg.coded => IsPrefix(r.body, msg.data) BY <1>2, <2>4
    <3> QED BY <2>3, <3>1, <3>2, FailKeepsBody
  <2>17. CASE n # -1 /\ n \in Nat \ {0}
    <3>1. IF a + n + 2 > N THEN D[0] = {}
          ELSE Stands(q.body \o SubSeq(msg.tail, a + 1, a + n), a + n + 2)
      <4>1. CASE a + n + 2 > N
        <5>1. chunk.next = c /\ chunk.ends = {} BY <2>13, <2>17, <4>1
        <5> QED BY <2>15, <2>17, <4>1, <5>1
      <4>2. CASE ~(a + n + 2 > N)
        <5>1. chunk.next = a + n + 2 /\ chunk.data = SubSeq(msg.tail, a + 1, a + n)
          BY <2>13, <2>17, <4>2
        <5>2. a + n + 2 # c BY <2>11, <2>13, <2>14, <2>17
        <5> QED BY <2>15, <2>17, <4>2, <5>1, <5>2
      <4> QED BY <4>1, <4>2
    <3>2. ChunksAre(u) BY <2>8, <2>13, <2>14, <2>17, <3>1 DEF ChunksAre
    <3>3. BodyIs(u) BY <1>2, <2>8, <3>2, AtChunk
    <3>4. ParseChunkSize(q) = Result("OK", u) BY <2>7, <2>17
    <3> QED BY <3>3, <3>4 DEF Result
  <2>18. CASE n # -1 /\ n \notin Nat \ {0} /\ Len(raw) < 2
    <3>1. EndAt(a) \/ Stands(q.body, a)
      <4> SUFFICES ASSUME ~EndAt(a) PROVE Stands(q.body, a) OBVIOUS
      <4>1. chunk.next = a /\ chunk.data = <<>> BY <2>13, <2>18
      <4>2. Stands(q.body \o <<>>, a) BY <2>14, <2>15, <2>18, <4>1
      <4>3. q.body \o <<>> = q.body BY <1>1, ConcatEmptySeq
      <4> QED BY <4>2, <4>3
    <3>2. ChunksAre(z) BY <2>6, <2>13, <2>14, <3>1 DEF ChunksAre
    <3>3. BodyIs(z) BY <1>2, <2>6, <3>2, AtChunk
    <3>4. ParseChunkSize(q) = Result("AGAIN", z) BY <2>7, <2>18
    <3> QED BY <3>3, <3>4 DEF Result
  <2>19. CASE n # -1 /\ n \notin Nat \ {0} /\ ~(Len(raw) < 2) /\ ~IsPrefix(CRLF, raw)
    <3>1. ParseChunkSize(q) = Fail(z, 400) BY <2>7, <2>19
    <3>2. msg.coded => IsPrefix(z.body, msg.data) BY <1>2, <2>6
    <3> QED BY <2>5, <3>1, <3>2, FailKeepsBody
  <2>20. CASE n # -1 /\ n \notin Nat \ {0} /\ ~(Len(raw) < 2) /\ IsPrefix(CRLF, raw)
    <3>1. Len(raw) \in Nat BY <2>2, LenProperties
    <3>2. 2 \in 0..Len(raw) /\ 2 + 1 = 3 BY <2>20, <3>1
    <3>3. rest \in Seq(Atom)
      <4>1. SubSeq(raw, 2 + 1, Len(raw)) \in Seq(Atom) BY <2>2, <3>2, CutIs
      <4> QED BY <3>2, <4>1
    <3> HIDE DEF rest
    <3>4. e \in Parser BY <2>5, <3>3, ParserWith DEF e
    <3>5. e.headers = q.headers /\ e.body = q.body /\ e.state = "BODY_CHUNKED"
      BY <2>5, <2>6 DEF Parser, e
    <3>6. EndAt(a)
      <4>1. Got \in a..Len(msg.tail) BY <2>10, <2>13, <2>14
      <4>2. a + 2 <= Got /\ msg.tail[a + 1] = CR /\ msg.tail[a + 2] = LF
        BY <2>10, <2>13, <2>14, <2>20, <4>1, LineEndBytes, BeginsWithLineEnd
      <4> QED BY <2>10, <2>14, <4>2 DEF EndAt
    <3>7. D[0] = {e.body}
      <4>1. chunk.next = c /\ chunk.ends = {<<>>} BY <2>13, <2>20, <3>6
      <4> QED BY <2>15, <2>20, <3>5, <4>1
    <3>8. IsMultipart(e) <=> Multipart(msg)
      <4>1. e.headers = Range(msg.headers) BY <1>1, <3>5 DEF HeaderOver
      <4> QED BY <4>1, FieldsAre
    <3>9. BodyIs(Finished(e).p)
      BY <1>1, <1>2, <3>4, <3>5, <3>7, <3>8, ChunksEnd
    <3> QED BY <2>7, <2>20, <3>9
  <2> QED BY <2>16, <2>17, <2>18, <2>19, <2>20
<1> QED BY <1>3, <1>4

\* A turn that reads the data of a chunk.
LEMMA ChunkDataBody ==
  ASSUME Received, StandsForData(msg), NEW q, ParserIs(q), q.state = "BODY_CHUNKED",
         BodyIs(q), ~q.waiting
  PROVE  BodyIs(ParseChunkData(q).p)
<1> DEFINE size == q.size
           piece == SubSeq(q.raw, 1, size)
           body == q.body \o piece
           raw == SubSeq(q.raw, size + 3, Len(q.raw))
           t == [[[[q EXCEPT !.body = body] EXCEPT !.raw = raw] EXCEPT !.size = 0]
                  EXCEPT !.waiting = TRUE]
           N == Len(msg.tail)
<1>1. /\ q \in Parser /\ HeaderOver(q) /\ ~IsPlain /\ q.raw \in Seq(BodyByte)
      /\ q.body \in Seq(BodyByte)
  BY DEF ParserIs, BodyState, Parser
<1>2. BodyMayCome /\ ChunksAre(q) /\ (msg.coded => IsPrefix(q.body, msg.data))
  BY DEF BodyIs, BodyState
<1>3. CASE Len(q.raw) < q.size + 2 BY <1>3 DEF ParseChunkData, Result
<1>4. CASE ~(Len(q.raw) < q.size + 2)
  <2>1. ParseChunkData(q) = Result("OK", t)
    BY <1>1, <1>4 DEF ParseChunkData, Parser
  <2>2. /\ t.state = "BODY_CHUNKED" /\ t.body = body /\ t.raw = raw /\ t.waiting = TRUE
    <3> HIDE DEF body, raw
    <3> QED BY <1>1 DEF Parser
  <2>3. PICK c \in 0..Got :
          /\ q.raw = SubSeq(msg.tail, c + 1, Got)
          /\ size \in Nat \ {0}
          /\ IF c + size + 2 > N THEN Decoding(msg.tail)[0] = {}
             ELSE Stands(q.body \o SubSeq(msg.tail, c + 1, c + size), c + size + 2)
    BY <1>2 DEF ChunksAre
  <2>4. msg.tail \in Seq(BodyByte) /\ N \in Nat /\ Got \in Int /\ Got <= N BY TailIs
  <2>5. c \in Nat /\ Got \in c..N BY <2>3, <2>4
  <2>6. Len(q.raw) = Got - c BY <2>3, <2>4, <2>5, PieceIs
  <2> DEFINE d == size + 2
             b == c + d
  <2> HIDE DEF size
  <2>7. /\ size \in 0..Got - c /\ d \in 0..Got - c /\ d + 1 = size + 3
        /\ b \in 0..Got /\ b \in 0..N /\ c + size + 2 = b
    <3>1. size \in Nat /\ ~(Got - c < size + 2)
      <4>1. ~(Len(q.raw) < size + 2) BY <1>4 DEF size
      <4> QED BY <2>3, <2>6, <4>1
    <3>2. N \in Nat /\ Got \in Int /\ Got <= N /\ c \in 0..Got BY <2>3, <2>4
    <3> HIDE DEF N
    <3> QED BY <3>1, <3>2
  <2> HIDE DEF d, t, body, raw, piece
  <2>8. piece = SubSeq(msg.tail, c + 1, c + size)
    <3>1. LET s == SubSeq(msg.tail, c + 1, Got) IN
          SubSeq(s, 1, size) = SubSeq(msg.tail, c + 1, c + size)
      BY <2>4, <2>5, <2>7, DropIs
    <3> QED BY <2>3, <3>1 DEF piece
  <2>9. raw = SubSeq(msg.tail, b + 1, Got)
    <3>1. LET s == SubSeq(msg.tail, c + 1, Got) IN
          SubSeq(s, d + 1, Len(s)) = SubSeq(msg.tail, c + d + 1, Got)
      BY <2>4, <2>5, <2>7, DropIs
    <3> QED BY <2>3, <2>7, <3>1 DEF raw
  <2> HIDE DEF b
  <2>10. Stands(body, b)
    <3>1. ~(c + size + 2 > N) BY <2>4, <2>7
    <3> QED BY <2>3, <2>7, <2>8, <3>1 DEF body
  <2>11. body \in Seq(BodyByte)
    <3>1. size \in 0..Len(q.raw) BY <2>6, <2>7
    <3>2. piece \in Seq(BodyByte) BY <1>1, <3>1, CutIs DEF piece
    <3> QED BY <1>1, <3>2, ConcatProperties DEF body
  <2>12. msg.coded => IsPrefix(body, msg.data)
    BY <1>1, <2>7, <2>10, <2>11, DecodedIsPrefix
  <2>13. ChunksAre(t) BY <2>2, <2>7, <2>9, <2>10 DEF ChunksAre
  <2>14. BodyIs(t) BY <1>2, <2>2, <2>12, <2>13, AtChunk
  <2> QED BY <2>1, <2>14 DEF Result
<1> QED BY <1>3, <1>4

\* A parser that has no body yet, before the header is over.
LEMMA BeforeBody ==
  ASSUME Received, NEW q, q.body = <<>>, q.waiting, q.state \in {"REQUEST_LINE", "HEADERS"}
  PROVE  BodyIs(q)
<1>1. msg.data \in Seq(BodyByte) /\ <<>> \in Seq(BodyByte) BY TailIs
<1> DEFINE x == <<>>
           y == msg.data
<1>2. Len(x) = 0 /\ Len(y) \in Nat /\ x \in Seq(BodyByte) /\ y \in Seq(BodyByte)
  BY <1>1, LenProperties
<1> HIDE DEF x, y
<1>3. IsPrefix(x, y) <=> Len(x) <= Len(y) /\ \A i \in 1..Len(x) : x[i] = y[i]
  <2>1. x \in Seq(BodyByte) /\ y \in Seq(BodyByte) BY <1>2
  <2> QED BY ONLY <2>1, PrefixIs
<1>4. IsPrefix(x, y) BY <1>2, <1>3
<1>5. IsPrefix(<<>>, msg.data) BY <1>4 DEF x, y
<1> QED BY <1>5 DEF BodyIs, BodyState

\* A turn that reads the request line.
LEMMA RequestLineBody ==
  ASSUME Received, NEW q, ParserIs(q), q.state = "REQUEST_LINE", q.waiting
  PROVE  BodyIs(ParseRequestLine(q).p)
<1> DEFINE l == FirstLine(q.raw)[1]
           r == [q EXCEPT !.raw = AfterFirstLine(@)]
           checks == <<[fails |-> l = NoLine, code |-> -1],
                       [fails |-> l.method = "other", code |-> 400],
                       [fails |-> l.version = "other", code |-> 505]>>
           k == FirstFault(checks)
           t == [r EXCEPT !.state = "HEADERS", !.line = l]
<1>1. q \in Parser /\ q.body = <<>> /\ q.raw \in Seq(Atom) BY ParserIsMadeOf DEF ParserIs
<1>2. BodyIs(q) BY <1>1, BeforeBody
<1>3. CASE ~HasEndOfLine(q.raw) BY <1>2, <1>3 DEF ParseRequestLine, Result
<1>4. CASE HasEndOfLine(q.raw)
  <2>1. r \in Parser
    <3>1. AfterFirstLine(q.raw) \in Seq(Atom) BY <1>1, <1>4, FirstLineIs
    <3> QED BY <1>1, <3>1, ParserWith
  <2>2. r.body = <<>> /\ r.waiting = q.waiting BY <1>1 DEF Parser
  <2>3. ParseRequestLine(q) = IF k # 0 THEN Fail(r, checks[k].code) ELSE Result("OK", t)
    <3> HIDE DEF k
    <3> QED BY <1>4 DEF ParseRequestLine, k
  <2>4. BodyIs(Fail(r, checks[k].code).p)
    <3>1. msg.coded => IsPrefix(r.body, msg.data) BY <1>1, <1>2, <2>2 DEF BodyIs
    <3> HIDE DEF r, checks, k
    <3> QED BY <2>1, <3>1, FailKeepsBody
  <2>5. BodyIs(t)
    <3>1. t.state = "HEADERS" /\ t.body = <<>> /\ t.waiting
      <4> HIDE DEF l
      <4> QED BY <1>1 DEF Parser
    <3> HIDE DEF t
    <3> QED BY <3>1, BeforeBody
  <2> HIDE DEF k, checks, r, t
  <2>6. CASE k # 0 BY <2>3, <2>4, <2>6
  <2>7. CASE k = 0 BY <2>3, <2>5, <2>7 DEF Result
  <2> QED BY <2>6, <2>7
<1> QED BY <1>3, <1>4

\* The next line of the header: that of the message, or the empty one after the last.
LEMMA NextHeaderLine ==
  ASSUME Received, NEW q, HasEndOfLine(q.raw), NEW n \in 0..Len(msg.headers),
         Buffered(q, 3 * n + 3)
  PROVE  /\ n # Len(msg.headers) =>
              FirstLine(q.raw) # <<>> /\ FirstLine(q.raw)[1] = msg.headers[n + 1]
         /\ n = Len(msg.headers) =>
              /\ FirstLine(q.raw) = <<>>
              /\ AfterFirstLine(q.raw) = SubSeq(Wire(msg), HeadLen(msg) + 1, sent)
<1> DEFINE w == Wire(msg)
           N == Len(msg.headers)
           j == 3 * n + 3
<1>1. /\ w \in Seq(Atom) /\ sent \in 0..Len(w) /\ Len(w) \in Nat /\ N \in Nat /\ n \in Nat
      /\ \A i \in 1..N : /\ w[3 * i + 1] = msg.headers[i]
                          /\ w[3 * i + 2] = CR /\ w[3 * i + 3] = LF
      /\ w[3 * N + 4] = CR /\ w[3 * N + 5] = LF
  BY MessageIs, WireAtoms, LenProperties DEF Received
<1>2. j \in Nat /\ sent \in j..Len(w) /\ q.raw = SubSeq(w, j + 1, sent)
  BY <1>1 DEF Buffered
<1> HIDE DEF w
<1>3. CASE n # N
  <2> DEFINE f == msg.headers[n + 1]
  <2>1. n + 1 \in 1..N BY <1>1, <1>3
  <2>2. w[3 * (n + 1) + 1] = f /\ f \in HeaderLine BY <1>1, <2>1, MessageIs
  <2>3. w[3 * (n + 1) + 2] = CR /\ w[3 * (n + 1) + 3] = LF BY <1>1, <2>1
  <2>4. /\ 3 * (n + 1) + 1 = j + 1 /\ 3 * (n + 1) + 2 = j + 2
        /\ 3 * (n + 1) + 3 = j + 3
    BY <1>1
  <2>5. f # CR BY <2>2, TextIsNoByte
  <2> HIDE DEF j, f
  <2>6. w[j + 1] = f /\ w[j + 1] # CR /\ w[j + 2] = CR /\ w[j + 3] = LF
    BY <2>2, <2>3, <2>4, <2>5
  <2>7. /\ FirstLine(SubSeq(w, j + 1, sent)) # <<>>
        /\ FirstLine(SubSeq(w, j + 1, sent))[1] = w[j + 1]
    BY <1>1, <1>2, <2>6, NextText
  <2> QED BY <1>2, <1>3, <2>6, <2>7 DEF f
<1>4. CASE n = N
  <2>1. j + 1 = 3 * N + 4 /\ j + 2 = 3 * N + 5 /\ j + 3 = HeadLen(msg) + 1
    BY <1>1, <1>4 DEF HeadLen
  <2>2. w[j + 1] = CR /\ w[j + 2] = LF BY <1>1, <1>4, <2>1
  <2> HIDE DEF j
  <2>3. /\ FirstLine(SubSeq(w, j + 1, sent)) = <<>>
        /\ AfterFirstLine(SubSeq(w, j + 1, sent)) = SubSeq(w, j + 3, sent)
    BY <1>1, <1>2, <2>2, NextEmpty
  <2> QED BY <1>2, <1>4, <2>1, <2>3 DEF w
<1> QED BY <1>3, <1>4

\* A body that is announced and has not begun is not empty.
LEMMA LeftIsPositive ==
  ASSUME Received, NEW t, ParserIs(t), t.state = BodyStateOf(t), t.body = <<>>,
         t.state = "BODY_CONTENT_LENGTH"
  PROVE  t.left > 0
<1>1. HeaderOver(t) /\ t \in Parser /\ Announced(msg) = {Len(t.body) + t.left}
  BY DEF ParserIs, BodyState
<1>2. Lengths(t) = Announced(msg) BY <1>1, FieldsAre DEF HeaderOver
<1>3. t.left \in Nat /\ Len(t.body) = 0 BY <1>1 DEF Parser
<1>4. Announced(msg) = {t.left} BY <1>1, <1>3
<1>5. Lengths(t) # {0} BY DEF BodyStateOf
<1> QED BY <1>2, <1>3, <1>4, <1>5

\* The parser as it is after the header, before any of the body.
LEMMA FirstOfBody ==
  ASSUME Received, NEW t, ParserIs(t), t.state = BodyStateOf(t), t.state \in BodyState,
         t.body = <<>>, t.waiting, t.raw = SubSeq(Wire(msg), HeadLen(msg) + 1, sent),
         BodyMayCome
  PROVE  BodyIs(t)
<1>1. HeaderOver(t) /\ t \in Parser BY DEF ParserIs
<1>2. /\ Lengths(t) = Announced(msg) /\ (IsChunked(t) <=> ~IsPlain)
  BY <1>1, FieldsAre DEF HeaderOver
<1>3. msg.coded => IsPrefix(t.body, msg.data)
  <2> DEFINE b == [state |-> "HEADERS", body |-> <<>>, waiting |-> TRUE]
  <2>1. BodyIs(b) BY BeforeBody
  <2> QED BY <2>1 DEF BodyIs
<1>4. ASSUME t.state = "BODY_CHUNKED" PROVE ChunksAre(t)
  <2>1. /\ Got \in Int /\ Got <= Len(msg.tail) /\ HeadLen(msg) \in Nat
        /\ \A c \in Nat : \A n \in c..Len(msg.tail) :
             SubSeq(Wire(msg), HeadLen(msg) + c + 1, HeadLen(msg) + n)
               = SubSeq(msg.tail, c + 1, n)
    BY TailIs
  <2>2. sent >= HeadLen(msg) /\ sent \in Nat BY <1>1, MessageIs DEF HeaderOver
  <2>3. Got >= 0 /\ HeadLen(msg) + Got = sent BY <2>1, <2>2 DEF Got
  <2>4. 0 \in 0..Got /\ Got \in 0..Len(msg.tail) /\ Len(msg.tail) \in Nat BY <2>1, <2>3, TailIs
  <2>5. SubSeq(Wire(msg), HeadLen(msg) + 0 + 1, HeadLen(msg) + Got)
          = SubSeq(msg.tail, 0 + 1, Got)
    BY <2>1, <2>4
  <2>6. HeadLen(msg) + 0 + 1 = HeadLen(msg) + 1 BY <2>1
  <2>7. t.raw = SubSeq(msg.tail, 0 + 1, Got) BY <2>3, <2>5, <2>6
  <2>8. Stands(<<>>, 0)
    <3> DEFINE D == Decoding(msg.tail)[0]
    <3>1. msg.tail \in Seq(BodyByte) /\ 0 \in 0..Len(msg.tail) BY <2>4, TailIs
    <3>2. D \in SUBSET Seq(BodyByte) BY <3>1, DecodingIs
    <3> HIDE DEF D
    <3>3. \A d \in D : <<>> \o d = d BY <3>2, ConcatEmptySeq
    <3>4. D = {<<>> \o d : d \in D} BY <3>3
    <3> QED BY <3>4 DEF Stands, D
  <2> QED BY <2>4, <2>7, <2>8 DEF ChunksAre
<1>5. t.state = "BODY_CONTENT_LENGTH" => t.left > 0 BY LeftIsPositive
<1>6. t.state \in {"BODY_NONE", "COMPLETE"} => ~HasBody(msg)
  BY <1>2 DEF BodyStateOf, HasBody, IsPlain
<1> QED BY <1>3, <1>4, <1>5, <1>6 DEF BodyIs, BodyIsValid, BodyState

\* A turn that reads a line of the header.
LEMMA HeaderBody ==
  ASSUME Received, NEW q, ParserIs(q), q.state = "HEADERS", q.waiting
  PROVE  BodyIs(ParseHeaderFields(q).p)
<1> DEFINE raw == AfterFirstLine(q.raw)
           r == [q EXCEPT !.raw = raw]
<1>1. q \in Parser /\ q.body = <<>> /\ q.raw \in Seq(Atom) BY ParserIsMadeOf DEF ParserIs
<1>2. BodyIs(q) BY <1>1, BeforeBody
<1>3. CASE ~HasEndOfLine(q.raw) BY <1>2, <1>3 DEF ParseHeaderFields, Result
<1>4. CASE HasEndOfLine(q.raw)
  <2>1. r \in Parser
    <3>1. raw \in Seq(Atom) BY <1>1, <1>4, FirstLineIs
    <3> HIDE DEF raw
    <3> QED BY <1>1, <3>1, ParserWith
  <2>2. /\ r.body = <<>> /\ r.waiting = q.waiting /\ r.raw = raw /\ r.headers = q.headers
        /\ r.line = q.line /\ r.state = q.state
    BY <1>1 DEF Parser
  <2>3. ASSUME NEW code PROVE BodyIs(Fail(r, code).p)
    <3>1. msg.coded => IsPrefix(r.body, msg.data) BY <1>1, <1>2, <2>2 DEF BodyIs
    <3> HIDE DEF r
    <3> QED BY <2>1, <3>1, FailKeepsBody
  <2>4. CASE FirstLine(q.raw) # <<>>
    <3> DEFINE f == FirstLine(q.raw)[1]
               k == FirstFault(FieldChecks(r, f))
               t == [r EXCEPT !.headers = @ \cup {f}]
    <3>1. ParseHeaderFields(q) = IF k # 0 THEN Fail(r, FieldChecks(r, f)[k].code)
                                 ELSE Result("OK", t)
      <4> HIDE DEF k, f
      <4> QED BY <1>4, <2>4 DEF ParseHeaderFields, k, f
    <3>2. BodyIs(t)
      <4>1. t.state = "HEADERS" /\ t.body = <<>> /\ t.waiting
        <5> HIDE DEF f
        <5> QED BY <1>1 DEF Parser
      <4> HIDE DEF t
      <4> QED BY <4>1, BeforeBody
    <3> HIDE DEF r, k, f, t
    <3> QED BY <2>3, <3>1, <3>2 DEF Result
  <2>5. CASE FirstLine(q.raw) = <<>>
    <3> DEFINE k == FirstFault(HeaderChecks(r))
               state == BodyStateOf(r)
               left == IF state = "BODY_CONTENT_LENGTH" THEN CHOOSE x \in Lengths(r) : TRUE
                       ELSE r.left
               t == [r EXCEPT !.state = state, !.left = left]
    <3>1. ParseHeaderFields(q) = IF k # 0 THEN Fail(r, HeaderChecks(r)[k].code)
                                 ELSE Result("OK", t)
      <4> HIDE DEF k
      <4> QED BY <1>4, <2>5 DEF ParseHeaderFields, k
    <3>2. CASE k # 0 BY <2>3, <3>1, <3>2
    <3>3. CASE k = 0
      <4>1. ParserIs(t)
        <5>1. Turn(q, ParseHeaderFields(q)) BY HeaderTurn
        <5> HIDE DEF t
        <5> QED BY <3>1, <3>3, <5>1 DEF Turn, Result
      <4>2. /\ t.state = state /\ t.body = <<>> /\ t.waiting /\ t.raw = raw
            /\ t.headers = r.headers
        <5> HIDE DEF raw, state, left
        <5> QED BY <1>1 DEF Parser
      <4>3. state = BodyStateOf(t) /\ state \in BodyState
        <5>1. BodyStateOf(t) = BodyStateOf(r)
          <6> HIDE DEF t, r
          <6> QED BY <4>2 DEF BodyStateOf, IsChunked, Lengths, Has, Fields
        <5> QED BY <5>1 DEF BodyStateOf, BodyState
      <4>4. raw = SubSeq(Wire(msg), HeadLen(msg) + 1, sent)
        <5>1. PICK n \in 0..Len(msg.headers) : Buffered(q, 3 * n + 3) /\ HeaderPart(q, n)
          BY DEF ParserIs
        <5> HIDE DEF raw
        <5> QED BY <1>4, <2>5, <5>1, NextHeaderLine DEF raw
      <4>5. BodyMayCome
        <5>1. r.line.method \in {"GET", "DELETE"} => state = "BODY_NONE"
          <6> DEFINE a == r.line.version = "1.1" /\ ~Has(r, "host")
                     b == Has(r, "content-length") /\ Has(r, "transfer-encoding")
                     c == \E f \in Fields(r, "transfer-encoding") : ~f.chunked \/ f.padded
                     d == \E f \in Fields(r, "content-type") : f.type = "other"
                     e == \E f \in Fields(r, "content-length") : f.length = -1 \/ f.padded
                     g == r.line.method \in {"GET", "DELETE"} /\ state # "BODY_NONE"
                     checks == <<[fails |-> a, code |-> 400], [fails |-> b, code |-> 400],
                                 [fails |-> c, code |-> 400], [fails |-> d, code |-> 415],
                                 [fails |-> e, code |-> 400], [fails |-> g, code |-> 400]>>
          <6>1. HeaderChecks(r) = checks BY DEF HeaderChecks
          <6>2. FirstFault(checks) = 0 BY <3>3, <6>1
          <6>3. ~g
            <7> HIDE DEF a, b, c, d, e, g
            <7> QED BY <6>2, HeaderFault
          <6> QED BY <6>3
        <5>2. HeaderOver(t) BY <4>1, <4>2, <4>3 DEF ParserIs
        <5>3. Lengths(t) = Announced(msg) /\ (IsChunked(t) <=> ~IsPlain)
          <6> HIDE DEF t
          <6> QED BY <5>2, FieldsAre DEF HeaderOver
        <5>4. r.line = msg.line
          <6>1. PICK n \in 0..Len(msg.headers) : HeaderPart(q, n) BY DEF ParserIs
          <6> QED BY <2>2, <6>1 DEF HeaderPart
        <5>5. state = "BODY_NONE" => IsPlain /\ Announced(msg) = {}
          <6> HIDE DEF state, t
          <6> QED BY <4>3, <5>3 DEF BodyStateOf
        <5> QED BY <5>1, <5>4, <5>5 DEF BodyMayCome
      <4>6. BodyIs(t)
        <5> HIDE DEF t, state, raw
        <5> QED BY <4>1, <4>2, <4>3, <4>4, <4>5, FirstOfBody
      <4> HIDE DEF t
      <4> QED BY <3>1, <3>3, <4>6 DEF Result
    <3> QED BY <3>2, <3>3
  <2> QED BY <2>4, <2>5
<1> QED BY <1>3, <1>4

\* A turn that reads a body of announced length.
LEMMA LengthBody ==
  ASSUME Received, StandsForData(msg), NEW q, ParserIs(q), q.state = "BODY_CONTENT_LENGTH",
         BodyIs(q)
  PROVE  BodyIs(ParseBodyContentLength(q).p)
<1> DEFINE n == Min({Len(q.raw), q.left})
           r == Take(q, n)
           s == IF IsPrefix(CRLF, r.raw)
                  THEN [r EXCEPT !.raw = SubSeq(r.raw, 3, Len(r.raw))] ELSE r
           a == HeadLen(msg)
           len == Len(r.body)
           t == [s EXCEPT !.state = "COMPLETE"]
<1>1. /\ q \in Parser /\ q.left \in Nat /\ q.body \in Seq(BodyByte) /\ IsPlain
      /\ Announced(msg) = {Len(q.body) + q.left}
  BY DEF ParserIs, Parser, BodyState
<1>2. q.left > 0 /\ BodyMayCome BY DEF BodyIs, BodyState
<1>3. ~msg.coded
  <2>1. msg.coded => Values(msg, "transfer-encoding") # {} BY DEF StandsForData
  <2> QED BY <1>1, <2>1 DEF IsPlain
<1>4. /\ ParserIs(r) /\ r.state = "BODY_CONTENT_LENGTH"
      /\ Announced(msg) = {Len(r.body) + r.left}
  BY LengthCases
<1>5. HeaderOver(r) /\ r.left \in Nat /\ len \in Nat BY LengthCases
<1>6. s \in Parser /\ s.headers = r.headers /\ s.body = r.body
  BY LengthCases
<1>7. ParseBodyContentLength(q) =
        IF q.raw = <<>> THEN Result("AGAIN", q)
        ELSE IF TooLarge(q, n) THEN Fail(q, 413)
        ELSE IF r.left > 0 THEN Result("AGAIN", r)
        ELSE IF s.raw # <<>> THEN Fail(s, 400)
        ELSE Finished(s)
  BY LengthCases
<1> HIDE DEF n, r, s
<1>8. CASE q.raw = <<>> BY <1>7, <1>8 DEF Result
<1>9. CASE q.raw # <<>> /\ TooLarge(q, n)
  <2>1. BodyIs(Fail(q, 413).p) BY <1>1, <1>3, FailKeepsBody
  <2> QED BY <1>7, <1>9, <2>1
<1>10. CASE q.raw # <<>> /\ ~TooLarge(q, n) /\ r.left > 0
  <2>1. BodyIs(r) BY <1>2, <1>3, <1>4, <1>10 DEF BodyIs, BodyState
  <2> QED BY <1>7, <1>10, <2>1 DEF Result
<1>11. CASE q.raw # <<>> /\ ~TooLarge(q, n) /\ ~(r.left > 0) /\ s.raw # <<>>
  <2>1. BodyIs(Fail(s, 400).p) BY <1>3, <1>6, FailKeepsBody
  <2> QED BY <1>7, <1>11, <2>1
<1>12. CASE q.raw # <<>> /\ ~TooLarge(q, n) /\ ~(r.left > 0) /\ s.raw = <<>>
  <2>1. Len(q.body) \in Nat BY <1>1, LenProperties
  <2>2. r.left = 0 BY <1>5, <1>12
  <2>3. Announced(msg) = {len} /\ len > 0
    <3>1. len + r.left = Len(q.body) + q.left BY <1>1, <1>4
    <3> QED BY <1>1, <1>2, <1>4, <1>5, <2>1, <2>2, <3>1
  <2>4. msg.data = r.body
    <3>1. /\ a + len \in 0..sent /\ r.body = SubSeq(Wire(msg), a + 1, a + len)
      BY <1>4 DEF ParserIs, Buffered
    <3>2. /\ Got \in Int /\ Got <= Len(msg.tail) /\ a \in Nat /\ Len(msg.tail) \in Nat
          /\ \A c \in Nat : \A m \in c..Len(msg.tail) :
               SubSeq(Wire(msg), a + c + 1, a + m) = SubSeq(msg.tail, c + 1, m)
      BY TailIs
    <3>3. sent \in Nat BY MessageIs
    <3> HIDE DEF a, len
    <3>4. len \in 0..Len(msg.tail) /\ len \in 1..Len(msg.tail)
      <4>1. len <= Got BY <1>5, <3>1, <3>2, <3>3 DEF Got, a
      <4> QED BY <1>5, <2>3, <3>2, <4>1
    <3>5. SubSeq(Wire(msg), a + 0 + 1, a + len) = SubSeq(msg.tail, 0 + 1, len) BY <3>2, <3>4
    <3>6. a + 0 + 1 = a + 1 /\ 0 + 1 = 1 BY <3>2
    <3>7. r.body = SubSeq(msg.tail, 1, len) BY <3>1, <3>5, <3>6
    <3>8. \A m \in 1..Len(msg.tail) : Announced(msg) = {m} => msg.data = SubSeq(msg.tail, 1, m)
      BY <1>1 DEF StandsForData, IsPlain
    <3> QED BY <2>3, <3>4, <3>7, <3>8
  <2>5. HasBody(msg) BY <2>3 DEF HasBody
  <2>6. IsMultipart(s) <=> Multipart(msg)
    <3>1. s.headers = Range(msg.headers) BY <1>5, <1>6 DEF HeaderOver
    <3> QED BY <3>1, FieldsAre
  <2>7. CASE IsMultipart(s) /\ Byte("!") \in Range(s.body)
    <3>1. Finished(s) = Fail(s, 400) BY <2>7 DEF Finished
    <3>2. BodyIs(Fail(s, 400).p) BY <1>3, <1>6, FailKeepsBody
    <3> QED BY <1>7, <1>12, <3>1, <3>2
  <2>8. CASE ~(IsMultipart(s) /\ Byte("!") \in Range(s.body))
    <3>1. Finished(s).p = t BY <2>8 DEF Finished, Result
    <3>2. t.state = "COMPLETE" /\ t.body = s.body BY <1>6 DEF Parser
    <3> HIDE DEF t
    <3>3. BodyIsValid(msg)
      <4>1. msg.line.method \notin {"GET", "DELETE"} BY <1>2, <2>3 DEF BodyMayCome
      <4>2. ~(Multipart(msg) /\ Byte("!") \in Range(msg.data)) BY <1>6, <2>4, <2>6, <2>8
      <4> QED BY <1>3, <2>3, <2>4, <4>1, <4>2 DEF BodyIsValid
    <3>4. BodyIs(t) BY <1>2, <1>3, <1>6, <2>4, <2>5, <3>2, <3>3 DEF BodyIs, BodyState
    <3> QED BY <1>7, <1>12, <3>1, <3>4
  <2> QED BY <2>7, <2>8
<1> QED BY <1>8, <1>9, <1>10, <1>11, <1>12

\* Every turn keeps what is known of the body.
LEMMA ParseNextBody ==
  ASSUME Received, StandsForData(msg), NEW q, ParserIs(q), BodyIs(q),
         q.state \notin {"ERROR", "COMPLETE"}
  PROVE  BodyIs(ParseNext(q).p)
<1>1. /\ q \in Parser
      /\ q.state \in {"REQUEST_LINE", "HEADERS", "BODY_CONTENT_LENGTH", "BODY_CHUNKED",
                      "BODY_NONE"}
  BY DEF ParserIs, Parser, BodyState
<1>2. CASE q.state = "REQUEST_LINE"
  BY <1>2, RequestLineBody DEF ParseNext, BodyIs
<1>3. CASE q.state = "HEADERS"
  BY <1>3, HeaderBody DEF ParseNext, BodyIs
<1>4. CASE q.state = "BODY_CONTENT_LENGTH"
  BY <1>4, LengthBody DEF ParseNext
<1>5. CASE q.state = "BODY_CHUNKED"
  <2>1. ParseNext(q) = IF q.waiting THEN ParseChunkSize(q) ELSE ParseChunkData(q)
    BY <1>5 DEF ParseNext, ParseBodyChunked
  <2>2. CASE q.waiting BY <1>5, <2>1, <2>2, ChunkSizeBody
  <2>3. CASE ~q.waiting BY <1>5, <2>1, <2>3, ChunkDataBody
  <2> QED BY <2>2, <2>3
<1>6. CASE q.state = "BODY_NONE"
  <2> DEFINE t == [q EXCEPT !.state = "COMPLETE"]
  <2>1. t.state = "COMPLETE" /\ t.body = q.body /\ q.body = <<>>
    BY <1>1, <1>6 DEF Parser, ParserIs, BodyState
  <2>2. ParseNext(q) = Result("OK", t) BY <1>6 DEF ParseNext
  <2> HIDE DEF t
  <2>3. BodyMayCome /\ ~HasBody(msg) /\ (msg.coded => IsPrefix(q.body, msg.data))
    BY <1>6 DEF BodyIs, BodyState
  <2>4. BodyIs(t) BY <2>1, <2>3 DEF BodyIs, BodyIsValid, BodyState
  <2> QED BY <2>2, <2>4 DEF Result
<1> QED BY <1>1, <1>2, <1>3, <1>4, <1>5, <1>6

-----------------------------------------------------------------------------
(* The body in the steps of handleRead.                                    *)

\* What is known of the body, and that a request is only accepted when all of it
\* is there.
BodyInv == BodyIs(p) /\ (h.status = 200 => p.state = "COMPLETE")

\* At the start nothing has come.
LEMMA BodyInit == Init /\ InputInv => BodyInv
<1> SUFFICES ASSUME Init, InputInv PROVE BodyInv
  OBVIOUS
<1>1. Received BY DEF InputInv, Received
<1>2. /\ p.body = <<>> /\ p.waiting /\ p.state = "REQUEST_LINE" /\ h.status = 0
  BY DEF Init
<1>3. BodyIs(p) BY <1>1, <1>2, BeforeBody
<1> QED BY <1>2, <1>3 DEF BodyInv

\* What is known of the body holds of the next parser if it is that one.
LEMMA BodyStays ==
  ASSUME NEW q, BodyIs(q), p' = q, msg' = msg, sent' = sent
  PROVE  BodyIs(p)'
<1>1. Got' = Got /\ BodyMayCome' = BodyMayCome BY DEF Got, BodyMayCome, IsPlain
<1>2. ChunksAre(q) => ChunksAre(p)'
  <2>1. /\ \A c : EndAt(c)' = EndAt(c)
        /\ \A b, c : Stands(b, c)' = Stands(b, c)
    BY DEF EndAt, Stands
  <2>2. ASSUME ChunksAre(q) PROVE ChunksAre(p)'
    <3>1. PICK c \in 0..Got :
            /\ q.raw = SubSeq(msg.tail, c + 1, Got)
            /\ q.waiting => EndAt(c) \/ Stands(q.body, c)
            /\ ~q.waiting =>
                 /\ q.size \in Nat \ {0}
                 /\ IF c + q.size + 2 > Len(msg.tail) THEN Decoding(msg.tail)[0] = {}
                    ELSE Stands(q.body \o SubSeq(msg.tail, c + 1, c + q.size), c + q.size + 2)
      BY <2>2 DEF ChunksAre
    <3>2. /\ c \in 0..Got' /\ p'.raw = SubSeq(msg'.tail, c + 1, Got')
          /\ p'.waiting => EndAt(c)' \/ Stands(p.body, c)'
          /\ ~p'.waiting =>
               /\ p'.size \in Nat \ {0}
               /\ IF c + p'.size + 2 > Len(msg'.tail) THEN Decoding(msg'.tail)[0] = {}
                  ELSE Stands(p.body \o SubSeq(msg.tail, c + 1, c + p.size), c + p.size + 2)'
      BY <1>1, <3>1 DEF EndAt, Stands
    <3> QED BY <3>2 DEF ChunksAre
  <2> QED BY <2>2
<1> QED BY <1>1, <1>2 DEF BodyIs

\* recv() brings a segment.
LEMMA RecvKeepsBody == InputInv /\ InputInv' /\ BodyInv /\ Recv => BodyInv'
<1> SUFFICES ASSUME InputInv, InputInv', BodyInv, Recv PROVE BodyInv'
  OBVIOUS
<1>1. /\ Received /\ ParserIs(p) /\ HandlerIs /\ p \in Parser /\ h \in Handler /\ BodyIs(p)
      /\ sent \in Nat
  BY MessageIs DEF InputInv, Received, ParserIs, HandlerIs, BodyInv
<1>2. PICK n \in sent + 1..Len(Wire(msg)) :
        sent' = n /\ p' = [p EXCEPT !.raw = p.raw \o SubSeq(Wire(msg), sent + 1, n)]
  BY DEF Recv
<1>3. msg' = msg /\ h.pc = "recv" /\ h' = [h EXCEPT !.pc = "parse"] BY DEF Recv
<1> DEFINE piece == SubSeq(Wire(msg), sent + 1, n)
           raw == p.raw \o piece
           a == HeadLen(msg)
<1>4. /\ p'.raw = raw /\ p'.state = p.state /\ p'.body = p.body /\ p'.left = p.left
      /\ p'.size = p.size /\ p'.waiting = p.waiting
  <2> HIDE DEF raw
  <2>1. p' = [p EXCEPT !.raw = raw] BY <1>2 DEF raw
  <2> QED BY <1>1, <2>1 DEF Parser
<1>5. BodyMayCome' = BodyMayCome BY <1>3 DEF BodyMayCome, IsPlain
<1>6. p.state \notin {"COMPLETE", "ERROR"} /\ h.status = 0 BY <1>1, <1>3 DEF HandlerIs
<1>7. ASSUME p.state = "BODY_CHUNKED" PROVE ChunksAre(p)'
  <2>1. PICK c \in 0..Got :
          /\ p.raw = SubSeq(msg.tail, c + 1, Got)
          /\ p.waiting => EndAt(c) \/ Stands(p.body, c)
          /\ ~p.waiting =>
               /\ p.size \in Nat \ {0}
               /\ IF c + p.size + 2 > Len(msg.tail) THEN Decoding(msg.tail)[0] = {}
                  ELSE Stands(p.body \o SubSeq(msg.tail, c + 1, c + p.size), c + p.size + 2)
    BY <1>1, <1>7 DEF BodyIs, ChunksAre
  <2>2. /\ msg.tail \in Seq(BodyByte) /\ Len(msg.tail) \in Nat /\ a \in Nat
        /\ Got \in Int /\ Got <= Len(msg.tail)
        /\ \A i \in Nat : \A j \in i..Len(msg.tail) :
             SubSeq(Wire(msg), a + i + 1, a + j) = SubSeq(msg.tail, i + 1, j)
    BY <1>1, TailIs
  <2>3. /\ msg' \in Messages /\ sent' \in 0..Len(Wire(msg')) BY DEF InputInv
  <2> DEFINE g == Got
             m == n - a
  <2>4. m = Got' BY <1>2, <1>3 DEF Got
  <2>5. g \in Nat /\ c \in Nat /\ a + g = sent /\ n > sent
    <3>1. n > sent BY <1>1, <1>2
    <3>2. g = sent - a BY DEF Got
    <3>3. g \in Int /\ c \in 0..g /\ a \in Nat /\ sent \in Nat BY <1>1, <2>1, <2>2
    <3> HIDE DEF g, a
    <3> QED BY <3>1, <3>2, <3>3
  <2>6. m \in g..Len(msg.tail) /\ a + m = n
    <3>1. n <= Len(Wire(msg)) /\ n \in Int BY <1>1, <1>2
    <3>2. Len(Wire(msg)) = a + Len(msg.tail)
      <4>1. msg \in Message BY <1>1, MessageIs
      <4> QED BY <4>1, WireAtoms
    <3> HIDE DEF a, g
    <3> QED BY <2>2, <2>5, <3>1, <3>2
  <2> HIDE DEF a, m, g
  <2>7. piece = SubSeq(msg.tail, g + 1, m)
    <3>1. SubSeq(Wire(msg), a + g + 1, a + m) = SubSeq(msg.tail, g + 1, m)
      BY <2>2, <2>5, <2>6
    <3> QED BY <2>5, <2>6, <3>1
  <2>8. raw = SubSeq(msg.tail, c + 1, m)
    <3>1. g \in c..Len(msg.tail) BY <2>1, <2>2, <2>5 DEF g
    <3>2. SubSeq(msg.tail, c + 1, g) \o SubSeq(msg.tail, g + 1, m) = SubSeq(msg.tail, c + 1, m)
      BY <2>2, <2>5, <2>6, <3>1, BufferGrows
    <3> HIDE DEF piece
    <3> QED BY <2>1, <2>7, <3>2 DEF g
  <2>9. c \in 0..m BY <2>1, <2>5, <2>6 DEF g
  <2>10. /\ c \in 0..Got' /\ p'.raw = SubSeq(msg'.tail, c + 1, Got')
         /\ p'.waiting => EndAt(c)' \/ Stands(p.body, c)'
         /\ ~p'.waiting =>
              /\ p'.size \in Nat \ {0}
              /\ IF c + p'.size + 2 > Len(msg'.tail) THEN Decoding(msg'.tail)[0] = {}
                 ELSE Stands(p.body \o SubSeq(msg.tail, c + 1, c + p.size), c + p.size + 2)'
    <3> HIDE DEF raw
    <3> QED BY <1>3, <1>4, <2>1, <2>4, <2>8, <2>9 DEF EndAt, Stands
  <2> QED BY <2>10 DEF ChunksAre
<1>8. BodyIs(p)'
  <2> HIDE DEF raw
  <2> QED BY <1>1, <1>3, <1>4, <1>5, <1>6, <1>7 DEF BodyIs
<1>9. h'.status = 0 BY <1>1, <1>3, <1>6 DEF Handler
<1> QED BY <1>8, <1>9 DEF BodyInv

\* A turn of parseNext, and what handleRead does with its result.
LEMMA ParseKeepsBody ==
  ASSUME StandsForData(msg), InputInv, BodyInv, Parse
  PROVE  BodyInv'
<1> DEFINE r == ParseNext(p)
<1>1. /\ Received /\ ParserIs(p) /\ HandlerIs /\ h \in Handler /\ BodyIs(p)
      /\ msg' = msg /\ sent' = sent /\ p' = r.p /\ h.pc = "parse"
  BY DEF InputInv, Received, HandlerIs, Parse, BodyInv
<1>2. p.state \notin {"ERROR", "COMPLETE"} /\ h.status = 0 BY <1>1 DEF HandlerIs
<1>3. BodyIs(r.p) BY <1>1, <1>2, ParseNextBody
<1>4. BodyIs(p)' BY <1>1, <1>3, BodyStays
<1>5. Turn(p, r) BY <1>1, <1>2, ParseNextTurn
<1> HIDE DEF r
<1>6. \/ r.res = "ERROR" /\ Done(r.p.error, h.resolved)
      \/ Done(405, TRUE) \/ Done(413, TRUE)
      \/ r.p.state = "COMPLETE" /\ Done(200, TRUE)
      \/ h' = [h EXCEPT !.pc = IF r.res = "AGAIN" THEN "recv" ELSE "parse",
                        !.resolved = @ \/ r.p.state \in BodyState]
  BY DEF Parse, r
<1>7. \A status, resolved : Done(status, resolved) => h'.status = status
  BY <1>1 DEF Done, Handler
<1>8. ASSUME r.res = "ERROR", Done(r.p.error, h.resolved) PROVE h'.status # 200
  <2>1. r.p.error \in Error BY <1>5, ParserIsMadeOf DEF Turn, ParserIs
  <2> QED BY <1>7, <1>8, <2>1 DEF Error
<1>9. h'.status = 200 => r.p.state = "COMPLETE"
  <2>1. CASE r.res = "ERROR" /\ Done(r.p.error, h.resolved) BY <1>8, <2>1
  <2>2. CASE Done(405, TRUE) \/ Done(413, TRUE)
    <3>1. ASSUME NEW status, Done(status, TRUE) PROVE h'.status = status
      BY <1>1, <3>1 DEF Done, Handler
    <3>2. h'.status = 405 \/ h'.status = 413 BY <2>2, <3>1
    <3> QED BY <3>2
  <2>3. CASE r.p.state = "COMPLETE" BY <2>3
  <2>4. CASE h' = [h EXCEPT !.pc = IF r.res = "AGAIN" THEN "recv" ELSE "parse",
                           !.resolved = @ \/ r.p.state \in BodyState]
    BY <1>1, <1>2, <2>4 DEF Handler
  <2> QED BY <1>6, <2>1, <2>2, <2>3, <2>4
<1> QED BY <1>1, <1>4, <1>9 DEF BodyInv

\* Every step keeps what is known of the body.
LEMMA BodyInductive ==
  ASSUME \A m \in Messages : StandsForData(m)
  PROVE  InputInv /\ InputInv' /\ BodyInv /\ [Next]_vars => BodyInv'
<1> SUFFICES ASSUME InputInv, InputInv', BodyInv, [Next]_vars PROVE BodyInv'
  OBVIOUS
<1>1. CASE Recv BY <1>1, RecvKeepsBody
<1>2. CASE RecvEnd
  <2>1. msg' = msg /\ sent' = sent /\ p' = p /\ BodyIs(p) BY <1>2 DEF RecvEnd, BodyInv
  <2>2. BodyIs(p)' BY <2>1, BodyStays
  <2>3. h'.status = 400 BY <1>2 DEF RecvEnd, InputInv, HandlerIs, Handler
  <2> QED BY <2>2, <2>3 DEF BodyInv
<1>3. CASE Parse
  <2>1. StandsForData(msg) BY DEF InputInv
  <2> QED BY <1>3, <2>1, ParseKeepsBody
<1>4. CASE UNCHANGED vars
  <2>1. msg' = msg /\ sent' = sent /\ p' = p /\ h' = h /\ BodyIs(p) BY <1>4 DEF vars, BodyInv
  <2>2. BodyIs(p)' BY <2>1, BodyStays
  <2> QED BY <2>1, <2>2 DEF BodyInv
<1> QED BY <1>1, <1>2, <1>3, <1>4 DEF Next

\* However a body comes in, as chunks or not, and however it is segmented, the parser
\* has a beginning of what the client means, and all of it once it accepts.
THEOREM BodiesAreAsSent ==
  ASSUME \A m \in Messages : StandsForData(m)
  PROVE  Spec => []BodyIsAsSent
<1>1. Spec => []BodyInv
  <2>1. InputInv /\ InputInv' /\ BodyInv /\ [Next]_vars => BodyInv' BY BodyInductive
  <2> QED BY <2>1, BodyInit, InputInit, Input, PTL DEF Spec
<1>2. BodyInv => BodyIsAsSent BY DEF BodyInv, BodyIs, BodyIsAsSent
<1> QED BY <1>1, <1>2, PTL

-----------------------------------------------------------------------------
(* A request is not refused.                                               *)

\* A request with a body of announced length, or none.
IsGood == IsRequest(msg) /\ ~msg.coded /\ IsTidy(msg)

\* What a good request is made of.
LEMMA GoodIs ==
  ASSUME Received, IsGood
  PROVE  /\ LineIsValid(msg) /\ HeaderIsValid(msg) /\ IsPlain /\ msg.tail = msg.data
         /\ msg.line.method \in AllowedMethods /\ Len(msg.data) <= limit
         /\ Len(msg.data) <= TenMb /\ Len(msg.data) \in Nat
         /\ msg.line.method \in {"GET", "DELETE"} => Announced(msg) = {}
         /\ Announced(msg) \notin {{}, {0}} =>
              /\ Announced(msg) = {Len(msg.data)}
              /\ ~(Multipart(msg) /\ Byte("!") \in Range(msg.data))
<1>1. /\ LineIsValid(msg) /\ HeaderIsValid(msg) /\ BodyIsValid(msg) /\ ~msg.coded
      /\ msg.line.method \in AllowedMethods /\ Len(msg.data) <= limit
      /\ Len(msg.data) <= TenMb /\ msg.tail = msg.data
  BY DEF IsGood, IsRequest
<1>2. Len(msg.data) \in Nat BY TailIs, LenProperties
<1>3. ASSUME HasBody(msg)
      PROVE  /\ msg.line.method \notin {"GET", "DELETE"} /\ Announced(msg) = {Len(msg.data)}
             /\ ~(Multipart(msg) /\ Byte("!") \in Range(msg.data))
  BY <1>1, <1>3 DEF BodyIsValid
<1>4. IsPlain
  <2>1. CASE HasBody(msg)
    <3>1. Announced(msg) # {} BY <1>3, <2>1
    <3> QED BY <1>1, <3>1 DEF HeaderIsValid, IsPlain
  <2>2. CASE ~HasBody(msg) BY <2>2 DEF HasBody, IsPlain
  <2> QED BY <2>1, <2>2
<1>5. msg.line.method \in {"GET", "DELETE"} => Announced(msg) = {}
  <2>1. msg.line.method \in {"GET", "DELETE"} => 0 \notin Announced(msg) /\ ~HasBody(msg)
    BY <1>3 DEF IsGood, IsTidy
  <2> QED BY <2>1 DEF HasBody
<1>6. Announced(msg) \notin {{}, {0}} => HasBody(msg) BY DEF HasBody
<1> QED BY <1>1, <1>2, <1>3, <1>4, <1>5, <1>6

\* The parser is on its way to accept.
Accepting(q) ==
  /\ q.state \notin {"ERROR", "BODY_CHUNKED"}
  /\ q.state = "BODY_CONTENT_LENGTH" => q.left > 0

\* There is nothing in the buffer that it could take.
Starved(q) ==
  /\ q.state # "BODY_NONE"
  /\ q.state \in {"REQUEST_LINE", "HEADERS"} => ~HasEndOfLine(q.raw)
  /\ q.state = "BODY_CONTENT_LENGTH" => q.raw = <<>>

\* A turn of a good request is not refused, and asks for more only if it needs it.
Accepts(r) == /\ r.res # "ERROR" /\ Accepting(r.p)
              /\ r.res = "AGAIN" => Starved(r.p)

\* The request line of a good request.
LEMMA RequestLineAccepted ==
  ASSUME Received, IsGood, NEW q, ParserIs(q), q.state = "REQUEST_LINE"
  PROVE  Accepts(ParseRequestLine(q))
<1> DEFINE w == Wire(msg)
           l == msg.line
           r == [q EXCEPT !.raw = AfterFirstLine(@)]
           a == l = NoLine
           b == l.method = "other"
           c == l.version = "other"
           checks == <<[fails |-> a, code |-> -1], [fails |-> b, code |-> 400],
                       [fails |-> c, code |-> 505]>>
           k == FirstFault(checks)
           t == [r EXCEPT !.state = "HEADERS", !.line = l]
<1>1. q \in Parser /\ q.raw = SubSeq(w, 0 + 1, sent) BY DEF ParserIs, Buffered
<1>2. CASE ~HasEndOfLine(q.raw)
  BY <1>2 DEF ParseRequestLine, Result, Accepts, Accepting, Starved
<1>3. CASE HasEndOfLine(q.raw)
  <2>1. /\ w \in Seq(Atom) /\ w[1] = l /\ w[2] = CR /\ w[3] = LF /\ l # CR
        /\ sent \in 0..Len(w)
    BY MessageIs, WireAtoms, TextIsNoByte DEF Received
  <2>2. FirstLine(q.raw)[1] = l
    <3>1. w[0 + 1] # CR /\ w[0 + 2] = CR /\ w[0 + 3] = LF /\ 0 \in Nat BY <2>1
    <3> HIDE DEF w
    <3>2. FirstLine(q.raw)[1] = w[0 + 1] BY <1>1, <1>3, <2>1, <3>1, NextText
    <3> QED BY <2>1, <3>2
  <2>3. ParseRequestLine(q) = IF k # 0 THEN Fail(r, checks[k].code) ELSE Result("OK", t)
    BY <1>3, <2>2 DEF ParseRequestLine
  <2>4. ~a /\ ~b /\ ~c
    <3>1. l.method \in Method /\ l.version \in {"1.0", "1.1"} BY GoodIs DEF LineIsValid
    <3>2. NoLine.method = "" BY DEF NoLine
    <3> HIDE DEF l
    <3> QED BY <3>1, <3>2 DEF Method
  <2>5. k = 0
    <3>1. k # 0 => a \/ b \/ c
      <4> HIDE DEF a, b, c
      <4> QED BY LineFault
    <3> HIDE DEF k
    <3> QED BY <2>4, <3>1
  <2>6. t.state = "HEADERS" BY <1>1 DEF Parser
  <2> HIDE DEF k, t
  <2> QED BY <2>3, <2>5, <2>6 DEF Result, Accepts, Accepting
<1> QED BY <1>2, <1>3

\* A header line of a good request.
LEMMA FieldAccepted ==
  ASSUME Received, IsGood, NEW q \in Parser, q.state = "HEADERS", HasEndOfLine(q.raw),
         NEW n \in 0..Len(msg.headers) - 1, Buffered(q, 3 * n + 3), HeaderPart(q, n)
  PROVE  Accepts(ParseHeaderFields(q))
<1> DEFINE N == Len(msg.headers)
           f == msg.headers[n + 1]
           r == [q EXCEPT !.raw = AfterFirstLine(@)]
           a == f.key = ""
           b == f.key \in LengthKeys /\ Found(r, f) \ {f} # {}
           c == f.key \in {"host", "content-type"} \cup CodingKeys /\ Found(r, f) # {}
           d == f.key = "cookie" /\ (Has(r, "cookie") \/ ~f.wellFormed)
           checks == <<[fails |-> a, code |-> -1], [fails |-> b, code |-> 400],
                       [fails |-> c, code |-> 400], [fails |-> d, code |-> 400]>>
           k == FirstFault(checks)
           t == [r EXCEPT !.headers = r.headers \cup {f}]
<1>1. /\ N \in Nat /\ n \in Nat /\ n + 1 \in 1..N /\ n \in 0..N /\ n # N /\ f \in HeaderLine
      /\ DOMAIN msg.headers = 1..N
  BY MessageIs
<1>2. FirstLine(q.raw) # <<>> /\ FirstLine(q.raw)[1] = f BY <1>1, NextHeaderLine
<1>3. r.headers = {msg.headers[i] : i \in 1..n} /\ r.state = "HEADERS"
  BY DEF HeaderPart, Parser
<1> HIDE DEF r, f
<1>4. HeaderIsValid(msg) BY GoodIs
<1>5. ASSUME NEW g \in Found(r, f)
      PROVE  f.key \in LengthKeys /\ g = f
  <2>1. PICK i \in 1..n : g = msg.headers[i] /\ g.key \in SameName(f.key) BY <1>3 DEF Found
  <2>2. i \in 1..N /\ i # n + 1 BY <1>1, <2>1
  <2>3. /\ f.key \in LengthKeys /\ g.key = f.key
        /\ g.key = "content-length" => g.length = f.length
    BY <1>1, <1>4, <2>1, <2>2 DEF HeaderIsValid, f
  <2>4. g \in HeaderLine BY <2>1, <2>2, MessageIs
  <2>5. CASE f.key = "no-length"
    <3>1. f \in [key: {"no-length"}] /\ g \in [key: {"no-length"}]
      BY <1>1, <2>3, <2>4, <2>5 DEF HeaderLine
    <3> QED BY <2>3, <3>1
  <2>6. CASE f.key = "content-length"
    <3>1. /\ f \in Values(msg, "content-length") /\ g \in Values(msg, "content-length")
      BY <1>1, <2>1, <2>2, <2>3, <2>6 DEF Values, Sent, f
    <3>2. ~f.padded /\ ~g.padded BY <3>1 DEF IsGood, IsTidy
    <3>3. /\ f \in [key: {"content-length"}, length: Nat \cup {-1}, padded: BOOLEAN]
          /\ g \in [key: {"content-length"}, length: Nat \cup {-1}, padded: BOOLEAN]
      BY <1>1, <2>3, <2>4, <2>6 DEF HeaderLine
    <3>4. f.padded = FALSE /\ g.padded = FALSE BY <3>2, <3>3
    <3> QED BY <2>3, <2>6, <3>3, <3>4
  <2> QED BY <2>3, <2>5, <2>6 DEF LengthKeys
<1>6. ~a
  <2>1. n + 1 \notin Sent(msg, "") BY <1>4 DEF HeaderIsValid
  <2> QED BY <1>1, <2>1 DEF Sent, f
<1>7. ~b BY <1>5
<1>8. ~c BY <1>5 DEF LengthKeys, CodingKeys
<1>9. ~d
  <2>1. f.key = "cookie" => f \in Values(msg, "cookie") BY <1>1 DEF Values, Sent, f
  <2>2. f.key = "cookie" => f.wellFormed BY <1>4, <2>1 DEF HeaderIsValid
  <2>3. ASSUME f.key = "cookie", Has(r, "cookie") PROVE FALSE
    <3>1. PICK g \in r.headers : g.key = "cookie" BY <2>3 DEF Has, Fields
    <3>2. g \in Found(r, f) BY <2>3, <3>1 DEF Found, SameName, LengthKeys, CodingKeys
    <3> QED BY <1>5, <2>3, <3>2 DEF LengthKeys
  <2> QED BY <2>2, <2>3
<1>10. FieldChecks(r, f) = checks BY DEF FieldChecks
<1>11. ParseHeaderFields(q) = IF k # 0 THEN Fail(r, checks[k].code) ELSE Result("OK", t)
  <2> DEFINE j == FirstFault(FieldChecks(r, f))
  <2>1. ParseHeaderFields(q) = IF j # 0 THEN Fail(r, FieldChecks(r, f)[j].code)
                               ELSE Result("OK", t)
    BY <1>2 DEF ParseHeaderFields, r
  <2> HIDE DEF checks
  <2> QED BY <1>10, <2>1
<1>12. k = 0
  <2>1. k # 0 => a \/ b \/ c \/ d
    <3> HIDE DEF a, b, c, d
    <3> QED BY FieldFault
  <2> HIDE DEF k, a, b, c, d
  <2> QED BY <1>6, <1>7, <1>8, <1>9, <2>1
<1>13. t.state = "HEADERS" BY <1>3 DEF Parser, r
<1> HIDE DEF k, t
<1> QED BY <1>11, <1>12, <1>13 DEF Result, Accepts, Accepting

\* The end of the header of a good request.
LEMMA HeaderEndAccepted ==
  ASSUME Received, IsGood, NEW q, ParserIs(q), q.state = "HEADERS", HasEndOfLine(q.raw),
         NEW n, n = Len(msg.headers), Buffered(q, 3 * n + 3), HeaderPart(q, n)
  PROVE  Accepts(ParseHeaderFields(q))
<1> DEFINE raw == AfterFirstLine(q.raw)
           r == [q EXCEPT !.raw = raw]
           a == r.line.version = "1.1" /\ ~Has(r, "host")
           b == Has(r, "content-length") /\ Has(r, "transfer-encoding")
           c == \E f \in Fields(r, "transfer-encoding") : ~f.chunked \/ f.padded
           d == \E f \in Fields(r, "content-type") : f.type = "other"
           e == \E f \in Fields(r, "content-length") : f.length = -1 \/ f.padded
           g == r.line.method \in {"GET", "DELETE"} /\ BodyStateOf(r) # "BODY_NONE"
           checks == <<[fails |-> a, code |-> 400], [fails |-> b, code |-> 400],
                       [fails |-> c, code |-> 400], [fails |-> d, code |-> 415],
                       [fails |-> e, code |-> 400], [fails |-> g, code |-> 400]>>
           k == FirstFault(checks)
           code == checks[k].code
           state == BodyStateOf(r)
           left == IF state = "BODY_CONTENT_LENGTH" THEN CHOOSE x \in Lengths(r) : TRUE
                   ELSE r.left
           t == [r EXCEPT !.state = state, !.left = left]
<1>1. q \in Parser /\ q.body = <<>> BY DEF ParserIs
<1>2. FirstLine(q.raw) = <<>>
  <2>1. n \in 0..Len(msg.headers) BY MessageIs
  <2> QED BY <2>1, NextHeaderLine
<1>3. r.line = msg.line /\ r.headers = Range(msg.headers) /\ r.body = <<>>
  <2>1. r.line = q.line /\ r.headers = q.headers /\ r.body = <<>> BY <1>1 DEF Parser
  <2> HIDE DEF r
  <2> QED BY <2>1, AllLines DEF HeaderPart
<1>4. HeaderChecks(r) = checks BY DEF HeaderChecks
<1>5. ParseHeaderFields(q) = IF k # 0 THEN Fail(r, code) ELSE Result("OK", t)
  <2> DEFINE j == FirstFault(HeaderChecks(r))
  <2>1. ParseHeaderFields(q) = IF j # 0 THEN Fail(r, HeaderChecks(r)[j].code)
                               ELSE Result("OK", t)
    BY <1>2 DEF ParseHeaderFields, r
  <2> HIDE DEF checks
  <2> QED BY <1>4, <2>1
<1> HIDE DEF r
<1>6. /\ \A key : Fields(r, key) = Values(msg, key)
      /\ \A key : Has(r, key) <=> Sent(msg, key) # {}
      /\ Lengths(r) = Announced(msg) /\ (IsChunked(r) <=> ~IsPlain)
  BY <1>3, FieldsAre
<1>7. /\ HeaderIsValid(msg) /\ IsPlain
      /\ msg.line.method \in {"GET", "DELETE"} => Announced(msg) = {}
  BY GoodIs
<1>8. ~a BY <1>3, <1>6, <1>7 DEF HeaderIsValid
<1>9. Values(msg, "transfer-encoding") = {} /\ ~IsChunked(r) BY <1>6, <1>7 DEF IsPlain
<1>10. ~b /\ ~c
  <2>1. Fields(r, "transfer-encoding") = {} BY <1>6, <1>9
  <2> QED BY <2>1 DEF Has
<1>11. ~d BY <1>6, <1>7 DEF HeaderIsValid
<1>12. ~e
  <2>1. \A f \in Values(msg, "content-length") : f.length \in Announced(msg) /\ ~f.padded
    BY DEF Announced, IsGood, IsTidy
  <2> QED BY <1>6, <1>7, <2>1 DEF HeaderIsValid
<1>13. ~g BY <1>3, <1>6, <1>7, <1>9 DEF BodyStateOf
<1>14. k = 0
  <2>1. k # 0 => a \/ b \/ c \/ d \/ e \/ g
    <3> HIDE DEF a, b, c, d, e, g
    <3> QED BY HeaderFault
  <2> HIDE DEF k, a, b, c, d, e, g
  <2> QED BY <1>8, <1>10, <1>11, <1>12, <1>13, <2>1
<1>15. ParserIs(t)
  <2>1. Turn(q, ParseHeaderFields(q)) BY HeaderTurn
  <2> HIDE DEF t, k
  <2> QED BY <1>5, <1>14, <2>1 DEF Turn, Result
<1>16. t.state = state /\ t.body = <<>> /\ t.headers = r.headers
  <2>1. r \in Parser
    <3>1. raw \in Seq(Atom) BY <1>1, ParserIsMadeOf, FirstLineIs
    <3> HIDE DEF raw
    <3> QED BY <1>1, <3>1, ParserWith DEF r
  <2> HIDE DEF state, left
  <2> QED BY <1>3, <2>1 DEF Parser
<1>17. state = BodyStateOf(t)
  <2> HIDE DEF t
  <2> QED BY <1>16 DEF BodyStateOf, IsChunked, Lengths, Has, Fields
<1>18. state \notin {"ERROR", "BODY_CHUNKED"} BY <1>9 DEF BodyStateOf
<1> HIDE DEF t, state, k
<1>19. t.state = "BODY_CONTENT_LENGTH" => t.left > 0
  BY <1>15, <1>16, <1>17, LeftIsPositive
<1> QED BY <1>5, <1>14, <1>16, <1>18, <1>19 DEF Result, Accepts, Accepting

\* The body of a good request.
LEMMA LengthAccepted ==
  ASSUME Received, IsGood, NEW q, ParserIs(q), q.state = "BODY_CONTENT_LENGTH", q.left > 0
  PROVE  Accepts(ParseBodyContentLength(q))
<1> DEFINE n == Min({Len(q.raw), q.left})
           r == Take(q, n)
           s == IF IsPrefix(CRLF, r.raw)
                  THEN [r EXCEPT !.raw = SubSeq(r.raw, 3, Len(r.raw))] ELSE r
           a == HeadLen(msg)
           N == Len(msg.data)
           len == Len(r.body)
           t == [r EXCEPT !.state = "COMPLETE"]
<1>1. /\ q \in Parser /\ q.left \in Nat /\ q.raw \in Seq(Atom) /\ q.body \in Seq(BodyByte)
      /\ Announced(msg) = {Len(q.body) + q.left}
  BY DEF ParserIs, Parser, BodyState, Atom
<1>2. Len(q.body) \in Nat /\ Len(q.raw) \in Nat BY <1>1, LenProperties
<1>3. /\ Announced(msg) = {N} /\ N \in Nat /\ N <= TenMb /\ msg.tail = msg.data
      /\ ~(Multipart(msg) /\ Byte("!") \in Range(msg.data))
  <2>1. Len(q.body) + q.left # 0 BY <1>1, <1>2
  <2>2. Announced(msg) \notin {{}, {0}} BY <1>1, <2>1
  <2> QED BY <2>2, GoodIs
<1>4. Len(q.body) + q.left = N BY <1>1, <1>3
<1>5. n \in 0..Len(q.raw) /\ n <= q.left /\ n \in Nat /\ n \in {Len(q.raw), q.left}
  BY LengthCases
<1>6. r.raw = SubSeq(q.raw, n + 1, Len(q.raw)) /\ r.left = q.left - n BY LengthCases
<1>7. /\ ParserIs(r) /\ r.state = "BODY_CONTENT_LENGTH"
      /\ Announced(msg) = {len + r.left}
  BY LengthCases
<1>8. r \in Parser /\ HeaderOver(r) /\ r.left \in Nat /\ len \in Nat BY LengthCases
<1>9. ParseBodyContentLength(q) =
        IF q.raw = <<>> THEN Result("AGAIN", q)
        ELSE IF TooLarge(q, n) THEN Fail(q, 413)
        ELSE IF r.left > 0 THEN Result("AGAIN", r)
        ELSE IF s.raw # <<>> THEN Fail(s, 400)
        ELSE Finished(s)
  BY LengthCases
<1>10. IF IsPrefix(CRLF, r.raw) THEN TRUE ELSE s = r OBVIOUS
<1> HIDE DEF n, r, s, N
<1>11. CASE q.raw = <<>>
  BY <1>9, <1>11 DEF Result, Accepts, Accepting, Starved
<1>12. ~TooLarge(q, n)
  <2>1. Len(q.body) + n <= N BY <1>1, <1>2, <1>4, <1>5
  <2> QED BY <1>2, <1>3, <1>5, <2>1, RequestParserAssumption DEF TooLarge
<1>13. CASE q.raw # <<>> /\ r.left > 0
  <2>1. n # q.left BY <1>1, <1>6, <1>13
  <2>2. n = Len(q.raw) BY <1>5, <2>1
  <2>3. SubSeq(q.raw, n + 1, n) = <<>>
    <3>1. n + 1 \in Int /\ n \in Int /\ n < n + 1 BY <1>5
    <3> QED BY <3>1, SubSeqEmpty
  <2>4. r.raw = <<>> BY <1>6, <2>2, <2>3
  <2>5. ParseBodyContentLength(q) = Result("AGAIN", r) BY <1>9, <1>12, <1>13
  <2> QED BY <1>7, <1>13, <2>4, <2>5 DEF Result, Accepts, Accepting, Starved
<1>14. CASE q.raw # <<>> /\ ~(r.left > 0)
  <2>1. len = N
    <3>1. r.left = 0 BY <1>8, <1>14
    <3>2. len + r.left = N BY <1>3, <1>7
    <3> QED BY <1>8, <3>1, <3>2
  <2>2. /\ a + len \in 0..sent /\ r.raw = SubSeq(Wire(msg), a + len + 1, sent)
        /\ r.body = SubSeq(Wire(msg), a + 1, a + len)
    BY <1>7 DEF ParserIs, Buffered
  <2>3. /\ Got \in Int /\ Got <= Len(msg.tail) /\ a \in Nat
        /\ \A c \in Nat : \A m \in c..Len(msg.tail) :
             SubSeq(Wire(msg), a + c + 1, a + m) = SubSeq(msg.tail, c + 1, m)
    BY TailIs
  <2>4. sent \in Nat BY MessageIs
  <2>5. N = Len(msg.tail) BY <1>3 DEF N
  <2> HIDE DEF a, len
  <2>6. a + len = sent
    <3>1. Got = sent - a BY DEF Got, a
    <3>2. sent - a <= len BY <2>1, <2>3, <2>5, <3>1
    <3> QED BY <1>8, <2>2, <2>3, <2>4, <3>2
  <2>7. r.raw = <<>>
    <3>1. sent + 1 \in Int /\ sent \in Int /\ sent < sent + 1 BY <2>4
    <3>2. SubSeq(Wire(msg), sent + 1, sent) = <<>> BY <3>1, SubSeqEmpty
    <3> QED BY <2>2, <2>6, <3>2
  <2>8. s = r
    <3>1. ~IsPrefix(CRLF, <<>>) BY LineEndBytes DEF IsPrefix
    <3> QED BY <1>10, <2>7, <3>1
  <2>9. r.body = msg.data
    <3>1. 0 \in Nat /\ len \in 0..Len(msg.tail) BY <1>8, <2>1, <2>5
    <3>2. SubSeq(Wire(msg), a + 0 + 1, a + len) = SubSeq(msg.tail, 0 + 1, len) BY <2>3, <3>1
    <3>3. a + 0 + 1 = a + 1 /\ 0 + 1 = 1 BY <2>3
    <3>4. r.body = SubSeq(msg.tail, 1, Len(msg.tail)) BY <2>1, <2>2, <2>5, <3>2, <3>3
    <3>5. msg.tail \in Seq(BodyByte) BY TailIs
    <3>6. SubSeq(msg.tail, 1, Len(msg.tail)) = msg.tail BY <3>5, SubSeqFull
    <3> QED BY <1>3, <3>4, <3>6
  <2>10. Finished(r) = Result("OK", t)
    <3>1. r.headers = Range(msg.headers) BY <1>8 DEF HeaderOver
    <3>2. IsMultipart(r) <=> Multipart(msg) BY <3>1, FieldsAre
    <3>3. ~(IsMultipart(r) /\ Byte("!") \in Range(r.body)) BY <1>3, <2>9, <3>2
    <3> QED BY <3>3 DEF Finished
  <2>11. t.state = "COMPLETE" BY <1>8 DEF Parser
  <2> HIDE DEF t
  <2>12. ParseBodyContentLength(q) = Result("OK", t)
    BY <1>9, <1>12, <1>14, <2>7, <2>8, <2>10
  <2> QED BY <2>11, <2>12 DEF Result, Accepts, Accepting
<1> QED BY <1>11, <1>13, <1>14

\* Every turn of a good request.
LEMMA ParseNextAccepts ==
  ASSUME Received, IsGood, NEW q, ParserIs(q), Accepting(q), q.state # "COMPLETE"
  PROVE  Accepts(ParseNext(q))
<1>1. /\ q \in Parser
      /\ q.state \in {"REQUEST_LINE", "HEADERS", "BODY_CONTENT_LENGTH", "BODY_NONE"}
  BY DEF ParserIs, Parser, BodyState, Accepting
<1>2. CASE q.state = "REQUEST_LINE"
  BY <1>2, RequestLineAccepted DEF ParseNext
<1>3. CASE q.state = "HEADERS"
  <2>1. ParseNext(q) = ParseHeaderFields(q) BY <1>3 DEF ParseNext
  <2>2. CASE ~HasEndOfLine(q.raw)
    <3>1. ParseHeaderFields(q) = Result("AGAIN", q) BY <2>2 DEF ParseHeaderFields
    <3> QED BY <1>3, <2>1, <2>2, <3>1 DEF Result, Accepts, Accepting, Starved
  <2>3. CASE HasEndOfLine(q.raw)
    <3>1. PICK n \in 0..Len(msg.headers) : Buffered(q, 3 * n + 3) /\ HeaderPart(q, n)
      BY <1>3 DEF ParserIs
    <3>2. CASE n = Len(msg.headers) BY <1>3, <2>1, <2>3, <3>1, <3>2, HeaderEndAccepted
    <3>3. CASE n # Len(msg.headers)
      <4>1. n \in 0..Len(msg.headers) - 1 BY <3>3, MessageIs
      <4> QED BY <1>1, <1>3, <2>1, <2>3, <3>1, <4>1, FieldAccepted
    <3> QED BY <3>2, <3>3
  <2> QED BY <2>2, <2>3
<1>4. CASE q.state = "BODY_CONTENT_LENGTH"
  BY <1>4, LengthAccepted DEF ParseNext, Accepting
<1>5. CASE q.state = "BODY_NONE"
  <2> DEFINE t == [q EXCEPT !.state = "COMPLETE"]
  <2>1. t.state = "COMPLETE" BY <1>1 DEF Parser
  <2>2. ParseNext(q) = Result("OK", t) BY <1>5 DEF ParseNext
  <2> HIDE DEF t
  <2> QED BY <2>1, <2>2 DEF Result, Accepts, Accepting
<1> QED BY <1>1, <1>2, <1>3, <1>4, <1>5

\* A good request that is not over has more to come, or the parser is not done with
\* what has come.
LEMMA MoreToCome ==
  ASSUME Received, IsGood, NEW q, ParserIs(q), Accepting(q), Starved(q), q.state # "COMPLETE"
  PROVE  sent # Len(Wire(msg))
<1> SUFFICES ASSUME sent = Len(Wire(msg)) PROVE FALSE
  OBVIOUS
<1> DEFINE w == Wire(msg)
           N == Len(msg.headers)
           m == Len(msg.tail)
<1>1. /\ w \in Seq(Atom) /\ w[2] = CR /\ w[3] = LF
      /\ \A i \in 1..N : w[3 * i + 2] = CR /\ w[3 * i + 3] = LF
      /\ w[3 * N + 4] = CR /\ w[3 * N + 5] = LF
  BY MessageIs, WireAtoms
<1>2. N \in Nat /\ m \in Nat /\ HeadLen(msg) = 3 * N + 5 /\ Len(w) = HeadLen(msg) + m
  BY MessageIs, WireAtoms DEF HeadLen
<1> HIDE DEF w, N, m
<1>3. sent = 3 * N + 5 + m /\ sent \in Nat /\ Len(w) = sent
  <2>1. Len(w) = sent BY DEF w
  <2> QED BY <1>2, <2>1
<1>4. q.state \in {"REQUEST_LINE", "HEADERS", "BODY_CONTENT_LENGTH"}
  BY DEF ParserIs, Parser, BodyState, Accepting, Starved
<1>5. ASSUME NEW k \in Nat, k <= sent, NEW e \in 1..sent - k - 1,
             w[k + e] = CR, w[k + e + 1] = LF, q.raw = SubSeq(w, k + 1, sent)
      PROVE  HasEndOfLine(q.raw)
  <2>1. sent \in k..Len(w) BY <1>5, <1>3
  <2> QED BY <1>1, <1>5, <2>1, LineIsThere
<1>6. CASE q.state = "REQUEST_LINE"
  <2>1. q.raw = SubSeq(w, 0 + 1, sent) BY <1>6 DEF ParserIs, Buffered, w
  <2>2. 2 \in 1..sent - 0 - 1 /\ 0 \in Nat /\ 0 <= sent /\ 0 + 2 = 2 /\ 0 + 2 + 1 = 3 BY <1>2, <1>3
  <2>3. HasEndOfLine(q.raw) BY <1>1, <1>5, <2>1, <2>2
  <2> QED BY <1>6, <2>3 DEF Starved
<1>7. CASE q.state = "HEADERS"
  <2>1. PICK n \in 0..N : q.raw = SubSeq(w, 3 * n + 3 + 1, sent)
    BY <1>7 DEF ParserIs, Buffered, w, N
  <2> DEFINE k == 3 * n + 3
  <2>2. k \in Nat /\ k <= sent BY <1>2, <1>3
  <2>3. CASE n = N
    <3>1. 1 \in 1..sent - k - 1 BY <1>2, <1>3, <2>3
    <3>2. k + 1 = 3 * N + 4 /\ k + 1 + 1 = 3 * N + 5 BY <1>2, <2>3
    <3>3. w[k + 1] = CR /\ w[k + 1 + 1] = LF BY <1>1, <3>2
    <3> HIDE DEF k
    <3>4. HasEndOfLine(q.raw) BY <1>5, <2>1, <2>2, <3>1, <3>3 DEF k
    <3> QED BY <1>7, <3>4 DEF Starved
  <2>4. CASE n # N
    <3>1. n + 1 \in 1..N BY <1>2, <2>4
    <3>2. 2 \in 1..sent - k - 1 BY <1>2, <1>3, <3>1
    <3>3. k + 2 = 3 * (n + 1) + 2 /\ k + 2 + 1 = 3 * (n + 1) + 3 BY <1>2
    <3>4. w[k + 2] = CR /\ w[k + 2 + 1] = LF BY <1>1, <3>1, <3>3
    <3> HIDE DEF k
    <3>5. HasEndOfLine(q.raw) BY <1>5, <2>1, <2>2, <3>2, <3>4 DEF k
    <3> QED BY <1>7, <3>5 DEF Starved
  <2> QED BY <2>3, <2>4
<1>8. CASE q.state = "BODY_CONTENT_LENGTH"
  <2> DEFINE a == HeadLen(msg)
             b == Len(q.body)
  <2>1. /\ a + b \in 0..sent /\ q.raw = SubSeq(w, a + b + 1, sent)
        /\ Announced(msg) = {b + q.left} /\ q \in Parser
    BY <1>8 DEF ParserIs, Buffered, w
  <2>2. /\ q.left \in Nat /\ q.left > 0 /\ b \in Nat
    BY <1>8, <2>1, ParserIsMadeOf, LenProperties DEF Accepting
  <2>3. b + q.left = m
    <3>1. b + q.left # 0 BY <2>2
    <3>2. Announced(msg) \notin {{}, {0}} BY <2>1, <3>1
    <3>3. Announced(msg) = {Len(msg.data)} /\ msg.tail = msg.data BY <3>2, GoodIs
    <3> QED BY <2>1, <3>3 DEF m
  <2>4. Len(q.raw) = 0 BY <1>8 DEF Starved
  <2>5. a \in Nat /\ sent = a + m BY <1>2, <1>3
  <2> HIDE DEF a, b
  <2>6. Len(q.raw) = sent - (a + b)
    <3>1. a + b \in Nat /\ sent \in a + b..Len(w) BY <1>3, <2>1, <2>2, <2>5
    <3> DEFINE k == a + b
    <3> HIDE DEF k
    <3>2. k \in Nat /\ sent \in k..Len(w) BY <3>1 DEF k
    <3>3. Len(SubSeq(w, k + 1, sent)) = sent - k BY <1>1, <3>2, PieceIs
    <3> QED BY <2>1, <3>3 DEF k
  <2> QED BY <1>2, <2>2, <2>3, <2>4, <2>5, <2>6
<1> QED BY <1>4, <1>6, <1>7, <1>8

\* How a good request gets on.
RequestInv ==
  IsGood =>
    /\ Accepting(p) /\ (h.pc # "ended" => h.status \in {0, 200})
    /\ h.pc = "recv" => Starved(p)
    /\ h.pc = "done" => h.status = 200
    /\ h.pc = "ended" => sent # Len(Wire(msg))

\* At the start nothing has come.
LEMMA RequestInit == Init => RequestInv
<1>1. Len(<<>>) - 1 = -1 /\ 1..-1 = {} OBVIOUS
<1>2. LineEnds(<<>>) = {} BY <1>1 DEF LineEnds
<1> QED BY <1>2 DEF Init, RequestInv, Accepting, Starved, HasEndOfLine

\* A turn of parseNext, and what handleRead does with its result.
LEMMA ParseKeepsRequest == InputInv /\ RequestInv /\ Parse => RequestInv'
<1> SUFFICES ASSUME InputInv, RequestInv, Parse, IsGood PROVE RequestInv'
  <2>1. ~IsGood /\ Parse => ~IsGood' BY DEF Parse, IsGood, IsRequest
  <2> QED BY <2>1 DEF RequestInv
<1> DEFINE r == ParseNext(p)
<1>1. /\ Received /\ ParserIs(p) /\ HandlerIs /\ h \in Handler /\ Accepting(p) /\ limit \in Nat
      /\ msg' = msg /\ sent' = sent /\ p' = r.p /\ h.pc = "parse"
  BY RequestParserAssumption DEF InputInv, Received, HandlerIs, Parse, RequestInv
<1>2. p.state \notin {"ERROR", "COMPLETE"} /\ h.status = 0 BY <1>1 DEF HandlerIs
<1>3. Accepts(r) BY <1>1, <1>2, ParseNextAccepts
<1>4. Turn(p, r) BY <1>1, <1>2, ParseNextTurn
<1> HIDE DEF r
<1>5. ParserIs(r.p) BY <1>4 DEF Turn
<1>6. ~MethodRefused(r.p) /\ ~SizeRefused(r.p)
  <2> SUFFICES ASSUME r.p.state \in BodyState
               PROVE  /\ r.p.line.method \in AllowedMethods
                      /\ \A n \in Lengths(r.p) : n \in Nat /\ n <= limit
    BY <1>1 DEF MethodRefused, SizeRefused, Over
  <2>1. HeaderOver(r.p) BY <1>5 DEF ParserIs
  <2>2. r.p.line = msg.line /\ Lengths(r.p) = Announced(msg) BY <1>1, <2>1, FieldsAre DEF HeaderOver
  <2>3. /\ msg.line.method \in AllowedMethods /\ Len(msg.data) <= limit /\ Len(msg.data) \in Nat
        /\ Announced(msg) \notin {{}, {0}} => Announced(msg) = {Len(msg.data)}
    BY <1>1, GoodIs
  <2>4. \A n \in Announced(msg) : n \in Nat /\ n <= limit BY <1>1, <2>3
  <2> QED BY <2>2, <2>3, <2>4
<1>7. \/ r.res = "OK" /\ Done(200, TRUE)
      \/ h' = [h EXCEPT !.pc = IF r.res = "AGAIN" THEN "recv" ELSE "parse",
                        !.resolved = @ \/ r.p.state \in BodyState]
  BY <1>3, <1>6 DEF Parse, r, Accepts
<1>8. CASE r.res = "OK" /\ Done(200, TRUE)
  <2>1. h'.pc = "done" /\ h'.status = 200 BY <1>1, <1>8 DEF Done, Handler
  <2> QED BY <1>1, <1>3, <2>1 DEF RequestInv, Accepts, Accepting
<1>9. CASE h' = [h EXCEPT !.pc = IF r.res = "AGAIN" THEN "recv" ELSE "parse",
                         !.resolved = @ \/ r.p.state \in BodyState]
  <2>1. /\ h'.status = 0 /\ h'.pc \notin {"done", "ended"} /\ (h'.pc = "recv" => r.res = "AGAIN")
    BY <1>1, <1>2, <1>9 DEF Handler
  <2> QED BY <1>1, <1>3, <2>1 DEF RequestInv, Accepts, Accepting, Starved
<1> QED BY <1>7, <1>8, <1>9

\* No step refuses a good request.
LEMMA RequestInductive ==
  InputInv /\ InputInv' /\ RequestInv /\ [Next]_vars => RequestInv'
<1> SUFFICES ASSUME InputInv, InputInv', RequestInv, [Next]_vars PROVE RequestInv'
  OBVIOUS
<1>1. msg' = msg /\ limit' = limit BY DEF Next, Recv, RecvEnd, Parse, vars
<1>2. IsGood' <=> IsGood BY <1>1 DEF IsGood, IsRequest
<1>3. h \in Handler /\ p \in Parser BY DEF InputInv, HandlerIs, ParserIs
<1>4. CASE Recv
  <2>1. PICK raw : p' = [p EXCEPT !.raw = raw]
    <3>1. \E n : p' = [p EXCEPT !.raw = p.raw \o SubSeq(Wire(msg), sent + 1, n)] BY <1>4 DEF Recv
    <3> QED BY <3>1
  <2>2. p'.state = p.state /\ p'.left = p.left BY <1>3, <2>1 DEF Parser
  <2>3. h'.pc = "parse" /\ h'.status = h.status /\ h.pc = "recv" BY <1>3, <1>4 DEF Recv, Handler
  <2> QED BY <1>2, <2>2, <2>3 DEF RequestInv, Accepting
<1>5. CASE RecvEnd
  <2>1. h.pc = "recv" /\ Received /\ ParserIs(p) /\ HandlerIs
    BY <1>5 DEF RecvEnd, InputInv, Received
  <2>2. p.state # "COMPLETE" BY <2>1 DEF HandlerIs
  <2>3. IsGood => sent # Len(Wire(msg)) BY <2>1, <2>2, MoreToCome DEF RequestInv
  <2>4. h'.pc = "ended" /\ sent' = sent /\ p' = p BY <1>3, <1>5 DEF RecvEnd, Handler
  <2> QED BY <1>1, <1>2, <2>3, <2>4 DEF RequestInv, Accepting
<1>6. CASE Parse BY <1>6, ParseKeepsRequest
<1>7. CASE UNCHANGED vars
  <2>1. p' = p /\ h' = h /\ sent' = sent BY <1>7 DEF vars
  <2> QED BY <1>1, <1>2, <2>1 DEF RequestInv, Accepting, Starved
<1> QED BY <1>4, <1>5, <1>6, <1>7 DEF Next

\* However the bytes are segmented, a client that sent a request, and all of it, is
\* not refused, if its body is not chunked.
THEOREM PlainRequestsAreAccepted ==
  ASSUME \A m \in Messages : ~m.coded => IsTidy(m)
  PROVE  Spec => []AcceptsPlainRequests
<1>1. Spec => []RequestInv
  <2>1. InputInv /\ InputInv' /\ RequestInv /\ [Next]_vars => RequestInv' BY RequestInductive
  <2> QED BY <2>1, RequestInit, Input, PTL DEF Spec
<1>2. InputInv /\ RequestInv => AcceptsPlainRequests
  <2>1. InputInv /\ ~msg.coded /\ IsRequest(msg) => IsGood BY DEF InputInv, IsGood
  <2> QED BY <2>1 DEF RequestInv, AcceptsPlainRequests, AcceptsEveryRequest
<1> QED BY <1>1, <1>2, Input, PTL
=============================================================================
