-------------------------- MODULE RequestParserProps --------------------------
(***************************************************************************)
(* What the parser owes a client, said of the message as a whole: nothing  *)
(* here knows of segments, of buffers or of the order of the checks.       *)
(***************************************************************************)
EXTENDS RequestParser

\* Every variable is of its type: in particular the count of bytes that are left
\* is never negative, where the code's size_t would wrap.
TypeOK == /\ msg \in Message
          /\ limit \in Limits
          /\ sent \in 0..Len(Wire(msg))
          /\ p \in Parser
          /\ h \in Handler

-----------------------------------------------------------------------------
(* Which messages are requests.                                            *)

Sent(m, key)  == {i \in DOMAIN m.headers : m.headers[i].key = key}
Values(m, key) == {m.headers[i] : i \in Sent(m, key)}
Announced(m)  == {f.length : f \in Values(m, "content-length")}
Multipart(m)  == \E f \in Values(m, "content-type") : f.type = "multipart"

LineIsValid(m) == m.line.method \in Method /\ m.line.version \in {"1.0", "1.1"}

\* The header, as src/src/http/RequestParser.cpp describes it above each check.
HeaderIsValid(m) ==
  /\ Sent(m, "") = {}
  /\ m.line.version = "1.1" => Sent(m, "host") # {}
  /\ \A i, j \in DOMAIN m.headers :
       i # j /\ m.headers[j].key \in SameName(m.headers[i].key) =>
         /\ m.headers[i].key \in LengthKeys /\ m.headers[i].key = m.headers[j].key
         /\ m.headers[i].key = "content-length" => m.headers[i].length = m.headers[j].length
  /\ Announced(m) = {} \/ Values(m, "transfer-encoding") = {}
  /\ \A f \in Values(m, "transfer-encoding") : f.chunked
  /\ \A f \in Values(m, "content-type") : f.type # "other"
  /\ \A f \in Values(m, "cookie") : f.wellFormed
  /\ -1 \notin Announced(m)

HasBody(m) == Values(m, "transfer-encoding") # {} \/ Announced(m) \notin {{}, {0}}

\* The body is there, is allowed, and its parts are well formed.
BodyIsValid(m) ==
  HasBody(m) =>
    /\ m.line.method \notin {"GET", "DELETE"}
    /\ IF m.coded THEN Announced(m) = {} ELSE Announced(m) = {Len(m.data)}
    /\ ~(Multipart(m) /\ Byte("!") \in Range(m.data))

\* A request the location takes, and nothing after it.
IsRequest(m) == /\ LineIsValid(m) /\ HeaderIsValid(m) /\ BodyIsValid(m)
                /\ m.line.method \in AllowedMethods
                /\ Len(m.data) <= limit /\ Len(m.data) <= TenMb
                /\ m.coded \/ m.tail = m.data

-----------------------------------------------------------------------------
(* What a tail stands for.  The fields data and coded of a message have no *)
(* part in what happens: they are there to compare the parser with.        *)

\* The chunk that begins after the first c bytes: its data and where the next one
\* begins, or, where there is no next, whether the body ends here as it should.  What
\* comes after the data is not looked at.  A size of 0 with no empty line after it is
\* passed over: the parser may refuse it or read on, see AcceptsEveryRequest.
ChunkAt(tail, c) ==
  LET rest == SubSeq(tail, c + 1, Len(tail))
      size == Number(FirstLine(rest))
      a    == c + Len(rest) - Len(AfterFirstLine(rest))
      End(what)        == [data |-> <<>>, next |-> c, ends |-> what]
      Before(d, place) == [data |-> d, next |-> place, ends |-> {}]
  IN  IF ~HasEndOfLine(rest) \/ size = -1 THEN End({})
      ELSE IF size \in Nat \ {0}
        THEN IF a + size + 2 > Len(tail) THEN End({})
             ELSE Before(SubSeq(tail, a + 1, a + size), a + size + 2)
      ELSE IF IsPrefix(CRLF, AfterFirstLine(rest)) THEN End({<<>>})
      ELSE Before(<<>>, a)

\* From each place on what the chunks amount to, {} if they come to no end.
Decoding(tail) ==
  LET D[c \in 0..Len(tail)] ==
        LET chunk == ChunkAt(tail, c) IN
        IF chunk.next = c THEN chunk.ends ELSE {chunk.data \o d : d \in D[chunk.next]}
  IN  D

\* data is what the tail stands for, by what the header says of it, and coded is set
\* if that is chunks.  Every header and tail have such data.
StandsForData(m) ==
  /\ m.coded => Values(m, "transfer-encoding") # {}
  /\ Values(m, "transfer-encoding") # {} =>
       Decoding(m.tail)[0] = IF m.coded THEN {m.data} ELSE {}
  /\ Values(m, "transfer-encoding") = {} =>
       \A n \in 1..Len(m.tail) : Announced(m) = {n} => m.data = SubSeq(m.tail, 1, n)

\* White space after a number or a coding, and the empty body that a GET or DELETE
\* announces, are not taken.
IsTidy(m) ==
  /\ \A f \in Values(m, "content-length") \cup Values(m, "transfer-encoding") : ~f.padded
  /\ m.line.method \in {"GET", "DELETE"} => 0 \notin Announced(m)

-----------------------------------------------------------------------------
(* Invariants.                                                             *)

\* However the bytes were segmented, the header of a request that is accepted is
\* the one the client sent, and it is a valid one: the checks are made line by
\* line on what has been read so far, and again at the end on what was kept.
AcceptsHeaderSent ==
  h.status = 200 =>
    /\ LineIsValid(msg) /\ HeaderIsValid(msg)
    /\ p.line = msg.line /\ p.headers = Range(msg.headers)

\* So is its body.  What has been decoded of chunks is at any time a beginning of
\* the client's data: no size line, no CRLF and no byte of another chunk gets into
\* it, and its order is the order it was sent in.  Once accepted it is all of it.
BodyIsAsSent ==
  /\ msg.coded => IsPrefix(p.body, msg.data)
  /\ h.status = 200 =>
       BodyIsValid(msg) /\ p.body = IF HasBody(msg) THEN msg.data ELSE <<>>

\* However the bytes were segmented, a client that sent a request, and all of it,
\* is not refused.
AcceptsEveryRequest ==
  /\ h.pc = "done" \/ (h.pc = "ended" /\ sent = Len(Wire(msg)))
  /\ IsRequest(msg)
  => h.status = 200

\* The same of a request that is not chunked.
AcceptsPlainRequests == ~msg.coded => AcceptsEveryRequest

\* While a body of known length comes in, what has been received is the header,
\* the body so far and the buffer, and what is left to come is what the header
\* announced less what has come: no byte is lost, doubled or misplaced between
\* two segments.
InputIsKept ==
  p.state = "BODY_CONTENT_LENGTH" =>
    /\ SubSeq(Wire(msg), 1, sent)
         = SubSeq(Wire(msg), 1, Len(Wire(msg)) - Len(msg.tail)) \o p.body \o p.raw
    /\ Announced(msg) = {Len(p.body) + p.left}

\* A refusal names a fault the message has.
RefusesForAReason ==
  h.pc = "done" =>
    /\ h.status = 405 => msg.line.method \notin AllowedMethods
    /\ h.status = 413 => \E n \in Announced(msg) : n > limit \/ n > TenMb
    /\ h.status = 415 => \E f \in Values(msg, "content-type") : f.type = "other"
    /\ h.status = 505 => msg.line.version = "other"
    /\ h.status = -1  => msg.line = NoLine \/ Sent(msg, "") # {}

\* No body larger than client_max_body_size gets through, if its length is
\* announced: nothing looks at the length of a chunked one.
AnnouncedLimitIsRespected ==
  Values(msg, "transfer-encoding") = {} /\ h.status = 200 => Len(p.body) <= limit

\* A turn of handleRead's loop, or of parseBodyChunked's, that leads to another
\* one has taken something out of the buffer: as the buffer is finite, the loop
\* comes to an end and the server's single thread to its other clients.
EveryTurnConsumes ==
  h.pc = "parse" =>
    LET r == ParseNext(p) IN
    r.res = "OK" => r.p.state = "COMPLETE" \/ Len(r.p.raw) < Len(p.raw)
=============================================================================
