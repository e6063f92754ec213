---------------------------- MODULE RequestParser ----------------------------
(***************************************************************************)
(* The request parser (src/src/http/RequestParser.cpp) and the loop of     *)
(* ConnectionHandler::handleRead that feeds it.  The client's bytes arrive *)
(* in segments it does not choose: each recv() appends one to the buffer,  *)
(* and parseNext() is called until it asks for more, refuses the request,  *)
(* or has all of it.                                                       *)
(*                                                                         *)
(* The input is a sequence of atoms.  The text of a request line or of a   *)
(* header line is one atom, because the parser does nothing with a line    *)
(* before its CRLF is there.  CR, LF and every byte after the header are   *)
(* atoms of their own: a segment may end between any two of them.          *)
(***************************************************************************)
EXTENDS Integers, SequencesExt

CONSTANTS Messages,       \* what a client may send, see Message
          AllowedMethods, \* of the location the request is for
          Limits,         \* what client_max_body_size may be
          TenMb           \* ten_mb, the largest body that is taken

Method == {"GET", "POST", "DELETE"}

-----------------------------------------------------------------------------
(* Atoms and messages.                                                     *)

\* The words of a request line; a line without three words has none.
RequestLine == [method: Method \cup {"other"}, version: {"1.0", "1.1", "other"}]
                 \cup {[method |-> "", version |-> ""]}
NoLine      == [method |-> "", version |-> ""]

\* A header line: its name, in lower case, and what matters of its value.  The
\* key "" stands for a line with no colon or with nothing before it, length -1
\* for one that is no number, padded for white space after the value.  The
\* keys "no-length" and "no-coding" are a Content-Length and a Transfer-Encoding with an
\* empty value, which are found by their names but mean nothing; an empty Content-Type
\* is "plain" here.
HeaderLine == [key: {"", "host", "no-length", "no-coding"}]
                \cup [key: {"content-length"}, length: Nat \cup {-1}, padded: BOOLEAN]
                \cup [key: {"transfer-encoding"}, chunked: BOOLEAN, padded: BOOLEAN]
                \cup [key: {"content-type"}, type: {"plain", "multipart", "other"}]
                \cup [key: {"cookie"}, wellFormed: BOOLEAN]

\* The bytes of a body.  "!" stands for whatever MultipartParser::parse refuses in a
\* multipart body.
Digit(n) == [digit |-> n]
Byte(b)  == [byte |-> b]
CR       == Byte("CR")
LF       == Byte("LF")
CRLF     == <<CR, LF>>
BodyByte == {Digit(n) : n \in 0..9} \cup {Byte(b) : b \in {"x", "!", ";", " ", "CR", "LF"}}

\* tail follows the header; it stands for data, as chunks when coded is set.
Message == [line: RequestLine, headers: Seq(HeaderLine), tail: Seq(BodyByte),
            data: Seq(BodyByte), coded: BOOLEAN]

\* Every text followed by a CRLF.
Terminated(texts) == [i \in 1..3 * Len(texts) |->
                        IF i % 3 = 1 THEN texts[(i + 2) \div 3]
                        ELSE IF i % 3 = 2 THEN CR ELSE LF]

Wire(m) == Terminated(<<m.line>> \o m.headers) \o CRLF \o m.tail

ASSUME RequestParserAssumption ==
  Messages \subseteq Message /\ Limits \subseteq Nat /\ TenMb \in Nat

VARIABLES msg,   \* what this client sends
          limit, \* client_max_body_size of the location
          sent,  \* how many of its atoms have been received
          p,     \* the RequestParser
          h      \* handleRead: where it is, server_resolved_, and the status given
                 \* to prepareResponse

vars == <<msg, limit, sent, p, h>>

BodyState == {"BODY_CONTENT_LENGTH", "BODY_CHUNKED", "BODY_NONE", "COMPLETE"}

Parser == [state: {"REQUEST_LINE", "HEADERS", "ERROR"} \cup BodyState,
           error: {-1, 400, 413, 415, 505}, left: Nat, size: Nat, waiting: BOOLEAN,
           raw: Seq(RequestLine \cup HeaderLine \cup BodyByte),
           line: RequestLine, headers: SUBSET HeaderLine, body: Seq(BodyByte)]

Handler == [pc: {"recv", "parse", "done", "ended"}, resolved: BOOLEAN,
            status: {0, -1, 200, 400, 405, 413, 415, 505}]

Init == /\ msg \in Messages
        /\ limit \in Limits
        /\ sent = 0
        /\ p = [state |-> "REQUEST_LINE", error |-> -1, left |-> 0, size |-> 0,
                waiting |-> TRUE, raw |-> <<>>, line |-> NoLine, headers |-> {},
                body |-> <<>>]
        /\ h = [pc |-> "recv", resolved |-> FALSE, status |-> 0]

-----------------------------------------------------------------------------
(* Helpers.  A parse function gives parseNext()'s result and the parser    *)
(* it leaves behind.                                                       *)

Result(res, q) == [res |-> res, p |-> q]
Fail(q, code)  == Result("ERROR", [q EXCEPT !.state = "ERROR", !.error = code])

\* The first check of a list that fails gives the error code.
FirstFault(checks) == SelectInSeq(checks, LAMBDA k : k.fails)

LineEnds(s)       == {i \in 1..Len(s) - 1 : s[i] = CR /\ s[i + 1] = LF}
HasEndOfLine(s)   == LineEnds(s) # {}
FirstLine(s)      == SubSeq(s, 1, Min(LineEnds(s)) - 1)
AfterFirstLine(s) == SubSeq(s, Min(LineEnds(s)) + 2, Len(s))

Fields(q, key) == {f \in q.headers : f.key = key}
Has(q, key)    == Fields(q, key) # {}

\* What hasHeader finds under the name of f, whatever its value.
LengthKeys    == {"content-length", "no-length"}
CodingKeys    == {"transfer-encoding", "no-coding"}
SameName(key) == IF key \in LengthKeys THEN LengthKeys
                 ELSE IF key \in CodingKeys THEN CodingKeys ELSE {key}
Found(q, f)   == {g \in q.headers : g.key \in SameName(f.key)}

-----------------------------------------------------------------------------
(* parseRequestLine, parseHeaderFields.                                    *)

\* A line that has not three words is refused with error_code_ still at -1.
ParseRequestLine(q) ==
  IF ~HasEndOfLine(q.raw) THEN Result("AGAIN", q)
  ELSE LET l == FirstLine(q.raw)[1]
           r == [q EXCEPT !.raw = AfterFirstLine(@)]
           checks == <<[fails |-> l = NoLine, code |-> -1],
                       [fails |-> l.method = "other", code |-> 400],
                       [fails |-> l.version = "other", code |-> 505]>>
           k == FirstFault(checks)
       IN  IF k # 0 THEN Fail(r, checks[k].code)
           ELSE Result("OK", [r EXCEPT !.state = "HEADERS", !.line = l])

\* Mistake: a second Content-Length is refused whatever it says.
FieldChecksOnce(q, f) ==
  << [fails |-> f.key = "", code |-> -1],
     [fails |-> f.key \in LengthKeys /\ Found(q, f) # {}, code |-> 400],
     [fails |-> f.key \in {"host", "content-type"} \cup CodingKeys /\ Found(q, f) # {},
      code |-> 400],
     [fails |-> f.key = "cookie" /\ (Has(q, "cookie") \/ ~f.wellFormed), code |-> 400] >>

\* Mistake: only Host is refused a second time.
FieldChecksRepeat(q, f) ==
  << [fails |-> f.key = "", code |-> -1],
     [fails |-> f.key \in LengthKeys /\ Found(q, f) \ {f} # {}, code |-> 400],
     [fails |-> f.key = "host" /\ Has(q, f.key), code |-> 400],
     [fails |-> f.key = "cookie" /\ (Has(q, "cookie") \/ ~f.wellFormed), code |-> 400] >>

\* parseHeaderField: the name, the fields that may come once, the cookies.
FieldChecks(q, f) ==
  << [fails |-> f.key = "", code |-> -1],
     [fails |-> f.key \in LengthKeys /\ Found(q, f) \ {f} # {}, code |-> 400],
     [fails |-> f.key \in {"host", "content-type"} \cup CodingKeys /\ Found(q, f) # {},
      code |-> 400],
     [fails |-> f.key = "cookie" /\ (Has(q, "cookie") \/ ~f.wellFormed), code |-> 400] >>

IsChunked(q) == Has(q, "transfer-encoding")
Lengths(q)   == {f.length : f \in Fields(q, "content-length")}

BodyStateOf(q) == IF IsChunked(q) THEN "BODY_CHUNKED"
                  ELSE IF Lengths(q) = {} THEN "BODY_NONE"
                  ELSE IF Lengths(q) = {0} THEN "COMPLETE" ELSE "BODY_CONTENT_LENGTH"

\* validateHeaderFields, in its order.  Utils::trim leaves the white space after
\* a value where it is, so a padded number or coding is not recognised.
HeaderChecks(q) ==
  << [fails |-> q.line.version = "1.1" /\ ~Has(q, "host"), code |-> 400],
     [fails |-> Has(q, "content-length") /\ Has(q, "transfer-encoding"), code |-> 400],
     [fails |-> \E f \in Fields(q, "transfer-encoding") : ~f.chunked \/ f.padded, code |-> 400],
     [fails |-> \E f \in Fields(q, "content-type") : f.type = "other", code |-> 415],
     [fails |-> \E f \in Fields(q, "content-length") : f.length = -1 \/ f.padded, code |-> 400],
     [fails |-> q.line.method \in {"GET", "DELETE"} /\ BodyStateOf(q) # "BODY_NONE",
      code |-> 400] >>

ParseHeaderFields(q) ==
  IF ~HasEndOfLine(q.raw) THEN Result("AGAIN", q)
  ELSE LET r == [q EXCEPT !.raw = AfterFirstLine(@)] IN
       IF FirstLine(q.raw) = <<>>
         THEN LET k == FirstFault(HeaderChecks(r)) IN
              IF k # 0 THEN Fail(r, HeaderChecks(r)[k].code)
              ELSE Result("OK", [r EXCEPT !.state = BodyStateOf(r),
                     !.left = IF BodyStateOf(r) = "BODY_CONTENT_LENGTH"
                                THEN CHOOSE n \in Lengths(r) : TRUE ELSE @])
         ELSE LET f == FirstLine(q.raw)[1]
                  k == FirstFault(FieldChecks(r, f))
              IN  IF k # 0 THEN Fail(r, FieldChecks(r, f)[k].code)
                  ELSE Result("OK", [r EXCEPT !.headers = @ \cup {f}])

-----------------------------------------------------------------------------
(* The body.                                                               *)

IsMultipart(q) == \E f \in Fields(q, "content-type") : f.type = "multipart"

\* handleMultiPart, then COMPLETE.
Finished(q) ==
  IF IsMultipart(q) /\ Byte("!") \in Range(q.body) THEN Fail(q, 400)
  ELSE Result("OK", [q EXCEPT !.state = "COMPLETE"])

\* Mistake: what is left is counted down by what came, not by what is taken.
TakeTooMuch(q, n) == [q EXCEPT !.body = @ \o SubSeq(q.raw, 1, n),
                               !.raw = SubSeq(@, n + 1, Len(@)), !.left = @ - Len(q.raw)]

\* Mistake: the segment stays in the buffer.
TakeLeaves(q, n) == [q EXCEPT !.body = @ \o SubSeq(q.raw, 1, n), !.left = @ - n]

\* The next n bytes of the body leave the buffer.
Take(q, n) == [q EXCEPT !.body = @ \o SubSeq(q.raw, 1, n),
                        !.raw = SubSeq(@, n + 1, Len(@)), !.left = @ - n]

\* Mistake: a body of just ten_mb is too large.
TooLargeByOne(q, n) == Len(q.body) + n >= TenMb

\* With n more bytes the body is larger than ten_mb.
TooLarge(q, n) == Len(q.body) + n > TenMb

\* A CRLF that follows the body at once is dropped, anything else refused.
ParseBodyContentLength(q) ==
  LET n == Min({Len(q.raw), q.left})
      r == Take(q, n)
      s == IF IsPrefix(CRLF, r.raw) THEN [r EXCEPT !.raw = SubSeq(@, 3, Len(@))] ELSE r
  IN  IF q.raw = <<>> THEN Result("AGAIN", q)
      ELSE IF TooLarge(q, n) THEN Fail(q, 413)
      ELSE IF r.left > 0 THEN Result("AGAIN", r)
      ELSE IF s.raw # <<>> THEN Fail(s, 400)
      ELSE Finished(s)

\* A size line: white space before the number is skipped, an extension is cut
\* off, white space after the number is an error.
Number(line) ==
  LET lead   == {i \in 1..Len(line) : line[i] \notin {Byte(" "), CR, LF}}
      semi   == SelectInSeq(line, LAMBDA x : x = Byte(";"))
      digits == IF lead = {} THEN <<>>
                ELSE SubSeq(line, Min(lead), IF semi = 0 THEN Len(line) ELSE semi - 1)
  IN  IF digits = <<>> \/ \E i \in DOMAIN digits : digits[i] \notin {Digit(n) : n \in 0..9}
        THEN -1
        ELSE FoldLeft(LAMBDA v, d : 16 * v + d.digit, 0, digits)

\* The size of a chunk.  After the last one two bytes are waited for; a buffer
\* that ends before them leaves waiting_for_chunk_size_ as it was.
ParseChunkSize(q) ==
  LET n == Number(FirstLine(q.raw))
      r == [q EXCEPT !.raw = AfterFirstLine(@)]
  IN  IF ~HasEndOfLine(q.raw) THEN Result("AGAIN", q)
      ELSE IF n = -1 THEN Fail(r, 400)
      ELSE IF n \in Nat \ {0} THEN Result("OK", [r EXCEPT !.size = n, !.waiting = FALSE])
      ELSE IF Len(r.raw) < 2 THEN Result("AGAIN", [r EXCEPT !.size = 0])
      ELSE IF ~IsPrefix(CRLF, r.raw) THEN Fail([r EXCEPT !.size = 0], 400)
      ELSE Finished([r EXCEPT !.size = 0, !.raw = SubSeq(@, 3, Len(@))])

\* Mistake: the CRLF ends up in the body.
ParseChunkDataLong(q) ==
  IF Len(q.raw) < q.size + 2 THEN Result("AGAIN", q)
  ELSE Result("OK", [q EXCEPT !.body = @ \o SubSeq(q.raw, 1, q.size + 2),
                       !.raw = SubSeq(@, q.size + 3, Len(@)),
                       !.size = 0, !.waiting = TRUE])

\* The data of a chunk, and two bytes that are not looked at.
ParseChunkData(q) ==
  IF Len(q.raw) < q.size + 2 THEN Result("AGAIN", q)
  ELSE Result("OK", [q EXCEPT !.body = @ \o SubSeq(q.raw, 1, q.size),
                       !.raw = SubSeq(@, q.size + 3, Len(@)),
                       !.size = 0, !.waiting = TRUE])

\* Mistake: the loop goes on with nothing to read.
ParseBodyChunkedSpins(q) ==
  IF q.waiting THEN ParseChunkSize(q) ELSE Result("OK", ParseChunkData(q).p)

\* One turn of parseBodyChunked's loop; "OK" brings the next.
ParseBodyChunked(q) == IF q.waiting THEN ParseChunkSize(q) ELSE ParseChunkData(q)

ParseNext(q) ==
  CASE q.state = "REQUEST_LINE"        -> ParseRequestLine(q)
    [] q.state = "HEADERS"             -> ParseHeaderFields(q)
    [] q.state = "BODY_CONTENT_LENGTH" -> ParseBodyContentLength(q)
    [] q.state = "BODY_CHUNKED"        -> ParseBodyChunked(q)
    [] q.state = "BODY_NONE"           -> Result("OK", [q EXCEPT !.state = "COMPLETE"])

-----------------------------------------------------------------------------
(* ConnectionHandler::handleRead.                                          *)

\* recv() brings a segment.
Recv ==
  /\ h.pc = "recv"
  /\ \E n \in sent + 1..Len(Wire(msg)) :
       /\ sent' = n
       /\ p' = [p EXCEPT !.raw = @ \o SubSeq(Wire(msg), sent + 1, n)]
  /\ h' = [h EXCEPT !.pc = "parse"]
  /\ UNCHANGED <<msg, limit>>

\* recv() returns 0: the client has closed its side, with all of its message sent or not.
RecvEnd ==
  /\ h.pc = "recv"
  /\ h' = [h EXCEPT !.pc = "ended", !.status = 400]
  /\ UNCHANGED <<msg, limit, sent, p>>

\* prepareResponse, and handleRead returns.
Done(status, resolved) ==
  h' = [h EXCEPT !.pc = "done", !.status = status, !.resolved = resolved]

\* The first time the header is over the server and the location are looked up,
\* and the method and the announced size are checked.
Over(q) == ~h.resolved /\ q.state \in BodyState
MethodRefused(q) == Over(q) /\ q.line.method \notin AllowedMethods

\* Mistake: only a limit of the server is looked at, not the location's own.
SizeRefusedByServer(q) == Over(q) /\ \E n \in Lengths(q), max \in Limits :
                            n > max /\ \A other \in Limits : other <= max

SizeRefused(q) == Over(q) /\ \E n \in Lengths(q) : n > limit

Parse ==
  /\ h.pc = "parse"
  /\ LET r == ParseNext(p) IN
     /\ p' = r.p
     /\ \/ r.res = "ERROR" /\ Done(r.p.error, h.resolved)
        \/ r.res # "ERROR" /\ MethodRefused(r.p) /\ Done(405, TRUE)
        \/ r.res # "ERROR" /\ ~MethodRefused(r.p) /\ SizeRefused(r.p) /\ Done(413, TRUE)
        \/ /\ r.res # "ERROR" /\ ~MethodRefused(r.p) /\ ~SizeRefused(r.p)
           /\ \/ r.res = "OK" /\ r.p.state = "COMPLETE" /\ Done(200, TRUE)
              \/ /\ ~(r.res = "OK" /\ r.p.state = "COMPLETE")
                 /\ h' = [h EXCEPT !.pc = IF r.res = "AGAIN" THEN "recv" ELSE "parse",
                                   !.resolved = @ \/ r.p.state \in BodyState]
  /\ UNCHANGED <<msg, limit, sent>>

Next == Recv \/ RecvEnd \/ Parse

Spec == Init /\ [][Next]_vars
=============================================================================
