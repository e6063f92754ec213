--------------------------- MODULE MCRequestParser ----------------------------
(***************************************************************************)
(* Families of messages for TLC.                                           *)
(***************************************************************************)
EXTENDS RequestParserProps

Post == [method |-> "POST", version |-> "1.1"]
Old  == [method |-> "POST", version |-> "1.0"]
Get  == [method |-> "GET", version |-> "1.1"]
Del  == [method |-> "DELETE", version |-> "1.1"]
Lines == {Post, Old, Get, Del, NoLine, [method |-> "other", version |-> "1.1"],
          [method |-> "POST", version |-> "other"]}

Host      == [key |-> "host"]
Length(n) == [key |-> "content-length", length |-> n, padded |-> FALSE]
Coding(b) == [key |-> "transfer-encoding", chunked |-> b, padded |-> FALSE]
Type(t)   == [key |-> "content-type", type |-> t]
Cookie(b) == [key |-> "cookie", wellFormed |-> b]
Types     == {Type(t) : t \in {"plain", "multipart", "other"}}
NoValue   == {[key |-> "no-length"], [key |-> "no-coding"]}
Others    == Types \cup NoValue \cup {Host, [key |-> ""], Cookie(TRUE), Cookie(FALSE), Length(-1),
                         Length(0), Length(1), Coding(FALSE)}

Data(n) == {[i \in 1..n |-> Byte("x")]}
             \cup {[i \in 1..n |-> IF i = n THEN Byte("!") ELSE Byte("x")]}

Message1(line, headers, data, tail, coded) ==
  [line |-> line, headers |-> headers, data |-> data, tail |-> tail, coded |-> coded]

\* A body of the announced length, with what may follow it, or one byte short.
LengthMessages ==
  UNION {{Message1(l, <<Host, Length(n)>> \o t, d, d \o e, FALSE) :
            l \in {Post, Del}, d \in Data(n), e \in {<<>>, CRLF, <<Byte("x")>>},
            t \in {<<>>, <<Length(n)>>, <<Type("multipart")>>}}
          \cup
          {Message1(l, <<Host, Length(n)>> \o t, d, d, FALSE) :
            l \in {Post, Old}, d \in Data(n - 1),
            t \in {<<>>, <<Length(n)>>, <<Type("plain")>>, <<Type("multipart")>>}}
         : n \in 1..3}

\* All headers of one to three lines, and what is sent after them for nothing.
HeaderMessages ==
  {Message1(l, hs, <<>>, tail, FALSE) :
     l \in Lines, hs \in {<<>>} \cup {<<f>> : f \in Others}, tail \in {<<>>, CRLF}}
  \cup {Message1(l, <<Host, f, g>>, <<>>, <<>>, FALSE) :
          l \in {Post, Get}, f \in Others, g \in Others}

PlainMessages ==
  LengthMessages \cup {m \in HeaderMessages :
     /\ m.line.method \in {"GET", "DELETE"} => Length(0) \notin Range(m.headers)
     /\ HasBody(m) => m.tail = <<>>}

Chunk(d)   == <<Digit(Len(d))>> \o CRLF \o d \o CRLF
Spaced(d)  == <<Byte(" "), Digit(Len(d)), Byte(";"), Byte("x")>> \o CRLF \o d \o CRLF
LastChunk  == <<Digit(0)>> \o CRLF \o CRLF
Chunked(l, t, tail, data) ==
  Message1(l, <<Host, Coding(TRUE)>> \o t, data, tail, TRUE)

\* One or two chunks of one or two bytes; an extension; a bad size; no last chunk;
\* a CRLF as data.
ChunkedMessages ==
  UNION {{Chunked(l, t, Chunk(d) \o LastChunk, d),
          Chunked(l, t, Spaced(d) \o LastChunk, d),
          Chunked(l, t, Chunk(d) \o Chunk(d) \o LastChunk, d \o d),
          Chunked(l, t, LastChunk \o d, <<>>)} :
         l \in {Post, Get}, t \in {<<>>, <<Type("multipart")>>, <<Length(1)>>},
         d \in Data(1) \cup {CRLF}}

\* Sizes that are no number, data with no last chunk.
BrokenMessages ==
  {Message1(Post, <<Host, Coding(TRUE)>>, <<>>, tail, FALSE) :
     tail \in {<<Byte("x")>> \o CRLF, CRLF, Chunk(<<Byte("x")>>),
               <<Digit(1), Byte(" ")>> \o CRLF \o <<Byte("x")>> \o CRLF \o LastChunk,
               <<Digit(0)>> \o CRLF \o <<Byte("x"), Byte("x")>>,
               Chunk(<<Byte("x")>>) \o <<Digit(0)>>}}

ChunkMessages == ChunkedMessages \cup BrokenMessages

AllMessages == PlainMessages \cup ChunkMessages

\* The hypotheses of the theorems hold here.
ASSUME TidyMessages ==
  \A m \in AllMessages : StandsForData(m) /\ (~m.coded => IsTidy(m))
=============================================================================
