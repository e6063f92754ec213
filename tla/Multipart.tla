------------------------------- MODULE Multipart -------------------------------
(***************************************************************************)
(* A multipart body and what MultipartParser (src/src/http/                *)
(* MultipartParser.cpp) makes of it.  A body is a sequence of atoms: the   *)
(* boundary with its two dashes, the two dashes that close the body, line  *)
(* ends, the disposition line of a part, and text.                         *)
(***************************************************************************)
EXTENDS Integers, SequencesExt

Delimiter == [atom |-> "boundary"]
Dashes    == [atom |-> "dashes"]
NewLine   == [atom |-> "CRLF"]
Text      == [atom |-> "text"]
\* The disposition line of a file, whose name may be empty, and of a field.  A line
\* without a name="...", which filename="..." ends in, is text: it is refused as a part
\* with no disposition is.
Disposition(filename) == [atom |-> "disposition", named |-> TRUE, filename |-> filename]
NoFilename            == [atom |-> "disposition", named |-> FALSE, filename |-> <<>>]

HeaderEnd == <<NewLine, NewLine>>
Closing   == <<Delimiter, Dashes>>

\* The places from which s has the atoms t, and the first from i on, 0 if none.
Places(s, t) == {i \in 1..Len(s) - Len(t) + 1 : SubSeq(s, i, i + Len(t) - 1) = t}
FirstPlace(s, t, i) == LET after == {j \in Places(s, t) : j >= i} IN
                       IF after = {} THEN 0 ELSE Min(after)

\* parseParts: a part stands between two boundaries; the first one that closes the
\* body ends the search.
Slices(body) ==
  LET bounds == Places(body, <<Delimiter>>)
      closed == Places(body, Closing)
  IN  {SubSeq(body, i + 2, FirstPlace(body, <<Delimiter>>, i + 1) - 1) :
         i \in {j \in bounds : /\ FirstPlace(body, <<Delimiter>>, j + 1) # 0
                              /\ \A k \in closed : j < k}}

Header(slice)       == SubSeq(slice, 1, FirstPlace(slice, HeaderEnd, 1) - 1)
Dispositions(slice) == {x \in Range(Header(slice)) : x.atom = "disposition"}
HasHeader(slice)    == FirstPlace(slice, HeaderEnd, 1) # 0

\* parsePart: the content is what follows the empty line, without the line end
\* before the boundary.
Content(slice) ==
  LET s == SubSeq(slice, FirstPlace(slice, HeaderEnd, 1) + 2, Len(slice)) IN
  IF s # <<>> /\ Last(s) = NewLine THEN Front(s) ELSE s

\* parsePartHeaders: a part without a disposition makes parse throw.  A part with
\* no empty line is passed over.
Refused(body) == \E s \in Slices(body) : HasHeader(s) /\ Dispositions(s) = {}

Parts(body) ==
  {[filename |-> (CHOOSE x \in Dispositions(s) : TRUE).filename, content |-> Content(s)] :
     s \in {t \in Slices(body) : HasHeader(t) /\ Dispositions(t) # {}}}
=============================================================================
