--------------------------------- MODULE Lexer ---------------------------------
(***************************************************************************)
(* Lexer (src/src/parser/Lexer.cpp): from the text of a configuration file *)
(* to its tokens.                                                          *)
(*                                                                         *)
(* A text is a sequence of pieces: "sp" is a space or a tab, "nl" a line   *)
(* feed, "cr" any other white space; the marks and "#" stand for           *)
(* themselves; every other piece is a part of a word (a numeral, a name, a *)
(* slash), and a word is a sequence of pieces.  Reading beyond the last    *)
(* token gives TOKEN_ENDFILE again and again.                              *)
(***************************************************************************)
EXTENDS Integers, SequencesExt

Mark  == {"{", "}", ";"}
Space == {"sp", "nl", "cr"}

\* Where getNextToken is: the tokens so far, the word it is in, inside a comment.
AtStart == [tokens |-> <<>>, word |-> <<>>, comment |-> FALSE]

Emit(lexer, type, word) ==
  [lexer EXCEPT !.tokens = Append(@, [type |-> type, word |-> word]), !.word = <<>>]

\* A character between two tokens.  Only a mark or the start of a word is looked
\* for, so that a white space character other than space, tab and line feed is a
\* word of its own: the loop of parseWord is not entered.
Between(lexer, c) ==
  CASE c = "sp"   -> lexer
    [] c = "#"    -> [lexer EXCEPT !.comment = TRUE]
    [] c \in Mark -> Emit(lexer, c, <<c>>)
    [] c = "nl"   -> Emit(lexer, "newline", <<c>>)
    [] c = "cr"   -> Emit(lexer, "word", <<c>>)
    [] OTHER      -> [lexer EXCEPT !.word = <<c>>]

\* parseWord puts these back; a "}" or a "#" is a part of the word it follows.
EndsWord(c) == c \in Space \cup {"{", ";"}

\* getline takes the end of the line with the comment, so that no token is made of it.
Comment(lexer, c) == [lexer EXCEPT !.comment = c # "nl"]

Read(lexer, c) ==
  IF lexer.comment THEN Comment(lexer, c)
  ELSE IF lexer.word = <<>> THEN Between(lexer, c)
  ELSE IF EndsWord(c) THEN Between(Emit(lexer, "word", lexer.word), c)
  ELSE [lexer EXCEPT !.word = Append(@, c)]

\* All that getNextToken returns before the first TOKEN_ENDFILE.  A word that the end
\* of the file cuts off is lost.
Tokens(text) == FoldLeft(Read, AtStart, text).tokens
=============================================================================
