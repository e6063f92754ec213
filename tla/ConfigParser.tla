----------------------------- MODULE ConfigParser ------------------------------
(***************************************************************************)
(* ConfigParser (src/src/parser/ConfigParser.cpp): from the tokens of a    *)
(* configuration file to its server blocks.  One action per directive: it  *)
(* takes every token its method takes, or the file is refused.  A refusal  *)
(* is an exception that ends the program, and what the interrupted method  *)
(* had already stored is not kept.                                         *)
(***************************************************************************)
EXTENDS Routing, Lexer

CONSTANTS Texts,         \* the configuration files
          NumeralValue,  \* the numbers that pieces of words stand for
          Kilo,          \* 1024
          IntMax         \* std::numeric_limits<int>::max()

ASSUME ConfigAssumption ==
  /\ Texts \subseteq Seq(STRING)
  /\ \A piece \in DOMAIN NumeralValue : NumeralValue[piece] \in Nat
  /\ Kilo \in Nat \ {0} /\ IntMax \in Nat

VARIABLES text,     \* the file
          tokens,   \* what lexer_ has not been asked for yet, from pos on
          pos,
          mode,     \* mode_, the top last
          servers,  \* servers_list_
          phase     \* "start", "parsing", "parsed" or "refused"

configVars == <<text, tokens, pos, mode, servers, phase>>

ConfigInit == /\ text \in Texts
              /\ tokens = <<>> /\ pos = 1
              /\ mode = <<"global">>
              /\ servers = <<>>
              /\ phase = "start"

-----------------------------------------------------------------------------
(* Words.                                                                  *)

\* The tokens after the current one, which is number 0.
Type(k)  == IF pos + k \in DOMAIN tokens THEN tokens[pos + k].type ELSE "end"
Word(k)  == tokens[pos + k].word
Words(n) == \A k \in 1..n : Type(k) = "word"

\* How many words follow the current one before something else does.
Count == CHOOSE n \in 0..Len(tokens) : Words(n) /\ Type(n + 1) # "word"

IsNumber(word) == Len(word) = 1 /\ word[1] \in DOMAIN NumeralValue
Value(word)    == NumeralValue[word[1]]

Port == 1..65535

IsPort(word) == IsNumber(word) /\ Value(word) \in Port

\* A port, or one of two interfaces and a port.
IsListen(word) ==
  \/ IsPort(word)
  \/ Len(word) = 3 /\ word[1] \in {"localhost", "127.0.0.1"} /\ word[2] = ":" /\ IsPort(<<word[3]>>)

\* The number before the unit has to be positive, and an int.
Unit == [k |-> Kilo, m |-> Kilo * Kilo, g |-> Kilo * Kilo * Kilo]

IsSize(word) ==
  /\ Len(word) \in {1, 2}
  /\ IsNumber(<<word[1]>>) /\ Value(word) \in 1..IntMax
  /\ Len(word) = 2 => word[2] \in DOMAIN Unit

Size(word) == Value(word) * (IF Len(word) = 2 THEN Unit[word[2]] ELSE 1)

ErrorCodes    == {400, 403, 404, 405, 413, 415, 500, 502, 504, 505}
Redirections  == {301, 302, 303, 307, 308}
ReturnCodes   == {200, 201, 204} \cup Redirections \cup ErrorCodes

IsCode(word, codes) == IsNumber(word) /\ Value(word) \in codes

-----------------------------------------------------------------------------
(* Blocks.                                                                 *)

Server   == Last(servers)
Location == Last(Server.locations)
Block    == IF Last(mode) = "location" THEN Location ELSE Server

SetServer(server) == servers' = [servers EXCEPT ![Len(servers)] = server]

SetLocation(location) ==
  SetServer([Server EXCEPT !.locations[Len(Server.locations)] = location])

SetBlock(block) ==
  IF Last(mode) = "location" THEN SetLocation(block) ELSE SetServer(block)

NewServer == [DefaultServer EXCEPT !.maxSize = Kilo * Kilo]

NewLocation(path) == [DefaultLocation EXCEPT !.path = path, !.methods = {}]

-----------------------------------------------------------------------------
(* Steps.                                                                  *)

Refuse == phase' = "refused" /\ UNCHANGED <<text, tokens, pos, mode, servers>>

\* The current token, and n more, are done with.
Advance(n) == pos' = pos + n + 1 /\ UNCHANGED <<text, tokens, phase>>

At(type) == phase = "parsing" /\ Type(0) = type

\* Lexer::Lexer: the extension is wrong, or the file cannot be opened.
OpenFails == phase = "start" /\ Refuse

Open == /\ phase = "start"
        /\ tokens' = Tokens(text)
        /\ phase' = "parsing"
        /\ UNCHANGED <<text, pos, mode, servers>>

NewLines == At("newline") /\ Advance(0) /\ UNCHANGED <<mode, servers>>

\* A "{" or ";" at the start of a statement.
Unexpected == (At("{") \/ At(";")) /\ Refuse

\* Mistake: a "}" too many ends a block that is not there.
RightBraceUnguarded ==
  At("}") /\ mode' = Front(mode) /\ Advance(0) /\ UNCHANGED servers

RightBrace ==
  /\ At("}")
  /\ IF Last(mode) = "global" THEN Refuse
     ELSE mode' = Front(mode) /\ Advance(0) /\ UNCHANGED servers

\* A directive name in one of the blocks where it may stand.
Reads(name) == At("word") /\ Word(0) = <<name>>

\* n tokens follow the name, are right, and set the block's members; or not.
Directive(name, modes, right, n, block) ==
  /\ Reads(name)
  /\ IF Last(mode) \in modes /\ right
     THEN Advance(n) /\ SetBlock(block) /\ UNCHANGED mode
     ELSE Refuse

\* A word or two, then the semicolon.
Ends(n) == Words(n) /\ Type(n + 1) = ";"

\* One word or more, then the semicolon.
List == Count > 0 /\ Type(Count + 1) = ";"

ListItems == [k \in 1..Count |-> Word(k)]

OpenServer ==
  /\ Reads("server")
  /\ IF Last(mode) = "global" /\ Type(1) = "{"
     THEN /\ mode' = Append(mode, "server")
          /\ servers' = Append(servers, NewServer)
          /\ Advance(1)
     ELSE Refuse

PathIsFree(path) == \A i \in DOMAIN Server.locations : Server.locations[i].path # path

OpenLocation ==
  /\ Reads("location")
  /\ IF /\ Last(mode) = "server"
        /\ Words(1) /\ Word(1)[1] = "/" /\ PathIsFree(Word(1)) /\ Type(2) = "{"
     THEN /\ mode' = Append(mode, "location")
          /\ SetServer([Server EXCEPT !.locations = Append(@, NewLocation(Word(1)))])
          /\ Advance(2)
     ELSE Refuse

-----------------------------------------------------------------------------
(* Directives of a server.                                                 *)

\* Mistake: the port is compared before it is stored.
OneDefaultOfOldPort(port) ==
  \A i \in DOMAIN servers : servers[i].port = Server.port => ~servers[i].isDefault

OneDefault(port) ==
  \A i \in DOMAIN servers : servers[i].port = port => ~servers[i].isDefault

Listen ==
  LET port       == Value(<<Last(Word(1))>>)
      isDefault  == Words(2) /\ Word(2) = <<"default_server">> /\ Type(3) = ";"
  IN  Directive("listen", {"server"},
        /\ ~Server.hasListen
        /\ Words(1) /\ IsListen(Word(1))
        /\ Ends(1) \/ (isDefault /\ OneDefault(port)),
        IF isDefault THEN 3 ELSE 2,
        [Server EXCEPT !.hasListen = TRUE, !.port = port, !.isDefault = isDefault])

ServerName ==
  Directive("server_name", {"server"}, List, Count + 1,
            [Server EXCEPT !.names = @ \cup Range(ListItems)])

-----------------------------------------------------------------------------
(* Directives of either block.                                             *)

InBlock == {"server", "location"}

RootDirective ==
  Directive("root", InBlock, Ends(1), 2, [Block EXCEPT !.root = Word(1)])

\* Mistake: the words take the place of earlier ones, as those of root do.
IndexReplaces ==
  Directive("index", InBlock, List, Count + 1, [Block EXCEPT !.index = ListItems])

Index ==
  Directive("index", InBlock, List, Count + 1, [Block EXCEPT !.index = @ \o ListItems])

\* setErrorPage: the page of a code that has one already is replaced.
ErrorPage ==
  Directive("error_page", InBlock, Ends(2) /\ IsCode(Word(1), ErrorCodes), 3,
    [Block EXCEPT !.errorPage = {e \in @ : e.code # Value(Word(1))}
                                  \cup {[code |-> Value(Word(1)), page |-> Word(2)]}])

Autoindex ==
  Directive("autoindex", InBlock, Ends(1) /\ Word(1) \in {<<"on">>, <<"off">>}, 2,
            [Block EXCEPT !.autoindex = Word(1)[1]])

ClientMaxBodySize ==
  Directive("client_max_body_size", InBlock, Ends(1) /\ IsSize(Word(1)), 2,
            [Block EXCEPT !.maxSize = Size(Word(1))])

\* A redirection needs an address, any other code may stand alone.
Return ==
  LET alone == Ends(1) /\ ~IsCode(Word(1), Redirections) IN
  Directive("return", InBlock,
    /\ Block.ret = NoReturn
    /\ Words(1) /\ IsCode(Word(1), ReturnCodes)
    /\ alone \/ Ends(2),
    IF alone THEN 2 ELSE 3,
    [Block EXCEPT !.ret = [code |-> Value(Word(1)), text |-> IF alone THEN <<>> ELSE Word(2)]])

-----------------------------------------------------------------------------
(* Directives of a location.                                               *)

AllowedMethods ==
  Directive("allowed_methods", {"location"},
    List /\ Count <= 3 /\ \A k \in 1..Count : \E m \in Method : Word(k) = <<m>>,
    Count + 1,
    [Location EXCEPT !.methods = @ \cup {Word(k)[1] : k \in 1..Count}])

\* "off" says nothing: an earlier "on" stays.
UploadAllowed ==
  Directive("upload_allowed", {"location"}, Ends(1) /\ Word(1) \in {<<"on">>, <<"off">>}, 2,
            [Location EXCEPT !.upload = @ \/ Word(1) = <<"on">>])

\* Where nothing may be uploaded the next token, and after a word one more, is passed
\* over, whatever it is.
UploadLocation ==
  Directive("upload_location", {"location"}, Location.upload => Ends(1),
            IF Words(1) THEN 2 ELSE 1,
            [Location EXCEPT !.uploadTo = IF Location.upload THEN Word(1) ELSE @])

\* The program that runs the script is left out.
Cgi ==
  Directive("cgi", {"location"}, Ends(2), 3, [Location EXCEPT !.cgi = @ \cup {Word(1)}])

DirectiveNames ==
  {"server", "location", "listen", "server_name", "root", "index", "error_page", "autoindex",
   "client_max_body_size", "return", "allowed_methods", "upload_allowed", "upload_location",
   "cgi"}

Unknown == At("word") /\ (\A name \in DirectiveNames : Word(0) # <<name>>) /\ Refuse

-----------------------------------------------------------------------------
(* The end of the file.  A brace that is still open is not missed.         *)

FillLocation(l) == IF l.methods = {} THEN [l EXCEPT !.methods = Method] ELSE l

FillEmptyDirectives(s) ==
  [s EXCEPT !.locations = IF @ = <<>> THEN <<DefaultLocation>>
                          ELSE [j \in DOMAIN @ |-> FillLocation(@[j])],
            !.index = IF @ = <<>> THEN <<DefaultIndex>> ELSE @]

\* Mistake: only the location that was read last is looked at.
UploadOfLastHasPlace(s) ==
  s.locations # <<>> /\ Last(s.locations).upload => Last(s.locations).uploadTo # <<>>

\* checkUpload.
UploadHasPlace(s) ==
  \A j \in DOMAIN s.locations : s.locations[j].upload => s.locations[j].uploadTo # <<>>

EndOfFile ==
  /\ At("end")
  /\ IF servers # <<>> /\ \A i \in DOMAIN servers : UploadHasPlace(servers[i])
     THEN /\ servers' = [i \in DOMAIN servers |-> FillEmptyDirectives(servers[i])]
          /\ phase' = "parsed"
          /\ UNCHANGED <<text, tokens, pos, mode>>
     ELSE Refuse

ServerDirective   == Listen \/ ServerName
CommonDirective   == \/ RootDirective \/ Index \/ ErrorPage \/ Autoindex \/ ClientMaxBodySize
                     \/ Return
LocationDirective == AllowedMethods \/ UploadAllowed \/ UploadLocation \/ Cgi

ParserStep ==
  \/ OpenFails \/ Open \/ NewLines \/ Unexpected \/ RightBrace
  \/ OpenServer \/ OpenLocation \/ Unknown
  \/ ServerDirective \/ CommonDirective \/ LocationDirective
  \/ EndOfFile
=============================================================================
