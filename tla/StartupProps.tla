----------------------------- MODULE StartupProps ------------------------------
(***************************************************************************)
(* What the author of a configuration file relies on.  The properties      *)
(* about the file read its text a second time: not token by token, but by  *)
(* where its marks stand.                                                  *)
(***************************************************************************)
EXTENDS Startup

\* Blocks are what their constructors made of the same members, the mode stack has the
\* depth of the block, and the sockets are those of ports that some server listens on.
TypeOK ==
  /\ phase \in {"start", "parsing", "parsed", "refused"} /\ stage \in Stage /\ why \in Reason
  /\ pos \in Nat /\ \A i \in DOMAIN tokens : tokens[i].type \in Mark \cup {"word", "newline"}
  /\ mode \in {<<"global">>, <<"global", "server">>, <<"global", "server", "location">>}
  /\ \A i \in DOMAIN servers :
       /\ DOMAIN servers[i] = DOMAIN NewServer
       /\ \A j \in DOMAIN servers[i].locations :
            DOMAIN servers[i].locations[j] = DOMAIN DefaultLocation
  /\ open \subseteq DOMAIN deleted /\ Range(listening) \subseteq DOMAIN deleted
  /\ DOMAIN acceptors \subseteq Range(listening)
  /\ DOMAIN deleted \subseteq {servers[i].port : i \in DOMAIN servers}

-----------------------------------------------------------------------------
(* The text, read once more.                                               *)

Separator == Mark \cup Space

\* The live characters of a text are those outside comments: no "#" between them and
\* the last line feed.
Live(t) == {i \in DOMAIN t :
              \A j \in 1..i : t[j] = "#" => \E k \in j..(i - 1) : t[k] = "nl"}

\* The text means what it seems to mean: every "}" and "#" stands apart from words,
\* there is no unusual white space, and it does not end inside a word.
WellSpaced(t) ==
  LET live == Live(t) IN
  /\ \A i \in live : t[i] # "cr"
  /\ \A i \in DOMAIN t : t[i] \in {"}", "#"} /\ i - 1 \in live => t[i - 1] \in Separator
  /\ t # <<>> => Last(t) \in Separator \/ Len(t) \notin live

\* The places of a set of places, from the first to the last.
Ascending(set) ==
  [n \in 1..Cardinality(set) |-> CHOOSE i \in set : Cardinality({j \in set : j < i}) = n - 1]

\* The statements of a text: every ";" ends a directive, every "{" and every "}" ends
\* what stands before it, and the words of a statement are those since the mark before.
\* The servers, and the locations in each, are counted by their opening braces.
Statements(t) ==
  LET live     == Live(t)
      marks    == {i \in live : t[i] \in Mark}
      Before(i, mark) == {j \in marks : j < i /\ t[j] = mark}
      depth    == [i \in marks |->
                     Cardinality(Before(i, "{")) - Cardinality(Before(i, "}"))]
      starts   == {i \in live : /\ t[i] \notin Separator \cup {"#"}
                                /\ i = 1 \/ i - 1 \notin live \/ t[i - 1] \in Separator}
      WordAt(i) == LET length == Min({n \in 1..Len(t) :
                                        i + n \notin DOMAIN t \/ t[i + n] \in Separator})
                   IN  SubSeq(t, i, i + length - 1)
      Opened(i, d) == {j \in Before(i, "{") : depth[j] = d}
      Statement(i) ==
        LET from   == Max({0} \cup {j \in marks : j < i})
            words  == Ascending({k \in starts : from < k /\ k < i})
            server == Max({0} \cup Opened(i, 0))
        IN  [at |-> i, mark |-> t[i], depth |-> depth[i],
             words    |-> [n \in DOMAIN words |-> WordAt(words[n])],
             server   |-> Cardinality(Opened(i, 0)),
             location |-> IF depth[i] < 2 THEN 0
                          ELSE Cardinality({j \in Opened(i, 1) : j > server})]
  IN  {Statement(i) : i \in marks}

Named(statements, name) ==
  {s \in statements : s.words # <<>> /\ s.words[1] = <<name>>}

SameBlock(s, o) == s.server = o.server /\ s.location = o.location /\ s.depth = o.depth

\* upload_location takes tokens away unseen where upload_allowed has not been read.
NothingSwallowed(statements) ==
  \A s \in Named(statements, "upload_location") :
    \E o \in Named(statements, "upload_allowed") :
      SameBlock(s, o) /\ o.at < s.at /\ o.words[2] = <<"on">>

\* A file that has just been accepted, and says to its reader what it says to the lexer.
Readable == /\ phase = "parsed" /\ stage = "config" /\ running
            /\ WellSpaced(text) /\ NothingSwallowed(Statements(text))

-----------------------------------------------------------------------------
ServerOnly   == {"listen", "server_name"}
LocationOnly == {"allowed_methods", "upload_allowed", "upload_location", "cgi"}
Either       == {"root", "index", "error_page", "autoindex", "client_max_body_size", "return"}

\* Where a block may be opened and closed, and where a directive may stand.
IsAllowed(s) ==
  CASE s.mark = "{" -> \/ s.depth = 0 /\ s.words = <<<<"server">>>>
                       \/ s.depth = 1 /\ Len(s.words) = 2 /\ s.words[1] = <<"location">>
    [] s.mark = "}" -> s.depth > 0 /\ s.words = <<>>
    [] s.mark = ";" -> \E name \in Either \cup (IF s.depth = 1 THEN ServerOnly ELSE LocationOnly) :
                         s.depth > 0 /\ s.words # <<>> /\ s.words[1] = <<name>>

\* What may stand once in its block, or once in all.
IsUnique(all) ==
  LET directives == {s \in all : s.mark = ";"}
      listens    == Named(directives, "listen")
      Once(set)  == \A s, o \in set : SameBlock(s, o) => s = o
  IN  /\ Once(listens) /\ Once(Named(directives, "return"))
      /\ \A s, o \in Named({l \in all : l.mark = "{"}, "location") :
           s.server = o.server /\ s.words[2] = o.words[2] => s = o
      /\ \A s, o \in listens :
           Len(s.words) = 3 /\ Len(o.words) = 3 /\ Last(s.words[2]) = Last(o.words[2]) => s = o

\* What docs/config_docs/yuliia_todo.md allows, of every file that is accepted: every
\* block is opened where it may be and every directive stands in a block that may have
\* it and has its semicolon; a server listens once, a block returns once, a server has
\* a path once, and a port has one default_server, in whatever order they are written.
RulesAreKept ==
  Readable => /\ \A s \in Statements(text) : IsAllowed(s)
              /\ IsUnique(Statements(text))

\* The argument of the last directive of that name, and the arguments of all.
Latest(statements, name, n, default) ==
  LET set == Named(statements, name) IN
  IF set = {} THEN default ELSE (CHOOSE s \in set : \A o \in set : o.at <= s.at).words[n]

Arguments(s) == Range(Tail(s.words))

AllArguments(statements, name) == UNION {Arguments(s) : s \in Named(statements, name)}

InOrder(statements, name) ==
  LET named   == Named(statements, name)
      The(i)  == CHOOSE s \in named : s.at = i
      Join(words, i) == words \o Tail(The(i).words)
  IN  FoldLeft(Join, <<>>, Ascending({s.at : s \in named}))

WrittenSize(word) ==
  NumeralValue[word[1]] * (IF word[Len(word)] \in DOMAIN Unit THEN Unit[word[Len(word)]] ELSE 1)

\* What the members both kinds of block have should be, from the block's directives.
CommonAsWritten(block, directives, default, index) ==
  LET returns == Named(directives, "return") IN
  /\ block.root = Latest(directives, "root", 2, default.root)
  /\ block.index = IF Named(directives, "index") = {} THEN index ELSE InOrder(directives, "index")
  /\ block.autoindex = Last(Latest(directives, "autoindex", 2, <<default.autoindex>>))
  /\ LET size == Latest(directives, "client_max_body_size", 2, <<>>) IN
     block.maxSize = IF size = <<>> THEN default.maxSize ELSE WrittenSize(size)
  /\ IF returns = {} THEN block.ret = NoReturn
     ELSE \E s \in returns :
            block.ret = [code |-> NumeralValue[s.words[2][1]],
                         text |-> IF Len(s.words) = 2 THEN <<>> ELSE s.words[3]]
  /\ {e.code : e \in block.errorPage}
       = {NumeralValue[s.words[2][1]] : s \in Named(directives, "error_page")}
  /\ \A e \in block.errorPage :
       e.page = Latest({s \in directives : /\ Len(s.words) = 3
                                           /\ s.words[2][1] \in DOMAIN NumeralValue
                                           /\ NumeralValue[s.words[2][1]] = e.code},
                       "error_page", 3, <<>>)

\* Every block of an accepted file is what stands between its own braces, and what
\* ServerConfig.hpp, LocationConfig.hpp and fillEmptyDirectives start from for what does
\* not: of a repeated directive the last counts, index, names, methods and scripts add
\* up, and no directive reaches a neighbour or the block around its own.  What they start
\* from is the code's: default_values_config.md:31, 35 has another index and error pages.
BlocksAsWritten ==
  Readable =>
    LET all        == Statements(text)
        directives == {s \in all : s.mark = ";"}
        headers    == {s \in all : s.mark = "{"}
        In(i, j)   == {s \in directives : s.server = i /\ s.location = j}
    IN  /\ Len(servers) = Cardinality(Named(headers, "server"))
        /\ \A i \in DOMAIN servers :
             LET server == servers[i]
                 paths  == InOrder({s \in headers : s.server = i}, "location")
                 listen == Latest(In(i, 0), "listen", 2, <<>>)
             IN  /\ CommonAsWritten(server, In(i, 0), NewServer, <<DefaultIndex>>)
                 /\ server.port = IF listen = <<>> THEN 8080 ELSE NumeralValue[Last(listen)]
                 /\ server.isDefault = (<<"default_server">> \in AllArguments(In(i, 0), "listen"))
                 /\ server.names = AllArguments(In(i, 0), "server_name")
                 /\ IF paths = <<>> THEN server.locations = <<DefaultLocation>>
                    ELSE /\ [j \in DOMAIN server.locations |-> server.locations[j].path] = paths
                         /\ \A j \in DOMAIN paths :
                              LET location == server.locations[j]
                                  methods  == AllArguments(In(i, j), "allowed_methods")
                              IN  /\ CommonAsWritten(location, In(i, j), DefaultLocation, <<>>)
                                  /\ {<<m>> : m \in location.methods}
                                       = IF methods = {} THEN {<<m>> : m \in Method} ELSE methods
                                  /\ location.upload
                                       = (<<"on">> \in AllArguments(In(i, j), "upload_allowed"))
                                  /\ location.uploadTo = Latest(In(i, j), "upload_location", 2, <<>>)
                                  /\ location.cgi = {s.words[2] : s \in Named(In(i, j), "cgi")}

-----------------------------------------------------------------------------
(* What the parser promises to the rest of the program.                    *)

\* Whatever has been read, what the matchers and the builder take for granted holds:
\* each server has a location and an index to fall back on, no location refuses all
\* methods, paths start with a slash and tell the locations of a server apart, uploads
\* have a place, a port is one, and has at most one default_server.
LocationIsServable(l) ==
  /\ l.path[1] = "/" /\ l.methods # {} /\ l.methods \subseteq Method
  /\ l.upload => l.uploadTo # <<>>

ServerIsServable(s) ==
  /\ s.port \in Port /\ s.index # <<>> /\ s.locations # <<>>
  /\ \A i \in DOMAIN s.locations : LocationIsServable(s.locations[i])
  /\ \A i, j \in DOMAIN s.locations : s.locations[i].path = s.locations[j].path => i = j

OneDefaultPerPort ==
  \A i, j \in DOMAIN servers :
    servers[i].isDefault /\ servers[j].isDefault /\ servers[i].port = servers[j].port => i = j

ConfigIsServable ==
  phase = "parsed" => /\ servers # <<>>
                      /\ \A i \in DOMAIN servers : ServerIsServable(servers[i])
                      /\ OneDefaultPerPort

\* list is the servers of port p, in the order of the file.
InFileOrder(list, p) ==
  \E place \in [DOMAIN list -> DOMAIN servers] :
    /\ Range(place) = {i \in DOMAIN servers : servers[i].port = p}
    /\ \A j, k \in DOMAIN list : j < k => place[j] < place[k]
    /\ \A k \in DOMAIN list : list[k] = servers[place[k]]

\* While the program runs every server block can be asked: its port has a listening
\* socket of its own whose acceptor is registered, and the acceptor has all servers of
\* the port in the order of the file, which the choice without default_server goes by.
EveryServerIsServed ==
  stage = "run" =>
    /\ DOMAIN acceptors = {servers[i].port : i \in DOMAIN servers}
    /\ \A p \in DOMAIN acceptors :
         /\ p \in open /\ deleted[p] = 0
         /\ InFileOrder(acceptors[p], p)
    /\ Len(listening) = Cardinality(DOMAIN acceptors)

\* However the program ends, before or after it serves, each socket it made has been
\* deleted once and nothing is open, though sockets are owned in two places.  Not so
\* when epoll refuses an acceptor: that socket is deleted twice.
SocketsFreedOnce ==
  stage \in {"over", "killed"} /\ why # "epoll" =>
    /\ stage = "over"
    /\ \A p \in DOMAIN deleted : deleted[p] = 1
    /\ open = {} /\ acceptors = <<>> /\ ~epollOpen
=============================================================================
