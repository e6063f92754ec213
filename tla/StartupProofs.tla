---------------------------- MODULE StartupProofs -----------------------------
(***************************************************************************)
(* The configuration that an accepted file gives can be served, each of    *)
(* its servers is, sockets come and go in pairs, and the rules that the    *)
(* parser checks token by token hold of the whole text, whatever the file. *)
(* What is stored is known only by what the methods have tested of the     *)
(* tokens, so that a sequence is known as one over its own elements; only  *)
(* the types of tokens need what ConfigAssumption says of the texts.       *)
(***************************************************************************)
EXTENDS StartupProps, SequenceFacts, FiniteSetTheorems

IsSeq(s) == \E S : s \in Seq(S)

-----------------------------------------------------------------------------
(* Sequences.                                                              *)

\* What a sequence is as a function.
LEMMA SeqIsFunction ==
  ASSUME NEW s, IsSeq(s)
  PROVE  /\ Len(s) \in Nat /\ DOMAIN s = 1..Len(s)
         /\ s # <<>> => Len(s) \in DOMAIN s
<1>1. PICK S : s \in Seq(S) BY DEF IsSeq
<1> QED BY <1>1, LenProperties, EmptySeq

\* The empty sequence.
LEMMA EmptyIsSeq == IsSeq(<<>>) /\ DOMAIN <<>> = {}
<1>1. <<>> \in Seq({}) OBVIOUS
<1> QED BY <1>1 DEF IsSeq

\* A sequence of one element.
LEMMA SingletonIsSeq ==
  ASSUME NEW e
  PROVE  IsSeq(<<e>>) /\ DOMAIN <<e>> = {1} /\ <<e>>[1] = e
<1>1. <<e>> \in Seq({e}) OBVIOUS
<1>2. IsSeq(<<e>>) BY <1>1 DEF IsSeq
<1> QED BY <1>2

\* Append adds one place at the end.
LEMMA AppendIsSeq ==
  ASSUME NEW s, IsSeq(s), NEW e
  PROVE  /\ IsSeq(Append(s, e))
         /\ Len(Append(s, e)) = Len(s) + 1
         /\ DOMAIN Append(s, e) = DOMAIN s \cup {Len(s) + 1}
         /\ Append(s, e)[Len(s) + 1] = e
         /\ \A i \in DOMAIN s : Append(s, e)[i] = s[i]
<1>1. PICK T : s \in Seq(T) BY DEF IsSeq
<1> DEFINE S == T \cup {e}
<1>2. s \in Seq(S) /\ e \in S BY <1>1, SeqMonotonic
<1>3. /\ Append(s, e) \in Seq(S) /\ Len(Append(s, e)) = Len(s) + 1
      /\ \A i \in 1..Len(s) : Append(s, e)[i] = s[i]
      /\ Append(s, e)[Len(s) + 1] = e
  BY <1>2, AppendProperties
<1>4. Len(s) \in Nat /\ DOMAIN s = 1..Len(s) BY SeqIsFunction
<1>5. DOMAIN Append(s, e) = 1..(Len(s) + 1) BY <1>3, LenProperties
<1>6. DOMAIN Append(s, e) = DOMAIN s \cup {Len(s) + 1} BY <1>4, <1>5
<1> QED BY <1>3, <1>4, <1>6 DEF IsSeq

\* An element is replaced, the others stay.
LEMMA ReplaceIsSeq ==
  ASSUME NEW s, IsSeq(s), NEW i \in DOMAIN s, NEW e
  PROVE  /\ IsSeq([s EXCEPT ![i] = e])
         /\ Len([s EXCEPT ![i] = e]) = Len(s)
         /\ DOMAIN [s EXCEPT ![i] = e] = DOMAIN s
         /\ \A j \in DOMAIN s : [s EXCEPT ![i] = e][j] = IF j = i THEN e ELSE s[j]
<1>1. PICK T : s \in Seq(T) BY DEF IsSeq
<1> DEFINE S == T \cup {e}
<1>2. s \in Seq(S) /\ e \in S BY <1>1, SeqMonotonic
<1>3. DOMAIN s = 1..Len(s) BY SeqIsFunction
<1>4. [s EXCEPT ![i] = e] \in Seq(S) /\ Len([s EXCEPT ![i] = e]) = Len(s)
  BY <1>2, <1>3, ExceptSeq
<1> QED BY <1>3, <1>4 DEF IsSeq

-----------------------------------------------------------------------------
(* The invariant.                                                          *)

LocationFields == {"path", "root", "index", "errorPage", "autoindex", "maxSize", "methods",
                   "ret", "upload", "uploadTo", "cgi"}

ServerFields == {"port", "hasListen", "names", "isDefault", "locations", "root", "index",
                 "errorPage", "autoindex", "maxSize", "ret"}

\* A location while its block is read: no method means none has been named yet.
LocationInv(l) ==
  DOMAIN l = LocationFields /\ l.path[1] = "/" /\ l.methods \subseteq Method

ServerInv(s) ==
  /\ DOMAIN s = ServerFields /\ s.port \in Port /\ IsSeq(s.locations)
  /\ \A j \in DOMAIN s.locations : LocationInv(s.locations[j])
  /\ \A j, k \in DOMAIN s.locations : s.locations[j].path = s.locations[k].path => j = k

ServersInv == /\ IsSeq(servers)
              /\ \A i \in DOMAIN servers : ServerInv(servers[i])
              /\ OneDefaultPerPort

Global     == <<"global">>
InServer   == Append(Global, "server")
InLocation == Append(InServer, "location")

\* The block that the mode says is open is there.
ModeInv == /\ mode \in {Global, InServer, InLocation}
           /\ Last(mode) # "global" => servers # <<>>
           /\ Last(mode) = "location" => Server.locations # <<>>

IInv == ModeInv /\ ServersInv /\ ConfigIsServable

\* The stacks end in the block they are named for, and differ by it.
LEMMA Modes ==
  /\ Last(Global) = "global" /\ Last(InServer) = "server" /\ Last(InLocation) = "location"
  /\ Front(InServer) = Global /\ Front(InLocation) = InServer
<1> DEFINE S == {"global", "server", "location"}
<1>1. Global \in Seq(S) /\ Last(Global) = "global" BY DEF Global, Last
<1>2. ASSUME NEW s \in Seq(S), NEW e \in S
      PROVE  Last(Append(s, e)) = e /\ Front(Append(s, e)) = s /\ Append(s, e) \in Seq(S)
  <2>1. /\ Append(s, e) \in Seq(S) /\ Len(Append(s, e)) = Len(s) + 1 /\ Len(s) \in Nat
        /\ \A i \in 1..Len(s) : Append(s, e)[i] = s[i] /\ s[i] \in S
        /\ Append(s, e)[Len(s) + 1] = e
    BY AppendProperties, LenProperties, ElementOfSeq
  <2>2. /\ Front(Append(s, e)) \in Seq(S) /\ Len(Front(Append(s, e))) = Len(s)
        /\ \A i \in 1..Len(s) : Front(Append(s, e))[i] = s[i]
    BY <2>1, SubSeqProperties DEF Front
  <2> QED BY <2>1, <2>2, SeqEqual DEF Last
<1>3. /\ InServer \in Seq(S) /\ Last(InServer) = "server" /\ Front(InServer) = Global
  BY <1>1, <1>2 DEF InServer
<1>4. Last(InLocation) = "location" /\ Front(InLocation) = InServer
  BY <1>2, <1>3 DEF InLocation
<1> QED BY <1>1, <1>3, <1>4

\* The records that new blocks are.
LEMMA NewBlocks ==
  /\ ServerInv(NewServer) /\ ~NewServer.isDefault
  /\ \A path : path[1] = "/" =>
       LocationInv(NewLocation(path)) /\ NewLocation(path).path = path
  /\ LocationInv(DefaultLocation)
<1>1. ServerInv(NewServer) /\ ~NewServer.isDefault
  <2>1. /\ DOMAIN NewServer = ServerFields /\ NewServer.port = 8080
        /\ NewServer.locations = <<>> /\ NewServer.isDefault = FALSE
    BY DEF NewServer, DefaultServer, ServerFields
  <2>2. NewServer.port \in Port BY <2>1 DEF Port
  <2> QED BY <2>1, <2>2, EmptyIsSeq DEF ServerInv
<1>2. ASSUME NEW path, path[1] = "/"
      PROVE  LocationInv(NewLocation(path)) /\ NewLocation(path).path = path
  BY <1>2 DEF LocationInv, NewLocation, DefaultLocation, LocationFields, Method
<1>3. LocationInv(DefaultLocation)
  BY DEF LocationInv, DefaultLocation, LocationFields, Method, Root
<1> QED BY <1>1, <1>2, <1>3

\* Where the server is its port's default, no server but the last, whose place it takes,
\* is one.
NoOtherDefault(s) ==
  \A i \in DOMAIN servers :
    i # Len(servers) /\ s.isDefault /\ servers[i].port = s.port => ~servers[i].isDefault

\* The last server is replaced by one that is right.
LEMMA SetServerKeeps ==
  ASSUME ServersInv, servers # <<>>, NEW s, ServerInv(s), SetServer(s),
         NoOtherDefault(s)
  PROVE  ServersInv' /\ servers' # <<>> /\ Server' = s
<1> DEFINE n == Len(servers)
<1>1. n \in DOMAIN servers BY SeqIsFunction DEF ServersInv
<1>2. /\ IsSeq(servers') /\ DOMAIN servers' = DOMAIN servers /\ Len(servers') = n
      /\ \A j \in DOMAIN servers : servers'[j] = IF j = n THEN s ELSE servers[j]
  BY <1>1, ReplaceIsSeq DEF SetServer, ServersInv
<1>3. \A i \in DOMAIN servers' : ServerInv(servers'[i]) BY <1>2 DEF ServersInv
<1>4. OneDefaultPerPort'
  BY <1>1, <1>2 DEF OneDefaultPerPort, ServersInv, NoOtherDefault
<1>5. servers' # <<>> BY <1>1, <1>2, EmptyIsSeq
<1> QED BY <1>1, <1>2, <1>3, <1>4, <1>5 DEF ServersInv, Server, Last

-----------------------------------------------------------------------------
(* Directives.                                                             *)

\* A directive that replaces the last server.
LEMMA ServerStep ==
  ASSUME IInv, phase = "parsing", servers # <<>>, UNCHANGED <<mode, phase>>,
         NEW s, ServerInv(s), SetServer(s),
         Last(mode) = "location" => s.locations # <<>>,
         NoOtherDefault(s)
  PROVE  IInv'
<1>1. ServersInv' /\ servers' # <<>> /\ Server' = s BY SetServerKeeps DEF IInv
<1>2. ModeInv' BY <1>1 DEF IInv, ModeInv, Last
<1>3. ConfigIsServable' BY DEF ConfigIsServable
<1> QED BY <1>1, <1>2, <1>3 DEF IInv

\* The last server, and its last location where the mode says that there is one.
LEMMA LastBlocks ==
  ASSUME IInv, Last(mode) # "global"
  PROVE  /\ servers # <<>> /\ ServerInv(Server) /\ Len(servers) \in DOMAIN servers
         /\ Server = servers[Len(servers)]
         /\ Last(mode) = "location" =>
              /\ Server.locations # <<>> /\ LocationInv(Location)
              /\ Len(Server.locations) \in DOMAIN Server.locations
              /\ Location = Server.locations[Len(Server.locations)]
<1>1. /\ servers # <<>> /\ ServerInv(Server) /\ Len(servers) \in DOMAIN servers
      /\ Server = servers[Len(servers)]
  BY SeqIsFunction DEF IInv, ModeInv, ServersInv, Server, Last
<1>2. ASSUME Last(mode) = "location"
      PROVE  /\ Server.locations # <<>> /\ LocationInv(Location)
             /\ Len(Server.locations) \in DOMAIN Server.locations
             /\ Location = Server.locations[Len(Server.locations)]
  <2>1. Server.locations # <<>> /\ IsSeq(Server.locations)
    BY <1>1, <1>2 DEF IInv, ModeInv, ServerInv
  <2>2. Len(Server.locations) \in DOMAIN Server.locations BY <2>1, SeqIsFunction
  <2>3. Location = Server.locations[Len(Server.locations)] BY DEF Location, Last
  <2> QED BY <1>1, <2>1, <2>2, <2>3 DEF ServerInv
<1> QED BY <1>1, <1>2

\* The last server with other directives of its own.
LEMMA DefaultStays ==
  ASSUME IInv, Last(mode) # "global", NEW s,
         s.port = Server.port, s.isDefault = Server.isDefault
  PROVE  NoOtherDefault(s)
<1> SUFFICES ASSUME NEW i \in DOMAIN servers,
                    i # Len(servers), s.isDefault, servers[i].port = s.port
             PROVE  ~servers[i].isDefault
  BY DEF NoOtherDefault
<1> DEFINE n == Len(servers)
<1>1. OneDefaultPerPort /\ n \in DOMAIN servers /\ Server = servers[n]
  BY LastBlocks DEF IInv, ServersInv
<1>2. servers[n].isDefault /\ servers[i].port = servers[n].port BY <1>1
<1>3. servers[i].isDefault => i = n BY <1>1, <1>2 DEF OneDefaultPerPort
<1> QED BY <1>3

\* A directive that replaces the last location by one of the same path.
LEMMA LocationStep ==
  ASSUME IInv, phase = "parsing", Last(mode) = "location", UNCHANGED <<mode, phase>>,
         NEW l, LocationInv(l), l.path = Location.path, SetLocation(l)
  PROVE  IInv'
<1> DEFINE n == Len(Server.locations)
           s == [Server EXCEPT !.locations[n] = l]
<1>1. /\ servers # <<>> /\ ServerInv(Server) /\ n \in DOMAIN Server.locations
      /\ Location = Server.locations[n] /\ IsSeq(Server.locations)
  BY LastBlocks DEF ServerInv
<1>2. /\ DOMAIN s = ServerFields /\ s.locations = [Server.locations EXCEPT ![n] = l]
      /\ s.port = Server.port /\ s.isDefault = Server.isDefault
  BY <1>1 DEF ServerInv, ServerFields
<1>3. /\ IsSeq(s.locations) /\ DOMAIN s.locations = DOMAIN Server.locations
      /\ \A j \in DOMAIN s.locations :
           s.locations[j] = IF j = n THEN l ELSE Server.locations[j]
  BY <1>1, <1>2, ReplaceIsSeq
<1>4. ServerInv(s) BY <1>1, <1>2, <1>3 DEF ServerInv
<1>5. s.locations # <<>> BY <1>1, <1>3, EmptyIsSeq
<1>6. SetServer(s) BY DEF SetLocation
<1> QED BY <1>1, <1>2, <1>4, <1>5, <1>6, DefaultStays, ServerStep

\* What the members that the invariant is about are in a block.
Identity(b) ==
  /\ DOMAIN b = DOMAIN Block
  /\ \A f \in DOMAIN Block \cap {"port", "isDefault", "locations", "path", "methods"} :
       b[f] = Block[f]

\* A directive of either kind of block.
LEMMA BlockStep ==
  ASSUME IInv, phase = "parsing", Last(mode) \in InBlock, UNCHANGED <<mode, phase>>,
         NEW b, Identity(b), SetBlock(b)
  PROVE  IInv'
<1>1. CASE Last(mode) = "location"
  <2>1. LocationInv(Location) /\ Block = Location BY <1>1, LastBlocks DEF Block
  <2>2. LocationInv(b) /\ b.path = Location.path
    BY <2>1 DEF Identity, LocationInv, LocationFields
  <2>3. SetLocation(b) BY <1>1 DEF SetBlock
  <2> QED BY <1>1, <2>2, <2>3, LocationStep
<1>2. CASE Last(mode) # "location"
  <2>1. ServerInv(Server) /\ Block = Server /\ servers # <<>> /\ Last(mode) # "global"
    BY <1>2, LastBlocks DEF Block, InBlock
  <2>2. /\ b.port = Server.port /\ b.isDefault = Server.isDefault
        /\ b.locations = Server.locations /\ DOMAIN b = ServerFields
    BY <2>1 DEF Identity, ServerInv, ServerFields
  <2>3. ServerInv(b) BY <2>1, <2>2 DEF ServerInv
  <2>4. SetServer(b) BY <1>2 DEF SetBlock
  <2> QED BY <1>2, <2>1, <2>2, <2>3, <2>4, DefaultStays, ServerStep
<1> QED BY <1>1, <1>2

-----------------------------------------------------------------------------
(* The actions.                                                            *)

LEMMA RefuseKeeps == IInv /\ Refuse => IInv'
BY DEF Refuse, IInv, ModeInv, ServersInv, ConfigIsServable, OneDefaultPerPort, Server, Last

\* The tokens move on, and the blocks stay.
LEMMA StutterKeeps ==
  ASSUME IInv, UNCHANGED <<mode, servers>>, phase' = phase \/ phase' # "parsed"
  PROVE  IInv'
BY DEF IInv, ModeInv, ServersInv, ConfigIsServable, OneDefaultPerPort, Server, Last

\* The directives both kinds of block have: none touches what tells a block apart.
LEMMA CommonDirectiveKeeps == IInv /\ CommonDirective => IInv'
<1> SUFFICES ASSUME IInv, CommonDirective PROVE IInv' OBVIOUS
<1> USE RefuseKeeps, BlockStep DEF Directive, Reads, At, Advance
<1>1. CASE RootDirective
  <2>1. Identity([Block EXCEPT !.root = Word(1)]) BY DEF Identity
  <2> QED BY <1>1, <2>1 DEF RootDirective
<1>2. CASE Index
  <2>1. Identity([Block EXCEPT !.index = @ \o ListItems]) BY DEF Identity
  <2> QED BY <1>2, <2>1 DEF Index
<1>3. CASE ErrorPage
  <2>1. \A v : Identity([Block EXCEPT !.errorPage = v]) BY DEF Identity
  <2> QED BY <1>3, <2>1 DEF ErrorPage
<1>4. CASE Autoindex
  <2>1. Identity([Block EXCEPT !.autoindex = Word(1)[1]]) BY DEF Identity
  <2> QED BY <1>4, <2>1 DEF Autoindex
<1>5. CASE ClientMaxBodySize
  <2>1. Identity([Block EXCEPT !.maxSize = Size(Word(1))]) BY DEF Identity
  <2> QED BY <1>5, <2>1 DEF ClientMaxBodySize
<1>6. CASE Return
  <2>1. \A v : Identity([Block EXCEPT !.ret = v]) BY DEF Identity
  <2> QED BY <1>6, <2>1 DEF Return
<1> QED BY <1>1, <1>2, <1>3, <1>4, <1>5, <1>6 DEF CommonDirective

\* The directives of a location: none touches its path, and methods are methods.
LEMMA LocationDirectiveKeeps == IInv /\ LocationDirective => IInv'
<1> SUFFICES ASSUME IInv, LocationDirective PROVE IInv' OBVIOUS
<1>1. CASE Refuse BY <1>1, RefuseKeeps
<1>2. CASE ~Refuse
  <2>1. /\ phase = "parsing" /\ Last(mode) = "location" /\ UNCHANGED <<mode, phase>>
        /\ \E l : LocationInv(l) /\ l.path = Location.path /\ SetBlock(l)
    <3>0. IInv /\ Last(mode) = "location" => LocationInv(Location) BY LastBlocks
    <3>1. CASE AllowedMethods
      <4> DEFINE new == {Word(k)[1] : k \in 1..Count}
                 l == [Location EXCEPT !.methods = @ \cup new]
      <4>1. /\ phase = "parsing" /\ Last(mode) = "location" /\ UNCHANGED <<mode, phase>>
            /\ \A k \in 1..Count : \E m \in Method : Word(k) = <<m>>
            /\ SetBlock(l)
        BY <1>2, <3>1 DEF AllowedMethods, Directive, Reads, At, Advance
      <4>2. new \subseteq Method BY <4>1
      <4>3. LocationInv(l) /\ l.path = Location.path
        BY <3>0, <4>1, <4>2 DEF LocationInv, LocationFields
      <4> QED BY <4>1, <4>3
    <3>2. CASE UploadAllowed
      <4> DEFINE l == [Location EXCEPT !.upload = @ \/ Word(1) = <<"on">>]
      <4>1. /\ phase = "parsing" /\ Last(mode) = "location" /\ UNCHANGED <<mode, phase>>
            /\ SetBlock(l)
        BY <1>2, <3>2 DEF UploadAllowed, Directive, Reads, At, Advance
      <4>2. LocationInv(l) /\ l.path = Location.path
        BY <3>0, <4>1 DEF LocationInv, LocationFields
      <4> QED BY <4>1, <4>2
    <3>3. CASE UploadLocation
      <4> DEFINE l == [Location EXCEPT !.uploadTo = IF Location.upload THEN Word(1) ELSE @]
      <4>1. /\ phase = "parsing" /\ Last(mode) = "location" /\ UNCHANGED <<mode, phase>>
            /\ SetBlock(l)
        BY <1>2, <3>3 DEF UploadLocation, Directive, Reads, At, Advance
      <4>2. LocationInv(l) /\ l.path = Location.path
        BY <3>0, <4>1 DEF LocationInv, LocationFields
      <4> QED BY <4>1, <4>2
    <3>4. CASE Cgi
      <4> DEFINE l == [Location EXCEPT !.cgi = @ \cup {Word(1)}]
      <4>1. /\ phase = "parsing" /\ Last(mode) = "location" /\ UNCHANGED <<mode, phase>>
            /\ SetBlock(l)
        BY <1>2, <3>4 DEF Cgi, Directive, Reads, At, Advance
      <4>2. LocationInv(l) /\ l.path = Location.path
        BY <3>0, <4>1 DEF LocationInv, LocationFields
      <4> QED BY <4>1, <4>2
    <3> QED BY <3>1, <3>2, <3>3, <3>4 DEF LocationDirective
  <2>2. PICK l : LocationInv(l) /\ l.path = Location.path /\ SetBlock(l) BY <2>1
  <2>3. SetLocation(l) BY <2>1, <2>2 DEF SetBlock
  <2> QED BY <2>1, <2>2, <2>3, LocationStep
<1> QED BY <1>1, <1>2

\* The directives of a server: a port is one, and becomes a default only if no server
\* is that of the port.
LEMMA ServerDirectiveKeeps == IInv /\ ServerDirective => IInv'
<1> SUFFICES ASSUME IInv, ServerDirective PROVE IInv' OBVIOUS
<1>0. Last(mode) = "server" =>
        servers # <<>> /\ ServerInv(Server) /\ Len(servers) \in DOMAIN servers
  BY LastBlocks
<1>1. CASE Refuse BY <1>1, RefuseKeeps
<1>2. CASE ServerName /\ ~Refuse
  <2> DEFINE s == [Server EXCEPT !.names = @ \cup Range(ListItems)]
  <2>1. phase = "parsing" /\ Last(mode) = "server" /\ UNCHANGED <<mode, phase>> /\ SetBlock(s)
    BY <1>2 DEF ServerName, Directive, Reads, At, Advance
  <2>2. SetServer(s) BY <2>1 DEF SetBlock
  <2>3. /\ DOMAIN s = ServerFields /\ s.port = Server.port /\ s.isDefault = Server.isDefault
        /\ s.locations = Server.locations
    BY <1>0, <2>1 DEF ServerInv, ServerFields
  <2>4. ServerInv(s) BY <1>0, <2>1, <2>3 DEF ServerInv
  <2> QED BY <1>0, <2>1, <2>2, <2>3, <2>4, DefaultStays, ServerStep
<1>3. CASE Listen /\ ~Refuse
  <2> DEFINE port == Value(<<Last(Word(1))>>)
             default == Words(2) /\ Word(2) = <<"default_server">> /\ Type(3) = ";"
             s == [Server EXCEPT !.hasListen = TRUE, !.port = port, !.isDefault = default]
  <2>1. /\ phase = "parsing" /\ Last(mode) = "server" /\ UNCHANGED <<mode, phase>>
        /\ IsListen(Word(1)) /\ (Ends(1) \/ (default /\ OneDefault(port)))
        /\ SetBlock(s)
    BY <1>3 DEF Listen, Directive, Reads, At, Advance
  <2>2. SetServer(s) BY <2>1 DEF SetBlock
  <2>3. port \in Port
    BY <2>1 DEF IsListen, IsPort, IsNumber, Value, Last
  <2>4. /\ DOMAIN s = ServerFields /\ s.port = port /\ s.isDefault = default
        /\ s.locations = Server.locations
    BY <1>0, <2>1 DEF ServerInv, ServerFields
  <2>5. ServerInv(s) BY <1>0, <2>1, <2>3, <2>4 DEF ServerInv
  <2>6. ASSUME default PROVE OneDefault(port)
    <3>1. ~Ends(1)
      <4>1. Words(2) BY <2>6
      <4>2. \A n : n = 2 => Type(n) = "word" BY <4>1 DEF Words
      <4>3. Ends(1) => Type(1 + 1) = ";" BY DEF Ends
      <4>4. 1 + 1 = 2 OBVIOUS
      <4> QED BY <4>2, <4>3, <4>4
    <3> QED BY <2>1, <3>1
  <2>7. NoOtherDefault(s) BY <2>4, <2>6 DEF OneDefault, NoOtherDefault
  <2> QED BY <1>0, <2>1, <2>2, <2>5, <2>7, ServerStep
<1> QED BY <1>1, <1>2, <1>3 DEF ServerDirective

\* A new server listens on the port it is made with, and is no default.
LEMMA OpenServerKeeps == IInv /\ OpenServer => IInv'
<1> SUFFICES ASSUME IInv, OpenServer PROVE IInv' OBVIOUS
<1>1. CASE Refuse BY <1>1, RefuseKeeps
<1>2. CASE ~Refuse
  <2>1. /\ phase' = phase /\ phase = "parsing" /\ Last(mode) = "global"
        /\ mode' = Append(mode, "server") /\ servers' = Append(servers, NewServer)
    BY <1>2 DEF OpenServer, Reads, At, Advance
  <2>2. mode = Global BY <2>1, Modes DEF IInv, ModeInv
  <2>3. mode' = InServer BY <2>1, <2>2 DEF InServer
  <2>4. /\ IsSeq(servers') /\ DOMAIN servers' = DOMAIN servers \cup {Len(servers) + 1}
        /\ servers'[Len(servers) + 1] = NewServer
        /\ \A i \in DOMAIN servers : servers'[i] = servers[i]
    BY <2>1, AppendIsSeq DEF IInv, ServersInv
  <2>5. \A i \in DOMAIN servers' : ServerInv(servers'[i])
    BY <2>4, NewBlocks DEF IInv, ServersInv
  <2>6. OneDefaultPerPort'
    BY <2>4, NewBlocks DEF IInv, ServersInv, OneDefaultPerPort
  <2>7. servers' # <<>> BY <2>4, EmptyIsSeq
  <2>8. ModeInv' BY <2>3, <2>7, Modes DEF ModeInv
  <2> QED BY <2>1, <2>4, <2>5, <2>6, <2>8 DEF IInv, ServersInv, ConfigIsServable
<1> QED BY <1>1, <1>2

\* A location is opened on a path that no other has.
LEMMA OpenLocationKeeps == IInv /\ OpenLocation => IInv'
<1> SUFFICES ASSUME IInv, OpenLocation PROVE IInv' OBVIOUS
<1>1. CASE Refuse BY <1>1, RefuseKeeps
<1>2. CASE ~Refuse
  <2> DEFINE path == Word(1)
             new  == NewLocation(path)
             s    == [Server EXCEPT !.locations = Append(@, new)]
  <2>1. /\ phase' = phase /\ phase = "parsing" /\ Last(mode) = "server"
        /\ mode' = Append(mode, "location") /\ SetServer(s)
        /\ path[1] = "/" /\ PathIsFree(path)
    BY <1>2 DEF OpenLocation, Reads, At, Advance
  <2>2. mode = InServer BY <2>1, Modes DEF IInv, ModeInv
  <2>3. mode' = InLocation BY <2>1, <2>2 DEF InLocation
  <2>4. servers # <<>> /\ ServerInv(Server) BY <2>1, LastBlocks
  <2>5. LocationInv(new) /\ new.path = path BY <2>1, NewBlocks
  <2>6. /\ DOMAIN s = ServerFields /\ s.locations = Append(Server.locations, new)
        /\ s.port = Server.port /\ s.isDefault = Server.isDefault
    BY <2>4 DEF ServerInv, ServerFields
  <2> DEFINE n == Len(Server.locations)
  <2>7. /\ IsSeq(s.locations) /\ DOMAIN s.locations = DOMAIN Server.locations \cup {n + 1}
        /\ s.locations[n + 1] = new
        /\ \A j \in DOMAIN Server.locations : s.locations[j] = Server.locations[j]
    BY <2>4, <2>6, AppendIsSeq DEF ServerInv
  <2>8. \A j, k \in DOMAIN s.locations : s.locations[j].path = s.locations[k].path => j = k
    BY <2>1, <2>4, <2>5, <2>7 DEF ServerInv, PathIsFree
  <2>9. ServerInv(s) BY <2>4, <2>5, <2>6, <2>7, <2>8 DEF ServerInv
  <2>10. s.locations # <<>> BY <2>7, EmptyIsSeq
  <2>11. NoOtherDefault(s) BY <2>1, <2>6, DefaultStays
  <2>12. ServersInv' /\ servers' # <<>> /\ Server' = s
    BY <2>1, <2>4, <2>9, <2>11, SetServerKeeps DEF IInv
  <2>13. ModeInv' BY <2>3, <2>10, <2>12, Modes DEF ModeInv
  <2> QED BY <2>1, <2>12, <2>13 DEF IInv, ConfigIsServable
<1> QED BY <1>1, <1>2

\* The block that a brace closes was inside one that is still there.
LEMMA RightBraceKeeps == IInv /\ RightBrace => IInv'
<1> SUFFICES ASSUME IInv, RightBrace PROVE IInv' OBVIOUS
<1>1. CASE Refuse BY <1>1, RefuseKeeps
<1>2. CASE ~Refuse
  <2>1. /\ phase' = phase /\ phase = "parsing" /\ Last(mode) # "global"
        /\ mode' = Front(mode) /\ servers' = servers
    BY <1>2 DEF RightBrace, At, Advance
  <2>2. mode' \in {Global, InServer} BY <2>1, Modes DEF IInv, ModeInv
  <2>3. ModeInv' BY <2>1, <2>2, Modes DEF IInv, ModeInv
  <2>4. ServersInv' BY <2>1 DEF IInv, ServersInv, OneDefaultPerPort
  <2> QED BY <2>1, <2>3, <2>4 DEF IInv, ConfigIsServable
<1> QED BY <1>1, <1>2

\* A function on 1..n is a sequence.
LEMMA FunctionIsSeq ==
  ASSUME NEW n \in Nat, NEW f, f = [i \in 1..n |-> f[i]]
  PROVE  IsSeq(f) /\ Len(f) = n /\ DOMAIN f = 1..n
<1> DEFINE S == {f[i] : i \in 1..n}
<1>1. f \in [1..n -> S] OBVIOUS
<1>2. f \in Seq(S) BY <1>1, SeqDef
<1>3. IsSeq(f) BY <1>2 DEF IsSeq
<1>4. DOMAIN f = 1..n BY <1>1
<1>5. Len(f) = n BY <1>2, <1>4, LenProperties
<1> QED BY <1>3, <1>4, <1>5

\* What is left out of a block is filled in, and the block can be served.
LEMMA FillKeeps ==
  ASSUME NEW s, ServerInv(s), UploadHasPlace(s)
  PROVE  LET f == FillEmptyDirectives(s)
         IN  /\ ServerInv(f) /\ f.locations # <<>> /\ ServerIsServable(f)
             /\ f.port = s.port /\ f.isDefault = s.isDefault
<1> DEFINE f  == FillEmptyDirectives(s)
           ls == f.locations
           n  == Len(s.locations)
<1>1. /\ DOMAIN f = ServerFields /\ f.port = s.port /\ f.isDefault = s.isDefault
      /\ f.index = IF s.index = <<>> THEN <<DefaultIndex>> ELSE s.index
      /\ ls = IF s.locations = <<>> THEN <<DefaultLocation>>
              ELSE [j \in DOMAIN s.locations |-> FillLocation(s.locations[j])]
  BY DEF FillEmptyDirectives, ServerInv, ServerFields
<1>2. f.index # <<>> BY <1>1, SingletonIsSeq, EmptyIsSeq
<1>3. /\ IsSeq(ls) /\ ls # <<>>
      /\ \A j \in DOMAIN ls : LocationInv(ls[j]) /\ LocationIsServable(ls[j])
      /\ \A j, k \in DOMAIN ls : ls[j].path = ls[k].path => j = k
  <2>1. CASE s.locations = <<>>
    <3>1. IsSeq(ls) /\ DOMAIN ls = {1} /\ ls[1] = DefaultLocation
      BY <1>1, <2>1, SingletonIsSeq
    <3>2. LocationInv(DefaultLocation) /\ LocationIsServable(DefaultLocation)
      BY NewBlocks DEF LocationIsServable, LocationInv, DefaultLocation, Method
    <3> QED BY <3>1, <3>2, EmptyIsSeq
  <2>2. CASE s.locations # <<>>
    <3>1. /\ n \in Nat /\ DOMAIN s.locations = 1..n /\ n \in DOMAIN s.locations
      BY <2>2, SeqIsFunction DEF ServerInv
    <3>2. ls = [j \in 1..n |-> FillLocation(s.locations[j])] BY <1>1, <2>2, <3>1
    <3>3. IsSeq(ls) /\ DOMAIN ls = 1..n BY <3>1, <3>2, FunctionIsSeq
    <3>4. ls # <<>> BY <3>1, <3>3, EmptyIsSeq
    <3>5. ASSUME NEW j \in 1..n
          PROVE  /\ LocationInv(ls[j]) /\ LocationIsServable(ls[j])
                 /\ ls[j].path = s.locations[j].path
      <4> DEFINE l == s.locations[j]
      <4>1. /\ LocationInv(l) /\ (l.upload => l.uploadTo # <<>>)
            /\ ls[j] = FillLocation(l)
        BY <3>1, <3>2 DEF ServerInv, UploadHasPlace
      <4>2. LocationInv(FillLocation(l)) /\ FillLocation(l).path = l.path
        BY <4>1 DEF LocationInv, FillLocation, LocationFields
      <4>3. /\ FillLocation(l).methods # {} /\ FillLocation(l).upload = l.upload
            /\ FillLocation(l).uploadTo = l.uploadTo
        BY <4>1 DEF LocationInv, FillLocation, LocationFields, Method
      <4> QED BY <4>1, <4>2, <4>3 DEF LocationIsServable, LocationInv
    <3>6. \A j, k \in 1..n : ls[j].path = ls[k].path => j = k
      BY <3>1, <3>5 DEF ServerInv
    <3> QED BY <3>3, <3>4, <3>5, <3>6
  <2> QED BY <2>1, <2>2
<1>4. ServerInv(f) BY <1>1, <1>3 DEF ServerInv
<1>5. ServerIsServable(f) BY <1>1, <1>2, <1>3 DEF ServerIsServable, ServerInv
<1> QED BY <1>1, <1>3, <1>4, <1>5

\* The blocks are filled one by one, so that neither ports nor defaults change.
LEMMA EndOfFileKeeps == IInv /\ EndOfFile => IInv'
<1> SUFFICES ASSUME IInv, EndOfFile PROVE IInv' OBVIOUS
<1>1. CASE Refuse BY <1>1, RefuseKeeps
<1>2. CASE ~Refuse
  <2> DEFINE n == Len(servers)
  <2>1. /\ mode' = mode /\ servers # <<>>
        /\ \A i \in DOMAIN servers : UploadHasPlace(servers[i])
        /\ servers' = [i \in DOMAIN servers |-> FillEmptyDirectives(servers[i])]
    BY <1>2 DEF EndOfFile
  <2>2. n \in Nat /\ DOMAIN servers = 1..n /\ n \in 1..n
    BY <2>1, SeqIsFunction DEF IInv, ServersInv
  <2>3. IsSeq(servers') /\ Len(servers') = n /\ DOMAIN servers' = 1..n
    BY <2>1, <2>2, FunctionIsSeq
  <2>4. \A i \in 1..n :
          /\ ServerInv(servers'[i]) /\ ServerIsServable(servers'[i])
          /\ servers'[i].locations # <<>>
          /\ servers'[i].port = servers[i].port
          /\ servers'[i].isDefault = servers[i].isDefault
    BY <2>1, <2>2, FillKeeps DEF IInv, ServersInv
  <2>5. OneDefaultPerPort'
    BY <2>2, <2>3, <2>4 DEF IInv, ServersInv, OneDefaultPerPort
  <2>6. servers' # <<>> BY <2>2, <2>3, EmptyIsSeq
  <2>7. ModeInv' BY <2>1, <2>2, <2>3, <2>4, <2>6 DEF IInv, ModeInv, Server, Last
  <2> QED BY <2>3, <2>4, <2>5, <2>6, <2>7 DEF IInv, ServersInv, ConfigIsServable
<1> QED BY <1>1, <1>2

-----------------------------------------------------------------------------
(* The theorem.                                                            *)

\* Every step keeps the invariant: a step of the parser by its lemma, any other since it
\* leaves what the file gave alone.
LEMMA NextKeeps == IInv /\ [Next]_vars => IInv'
<1> SUFFICES ASSUME IInv, [Next]_vars PROVE IInv' OBVIOUS
<1>1. CASE Configure
  <2>1. CASE OpenFails BY <2>1, RefuseKeeps DEF OpenFails
  <2>2. CASE Open BY <2>2, StutterKeeps DEF Open
  <2>3. CASE NewLines BY <2>3, StutterKeeps DEF NewLines, Advance
  <2>4. CASE Unexpected BY <2>4, RefuseKeeps DEF Unexpected
  <2>5. CASE Unknown BY <2>5, RefuseKeeps DEF Unknown
  <2> QED
    BY <1>1, <2>1, <2>2, <2>3, <2>4, <2>5, RightBraceKeeps, OpenServerKeeps,
       OpenLocationKeeps, ServerDirectiveKeeps, CommonDirectiveKeeps,
       LocationDirectiveKeeps, EndOfFileKeeps
    DEF Configure, ParserStep
<1>2. CASE UNCHANGED configVars BY <1>2, StutterKeeps DEF configVars
<1>3. [Next]_vars => Configure \/ UNCHANGED configVars
  BY DEF Next, vars, Construct, Configured, OpenPort, SocketFails, AddHandlerFails, Run,
         Sigint, RunReturns, Destroy
<1> QED BY <1>1, <1>2, <1>3

\* No block has been read yet.
LEMMA InitHolds == Init => IInv
<1> SUFFICES ASSUME Init PROVE IInv OBVIOUS
<1>1. servers = <<>> /\ mode = Global /\ phase = "start" BY DEF Init, ConfigInit, Global
<1>2. ModeInv BY <1>1, Modes DEF ModeInv
<1>3. ServersInv BY <1>1, EmptyIsSeq DEF ServersInv, OneDefaultPerPort
<1> QED BY <1>1, <1>2, <1>3 DEF IInv, ConfigIsServable

\* Whatever the file, a configuration that has been accepted can be served: every block
\* has what the matchers and the builder take for granted (ConfigParser::parse), and it
\* stays so while the program runs.
THEOREM AcceptedConfigIsServable == Spec => []ConfigIsServable
<1>1. IInv => ConfigIsServable BY DEF IInv
<1> QED BY <1>1, InitHolds, NextKeeps, PTL DEF Spec

-----------------------------------------------------------------------------
(* Sockets.                                                                *)

\* Until the destructors have run a socket that listens has not been deleted, and any
\* other has been, once.
Owned == /\ Range(listening) \subseteq DOMAIN deleted /\ open \subseteq Range(listening)
         /\ \A p \in DOMAIN deleted : deleted[p] = IF p \in Range(listening) THEN 0 ELSE 1

SocketInv ==
  /\ IsSeq(listening)
  /\ stage \in {"start", "config", "init", "run"} => why = "none"
  /\ stage = "start" => open = {} /\ deleted = <<>> /\ acceptors = <<>> /\ ~epollOpen
  /\ stage \notin {"over", "killed"} /\ why # "epoll" => Owned
  /\ SocketsFreedOnce

\* The range of a sequence to which an element is appended.
LEMMA AppendRange ==
  ASSUME NEW s, IsSeq(s), NEW e
  PROVE  IsSeq(Append(s, e)) /\ Range(Append(s, e)) = Range(s) \cup {e}
<1>1. /\ IsSeq(Append(s, e)) /\ DOMAIN Append(s, e) = DOMAIN s \cup {Len(s) + 1}
      /\ Append(s, e)[Len(s) + 1] = e /\ \A i \in DOMAIN s : Append(s, e)[i] = s[i]
  BY AppendIsSeq
<1> QED BY <1>1 DEF Range

\* The smallest of some ports is one of them.
LEMMA NextPortIsLeft ==
  ASSUME IInv, PortsLeft # {}
  PROVE  NextPort \in PortsLeft
<1>1. PortsLeft \subseteq Nat
  <2>1. \A i \in DOMAIN servers : servers[i].port \in Port BY DEF IInv, ServersInv, ServerInv
  <2>2. Port \subseteq Nat BY DEF Port
  <2> QED BY <2>1, <2>2 DEF PortsLeft
<1> QED BY <1>1, MinIsSmallest DEF NextPort

\* A turn of init deals with a port that it has not come to before.
LEMMA NewPort ==
  ASSUME IInv, SocketInv, PortsLeft # {}
  PROVE  /\ NextPort \notin Range(listening)
         /\ IsSeq(Append(listening, NextPort))
         /\ Range(Append(listening, NextPort)) = Range(listening) \cup {NextPort}
<1>1. NextPort \in PortsLeft BY NextPortIsLeft
<1> QED BY <1>1, AppendRange DEF PortsLeft, SocketInv

\* What init does keeps the sockets owned.
LEMMA InitStepKeeps ==
  ASSUME IInv, SocketInv, OpenPort \/ SocketFails \/ AddHandlerFails
  PROVE  SocketInv'
<1> USE NewPort DEF SocketInv, Owned, SocketsFreedOnce, Leave, Set
<1>1. CASE OpenPort BY <1>1 DEF OpenPort
<1>2. CASE SocketFails BY <1>2 DEF SocketFails
<1>3. CASE AddHandlerFails BY <1>3 DEF AddHandlerFails
<1> QED BY <1>1, <1>2, <1>3

\* The destructors delete what is still owned.
LEMMA DestroyKeeps == SocketInv /\ Destroy => SocketInv'
<1> SUFFICES ASSUME SocketInv, Destroy PROVE SocketInv' OBVIOUS
<1>1. /\ listening' = listening /\ why' = why /\ stage' \in {"over", "killed"}
      /\ acceptors' = <<>> /\ ~epollOpen' /\ stage = "unwind"
  BY DEF Destroy
<1>2. ASSUME why # "epoll"
      PROVE  stage' = "over" /\ open' = {} /\ \A p \in DOMAIN deleted' : deleted'[p] = 1
  BY <1>1, <1>2 DEF Destroy, SocketInv, Owned
<1> QED BY <1>1, <1>2 DEF SocketInv, SocketsFreedOnce

\* Every step keeps the sockets owned.
LEMMA SocketNextKeeps == IInv /\ SocketInv /\ [Next]_vars => SocketInv'
<1> SUFFICES ASSUME IInv, SocketInv, [Next]_vars PROVE SocketInv' OBVIOUS
<1> USE DEF SocketInv, Owned, SocketsFreedOnce
<1>1. CASE Construct BY <1>1 DEF Construct, Range
<1>2. CASE Configure \/ UNCHANGED vars BY <1>2 DEF Configure, vars, startVars
<1>3. CASE Configured BY <1>3 DEF Configured, Leave
<1>4. CASE OpenPort \/ SocketFails \/ AddHandlerFails BY <1>4, InitStepKeeps
<1>5. CASE Run \/ Sigint \/ RunReturns BY <1>5 DEF Run, Sigint, RunReturns, Leave
<1>6. CASE Destroy BY <1>6, DestroyKeeps
<1> QED BY <1>1, <1>2, <1>3, <1>4, <1>5, <1>6 DEF Next

\* There is no socket yet.
LEMMA SocketInitHolds == Init => SocketInv
BY EmptyIsSeq DEF Init, SocketInv, Owned, SocketsFreedOnce, Range

\* However the program ends, unless epoll refuses an acceptor, the two owners of a socket
\* (ServerManager::init and ~ServerManager) have deleted it once, and nothing is open.
THEOREM SocketsAreFreedOnce == Spec => []SocketsFreedOnce
<1>1. SocketInv => SocketsFreedOnce BY DEF SocketInv
<1>2. Init => IInv /\ SocketInv BY InitHolds, SocketInitHolds
<1>3. IInv /\ SocketInv /\ [Next]_vars => IInv' /\ SocketInv'
  BY NextKeeps, SocketNextKeeps
<1> QED BY <1>1, <1>2, <1>3, PTL DEF Spec

-----------------------------------------------------------------------------
(* The servers of each port.                                               *)

\* A server is added to the others of its port.
Place(map, s) ==
  Set(map, s.port, Append(IF s.port \in DOMAIN map THEN map[s.port] ELSE <<>>, s))

\* The scan of ByPort, server by server.
PortScan(list, a) ==
  /\ a[0] = <<>>
  /\ \A k \in 1..Len(list) : a[k] = Place(a[k - 1], list[k])

\* The maps from some of the ports of a list to sequences of its servers.
PortMaps(list) ==
  UNION {[P -> Seq(Range(list))] : P \in SUBSET {list[i].port : i \in DOMAIN list}}

\* A map stays one when a server of the list is added.
LEMMA PlaceIsMap ==
  ASSUME NEW list, NEW map \in PortMaps(list), NEW k \in DOMAIN list
  PROVE  /\ Place(map, list[k]) \in PortMaps(list)
         /\ DOMAIN Place(map, list[k]) = DOMAIN map \cup {list[k].port}
<1> DEFINE p   == list[k].port
           S   == Range(list)
           old == IF p \in DOMAIN map THEN map[p] ELSE <<>>
           Q   == DOMAIN map \cup {p}
           new == [q \in Q |-> IF q = p THEN Append(old, list[k]) ELSE map[q]]
<1>1. PICK P \in SUBSET {list[i].port : i \in DOMAIN list} : map \in [P -> Seq(S)]
  BY DEF PortMaps
<1>2. list[k] \in S BY DEF Range
<1>3. old \in Seq(S) BY <1>1, EmptySeq
<1>4. Append(old, list[k]) \in Seq(S)
  <2> HIDE DEF old
  <2> QED BY <1>2, <1>3, AppendProperties
<1>5. Q \in SUBSET {list[i].port : i \in DOMAIN list} /\ \A q \in DOMAIN map : map[q] \in Seq(S)
  BY <1>1
<1>6. new \in [Q -> Seq(S)]
  <2> HIDE DEF old, S
  <2> QED BY <1>4, <1>5
<1>7. Place(map, list[k]) = new BY DEF Place, Set
<1> HIDE DEF new
<1>8. new \in PortMaps(list) /\ DOMAIN new = Q BY <1>5, <1>6 DEF PortMaps
<1> QED BY <1>7, <1>8

\* No port at all.
LEMMA NoPorts == ASSUME NEW list PROVE <<>> \in PortMaps(list)
<1> DEFINE S == Range(list)
<1>1. <<>> \in Seq(S) /\ Len(<<>>) = 0 BY EmptySeq
<1>2. <<>> \in [1..0 -> S] BY <1>1, LenProperties
<1>3. 1..0 = {} OBVIOUS
<1>4. <<>> \in [{} -> Seq(S)] BY <1>2, <1>3
<1>5. {} \in SUBSET {list[i].port : i \in DOMAIN list} OBVIOUS
<1> QED BY <1>4, <1>5 DEF PortMaps

\* There is such a scan, and ByPort is its last step.
LEMMA ByPortScans ==
  ASSUME NEW list, IsSeq(list)
  PROVE  \E a : PortScan(list, a) /\ ByPort(list) = a[Len(list)]
<1> DEFINE n      == Len(list)
           V      == PortMaps(list)
           Step(s, i) == Place(s, list[i])
           G(it)  == [s \in SUBSET (DOMAIN list) |->
                        IF s = {} THEN <<>>
                        ELSE LET x == Max(s) IN Step(it[s \ {x}], x)]
           R      == CHOOSE it : it = G(it)
           F      == [i \in 1..n |-> [s \in V |-> Step(s, i)]]
<1>1. ByPort(list) = R[DOMAIN list]
  BY DEF ByPort, FoldLeft, MapThenFoldSet, Place
<1>2. n \in Nat /\ DOMAIN list = 1..n BY SeqIsFunction
<1>5. <<>> \in V BY NoPorts
<1>6. \A i \in 1..n : \A s \in V : Step(s, i) \in V BY <1>2, PlaceIsMap
<1> HIDE DEF n, Step, V
<1>7. F \in [1..n -> [V -> V]] BY <1>6
<1>8. R = G(R)
  <2>1. PICK it : FoldsSets(V, <<>>, n, F, it)
    <3> HIDE DEF F
    <3> QED BY <1>2, <1>5, <1>7, FoldExists
  <2>2. /\ it \in [SUBSET (1..n) -> V]
        /\ it = [s \in SUBSET (1..n) |-> IF s = {} THEN <<>> ELSE F[Max(s)][it[s \ {Max(s)}]]]
    BY <2>1 DEF FoldsSets
  <2>3. ASSUME NEW s \in SUBSET (1..n), s # {}
        PROVE  F[Max(s)][it[s \ {Max(s)}]] = Step(it[s \ {Max(s)}], Max(s))
    <3>1. Max(s) \in s BY <1>2, <2>3, RestIsSmaller
    <3>2. it[s \ {Max(s)}] \in V BY <2>2
    <3> QED BY <3>1, <3>2
  <2>4. it = G(it)
    <3> HIDE DEF F
    <3>1. \A s \in SUBSET (1..n) :
            (IF s = {} THEN <<>> ELSE F[Max(s)][it[s \ {Max(s)}]])
              = (IF s = {} THEN <<>> ELSE Step(it[s \ {Max(s)}], Max(s)))
      BY <2>3
    <3>2. [s \in SUBSET (1..n) |-> IF s = {} THEN <<>> ELSE F[Max(s)][it[s \ {Max(s)}]]]
            = G(it)
      BY <1>2, <3>1
    <3> QED BY <2>2, <3>2
  <2> QED BY <2>4
<1> HIDE DEF R
<1> DEFINE a == [k \in 0..n |-> R[1..k]]
<1>9. a[0] = <<>>
  <2>1. 1..0 = {} /\ {} \in SUBSET (1..n) /\ 0 \in 0..n BY <1>2
  <2>2. R[{}] = <<>> BY <1>2, <1>8, <2>1
  <2> QED BY <2>1, <2>2
<1>10. ASSUME NEW k \in 1..n PROVE a[k] = Step(a[k - 1], k)
  <2>1. k - 1 \in 0..n /\ k \in 0..n BY <1>2
  <2>2. 1..k \in SUBSET (1..n) /\ 1..k # {} /\ Max(1..k) = k /\ (1..k) \ {k} = 1..k - 1
    BY <1>2, <2>1, InitialSets
  <2>3. \A s \in SUBSET (1..n) : s # {} => R[s] = Step(R[s \ {Max(s)}], Max(s))
    BY <1>2, <1>8
  <2>4. R[1..k] = Step(R[(1..k) \ {k}], k) BY <2>2, <2>3, Zenon
  <2>5. R[1..k] = Step(R[1..k - 1], k) BY <2>2, <2>4
  <2> QED BY <2>1, <2>5
<1>11. a[n] = R[DOMAIN list] BY <1>2
<1>12. PortScan(list, a)
  <2> HIDE DEF a
  <2> QED BY <1>9, <1>10 DEF PortScan, Step, n
<1> QED BY <1>1, <1>11, <1>12 DEF n

\* The servers of a port among the first k, in the order of the list.
InOrderUpTo(list, k, sub, p) ==
  \E place \in [DOMAIN sub -> 1..k] :
    /\ Range(place) = {i \in 1..k : list[i].port = p}
    /\ \A i, j \in DOMAIN sub : i < j => place[i] < place[j]
    /\ \A i \in DOMAIN sub : sub[i] = list[place[i]]

\* One server more, of that port or of another.
LEMMA OneMoreInOrder ==
  ASSUME NEW list, NEW k \in Nat \ {0}, NEW p, NEW S, NEW sub \in Seq(S), NEW s \in S,
         InOrderUpTo(list, k - 1, sub, p), s = list[k]
  PROVE  /\ s.port # p => InOrderUpTo(list, k, sub, p)
         /\ s.port = p => InOrderUpTo(list, k, Append(sub, s), p)
<1>1. PICK place \in [DOMAIN sub -> 1..k - 1] :
        /\ Range(place) = {i \in 1..k - 1 : list[i].port = p}
        /\ \A i, j \in DOMAIN sub : i < j => place[i] < place[j]
        /\ \A i \in DOMAIN sub : sub[i] = list[place[i]]
  BY DEF InOrderUpTo
<1>2. ASSUME s.port # p PROVE InOrderUpTo(list, k, sub, p)
  <2>1. {i \in 1..k : list[i].port = p} = {i \in 1..k - 1 : list[i].port = p} BY <1>2
  <2>2. place \in [DOMAIN sub -> 1..k] BY <1>1
  <2> QED BY <1>1, <2>1, <2>2 DEF InOrderUpTo
<1>3. ASSUME s.port = p PROVE InOrderUpTo(list, k, Append(sub, s), p)
  <2> DEFINE new  == Append(sub, s)
             m    == Len(sub)
             next == [i \in 1..m + 1 |-> IF i = m + 1 THEN k ELSE place[i]]
  <2>1. /\ m \in Nat /\ DOMAIN sub = 1..m /\ DOMAIN new = 1..m + 1
        /\ new[m + 1] = s /\ \A i \in 1..m : new[i] = sub[i]
    BY AppendProperties, LenProperties
  <2> HIDE DEF new, m
  <2>2. next \in [DOMAIN new -> 1..k] BY <1>1, <2>1
  <2>3. {i \in 1..k : list[i].port = p} = {i \in 1..k - 1 : list[i].port = p} \cup {k}
    BY <1>3
  <2>4. Range(next) = Range(place) \cup {k}
    <3>1. DOMAIN next = 1..m + 1 /\ DOMAIN place = 1..m BY <1>1, <2>1
    <3>2. next[m + 1] = k /\ \A i \in 1..m : next[i] = place[i] BY <2>1
    <3>3. 1..m + 1 = 1..m \cup {m + 1} BY <2>1
    <3> HIDE DEF next
    <3> QED BY <3>1, <3>2, <3>3 DEF Range
  <2>5. \A i, j \in DOMAIN new : i < j => next[i] < next[j]
    <3> SUFFICES ASSUME NEW i \in 1..m + 1, NEW j \in 1..m + 1, i < j PROVE next[i] < next[j]
      BY <2>1
    <3>1. i \in 1..m /\ i # m + 1 BY <2>1
    <3>2. place[i] \in 1..k - 1 /\ next[i] = place[i] BY <1>1, <2>1, <3>1
    <3>3. j = m + 1 => next[j] = k OBVIOUS
    <3>4. j # m + 1 => j \in 1..m /\ next[j] = place[j] BY <2>1
    <3>5. j # m + 1 => place[i] < place[j] BY <1>1, <2>1, <3>1, <3>4
    <3> HIDE DEF next
    <3> QED BY <3>2, <3>3, <3>4, <3>5
  <2>6. \A i \in DOMAIN new : new[i] = list[next[i]]
    <3> SUFFICES ASSUME NEW i \in 1..m + 1 PROVE new[i] = list[next[i]] BY <2>1
    <3>1. CASE i = m + 1 BY <2>1, <3>1
    <3>2. CASE i # m + 1
      <4>1. i \in 1..m BY <2>1, <3>2
      <4> QED BY <1>1, <2>1, <3>2, <4>1
    <3> QED BY <3>1, <3>2
  <2> HIDE DEF next
  <2>7. Range(next) = {i \in 1..k : list[i].port = p} BY <1>1, <2>3, <2>4
  <2>8. InOrderUpTo(list, k, new, p) BY <2>2, <2>5, <2>6, <2>7 DEF InOrderUpTo
  <2> QED BY <2>8 DEF new
<1> QED BY <1>2, <1>3

\* The map has the ports of the servers, and each port has its servers in order.
LEMMA ByPortIs ==
  ASSUME NEW list, IsSeq(list)
  PROVE  /\ DOMAIN ByPort(list) = {list[i].port : i \in DOMAIN list}
         /\ \A p \in DOMAIN ByPort(list) : InOrderUpTo(list, Len(list), ByPort(list)[p], p)
<1> DEFINE n       == Len(list)
           V       == PortMaps(list)
           Right(map, k) ==
             /\ map \in V /\ DOMAIN map = {list[i].port : i \in 1..k}
             /\ \A p \in DOMAIN map : InOrderUpTo(list, k, map[p], p)
<1>1. PICK a : PortScan(list, a) /\ ByPort(list) = a[n] BY ByPortScans
<1>2. n \in Nat /\ DOMAIN list = 1..n BY SeqIsFunction
<1> DEFINE H == {k \in 0..n : Right(a[k], k)}
<1>3. 0 \in H
  <2>1. a[0] = <<>> /\ <<>> \in V /\ DOMAIN <<>> = {} BY <1>1, NoPorts, EmptyIsSeq DEF PortScan
  <2>2. 1..0 = {} /\ 0 \in 0..n BY <1>2
  <2> QED BY <2>1, <2>2
<1>4. ASSUME NEW k \in 1..n, k - 1 \in H PROVE k \in H
  <2> DEFINE s   == list[k]
             S   == Range(list)
             old == a[k - 1]
             new == a[k]
  <2>1. Right(old, k - 1) BY <1>4
  <2>2. new = Place(old, s) BY <1>1 DEF PortScan
  <2>3. new \in V /\ DOMAIN new = DOMAIN old \cup {s.port}
    <3>1. old \in PortMaps(list) /\ k \in DOMAIN list BY <1>2, <2>1
    <3> HIDE DEF old, new
    <3>2. Place(old, list[k]) \in V /\ DOMAIN Place(old, list[k]) = DOMAIN old \cup {list[k].port}
      BY <3>1, PlaceIsMap
    <3> QED BY <2>2, <3>2
  <2>4. 1..k = 1..k - 1 \cup {k} /\ k \in Nat \ {0} BY <1>2
  <2>5. DOMAIN new = {list[i].port : i \in 1..k} BY <2>1, <2>3, <2>4
  <2>6. s \in S BY <1>2 DEF Range
  <2>7. ASSUME NEW p \in DOMAIN new PROVE InOrderUpTo(list, k, new[p], p)
    <3> DEFINE sub == IF p \in DOMAIN old THEN old[p] ELSE <<>>
    <3>1. new[p] = IF p = s.port THEN Append(sub, s) ELSE sub
      BY <2>2, <2>3, <2>7 DEF Place, Set
    <3>2. sub \in Seq(S) BY <2>1, EmptySeq DEF PortMaps
    <3>3. InOrderUpTo(list, k - 1, sub, p)
      <4>1. CASE p \in DOMAIN old BY <2>1, <4>1
      <4>2. CASE p \notin DOMAIN old
        <5>1. sub = <<>> /\ DOMAIN sub = {} BY <4>2, EmptyIsSeq
        <5>2. {i \in 1..k - 1 : list[i].port = p} = {} BY <2>1, <4>2
        <5> DEFINE none == [i \in {} |-> 0]
        <5>3. none \in [{} -> 1..k - 1] /\ Range(none) = {} BY DEF Range
        <5> HIDE DEF sub, none
        <5> QED BY <5>1, <5>2, <5>3 DEF InOrderUpTo
      <4> QED BY <4>1, <4>2
    <3> HIDE DEF sub, s, S
    <3>4. /\ s.port # p => InOrderUpTo(list, k, sub, p)
          /\ s.port = p => InOrderUpTo(list, k, Append(sub, s), p)
      BY <2>4, <2>6, <3>2, <3>3, OneMoreInOrder DEF s
    <3> QED BY <3>1, <3>4
  <2>8. k \in 0..n BY <1>2
  <2> QED BY <2>3, <2>5, <2>7, <2>8
<1>5. n \in H
  <2>1. H \in SUBSET (0..n) OBVIOUS
  <2> HIDE DEF H
  <2>2. H = 0..n BY <1>2, <1>3, <1>4, <2>1, UpTo
  <2> QED BY <1>2, <2>2
<1> QED BY <1>1, <1>2, <1>5

-----------------------------------------------------------------------------
(* Ports.                                                                  *)

Ports == {servers[i].port : i \in DOMAIN servers}

\* There is no socket before init, and none of a port that no server listens on; one that
\* listens or is open has been made, and an acceptor has one that listens.
SocketTypes ==
  /\ stage \in {"start", "config"} =>
       listening = <<>> /\ deleted = <<>> /\ open = {} /\ acceptors = <<>>
  /\ open \subseteq DOMAIN deleted /\ Range(listening) \subseteq DOMAIN deleted
  /\ DOMAIN acceptors \subseteq Range(listening)
  /\ DOMAIN deleted \subseteq Ports

\* From init on every socket that listens is open, has its acceptor with the servers of
\* its port, and is listed once; and when the server runs no port is left.
Served ==
  /\ stage \in {"init", "run"} =>
       /\ Range(listening) = open /\ DOMAIN acceptors = open
       /\ \A p \in open : deleted[p] = 0 /\ acceptors[p] = ByPort(servers)[p]
       /\ IsFiniteSet(open) /\ Len(listening) = Cardinality(open)
  /\ stage = "run" => PortsLeft = {}

\* The turns of init.
LEMMA InitStepServes ==
  ASSUME IInv, SocketInv, SocketTypes, Served, OpenPort \/ SocketFails \/ AddHandlerFails
  PROVE  SocketTypes' /\ Served'
<1> DEFINE p == NextPort
<1>1. PortsLeft # {} /\ servers' = servers BY DEF OpenPort, SocketFails, AddHandlerFails, configVars
<1>2. p \in Ports /\ p \notin Range(listening)
  BY <1>1, NextPortIsLeft DEF PortsLeft, Ports
<1>3. /\ Range(Append(listening, p)) = Range(listening) \cup {p}
      /\ Len(Append(listening, p)) = Len(listening) + 1 /\ Len(listening) \in Nat
  BY AppendRange, AppendIsSeq, SeqIsFunction DEF SocketInv
<1>4. Ports' = Ports BY <1>1 DEF Ports
<1> HIDE DEF p
<1>5. SocketTypes'
  <2>1. CASE OpenPort
    BY <1>2, <1>3, <1>4, <2>1 DEF OpenPort, SocketTypes, Set, p
  <2>2. CASE SocketFails
    BY <1>2, <1>3, <1>4, <2>2 DEF SocketFails, SocketTypes, Set, Leave, p
  <2>3. CASE AddHandlerFails
    BY <1>2, <1>3, <1>4, <2>3 DEF AddHandlerFails, SocketTypes, Set, Leave, p
  <2> QED BY <2>1, <2>2, <2>3
<1>6. Served'
  <2>1. CASE OpenPort
    <3>1. /\ stage = "init" /\ stage' = "init" /\ listening' = Append(listening, p)
          /\ deleted' = Set(deleted, p, 0) /\ open' = open \cup {p}
          /\ acceptors' = Set(acceptors, p, ByPort(servers)[p])
      BY <2>1 DEF OpenPort, p
    <3>2. /\ Range(listening) = open /\ DOMAIN acceptors = open
          /\ \A q \in open : deleted[q] = 0 /\ acceptors[q] = ByPort(servers)[q]
          /\ IsFiniteSet(open) /\ Len(listening) = Cardinality(open)
      BY <3>1 DEF Served
    <3>3. IsFiniteSet(open') /\ Cardinality(open') = Cardinality(open) + 1
      BY <1>2, <3>1, <3>2, FS_AddElement
    <3>4. DOMAIN acceptors' = open' /\ open \subseteq DOMAIN deleted
      BY <3>1, <3>2 DEF Set, SocketTypes
    <3>5. \A q \in open' : deleted'[q] = 0 /\ acceptors'[q] = ByPort(servers')[q]
      <4> HIDE <1>3, <1>4, <1>5
      <4> QED BY <1>1, <1>2, <3>1, <3>2, <3>4 DEF Set
    <3> QED BY <1>3, <3>1, <3>2, <3>3, <3>4, <3>5 DEF Served
  <2>2. CASE SocketFails \/ AddHandlerFails
    BY <2>2 DEF SocketFails, AddHandlerFails, Leave, Served
  <2> QED BY <2>1, <2>2
<1> QED BY <1>5, <1>6

\* Any other step.
LEMMA ServedNextKeeps ==
  IInv /\ SocketInv /\ SocketTypes /\ Served /\ [Next]_vars => SocketTypes' /\ Served'
<1> SUFFICES ASSUME IInv, SocketInv, SocketTypes, Served, [Next]_vars
             PROVE  SocketTypes' /\ Served'
  OBVIOUS
<1>1. CASE OpenPort \/ SocketFails \/ AddHandlerFails BY <1>1, InitStepServes
<1>2. CASE Configure
  <2>1. stage = "config" /\ UNCHANGED startVars BY <1>2 DEF Configure
  <2>2. SocketTypes'
    <3>1. DOMAIN <<>> = {} BY EmptyIsSeq
    <3> QED BY <2>1, <3>1 DEF SocketTypes, startVars, Range
  <2>3. Served' BY <2>1 DEF Served, startVars
  <2> QED BY <2>2, <2>3
<1>3. CASE Construct \/ UNCHANGED vars
  BY <1>3 DEF Construct, vars, startVars, configVars, SocketTypes, Served, Ports, PortsLeft
<1>4. CASE Configured
  <2>1. /\ stage = "config" /\ stage' \in {"init", "unwind"}
        /\ UNCHANGED <<servers, listening, deleted, open, acceptors>>
    BY <1>4 DEF Configured, Leave, configVars
  <2>2. listening = <<>> /\ open = {} /\ acceptors = <<>> BY <2>1 DEF SocketTypes
  <2>3. SocketTypes' BY <2>1 DEF SocketTypes, Ports
  <2>4. /\ DOMAIN <<>> = {} /\ Range(<<>>) = {} /\ Len(<<>>) = 0
        /\ IsFiniteSet({}) /\ Cardinality({}) = 0
    BY EmptyIsSeq, EmptySeq, FS_EmptySet DEF Range
  <2>5. Served' BY <2>1, <2>2, <2>4 DEF Served
  <2> QED BY <2>3, <2>5
<1>5. CASE Run \/ Sigint \/ RunReturns
  BY <1>5 DEF Run, Sigint, RunReturns, Leave, configVars, SocketTypes, Served, Ports, PortsLeft
<1>6. CASE Destroy
  <2>1. DOMAIN <<>> = {} BY EmptyIsSeq
  <2>2. SocketTypes'
    BY <1>6, <2>1 DEF Destroy, configVars, SocketTypes, Ports
  <2>3. Served' BY <1>6 DEF Destroy, Served
  <2> QED BY <2>2, <2>3
<1> QED BY <1>1, <1>2, <1>3, <1>4, <1>5, <1>6 DEF Next

\* What the invariant says of a server that runs.
LEMMA ServedIs == IInv /\ SocketInv /\ SocketTypes /\ Served => EveryServerIsServed
<1> SUFFICES ASSUME IInv, SocketInv, SocketTypes, Served, stage = "run"
             PROVE  /\ DOMAIN acceptors = Ports
                    /\ \A p \in DOMAIN acceptors :
                         p \in open /\ deleted[p] = 0 /\ InFileOrder(acceptors[p], p)
                    /\ Len(listening) = Cardinality(DOMAIN acceptors)
  BY DEF EveryServerIsServed, Ports
<1>1. /\ Range(listening) = open /\ DOMAIN acceptors = open
      /\ \A p \in open : deleted[p] = 0 /\ acceptors[p] = ByPort(servers)[p]
      /\ Len(listening) = Cardinality(open) /\ PortsLeft = {}
  BY DEF Served
<1>2. open = Ports BY <1>1 DEF PortsLeft, Ports, SocketTypes
<1>3. IsSeq(servers) BY DEF IInv, ServersInv
<1>4. DOMAIN servers = 1..Len(servers) BY <1>3, SeqIsFunction
<1>5. /\ DOMAIN ByPort(servers) = Ports
      /\ \A p \in Ports : InOrderUpTo(servers, Len(servers), ByPort(servers)[p], p)
  BY <1>3, ByPortIs DEF Ports
<1>6. \A p \in Ports : InFileOrder(ByPort(servers)[p], p)
  BY <1>4, <1>5 DEF InOrderUpTo, InFileOrder
<1> QED BY <1>1, <1>2, <1>6

\* Nothing has been made.
LEMMA ServedInitHolds == Init => SocketTypes /\ Served
BY EmptyIsSeq DEF Init, SocketTypes, Served, Range

\* While the server runs every server of the file can be asked, on the socket of its port
\* and after those that stand before it (getMapOfPortWithServers, ServerManager::init).
THEOREM EveryServerListens == Spec => []EveryServerIsServed
<1>1. IInv /\ SocketInv /\ SocketTypes /\ Served => EveryServerIsServed BY ServedIs
<1>2. Init => IInv /\ SocketInv /\ SocketTypes /\ Served
  BY InitHolds, SocketInitHolds, ServedInitHolds
<1>3. IInv /\ SocketInv /\ SocketTypes /\ Served /\ [Next]_vars
        => IInv' /\ SocketInv' /\ SocketTypes' /\ Served'
  BY NextKeeps, SocketNextKeeps, ServedNextKeeps
<1> QED BY <1>1, <1>2, <1>3, PTL DEF Spec

-----------------------------------------------------------------------------
(* Types.                                                                  *)

Token == [type : Mark \cup {"word", "newline"}, word : Seq(STRING)]

\* The states of the lexer.
LexerState == [tokens : Seq(Token), word : Seq(STRING), comment : BOOLEAN]

\* One character more.
LEMMA ReadTypes ==
  ASSUME NEW lexer \in LexerState, NEW c \in STRING
  PROVE  Read(lexer, c) \in LexerState
<1>1. ASSUME NEW l \in LexerState, NEW type \in Mark \cup {"word", "newline"}, NEW w \in Seq(STRING)
      PROVE  Emit(l, type, w) \in LexerState
  <2> DEFINE token == [type |-> type, word |-> w]
  <2>1. token \in Token BY DEF Token
  <2> HIDE DEF token
  <2>2. Append(l.tokens, token) \in Seq(Token) BY <2>1, AppendProperties DEF LexerState
  <2>3. <<>> \in Seq(STRING) BY EmptySeq
  <2>4. [l EXCEPT !.tokens = Append(@, token), !.word = <<>>] \in LexerState
    BY <2>2, <2>3 DEF LexerState
  <2> QED BY <2>4 DEF Emit, token
<1>2. <<c>> \in Seq(STRING)
  <2>1. ASSUME NEW S, NEW e \in S PROVE <<e>> \in Seq(S) OBVIOUS
  <2> QED BY <2>1, Zenon
<1>3. ASSUME NEW l \in LexerState PROVE Between(l, c) \in LexerState
  <2>1. CASE c \in {"sp"} \cup Mark \cup {"nl", "cr"}
    <3>1. c \in Mark => Emit(l, c, <<c>>) \in LexerState BY <1>1, <1>2
    <3>2. Emit(l, "newline", <<c>>) \in LexerState /\ Emit(l, "word", <<c>>) \in LexerState
      BY <1>1, <1>2
    <3> QED BY <2>1, <3>1, <3>2 DEF Between, Mark
  <2>2. CASE c = "#" BY <2>2 DEF Between, LexerState, Mark
  <2>3. CASE c \notin {"sp", "#"} \cup Mark \cup {"nl", "cr"}
    BY <1>2, <2>3 DEF Between, LexerState, Mark
  <2> QED BY <2>1, <2>2, <2>3
<1>4. Comment(lexer, c) \in LexerState BY DEF Comment, LexerState
<1>5. lexer.word \in Seq(STRING) BY DEF LexerState
<1>6. Between(Emit(lexer, "word", lexer.word), c) \in LexerState BY <1>1, <1>3, <1>5
<1>7. [lexer EXCEPT !.word = Append(@, c)] \in LexerState
  BY <1>5, AppendProperties DEF LexerState
<1> QED BY <1>3, <1>4, <1>6, <1>7 DEF Read

\* The lexer, character by character.
Lexes(t, a) ==
  /\ a \in [0..Len(t) -> LexerState] /\ a[0] = AtStart
  /\ \A k \in 1..Len(t) : a[k] = Read(a[k - 1], t[k])

\* The tokens are those after the last character.
LEMMA TokensScan ==
  ASSUME NEW t \in Seq(STRING)
  PROVE  \E a : Lexes(t, a) /\ Tokens(t) = a[Len(t)].tokens
<1> DEFINE n      == Len(t)
           V      == LexerState
           Step(s, i) == Read(s, t[i])
           G(it)  == [s \in SUBSET (DOMAIN t) |->
                        IF s = {} THEN AtStart
                        ELSE LET x == Max(s) IN Step(it[s \ {x}], x)]
           R      == CHOOSE it : it = G(it)
           F      == [i \in 1..n |-> [s \in V |-> Step(s, i)]]
<1>1. Tokens(t) = R[DOMAIN t].tokens
  BY DEF Tokens, FoldLeft, MapThenFoldSet
<1>2. n \in Nat /\ DOMAIN t = 1..n BY LenProperties
<1>3. AtStart \in V
  <2>1. <<>> \in Seq(Token) /\ <<>> \in Seq(STRING) BY EmptySeq
  <2> QED BY <2>1 DEF AtStart, LexerState
<1>4. \A i \in 1..n : \A s \in V : Step(s, i) \in V
  <2>1. \A i \in 1..n : t[i] \in STRING BY <1>2, ElementOfSeq
  <2> QED BY <2>1, ReadTypes
<1> HIDE DEF n, Step, V
<1>5. F \in [1..n -> [V -> V]] BY <1>4
<1>6. R = G(R)
  <2>1. PICK it : FoldsSets(V, AtStart, n, F, it)
    <3> HIDE DEF F
    <3> QED BY <1>2, <1>3, <1>5, FoldExists
  <2>2. /\ it \in [SUBSET (1..n) -> V]
        /\ it = [s \in SUBSET (1..n) |-> IF s = {} THEN AtStart ELSE F[Max(s)][it[s \ {Max(s)}]]]
    BY <2>1 DEF FoldsSets
  <2>3. ASSUME NEW s \in SUBSET (1..n), s # {}
        PROVE  F[Max(s)][it[s \ {Max(s)}]] = Step(it[s \ {Max(s)}], Max(s))
    <3>1. Max(s) \in s BY <1>2, <2>3, RestIsSmaller
    <3>2. it[s \ {Max(s)}] \in V BY <2>2
    <3> QED BY <3>1, <3>2
  <2>4. it = G(it)
    <3> HIDE DEF F
    <3>1. \A s \in SUBSET (1..n) :
            (IF s = {} THEN AtStart ELSE F[Max(s)][it[s \ {Max(s)}]])
              = (IF s = {} THEN AtStart ELSE Step(it[s \ {Max(s)}], Max(s)))
      BY <2>3
    <3>2. [s \in SUBSET (1..n) |-> IF s = {} THEN AtStart ELSE F[Max(s)][it[s \ {Max(s)}]]]
            = G(it)
      BY <1>2, <3>1
    <3> QED BY <2>2, <3>2
  <2> QED BY <2>4
<1> HIDE DEF R
<1> DEFINE H == {k \in 0..n : R[1..k] \in V}
<1>7. 0 \in H
  <2>1. 1..0 = {} /\ {} \in SUBSET (1..n) /\ 0 \in 0..n BY <1>2
  <2>2. R[{}] = AtStart BY <1>2, <1>6, <2>1
  <2> QED BY <1>3, <2>1, <2>2
<1>8. ASSUME NEW k \in 1..n, k - 1 \in H PROVE k \in H
  <2>1. k - 1 \in 0..n /\ k \in 0..n BY <1>2
  <2>2. 1..k \in SUBSET (1..n) /\ 1..k # {} /\ Max(1..k) = k /\ (1..k) \ {k} = 1..k - 1
    BY <1>2, <2>1, InitialSets
  <2>3. \A s \in SUBSET (1..n) : s # {} => R[s] = Step(R[s \ {Max(s)}], Max(s))
    BY <1>2, <1>6
  <2>4. R[1..k] = Step(R[(1..k) \ {k}], k) BY <2>2, <2>3, Zenon
  <2>5. R[1..k] = Step(R[1..k - 1], k) BY <2>2, <2>4
  <2>6. R[1..k - 1] \in V BY <1>8
  <2> QED BY <1>4, <2>1, <2>5, <2>6
<1>9. \A k \in 0..n : R[1..k] \in V
  <2>1. H \in SUBSET (0..n) OBVIOUS
  <2> HIDE DEF H
  <2>2. H = 0..n BY <1>2, <1>7, <1>8, <2>1, UpTo
  <2> QED BY <2>2 DEF H
<1> DEFINE a == [k \in 0..n |-> R[1..k]]
<1>10. a \in [0..n -> V] BY <1>9
<1>11. a[0] = AtStart
  <2>1. 1..0 = {} /\ {} \in SUBSET (DOMAIN t) /\ 0 \in 0..n BY <1>2
  <2>2. R[{}] = AtStart BY <1>6, <2>1
  <2> QED BY <2>1, <2>2
<1>12. ASSUME NEW k \in 1..n PROVE a[k] = Read(a[k - 1], t[k])
  <2>1. k - 1 \in 0..n /\ k \in 0..n BY <1>2
  <2>2. 1..k \in SUBSET (1..n) /\ 1..k # {} /\ Max(1..k) = k /\ (1..k) \ {k} = 1..k - 1
    BY <1>2, <2>1, InitialSets
  <2>3. \A s \in SUBSET (1..n) : s # {} => R[s] = Step(R[s \ {Max(s)}], Max(s))
    BY <1>2, <1>6
  <2>4. R[1..k] = Step(R[(1..k) \ {k}], k) BY <2>2, <2>3, Zenon
  <2>5. R[1..k] = Step(R[1..k - 1], k) BY <2>2, <2>4
  <2> QED BY <2>1, <2>5 DEF Step
<1>13. a[n].tokens = Tokens(t)
  <2>1. n \in 0..n BY <1>2
  <2> QED BY <1>1, <1>2, <2>1
<1> HIDE DEF a
<1>14. Lexes(t, a) BY <1>10, <1>11, <1>12 DEF Lexes, n, V
<1> QED BY <1>13, <1>14 DEF n

\* Whatever the text, the lexer makes tokens of it.
LEMMA TokensTypes == ASSUME NEW t \in Seq(STRING) PROVE Tokens(t) \in Seq(Token)
<1>1. PICK a : Lexes(t, a) /\ Tokens(t) = a[Len(t)].tokens BY TokensScan
<1>2. Len(t) \in 0..Len(t)
  <2>1. Len(t) \in Nat BY LenProperties
  <2> QED BY <2>1
<1>3. a[Len(t)] \in LexerState BY <1>1, <1>2 DEF Lexes
<1> QED BY <1>1, <1>3 DEF LexerState

\* How many words follow is a number, and that many do.
LEMMA CountIs ==
  ASSUME NEW S, tokens \in Seq(S), pos \in Nat
  PROVE  Count \in Nat /\ Words(Count)
<1> DEFINE L == Len(tokens)
           T == {n \in 0..L : Type(n + 1) # "word"}
           m == Min(T)
<1>1. L \in Nat /\ DOMAIN tokens = 1..L BY LenProperties
<1>2. L \in T
  <2>1. pos + (L + 1) \notin DOMAIN tokens /\ L \in 0..L BY <1>1
  <2>2. Type(L + 1) = "end" BY <2>1 DEF Type
  <2> QED BY <2>1, <2>2
<1>3. m \in T /\ \A n \in T : m <= n
  <2>1. T \subseteq Nat /\ T # {} BY <1>2
  <2> HIDE DEF T
  <2> QED BY <2>1, MinIsSmallest
<1>4. m \in 0..L /\ Type(m + 1) # "word" BY <1>3
<1>5. ASSUME NEW k \in 1..m PROVE Type(k) = "word"
  <2> HIDE DEF m
  <2>1. k - 1 \in 0..L /\ ~(m <= k - 1) /\ k - 1 + 1 = k BY <1>1, <1>4
  <2>2. k - 1 \notin T BY <1>3, <2>1
  <2> HIDE DEF T
  <2> QED BY <2>1, <2>2 DEF T
<1>6. \E n \in 0..Len(tokens) : Words(n) /\ Type(n + 1) # "word"
  BY <1>4, <1>5 DEF Words
<1>7. Count \in 0..Len(tokens) /\ Words(Count) BY <1>6 DEF Count
<1> QED BY <1>1, <1>7

\* What the properties about sockets and blocks leave: where the parser and main are.
PlaceInv ==
  /\ phase \in {"start", "parsing", "parsed", "refused"} /\ stage \in Stage /\ why \in Reason
  /\ text \in Texts /\ pos \in Nat /\ tokens \in Seq(Token)

\* A step of the parser makes tokens of the text, or moves on among them.
LEMMA ParserMoves ==
  ASSUME PlaceInv, ParserStep
  PROVE  /\ phase' \in {"parsing", "parsed", "refused"} /\ text' = text
         /\ pos' \in Nat /\ tokens' \in Seq(Token)
<1> DEFINE Moves == phase' \in {phase, "parsed", "refused"} /\ text' = text
                    /\ pos' \in Nat /\ tokens' = tokens
<1>1. pos \in Nat /\ tokens \in Seq(Token) BY DEF PlaceInv
<1>2. Count \in Nat BY <1>1, CountIs
<1>3. CASE Open
  <2>1. text \in Seq(STRING) BY ConfigAssumption DEF PlaceInv
  <2>2. tokens' \in Seq(Token) BY <1>3, <2>1, TokensTypes DEF Open
  <2> QED BY <1>1, <1>3, <2>2 DEF Open
<1>4. Refuse => Moves BY <1>1 DEF Refuse
<1>5. \A n \in Nat : Advance(n) => Moves BY <1>1 DEF Advance
<1>6. 0 \in Nat /\ 1 \in Nat /\ 2 \in Nat /\ 3 \in Nat /\ Count + 1 \in Nat BY <1>2
<1> HIDE DEF Moves
<1>7. ServerDirective => Moves
  BY <1>4, <1>5, <1>6, Zenon DEF ServerDirective, Listen, ServerName, Directive
<1>8. CommonDirective => Moves
  BY <1>4, <1>5, <1>6, Zenon
  DEF CommonDirective, RootDirective, Index, ErrorPage, Autoindex, ClientMaxBodySize, Return,
      Directive
<1>9. LocationDirective => Moves
  BY <1>4, <1>5, <1>6, Zenon
  DEF LocationDirective, AllowedMethods, UploadAllowed, UploadLocation, Cgi, Directive
<1>10. NewLines \/ RightBrace \/ OpenServer \/ OpenLocation => Moves
  BY <1>4, <1>5, <1>6, Zenon DEF NewLines, RightBrace, OpenServer, OpenLocation
<1>11. OpenFails \/ Unexpected \/ Unknown => Moves
  BY <1>4 DEF OpenFails, Unexpected, Unknown
<1>12. EndOfFile => Moves
  BY <1>1, <1>4 DEF EndOfFile, Moves
<1>13. ~OpenFails /\ ~Open /\ ParserStep => phase = "parsing"
  BY DEF ParserStep, NewLines, Unexpected, RightBrace, OpenServer, OpenLocation, Unknown,
         ServerDirective, Listen, ServerName, CommonDirective, RootDirective, Index, ErrorPage,
         Autoindex, ClientMaxBodySize, Return, LocationDirective, AllowedMethods, UploadAllowed,
         UploadLocation, Cgi, EndOfFile, Directive, Reads, At
<1>14. CASE ~Open
  <2>1. Moves BY <1>7, <1>8, <1>9, <1>10, <1>11, <1>12, <1>14 DEF ParserStep
  <2>2. phase' \in {"parsing", "parsed", "refused"}
    BY <1>13, <1>14, <2>1 DEF Moves, OpenFails, Refuse
  <2> QED BY <1>1, <2>1, <2>2 DEF Moves
<1> QED BY <1>3, <1>14

\* Every step keeps them.
LEMMA PlaceNextKeeps == PlaceInv /\ [Next]_vars => PlaceInv'
<1> SUFFICES ASSUME PlaceInv, [Next]_vars PROVE PlaceInv' OBVIOUS
<1>1. CASE Configure
  <2>1. ParserStep /\ UNCHANGED startVars BY <1>1 DEF Configure
  <2>2. stage' = stage /\ why' = why BY <2>1 DEF startVars
  <2> QED BY <2>1, <2>2, ParserMoves DEF PlaceInv
<1>2. CASE ~Configure
  <2>1. UNCHANGED configVars /\ stage' \in Stage /\ why' \in Reason
    BY <1>2 DEF PlaceInv, Next, vars, startVars, Construct, Configured, OpenPort, SocketFails,
         AddHandlerFails, Run, Sigint, RunReturns, Destroy, Leave, Stage, Reason
  <2> QED BY <2>1 DEF PlaceInv, configVars
<1> QED BY <1>1, <1>2

\* Together these are the types.
LEMMA TypesAre == IInv /\ SocketTypes /\ PlaceInv => TypeOK
<1> SUFFICES ASSUME IInv, SocketTypes, PlaceInv PROVE TypeOK OBVIOUS
<1>1. \A i \in DOMAIN tokens : tokens[i].type \in Mark \cup {"word", "newline"}
  <2>1. DOMAIN tokens = 1..Len(tokens) /\ tokens \in Seq(Token)
    BY LenProperties DEF PlaceInv
  <2>2. \A i \in DOMAIN tokens : tokens[i] \in Token BY <2>1, ElementOfSeq
  <2> QED BY <2>2 DEF Token
<1>2. mode \in {<<"global">>, <<"global", "server">>, <<"global", "server", "location">>}
  <2>1. mode \in {Global, InServer, InLocation} BY DEF IInv, ModeInv
  <2> QED BY <2>1 DEF Global, InServer, InLocation
<1>3. ASSUME NEW i \in DOMAIN servers
      PROVE  /\ DOMAIN servers[i] = DOMAIN NewServer
             /\ \A j \in DOMAIN servers[i].locations :
                  DOMAIN servers[i].locations[j] = DOMAIN DefaultLocation
  BY NewBlocks DEF IInv, ServersInv, ServerInv, LocationInv
<1>4. /\ open \subseteq DOMAIN deleted /\ Range(listening) \subseteq DOMAIN deleted
      /\ DOMAIN acceptors \subseteq Range(listening)
      /\ DOMAIN deleted \subseteq {servers[i].port : i \in DOMAIN servers}
  BY DEF SocketTypes, Ports
<1> QED BY <1>1, <1>2, <1>3, <1>4 DEF TypeOK, PlaceInv

\* Whatever the files hold, main, the parser and the lexer are where they can be: every
\* token has a type, the mode stack is one of three, blocks have all their members, and
\* sockets are those of ports that some server listens on.
THEOREM StartupTyping == Spec => []TypeOK
<1>1. Init => PlaceInv
  <2>1. <<>> \in Seq(Token) BY EmptySeq
  <2> QED BY <2>1 DEF Init, ConfigInit, PlaceInv, Stage, Reason
<1>2. Init => IInv /\ SocketInv /\ SocketTypes /\ Served /\ PlaceInv
  BY <1>1, InitHolds, SocketInitHolds, ServedInitHolds
<1>3. IInv /\ SocketInv /\ SocketTypes /\ Served /\ PlaceInv /\ [Next]_vars
        => IInv' /\ SocketInv' /\ SocketTypes' /\ Served' /\ PlaceInv'
  BY NextKeeps, SocketNextKeeps, ServedNextKeeps, PlaceNextKeeps
<1> QED BY <1>2, <1>3, TypesAre, PTL DEF Spec

-----------------------------------------------------------------------------
(* The places of a text in ascending order.                                *)

\* An increasing sequence of numbers has as many elements as places.
LEMMA IncreasingCount ==
  ASSUME NEW c \in Nat, NEW g \in [1..c -> Nat], \A i, j \in 1..c : i < j => g[i] < g[j],
         NEW m \in 0..c
  PROVE  /\ IsFiniteSet({g[k] : k \in 1..m})
         /\ Cardinality({g[k] : k \in 1..m}) = m
<1> DEFINE S == {g[k] : k \in 1..m}
           f == [k \in 1..m |-> g[k]]
<1>1. f \in Bijection(1..m, S)
  <2>1. 1..m \subseteq 1..c OBVIOUS
  <2>2. \A i, j \in 1..m : f[i] = f[j] => i = j
    <3>1. ASSUME NEW i \in 1..m, NEW j \in 1..m, i # j PROVE f[i] # f[j]
      <4>1. i < j \/ j < i BY <3>1
      <4>2. f[i] = g[i] /\ f[j] = g[j] /\ g[i] \in Nat /\ g[j] \in Nat BY <2>1
      <4>3. g[i] < g[j] \/ g[j] < g[i] BY <2>1, <4>1
      <4> QED BY <4>2, <4>3
    <3> QED BY <3>1
  <2>3. f \in [1..m -> S] OBVIOUS
  <2>4. \A x \in S : \E k \in 1..m : f[k] = x OBVIOUS
  <2> QED BY <2>2, <2>3, <2>4 DEF Bijection, Injection, Surjection, IsInjective
<1>2. IsFiniteSet(1..m) /\ Cardinality(1..m) = m
  <2>1. m \in Int /\ 1 \in Int /\ (1 > m => m = 0) /\ m - 1 + 1 = m OBVIOUS
  <2> QED BY <2>1, FS_Interval
<1>3. ExistsBijection(1..m, S) BY <1>1 DEF ExistsBijection
<1> HIDE DEF S
<1> QED BY <1>2, <1>3, FS_Bijection DEF S

\* Ascending puts the places of an increasing sequence back in their order.
LEMMA AscendingIs ==
  ASSUME NEW c \in Nat, NEW g \in [1..c -> Nat], \A i, j \in 1..c : i < j => g[i] < g[j]
  PROVE  Ascending({g[k] : k \in 1..c}) = g
<1> DEFINE S == {g[k] : k \in 1..c}
           Below(i) == {j \in S : j < i}
           Is(n, i) == Cardinality(Below(i)) = n - 1
<1>1. Cardinality(S) = c
  <2>1. c \in 0..c OBVIOUS
  <2> QED BY <2>1, IncreasingCount
<1>2. ASSUME NEW n \in 1..c PROVE Is(n, g[n])
  <2>1. Below(g[n]) = {g[k] : k \in 1..n - 1}
    <3>1. ASSUME NEW k \in 1..c, g[k] < g[n] PROVE k \in 1..n - 1
      <4>1. ~(n < k) /\ n # k
        <5>1. g[k] \in Nat /\ g[n] \in Nat OBVIOUS
        <5> QED BY <3>1, <5>1
      <4> QED BY <4>1
    <3>2. \A k \in 1..n - 1 : k \in 1..c /\ g[k] < g[n] OBVIOUS
    <3> QED BY <3>1, <3>2
  <2>2. n - 1 \in 0..c OBVIOUS
  <2> HIDE DEF Below
  <2>3. Cardinality({g[k] : k \in 1..n - 1}) = n - 1 BY <2>2, IncreasingCount
  <2> QED BY <2>1, <2>3
<1>3. ASSUME NEW n \in 1..c, NEW i \in S, Is(n, i) PROVE i = g[n]
  <2>1. PICK k \in 1..c : i = g[k] OBVIOUS
  <2>2. Is(k, i) BY <1>2, <2>1
  <2>3. k - 1 = n - 1
    <3> HIDE DEF Below
    <3> QED BY <1>3, <2>2
  <2>4. k = n BY <2>3
  <2> QED BY <2>1, <2>4
<1>4. \A n \in 1..c : (CHOOSE i \in S : Is(n, i)) = g[n]
  <2>1. \A n \in 1..c : g[n] \in S OBVIOUS
  <2> HIDE DEF S, Is
  <2> QED BY <1>2, <1>3, <2>1
<1>5. Ascending(S) = [n \in 1..Cardinality(S) |-> CHOOSE i \in S : Is(n, i)] BY DEF Ascending
<1> HIDE DEF S, Is
<1>6. Ascending(S) = [n \in 1..c |-> g[n]] BY <1>1, <1>4, <1>5
<1> QED BY <1>6 DEF S

-----------------------------------------------------------------------------
(* Tokens and the places of a text they begin at.                          *)

\* The marks of a text, the first pieces of its words, and the line feeds that are not
\* the end of a comment.
Marks(t)  == {i \in Live(t) : t[i] \in Mark}
Starts(t) == {i \in Live(t) : /\ t[i] \notin Separator \cup {"#"}
                              /\ i = 1 \/ i - 1 \notin Live(t) \/ t[i - 1] \in Separator}
Feeds(t)  == {i \in Live(t) : t[i] = "nl"}
Places(t) == Marks(t) \cup Starts(t) \cup Feeds(t)

\* The word that begins at place i.
WordAt(t, i) ==
  LET length == Min({n \in 1..Len(t) : i + n \notin DOMAIN t \/ t[i + n] \in Separator})
  IN  SubSeq(t, i, i + length - 1)

\* What the lexer makes of what begins at place i.
IsToken(t, i, token) ==
  \/ i \in Marks(t) /\ token.type = t[i]
  \/ i \in Feeds(t) /\ token.type = "newline"
  \/ i \in Starts(t) /\ token.type = "word" /\ token.word = WordAt(t, i)

\* The tokens are those of the places of the set, in their order.
Lexed(t, toks, at, set) ==
  /\ at \in [1..Len(toks) -> set]
  /\ \A i, j \in 1..Len(toks) : i < j => at[i] < at[j]
  /\ \A p \in set : \E n \in 1..Len(toks) : at[n] = p
  /\ \A n \in 1..Len(toks) : IsToken(t, at[n], toks[n])

\* Place k is inside a comment or ends the text of one.
Dead(t, k) == \E j \in 1..k : t[j] = "#" /\ \A m \in j..k : t[m] # "nl"

\* Comments, place by place.
LEMMA LiveIs ==
  ASSUME NEW t \in Seq(STRING), NEW k \in 0..Len(t) - 1
  PROVE  /\ k + 1 \in Live(t) <=> ~Dead(t, k) /\ t[k + 1] # "#"
         /\ Dead(t, k + 1) <=> t[k + 1] # "nl" /\ (Dead(t, k) \/ t[k + 1] = "#")
<1>1. Len(t) \in Nat /\ DOMAIN t = 1..Len(t) BY LenProperties
<1>2. k \in Nat /\ k + 1 \in 1..Len(t) /\ (k + 1) - 1 = k BY <1>1
<1>3. 1..k + 1 = 1..k \cup {k + 1} BY <1>2
<1>4. k + 1 \in Live(t)
        <=> \A j \in 1..k + 1 : t[j] = "#" => \E m \in j..k : t[m] = "nl"
  BY <1>1, <1>2 DEF Live
<1>5. k + 1 \in Live(t) <=> ~Dead(t, k) /\ t[k + 1] # "#"
  <2>1. (k + 1)..k = {} BY <1>2
  <2>2. (\A j \in 1..k : t[j] = "#" => \E m \in j..k : t[m] = "nl") <=> ~Dead(t, k)
    BY DEF Dead
  <2>3. (\E m \in (k + 1)..k : t[m] = "nl") <=> FALSE BY <2>1
  <2> QED BY <1>3, <1>4, <2>2, <2>3
<1>6. Dead(t, k + 1) <=> t[k + 1] # "nl" /\ (Dead(t, k) \/ t[k + 1] = "#")
  <2>1. \A j \in 1..k : j..k + 1 = j..k \cup {k + 1} BY <1>2
  <2>2. (k + 1)..(k + 1) = {k + 1} BY <1>2
  <2>3. Dead(t, k + 1)
          <=> \/ t[k + 1] = "#" /\ \A m \in (k + 1)..(k + 1) : t[m] # "nl"
              \/ \E j \in 1..k : t[j] = "#" /\ \A m \in j..k + 1 : t[m] # "nl"
    BY <1>3 DEF Dead
  <2>4. (\E j \in 1..k : t[j] = "#" /\ \A m \in j..k + 1 : t[m] # "nl")
          <=> t[k + 1] # "nl" /\ Dead(t, k)
    BY <2>1 DEF Dead
  <2> QED BY <2>2, <2>3, <2>4
<1> QED BY <1>5, <1>6

\* One token more.
LEMMA LexedMore ==
  ASSUME NEW t, NEW toks \in Seq(Token), NEW token \in Token, NEW set \in SUBSET Nat, NEW at,
         Lexed(t, toks, at, set), NEW i \in Nat, \A p \in set : p < i, IsToken(t, i, token)
  PROVE  \E at2 : Lexed(t, Append(toks, token), at2, set \cup {i})
<1> DEFINE n == Len(toks)
           more == Append(toks, token)
           at2 == [k \in 1..n + 1 |-> IF k = n + 1 THEN i ELSE at[k]]
           all == set \cup {i}
<1>1. /\ n \in Nat /\ Len(more) = n + 1 /\ more[n + 1] = token
      /\ \A k \in 1..n : more[k] = toks[k]
  BY AppendProperties, LenProperties
<1>2. 1..n + 1 = 1..n \cup {n + 1} /\ n + 1 \notin 1..n BY <1>1
<1> HIDE DEF n, more
<1>3. /\ at \in [1..n -> set]
      /\ \A k, j \in 1..n : k < j => at[k] < at[j]
      /\ \A p \in set : \E k \in 1..n : at[k] = p
      /\ \A k \in 1..n : IsToken(t, at[k], toks[k])
  BY DEF Lexed, n
<1>4. at2 \in [1..n + 1 -> all] BY <1>2, <1>3
<1>5. ASSUME NEW k \in 1..n + 1, NEW j \in 1..n + 1, k < j PROVE at2[k] < at2[j]
  <2>1. k \in 1..n BY <1>1, <1>5
  <2>2. at2[k] = at[k] /\ at[k] \in set BY <1>2, <1>3, <2>1
  <2>3. CASE j = n + 1 BY <2>2, <2>3
  <2>4. CASE j # n + 1 BY <1>2, <1>3, <1>5, <2>1, <2>2, <2>4
  <2> QED BY <2>3, <2>4
<1>6. \A p \in all : \E k \in 1..n + 1 : at2[k] = p BY <1>2, <1>3
<1>7. \A k \in 1..n + 1 : IsToken(t, at2[k], more[k]) BY <1>1, <1>2, <1>3
<1> HIDE DEF at2
<1>8. Lexed(t, more, at2, all) BY <1>1, <1>4, <1>5, <1>6, <1>7 DEF Lexed
<1> QED BY <1>8 DEF more

-----------------------------------------------------------------------------
(* The lexer follows the text.                                             *)

\* What the lexer has after k characters.
LexerIs(t, k, l) ==
  /\ l.comment <=> Dead(t, k)
  /\ l.comment => l.word = <<>>
  /\ l.word = <<>> =>
       /\ k = 0 \/ k \notin Live(t) \/ t[k] \in Separator
       /\ \E at : Lexed(t, l.tokens, at, Places(t) \cap 1..k)
  /\ l.word # <<>> =>
       \E s \in Starts(t) \cap 1..k :
         /\ l.word = SubSeq(t, s, k)
         /\ \A i \in s..k : i \in Live(t) /\ t[i] \notin Separator
         /\ \E at : Lexed(t, l.tokens, at, Places(t) \cap 1..s - 1)

\* What stands at a place.
LEMMA PlaceIs ==
  ASSUME NEW t \in Seq(STRING)
  PROVE  /\ Live(t) \subseteq 1..Len(t) /\ Len(t) \in Nat /\ Places(t) \in SUBSET Nat
         /\ \A i \in Live(t) : t[i] \in Mark \cup {"nl"} => i \in Places(t)
         /\ \A i \in Places(t) : i \in Live(t) /\ t[i] \notin {"sp", "cr", "#"}
<1>1. Live(t) \subseteq 1..Len(t) /\ Len(t) \in Nat BY LenProperties DEF Live
<1>2. Live(t) \subseteq Nat BY <1>1
<1>3. Places(t) \in SUBSET Live(t) BY DEF Places, Marks, Starts, Feeds
<1> QED BY <1>1, <1>2, <1>3 DEF Places, Marks, Starts, Feeds, Separator, Mark, Space

\* A character between two tokens.
LEMMA BetweenFollows ==
  ASSUME NEW t \in Seq(STRING), WellSpaced(t), NEW k \in 0..Len(t) - 1, NEW l \in LexerState,
         ~Dead(t, k), ~l.comment, l.word = <<>>,
         t[k + 1] \notin Separator => k = 0 \/ k \notin Live(t) \/ t[k] \in Separator,
         \E at : Lexed(t, l.tokens, at, Places(t) \cap 1..k)
  PROVE  LexerIs(t, k + 1, Between(l, t[k + 1]))
<1> DEFINE c == t[k + 1]
           P(m) == Places(t) \cap 1..m
<1>1. /\ k \in Nat /\ k + 1 \in 1..Len(t) /\ Len(t) \in Nat /\ (k + 1) - 1 = k
      /\ 1..k + 1 = 1..k \cup {k + 1} /\ k + 1 \in 1..k + 1
  BY LenProperties
<1>2. /\ k + 1 \in Live(t) <=> c # "#"
      /\ Dead(t, k + 1) <=> c = "#"
  BY LiveIs
<1>3. c \in STRING BY <1>1, ElementOfSeq
<1>4. /\ l.tokens \in Seq(Token) /\ l.word = <<>> /\ l.comment = FALSE
      /\ DOMAIN l = {"tokens", "word", "comment"}
  BY DEF LexerState
<1>5. PICK at : Lexed(t, l.tokens, at, P(k)) OBVIOUS
<1>6. /\ P(k) \in SUBSET Nat /\ \A p \in P(k) : p < k + 1 BY <1>1
<1>7. ASSUME k + 1 \notin Places(t) PROVE P(k + 1) = P(k) BY <1>1, <1>7
<1>8. ASSUME NEW type \in Mark \cup {"newline"}, NEW w \in Seq(STRING),
             IsToken(t, k + 1, [type |-> type, word |-> w]), c \in Separator
      PROVE  LexerIs(t, k + 1, Emit(l, type, w))
  <2> DEFINE token == [type |-> type, word |-> w]
  <2>1. token \in Token BY DEF Token
  <2>2. k + 1 \in Places(t) BY <1>8 DEF IsToken, Places
  <2>3. IsToken(t, k + 1, token) BY <1>8
  <2> HIDE DEF token
  <2>4. \E a : Lexed(t, Append(l.tokens, token), a, P(k) \cup {k + 1})
    <3>1. k + 1 \in Nat BY <1>1
    <3> HIDE DEF P
    <3> QED BY <1>4, <1>5, <1>6, <2>1, <2>3, <3>1, LexedMore
  <2>5. P(k) \cup {k + 1} = P(k + 1) BY <1>1, <2>2
  <2>6. /\ Emit(l, type, w).tokens = Append(l.tokens, token)
        /\ Emit(l, type, w).word = <<>> /\ Emit(l, type, w).comment = FALSE
    BY <1>4 DEF Emit, token
  <2>7. c # "#" BY <1>8 DEF Separator, Mark, Space
  <2> QED BY <1>2, <1>8, <2>4, <2>5, <2>6, <2>7 DEF LexerIs
<1>9. <<c>> \in Seq(STRING)
  <2>1. ASSUME NEW S, NEW e \in S PROVE <<e>> \in Seq(S) OBVIOUS
  <2> QED BY <1>3, <2>1, Zenon
<1>10. CASE c = "sp"
  <2>1. k + 1 \notin Places(t) BY <1>10, PlaceIs
  <2>2. Between(l, c) = l BY <1>10 DEF Between, Mark
  <2>3. c \in Separator BY <1>10 DEF Separator, Space
  <2> QED BY <1>2, <1>4, <1>5, <1>7, <1>10, <2>1, <2>2, <2>3 DEF LexerIs
<1>11. CASE c = "#"
  <2>1. k + 1 \notin Places(t) BY <1>11, PlaceIs
  <2>2. Between(l, c) = [l EXCEPT !.comment = TRUE] BY <1>11 DEF Between, Mark
  <2>3. /\ Between(l, c).comment = TRUE /\ Between(l, c).word = <<>>
        /\ Between(l, c).tokens = l.tokens
    BY <1>4, <2>2
  <2> QED BY <1>2, <1>5, <1>7, <1>11, <2>1, <2>3 DEF LexerIs
<1>12. CASE c \in Mark
  <2>1. c \in Separator /\ c # "#" /\ c # "sp" BY <1>12 DEF Separator, Mark
  <2>2. k + 1 \in Marks(t) BY <1>2, <1>12, <2>1 DEF Marks
  <2>3. IsToken(t, k + 1, [type |-> c, word |-> <<c>>]) BY <2>2 DEF IsToken
  <2>4. LexerIs(t, k + 1, Emit(l, c, <<c>>)) BY <1>8, <1>9, <1>12, <2>1, <2>3
  <2>5. Between(l, c) = Emit(l, c, <<c>>) BY <1>12, <2>1 DEF Between, Mark
  <2> QED BY <2>4, <2>5
<1>13. CASE c = "nl"
  <2>1. c \in Separator /\ c # "#" /\ c # "sp" /\ c \notin Mark BY <1>13 DEF Separator, Mark, Space
  <2>2. k + 1 \in Feeds(t) BY <1>2, <1>13, <2>1 DEF Feeds
  <2>3. IsToken(t, k + 1, [type |-> "newline", word |-> <<c>>]) BY <2>2 DEF IsToken
  <2>4. LexerIs(t, k + 1, Emit(l, "newline", <<c>>)) BY <1>8, <1>9, <2>1, <2>3
  <2>5. Between(l, c) = Emit(l, "newline", <<c>>) BY <1>13, <2>1 DEF Between
  <2> QED BY <2>4, <2>5
<1>14. CASE c = "cr" BY <1>2, <1>14 DEF WellSpaced
<1>15. CASE c \notin Separator \cup {"#"}
  <2>1. c \notin {"sp", "#", "nl", "cr"} \cup Mark BY <1>15 DEF Separator, Space
  <2>2. k + 1 \in Live(t) BY <1>2, <1>15
  <2>3. k + 1 \in Starts(t)
    <3>1. k = 0 => k + 1 = 1 BY <1>1
    <3> QED BY <1>1, <1>15, <2>2, <3>1 DEF Starts
  <2>4. Between(l, c) = [l EXCEPT !.word = <<c>>] BY <2>1 DEF Between
  <2>5. /\ Between(l, c).comment = FALSE /\ Between(l, c).word = <<c>>
        /\ Between(l, c).tokens = l.tokens
    BY <1>4, <2>4
  <2>6. <<c>> = SubSeq(t, k + 1, k + 1)
    <3>1. /\ SubSeq(t, k + 1, k + 1) \in Seq(STRING) /\ Len(SubSeq(t, k + 1, k + 1)) = 1
          /\ SubSeq(t, k + 1, k + 1)[1] = c
      BY <1>1, SubSeqProperties
    <3>2. <<c>> \in Seq(STRING) /\ Len(<<c>>) = 1 /\ <<c>>[1] = c BY <1>9
    <3> HIDE DEF c
    <3>3. \A i \in 1..1 : i = 1 OBVIOUS
    <3> QED BY <3>1, <3>2, <3>3, SeqEqual
  <2>7. <<c>> # <<>> OBVIOUS
  <2>8. \A i \in k + 1..k + 1 : i \in Live(t) /\ t[i] \notin Separator
    <3>1. \A i \in k + 1..k + 1 : i = k + 1 BY <1>1
    <3> QED BY <1>15, <2>2, <3>1
  <2>9. ~Dead(t, k + 1) BY <1>2, <1>15
  <2>10. Places(t) \cap 1..(k + 1) - 1 = P(k) BY <1>1
  <2>11. \E s \in Starts(t) \cap 1..k + 1 :
           /\ <<c>> = SubSeq(t, s, k + 1)
           /\ \A i \in s..k + 1 : i \in Live(t) /\ t[i] \notin Separator
           /\ \E a : Lexed(t, l.tokens, a, Places(t) \cap 1..s - 1)
    <3>1. k + 1 \in Starts(t) \cap 1..k + 1 BY <1>1, <2>3
    <3> QED BY <1>5, <2>6, <2>8, <2>10, <3>1
  <2> QED BY <2>5, <2>7, <2>9, <2>11 DEF LexerIs
<1> QED BY <1>10, <1>11, <1>12, <1>13, <1>14, <1>15 DEF Separator, Space

\* A word that ends with the next character is the one that began.
LEMMA WordAtIs ==
  ASSUME NEW t \in Seq(STRING), NEW s \in 1..Len(t), NEW k \in s..Len(t) - 1,
         \A i \in s..k : t[i] \notin Separator, t[k + 1] \in Separator
  PROVE  WordAt(t, s) = SubSeq(t, s, k)
<1> DEFINE N == {n \in 1..Len(t) : s + n \notin DOMAIN t \/ t[s + n] \in Separator}
           m == k + 1 - s
<1>1. Len(t) \in Nat /\ DOMAIN t = 1..Len(t) BY LenProperties
<1>2. m \in 1..Len(t) /\ s + m = k + 1 /\ s + m - 1 = k BY <1>1
<1>3. m \in N BY <1>2
<1>4. ASSUME NEW n \in N, n < m PROVE FALSE
  <2>1. s + n \in s..k /\ s + n \in 1..Len(t) BY <1>1, <1>4
  <2> QED BY <1>1, <1>4, <2>1
<1>5. N \subseteq Nat /\ N # {} BY <1>3
<1> HIDE DEF N
<1>6. Min(N) \in N /\ \A n \in N : Min(N) <= n BY <1>5, MinIsSmallest
<1>7. Min(N) = m
  <2>1. Min(N) \in Nat /\ Min(N) <= m /\ m \in Nat BY <1>2, <1>3, <1>5, <1>6
  <2>2. ~(Min(N) < m) BY <1>4, <1>6
  <2> QED BY <2>1, <2>2
<1> QED BY <1>2, <1>7 DEF WordAt, N

\* A character more.
LEMMA ReadFollows ==
  ASSUME NEW t \in Seq(STRING), WellSpaced(t), NEW k \in 0..Len(t) - 1, NEW l \in LexerState,
         LexerIs(t, k, l)
  PROVE  LexerIs(t, k + 1, Read(l, t[k + 1]))
<1> DEFINE c == t[k + 1]
           P(m) == Places(t) \cap 1..m
<1>1. /\ k \in Nat /\ k + 1 \in 1..Len(t) /\ Len(t) \in Nat /\ (k + 1) - 1 = k
      /\ 1..k + 1 = 1..k \cup {k + 1} /\ DOMAIN t = 1..Len(t)
  BY LenProperties
<1>2. /\ k + 1 \in Live(t) <=> ~Dead(t, k) /\ c # "#"
      /\ Dead(t, k + 1) <=> c # "nl" /\ (Dead(t, k) \/ c = "#")
  BY LiveIs
<1>3. DOMAIN l = {"tokens", "word", "comment"} /\ l.tokens \in Seq(Token)
      /\ l.word \in Seq(STRING) /\ l.comment \in BOOLEAN
  BY DEF LexerState
<1>4. CASE l.comment
  <2>1. Read(l, c) = [l EXCEPT !.comment = c # "nl"] BY <1>4 DEF Read, Comment
  <2>2. /\ Read(l, c).comment = (c # "nl") /\ Read(l, c).word = l.word
        /\ Read(l, c).tokens = l.tokens
    BY <1>3, <2>1
  <2>3. Dead(t, k) /\ l.word = <<>> BY <1>4 DEF LexerIs
  <2>4. k + 1 \notin Live(t) BY <1>2, <2>3
  <2>5. P(k + 1) = P(k) BY <1>1, <2>4, PlaceIs
  <2>6. PICK at : Lexed(t, l.tokens, at, P(k)) BY <2>3 DEF LexerIs
  <2>7. Lexed(t, Read(l, c).tokens, at, P(k + 1)) BY <2>2, <2>5, <2>6
  <2>8. Dead(t, k + 1) <=> c # "nl" BY <1>2, <2>3
  <2> HIDE DEF c
  <2>9. LexerIs(t, k + 1, Read(l, c)) BY <2>2, <2>3, <2>4, <2>7, <2>8 DEF LexerIs
  <2> QED BY <2>9 DEF c
<1>5. CASE ~l.comment /\ l.word = <<>>
  <2>1. Read(l, c) = Between(l, c) BY <1>5 DEF Read
  <2>2. /\ ~Dead(t, k) /\ (k = 0 \/ k \notin Live(t) \/ t[k] \in Separator)
        /\ \E at : Lexed(t, l.tokens, at, P(k))
    BY <1>5 DEF LexerIs
  <2>3. ~Dead(t, k) BY <1>5 DEF LexerIs
  <2> HIDE DEF c
  <2>4. LexerIs(t, k + 1, Between(l, t[k + 1])) BY <1>5, <2>2, <2>3, BetweenFollows
  <2> QED BY <2>1, <2>4 DEF c
<1>6. CASE ~l.comment /\ l.word # <<>>
  <2>1. PICK s \in Starts(t) \cap 1..k :
          /\ l.word = SubSeq(t, s, k)
          /\ \A i \in s..k : i \in Live(t) /\ t[i] \notin Separator
          /\ \E at : Lexed(t, l.tokens, at, P(s - 1))
    BY <1>6 DEF LexerIs
  <2>2. PICK at : Lexed(t, l.tokens, at, P(s - 1)) BY <2>1
  <2>3. k \in s..k /\ k \in 1..Len(t) /\ k \in Live(t) /\ t[k] \notin Separator BY <1>1, <2>1
  <2>4. c \notin {"}", "#"}
    <3>1. k + 1 \in DOMAIN t /\ (k + 1) - 1 \in Live(t) /\ t[(k + 1) - 1] \notin Separator
      BY <1>1, <2>3
    <3> QED BY <3>1 DEF WellSpaced
  <2>5. ~Dead(t, k) BY <1>6 DEF LexerIs
  <2>6. k + 1 \in Live(t) /\ ~Dead(t, k + 1) BY <1>2, <2>4, <2>5
  <2>7. CASE EndsWord(c)
    <3> DEFINE token == [type |-> "word", word |-> l.word]
               e == Emit(l, "word", l.word)
    <3>1. c \in Separator BY <2>7 DEF EndsWord, Separator, Mark
    <3>2. l.word = WordAt(t, s)
      <4>1. s \in 1..Len(t) /\ k \in s..Len(t) - 1 BY <1>1, <2>1
      <4> QED BY <2>1, <3>1, <4>1, WordAtIs
    <3>3. IsToken(t, s, token) BY <2>1, <3>2 DEF IsToken
    <3>4. token \in Token BY <1>3 DEF Token
    <3>5. P(s - 1) \cup {s} = P(k)
      <4>1. s \in Places(t) BY <2>1 DEF Places
      <4>2. ASSUME NEW i \in s + 1..k PROVE i \notin Places(t)
        <5>1. i \in s..k /\ i - 1 \in s..k /\ i # 1 BY <2>1
        <5>2. t[i] \notin Separator /\ i - 1 \in Live(t) /\ t[i - 1] \notin Separator BY <2>1, <5>1
        <5> QED BY <5>1, <5>2 DEF Places, Marks, Starts, Feeds, Separator, Mark, Space
      <4>3. 1..k = (1..s - 1) \cup {s} \cup (s + 1..k) BY <1>1, <2>1
      <4> QED BY <4>1, <4>2, <4>3
    <3>6. \E a : Lexed(t, Append(l.tokens, token), a, P(s - 1) \cup {s})
      <4>1. s \in Nat /\ P(s - 1) \in SUBSET Nat /\ \A p \in P(s - 1) : p < s BY <2>1
      <4> HIDE DEF P, token
      <4> QED BY <1>3, <2>2, <3>3, <3>4, <4>1, LexedMore
    <3>7. /\ e.tokens = Append(l.tokens, token) /\ e.word = <<>> /\ e.comment = l.comment
      BY <1>3 DEF Emit
    <3>8. e \in LexerState
      <4>1. Append(l.tokens, token) \in Seq(Token)
        <5> HIDE DEF token
        <5> QED BY <1>3, <3>4, AppendProperties
      <4>2. <<>> \in Seq(STRING) BY EmptySeq
      <4> HIDE DEF token
      <4>3. [l EXCEPT !.tokens = Append(@, token), !.word = <<>>] \in LexerState
        BY <1>3, <4>1, <4>2 DEF LexerState
      <4> QED BY <4>3 DEF Emit, token
    <3>9. Read(l, c) = Between(e, c) BY <1>6, <2>7 DEF Read
    <3> HIDE DEF e, token
    <3>10. ~e.comment /\ e.word = <<>> /\ \E a : Lexed(t, e.tokens, a, P(k))
      BY <1>6, <3>5, <3>6, <3>7
    <3> HIDE DEF c
    <3>11. LexerIs(t, k + 1, Between(e, t[k + 1]))
      BY <2>5, <3>1, <3>8, <3>10, BetweenFollows DEF c
    <3> QED BY <3>9, <3>11 DEF c
  <2>8. CASE ~EndsWord(c)
    <3>1. Read(l, c) = [l EXCEPT !.word = Append(@, c)] BY <1>6, <2>8 DEF Read
    <3>2. /\ Read(l, c).comment = l.comment /\ Read(l, c).word = Append(l.word, c)
          /\ Read(l, c).tokens = l.tokens
      BY <1>3, <3>1
    <3>3. Append(l.word, c) # <<>>
      <4>1. c \in STRING BY <1>1, ElementOfSeq
      <4> HIDE DEF c
      <4> QED BY <1>3, <4>1, AppendProperties
    <3>4. Append(l.word, c) = SubSeq(t, s, k + 1)
      <4>1. s \in 1..k + 1 /\ s <= k + 1 /\ k + 1 <= Len(t) /\ s \in 1..Len(t) + 1
            /\ k \in s - 1..Len(t) - 1
        BY <1>1, <2>1
      <4>2. /\ SubSeq(t, s, k) \in Seq(STRING) /\ Len(SubSeq(t, s, k)) = k - s + 1
            /\ \A i \in 1..k - s + 1 : SubSeq(t, s, k)[i] = t[s + i - 1]
        BY <1>1, <2>1, SubSeqProperties
      <4>3. /\ SubSeq(t, s, k + 1) \in Seq(STRING) /\ Len(SubSeq(t, s, k + 1)) = k - s + 2
            /\ \A i \in 1..k - s + 2 : SubSeq(t, s, k + 1)[i] = t[s + i - 1]
        BY <1>1, <2>1, SubSeqProperties
      <4>4. c \in STRING BY <1>1, ElementOfSeq
      <4> DEFINE w == SubSeq(t, s, k)
      <4>5. k - s + 1 \in Nat /\ s + (k - s + 2) - 1 = k + 1 BY <1>1, <2>1
      <4> HIDE DEF w, c
      <4>6. /\ Append(w, c) \in Seq(STRING) /\ Len(Append(w, c)) = k - s + 1 + 1
            /\ \A i \in 1..k - s + 1 : Append(w, c)[i] = w[i]
            /\ Append(w, c)[k - s + 1 + 1] = c
        BY <4>2, <4>4, AppendProperties DEF w
      <4>7. \A i \in 1..k - s + 2 : i \in 1..k - s + 1 \/ i = k - s + 1 + 1 BY <1>1, <2>1
      <4>8. k - s + 2 = k - s + 1 + 1 BY <1>1, <2>1
      <4>9. \A i \in 1..k - s + 2 : Append(w, c)[i] = SubSeq(t, s, k + 1)[i]
        BY <4>2, <4>3, <4>5, <4>6, <4>7, <4>8 DEF c, w
      <4>10. Append(w, c) = SubSeq(t, s, k + 1) BY <4>3, <4>6, <4>8, <4>9, SeqEqual
      <4> QED BY <2>1, <4>10 DEF w
    <3>5. \A i \in s..k + 1 : i \in Live(t) /\ t[i] \notin Separator
      <4>1. \A i \in s..k + 1 : i \in s..k \/ i = k + 1 BY <1>1, <2>1
      <4>2. c \notin Separator BY <2>4, <2>8 DEF EndsWord, Separator, Mark
      <4> QED BY <2>1, <2>6, <4>1, <4>2
    <3>6. s \in Starts(t) \cap 1..k + 1 BY <1>1, <2>1
    <3>7. ~Read(l, c).comment BY <1>6, <3>2
    <3> HIDE DEF c
    <3>8. \E s2 \in Starts(t) \cap 1..k + 1 :
            /\ Read(l, c).word = SubSeq(t, s2, k + 1)
            /\ \A i \in s2..k + 1 : i \in Live(t) /\ t[i] \notin Separator
            /\ \E a : Lexed(t, Read(l, c).tokens, a, Places(t) \cap 1..s2 - 1)
      BY <2>2, <3>2, <3>4, <3>5, <3>6
    <3>9. LexerIs(t, k + 1, Read(l, c)) BY <2>6, <3>2, <3>3, <3>7, <3>8 DEF LexerIs
    <3> QED BY <3>9 DEF c
  <2> QED BY <2>7, <2>8
<1> QED BY <1>4, <1>5, <1>6

\* Where words stand apart the tokens are those of the places of the text.
LEMMA LexerReads ==
  ASSUME NEW t \in Seq(STRING), WellSpaced(t)
  PROVE  \E at : Lexed(t, Tokens(t), at, Places(t))
<1> DEFINE n == Len(t)
<1>1. PICK a : Lexes(t, a) /\ Tokens(t) = a[n].tokens BY TokensScan
<1>2. n \in Nat BY LenProperties
<1> DEFINE H == {k \in 0..n : LexerIs(t, k, a[k])}
<1>3. 0 \in H
  <2>1. 0 \in 0..n /\ 1..0 = {} BY <1>2
  <2>2. a[0].comment = FALSE /\ a[0].word = <<>> /\ a[0].tokens = <<>>
    BY <1>1 DEF Lexes, AtStart
  <2>3. ~Dead(t, 0) BY <2>1 DEF Dead
  <2>4. Places(t) \cap 1..0 = {} BY <2>1
  <2>5. Lexed(t, <<>>, <<>>, {})
    <3>1. Len(<<>>) = 0 /\ <<>> \in [1..0 -> {}] OBVIOUS
    <3> QED BY <2>1, <3>1 DEF Lexed
  <2>6. LexerIs(t, 0, a[0]) BY <2>2, <2>3, <2>4, <2>5 DEF LexerIs
  <2> QED BY <2>1, <2>6
<1>4. ASSUME NEW k \in 1..n, k - 1 \in H PROVE k \in H
  <2>1. k \in 0..n /\ k - 1 \in 0..n /\ k - 1 \in 0..Len(t) - 1 /\ (k - 1) + 1 = k BY <1>2
  <2>2. a[k - 1] \in LexerState /\ a[k] = Read(a[k - 1], t[k]) BY <1>1, <2>1 DEF Lexes
  <2>3. LexerIs(t, k - 1, a[k - 1]) BY <1>4
  <2> DEFINE j == k - 1
  <2>4. j \in 0..Len(t) - 1 /\ j + 1 = k /\ a[j] \in LexerState /\ LexerIs(t, j, a[j])
    BY <2>1, <2>2, <2>3
  <2> HIDE DEF j
  <2>5. LexerIs(t, j + 1, Read(a[j], t[j + 1])) BY <2>4, ReadFollows
  <2>6. LexerIs(t, k, a[k]) BY <2>2, <2>4, <2>5 DEF j
  <2> QED BY <2>1, <2>6
<1>5. LexerIs(t, n, a[n])
  <2>1. H \in SUBSET (0..n) OBVIOUS
  <2> HIDE DEF H
  <2>2. H = 0..n BY <1>2, <1>3, <1>4, <2>1, UpTo
  <2>3. n \in H BY <1>2, <2>2
  <2> QED BY <2>3 DEF H
<1>6. a[n].word = <<>>
  <2>1. SUFFICES ASSUME a[n].word # <<>> PROVE FALSE OBVIOUS
  <2>2. PICK s \in 1..n : \A i \in s..n : i \in Live(t) /\ t[i] \notin Separator
    BY <1>5, <2>1 DEF LexerIs
  <2>3. n \in s..n /\ n > 0 BY <1>2
  <2>4. n \in Live(t) /\ t[n] \notin Separator BY <2>2, <2>3
  <2>5. t # <<>> BY <1>2, <2>3
  <2> QED BY <2>4, <2>5 DEF WellSpaced, Last
<1>7. PICK at : Lexed(t, a[n].tokens, at, Places(t) \cap 1..n) BY <1>5, <1>6 DEF LexerIs
<1>8. Places(t) \cap 1..n = Places(t) BY PlaceIs
<1> QED BY <1>1, <1>7, <1>8

-----------------------------------------------------------------------------
(* The statements of a text, mark by mark.                                 *)

\* What Statements counts, for any place: the marks before it, how many blocks are open
\* there, and the braces that opened the blocks of a depth, and those of the last server.
Before(t, i, mark) == {j \in Marks(t) : j < i /\ t[j] = mark}
Depth(t, i)     == Cardinality(Before(t, i, "{")) - Cardinality(Before(t, i, "}"))
Opened(t, i, d) == {j \in Before(t, i, "{") : Depth(t, j) = d}
ServerAt(t, i)  == Max({0} \cup Opened(t, i, 0))
Inside(t, i)    == {j \in Opened(t, i, 1) : j > ServerAt(t, i)}
MarkAt(t, i)    == Max({0} \cup {j \in Marks(t) : j < i})
WordsTo(t, i)   == {k \in Starts(t) : MarkAt(t, i) < k /\ k < i}

\* The statement that ends with mark i.
StatementAt(t, i) ==
  LET words == Ascending(WordsTo(t, i)) IN
  [at |-> i, mark |-> t[i], depth |-> Depth(t, i),
   words |-> [n \in DOMAIN words |-> WordAt(t, words[n])],
   server |-> Cardinality(Opened(t, i, 0)),
   location |-> IF Depth(t, i) < 2 THEN 0 ELSE Cardinality(Inside(t, i))]

\* They are the statements of the text.
LEMMA StatementsAre == ASSUME NEW t PROVE Statements(t) = {StatementAt(t, i) : i \in Marks(t)}
<1> DEFINE live     == Live(t)
           marks    == {i \in live : t[i] \in Mark}
           Bef(i, mark) == {j \in marks : j < i /\ t[j] = mark}
           depth    == [i \in marks |->
                     Cardinality(Bef(i, "{")) - Cardinality(Bef(i, "}"))]
           starts   == {i \in live : /\ t[i] \notin Separator \cup {"#"}
                                     /\ i = 1 \/ i - 1 \notin live \/ t[i - 1] \in Separator}
           WordOf(i) == LET length == Min({n \in 1..Len(t) :
                                        i + n \notin DOMAIN t \/ t[i + n] \in Separator})
                   IN  SubSeq(t, i, i + length - 1)
           Open2(i, d) == {j \in Bef(i, "{") : depth[j] = d}
           Statement(i) ==
              LET from   == Max({0} \cup {j \in marks : j < i})
                  words  == Ascending({k \in starts : from < k /\ k < i})
                  server == Max({0} \cup Open2(i, 0))
              IN  [at |-> i, mark |-> t[i], depth |-> depth[i],
                   words    |-> [n \in DOMAIN words |-> WordOf(words[n])],
                   server   |-> Cardinality(Open2(i, 0)),
                   location |-> IF depth[i] < 2 THEN 0
                                ELSE Cardinality({j \in Open2(i, 1) : j > server})]
<1>1. Statements(t) = {Statement(i) : i \in marks} BY DEF Statements
<1>2. marks = Marks(t) BY DEF Marks
<1>3. starts = Starts(t) BY DEF Starts
<1>4. \A i : WordOf(i) = WordAt(t, i) BY DEF WordAt
<1>5. \A i, mark : Bef(i, mark) = Before(t, i, mark) BY <1>2 DEF Before
<1>6. \A i \in marks : depth[i] = Depth(t, i)
  <2> HIDE DEF Bef, marks
  <2>1. \A i : Bef(i, "{") = Before(t, i, "{") /\ Bef(i, "}") = Before(t, i, "}") BY <1>5
  <2> QED BY <2>1 DEF Depth
<1>7. \A i, d : Open2(i, d) = Opened(t, i, d)
  <2>1. \A i, mark : Bef(i, mark) \subseteq marks OBVIOUS
  <2> HIDE DEF depth, Bef, marks
  <2>2. ASSUME NEW i, NEW d PROVE Open2(i, d) = Opened(t, i, d)
    <3>1. \A j \in Bef(i, "{") : depth[j] = Depth(t, j) BY <1>6, <2>1
    <3> QED BY <1>5, <3>1 DEF Opened
  <2> QED BY <2>2
<1> HIDE DEF live, marks, Bef, depth, starts, WordOf, Open2
<1>8. ASSUME NEW i \in marks PROVE Statement(i) = StatementAt(t, i)
  <2>1. WordsTo(t, i) = {k \in starts : Max({0} \cup {j \in marks : j < i}) < k /\ k < i}
    BY <1>2, <1>3 DEF WordsTo, MarkAt
  <2>2. Inside(t, i) = {j \in Open2(i, 1) : j > Max({0} \cup Open2(i, 0))}
    BY <1>7 DEF Inside, ServerAt
  <2>3. depth[i] = Depth(t, i) BY <1>6
  <2> DEFINE words == Ascending(WordsTo(t, i))
  <2>4. [n \in DOMAIN words |-> WordOf(words[n])] = [n \in DOMAIN words |-> WordAt(t, words[n])]
    <3> HIDE DEF words
    <3> QED BY <1>4
  <2> HIDE DEF words
  <2>5. Statement(i) =
         [at |-> i, mark |-> t[i], depth |-> depth[i],
          words    |-> [n \in DOMAIN words |-> WordOf(words[n])],
          server   |-> Cardinality(Open2(i, 0)),
          location |-> IF depth[i] < 2 THEN 0 ELSE Cardinality(Inside(t, i))]
    BY <2>1, <2>2 DEF words
  <2>6. StatementAt(t, i) =
         [at |-> i, mark |-> t[i], depth |-> Depth(t, i),
          words    |-> [n \in DOMAIN words |-> WordAt(t, words[n])],
          server   |-> Cardinality(Opened(t, i, 0)),
          location |-> IF Depth(t, i) < 2 THEN 0 ELSE Cardinality(Inside(t, i))]
    BY DEF words, StatementAt
  <2>7. Open2(i, 0) = Opened(t, i, 0) BY <1>7
  <2> QED BY <2>3, <2>4, <2>5, <2>6, <2>7
<1> HIDE DEF Statement
<1> QED BY <1>1, <1>2, <1>8

\* The marks of a text are places of it, and finitely many.
LEMMA MarksAre ==
  ASSUME NEW t \in Seq(STRING)
  PROVE  /\ Marks(t) \in SUBSET (1..Len(t)) /\ Starts(t) \in SUBSET (1..Len(t)) /\ Len(t) \in Nat
         /\ \A i, mark : IsFiniteSet(Before(t, i, mark)) /\ Cardinality(Before(t, i, mark)) \in Nat
         /\ \A i, d : IsFiniteSet(Opened(t, i, d)) /\ Cardinality(Opened(t, i, d)) \in Nat
         /\ \A i : IsFiniteSet(Inside(t, i)) /\ Cardinality(Inside(t, i)) \in Nat
         /\ \A i : Depth(t, i) \in Int
<1>1. /\ Marks(t) \in SUBSET (1..Len(t)) /\ Starts(t) \in SUBSET (1..Len(t)) /\ Len(t) \in Nat
  BY LenProperties DEF Marks, Starts, Live
<1>2. IsFiniteSet(1..Len(t))
  <2>1. 1 \in Int /\ Len(t) \in Int BY <1>1
  <2> QED BY <2>1, FS_Interval
<1>3. ASSUME NEW S, S \subseteq Marks(t) PROVE IsFiniteSet(S) /\ Cardinality(S) \in Nat
  <2>1. S \in SUBSET (1..Len(t)) BY <1>1, <1>3
  <2>2. IsFiniteSet(S) BY <1>2, <2>1, FS_Subset
  <2> QED BY <2>2, FS_CardinalityType
<1>4. \A i, mark : Before(t, i, mark) \subseteq Marks(t) BY DEF Before
<1>5. \A i, d : Opened(t, i, d) \subseteq Marks(t) BY <1>4 DEF Opened
<1>6. \A i : Inside(t, i) \subseteq Marks(t) BY <1>5 DEF Inside
<1>7. \A i, mark : IsFiniteSet(Before(t, i, mark)) /\ Cardinality(Before(t, i, mark)) \in Nat
  BY <1>3, <1>4
<1>8. \A i, d : IsFiniteSet(Opened(t, i, d)) /\ Cardinality(Opened(t, i, d)) \in Nat
  BY <1>3, <1>5
<1>9. \A i : IsFiniteSet(Inside(t, i)) /\ Cardinality(Inside(t, i)) \in Nat
  BY <1>3, <1>6
<1>10. \A i : Depth(t, i) \in Int
  <2>1. \A i : Cardinality(Before(t, i, "{")) \in Nat /\ Cardinality(Before(t, i, "}")) \in Nat
    BY <1>7
  <2>2. \A a, b \in Nat : a - b \in Int OBVIOUS
  <2> QED BY <2>1, <2>2, Zenon DEF Depth
<1> QED BY <1>1, <1>7, <1>8, <1>9, <1>10

\* The last of the places before i, or 0.
LEMMA LastPlace ==
  ASSUME NEW n \in Nat, NEW S \in SUBSET (1..n)
  PROVE  Max({0} \cup S) \in {0} \cup S /\ \A j \in S : Max({0} \cup S) >= j
<1> DEFINE T == {0} \cup S
<1>1. T \subseteq 0..n /\ T # {} OBVIOUS
<1> HIDE DEF T
<1>2. Max(T) \in T /\ \A j \in T : Max(T) >= j BY <1>1, MaxIsLargest
<1> QED BY <1>2 DEF T

\* The words of a text before h have their mark before h, if there is a mark after.
ReadTo(t, h) ==
  \A s \in Starts(t), m \in Marks(t) :
    s < h /\ h <= m => \E k \in Marks(t) : s < k /\ k < h

\* The next statement after place h, if the words from there to the next mark are g's.
LEMMA NextStatement ==
  ASSUME NEW t \in Seq(STRING), NEW h \in Nat, NEW i \in Marks(t), h <= i, ReadTo(t, h),
         \A m \in Marks(t) : ~(h <= m /\ m < i),
         NEW c \in Nat, NEW g \in [1..c -> Nat], \A j, k \in 1..c : j < k => g[j] < g[k],
         {g[k] : k \in 1..c} = {k \in Starts(t) : h <= k /\ k < i}
  PROVE  StatementAt(t, i) =
           [at |-> i, mark |-> t[i], depth |-> Depth(t, h),
            words |-> [n \in 1..c |-> WordAt(t, g[n])],
            server |-> Cardinality(Opened(t, h, 0)),
            location |-> IF Depth(t, h) < 2 THEN 0 ELSE Cardinality(Inside(t, h))]
<1>1. Marks(t) \in SUBSET (1..Len(t)) /\ Starts(t) \in SUBSET (1..Len(t)) /\ Len(t) \in Nat
  BY MarksAre
<1>2. \A j \in Marks(t) : j < i <=> j < h BY <1>1
<1>3. \A mark : Before(t, i, mark) = Before(t, h, mark) BY <1>2 DEF Before
<1>4. Depth(t, i) = Depth(t, h)
  <2>1. Before(t, i, "{") = Before(t, h, "{") /\ Before(t, i, "}") = Before(t, h, "}") BY <1>3
  <2> QED BY <2>1 DEF Depth
<1>5. \A d : Opened(t, i, d) = Opened(t, h, d) BY <1>3 DEF Opened
<1>6. Inside(t, i) = Inside(t, h)
  <2>1. Opened(t, i, 0) = Opened(t, h, 0) /\ Opened(t, i, 1) = Opened(t, h, 1) BY <1>5
  <2>2. ServerAt(t, i) = ServerAt(t, h) BY <2>1 DEF ServerAt
  <2> QED BY <2>1, <2>2 DEF Inside
<1>7. WordsTo(t, i) = {g[k] : k \in 1..c}
  <2> DEFINE S == {j \in Marks(t) : j < i}
             L == Max({0} \cup S)
  <2>1. S \in SUBSET (1..Len(t)) BY <1>1
  <2>2. L \in {0} \cup S /\ \A j \in S : L >= j
    <3> HIDE DEF S
    <3> QED BY <1>1, <2>1, LastPlace
  <2>3. MarkAt(t, i) = L BY DEF MarkAt
  <2> HIDE DEF L
  <2>4. L \in Nat /\ (L < h \/ L = 0) BY <1>1, <1>2, <2>2
  <2>5. ASSUME NEW k \in Starts(t), k < i, L < k PROVE h <= k
    <3>1. SUFFICES ASSUME k < h PROVE FALSE BY <1>1
    <3>2. PICK m \in Marks(t) : k < m /\ m < h BY <3>1 DEF ReadTo
    <3>3. m \in S BY <1>2, <3>2
    <3> QED BY <1>1, <2>2, <2>4, <2>5, <3>2, <3>3
  <2>6. \A k \in Starts(t) : h <= k => L < k BY <1>1, <2>4
  <2>7. {k \in Starts(t) : L < k /\ k < i} = {k \in Starts(t) : h <= k /\ k < i}
    BY <2>5, <2>6
  <2> QED BY <2>3, <2>7 DEF WordsTo
<1>8. Ascending(WordsTo(t, i)) = g BY <1>7, AscendingIs
<1>9. DOMAIN g = 1..c OBVIOUS
<1> QED BY <1>4, <1>5, <1>6, <1>8, <1>9 DEF StatementAt

\* What is counted after the statement.
LEMMA AfterStatement ==
  ASSUME NEW t \in Seq(STRING), NEW h \in Nat, NEW i \in Marks(t), h <= i, NEW h2 \in Nat, i < h2,
         \A m \in Marks(t) : ~(h <= m /\ m < i) /\ ~(i < m /\ m < h2)
  PROVE  /\ t[i] = "{" => Depth(t, h2) = Depth(t, h) + 1
         /\ t[i] = "}" => Depth(t, h2) = Depth(t, h) - 1
         /\ t[i] = ";" => Depth(t, h2) = Depth(t, h)
         /\ \A d : /\ t[i] = "{" /\ Depth(t, h) = d =>
                       Cardinality(Opened(t, h2, d)) = Cardinality(Opened(t, h, d)) + 1
                   /\ ~(t[i] = "{" /\ Depth(t, h) = d) => Opened(t, h2, d) = Opened(t, h, d)
         /\ t[i] = "{" /\ Depth(t, h) = 0 => Inside(t, h2) = {}
         /\ t[i] = "{" /\ Depth(t, h) = 1 =>
              Cardinality(Inside(t, h2)) = Cardinality(Inside(t, h)) + 1
         /\ t[i] # "{" => Inside(t, h2) = Inside(t, h)
         /\ \A m \in Marks(t) : m < h2 <=> m < h \/ m = i
<1>1. /\ Marks(t) \in SUBSET (1..Len(t)) /\ Len(t) \in Nat /\ i \in Nat
      /\ \A j, mark : IsFiniteSet(Before(t, j, mark)) /\ Cardinality(Before(t, j, mark)) \in Nat
      /\ \A j, d : IsFiniteSet(Opened(t, j, d)) /\ Cardinality(Opened(t, j, d)) \in Nat
      /\ \A j : IsFiniteSet(Inside(t, j)) /\ Cardinality(Inside(t, j)) \in Nat
  BY MarksAre
<1>2. \A m \in Marks(t) : m < h2 <=> m < h \/ m = i BY <1>1
<1>3. ~(i < h) BY <1>1
<1>4. t[i] \in Mark BY DEF Marks
<1>5. \A mark : /\ t[i] = mark => Before(t, h2, mark) = Before(t, h, mark) \cup {i}
                /\ t[i] # mark => Before(t, h2, mark) = Before(t, h, mark)
  BY <1>2 DEF Before
<1>6. \A mark : i \notin Before(t, h, mark) BY <1>3 DEF Before
<1>7. ASSUME NEW mark, t[i] = mark
      PROVE  Cardinality(Before(t, h2, mark)) = Cardinality(Before(t, h, mark)) + 1
  <2>1. Before(t, h2, mark) = Before(t, h, mark) \cup {i} BY <1>5, <1>7
  <2> QED BY <1>1, <1>6, <2>1, FS_AddElement
<1>8. /\ t[i] = "{" => Depth(t, h2) = Depth(t, h) + 1
      /\ t[i] = "}" => Depth(t, h2) = Depth(t, h) - 1
      /\ t[i] = ";" => Depth(t, h2) = Depth(t, h)
  <2> DEFINE a == Cardinality(Before(t, h, "{"))
             b == Cardinality(Before(t, h, "}"))
             a2 == Cardinality(Before(t, h2, "{"))
             b2 == Cardinality(Before(t, h2, "}"))
  <2>1. a \in Nat /\ b \in Nat BY <1>1
  <2>2. Depth(t, h2) = a2 - b2 /\ Depth(t, h) = a - b BY DEF Depth
  <2>3. ASSUME t[i] = "{" PROVE a2 = a + 1 /\ b2 = b BY <1>5, <1>7, <2>3
  <2>4. ASSUME t[i] = "}" PROVE a2 = a /\ b2 = b + 1 BY <1>5, <1>7, <2>4
  <2>5. ASSUME t[i] = ";" PROVE a2 = a /\ b2 = b BY <1>5, <2>5
  <2> HIDE DEF a, b, a2, b2
  <2>6. \A x, y \in Nat : (x + 1) - y = (x - y) + 1 /\ x - (y + 1) = (x - y) - 1 OBVIOUS
  <2>7. (a + 1) - b = (a - b) + 1 /\ a - (b + 1) = (a - b) - 1 BY <2>1, <2>6, Zenon
  <2>8. t[i] = "{" => Depth(t, h2) = Depth(t, h) + 1 BY <2>2, <2>3, <2>7, Zenon
  <2>9. t[i] = "}" => Depth(t, h2) = Depth(t, h) - 1 BY <2>2, <2>4, <2>7, Zenon
  <2>10. t[i] = ";" => Depth(t, h2) = Depth(t, h) BY <2>2, <2>5, Zenon
  <2> QED BY <2>8, <2>9, <2>10, Zenon
<1>9. Depth(t, i) = Depth(t, h)
  <2>1. \A m \in Marks(t) : m < i <=> m < h BY <1>1
  <2>2. Before(t, i, "{") = Before(t, h, "{") /\ Before(t, i, "}") = Before(t, h, "}")
    BY <2>1 DEF Before
  <2> QED BY <2>2 DEF Depth
<1>10. \A d : /\ t[i] = "{" /\ Depth(t, h) = d => Opened(t, h2, d) = Opened(t, h, d) \cup {i}
              /\ ~(t[i] = "{" /\ Depth(t, h) = d) => Opened(t, h2, d) = Opened(t, h, d)
  BY <1>5, <1>9 DEF Opened
<1>11. \A d : i \notin Opened(t, h, d) BY <1>6 DEF Opened
<1>12. ASSUME NEW d, t[i] = "{", Depth(t, h) = d
       PROVE  Cardinality(Opened(t, h2, d)) = Cardinality(Opened(t, h, d)) + 1
  <2>1. Opened(t, h2, d) = Opened(t, h, d) \cup {i} BY <1>10, <1>12
  <2> QED BY <1>1, <1>11, <2>1, FS_AddElement
<1>13. ASSUME NEW j \in Nat
       PROVE  /\ \A k \in Opened(t, j, 0) \cup Opened(t, j, 1) : k \in Nat /\ k < j
              /\ ServerAt(t, j) \in {0} \cup Opened(t, j, 0)
              /\ \A k \in Opened(t, j, 0) : ServerAt(t, j) >= k
  <2>1. \A k \in Opened(t, j, 0) \cup Opened(t, j, 1) : k \in 1..Len(t) /\ k < j
    BY <1>1 DEF Opened, Before
  <2>2. Opened(t, j, 0) \in SUBSET (1..Len(t)) /\ Len(t) \in Nat BY <1>1, <2>1
  <2>3. /\ Max({0} \cup Opened(t, j, 0)) \in {0} \cup Opened(t, j, 0)
        /\ \A k \in Opened(t, j, 0) : Max({0} \cup Opened(t, j, 0)) >= k
    BY <2>2, LastPlace
  <2>4. \A k \in Opened(t, j, 0) \cup Opened(t, j, 1) : k \in Nat BY <2>1
  <2> QED BY <2>1, <2>3, <2>4 DEF ServerAt
<1>14. ASSUME t[i] = "{", Depth(t, h) = 0 PROVE Inside(t, h2) = {}
  <2>1. i \in Opened(t, h2, 0) /\ Opened(t, h2, 1) = Opened(t, h, 1)
    <3>1. Depth(t, h) # 1
      <4>1. 0 # 1 OBVIOUS
      <4> QED BY <1>14, <4>1, Zenon
    <3> QED BY <1>10, <1>14, <3>1
  <2>2. ServerAt(t, h2) >= i /\ ServerAt(t, h2) \in Nat BY <1>13, <2>1
  <2>3. \A k \in Opened(t, h2, 1) : k \in Nat /\ k < i BY <1>1, <1>13, <2>1
  <2>4. \A k \in Opened(t, h2, 1) : ~(k > ServerAt(t, h2)) BY <1>1, <2>2, <2>3
  <2> QED BY <2>4 DEF Inside
<1>15. ASSUME Opened(t, h2, 0) = Opened(t, h, 0)
       PROVE  ServerAt(t, h2) = ServerAt(t, h)
  BY <1>15 DEF ServerAt
<1>16. ASSUME t[i] = "{", Depth(t, h) = 1
       PROVE  Cardinality(Inside(t, h2)) = Cardinality(Inside(t, h)) + 1
  <2>1. Opened(t, h2, 0) = Opened(t, h, 0) /\ Opened(t, h2, 1) = Opened(t, h, 1) \cup {i}
    <3>1. Depth(t, h) # 0
      <4>1. 0 # 1 OBVIOUS
      <4> QED BY <1>16, <4>1, Zenon
    <3> QED BY <1>10, <1>16, <3>1
  <2>2. ServerAt(t, h) \in Nat /\ (ServerAt(t, h) < i \/ ServerAt(t, h) = 0)
    <3>1. \A k \in Opened(t, h, 0) : k \in Nat /\ k < h BY <1>13
    <3>2. ServerAt(t, h) = 0 \/ ServerAt(t, h) \in Opened(t, h, 0) BY <1>13
    <3> QED BY <1>1, <3>1, <3>2
  <2>3. i > ServerAt(t, h) BY <1>1, <2>2
  <2>4. Inside(t, h2) = Inside(t, h) \cup {i} BY <1>15, <2>1, <2>3 DEF Inside
  <2>5. i \notin Inside(t, h) BY <1>11 DEF Inside
  <2> QED BY <1>1, <2>4, <2>5, FS_AddElement
<1>17. ASSUME t[i] # "{" PROVE Inside(t, h2) = Inside(t, h)
  <2>1. Opened(t, h2, 0) = Opened(t, h, 0) /\ Opened(t, h2, 1) = Opened(t, h, 1)
    BY <1>10, <1>17
  <2> QED BY <1>15, <2>1 DEF Inside
<1> QED BY <1>2, <1>8, <1>10, <1>12, <1>14, <1>16, <1>17

-----------------------------------------------------------------------------
(* The statement that the tokens of a step are.                            *)

\* Where token p begins, or the end of the text.
PlaceOf(t, toks, at, p) == IF p \in 1..Len(toks) THEN at[p] ELSE Len(t) + 1

\* The statements whose marks stand before place h.
Seen(t, h) == {StatementAt(t, i) : i \in {j \in Marks(t) : j < h}}

\* The tokens between two places.
LEMMA Within ==
  ASSUME NEW t \in Seq(STRING), NEW toks \in Seq(Token), NEW at, Lexed(t, toks, at, Places(t)),
         NEW p \in Nat \ {0}
  PROVE  /\ PlaceOf(t, toks, at, p) \in Nat
         /\ \A n \in 1..Len(toks) : /\ n < p => at[n] < PlaceOf(t, toks, at, p)
                                    /\ n >= p => at[n] >= PlaceOf(t, toks, at, p)
                                    /\ at[n] \in 1..Len(t) /\ at[n] \in Places(t)
         /\ \A x \in Places(t) : \E n \in 1..Len(toks) : at[n] = x
<1>1. /\ at \in [1..Len(toks) -> Places(t)]
      /\ \A i, j \in 1..Len(toks) : i < j => at[i] < at[j]
      /\ \A x \in Places(t) : \E n \in 1..Len(toks) : at[n] = x
  BY DEF Lexed
<1>2. Len(toks) \in Nat /\ Len(t) \in Nat BY LenProperties
<1>3. Places(t) \in SUBSET (1..Len(t)) BY PlaceIs
<1>4. \A n \in 1..Len(toks) : at[n] \in Places(t) /\ at[n] \in 1..Len(t) BY <1>1, <1>3
<1>5. CASE p \in 1..Len(toks)
  <2>1. PlaceOf(t, toks, at, p) = at[p] BY <1>5 DEF PlaceOf
  <2>2. at[p] \in 1..Len(t) BY <1>4, <1>5
  <2>3. ASSUME NEW n \in 1..Len(toks)
        PROVE  (n < p => at[n] < at[p]) /\ (n >= p => at[n] >= at[p])
    <3>1. at[n] \in 1..Len(t) BY <1>4
    <3>2. n < p => at[n] < at[p] BY <1>1, <1>5
    <3>3. n > p => at[p] < at[n] BY <1>1, <1>5
    <3> QED BY <1>2, <2>2, <3>1, <3>2, <3>3
  <2>4. at[p] \in Nat BY <2>2
  <2> QED BY <1>1, <1>4, <2>1, <2>3, <2>4
<1>6. CASE p \notin 1..Len(toks)
  <2>1. PlaceOf(t, toks, at, p) = Len(t) + 1 BY <1>6 DEF PlaceOf
  <2>2. \A n \in 1..Len(toks) : n < p BY <1>2, <1>6
  <2>3. \A n \in 1..Len(toks) : at[n] < Len(t) + 1 BY <1>2, <1>4
  <2>4. Len(t) + 1 \in Nat BY <1>2
  <2>5. \A n \in 1..Len(toks) : ~(n >= p) BY <1>2, <2>2
  <2> QED BY <1>1, <1>4, <2>1, <2>3, <2>4, <2>5
<1> QED BY <1>5, <1>6

\* What begins where a token does.
LEMMA TokenIs ==
  ASSUME NEW t \in Seq(STRING), NEW i, NEW token, IsToken(t, i, token)
  PROVE  /\ token.type \in Mark => i \in Marks(t) /\ t[i] = token.type
         /\ token.type = "word" => /\ i \in Starts(t) /\ i \notin Marks(t)
                                   /\ WordAt(t, i) = token.word
         /\ token.type = "newline" => i \notin Marks(t) /\ i \notin Starts(t)
<1>1. \A j \in Marks(t) : t[j] \in Mark BY DEF Marks
<1>2. \A j \in Starts(t) : t[j] \notin Mark \cup {"nl"} BY DEF Starts, Separator, Space
<1>3. \A j \in Feeds(t) : t[j] = "nl" BY DEF Feeds
<1> QED BY <1>1, <1>2, <1>3 DEF IsToken, Mark

\* Of the tokens from p on c are words and one is a mark: they are the next statement, and
\* the token after them begins where no other mark or word has been passed.
NextIs(t, toks, at, p, c) ==
  LET h  == PlaceOf(t, toks, at, p)
      i  == at[p + c]
      h2 == PlaceOf(t, toks, at, p + c + 1)
  IN  /\ i \in Marks(t) /\ h \in Nat /\ h <= i /\ h2 \in Nat /\ i < h2
      /\ t[i] = toks[p + c].type
      /\ \A m \in Marks(t) : ~(h <= m /\ m < i) /\ ~(i < m /\ m < h2)
      /\ ReadTo(t, h2)
      /\ StatementAt(t, i) =
           [at |-> i, mark |-> toks[p + c].type, depth |-> Depth(t, h),
            words |-> [n \in 1..c |-> toks[p + n - 1].word],
            server |-> Cardinality(Opened(t, h, 0)),
            location |-> IF Depth(t, h) < 2 THEN 0 ELSE Cardinality(Inside(t, h))]

\* So it is when a step takes c words and a mark.
LEMMA TakesStatement ==
  ASSUME NEW t \in Seq(STRING), NEW toks \in Seq(Token), NEW at, Lexed(t, toks, at, Places(t)),
         NEW p \in Nat \ {0}, NEW c \in Nat, p + c \in 1..Len(toks),
         \A k \in 0..c - 1 : toks[p + k].type = "word", toks[p + c].type \in Mark,
         ReadTo(t, PlaceOf(t, toks, at, p))
  PROVE  NextIs(t, toks, at, p, c)
<1> DEFINE h  == PlaceOf(t, toks, at, p)
           i  == at[p + c]
           h2 == PlaceOf(t, toks, at, p + c + 1)
           L  == Len(toks)
<1>1. L \in Nat /\ p + c \in Nat /\ p + c + 1 \in Nat \ {0} /\ p \in 1..L BY LenProperties
<1>2. /\ h \in Nat
      /\ \A n \in 1..L : /\ n < p => at[n] < h
                         /\ n >= p => at[n] >= h
                         /\ at[n] \in 1..Len(t) /\ at[n] \in Places(t)
      /\ \A x \in Places(t) : \E n \in 1..L : at[n] = x
  BY Within
<1>3. /\ h2 \in Nat
      /\ \A n \in 1..L : /\ n < p + c + 1 => at[n] < h2
                         /\ n >= p + c + 1 => at[n] >= h2
  <2> DEFINE q == p + c + 1
  <2>1. q \in Nat \ {0} BY <1>1
  <2> HIDE DEF q
  <2>2. /\ PlaceOf(t, toks, at, q) \in Nat
        /\ \A n \in 1..L : /\ n < q => at[n] < PlaceOf(t, toks, at, q)
                           /\ n >= q => at[n] >= PlaceOf(t, toks, at, q)
    BY <2>1, Within
  <2> QED BY <2>2 DEF q
<1>4. \A n, m \in 1..L : n < m => at[n] < at[m] BY DEF Lexed
<1>5. \A n \in 1..L : IsToken(t, at[n], toks[n]) BY DEF Lexed
<1> HIDE DEF h, h2, L
<1>6. h <= i /\ i < h2 /\ i \in Nat
  <2>1. p + c >= p /\ p + c < p + c + 1 BY <1>1
  <2>2. i >= h /\ i < h2 /\ i \in 1..Len(t) BY <1>2, <1>3, <2>1 DEF L
  <2> QED BY <1>2, <2>2
<1>7. i \in Marks(t) /\ t[i] = toks[p + c].type
  <2>1. IsToken(t, i, toks[p + c]) BY <1>5 DEF L
  <2> QED BY <2>1, TokenIs
<1>8. ASSUME NEW k \in 0..c - 1
      PROVE  /\ p + k \in 1..L /\ at[p + k] \in Starts(t) /\ at[p + k] \notin Marks(t)
             /\ WordAt(t, at[p + k]) = toks[p + k].word
             /\ h <= at[p + k] /\ at[p + k] < i
  <2>1. p + k \in 1..L /\ p + k >= p /\ p + k < p + c BY <1>1 DEF L
  <2>2. IsToken(t, at[p + k], toks[p + k]) /\ toks[p + k].type = "word" BY <1>5, <2>1
  <2>3. /\ at[p + k] \in Starts(t) /\ at[p + k] \notin Marks(t)
        /\ WordAt(t, at[p + k]) = toks[p + k].word
    BY <2>2, TokenIs
  <2>4. at[p + k] >= h /\ at[p + k] < i /\ at[p + k] \in 1..Len(t) BY <1>2, <1>4, <2>1 DEF L
  <2>5. h <= at[p + k] BY <1>2, <2>4
  <2> QED BY <2>1, <2>3, <2>4, <2>5
<1>9. ASSUME NEW x \in Places(t), h <= x, x < h2
      PROVE  x = i \/ \E k \in 0..c - 1 : x = at[p + k]
  <2>1. PICK n \in 1..L : at[n] = x BY <1>2
  <2>2. x \in Nat BY <1>2, <2>1
  <2>3. ~(n < p) /\ ~(n >= p + c + 1) BY <1>2, <1>3, <1>9, <2>1, <2>2
  <2>4. n - p \in 0..c /\ p + (n - p) = n BY <1>1, <2>3
  <2>5. n - p = c \/ n - p \in 0..c - 1 BY <2>4
  <2> QED BY <2>1, <2>4, <2>5
<1>10. Marks(t) \subseteq Places(t) /\ Starts(t) \subseteq Places(t) /\ Places(t) \in SUBSET Nat
  BY PlaceIs DEF Places
<1>11. ASSUME NEW m \in Marks(t) PROVE ~(h <= m /\ m < i) /\ ~(i < m /\ m < h2)
  <2>1. SUFFICES ASSUME h <= m, m < h2, m # i PROVE FALSE BY <1>2, <1>3, <1>6, <1>10
  <2>2. PICK k \in 0..c - 1 : m = at[p + k] BY <1>9, <1>10, <2>1
  <2> QED BY <1>8, <2>2
<1>12. ReadTo(t, h2)
  <2>1. SUFFICES ASSUME NEW s \in Starts(t), NEW m \in Marks(t), s < h2, h2 <= m
                 PROVE  \E k \in Marks(t) : s < k /\ k < h2
    BY DEF ReadTo
  <2>2. s \in Nat /\ m \in Nat BY <1>10
  <2>3. CASE s < h
    <3>1. h <= m BY <1>2, <1>3, <1>6, <2>1, <2>2
    <3>2. PICK k \in Marks(t) : s < k /\ k < h BY <2>3, <3>1 DEF ReadTo, h
    <3>3. k \in Nat BY <1>10
    <3>4. k < h2 BY <1>2, <1>3, <1>6, <3>2, <3>3
    <3> QED BY <3>2, <3>4
  <2>4. CASE ~(s < h)
    <3>1. h <= s BY <1>2, <2>2, <2>4
    <3>2. s = i \/ \E k \in 0..c - 1 : s = at[p + k] BY <1>9, <1>10, <2>1, <3>1
    <3>3. s # i
      <4>1. t[i] \in Mark BY <1>7
      <4>2. t[s] \notin Mark BY DEF Starts, Separator
      <4> QED BY <4>1, <4>2
    <3>4. s < i BY <1>8, <3>2, <3>3
    <3> QED BY <1>6, <1>7, <3>4
  <2> QED BY <2>3, <2>4
<1> DEFINE g == [n \in 1..c |-> at[p + (n - 1)]]
<1>13. \A n \in 1..c : n - 1 \in 0..c - 1 /\ g[n] = at[p + (n - 1)] BY <1>1
<1>14. g \in [1..c -> Nat]
  <2>1. \A n \in 1..c : at[p + (n - 1)] \in Nat BY <1>8, <1>10, <1>13
  <2> QED BY <2>1
<1>15. ASSUME NEW j \in 1..c, NEW k \in 1..c, j < k PROVE g[j] < g[k]
  <2>1. p + (j - 1) \in 1..L /\ p + (k - 1) \in 1..L BY <1>8, <1>13
  <2>2. p + (j - 1) < p + (k - 1) BY <1>1, <1>15
  <2>3. at[p + (j - 1)] < at[p + (k - 1)] BY <1>4, <2>1, <2>2
  <2> QED BY <1>13, <2>3
<1> HIDE DEF g
<1>16. {g[k] : k \in 1..c} = {k \in Starts(t) : h <= k /\ k < i}
  <2>1. ASSUME NEW k \in 1..c PROVE g[k] \in Starts(t) /\ h <= g[k] /\ g[k] < i
    BY <1>8, <1>13
  <2>2. ASSUME NEW x \in Starts(t), h <= x, x < i PROVE \E k \in 1..c : g[k] = x
    <3>1. x \in Nat BY <1>10
    <3>2. x < h2 /\ x # i BY <1>3, <1>6, <2>2, <3>1
    <3>3. PICK k \in 0..c - 1 : x = at[p + k] BY <1>9, <1>10, <2>2, <3>2
    <3>4. k + 1 \in 1..c /\ (k + 1) - 1 = k BY <3>3
    <3>5. g[k + 1] = x BY <1>13, <3>3, <3>4
    <3> QED BY <3>4, <3>5
  <2> QED BY <2>1, <2>2
<1> HIDE DEF i
<1>17. StatementAt(t, i) =
         [at |-> i, mark |-> t[i], depth |-> Depth(t, h),
          words |-> [n \in 1..c |-> WordAt(t, g[n])],
          server |-> Cardinality(Opened(t, h, 0)),
          location |-> IF Depth(t, h) < 2 THEN 0 ELSE Cardinality(Inside(t, h))]
  <2>1. ReadTo(t, h) BY DEF h
  <2>2. \A m \in Marks(t) : ~(h <= m /\ m < i) BY <1>11
  <2>3. \A j, k \in 1..c : j < k => g[j] < g[k] BY <1>15
  <2>4. h \in Nat /\ i \in Marks(t) /\ h <= i BY <1>2, <1>6, <1>7
  <2> QED BY <1>14, <1>16, <2>1, <2>2, <2>3, <2>4, NextStatement, Zenon
<1>18. [n \in 1..c |-> WordAt(t, g[n])] = [n \in 1..c |-> toks[p + n - 1].word]
  <2>1. \A n \in 1..c : p + (n - 1) = p + n - 1 BY <1>1
  <2>2. \A n \in 1..c : WordAt(t, g[n]) = toks[p + n - 1].word BY <1>8, <1>13, <2>1
  <2> QED BY <2>2
<1> QED BY <1>2, <1>3, <1>6, <1>7, <1>11, <1>12, <1>17, <1>18 DEF h, h2, i, NextIs

\* What a step over the end of a line, or of the text, leaves as it was.
LEMMA TakesNone ==
  ASSUME NEW t \in Seq(STRING), NEW h \in Nat, NEW h2 \in Nat, h <= h2, ReadTo(t, h),
         \A x \in Marks(t) \cup Starts(t) : ~(h <= x /\ x < h2)
  PROVE  /\ Depth(t, h2) = Depth(t, h) /\ Opened(t, h2, 0) = Opened(t, h, 0)
         /\ Inside(t, h2) = Inside(t, h) /\ ReadTo(t, h2) /\ Seen(t, h2) = Seen(t, h)
<1>1. Marks(t) \in SUBSET Nat /\ Starts(t) \in SUBSET Nat
  <2>1. Marks(t) \in SUBSET (1..Len(t)) /\ Starts(t) \in SUBSET (1..Len(t)) /\ Len(t) \in Nat
    BY MarksAre
  <2> QED BY <2>1
<1>2. \A x \in Marks(t) \cup Starts(t) : x < h2 <=> x < h BY <1>1
<1>3. \A mark : Before(t, h2, mark) = Before(t, h, mark) BY <1>2 DEF Before
<1>4. Depth(t, h2) = Depth(t, h)
  <2>1. Before(t, h2, "{") = Before(t, h, "{") /\ Before(t, h2, "}") = Before(t, h, "}") BY <1>3
  <2> QED BY <2>1 DEF Depth
<1>5. \A d : Opened(t, h2, d) = Opened(t, h, d) BY <1>3 DEF Opened
<1>6. Inside(t, h2) = Inside(t, h)
  <2>1. Opened(t, h2, 0) = Opened(t, h, 0) /\ Opened(t, h2, 1) = Opened(t, h, 1) BY <1>5
  <2>2. ServerAt(t, h2) = ServerAt(t, h) BY <2>1 DEF ServerAt
  <2> QED BY <2>1, <2>2 DEF Inside
<1>7. Seen(t, h2) = Seen(t, h)
  <2>1. {j \in Marks(t) : j < h2} = {j \in Marks(t) : j < h} BY <1>2
  <2> QED BY <2>1 DEF Seen
<1>8. ReadTo(t, h2)
  <2>1. SUFFICES ASSUME NEW s \in Starts(t), NEW m \in Marks(t), s < h2, h2 <= m
                 PROVE  \E k \in Marks(t) : s < k /\ k < h2
    BY DEF ReadTo
  <2>2. s < h /\ h <= m BY <1>1, <1>2, <2>1
  <2>3. PICK k \in Marks(t) : s < k /\ k < h BY <2>2 DEF ReadTo
  <2>4. k < h2 BY <1>2, <2>3
  <2> QED BY <2>3, <2>4
<1> QED BY <1>4, <1>5, <1>6, <1>7, <1>8

-----------------------------------------------------------------------------
(* What the blocks keep of the statements that have been read.             *)

\* A block that has changed still shows what was said of it.
LocationGrows(l, m) ==
  m.path = l.path /\ (l.ret # NoReturn => m.ret # NoReturn) /\ (l.upload => m.upload)

\* A server, and its locations.
ServerGrows(s, r) ==
  /\ s.hasListen => r.hasListen /\ r.port = s.port /\ r.isDefault = s.isDefault
  /\ s.ret # NoReturn => r.ret # NoReturn
  /\ \A j \in DOMAIN s.locations :
       j \in DOMAIN r.locations /\ LocationGrows(s.locations[j], r.locations[j])

\* The servers of a file, of which there may be more.
Grows(list, more) ==
  \A i \in DOMAIN list : i \in DOMAIN more /\ ServerGrows(list[i], more[i])

\* A statement with that mark that begins with that name.
Says(s, mark, name) == s.mark = mark /\ s.words # <<>> /\ s.words[1] = <<name>>

\* The block that a directive stands in.
BlockOf(list, s) ==
  IF s.depth = 1 THEN list[s.server] ELSE list[s.server].locations[s.location]

\* A statement stands where it may, and the blocks show that it has been read.
Kept(list, s) ==
  /\ IsAllowed(s)
  /\ s.mark = ";" =>
       /\ s.server \in DOMAIN list
       /\ s.depth # 1 => s.depth = 2 /\ s.location \in DOMAIN list[s.server].locations
  /\ Says(s, ";", "listen") =>
       /\ list[s.server].hasListen
       /\ Len(s.words) = 3 => /\ list[s.server].isDefault
                              /\ list[s.server].port = NumeralValue[Last(s.words[2])]
  /\ Says(s, ";", "return") => BlockOf(list, s).ret # NoReturn
  /\ Says(s, ";", "upload_allowed") /\ s.words[2] = <<"on">> =>
       s.depth # 1 /\ BlockOf(list, s).upload
  /\ Says(s, "{", "location") =>
       /\ s.server \in DOMAIN list
       /\ \E j \in DOMAIN list[s.server].locations :
            list[s.server].locations[j].path = s.words[2]

\* They show it as long as they grow.
LEMMA KeptGrows ==
  ASSUME NEW list, NEW more, NEW s, Kept(list, s), Grows(list, more)
  PROVE  Kept(more, s)
<1>1. IsAllowed(s) BY DEF Kept
<1>2. ASSUME s.server \in DOMAIN list
      PROVE  s.server \in DOMAIN more /\ ServerGrows(list[s.server], more[s.server])
  BY <1>2 DEF Grows
<1>3. ASSUME s.mark = ";"
      PROVE  /\ s.server \in DOMAIN more
             /\ s.depth # 1 => s.depth = 2 /\ s.location \in DOMAIN more[s.server].locations
  BY <1>2, <1>3 DEF Kept, ServerGrows
<1>4. ASSUME Says(s, ";", "listen")
      PROVE  /\ more[s.server].hasListen
             /\ Len(s.words) = 3 => /\ more[s.server].isDefault
                                    /\ more[s.server].port = NumeralValue[Last(s.words[2])]
  <2>1. s.mark = ";" /\ s.server \in DOMAIN list /\ list[s.server].hasListen
    BY <1>4 DEF Kept, Says
  <2>2. /\ more[s.server].hasListen /\ more[s.server].port = list[s.server].port
        /\ more[s.server].isDefault = list[s.server].isDefault
    BY <1>2, <2>1 DEF ServerGrows
  <2>3. Len(s.words) = 3 => /\ list[s.server].isDefault
                            /\ list[s.server].port = NumeralValue[Last(s.words[2])]
    BY <1>4 DEF Kept
  <2> QED BY <2>2, <2>3
<1>5. ASSUME s.mark = ";"
      PROVE  /\ BlockOf(list, s).ret # NoReturn => BlockOf(more, s).ret # NoReturn
             /\ s.depth # 1 => (BlockOf(list, s).upload => BlockOf(more, s).upload)
  <2>1. s.server \in DOMAIN list /\ ServerGrows(list[s.server], more[s.server])
    BY <1>2, <1>5 DEF Kept
  <2>2. CASE s.depth = 1 BY <2>1, <2>2 DEF BlockOf, ServerGrows
  <2>3. CASE s.depth # 1
    <3>1. s.location \in DOMAIN list[s.server].locations BY <1>5, <2>3 DEF Kept
    <3>2. LocationGrows(list[s.server].locations[s.location], more[s.server].locations[s.location])
      BY <2>1, <3>1 DEF ServerGrows
    <3> QED BY <2>3, <3>2 DEF BlockOf, LocationGrows
  <2> QED BY <2>2, <2>3
<1>6. ASSUME Says(s, "{", "location")
      PROVE  /\ s.server \in DOMAIN more
             /\ \E j \in DOMAIN more[s.server].locations :
                  more[s.server].locations[j].path = s.words[2]
  <2>1. /\ s.server \in DOMAIN list
        /\ \E j \in DOMAIN list[s.server].locations :
             list[s.server].locations[j].path = s.words[2]
    BY <1>6 DEF Kept
  <2>2. PICK j \in DOMAIN list[s.server].locations :
          list[s.server].locations[j].path = s.words[2]
    BY <2>1
  <2>3. ServerGrows(list[s.server], more[s.server]) /\ s.server \in DOMAIN more BY <1>2, <2>1
  <2>4. /\ j \in DOMAIN more[s.server].locations
        /\ more[s.server].locations[j].path = list[s.server].locations[j].path
    BY <2>3 DEF ServerGrows, LocationGrows
  <2> QED BY <2>2, <2>3, <2>4
<1>7. Says(s, ";", "return") => BlockOf(more, s).ret # NoReturn
  BY <1>5 DEF Kept, Says
<1>8. Says(s, ";", "upload_allowed") /\ s.words[2] = <<"on">> =>
        s.depth # 1 /\ BlockOf(more, s).upload
  BY <1>5 DEF Kept, Says
<1> QED BY <1>1, <1>3, <1>4, <1>6, <1>7, <1>8 DEF Kept

-----------------------------------------------------------------------------
(* What may stand once.                                                    *)

\* Two statements that may not both stand.
Clash(s, o) ==
  \/ /\ Says(s, ";", "listen") /\ Says(o, ";", "listen")
     /\ \/ SameBlock(s, o)
        \/ Len(s.words) = 3 /\ Len(o.words) = 3 /\ Last(s.words[2]) = Last(o.words[2])
  \/ Says(s, ";", "return") /\ Says(o, ";", "return") /\ SameBlock(s, o)
  \/ /\ Says(s, "{", "location") /\ Says(o, "{", "location")
     /\ s.server = o.server /\ s.words[2] = o.words[2]

\* That is what the uniqueness of the statements says.
LEMMA UniqueIs == ASSUME NEW all PROVE IsUnique(all) <=> \A s, o \in all : Clash(s, o) => s = o
<1>1. \A mark, name :
        Named({s \in all : s.mark = mark}, name) = {s \in all : Says(s, mark, name)}
  BY DEF Named, Says
<1>2. Named({s \in all : s.mark = ";"}, "listen") = {s \in all : Says(s, ";", "listen")} BY <1>1
<1>3. Named({s \in all : s.mark = ";"}, "return") = {s \in all : Says(s, ";", "return")} BY <1>1
<1>4. Named({s \in all : s.mark = "{"}, "location") = {s \in all : Says(s, "{", "location")}
  BY <1>1
<1>5. IsUnique(all) <=>
        /\ \A s, o \in {l \in all : Says(l, ";", "listen")} : SameBlock(s, o) => s = o
        /\ \A s, o \in {l \in all : Says(l, ";", "return")} : SameBlock(s, o) => s = o
        /\ \A s, o \in {l \in all : Says(l, "{", "location")} :
             s.server = o.server /\ s.words[2] = o.words[2] => s = o
        /\ \A s, o \in {l \in all : Says(l, ";", "listen")} :
             Len(s.words) = 3 /\ Len(o.words) = 3 /\ Last(s.words[2]) = Last(o.words[2]) => s = o
  BY <1>2, <1>3, <1>4 DEF IsUnique
<1> QED BY <1>5, Zenon DEF Clash

\* A statement more that clashes with none.
LEMMA UniqueMore ==
  ASSUME NEW all, IsUnique(all), NEW s, \A o \in all : ~Clash(s, o)
  PROVE  IsUnique(all \cup {s})
<1>1. \A o, p : Clash(o, p) => Clash(p, o) BY DEF Clash, SameBlock
<1>2. \A o, p \in all : Clash(o, p) => o = p BY UniqueIs
<1>3. \A o, p \in all \cup {s} : Clash(o, p) => o = p BY <1>1, <1>2
<1> QED BY <1>3, UniqueIs

-----------------------------------------------------------------------------
(* The parser follows the text.                                            *)

\* The next token.
Here(at) == PlaceOf(text, tokens, at, pos)

\* The tokens are those of the text.
IsLexed(at) == Lexed(text, tokens, at, Places(text)) /\ pos \in Nat \ {0}

\* The parser is where the text is: in the same block, which is the last of its kind, after
\* the same statements, of which the blocks keep what matters.
Follows(at) ==
  /\ Depth(text, Here(at)) = Len(mode) - 1
  /\ Cardinality(Opened(text, Here(at), 0)) = Len(servers)
  /\ mode # Global => Cardinality(Inside(text, Here(at))) = Len(Server.locations)
  /\ ReadTo(text, Here(at))
  /\ \A s \in Seen(text, Here(at)) : Kept(servers, s)
  /\ IsUnique(Seen(text, Here(at)))

\* The statement of c words and a mark that the tokens from pos on are.
Taken(i, c) ==
  [at |-> i, mark |-> Type(c), depth |-> Len(mode) - 1,
   words |-> [n \in 1..c |-> Word(n - 1)],
   server |-> Len(servers),
   location |-> IF mode = InLocation THEN Len(Server.locations) ELSE 0]

\* What the mark of a statement does to the blocks.
Turns(c) ==
  \/ /\ Type(c) = "{" /\ mode = Global /\ mode' = InServer
     /\ Len(servers') = Len(servers) + 1 /\ Len(Server'.locations) = 0
  \/ /\ Type(c) = "{" /\ mode = InServer /\ mode' = InLocation
     /\ Len(servers') = Len(servers) /\ Len(Server'.locations) = Len(Server.locations) + 1
  \/ /\ Type(c) = "}" /\ mode # Global /\ mode' = Front(mode) /\ servers' = servers
  \/ /\ Type(c) = ";" /\ mode # Global /\ mode' = mode
     /\ Len(servers') = Len(servers) /\ Len(Server'.locations) = Len(Server.locations)

\* The mode stack by its depth.
LEMMA Depths ==
  /\ Len(Global) = 1 /\ Len(InServer) = 2 /\ Len(InLocation) = 3
  /\ Global # InServer /\ Global # InLocation /\ InServer # InLocation
<1> DEFINE S == {"global", "server", "location"}
<1>1. Global \in Seq(S) /\ Len(Global) = 1 BY DEF Global
<1>2. ASSUME NEW s \in Seq(S), NEW e \in S, NEW n \in Nat, Len(s) = n
      PROVE  Len(Append(s, e)) = n + 1 /\ Append(s, e) \in Seq(S)
  BY <1>2, AppendProperties
<1>3. "server" \in S /\ "location" \in S /\ 1 \in Nat /\ 2 \in Nat /\ 1 + 1 = 2 /\ 2 + 1 = 3
  OBVIOUS
<1> HIDE DEF S
<1>4. InServer \in Seq(S) /\ Len(InServer) = 1 + 1 BY <1>1, <1>2, <1>3, Zenon DEF InServer
<1>5. Len(InServer) = 2 BY <1>3, <1>4, Zenon
<1>6. Len(InLocation) = 2 + 1 BY <1>2, <1>3, <1>4, <1>5, Zenon DEF InLocation
<1>7. Len(InLocation) = 3 BY <1>3, <1>6, Zenon
<1>8. 1 # 2 /\ 1 # 3 /\ 2 # 3 OBVIOUS
<1> QED BY <1>1, <1>5, <1>7, <1>8, Zenon

\* A token of a type.
LEMMA TypeIs ==
  ASSUME tokens \in Seq(Token), NEW k, Type(k) # "end"
  PROVE  pos + k \in 1..Len(tokens) /\ Type(k) = tokens[pos + k].type
<1>1. DOMAIN tokens = 1..Len(tokens) BY LenProperties
<1> QED BY <1>1 DEF Type

\* A step that takes a statement follows the text if the blocks grow, and keep what matters
\* of it.
LEMMA FollowsOn ==
  ASSUME PlaceInv, ModeInv, text \in Seq(STRING), NEW at, IsLexed(at), Follows(at),
         NEW c \in Nat, \A k \in 0..c - 1 : Type(k) = "word", Type(c) \in Mark,
         pos' = pos + c + 1, UNCHANGED <<text, tokens>>, Turns(c), Grows(servers, servers'),
         \A i \in Nat : /\ Kept(servers', Taken(i, c))
                        /\ \A o \in Seen(text, Here(at)) :
                             Kept(servers, o) => ~Clash(Taken(i, c), o)
  PROVE  IsLexed(at)' /\ Follows(at)'
<1> DEFINE i  == at[pos + c]
           h  == Here(at)
           h2 == PlaceOf(text, tokens, at, pos + c + 1)
<1>1. tokens \in Seq(Token) /\ pos \in Nat \ {0} BY DEF PlaceInv, IsLexed
<1>2. pos + c \in 1..Len(tokens) /\ tokens[pos + c].type = Type(c)
  <2>1. Type(c) # "end" BY DEF Mark
  <2> QED BY <1>1, <2>1, TypeIs
<1>3. \A k \in 0..c - 1 : tokens[pos + k].type = "word"
  <2>1. "word" # "end" OBVIOUS
  <2> QED BY <1>1, <2>1, TypeIs
<1>4. /\ i \in Marks(text) /\ h \in Nat /\ h <= i /\ h2 \in Nat /\ i < h2
      /\ text[i] = tokens[pos + c].type
      /\ \A m \in Marks(text) : ~(h <= m /\ m < i) /\ ~(i < m /\ m < h2)
      /\ ReadTo(text, h2)
      /\ StatementAt(text, i) =
           [at |-> i, mark |-> tokens[pos + c].type, depth |-> Depth(text, h),
            words |-> [n \in 1..c |-> tokens[pos + n - 1].word],
            server |-> Cardinality(Opened(text, h, 0)),
            location |-> IF Depth(text, h) < 2 THEN 0 ELSE Cardinality(Inside(text, h))]
  <2>1. Lexed(text, tokens, at, Places(text)) BY DEF IsLexed
  <2>2. ReadTo(text, PlaceOf(text, tokens, at, pos)) BY DEF Follows, Here
  <2>3. tokens[pos + c].type \in Mark BY <1>2
  <2>4. h = PlaceOf(text, tokens, at, pos) BY DEF Here
  <2>5. tokens \in Seq(Token) /\ pos \in Nat \ {0} /\ pos + c \in 1..Len(tokens) BY <1>1, <1>2
  <2> HIDE DEF h, h2, i
  <2>6. NextIs(text, tokens, at, pos, c)
    BY <1>3, <2>1, <2>2, <2>3, <2>5, TakesStatement
  <2> QED BY <2>4, <2>6 DEF i, h2, NextIs
<1>5. i \in Nat
  <2>1. Marks(text) \in SUBSET (1..Len(text)) BY MarksAre
  <2> QED BY <1>4, <2>1
<1> HIDE DEF i, h, h2
<1>6. /\ Depth(text, h) = Len(mode) - 1
      /\ Cardinality(Opened(text, h, 0)) = Len(servers)
      /\ mode # Global => Cardinality(Inside(text, h)) = Len(Server.locations)
  BY DEF Follows, h
<1>7. mode \in {Global, InServer, InLocation} BY DEF ModeInv
<1>8. StatementAt(text, i) = Taken(i, c)
  <2>1. (IF Depth(text, h) < 2 THEN 0 ELSE Cardinality(Inside(text, h)))
          = (IF mode = InLocation THEN Len(Server.locations) ELSE 0)
    <3>1. CASE mode = Global
      <4>1. Depth(text, h) = 0 /\ mode # InLocation BY <1>6, <3>1, Depths
      <4>2. Depth(text, h) < 2 BY <4>1
      <4> QED BY <4>1, <4>2
    <3>2. CASE mode = InServer
      <4>1. Depth(text, h) = 1 /\ mode # InLocation BY <1>6, <3>2, Depths
      <4>2. Depth(text, h) < 2 BY <4>1
      <4> QED BY <4>1, <4>2
    <3>3. CASE mode = InLocation
      <4>1. Depth(text, h) = 2 /\ mode # Global BY <1>6, <3>3, Depths
      <4>2. ~(Depth(text, h) < 2) BY <4>1
      <4> QED BY <1>6, <3>3, <4>1, <4>2
    <3> QED BY <1>7, <3>1, <3>2, <3>3
  <2>2. [n \in 1..c |-> tokens[pos + n - 1].word] = [n \in 1..c |-> Word(n - 1)]
    <3>1. \A n \in 1..c : pos + n - 1 = pos + (n - 1) BY <1>1
    <3> QED BY <3>1 DEF Word
  <2> QED BY <1>2, <1>4, <1>6, <2>1, <2>2 DEF Taken
<1>9. /\ text[i] = "{" => Depth(text, h2) = Depth(text, h) + 1
      /\ text[i] = "}" => Depth(text, h2) = Depth(text, h) - 1
      /\ text[i] = ";" => Depth(text, h2) = Depth(text, h)
      /\ \A d : /\ text[i] = "{" /\ Depth(text, h) = d =>
                     Cardinality(Opened(text, h2, d)) = Cardinality(Opened(text, h, d)) + 1
                /\ ~(text[i] = "{" /\ Depth(text, h) = d) =>
                     Opened(text, h2, d) = Opened(text, h, d)
      /\ text[i] = "{" /\ Depth(text, h) = 0 => Inside(text, h2) = {}
      /\ text[i] = "{" /\ Depth(text, h) = 1 =>
           Cardinality(Inside(text, h2)) = Cardinality(Inside(text, h)) + 1
      /\ text[i] # "{" => Inside(text, h2) = Inside(text, h)
      /\ \A m \in Marks(text) : m < h2 <=> m < h \/ m = i
  BY <1>4, AfterStatement
<1>10. text[i] = Type(c) BY <1>2, <1>4
<1>11. Seen(text, h2) = Seen(text, h) \cup {Taken(i, c)}
  <2>1. {j \in Marks(text) : j < h2} = {j \in Marks(text) : j < h} \cup {i} BY <1>4, <1>9
  <2> QED BY <1>8, <2>1 DEF Seen
<1>12. Here(at)' = h2
  BY DEF Here, h2
<1>13. /\ Depth(text, h2) = Len(mode') - 1
       /\ Cardinality(Opened(text, h2, 0)) = Len(servers')
       /\ mode' # Global => Cardinality(Inside(text, h2)) = Len(Server'.locations)
  <2>1. CASE /\ Type(c) = "{" /\ mode = Global /\ mode' = InServer
             /\ Len(servers') = Len(servers) + 1 /\ Len(Server'.locations) = 0
    <3>0. Len(mode) = 1 /\ Len(mode') - 1 = 1 /\ text[i] = "{"
      <4>1. Len(mode) = 1 /\ Len(mode') = 2 /\ text[i] = "{" BY <1>10, <2>1, Depths, Zenon
      <4>2. 2 - 1 = 1 OBVIOUS
      <4> QED BY <4>1, <4>2, Zenon
    <3>1. text[i] = "{" /\ Depth(text, h) = 0
      <4>1. 1 - 1 = 0 OBVIOUS
      <4> QED BY <1>6, <3>0, <4>1, Zenon
    <3>2. Depth(text, h2) = 1
      <4>1. 0 + 1 = 1 OBVIOUS
      <4> QED BY <1>9, <3>1, <4>1, Zenon
    <3>3. Cardinality(Opened(text, h2, 0)) = Len(servers') BY <1>6, <1>9, <2>1, <3>1
    <3>4. Cardinality(Inside(text, h2)) = 0 BY <1>9, <3>1, FS_EmptySet
    <3> QED BY <2>1, <3>0, <3>2, <3>3, <3>4, Zenon
  <2>2. CASE /\ Type(c) = "{" /\ mode = InServer /\ mode' = InLocation
             /\ Len(servers') = Len(servers)
             /\ Len(Server'.locations) = Len(Server.locations) + 1
    <3>0. Len(mode) = 2 /\ Len(mode') - 1 = 2 /\ text[i] = "{"
      <4>1. Len(mode) = 2 /\ Len(mode') = 3 /\ text[i] = "{" BY <1>10, <2>2, Depths, Zenon
      <4>2. 3 - 1 = 2 OBVIOUS
      <4> QED BY <4>1, <4>2, Zenon
    <3>1. text[i] = "{" /\ Depth(text, h) = 1
      <4>1. 2 - 1 = 1 OBVIOUS
      <4> QED BY <1>6, <3>0, <4>1, Zenon
    <3>2. Depth(text, h2) = 2
      <4>1. 1 + 1 = 2 OBVIOUS
      <4> QED BY <1>9, <3>1, <4>1, Zenon
    <3>3. Cardinality(Opened(text, h2, 0)) = Len(servers')
      <4>1. Depth(text, h) # 0
        <5>1. 0 # 1 OBVIOUS
        <5> QED BY <3>1, <5>1, Zenon
      <4> QED BY <1>6, <1>9, <2>2, <4>1
    <3>4. Cardinality(Inside(text, h2)) = Len(Server'.locations) BY <1>6, <1>9, <2>2, <3>1, Depths
    <3> QED BY <2>2, <3>0, <3>2, <3>3, <3>4, Zenon
  <2>3. CASE /\ Type(c) = "}" /\ mode # Global /\ mode' = Front(mode) /\ servers' = servers
    <3>1. text[i] = "}" /\ text[i] # "{" BY <1>10, <2>3
    <3>2. Depth(text, h2) = Len(mode) - 1 - 1 BY <1>6, <1>9, <3>1
    <3>3. Len(mode') = Len(mode) - 1
      <4>1. \/ Len(mode) = 2 /\ Len(mode') = 1
            \/ Len(mode) = 3 /\ Len(mode') = 2
        BY <1>7, <2>3, Depths, Modes, Zenon
      <4>2. 2 - 1 = 1 /\ 3 - 1 = 2 OBVIOUS
      <4> QED BY <4>1, <4>2, Zenon
    <3>4. Cardinality(Opened(text, h2, 0)) = Len(servers') BY <1>6, <1>9, <2>3, <3>1
    <3>5. Server' = Server BY <2>3 DEF Server, Last
    <3>6. Cardinality(Inside(text, h2)) = Len(Server'.locations) BY <1>6, <1>9, <2>3, <3>1, <3>5
    <3> QED BY <3>2, <3>3, <3>4, <3>6
  <2>4. CASE /\ Type(c) = ";" /\ mode # Global /\ mode' = mode
             /\ Len(servers') = Len(servers) /\ Len(Server'.locations) = Len(Server.locations)
    <3>1. text[i] = ";" /\ text[i] # "{" BY <1>10, <2>4
    <3> QED BY <1>6, <1>9, <2>4, <3>1
  <2> QED BY <2>1, <2>2, <2>3, <2>4 DEF Turns
<1>14. \A s \in Seen(text, h2) : Kept(servers', s)
  <2>1. ASSUME NEW s \in Seen(text, h) PROVE Kept(servers', s)
    <3>1. Kept(servers, s) BY DEF Follows, h
    <3> QED BY <3>1, KeptGrows
  <2> QED BY <1>5, <1>11, <2>1
<1>15. IsUnique(Seen(text, h2))
  <2>1. \A o \in Seen(text, h) : Kept(servers, o) BY DEF Follows, h
  <2>2. \A o \in Seen(text, h) : ~Clash(Taken(i, c), o) BY <1>5, <2>1 DEF h
  <2>3. IsUnique(Seen(text, h)) BY DEF Follows, h
  <2> QED BY <1>11, <2>2, <2>3, UniqueMore
<1>16. pos' \in Nat \ {0} BY <1>1
<1>17. IsLexed(at)' BY <1>16 DEF IsLexed
<1>18. /\ text' = text
       /\ Depth(text, h2) = Len(mode') - 1
       /\ Cardinality(Opened(text, h2, 0)) = Len(servers')
       /\ mode' # Global => Cardinality(Inside(text, h2)) = Len(Server'.locations)
       /\ ReadTo(text, h2)
       /\ \A s \in Seen(text, h2) : Kept(servers', s)
       /\ IsUnique(Seen(text, h2))
  BY <1>4, <1>13, <1>14, <1>15
<1>19. Follows(at)' BY <1>12, <1>18 DEF Follows
<1> QED BY <1>17, <1>19

-----------------------------------------------------------------------------
(* Steps that follow the text.                                             *)

\* The last server is replaced by one that has grown.
LEMMA SetServerGrows ==
  ASSUME ServersInv, servers # <<>>, NEW s, ServerGrows(Server, s), SetServer(s)
  PROVE  /\ Grows(servers, servers') /\ Len(servers') = Len(servers)
         /\ Server' = s /\ Len(servers) \in DOMAIN servers'
         /\ servers'[Len(servers)] = s /\ Server = servers[Len(servers)]
<1> DEFINE n == Len(servers)
<1>1. n \in DOMAIN servers BY SeqIsFunction DEF ServersInv
<1>2. /\ DOMAIN servers' = DOMAIN servers /\ Len(servers') = n
      /\ \A j \in DOMAIN servers : servers'[j] = IF j = n THEN s ELSE servers[j]
  BY <1>1, ReplaceIsSeq DEF SetServer, ServersInv
<1>3. Server = servers[n] /\ Server' = servers'[n] BY <1>2 DEF Server, Last
<1>4. \A i \in DOMAIN servers : ServerGrows(servers[i], servers[i])
  BY DEF ServerGrows, LocationGrows
<1>5. \A i \in DOMAIN servers : ServerGrows(servers[i], servers'[i])
  BY <1>1, <1>2, <1>3, <1>4
<1> QED BY <1>1, <1>2, <1>3, <1>5 DEF Grows

\* A block that has grown takes the place of the one that is open.
BlockGrows(b) ==
  IF mode = InLocation THEN LocationGrows(Location, b)
  ELSE ServerGrows(Server, b) /\ b.locations = Server.locations

\* So the servers grow, and the block that is open is the new one.
LEMMA SetBlockGrows ==
  ASSUME IInv, mode # Global, NEW b, BlockGrows(b), SetBlock(b)
  PROVE  /\ Grows(servers, servers') /\ Len(servers') = Len(servers)
         /\ Len(Server'.locations) = Len(Server.locations)
         /\ Len(servers) \in DOMAIN servers'
         /\ mode = InServer => /\ servers'[Len(servers)] = b /\ Block = Server
                               /\ Server = servers[Len(servers)]
         /\ mode = InLocation =>
              /\ Len(Server.locations) \in DOMAIN servers'[Len(servers)].locations
              /\ servers'[Len(servers)].locations[Len(Server.locations)] = b
              /\ Server = servers[Len(servers)]
              /\ Location = Server.locations[Len(Server.locations)] /\ Block = Location
<1>1. mode \in {InServer, InLocation} /\ ServersInv BY DEF IInv, ModeInv
<1>2. Last(mode) # "global" /\ (Last(mode) = "location" <=> mode = InLocation)
  BY <1>1, Modes
<1>3. servers # <<>> /\ ServerInv(Server) BY <1>2, LastBlocks
<1>4. CASE mode = InServer
  <2>1. mode # InLocation /\ Last(mode) # "location" BY <1>2, <1>4, Depths
  <2>2. SetServer(b) /\ ServerGrows(Server, b) /\ b.locations = Server.locations
    BY <2>1 DEF SetBlock, BlockGrows
  <2>3. /\ Grows(servers, servers') /\ Len(servers') = Len(servers)
        /\ Server' = b /\ Len(servers) \in DOMAIN servers'
        /\ servers'[Len(servers)] = b /\ Server = servers[Len(servers)]
    BY <1>1, <1>3, <2>2, SetServerGrows
  <2> QED BY <1>4, <2>1, <2>2, <2>3 DEF Block
<1>5. CASE mode = InLocation
  <2> DEFINE n == Len(Server.locations)
             s == [Server EXCEPT !.locations[n] = b]
  <2>1. /\ n \in DOMAIN Server.locations /\ Location = Server.locations[n]
        /\ IsSeq(Server.locations) /\ LocationGrows(Location, b)
    BY <1>2, <1>3, <1>5, LastBlocks DEF ServerInv, BlockGrows
  <2>2. /\ s.locations = [Server.locations EXCEPT ![n] = b] /\ s.hasListen = Server.hasListen
        /\ s.port = Server.port /\ s.isDefault = Server.isDefault /\ s.ret = Server.ret
    BY <1>3 DEF ServerInv, ServerFields
  <2>3. /\ DOMAIN s.locations = DOMAIN Server.locations /\ Len(s.locations) = n
        /\ \A j \in DOMAIN s.locations :
             s.locations[j] = IF j = n THEN b ELSE Server.locations[j]
    BY <2>1, <2>2, ReplaceIsSeq
  <2>4. \A j \in DOMAIN Server.locations :
          LocationGrows(Server.locations[j], Server.locations[j])
    BY DEF LocationGrows
  <2>5. \A j \in DOMAIN Server.locations :
          LocationGrows(Server.locations[j], s.locations[j])
    BY <2>1, <2>3, <2>4
  <2>6. ServerGrows(Server, s) BY <2>2, <2>3, <2>5 DEF ServerGrows
  <2>7. SetServer(s) BY <1>2, <1>5 DEF SetBlock, SetLocation
  <2>8. Block = Location BY <1>2, <1>5 DEF Block
  <2> HIDE DEF s
  <2>9. /\ Grows(servers, servers') /\ Len(servers') = Len(servers)
        /\ Server' = s /\ Len(servers) \in DOMAIN servers'
        /\ servers'[Len(servers)] = s /\ Server = servers[Len(servers)]
    BY <1>1, <1>3, <2>6, <2>7, SetServerGrows
  <2>10. n \in DOMAIN s.locations /\ s.locations[n] = b BY <2>1, <2>3
  <2>11. mode # InServer BY <1>5, Depths
  <2> QED BY <2>1, <2>3, <2>8, <2>9, <2>10, <2>11
<1> QED BY <1>1, <1>4, <1>5

\* The parser follows the text, and is not at its end.
Reading(at) ==
  /\ PlaceInv /\ IInv /\ text \in Seq(STRING) /\ IsLexed(at) /\ Follows(at)

\* The words of a statement.
LEMMA TakenIs ==
  ASSUME NEW c \in Nat, NEW i, NEW s, s = Taken(i, c)
  PROVE  /\ Len(s.words) = c /\ (c = 0 => s.words = <<>>) /\ (c > 0 => s.words # <<>>)
         /\ \A n \in 1..c : s.words[n] = Word(n - 1)
         /\ s.at = i /\ s.mark = Type(c) /\ s.depth = Len(mode) - 1 /\ s.server = Len(servers)
         /\ s.location = IF mode = InLocation THEN Len(Server.locations) ELSE 0
<1> DEFINE w == [n \in 1..c |-> Word(n - 1)]
           S == {Word(n - 1) : n \in 1..c}
<1>1. w \in Seq(S) /\ Len(w) = c
  <2>1. \A n \in 1..c : Word(n - 1) \in S OBVIOUS
  <2> HIDE DEF S
  <2> QED BY <2>1
<1>2. c = 0 => w = <<>> BY <1>1, EmptySeq
<1>3. c > 0 => w # <<>> BY <1>1, EmptySeq
<1>4. \A n \in 1..c : w[n] = Word(n - 1) OBVIOUS
<1> HIDE DEF w
<1>5. Taken(i, c) =
        [at |-> i, mark |-> Type(c), depth |-> Len(mode) - 1, words |-> w,
         server |-> Len(servers),
         location |-> IF mode = InLocation THEN Len(Server.locations) ELSE 0]
  BY DEF Taken, w
<1> QED BY <1>1, <1>2, <1>3, <1>4, <1>5

\* Some numbers.
LEMMA Numbers == /\ 0 # 1 /\ 1 # 2 /\ 1 > 0 /\ 2 > 0 /\ 2 > 1 /\ 3 > 1
                 /\ 1 - 1 = 0 /\ 2 - 1 = 1 /\ 3 - 1 = 2
OBVIOUS

\* How deep the blocks of a mode are.
LEMMA DepthIs ==
  /\ mode = Global => Len(mode) - 1 = 0
  /\ mode = InServer => Len(mode) - 1 = 1 /\ mode # InLocation
  /\ mode = InLocation => Len(mode) - 1 = 2
BY Depths, Numbers, Zenon

\* A directive of c words is followed if the block grows and shows what has to be kept.
LEMMA DirectiveFollows ==
  ASSUME NEW at, Reading(at), phase = "parsing", mode # Global,
         NEW name \in Either \cup (IF mode = InServer THEN ServerOnly ELSE LocationOnly),
         NEW c \in Nat, c >= 1, Word(0) = <<name>>, \A k \in 0..c - 1 : Type(k) = "word",
         Type(c) = ";", Advance(c), mode' = mode,
         NEW b, SetBlock(b), BlockGrows(b),
         name = "listen" =>
           /\ ~Server.hasListen /\ b.hasListen
           /\ c = 3 => /\ b.isDefault /\ b.port = NumeralValue[Last(Word(1))]
                       /\ OneDefault(b.port),
         name = "return" => Block.ret = NoReturn /\ b.ret # NoReturn,
         name = "upload_allowed" => c = 2 /\ (Word(1) = <<"on">> => b.upload)
  PROVE  IsLexed(at)' /\ Follows(at)'
<1>1. mode \in {InServer, InLocation} BY DEF Reading, IInv, ModeInv
<1>2. /\ Grows(servers, servers') /\ Len(servers') = Len(servers)
      /\ Len(Server'.locations) = Len(Server.locations)
      /\ Len(servers) \in DOMAIN servers'
      /\ mode = InServer => /\ servers'[Len(servers)] = b /\ Block = Server
                            /\ Server = servers[Len(servers)]
      /\ mode = InLocation =>
           /\ Len(Server.locations) \in DOMAIN servers'[Len(servers)].locations
           /\ servers'[Len(servers)].locations[Len(Server.locations)] = b
           /\ Server = servers[Len(servers)]
           /\ Location = Server.locations[Len(Server.locations)] /\ Block = Location
  BY SetBlockGrows DEF Reading
<1>3. Turns(c) BY <1>2 DEF Turns
<1>4. ASSUME NEW i \in Nat
      PROVE  /\ Kept(servers', Taken(i, c))
             /\ \A o \in Seen(text, Here(at)) : Kept(servers, o) => ~Clash(Taken(i, c), o)
  <2> DEFINE s == Taken(i, c)
  <2>1. /\ Len(s.words) = c /\ s.words # <<>> /\ s.words[1] = <<name>>
        /\ c > 1 => s.words[2] = Word(1)
        /\ s.mark = ";" /\ s.depth = Len(mode) - 1 /\ s.server = Len(servers)
        /\ s.location = IF mode = InLocation THEN Len(Server.locations) ELSE 0
    <3>1. /\ Len(s.words) = c /\ (c > 0 => s.words # <<>>)
          /\ \A n \in 1..c : s.words[n] = Word(n - 1)
          /\ s.mark = Type(c) /\ s.depth = Len(mode) - 1 /\ s.server = Len(servers)
          /\ s.location = IF mode = InLocation THEN Len(Server.locations) ELSE 0
      <4>1. s = Taken(i, c) /\ c \in Nat OBVIOUS
      <4> HIDE DEF s
      <4> QED BY ONLY <4>1, TakenIs
    <3>2. 1 \in 1..c /\ c > 0 /\ (c > 1 => 2 \in 1..c) /\ 1 - 1 = 0 /\ 2 - 1 = 1
      <4>1. c \in Nat /\ c >= 1 OBVIOUS
      <4> QED BY ONLY <4>1
    <3> HIDE DEF s
    <3> QED BY <3>1, <3>2
  <2> HIDE DEF s
  <2>2. /\ mode = InServer => s.depth = 1
        /\ mode = InLocation => s.depth = 2 /\ s.location = Len(Server.locations)
    BY <2>1, DepthIs, Zenon
  <2>3. \A other : Says(s, ";", other) <=> name = other
    <3>1. \A other : <<name>> = <<other>> <=> name = other OBVIOUS
    <3> QED BY <2>1, <3>1, Zenon DEF Says
  <2>4. \A other : ~Says(s, "{", other) BY <2>1 DEF Says
  <2>5. IsAllowed(s)
    <3>1. s.depth > 0 /\ (s.depth = 1 <=> mode = InServer)
      BY <1>1, <2>2, Numbers, Zenon
    <3> QED BY <2>1, <3>1 DEF IsAllowed
  <2>6. BlockOf(servers', s) = b
    <3>2. s.server = Len(servers) BY <2>1
    <3> QED BY <1>1, <1>2, <2>2, <3>2, Numbers, Zenon DEF BlockOf
  <2>7. s.server \in DOMAIN servers'
        /\ (s.depth # 1 => s.depth = 2 /\ s.location \in DOMAIN servers'[s.server].locations)
    BY <1>1, <1>2, <2>1, <2>2
  <2>8. ASSUME name = "listen"
        PROVE  /\ mode = InServer /\ s.depth = 1
               /\ servers'[s.server].hasListen
               /\ Len(s.words) = 3 => /\ servers'[s.server].isDefault
                                      /\ servers'[s.server].port = NumeralValue[Last(s.words[2])]
    <3>1. mode = InServer BY <1>1, <2>8 DEF Either, LocationOnly
    <3>2. servers'[s.server] = b BY <1>2, <2>1, <3>1
    <3>3. Len(s.words) = 3 => c = 3 /\ s.words[2] = Word(1) BY <2>1, Numbers, Zenon
    <3>4. b.hasListen /\ (c = 3 => b.isDefault /\ b.port = NumeralValue[Last(Word(1))])
      BY <2>8
    <3>5. s.depth = 1 BY <2>2, <3>1
    <3> QED BY <3>1, <3>2, <3>3, <3>4, <3>5, Zenon
  <2>9. ASSUME name = "upload_allowed", s.words[2] = <<"on">>
        PROVE  s.depth # 1 /\ BlockOf(servers', s).upload
    <3>1. mode = InLocation BY <1>1, <2>9 DEF Either, ServerOnly
    <3>2. c = 2 /\ (Word(1) = <<"on">> => b.upload) BY <2>9
    <3>3. s.words[2] = Word(1) BY <2>1, <3>2, Numbers, Zenon
    <3>4. b.upload BY <2>9, <3>2, <3>3, Zenon
    <3> QED BY <2>2, <2>6, <3>1, <3>4, Numbers, Zenon
  <2>10. Kept(servers', s)
    BY <2>3, <2>4, <2>5, <2>6, <2>7, <2>8, <2>9 DEF Kept
  <2>11. ASSUME NEW o, Kept(servers, o), Clash(s, o) PROVE FALSE
    <3>1. CASE name = "listen"
      <4>1. Says(o, ";", "listen")
            /\ \/ SameBlock(s, o)
               \/ Len(s.words) = 3 /\ Len(o.words) = 3 /\ Last(s.words[2]) = Last(o.words[2])
        BY <2>3, <2>4, <2>11, <3>1 DEF Clash
      <4>2. /\ servers[o.server].hasListen /\ o.server \in DOMAIN servers
            /\ Len(o.words) = 3 => /\ servers[o.server].isDefault
                                   /\ servers[o.server].port = NumeralValue[Last(o.words[2])]
        BY <2>11, <4>1 DEF Kept, Says
      <4>3. o.server # s.server BY <1>2, <2>1, <2>8, <3>1, <4>2
      <4>4. Len(s.words) = 3 /\ Len(o.words) = 3 /\ Last(s.words[2]) = Last(o.words[2])
        BY <4>1, <4>3 DEF SameBlock
      <4>5. OneDefault(b.port) /\ b.port = NumeralValue[Last(s.words[2])]
        <5>1. c = 3 /\ s.words[2] = Word(1) BY <2>1, <4>4, Numbers, Zenon
        <5>2. OneDefault(b.port) /\ b.port = NumeralValue[Last(Word(1))] BY <3>1, <5>1, Zenon
        <5> QED BY <5>1, <5>2, Zenon
      <4> QED BY <4>2, <4>4, <4>5 DEF OneDefault
    <3>2. CASE name = "return"
      <4>1. Says(o, ";", "return") /\ SameBlock(s, o)
        <5>1. "return" # "listen" OBVIOUS
        <5> QED BY <2>3, <2>4, <2>11, <3>2, <5>1, Zenon DEF Clash
      <4>2. BlockOf(servers, o).ret # NoReturn BY <2>11, <4>1 DEF Kept
      <4>3. BlockOf(servers, o) = Block
        <5>2. o.server = Len(servers) /\ o.depth = s.depth /\ o.location = s.location
          BY <2>1, <4>1 DEF SameBlock
        <5> QED BY <1>1, <1>2, <2>2, <5>2, Numbers, Zenon DEF BlockOf
      <4> QED BY <3>2, <4>2, <4>3
    <3> QED BY <2>3, <2>4, <2>11, <3>1, <3>2 DEF Clash
  <2> QED BY <2>10, <2>11 DEF s
<1>5. pos' = pos + c + 1 /\ UNCHANGED <<text, tokens>> BY DEF Advance
<1>6. Type(c) \in Mark BY DEF Mark
<1> QED BY <1>2, <1>3, <1>4, <1>5, <1>6, FollowsOn DEF Reading, IInv

\* The words of a directive that ends, and of one with a list.
LEMMA Ended ==
  ASSUME tokens \in Seq(Token), pos \in Nat, At("word")
  PROVE  /\ \A n \in Nat : Ends(n) => /\ \A k \in 0..(n + 1) - 1 : Type(k) = "word"
                                      /\ Type(n + 1) = ";" /\ n + 1 \in Nat /\ n + 1 >= 1
         /\ List => Count \in Nat /\ Ends(Count)
<1>1. Type(0) = "word" BY DEF At
<1>2. ASSUME NEW n \in Nat, Ends(n)
      PROVE  /\ \A k \in 0..(n + 1) - 1 : Type(k) = "word"
             /\ Type(n + 1) = ";" /\ n + 1 \in Nat /\ n + 1 >= 1
  <2>1. \A k \in 1..n : Type(k) = "word" BY <1>2 DEF Ends, Words
  <2>2. \A k \in 0..(n + 1) - 1 : k = 0 \/ k \in 1..n OBVIOUS
  <2>3. n + 1 \in Nat /\ n + 1 >= 1 OBVIOUS
  <2>4. Type(n + 1) = ";" BY <1>2 DEF Ends
  <2>5. \A k \in 0..(n + 1) - 1 : Type(k) = "word" BY <1>1, <2>1, <2>2, Zenon
  <2> QED BY <2>3, <2>4, <2>5
<1>3. Count \in Nat /\ Words(Count) BY CountIs
<1> QED BY <1>2, <1>3 DEF List, Ends

\* A block that has changed elsewhere.
Untouched(b) ==
  \A f \in DOMAIN Block \cap {"path", "ret", "upload", "hasListen", "port", "isDefault",
                              "locations"} :
    b[f] = Block[f]

\* It has grown.
LEMMA UntouchedGrows ==
  ASSUME IInv, mode # Global, NEW b, Untouched(b)
  PROVE  BlockGrows(b)
<1>1. mode \in {InServer, InLocation} BY DEF IInv, ModeInv
<1>2. Last(mode) # "global" /\ (Last(mode) = "location" <=> mode = InLocation)
  BY <1>1, Modes
<1>3. CASE mode = InLocation
  <2>1. Block = Location /\ LocationInv(Location) BY <1>2, <1>3, LastBlocks DEF Block
  <2>2. b.path = Location.path /\ b.ret = Location.ret /\ b.upload = Location.upload
    BY <2>1 DEF Untouched, LocationInv, LocationFields
  <2> QED BY <1>3, <2>2 DEF BlockGrows, LocationGrows
<1>4. CASE mode # InLocation
  <2>1. Block = Server /\ ServerInv(Server) BY <1>2, <1>4, LastBlocks DEF Block
  <2>2. /\ b.hasListen = Server.hasListen /\ b.port = Server.port /\ b.ret = Server.ret
        /\ b.isDefault = Server.isDefault /\ b.locations = Server.locations
    BY <2>1 DEF Untouched, ServerInv, ServerFields
  <2> QED BY <1>4, <2>2 DEF BlockGrows, ServerGrows, LocationGrows
<1> QED BY <1>3, <1>4

\* A directive that says nothing that has to be kept.
LEMMA PlainFollows ==
  ASSUME NEW at, Reading(at), mode # Global,
         NEW name \in Either \cup (IF mode = InServer THEN ServerOnly ELSE LocationOnly),
         name \notin {"listen", "return", "upload_allowed"},
         NEW n \in Nat, Reads(name), Ends(n), Advance(n + 1), mode' = mode,
         NEW b, SetBlock(b), Untouched(b)
  PROVE  IsLexed(at)' /\ Follows(at)'
<1> DEFINE c == n + 1
<1>1. tokens \in Seq(Token) /\ pos \in Nat /\ IInv BY DEF Reading, PlaceInv
<1>2. phase = "parsing" /\ Word(0) = <<name>> /\ At("word") BY DEF Reads, At
<1>3. c \in Nat /\ c >= 1 /\ (\A k \in 0..c - 1 : Type(k) = "word") /\ Type(c) = ";"
  BY <1>1, <1>2, Ended
<1>4. BlockGrows(b) BY <1>1, UntouchedGrows
<1>5. Advance(c) OBVIOUS
<1> HIDE DEF c
<1> QED BY <1>2, <1>3, <1>4, <1>5, DirectiveFollows

\* The directives both kinds of block have.
LEMMA CommonFollows ==
  ASSUME NEW at, Reading(at), CommonDirective, ~Refuse
  PROVE  IsLexed(at)' /\ Follows(at)'
<1>1. tokens \in Seq(Token) /\ pos \in Nat /\ IInv BY DEF Reading, PlaceInv
<1>2. Last(mode) \in InBlock => mode # Global BY Modes DEF InBlock
<1>3. ASSUME NEW name \in Either \ {"return"}, NEW n \in Nat, Reads(name), Ends(n), Advance(n + 1),
             mode' = mode, Last(mode) \in InBlock, NEW b, SetBlock(b), Untouched(b)
      PROVE  IsLexed(at)' /\ Follows(at)'
  <2>1. name \notin {"listen", "upload_allowed"} BY DEF Either
  <2> QED BY <1>2, <1>3, <2>1, PlainFollows
<1>4. At("word") => (List => Count \in Nat /\ Ends(Count)) BY <1>1, Ended
<1>5. 1 + 1 = 2 /\ 2 + 1 = 3 /\ 1 \in Nat /\ 2 \in Nat OBVIOUS
<1>6. CASE RootDirective
  <2>1. Untouched([Block EXCEPT !.root = Word(1)]) BY DEF Untouched
  <2>2. /\ Reads("root") /\ Last(mode) \in InBlock /\ Ends(1) /\ Advance(2) /\ mode' = mode
        /\ SetBlock([Block EXCEPT !.root = Word(1)])
    BY <1>6 DEF RootDirective, Directive
  <2>3. "root" \in Either \ {"return"} BY DEF Either
  <2> QED BY <1>3, <1>5, <2>1, <2>2, <2>3
<1>7. CASE Index
  <2>1. Untouched([Block EXCEPT !.index = @ \o ListItems]) BY DEF Untouched
  <2>2. /\ Reads("index") /\ Last(mode) \in InBlock /\ List /\ Advance(Count + 1) /\ mode' = mode
        /\ SetBlock([Block EXCEPT !.index = @ \o ListItems])
    BY <1>7 DEF Index, Directive
  <2>3. "index" \in Either \ {"return"} BY DEF Either
  <2>4. Count \in Nat /\ Ends(Count) BY <1>4, <2>2 DEF Reads
  <2> QED BY <1>3, <2>1, <2>2, <2>3, <2>4
<1>8. CASE ErrorPage
  <2> DEFINE b == [Block EXCEPT !.errorPage = {e \in @ : e.code # Value(Word(1))}
                                  \cup {[code |-> Value(Word(1)), page |-> Word(2)]}]
  <2>1. Untouched(b)
    <3>1. \A v : Untouched([Block EXCEPT !.errorPage = v]) BY DEF Untouched
    <3> QED BY <3>1
  <2>2. /\ Reads("error_page") /\ Last(mode) \in InBlock /\ Ends(2) /\ Advance(3) /\ mode' = mode
        /\ SetBlock(b)
    BY <1>8 DEF ErrorPage, Directive
  <2>3. "error_page" \in Either \ {"return"} BY DEF Either
  <2> HIDE DEF b
  <2> QED BY <1>3, <1>5, <2>1, <2>2, <2>3
<1>9. CASE Autoindex
  <2>1. Untouched([Block EXCEPT !.autoindex = Word(1)[1]]) BY DEF Untouched
  <2>2. /\ Reads("autoindex") /\ Last(mode) \in InBlock /\ Ends(1) /\ Advance(2) /\ mode' = mode
        /\ SetBlock([Block EXCEPT !.autoindex = Word(1)[1]])
    BY <1>9 DEF Autoindex, Directive
  <2>3. "autoindex" \in Either \ {"return"} BY DEF Either
  <2> QED BY <1>3, <1>5, <2>1, <2>2, <2>3
<1>10. CASE ClientMaxBodySize
  <2>1. Untouched([Block EXCEPT !.maxSize = Size(Word(1))]) BY DEF Untouched
  <2>2. /\ Reads("client_max_body_size") /\ Last(mode) \in InBlock /\ Ends(1) /\ Advance(2)
        /\ mode' = mode /\ SetBlock([Block EXCEPT !.maxSize = Size(Word(1))])
    BY <1>10 DEF ClientMaxBodySize, Directive
  <2>3. "client_max_body_size" \in Either \ {"return"} BY DEF Either
  <2> QED BY <1>3, <1>5, <2>1, <2>2, <2>3
<1>11. CASE Return
  <2> DEFINE alone == Ends(1) /\ ~IsCode(Word(1), Redirections)
             n == IF alone THEN 1 ELSE 2
             c == IF alone THEN 2 ELSE 3
             r == [code |-> Value(Word(1)), text |-> IF alone THEN <<>> ELSE Word(2)]
             b == [Block EXCEPT !.ret = r]
  <2>1. /\ Reads("return") /\ Last(mode) \in InBlock /\ Advance(c) /\ mode' = mode
        /\ SetBlock(b) /\ Block.ret = NoReturn /\ IsCode(Word(1), ReturnCodes)
        /\ alone \/ Ends(2)
    BY <1>11 DEF Return, Directive
  <2>2. Ends(n) /\ c = n + 1 /\ n \in Nat BY <1>5, <2>1
  <2>3. mode # Global BY <1>2, <2>1
  <2>4. b.ret = r
    <3>1. "ret" \in DOMAIN Block
      <4>1. Last(mode) # "global" BY <2>1 DEF InBlock
      <4>2. Last(mode) = "location" => Block = Location /\ LocationInv(Location)
        BY <1>1, <4>1, LastBlocks DEF Block
      <4>3. Last(mode) # "location" => Block = Server /\ ServerInv(Server)
        BY <1>1, <4>1, LastBlocks DEF Block
      <4> QED BY <4>2, <4>3 DEF LocationInv, LocationFields, ServerInv, ServerFields
    <3> HIDE DEF r
    <3> QED BY <3>1
  <2>5. r # NoReturn
    <3>1. r.code \in ReturnCodes BY <2>1 DEF IsCode
    <3>2. 0 \notin ReturnCodes BY DEF ReturnCodes, Redirections, ErrorCodes
    <3>3. NoReturn.code = 0 BY DEF NoReturn
    <3> HIDE DEF r
    <3> QED BY <3>1, <3>2, <3>3
  <2>6. BlockGrows(b)
    <3>1. mode \in {InServer, InLocation} BY <1>1, <2>3 DEF IInv, ModeInv
    <3>2. Last(mode) # "global" /\ (Last(mode) = "location" <=> mode = InLocation)
      BY <3>1, Modes
    <3>3. CASE mode = InLocation
      <4>1. Block = Location /\ LocationInv(Location) BY <1>1, <3>2, <3>3, LastBlocks DEF Block
      <4>2. b.path = Location.path /\ b.upload = Location.upload
        BY <4>1 DEF LocationInv, LocationFields
      <4> HIDE DEF b
      <4> QED BY <2>1, <3>3, <4>1, <4>2 DEF BlockGrows, LocationGrows
    <3>4. CASE mode # InLocation
      <4>1. Block = Server /\ ServerInv(Server) BY <1>1, <3>2, <3>4, LastBlocks DEF Block
      <4>2. /\ b.hasListen = Server.hasListen /\ b.port = Server.port
            /\ b.isDefault = Server.isDefault /\ b.locations = Server.locations
        BY <4>1 DEF ServerInv, ServerFields
      <4> HIDE DEF b
      <4> QED BY <2>1, <3>4, <4>1, <4>2 DEF BlockGrows, ServerGrows, LocationGrows
    <3> QED BY <3>3, <3>4
  <2>7. phase = "parsing" /\ Word(0) = <<"return">> /\ At("word") BY <2>1 DEF Reads, At
  <2> HIDE DEF n, c, b, r
  <2>8. c \in Nat /\ c >= 1 /\ (\A k \in 0..c - 1 : Type(k) = "word") /\ Type(c) = ";"
    BY <1>1, <2>2, <2>7, Ended
  <2>9. /\ "return" \in Either \cup (IF mode = InServer THEN ServerOnly ELSE LocationOnly)
        /\ "return" # "listen" /\ "return" # "upload_allowed"
    BY DEF Either
  <2> DEFINE name == "return"
  <2>10. /\ name \in Either \cup (IF mode = InServer THEN ServerOnly ELSE LocationOnly)
         /\ name # "listen" /\ name # "upload_allowed" /\ Word(0) = <<name>>
    BY <2>7, <2>9
  <2> HIDE DEF name
  <2> QED BY <2>1, <2>3, <2>4, <2>5, <2>6, <2>7, <2>8, <2>10, DirectiveFollows
<1> QED BY <1>6, <1>7, <1>8, <1>9, <1>10, <1>11 DEF CommonDirective

\* The directives of a server.
LEMMA ServerDirectiveFollows ==
  ASSUME NEW at, Reading(at), ServerDirective, ~Refuse
  PROVE  IsLexed(at)' /\ Follows(at)'
<1>1. tokens \in Seq(Token) /\ pos \in Nat /\ IInv BY DEF Reading, PlaceInv
<1>2. mode \in {Global, InServer, InLocation} BY DEF Reading, IInv, ModeInv
<1>3. Last(mode) \in {"server"} => mode = InServer /\ mode # Global /\ mode # InLocation
  BY <1>2, Modes, Depths
<1>4. Last(mode) = "server" => Block = Server /\ ServerInv(Server)
  BY <1>1, LastBlocks DEF Block
<1>5. CASE ServerName
  <2> DEFINE b == [Server EXCEPT !.names = @ \cup Range(ListItems)]
  <2>1. /\ Reads("server_name") /\ Last(mode) = "server" /\ List /\ Advance(Count + 1)
        /\ mode' = mode /\ SetBlock(b)
    BY <1>5 DEF ServerName, Directive
  <2>2. Untouched(b)
    <3>1. \A v : Untouched([Server EXCEPT !.names = v]) BY <1>4, <2>1 DEF Untouched
    <3> QED BY <3>1
  <2>3. At("word") BY <2>1 DEF Reads
  <2>4. Count \in Nat /\ Ends(Count) BY <1>1, <2>1, <2>3, Ended
  <2> DEFINE name == "server_name"
  <2>5. /\ name \in Either \cup (IF mode = InServer THEN ServerOnly ELSE LocationOnly)
        /\ name \notin {"listen", "return", "upload_allowed"} /\ Reads(name)
    BY <1>3, <2>1 DEF ServerOnly
  <2> HIDE DEF b, name
  <2> QED BY <1>3, <2>1, <2>2, <2>4, <2>5, PlainFollows
<1>6. CASE Listen
  <2> DEFINE port == Value(<<Last(Word(1))>>)
             isDefault == Words(2) /\ Word(2) = <<"default_server">> /\ Type(3) = ";"
             c == IF isDefault THEN 3 ELSE 2
             n == IF isDefault THEN 2 ELSE 1
             b == [Server EXCEPT !.hasListen = TRUE, !.port = port, !.isDefault = isDefault]
  <2>1. /\ Reads("listen") /\ Last(mode) = "server" /\ ~Server.hasListen
        /\ Ends(1) \/ (isDefault /\ OneDefault(port))
        /\ Advance(c) /\ mode' = mode /\ SetBlock(b)
    BY <1>6 DEF Listen, Directive
  <2>2. isDefault => ~Ends(1)
    <3>1. ASSUME isDefault, Ends(1) PROVE FALSE
      <4>1. 2 \in 1..2 /\ 1 + 1 = 2 OBVIOUS
      <4>2. Type(2) = "word" BY <3>1, <4>1 DEF Words
      <4>3. Type(2) = ";" BY <3>1, <4>1 DEF Ends
      <4> QED BY <4>2, <4>3
    <3> QED BY <3>1
  <2>3. Ends(n) /\ c = n + 1 /\ n \in Nat
    <3>1. 2 + 1 = 3 /\ 1 + 1 = 2 /\ 1 \in Nat /\ 2 \in Nat OBVIOUS
    <3>2. CASE isDefault
      <4>1. Ends(2) BY <3>1, <3>2 DEF Ends
      <4> QED BY <3>1, <3>2, <4>1
    <3>3. CASE ~isDefault BY <2>1, <3>1, <3>3
    <3> QED BY <3>2, <3>3
  <2>4. /\ b.hasListen = TRUE /\ b.port = port /\ b.isDefault = isDefault
        /\ b.locations = Server.locations /\ b.ret = Server.ret
    <3>1. ServerInv(Server) BY <1>4, <2>1
    <3> HIDE DEF port, isDefault
    <3> QED BY <3>1 DEF ServerInv, ServerFields
  <2>5. port = NumeralValue[Last(Word(1))] BY DEF Value
  <2>6. c = 3 => isDefault /\ OneDefault(port)
    <3>1. isDefault => OneDefault(port) BY <2>1, <2>2
    <3>2. CASE isDefault BY <3>1, <3>2
    <3>3. CASE ~isDefault
      <4>1. c = 2 BY <3>3
      <4>2. 2 # 3 OBVIOUS
      <4> HIDE DEF c
      <4> QED BY <4>1, <4>2
    <3> QED BY <3>2, <3>3
  <2>7. BlockGrows(b)
    <3>1. mode # InLocation BY <1>3, <2>1
    <3> HIDE DEF b, isDefault
    <3> QED BY <2>1, <2>4, <3>1 DEF BlockGrows, ServerGrows, LocationGrows
  <2>8. phase = "parsing" /\ Word(0) = <<"listen">> /\ At("word") BY <2>1 DEF Reads, At
  <2> HIDE DEF n, c, b, isDefault, port
  <2>9. c \in Nat /\ c >= 1 /\ (\A k \in 0..c - 1 : Type(k) = "word") /\ Type(c) = ";"
    BY <1>1, <2>3, <2>8, Ended
  <2>10. c = 3 => b.isDefault /\ b.port = NumeralValue[Last(Word(1))] /\ OneDefault(b.port)
    BY <2>4, <2>5, <2>6, Zenon
  <2> DEFINE name == "listen"
  <2>11. /\ name \in Either \cup (IF mode = InServer THEN ServerOnly ELSE LocationOnly)
         /\ name # "return" /\ name # "upload_allowed" /\ Word(0) = <<name>>
    BY <1>3, <2>1, <2>8 DEF ServerOnly
  <2>12. mode # Global BY <1>3, <2>1
  <2> HIDE DEF name
  <2> QED BY <2>1, <2>4, <2>7, <2>8, <2>9, <2>10, <2>11, <2>12, DirectiveFollows
<1> QED BY <1>5, <1>6 DEF ServerDirective

\* The directives of a location; upload_location only where uploads are allowed.
LEMMA LocationDirectiveFollows ==
  ASSUME NEW at, Reading(at), LocationDirective, ~Refuse, ~(UploadLocation /\ ~Location.upload)
  PROVE  IsLexed(at)' /\ Follows(at)'
<1>1. tokens \in Seq(Token) /\ pos \in Nat /\ IInv BY DEF Reading, PlaceInv
<1>2. mode \in {Global, InServer, InLocation} BY DEF Reading, IInv, ModeInv
<1>3. Last(mode) \in {"location"} => mode = InLocation /\ mode # Global /\ mode # InServer
  BY <1>2, Modes, Depths
<1>4. Last(mode) = "location" => Block = Location /\ LocationInv(Location)
  BY <1>1, LastBlocks DEF Block
<1>5. 1 + 1 = 2 /\ 2 + 1 = 3 /\ 1 \in Nat /\ 2 \in Nat OBVIOUS
<1>6. CASE AllowedMethods
  <2> DEFINE b == [Location EXCEPT !.methods = @ \cup {Word(k)[1] : k \in 1..Count}]
             name == "allowed_methods"
  <2>1. /\ Reads("allowed_methods") /\ Last(mode) = "location" /\ List /\ Advance(Count + 1)
        /\ mode' = mode /\ SetBlock(b)
    BY <1>6 DEF AllowedMethods, Directive
  <2>2. Untouched(b)
    <3>1. \A v : Untouched([Location EXCEPT !.methods = v]) BY <1>4, <2>1 DEF Untouched
    <3> QED BY <3>1
  <2>3. At("word") BY <2>1 DEF Reads
  <2>4. Count \in Nat /\ Ends(Count) BY <1>1, <2>1, <2>3, Ended
  <2>5. /\ name \in Either \cup (IF mode = InServer THEN ServerOnly ELSE LocationOnly)
        /\ name \notin {"listen", "return", "upload_allowed"} /\ Reads(name)
    BY <1>3, <2>1 DEF LocationOnly
  <2> HIDE DEF b, name
  <2> QED BY <1>3, <2>1, <2>2, <2>4, <2>5, PlainFollows
<1>7. CASE UploadAllowed
  <2> DEFINE b == [Location EXCEPT !.upload = @ \/ Word(1) = <<"on">>]
             name == "upload_allowed"
  <2>1. /\ Reads("upload_allowed") /\ Last(mode) = "location" /\ Ends(1) /\ Advance(2)
        /\ mode' = mode /\ SetBlock(b)
    BY <1>7 DEF UploadAllowed, Directive
  <2>2. /\ b.upload = (Location.upload \/ Word(1) = <<"on">>)
        /\ b.path = Location.path /\ b.ret = Location.ret
    BY <1>4, <2>1 DEF LocationInv, LocationFields
  <2>3. BlockGrows(b)
    <3> HIDE DEF b
    <3> QED BY <1>3, <2>1, <2>2 DEF BlockGrows, LocationGrows
  <2>4. Word(1) = <<"on">> => b.upload BY <2>2, Zenon
  <2>5. phase = "parsing" /\ Word(0) = <<"upload_allowed">> /\ At("word") BY <2>1 DEF Reads, At
  <2>6. /\ \A k \in 0..(1 + 1) - 1 : Type(k) = "word"
        /\ Type(1 + 1) = ";" /\ 1 + 1 \in Nat /\ 1 + 1 >= 1
    BY <1>1, <1>5, <2>1, <2>5, Ended
  <2>7. 2 \in Nat /\ 2 >= 1 /\ (\A k \in 0..2 - 1 : Type(k) = "word") /\ Type(2) = ";"
    BY <1>5, <2>6
  <2>8. /\ name \in Either \cup (IF mode = InServer THEN ServerOnly ELSE LocationOnly)
        /\ name # "listen" /\ name # "return" /\ Word(0) = <<name>>
    BY <1>3, <2>1, <2>5 DEF LocationOnly
  <2> HIDE DEF b, name
  <2> DEFINE c == 2
  <2>9. c \in Nat /\ c >= 1 /\ (\A k \in 0..c - 1 : Type(k) = "word") /\ Type(c) = ";"
        /\ Advance(c) /\ c = 2 /\ mode # Global
    BY <1>3, <2>1, <2>7
  <2> HIDE DEF c
  <2> QED BY <2>1, <2>3, <2>4, <2>5, <2>8, <2>9, DirectiveFollows
<1>8. CASE UploadLocation /\ Location.upload
  <2> DEFINE b == [Location EXCEPT !.uploadTo = IF Location.upload THEN Word(1) ELSE @]
             name == "upload_location"
  <2>1. /\ Reads("upload_location") /\ Last(mode) = "location" /\ Ends(1)
        /\ Advance(IF Words(1) THEN 2 ELSE 1)
        /\ mode' = mode /\ SetBlock(b)
    BY <1>8 DEF UploadLocation, Directive
  <2>2. Untouched(b)
    <3>1. \A v : Untouched([Location EXCEPT !.uploadTo = v]) BY <1>4, <2>1 DEF Untouched
    <3> QED BY <3>1
  <2>3. Advance(1 + 1) BY <1>5, <2>1 DEF Ends
  <2>4. /\ name \in Either \cup (IF mode = InServer THEN ServerOnly ELSE LocationOnly)
        /\ name \notin {"listen", "return", "upload_allowed"} /\ Reads(name)
    BY <1>3, <2>1 DEF LocationOnly
  <2> HIDE DEF b, name
  <2> DEFINE n == 1
  <2>5. Ends(n) /\ Advance(n + 1) /\ n \in Nat BY <2>1, <2>3
  <2> HIDE DEF n
  <2> QED BY <1>3, <2>1, <2>2, <2>4, <2>5, PlainFollows
<1>9. CASE Cgi
  <2> DEFINE b == [Location EXCEPT !.cgi = @ \cup {Word(1)}]
             name == "cgi"
             n == 2
  <2>1. /\ Reads("cgi") /\ Last(mode) = "location" /\ Ends(2) /\ Advance(3)
        /\ mode' = mode /\ SetBlock(b)
    BY <1>9 DEF Cgi, Directive
  <2>2. Untouched(b)
    <3>1. \A v : Untouched([Location EXCEPT !.cgi = v]) BY <1>4, <2>1 DEF Untouched
    <3> QED BY <3>1
  <2>3. /\ name \in Either \cup (IF mode = InServer THEN ServerOnly ELSE LocationOnly)
        /\ name \notin {"listen", "return", "upload_allowed"} /\ Reads(name)
    BY <1>3, <2>1 DEF LocationOnly
  <2>4. Ends(n) /\ Advance(n + 1) /\ n \in Nat BY <1>5, <2>1
  <2> HIDE DEF b, name, n
  <2> QED BY <1>3, <2>1, <2>2, <2>3, <2>4, PlainFollows
<1> QED BY <1>6, <1>7, <1>8, <1>9 DEF LocationDirective

\* A server is opened, after all others.
LEMMA OpenServerFollows ==
  ASSUME NEW at, Reading(at), OpenServer, ~Refuse
  PROVE  IsLexed(at)' /\ Follows(at)'
<1>1. /\ At("word") /\ Word(0) = <<"server">> /\ Last(mode) = "global" /\ Type(1) = "{"
      /\ mode' = Append(mode, "server") /\ servers' = Append(servers, NewServer) /\ Advance(1)
  BY DEF OpenServer, Reads
<1>2. mode \in {Global, InServer, InLocation} /\ ServersInv BY DEF Reading, IInv, ModeInv
<1>3. mode = Global BY <1>1, <1>2, Modes
<1>4. mode' = InServer BY <1>1, <1>3 DEF InServer
<1>5. /\ IsSeq(servers) /\ Len(servers') = Len(servers) + 1
      /\ DOMAIN servers' = DOMAIN servers \cup {Len(servers) + 1}
      /\ servers'[Len(servers) + 1] = NewServer
      /\ \A i \in DOMAIN servers : servers'[i] = servers[i]
  <2>1. IsSeq(servers) BY <1>2 DEF ServersInv
  <2> DEFINE r == Append(servers, NewServer)
  <2>2. /\ Len(r) = Len(servers) + 1 /\ DOMAIN r = DOMAIN servers \cup {Len(servers) + 1}
        /\ r[Len(servers) + 1] = NewServer /\ \A i \in DOMAIN servers : r[i] = servers[i]
    BY ONLY <2>1, AppendIsSeq
  <2> HIDE DEF r
  <2>3. servers' = r BY <1>1 DEF r
  <2> QED BY <2>1, <2>2, <2>3
<1>6. Server' = NewServer BY <1>5 DEF Server, Last
<1>7. Len(NewServer.locations) = 0
  <2>1. NewServer.locations = <<>> BY DEF NewServer, DefaultServer
  <2> QED BY <2>1
<1>8. Turns(1) BY <1>1, <1>3, <1>4, <1>5, <1>6, <1>7 DEF Turns
<1>9. Grows(servers, servers')
  <2>1. \A i \in DOMAIN servers : ServerGrows(servers[i], servers[i])
    BY DEF ServerGrows, LocationGrows
  <2> QED BY <1>5, <2>1 DEF Grows
<1>10. ASSUME NEW i \in Nat
       PROVE  /\ Kept(servers', Taken(i, 1))
              /\ \A o \in Seen(text, Here(at)) : Kept(servers, o) => ~Clash(Taken(i, 1), o)
  <2> DEFINE s == Taken(i, 1)
  <2>1. Len(s.words) = 1 /\ s.words[1] = Word(0) /\ s.mark = "{" /\ s.depth = 0
    <3> DEFINE c == 1
    <3>1. s = Taken(i, c) /\ c \in Nat OBVIOUS
    <3>5. c = 1 OBVIOUS
    <3> HIDE DEF s, c
    <3>4. /\ Len(s.words) = c /\ \A n \in 1..c : s.words[n] = Word(n - 1)
          /\ s.mark = Type(c) /\ s.depth = Len(mode) - 1
      BY ONLY <3>1, TakenIs
    <3>2. /\ Len(s.words) = 1 /\ \A n \in 1..1 : s.words[n] = Word(n - 1)
          /\ s.mark = Type(1) /\ s.depth = Len(mode) - 1
      BY <3>4, <3>5
    <3>3. 1 \in 1..1 /\ 1 - 1 = 0 OBVIOUS
    <3> QED BY <1>1, <1>3, <3>2, <3>3, DepthIs, Zenon
  <2>2. s.words = <<<<"server">>>>
    <3>1. s.words = [n \in 1..1 |-> Word(n - 1)] BY DEF Taken
    <3> HIDE DEF s
    <3>2. \A n \in 1..1 : n - 1 = 0 OBVIOUS
    <3>3. \A n \in 1..1 : Word(n - 1) = <<"server">> BY <1>1, <3>2
    <3> QED BY <3>1, <3>3
  <2>3. \A name : ~Says(s, ";", name) BY <2>1 DEF Says
  <2>4. ~Says(s, "{", "location")
    <3>1. <<"server">> # <<"location">> OBVIOUS
    <3> QED BY <1>1, <2>1, <3>1, Zenon DEF Says
  <2>5. s.mark # ";" BY <2>1
  <2> HIDE DEF s
  <2>6. IsAllowed(s) BY <2>1, <2>2 DEF IsAllowed
  <2>7. Kept(servers', s) BY <2>3, <2>4, <2>5, <2>6 DEF Kept
  <2>8. \A o : ~Clash(s, o) BY <2>3, <2>4 DEF Clash
  <2> QED BY <2>7, <2>8 DEF s
<1>11. \A k \in 0..1 - 1 : Type(k) = "word"
  <2>1. \A k \in 0..1 - 1 : k = 0 OBVIOUS
  <2> QED BY <1>1, <2>1 DEF At
<1>12. pos' = pos + 1 + 1 /\ UNCHANGED <<text, tokens>> BY <1>1 DEF Advance
<1>13. Type(1) \in Mark BY <1>1 DEF Mark
<1> DEFINE c == 1
<1>14. /\ c \in Nat /\ (\A k \in 0..c - 1 : Type(k) = "word") /\ Type(c) \in Mark
       /\ pos' = pos + c + 1 /\ Turns(c)
       /\ \A i \in Nat : /\ Kept(servers', Taken(i, c))
                         /\ \A o \in Seen(text, Here(at)) :
                              Kept(servers, o) => ~Clash(Taken(i, c), o)
  BY <1>8, <1>10, <1>11, <1>12, <1>13
<1> HIDE DEF c
<1> QED BY <1>9, <1>12, <1>14, FollowsOn DEF Reading, IInv

\* A location is opened in the last server, which then shows its path.
LEMMA OpenLocationFollows ==
  ASSUME NEW at, Reading(at), OpenLocation, ~Refuse
  PROVE  IsLexed(at)' /\ Follows(at)'
<1> DEFINE path == Word(1)
           new  == NewLocation(path)
           r    == [Server EXCEPT !.locations = Append(@, new)]
           n    == Len(Server.locations)
<1>1. /\ At("word") /\ Word(0) = <<"location">> /\ Last(mode) = "server" /\ Words(1)
      /\ path[1] = "/" /\ PathIsFree(path) /\ Type(2) = "{"
      /\ mode' = Append(mode, "location") /\ SetServer(r) /\ Advance(2)
  BY DEF OpenLocation, Reads
<1>2. mode \in {Global, InServer, InLocation} /\ ServersInv /\ IInv BY DEF Reading, IInv, ModeInv
<1>3. mode = InServer /\ mode # Global /\ mode # InLocation BY <1>1, <1>2, Modes, Depths
<1>4. mode' = InLocation BY <1>1, <1>3 DEF InLocation
<1>5. /\ servers # <<>> /\ ServerInv(Server) /\ Len(servers) \in DOMAIN servers
      /\ Server = servers[Len(servers)]
  BY <1>1, <1>2, LastBlocks
<1>6. new.path = path BY <1>1, NewBlocks
<1> HIDE DEF new
<1>7. /\ r.locations = Append(Server.locations, new) /\ r.hasListen = Server.hasListen
      /\ r.port = Server.port /\ r.isDefault = Server.isDefault /\ r.ret = Server.ret
  BY <1>5 DEF ServerInv, ServerFields
<1> HIDE DEF r
<1>8. /\ IsSeq(r.locations) /\ DOMAIN r.locations = DOMAIN Server.locations \cup {n + 1}
      /\ Len(r.locations) = n + 1 /\ r.locations[n + 1] = new
      /\ \A j \in DOMAIN Server.locations : r.locations[j] = Server.locations[j]
  <2>1. IsSeq(Server.locations) BY <1>5 DEF ServerInv
  <2> DEFINE l == Server.locations
  <2> HIDE DEF l
  <2> QED BY <1>7, <2>1, AppendIsSeq
<1>9. ServerGrows(Server, r)
  <2>1. \A j \in DOMAIN Server.locations : LocationGrows(Server.locations[j], Server.locations[j])
    BY DEF LocationGrows
  <2> QED BY <1>7, <1>8, <2>1 DEF ServerGrows
<1>10. /\ Grows(servers, servers') /\ Len(servers') = Len(servers)
       /\ Server' = r /\ Len(servers) \in DOMAIN servers'
       /\ servers'[Len(servers)] = r
  BY <1>1, <1>2, <1>5, <1>9, SetServerGrows
<1> DEFINE c == 2
<1>11. c = 2 /\ c \in Nat /\ 2 - 1 = 1 /\ 1 - 1 = 0 /\ 1 \in 1..2 /\ 2 \in 1..2 OBVIOUS
<1>12. \A k \in 0..c - 1 : Type(k) = "word"
  <2>1. \A k \in 0..c - 1 : k = 0 \/ k \in 1..1 OBVIOUS
  <2> QED BY <1>1, <2>1 DEF At, Words
<1>13. pos' = pos + c + 1 /\ UNCHANGED <<text, tokens>> BY <1>1 DEF Advance
<1>14. Type(c) = "{" /\ Type(c) \in Mark BY <1>1 DEF Mark
<1> HIDE DEF c
<1>15. Turns(c) BY <1>3, <1>4, <1>8, <1>10, <1>14 DEF Turns
<1>16. ASSUME NEW i \in Nat
       PROVE  /\ Kept(servers', Taken(i, c))
              /\ \A o \in Seen(text, Here(at)) : Kept(servers, o) => ~Clash(Taken(i, c), o)
  <2> DEFINE s == Taken(i, c)
  <2>0. s = Taken(i, c) OBVIOUS
  <2> HIDE DEF s
  <2>1. /\ Len(s.words) = c /\ (\A k \in 1..c : s.words[k] = Word(k - 1))
        /\ s.mark = Type(c) /\ s.depth = Len(mode) - 1 /\ s.server = Len(servers)
    <3>1. c \in Nat BY <1>11
    <3> QED BY ONLY <2>0, <3>1, TakenIs
  <2>2. Len(s.words) = 2 /\ s.words[1] = <<"location">> /\ s.words[2] = path
    <3>1. Len(s.words) = 2 /\ s.words[1] = Word(1 - 1) /\ s.words[2] = Word(2 - 1)
      BY <1>11, <2>1
    <3> QED BY <1>1, <1>11, <3>1, Zenon
  <2>3. s.mark = "{" /\ s.depth = 1 /\ s.server = Len(servers)
    BY <1>3, <1>14, <2>1, DepthIs, Zenon
  <2>4. "{" # ";" /\ "{" # "}" OBVIOUS
  <2>5. \A name : ~Says(s, ";", name) BY <2>3, <2>4 DEF Says
  <2>6. IsAllowed(s) BY <2>2, <2>3 DEF IsAllowed
  <2>7. s.server \in DOMAIN servers' BY <1>10, <2>3
  <2>8. \E j \in DOMAIN servers'[s.server].locations :
          servers'[s.server].locations[j].path = s.words[2]
    <3>1. servers'[s.server] = r BY <1>10, <2>3
    <3>2. n + 1 \in DOMAIN r.locations /\ r.locations[n + 1].path = path BY <1>6, <1>8
    <3> QED BY <2>2, <3>1, <3>2
  <2>9. Kept(servers', s) BY <2>3, <2>4, <2>5, <2>6, <2>7, <2>8 DEF Kept
  <2>10. ASSUME NEW o, Kept(servers, o), Clash(s, o) PROVE FALSE
    <3>1. Says(o, "{", "location") /\ s.server = o.server /\ s.words[2] = o.words[2]
      BY <2>5, <2>10 DEF Clash
    <3>2. \E j \in DOMAIN servers[o.server].locations :
            servers[o.server].locations[j].path = o.words[2]
      BY <2>10, <3>1 DEF Kept
    <3>3. servers[o.server] = Server BY <1>5, <2>3, <3>1
    <3> QED BY <1>1, <2>2, <3>1, <3>2, <3>3 DEF PathIsFree
  <2> QED BY <2>0, <2>9, <2>10
<1> HIDE DEF path, n
<1>17. c \in Nat BY <1>11
<1> QED BY <1>10, <1>12, <1>13, <1>14, <1>15, <1>16, <1>17, FollowsOn DEF Reading, IInv

\* A brace closes the block that is open; what has been read stays.
LEMMA RightBraceFollows ==
  ASSUME NEW at, Reading(at), RightBrace, ~Refuse
  PROVE  IsLexed(at)' /\ Follows(at)'
<1>1. /\ At("}") /\ Last(mode) # "global" /\ mode' = Front(mode) /\ Advance(0) /\ servers' = servers
  BY DEF RightBrace
<1>2. mode \in {Global, InServer, InLocation} /\ IInv BY DEF Reading, IInv, ModeInv
<1>3. mode # Global BY <1>1, Modes
<1> DEFINE c == 0
<1>4. c = 0 /\ c \in Nat /\ 0..c - 1 = {} OBVIOUS
<1>5. pos' = pos + c + 1 /\ UNCHANGED <<text, tokens>> BY <1>1 DEF Advance
<1>6. Type(c) = "}" /\ Type(c) \in Mark BY <1>1 DEF At, Mark
<1> HIDE DEF c
<1>7. Turns(c) BY <1>1, <1>3, <1>6 DEF Turns
<1>8. Grows(servers, servers')
  <2>1. \A i \in DOMAIN servers : ServerGrows(servers[i], servers[i])
    BY DEF ServerGrows, LocationGrows
  <2> QED BY <1>1, <2>1 DEF Grows
<1>9. ASSUME NEW i \in Nat
      PROVE  /\ Kept(servers', Taken(i, c))
             /\ \A o \in Seen(text, Here(at)) : Kept(servers, o) => ~Clash(Taken(i, c), o)
  <2> DEFINE s == Taken(i, c)
  <2>0. s = Taken(i, c) OBVIOUS
  <2> HIDE DEF s
  <2>1. /\ c = 0 => s.words = <<>>
        /\ s.mark = Type(c) /\ s.depth = Len(mode) - 1
    <3>1. c \in Nat BY <1>4
    <3> QED BY ONLY <2>0, <3>1, TakenIs
  <2>2. s.words = <<>> /\ s.mark = "}" BY <1>4, <1>6, <2>1
  <2>3. s.depth > 0
    <3>1. s.depth = 1 \/ s.depth = 2 BY <1>2, <1>3, <2>1, DepthIs, Zenon
    <3> QED BY <3>1
  <2>4. \A mark, name : ~Says(s, mark, name) BY <2>2 DEF Says
  <2>5. IsAllowed(s) BY <2>2, <2>3 DEF IsAllowed
  <2>6. s.mark # ";" BY <2>2
  <2>7. Kept(servers', s) BY <2>4, <2>5, <2>6 DEF Kept
  <2>8. \A o : ~Clash(s, o) BY <2>4 DEF Clash
  <2> QED BY <2>0, <2>7, <2>8
<1>10. \A k \in 0..c - 1 : Type(k) = "word" BY <1>4
<1>11. c \in Nat BY <1>4
<1> QED BY <1>1, <1>5, <1>6, <1>7, <1>8, <1>9, <1>10, <1>11, FollowsOn DEF Reading, IInv

\* The end of a line is no part of a statement.
LEMMA NewLinesFollow ==
  ASSUME NEW at, Reading(at), NewLines
  PROVE  IsLexed(at)' /\ Follows(at)'
<1> DEFINE h  == Here(at)
           h2 == PlaceOf(text, tokens, at, pos + 1)
<1>1. Type(0) = "newline" /\ pos' = pos + 1 /\ UNCHANGED <<text, tokens, mode, servers>>
  <2>1. /\ Type(0) = "newline" /\ pos' = pos + 0 + 1 /\ UNCHANGED <<text, tokens, mode, servers>>
    BY DEF NewLines, At, Advance
  <2>2. pos \in Nat BY DEF Reading, PlaceInv
  <2>3. pos + 0 + 1 = pos + 1 BY <2>2
  <2> QED BY <2>1, <2>3
<1>2. /\ text \in Seq(STRING) /\ tokens \in Seq(Token) /\ pos \in Nat \ {0} /\ pos + 1 \in Nat \ {0}
      /\ Lexed(text, tokens, at, Places(text)) /\ ReadTo(text, h)
  BY DEF Reading, PlaceInv, IsLexed, Follows
<1>3. pos \in 1..Len(tokens) /\ tokens[pos].type = "newline"
  <2>1. "newline" # "end" OBVIOUS
  <2>2. pos + 0 \in 1..Len(tokens) /\ Type(0) = tokens[pos + 0].type BY <1>1, <1>2, <2>1, TypeIs
  <2>3. pos + 0 = pos BY <1>2
  <2> QED BY <1>1, <2>2, <2>3
<1>4. h = at[pos] BY <1>3 DEF Here, PlaceOf
<1>5. /\ h \in Nat
      /\ \A p \in 1..Len(tokens) : (p < pos => at[p] < h) /\ at[p] \in 1..Len(text)
      /\ \A x \in Places(text) : \E p \in 1..Len(tokens) : at[p] = x
  <2>1. h = PlaceOf(text, tokens, at, pos) BY DEF Here
  <2> HIDE DEF h, h2
  <2> QED BY <1>2, <2>1, Within
<1>6. /\ h2 \in Nat
      /\ \A p \in 1..Len(tokens) : p >= pos + 1 => at[p] >= h2
      /\ \A p \in 1..Len(tokens) : p < pos + 1 => at[p] < h2
  <2> DEFINE q == pos + 1
  <2>1. h2 = PlaceOf(text, tokens, at, q) /\ q \in Nat \ {0} BY <1>2
  <2> HIDE DEF h, h2, q
  <2>2. /\ PlaceOf(text, tokens, at, q) \in Nat
        /\ \A p \in 1..Len(tokens) : /\ p < q => at[p] < PlaceOf(text, tokens, at, q)
                                     /\ p >= q => at[p] >= PlaceOf(text, tokens, at, q)
    BY <1>2, <2>1, Within
  <2> QED BY <2>1, <2>2 DEF q
<1> HIDE DEF h, h2
<1>7. h \notin Marks(text) /\ h \notin Starts(text)
  <2>1. IsToken(text, at[pos], tokens[pos]) BY <1>2, <1>3 DEF Lexed
  <2> QED BY <1>2, <1>3, <1>4, <2>1, TokenIs
<1>8. \A x \in Marks(text) \cup Starts(text) : ~(h <= x /\ x < h2)
  <2>1. ASSUME NEW x \in Marks(text) \cup Starts(text), h <= x, x < h2 PROVE FALSE
    <3>1. x \in Places(text) BY DEF Places
    <3>2. PICK p \in 1..Len(tokens) : at[p] = x BY <1>5, <3>1
    <3>3. at[p] \in 1..Len(text) /\ at[p] \in Nat BY <1>5
    <3>4. ~(p < pos) BY <1>5, <2>1, <3>2, <3>3
    <3>5. ~(p >= pos + 1) BY <1>6, <2>1, <3>2, <3>3
    <3>6. p = pos BY <1>2, <3>4, <3>5
    <3> QED BY <1>4, <1>7, <3>2, <3>6
  <2> QED BY <2>1
<1>9. h <= h2
  <2>1. at[pos] < h2 BY <1>2, <1>3, <1>6
  <2> QED BY <1>4, <1>5, <1>6, <2>1
<1>10. /\ Depth(text, h2) = Depth(text, h) /\ Opened(text, h2, 0) = Opened(text, h, 0)
       /\ Inside(text, h2) = Inside(text, h) /\ ReadTo(text, h2) /\ Seen(text, h2) = Seen(text, h)
  BY <1>2, <1>5, <1>6, <1>8, <1>9, TakesNone
<1>11. Here(at)' = h2 BY <1>1 DEF Here, h2
<1>12. /\ Depth(text, h) = Len(mode) - 1
       /\ Cardinality(Opened(text, h, 0)) = Len(servers)
       /\ mode # Global => Cardinality(Inside(text, h)) = Len(Server.locations)
       /\ \A s \in Seen(text, h) : Kept(servers, s)
       /\ IsUnique(Seen(text, h))
  BY DEF Reading, Follows, h
<1>13. Server' = Server BY <1>1 DEF Server
<1>14. Follows(at)' BY <1>1, <1>10, <1>11, <1>12, <1>13 DEF Follows
<1>15. IsLexed(at)' BY <1>1, <1>2 DEF IsLexed
<1> QED BY <1>14, <1>15

-----------------------------------------------------------------------------
(* What upload_location passes over.                                       *)

\* The first of a set of places.
LEMMA FirstOf ==
  ASSUME NEW n \in Nat, NEW S \in SUBSET (1..n), NEW m \in S, \A j \in S : m <= j
  PROVE  1 \in DOMAIN Ascending(S) /\ Ascending(S)[1] = m
<1> DEFINE Below(i) == {j \in S : j < i}
           Is(k, i) == Cardinality(Below(i)) = k - 1
<1>1. IsFiniteSet(S)
  <2>1. IsFiniteSet(1..n)
    <3>1. 1 \in Int /\ n \in Int OBVIOUS
    <3> QED BY <3>1, FS_Interval
  <2> QED BY <2>1, FS_Subset
<1>2. Cardinality(S) \in Nat /\ Cardinality(S) # 0
  <2>1. Cardinality(S) \in Nat BY <1>1, FS_CardinalityType
  <2>2. S # {} OBVIOUS
  <2> QED BY <1>1, <2>1, <2>2, FS_EmptySet
<1>3. \A i \in S : IsFiniteSet(Below(i))
  <2>1. \A i \in S : Below(i) \in SUBSET S OBVIOUS
  <2> HIDE DEF Below
  <2> QED BY <1>1, <2>1, FS_Subset
<1>4. Below(m) = {}
  <2>1. \A j \in S : j \in Nat OBVIOUS
  <2>2. \A j \in S : ~(j < m) BY <2>1
  <2> QED BY <2>2
<1>5. \A i \in S : i # m => m \in Below(i) OBVIOUS
<1> HIDE DEF Below
<1>6. Is(1, m)
  <2>1. Cardinality({}) = 0 BY FS_EmptySet
  <2>2. 1 - 1 = 0 OBVIOUS
  <2> QED BY <1>4, <2>1, <2>2
<1>7. ASSUME NEW i \in S, Is(1, i) PROVE i = m
  <2>1. 1 - 1 = 0 OBVIOUS
  <2>2. Cardinality(Below(i)) = 0 BY <1>7, <2>1
  <2>3. Below(i) = {} BY <1>3, <2>2, FS_EmptySet
  <2> QED BY <1>5, <2>3
<1>8. (CHOOSE i \in S : Is(1, i)) = m
  <2> HIDE DEF Is
  <2> QED BY <1>6, <1>7
<1>9. Ascending(S) = [k \in 1..Cardinality(S) |-> CHOOSE i \in S : Is(k, i)]
  BY DEF Ascending, Below
<1>10. 1 \in 1..Cardinality(S) BY <1>2
<1> HIDE DEF Is
<1> QED BY <1>8, <1>9, <1>10

\* Nothing is counted between two places without a mark.
LEMMA CountsStay ==
  ASSUME NEW t \in Seq(STRING), NEW h \in Nat, NEW i \in Nat, h <= i,
         \A m \in Marks(t) : ~(h <= m /\ m < i)
  PROVE  /\ Depth(t, i) = Depth(t, h) /\ Opened(t, i, 0) = Opened(t, h, 0)
         /\ Inside(t, i) = Inside(t, h)
<1>1. \A m \in Marks(t) : m < i <=> m < h
  <2>1. Marks(t) \in SUBSET (1..Len(t)) /\ Len(t) \in Nat BY MarksAre
  <2> QED BY <2>1
<1>2. \A mark : Before(t, i, mark) = Before(t, h, mark) BY <1>1 DEF Before
<1>3. Depth(t, i) = Depth(t, h)
  <2>1. Before(t, i, "{") = Before(t, h, "{") /\ Before(t, i, "}") = Before(t, h, "}") BY <1>2
  <2> QED BY <2>1 DEF Depth
<1>4. \A d : Opened(t, i, d) = Opened(t, h, d) BY <1>2 DEF Opened
<1>5. Inside(t, i) = Inside(t, h)
  <2>1. Opened(t, i, 0) = Opened(t, h, 0) /\ Opened(t, i, 1) = Opened(t, h, 1) BY <1>4
  <2> QED BY <2>1 DEF Inside, ServerAt
<1> QED BY <1>3, <1>4, <1>5

\* A statement that begins where the parser is.
LEMMA BeginsHere ==
  ASSUME NEW t \in Seq(STRING), NEW h \in Starts(t), NEW i \in Marks(t), h < i, ReadTo(t, h),
         \A m \in Marks(t) : ~(h <= m /\ m < i)
  PROVE  /\ StatementAt(t, i).words # <<>>
         /\ StatementAt(t, i).words[1] = WordAt(t, h)
<1> DEFINE S == WordsTo(t, i)
           L == Max({0} \cup {j \in Marks(t) : j < i})
           words == Ascending(S)
           w == [n \in DOMAIN words |-> WordAt(t, words[n])]
<1>1. Marks(t) \in SUBSET (1..Len(t)) /\ Starts(t) \in SUBSET (1..Len(t)) /\ Len(t) \in Nat
  BY MarksAre
<1>2. L \in {0} \cup {j \in Marks(t) : j < i} /\ \A j \in Marks(t) : j < i => L >= j
  <2> DEFINE T == {j \in Marks(t) : j < i}
  <2>1. T \in SUBSET (1..Len(t)) /\ Len(t) \in Nat BY <1>1
  <2> HIDE DEF T
  <2>2. Max({0} \cup T) \in {0} \cup T /\ \A j \in T : Max({0} \cup T) >= j BY <2>1, LastPlace
  <2> QED BY <2>2 DEF T
<1>3. S = {k \in Starts(t) : L < k /\ k < i} BY DEF WordsTo, MarkAt
<1> HIDE DEF L, S
<1>4. h \in S
  <2>1. L < h
    <3>1. CASE L = 0 BY <1>1, <3>1
    <3>2. CASE L # 0
      <4>1. L \in Marks(t) /\ L < i BY <1>2, <3>2
      <4>2. ~(h <= L) BY <4>1
      <4> QED BY <1>1, <4>1, <4>2
    <3> QED BY <3>1, <3>2
  <2> QED BY <1>3, <2>1
<1>5. ASSUME NEW x \in S PROVE h <= x
  <2>1. x \in Starts(t) /\ L < x BY <1>3
  <2>2. ASSUME x < h PROVE FALSE
    <3>1. PICK k \in Marks(t) : x < k /\ k < h
      <4>1. h <= i BY <1>1
      <4> QED BY <2>1, <2>2, <4>1 DEF ReadTo
    <3>2. x \in Nat /\ k \in Nat /\ h \in Nat /\ i \in Nat BY <1>1, <2>1
    <3>3. k < i BY <3>1, <3>2
    <3>4. L >= k /\ L \in Nat BY <1>1, <1>2, <3>3
    <3> QED BY <2>1, <3>1, <3>2, <3>4
  <2>3. x \in Nat /\ h \in Nat BY <1>1, <2>1
  <2> QED BY <2>2, <2>3
<1>6. 1 \in DOMAIN words /\ words[1] = h
  <2>1. S \in SUBSET (1..Len(t)) BY <1>1, <1>3
  <2> QED BY <1>1, <1>4, <1>5, <2>1, FirstOf
<1> HIDE DEF words
<1>7. 1 \in DOMAIN w /\ w[1] = WordAt(t, h) BY <1>6
<1>8. StatementAt(t, i).words = w BY DEF StatementAt, words, w, S
<1>9. w # <<>>
  <2>1. DOMAIN <<>> = {} BY EmptyIsSeq
  <2> QED BY <1>7, <2>1
<1> QED BY <1>7, <1>8, <1>9

\* Where nothing is swallowed, an upload_location that is not obeyed has no mark after it.
LEMMA NothingAfter ==
  ASSUME NEW at, Reading(at), UploadLocation, ~Refuse, ~Location.upload,
         NothingSwallowed(Statements(text)),
         NEW m0 \in Marks(text), ~(m0 < Here(at))
  PROVE  FALSE
<1> DEFINE h == Here(at)
           M == {m \in Marks(text) : ~(m < h)}
           i == Min(M)
<1>1. /\ At("word") /\ Word(0) = <<"upload_location">> /\ Last(mode) = "location"
  BY DEF UploadLocation, Directive, Reads
<1>2. mode \in {Global, InServer, InLocation} /\ IInv BY DEF Reading, IInv, ModeInv
<1>3. mode = InLocation /\ mode # Global BY <1>1, <1>2, Modes, Depths
<1>4. /\ servers # <<>> /\ Len(servers) \in DOMAIN servers /\ Server = servers[Len(servers)]
      /\ Location = Server.locations[Len(Server.locations)]
  BY <1>1, <1>2, LastBlocks
<1>5. /\ text \in Seq(STRING) /\ tokens \in Seq(Token) /\ pos \in Nat \ {0}
      /\ Lexed(text, tokens, at, Places(text)) /\ ReadTo(text, h)
  BY DEF Reading, PlaceInv, IsLexed, Follows
<1>6. pos \in 1..Len(tokens) /\ tokens[pos].type = "word" /\ tokens[pos].word = Word(0)
  <2>1. "word" # "end" /\ Type(0) = "word" BY <1>1 DEF At
  <2>2. pos + 0 \in 1..Len(tokens) /\ Type(0) = tokens[pos + 0].type BY <1>5, <2>1, TypeIs
  <2>3. pos + 0 = pos BY <1>5
  <2> QED BY <2>1, <2>2, <2>3 DEF Word
<1>7. h = at[pos] BY <1>6 DEF Here, PlaceOf
<1>8. h \in Starts(text) /\ h \notin Marks(text) /\ WordAt(text, h) = <<"upload_location">>
  <2>1. IsToken(text, at[pos], tokens[pos]) BY <1>5, <1>6 DEF Lexed
  <2> QED BY <1>1, <1>5, <1>6, <1>7, <2>1, TokenIs
<1>9. /\ Marks(text) \in SUBSET (1..Len(text)) /\ Starts(text) \in SUBSET (1..Len(text))
      /\ Len(text) \in Nat
  BY <1>5, MarksAre
<1>10. h \in Nat BY <1>8, <1>9
<1> HIDE DEF h
<1>11. i \in M /\ \A m \in M : i <= m
  <2>1. M \subseteq Nat /\ M # {} BY <1>9 DEF h
  <2> HIDE DEF M
  <2> QED BY <2>1, MinIsSmallest
<1> HIDE DEF i
<1>12. i \in Marks(text) /\ i \in Nat /\ h < i BY <1>8, <1>9, <1>10, <1>11
<1>13. \A m \in Marks(text) : ~(h <= m /\ m < i)
  <2>1. ASSUME NEW m \in Marks(text), h <= m, m < i PROVE FALSE
    <3>1. m \in Nat BY <1>9
    <3>2. ~(m < h) BY <1>10, <2>1, <3>1
    <3>3. i <= m BY <1>11, <3>2
    <3> QED BY <1>12, <2>1, <3>1, <3>3
  <2> QED BY <2>1
<1> DEFINE s == StatementAt(text, i)
<1>14. s.words # <<>> /\ s.words[1] = <<"upload_location">>
  BY <1>5, <1>8, <1>12, <1>13, BeginsHere
<1>15. /\ Depth(text, i) = Depth(text, h) /\ Opened(text, i, 0) = Opened(text, h, 0)
       /\ Inside(text, i) = Inside(text, h)
  <2>1. h <= i BY <1>10, <1>12
  <2> QED BY <1>5, <1>10, <1>12, <1>13, <2>1, CountsStay
<1>16. /\ Depth(text, h) = 2
       /\ Cardinality(Opened(text, h, 0)) = Len(servers)
       /\ Cardinality(Inside(text, h)) = Len(Server.locations)
  <2>1. /\ Depth(text, h) = Len(mode) - 1
        /\ Cardinality(Opened(text, h, 0)) = Len(servers)
        /\ mode # Global => Cardinality(Inside(text, h)) = Len(Server.locations)
    BY DEF Reading, Follows, h
  <2> QED BY <1>3, <2>1, DepthIs, Zenon
<1>17. s.at = i /\ s.depth = 2 /\ s.server = Len(servers) /\ s.location = Len(Server.locations)
  <2>1. s.at = i /\ s.depth = Depth(text, i) /\ s.server = Cardinality(Opened(text, i, 0))
        /\ s.location = IF Depth(text, i) < 2 THEN 0 ELSE Cardinality(Inside(text, i))
    BY DEF StatementAt
  <2>2. ~(2 < 2) OBVIOUS
  <2>3. Depth(text, i) = 2 BY <1>15, <1>16
  <2>4. s.location = Cardinality(Inside(text, i)) BY <2>1, <2>2, <2>3
  <2> QED BY <1>15, <1>16, <2>1, <2>3, <2>4
<1>18. Statements(text) = {StatementAt(text, j) : j \in Marks(text)} BY StatementsAre
<1>19. s \in Named(Statements(text), "upload_location") BY <1>12, <1>14, <1>18 DEF Named
<1> HIDE DEF s
<1>20. PICK o \in Named(Statements(text), "upload_allowed") :
         SameBlock(s, o) /\ o.at < s.at /\ o.words[2] = <<"on">>
  BY <1>19 DEF NothingSwallowed
<1>21. o \in Statements(text) /\ o.words # <<>> /\ o.words[1] = <<"upload_allowed">>
  BY <1>20 DEF Named
<1>22. PICK j \in Marks(text) : o = StatementAt(text, j) BY <1>18, <1>21
<1>23. o.at = j /\ o.mark = text[j] BY <1>22 DEF StatementAt
<1>24. j < h
  <2>1. j < i /\ j \in Nat BY <1>9, <1>17, <1>20, <1>23
  <2>2. ~(h <= j) BY <1>13, <2>1
  <2> QED BY <1>10, <2>1, <2>2
<1>25. Kept(servers, o)
  <2>1. o \in Seen(text, h) BY <1>22, <1>24 DEF Seen
  <2> QED BY <2>1 DEF Reading, Follows, h
<1>26. o.depth = 2 /\ o.server = Len(servers) /\ o.location = Len(Server.locations)
  BY <1>17, <1>20 DEF SameBlock
<1>27. o.mark \in Mark BY <1>23 DEF Marks
<1>28. o.mark = ";"
  <2>1. IsAllowed(o) BY <1>25 DEF Kept
  <2>2. o.mark # "{"
    <3>1. 2 # 0 /\ 2 # 1 /\ "{" # "}" /\ "{" # ";" OBVIOUS
    <3> QED BY <1>26, <2>1, <3>1 DEF IsAllowed
  <2>3. o.mark # "}" BY <1>21, <2>1 DEF IsAllowed
  <2> QED BY <1>27, <2>2, <2>3 DEF Mark
<1>29. Says(o, ";", "upload_allowed") BY <1>21, <1>28 DEF Says
<1>30. BlockOf(servers, o).upload BY <1>20, <1>25, <1>29 DEF Kept
<1>31. BlockOf(servers, o) = Location
  <2>1. 2 # 1 OBVIOUS
  <2> QED BY <1>4, <1>26, <2>1, Zenon DEF BlockOf
<1> QED BY <1>30, <1>31

-----------------------------------------------------------------------------
(* The rules of the whole file.                                            *)

\* What docs/config_docs/yuliia_todo.md allows, of the text.
RulesHold == (\A s \in Statements(text) : IsAllowed(s)) /\ IsUnique(Statements(text))

\* After the last mark every statement has been seen.
LEMMA AllSeen ==
  ASSUME NEW at, Reading(at), \A m \in Marks(text) : m < Here(at)
  PROVE  RulesHold
<1>1. Seen(text, Here(at)) = Statements(text)
  <2>1. {j \in Marks(text) : j < Here(at)} = Marks(text) OBVIOUS
  <2> QED BY <2>1, StatementsAre DEF Seen
<1>2. /\ \A s \in Seen(text, Here(at)) : Kept(servers, s)
      /\ IsUnique(Seen(text, Here(at)))
  BY DEF Reading, Follows
<1> QED BY <1>1, <1>2 DEF RulesHold, Kept

\* The lexer puts the parser at the first place of the text.
LEMMA OpenFollows ==
  ASSUME text \in Seq(STRING), WellSpaced(text), Open, pos = 1, mode = Global, servers = <<>>
  PROVE  \E at : IsLexed(at)' /\ Follows(at)'
<1>1. PICK at : Lexed(text, Tokens(text), at, Places(text)) BY LexerReads
<1> DEFINE toks == Tokens(text)
           p == 1
           h == PlaceOf(text, toks, at, p)
<1>2. /\ tokens' = toks /\ text' = text /\ pos' = p /\ mode' = Global /\ servers' = <<>>
  BY DEF Open
<1>3. toks \in Seq(Token) BY TokensTypes
<1>4. p \in Nat \ {0} /\ \A n \in 1..Len(toks) : n >= p OBVIOUS
<1> HIDE DEF p, toks
<1>5. /\ h \in Nat
      /\ \A n \in 1..Len(toks) : (n >= p => at[n] >= h) /\ at[n] \in 1..Len(text)
      /\ \A x \in Places(text) : \E n \in 1..Len(toks) : at[n] = x
  BY <1>1, <1>3, <1>4, Within DEF toks
<1>6. Here(at)' = h BY <1>2 DEF Here
<1> HIDE DEF h
<1>7. \A x \in Marks(text) \cup Starts(text) : ~(x < h)
  <2>1. ASSUME NEW x \in Marks(text) \cup Starts(text) PROVE ~(x < h)
    <3>1. x \in Places(text) BY DEF Places
    <3>2. PICK n \in 1..Len(toks) : at[n] = x BY <1>5, <3>1
    <3>3. x >= h /\ x \in Nat BY <1>4, <1>5, <3>2
    <3> QED BY <1>5, <3>3
  <2> QED BY <2>1
<1>8. \A mark : Before(text, h, mark) = {} BY <1>7 DEF Before
<1>9. Cardinality({}) = 0 BY FS_EmptySet
<1>10. Depth(text, h) = 0
  <2>1. Before(text, h, "{") = {} /\ Before(text, h, "}") = {} BY <1>8
  <2>2. 0 - 0 = 0 OBVIOUS
  <2> QED BY <1>9, <2>1, <2>2, Zenon DEF Depth
<1>11. Opened(text, h, 0) = {} BY <1>8 DEF Opened
<1>12. Seen(text, h) = {} BY <1>7 DEF Seen
<1>13. ReadTo(text, h) BY <1>7 DEF ReadTo
<1>14. IsUnique({}) BY UniqueIs
<1>15. Len(Global) - 1 = 0
  <2>1. 1 - 1 = 0 OBVIOUS
  <2> QED BY <2>1, Depths, Zenon
<1>16. Len(<<>>) = 0 OBVIOUS
<1>17. IsLexed(at)' BY <1>1, <1>2, <1>4 DEF IsLexed, toks
<1>18. Follows(at)'
  BY <1>2, <1>6, <1>9, <1>10, <1>11, <1>12, <1>13, <1>14, <1>15, <1>16 DEF Follows
<1> QED BY <1>17, <1>18

\* While a text that can be read as it stands is parsed the parser follows it, or what is
\* left of it can break no rule.
FollowInv ==
  /\ phase = "start" => pos = 1 /\ mode = Global /\ servers = <<>>
  /\ WellSpaced(text) /\ NothingSwallowed(Statements(text)) =>
       /\ phase = "parsing" => RulesHold \/ \E at : IsLexed(at) /\ Follows(at)
       /\ phase = "parsed" => RulesHold

\* A step of the parser that does not end the file.
LEMMA ReadingFollows ==
  ASSUME NEW at, Reading(at), NothingSwallowed(Statements(text)), ParserStep, phase = "parsing",
         ~Refuse, ~EndOfFile
  PROVE  RulesHold \/ (IsLexed(at)' /\ Follows(at)')
<1>1. CASE NewLines BY <1>1, NewLinesFollow
<1>2. CASE RightBrace BY <1>2, RightBraceFollows
<1>3. CASE OpenServer BY <1>3, OpenServerFollows
<1>4. CASE OpenLocation BY <1>4, OpenLocationFollows
<1>5. CASE ServerDirective BY <1>5, ServerDirectiveFollows
<1>6. CASE CommonDirective BY <1>6, CommonFollows
<1>7. CASE LocationDirective /\ ~(UploadLocation /\ ~Location.upload)
  BY <1>7, LocationDirectiveFollows
<1>8. CASE UploadLocation /\ ~Location.upload
  <2>1. \A m \in Marks(text) : m < Here(at) BY <1>8, NothingAfter
  <2> QED BY <2>1, AllSeen
<1>9. ~OpenFails /\ ~Open /\ ~Unexpected /\ ~Unknown
  BY DEF OpenFails, Open, Unexpected, Unknown
<1> QED BY <1>1, <1>2, <1>3, <1>4, <1>5, <1>6, <1>7, <1>8, <1>9 DEF ParserStep

\* At the end of the file every statement has been seen.
LEMMA EndFollows ==
  ASSUME NEW at, Reading(at), EndOfFile
  PROVE  RulesHold
<1>1. /\ text \in Seq(STRING) /\ tokens \in Seq(Token) /\ pos \in Nat \ {0}
      /\ Lexed(text, tokens, at, Places(text))
  BY DEF Reading, PlaceInv, IsLexed
<1>2. Type(0) = "end" BY DEF EndOfFile, At
<1>3. pos \notin 1..Len(tokens)
  <2>1. ASSUME pos \in 1..Len(tokens) PROVE FALSE
    <3>1. DOMAIN tokens = 1..Len(tokens) /\ tokens[pos] \in Token
      BY <1>1, <2>1, LenProperties, ElementOfSeq
    <3>2. pos + 0 = pos BY <1>1
    <3>3. Type(0) = tokens[pos].type BY <2>1, <3>1, <3>2 DEF Type
    <3> QED BY <1>2, <3>1, <3>3 DEF Token, Mark
  <2> QED BY <2>1
<1>4. Here(at) = Len(text) + 1 BY <1>3 DEF Here, PlaceOf
<1>5. Marks(text) \in SUBSET (1..Len(text)) /\ Len(text) \in Nat BY <1>1, MarksAre
<1>6. \A m \in Marks(text) : m < Here(at) BY <1>4, <1>5
<1> QED BY <1>6, AllSeen

\* What a step that leaves the parser alone keeps.
LEMMA FollowStays == FollowInv /\ UNCHANGED configVars => FollowInv'
<1> SUFFICES ASSUME FollowInv, UNCHANGED configVars PROVE FollowInv' OBVIOUS
<1>1. UNCHANGED <<text, tokens, pos, mode, servers, phase>> BY DEF configVars
<1>2. Server' = Server BY <1>1 DEF Server
<1>3. \A at : Here(at)' = Here(at) BY <1>1 DEF Here
<1>4. \A at : IsLexed(at) => IsLexed(at)' BY <1>1 DEF IsLexed
<1>5. \A at : Follows(at) => Follows(at)' BY <1>1, <1>2, <1>3 DEF Follows
<1>6. RulesHold => RulesHold' BY <1>1 DEF RulesHold
<1> QED BY <1>1, <1>4, <1>5, <1>6 DEF FollowInv

\* Every step of the parser keeps it.
LEMMA ParserFollows == PlaceInv /\ IInv /\ FollowInv /\ ParserStep => FollowInv'
<1> SUFFICES ASSUME PlaceInv, IInv, FollowInv, ParserStep PROVE FollowInv' OBVIOUS
<1>1. phase' \in {"parsing", "parsed", "refused"} /\ text' = text BY ParserMoves
<1>2. RulesHold => RulesHold' BY <1>1 DEF RulesHold
<1>3. text \in Seq(STRING) BY ConfigAssumption DEF PlaceInv
<1>4. CASE Refuse BY <1>4 DEF Refuse, FollowInv
<1>5. ASSUME ~Refuse, WellSpaced(text), NothingSwallowed(Statements(text))
      PROVE  /\ phase' = "parsing" => RulesHold' \/ \E at : IsLexed(at)' /\ Follows(at)'
             /\ phase' = "parsed" => RulesHold'
  <2>1. CASE phase = "start"
    <3>1. Open
      BY <1>5, <2>1
      DEF ParserStep, OpenFails, NewLines, Unexpected, RightBrace, OpenServer, OpenLocation,
          Unknown, ServerDirective, Listen, ServerName, CommonDirective, RootDirective, Index,
          ErrorPage, Autoindex, ClientMaxBodySize, Return, LocationDirective, AllowedMethods,
          UploadAllowed, UploadLocation, Cgi, EndOfFile, Directive, Reads, At
    <3>2. phase' = "parsing" BY <3>1 DEF Open
    <3>3. pos = 1 /\ mode = Global /\ servers = <<>> BY <2>1 DEF FollowInv
    <3> QED BY <1>3, <1>5, <3>1, <3>2, <3>3, OpenFollows
  <2>2. CASE phase = "parsing" /\ RulesHold BY <1>2, <2>2
  <2>3. CASE phase = "parsing" /\ ~RulesHold
    <3>1. PICK at : IsLexed(at) /\ Follows(at) BY <1>5, <2>3 DEF FollowInv
    <3>2. Reading(at) BY <1>3, <3>1 DEF Reading
    <3>3. ~EndOfFile BY <2>3, <3>2, EndFollows
    <3>4. IsLexed(at)' /\ Follows(at)' BY <1>5, <2>3, <3>2, <3>3, ReadingFollows
    <3>5. phase' # "parsed"
      BY <1>5, <2>3, <3>3, Zenon
      DEF ParserStep, OpenFails, Open, NewLines, Unexpected, RightBrace, OpenServer, OpenLocation,
          Unknown, ServerDirective, Listen, ServerName, CommonDirective, RootDirective, Index,
          ErrorPage, Autoindex, ClientMaxBodySize, Return, LocationDirective, AllowedMethods,
          UploadAllowed, UploadLocation, Cgi, Directive, Advance
    <3> QED BY <3>4, <3>5
  <2>4. phase \in {"start", "parsing"}
    BY <1>5
    DEF ParserStep, OpenFails, Open, NewLines, Unexpected, RightBrace, OpenServer, OpenLocation,
        Unknown, ServerDirective, Listen, ServerName, CommonDirective, RootDirective, Index,
        ErrorPage, Autoindex, ClientMaxBodySize, Return, LocationDirective, AllowedMethods,
        UploadAllowed, UploadLocation, Cgi, EndOfFile, Directive, Reads, At
  <2> QED BY <2>1, <2>2, <2>3, <2>4
<1> QED BY <1>1, <1>4, <1>5 DEF FollowInv

\* Whatever the files hold, the rules are kept in every file that is accepted and that says
\* to its reader what it says to the lexer: the checks of the parser, which see one token
\* after another, add up to what docs/config_docs/yuliia_todo.md says of the whole file.
THEOREM AcceptedFilesKeepTheRules == Spec => []RulesAreKept
<1>1. Init => PlaceInv
  <2>1. <<>> \in Seq(Token) BY EmptySeq
  <2> QED BY <2>1 DEF Init, ConfigInit, PlaceInv, Stage, Reason
<1>2. Init => FollowInv BY DEF Init, ConfigInit, FollowInv, Global
<1>3. Init => IInv /\ PlaceInv /\ FollowInv BY <1>1, <1>2, InitHolds
<1>4. PlaceInv /\ IInv /\ FollowInv /\ [Next]_vars => FollowInv'
  <2> SUFFICES ASSUME PlaceInv, IInv, FollowInv, [Next]_vars PROVE FollowInv' OBVIOUS
  <2>1. CASE Configure
    <3>1. ParserStep BY <2>1 DEF Configure
    <3> QED BY <3>1, ParserFollows
  <2>2. CASE ~Configure
    <3>1. UNCHANGED configVars
      BY <2>2 DEF Next, vars, Construct, Configured, OpenPort, SocketFails, AddHandlerFails, Run,
           Sigint, RunReturns, Destroy
    <3> QED BY <3>1, FollowStays
  <2> QED BY <2>1, <2>2
<1>5. IInv /\ PlaceInv /\ FollowInv /\ [Next]_vars => IInv' /\ PlaceInv' /\ FollowInv'
  BY <1>4, NextKeeps, PlaceNextKeeps
<1>6. FollowInv => RulesAreKept
  BY Zenon DEF FollowInv, RulesAreKept, Readable, RulesHold
<1> QED BY <1>3, <1>5, <1>6, PTL DEF Spec
=============================================================================
