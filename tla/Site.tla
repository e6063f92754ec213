--------------------------------- MODULE Site ---------------------------------
(***************************************************************************)
(* A site: the servers of one port, the files below them, and the requests *)
(* it is asked one after the other.  Each is routed, checked and answered  *)
(* in one step: from prepareResponse on the server does nothing else, and  *)
(* what a script needs in between changes no file of the site.             *)
(***************************************************************************)
EXTENDS ResponseBuilder

CONSTANTS Char,        \* the characters of paths, URIs and names
          Sites,       \* configurations: sequences of servers
          Requests,    \* what clients ask, see IsRequest
          Broken,      \* what the parser has of a request when it refuses it
          Outputs,     \* what scripts write, <<>> for nothing
          SiteFiles,   \* the files there are at the start
          MaxRequests  \* bound on the number of requests

VARIABLES site,   \* the servers of the port
          files,  \* the content of every regular file
          up,     \* the program runs
          asked,  \* how many requests there have been
          last    \* the last request, the directives and the status it was
                  \* answered with, and the builder of the response

vars == <<site, files, up, asked, last>>

Path == Seq(Char)

\* A location as the configuration parser leaves it; its path begins with a slash.
LocationConfig ==
  {l \in [path : Path, root : Path, index : Seq(Path), errorPage : SUBSET [code : Int, page : Path],
          autoindex : {"on", "off", Unset}, maxSize : Int, methods : SUBSET Method,
          ret : [code : Int, text : Path], upload : BOOLEAN, uploadTo : Path, cgi : SUBSET Path] :
     l.path # <<>> /\ l.path[1] = "/"}

\* A server block has a location at least.
ServerConfig ==
  [port : Nat, hasListen : BOOLEAN, names : SUBSET STRING, isDefault : BOOLEAN,
   locations : Seq(LocationConfig) \ {<<>>}, root : Path, index : Seq(Path),
   errorPage : SUBSET [code : Int, page : Path], autoindex : {"on", "off"}, maxSize : Int,
   ret : [code : Int, text : Path]]

\* host is "" without a Host header; type is the Content-Type, "other" for none or any
\* other; length the announced length or 0.
IsRequest(r) ==
  LET Atom == [atom : {"boundary", "dashes", "CRLF", "text"}]
                \cup [atom : {"disposition"}, named : {TRUE}, filename : Path] \cup {NoFilename} IN
  r \in [host : STRING \cup {""}, method : Method, uri : Path, type : {"plain", "multipart", "other"},
         length : Nat, body : Seq(Atom), cookie : BOOLEAN]

\* A path that may be a file's: no directory has it.
IsPlace(path) == path \notin Dirs \cup {Nowhere}

\* What the parsers of the configuration and of requests let through.
ASSUME SiteAssumption ==
  /\ {"/"} \cup Range(DotDot) \cup Range(PlainTextName) \cup Range(Misread) \subseteq Char
  /\ Dirs \subseteq Path \ {Nowhere}
  /\ Sites \subseteq Seq(ServerConfig) \ {<<>>}
  /\ \A r \in Requests : IsRequest(r) /\ r.uri # <<>> /\ r.uri[1] = "/"
  /\ \A r \in Broken : IsRequest(r)
  /\ \A path \in DOMAIN SiteFiles : IsPlace(path)
  /\ MaxRequests \in Nat

NoRequest == [host |-> "", method |-> "GET", uri |-> <<>>, type |-> "other",
              length |-> 0, body |-> <<>>, cookie |-> FALSE]

NoConfig == Merge(DefaultServer, DefaultLocation)

Init == /\ site \in Sites
        /\ files = SiteFiles
        /\ up = TRUE
        /\ asked = 0
        /\ last = [request |-> NoRequest, config |-> NoConfig, status |-> 0,
                   response |-> Builder(SiteFiles)]

\* resolveServerAndLocation.
ConfigOf(request) ==
  LET server == MatchServer(site, request.host) IN
  Merge(server, MatchLocation(server, request.uri))

\* The status prepareResponse is called with: the checks of handleRead when the
\* header is over, the parser's verdict on the body, or 1 for REQUEST_VALID.
StatusOf(request, config) ==
  IF request.method \notin config.methods THEN 405
  ELSE IF request.length > config.maxSize THEN 413
  ELSE IF request.type = "multipart" /\ Refused(request.body) THEN 400
  ELSE 1

\* HttpRequest::isCgiRequest: what follows the last dot of the whole URI.
IsCgiRequest(request, config) ==
  LET dot == SelectLastInSeq(request.uri, LAMBDA x : x = ".") IN
  dot # 0 /\ SubSeq(request.uri, dot, Len(request.uri)) \in config.cgi

Answer(request, config, status, response) ==
  /\ up /\ asked < MaxRequests
  /\ asked' = asked + 1
  /\ up' = ~response.threw
  /\ files' = response.files
  /\ last' = [request |-> request, config |-> config, status |-> status,
              response |-> response]
  /\ UNCHANGED site

\* prepareResponse for a request that is read to its end, or refused before.
Serve(request) ==
  LET config == ConfigOf(request)
      status == StatusOf(request, config)
  IN  /\ ~(status = 1 /\ IsCgiRequest(request, config))
      /\ Answer(request, config, status, Build(files, config, request, status))

\* handleCgi, when the script is over: a script that wrote nothing makes a 502.
ServeScript(request) ==
  LET config == ConfigOf(request) IN
  /\ StatusOf(request, config) = 1 /\ IsCgiRequest(request, config)
  /\ \E output \in Outputs :
       Answer(request, config, 1,
              IF output = <<>> THEN Build(files, config, request, 502)
              ELSE BuildFromScript(files, config, request, output))

\* The parser refused the request before its header was over, and handleRead looks
\* for a server and a location with what there is.  A line that cannot be split
\* gives -1.
Refuse(request) ==
  LET config == ConfigOf(request) IN
  \E status \in {-1, 415} : Answer(request, config, status,
                                   Build(files, config, request, status))

\* The client stopped sending before that: there is neither.
CutShort == Answer(NoRequest, NoConfig, 400, Build(files, NoConfig, NoRequest, 400))

Next == \/ CutShort
        \/ \E request \in Broken : Refuse(request)
        \/ \E request \in Requests : Serve(request) \/ ServeScript(request)

Spec == Init /\ [][Next]_vars
=============================================================================
