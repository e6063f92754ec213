------------------------------- MODULE SiteProps -------------------------------
(***************************************************************************)
(* What the owner of a site and its visitors rely on.                      *)
(***************************************************************************)
EXTENDS Site

\* The types; no file takes the place of a directory, wherever a path leads.
TypeOK ==
  /\ site \in Sites /\ up \in BOOLEAN /\ asked \in 0..MaxRequests
  /\ \A path \in DOMAIN files : IsPlace(path)
  /\ IsRequest(last.request) /\ last.response.files = files

Response == last.response
Status   == Response.code
Answered == last.status # 0 /\ ~Response.threw

-----------------------------------------------------------------------------
(* Configurations.  The locations of a server are tried from the first, which is  *)
(* also the one that is taken when none fits, and a DELETE takes the query for a  *)
(* part of the name of the file.                                                  *)

\* If a server has "/" at all, it is the first location.
RootIsFirst(server) ==
  (\E l \in Range(server.locations) : l.path = Root) => server.locations[1].path = Root

PlainPaths(server) == \A l \in Range(server.locations) : "?" \notin Range(l.path)

\* "/" is the first location, and no path of a location has a "?".
SafeServer(server) == server.locations[1].path = Root /\ PlainPaths(server)

\* No directory or file of the site, and no file that is uploaded, has a "?" in its name.
PlainNames ==
  /\ \A servers \in Sites : \A i \in DOMAIN servers :
       /\ "?" \notin Range(servers[i].root)
       /\ \A l \in Range(servers[i].locations) :
            "?" \notin Range(l.root) \cup Range(l.uploadTo)
  /\ \A r \in Requests : \A i \in DOMAIN r.body :
       r.body[i].atom = "disposition" => "?" \notin Range(r.body[i].filename)
  /\ \A path \in Dirs \cup DOMAIN SiteFiles : "?" \notin Range(path)

\* A body that carries one file and nothing else, as a form sends it: between the two
\* boundaries a header with one disposition, an empty line, any content and a line end.
OneFile(body) ==
  LET n == Len(body)
      e == FirstPlace(body, HeaderEnd, 1)
  IN  /\ {i \in 1..n : body[i] = Delimiter} = {1, n - 1}
      /\ body[2] = NewLine /\ body[n] = Dashes /\ body[n - 2] = NewLine
      /\ e > 3 /\ e <= n - 4
      /\ \E d \in 3..e - 1 : {i \in 3..e - 1 : body[i].atom = "disposition"} = {d}

\* Where the parser finds one part, and a file in it, there is nothing else.
UploadsAreForms ==
  \A r \in Requests :
    /\ r.type = "multipart" /\ Cardinality(Slices(r.body)) = 1
    /\ \E part \in Parts(r.body) : part.filename # <<>>
    => OneFile(r.body)

-----------------------------------------------------------------------------
(* Routing.                                                                *)

\* The location's path is the URI's, or the path of a directory above it.
Covers(location, uri) ==
  \/ location.path = uri
  \/ IsPrefix(IF Last(location.path) = "/" THEN location.path
              ELSE Append(location.path, "/"), uri)

Covering(uri) ==
  LET server == MatchServer(site, last.request.host) IN
  {l \in Range(server.locations) : Covers(l, uri)}

\* Of the locations that cover a URI the one with the longest path decides
\* (config/default.conf:72), compared name by name and wherever it stands in the
\* file: the scan of matchLocation and its test of characters agree with that.
LongestPrefixWins ==
  LET covering == Covering(last.request.uri) IN
  Answered /\ covering # {} /\ QueryAt(last.request.uri) = 0 =>
    /\ \E l \in covering : l.path = last.config.path
    /\ \A l \in covering : Len(l.path) <= Len(last.config.path)

\* A URI that no location covers is answered, and by the directives of the server block
\* (README.md:57), not by those of a location.  But the first location is taken, and its
\* path cut off the URI (cutPrefixFromUri); when it is the longer of the two, substr
\* throws and no one catches it.
NoMatchUsesServer ==
  last.request # NoRequest /\ Covering(PathOf(last.request.uri)) = {} =>
    LET server == MatchServer(site, last.request.host) IN
    up /\ last.config = Merge(server, [DefaultLocation EXCEPT !.path = last.config.path])

\* What the code does ensure: no URI that a location other than "/" covers ends the
\* program.  Whichever location is taken in the end, what is cut off the URI is not longer
\* than it is before its query.
CoveredUrisAreSafe == ~up => \A l \in Covering(last.request.uri) : l.path = Root

-----------------------------------------------------------------------------
(* Responses.                                                              *)

\* A response has one status line, and it comes first, also when an error turns up
\* after a part of another header has been made.  Of a script's answer this holds
\* when the script starts with what the server expects.
StatusLines(header) == {i \in DOMAIN header : header[i].line = "status"}

ScriptAnswer == last.status = 1 /\ IsCgiRequest(last.request, last.config)

OneStatusLine ==
  Answered /\ ~ScriptAnswer =>
    /\ StatusLines(Response.header) = {1}
    /\ Response.header[1].code = Status

-----------------------------------------------------------------------------
(* Files.                                                                  *)

\* A request that is answered by an error has changed no file, though the checks
\* that refuse it are spread over the handler, the constructor and the methods.
RefusalChangesNothing ==
  [][last'.response.code >= 400 => files' = files]_vars

\* What is stored is the file the multipart parser finds in the body, under its
\* name, and nothing else changes: ResponseBuilder, which takes the body apart a
\* second time, agrees with it on every body that carries one part.
UploadIsStored ==
  [][LET r == last'.request IN
     /\ last' # last /\ r.method = "POST" /\ r.type = "multipart"
     /\ last'.response.code = 200 /\ last'.config.ret = NoReturn /\ ~(ScriptAnswer)'
     /\ Cardinality(Slices(r.body)) = 1
     => \A part \in Parts(r.body) : part.filename # <<>> =>
          files' = Put(files, Resolve(Join(last'.config.uploadTo, part.filename)),
                       part.content)]_vars

\* A DELETE that succeeds takes away the file that a GET of the same URI would have
\* been answered with, and no other.
DeleteRemovesWhatIsRead ==
  [][LET r == last'.request IN
     last' # last /\ r.method = "DELETE" /\ last'.response.code = 200
       /\ last'.config.ret = NoReturn /\ last'.status = 1 /\ ~(ScriptAnswer)'
     => LET read == BuildResponseGET(Builder(files), last'.config, PathOf(r.uri)) IN
        /\ read.body.from = "file"
        /\ \E path \in DOMAIN files : /\ files[path] = read.body.data
                                      /\ files' = Restrict(files, DOMAIN files \ {path})]_vars
=============================================================================
