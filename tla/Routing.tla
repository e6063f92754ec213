------------------------------- MODULE Routing --------------------------------
(***************************************************************************)
(* From a request to the directives that apply to it: ServerMatcher,       *)
(* LocationMatcher and MergedConfig (src/src/routing).                     *)
(*                                                                         *)
(* A path or a URI is a sequence of characters, because the matchers and   *)
(* the cutting of prefixes work on characters; names of one character are  *)
(* enough.  An unset directive is the value NoReturn, Unset, -1 or <<>>.   *)
(***************************************************************************)
EXTENDS Integers, SequencesExt

Method   == {"GET", "POST", "DELETE"}
Root     == <<"/">>
Unset    == "unset"
NoReturn == [code |-> 0, text |-> <<>>]

DefaultIndex == <<"default">>

\* ServerConfig::ServerConfig().  The megabyte a body may have is 1 here.
DefaultServer ==
  [port |-> 8080, hasListen |-> FALSE, names |-> {}, isDefault |-> FALSE, locations |-> <<>>,
   root |-> <<"w">>, index |-> <<>>, errorPage |-> {}, autoindex |-> "off", maxSize |-> 1,
   ret |-> NoReturn]

\* LocationConfig::LocationConfig().
DefaultLocation ==
  [path |-> Root, root |-> <<>>, index |-> <<>>, errorPage |-> {}, autoindex |-> Unset,
   maxSize |-> -1, methods |-> Method, ret |-> NoReturn,
   upload |-> FALSE, uploadTo |-> <<>>, cgi |-> {}]

-----------------------------------------------------------------------------
(* The matchers.                                                           *)

\* ServerMatcher::matchServer, among the servers of the port: by server_name,
\* else the default_server, else the first.
MatchServer(servers, host) ==
  LET named   == {i \in DOMAIN servers : host \in servers[i].names}
      default == {i \in DOMAIN servers : servers[i].isDefault}
  IN  servers[IF Len(servers) = 1 THEN 1
              ELSE IF named # {} THEN Min(named)
              ELSE IF default # {} THEN Min(default) ELSE 1]

\* isUriLongerThanLocation: the path ends in the middle of a name of the URI.
EndsInsideName(uri, path) ==
  Len(uri) > Len(path) /\ Last(path) # "/" /\ uri[Len(path) + 1] # "/"

\* Mistakes: a path that ends inside a name matches; any path does.
MatchesInsideName(path, uri) == IsPrefix(path, uri)
MatchesAnything(path, uri)   == ~EndsInsideName(uri, path)

Matches(path, uri) == IsPrefix(path, uri) /\ ~EndsInsideName(uri, path)

\* The scan of LocationMatcher::matchLocation: the longest match so far, which "/"
\* is from the start, and the index that goes with it.
LongestMatch(locations, uri) ==
  FoldLeftDomain(LAMBDA best, i :
                   LET path == locations[i].path IN
                   IF Matches(path, uri) /\ best.length < Len(path)
                     THEN [length |-> Len(path), index |-> i] ELSE best,
                 [length |-> 1, index |-> 1], locations)

\* LocationMatcher::matchLocation.  An exact match ends the scan; with no match
\* at all the first location of the server is taken, whatever its path.
MatchLocation(server, uri) ==
  LET locations == server.locations
      exact     == {i \in DOMAIN locations : locations[i].path = uri}
      index     == LongestMatch(locations, uri).index
  IN  IF exact # {} THEN locations[Min(exact)]
      ELSE IF index = 1 /\ uri = Root /\ locations[1].path # Root THEN DefaultLocation
      ELSE locations[index]

-----------------------------------------------------------------------------
(* MergedConfig: the location's directive, or else the server's.           *)

Merge(server, location) ==
  LET From(set, l, s) == IF set THEN l ELSE s IN
  [path      |-> location.path,
   methods   |-> location.methods,
   upload    |-> location.upload,
   uploadTo  |-> location.uploadTo,
   cgi       |-> location.cgi,
   ret       |-> From(location.ret # NoReturn, location.ret, server.ret),
   root      |-> From(location.root # <<>>, location.root, server.root),
   index     |-> From(location.index # <<>>, location.index, server.index),
   errorPage |-> From(location.errorPage # {}, location.errorPage, server.errorPage),
   autoindex |-> From(location.autoindex # Unset, location.autoindex, server.autoindex),
   maxSize   |-> From(location.maxSize # -1, location.maxSize, server.maxSize)]
=============================================================================
