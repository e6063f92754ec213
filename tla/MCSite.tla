-------------------------------- MODULE MCSite --------------------------------
(***************************************************************************)
(* A small site for TLC.  w is the web root with a page i, a locked page k *)
(* and a directory d; u is where uploads go.  Both are below the directory *)
(* the server works in.                                                    *)
(***************************************************************************)
EXTENDS SiteProps

MCChar == {"/", ".", "?", "=", "1", "c", "d", "e", "f", "g", "i", "k", "m", "p", "q", "r",
           "t", "u", "w", "x"}

W(name) == <<"w", "/", name>>
U(name) == <<"u", "/", name>>
PageAt(path) == <<[atom |-> "page", of |-> path]>>

MCDirs   == {<<>>, <<"w">>, <<"w", "/", "d">>, <<"u">>, U("u")}
MCLocked == {W("k")}
MCFiles  == [p \in {W("i"), W("k"), W("e"), W("d") \o <<"/", "i">>,
                    U("f"), U("u") \o <<"/", "f">>} |->
               PageAt(p)]

Location(path) == [DefaultLocation EXCEPT !.path = path]

Loc    == Location(Root)
Docs   == [Location(<<"/", "d">>) EXCEPT !.methods = {"GET"}, !.autoindex = "on"]
Deep   == [Location(<<"/", "d", "/", "d", "/">>) EXCEPT !.root = <<"w">>, !.index = <<<<"k">>>>]
Upload == [Location(<<"/", "u">>) EXCEPT !.root = <<"u">>, !.upload = TRUE,
             !.uploadTo = <<"u">>, !.maxSize = 2, !.errorPage = {[code |-> 404, page |-> <<"f">>]}]
Moved  == [Location(<<"/", "r">>) EXCEPT !.ret = [code |-> 301, text |-> <<"/">>],
             !.methods = {"GET"}]
Script == [Location(<<"/", "c">>) EXCEPT !.cgi = {<<".", "p">>}]

Server(locations, names, default) ==
  [DefaultServer EXCEPT !.locations = locations, !.names = names, !.isDefault = default,
     !.index = <<<<"x">>, <<"i">>>>, !.errorPage = {[code |-> 404, page |-> <<"e">>],
                                                  [code |-> 403, page |-> <<"k">>]}]

MCSites ==
  {<<Server(<<Loc, Docs, Deep, Upload, Moved, Script>>, {"a"}, FALSE),
     Server(<<Loc>>, {"b"}, TRUE)>>,
   <<Server(<<Loc, Script, Moved, Upload, Deep, Docs>>, {"a"}, FALSE)>>}

\* A site without "/".
OddSites == {<<Server(<<Deep, Upload, Docs>>, {"a"}, FALSE)>>}
AnySites == MCSites \cup OddSites

Uris == {<<"/">>, <<"/", "/">>, <<"/", "i">>, <<"/", "k">>, <<"/", "x">>, <<"/", "d">>,
         <<"/", "d", "/">>, <<"/", "d", "x">>, <<"/", "d", "/", "d">>,
         <<"/", "d", "/", "d", "/">>, <<"/", "d", "/", "d", "/", "i">>,
         <<"/", "d", "/", "d", "i">>, <<"/", "u">>, <<"/", "u", "/", "f">>,
         <<"/", "u", "/", "g">>, <<"/", "u", "/", "t">>, <<"/", "r", "/">>, <<"/", "r">>,
         <<"/", "c", "/", ".", "p">>, <<"/", "c", "/", ".", "p", "/">>,
         <<"/", ".", "/", "i">>, <<"/", "i", "/", ".">>, <<"/", "d", "/", ".", ".">>,
         <<"/", "u", "/", "u", "/", ".", ".", "/", "f">>}
Queries == {<<>>, <<"?", "q">>, <<"?", "q", "=", "q">>, <<"?", "1">>, <<"?", "=", "=">>}

PartOf(disposition, content) ==
  <<Delimiter, NewLine, disposition, NewLine, NewLine>> \o content \o <<NewLine>>
Contents == {<<>>, <<Text>>, <<NewLine>>, <<Text, NewLine, NewLine, Text>>}
Bodies ==
  {PartOf(Disposition(n), c) \o Closing : n \in {<<"f">>, <<"u">>, <<".", "/", "f">>}, c \in Contents}
  \cup {PartOf(NoFilename, c) \o Closing : c \in Contents}
  \cup {PartOf(d, <<Text>>) \o PartOf(Disposition(<<"f">>), <<Text>>) \o Closing :
          d \in {NoFilename, Disposition(<<>>)}}
  \cup {PartOf(Disposition(<<>>), <<Text>>) \o Closing,
        <<Delimiter, NewLine, NewLine, NewLine>> \o Closing, Closing, <<Text>>,
        PartOf(Disposition(<<"/", "f">>), <<Text>>) \o Closing}

Ask(host, method, uri) == [NoRequest EXCEPT !.host = host, !.method = method, !.uri = uri]

Post(uri, type, body, length) ==
  [Ask("a", "POST", uri) EXCEPT !.type = type, !.body = body, !.length = length]
Form == PartOf(Disposition(<<"f">>), <<Text>>) \o Closing

MCRequests ==
  {Ask("a", m, u \o q) : m \in {"GET", "DELETE"}, u \in Uris, q \in {<<>>, <<"?", "q">>}}
  \cup {Ask(h, "GET", <<"/", "d">>) : h \in {"b", ""}}
  \cup {[Ask("a", m, <<"/", "i">> \o q) EXCEPT !.cookie = c] :
          m \in {"GET", "DELETE"}, q \in Queries, c \in BOOLEAN}
  \cup {Post(<<"/", "u">>, "multipart", b, 1) : b \in Bodies}
  \cup {Post(u, t, Form, n) : u \in {<<"/">>, <<"/", "d">>, <<"/", "u">>, <<"/", "u", "?", "1">>},
                              t \in {"plain", "multipart", "other"}, n \in {1, 2, 3}}
  \cup {Post(u, t, <<Text>>, 2) : u \in {<<"/">>, <<"/", "u">>}, t \in {"plain", "multipart"}}

\* A page that no location of OddSites covers.
StrayRequests == {Ask("a", "GET", <<"/", "i">>)}

\* The hypotheses of the theorems hold here.
ASSUME PlainSites ==
  /\ \A servers \in MCSites : \A i \in DOMAIN servers :
       RootIsFirst(servers[i]) /\ SafeServer(servers[i])
  /\ \A servers \in AnySites : \A i \in DOMAIN servers : PlainPaths(servers[i])
  /\ PlainNames /\ UploadsAreForms

MCBroken == {NoRequest, Ask("b", "GET", <<"/", "d", "?", "1">>)}

StatusAtom(code) == [atom |-> "status", code |-> code]
GoodOutputs == {<<>>, <<Text>>, <<NewLine, Text>>, <<[atom |-> "type"], NewLine, NewLine, Text>>,
                <<StatusAtom(404), NewLine, NewLine, Text>>, <<StatusAtom(0), NewLine>>}
MCOutputs   == GoodOutputs \cup {<<[atom |-> "other"], NewLine, [atom |-> "type"], NewLine, Text>>}
=============================================================================
