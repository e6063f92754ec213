------------------------------- MODULE MCStartup -------------------------------
(***************************************************************************)
(* Configuration files for TLC: every pair of directives in every place,   *)
(* pairs of servers, and files that differ from a good one in one place.   *)
(***************************************************************************)
EXTENDS StartupProps

MCNumerals == [n \in {"0", "1", "2", "4", "80", "81", "8080", "65535", "65536", "200", "301",
                      "404", "418", "500"} |->
                 CASE n = "0" -> 0 [] n = "1" -> 1 [] n = "2" -> 2 [] n = "4" -> 4
                   [] n = "80" -> 80 [] n = "81" -> 81 [] n = "8080" -> 8080
                   [] n = "65535" -> 65535 [] n = "65536" -> 65536 [] n = "200" -> 200
                   [] n = "301" -> 301 [] n = "404" -> 404 [] n = "418" -> 418
                   [] n = "500" -> 500]

\* Words with a space between them.
Line(words) == FoldLeft(LAMBDA t, w : IF t = <<>> THEN w ELSE t \o <<"sp">> \o w, <<>>, words)
Say(words)  == Line(words) \o <<";", "nl">>

\* A directive whose words are one piece each.
Plain(pieces) == Say([i \in DOMAIN pieces |-> <<pieces[i]>>])

ServerOf(content) == <<"server", "sp", "{", "nl">> \o content \o <<"}", "nl">>
LocationOf(path, content) ==
  <<"location", "sp">> \o path \o <<"sp", "{", "nl">> \o content \o <<"}", "nl">>

Slash == <<"/">>
D     == <<"/", "d">>

Good ==
  {Plain(d) : d \in
    {<<"listen", "80">>, <<"listen", "8080", "default_server">>, <<"server_name", "a">>,
     <<"server_name", "a", "b">>, <<"root", "w">>, <<"root", "d">>, <<"index", "x">>,
     <<"index", "x", "i">>, <<"autoindex", "on">>, <<"autoindex", "off">>,
     <<"error_page", "404", "e">>, <<"error_page", "404", "f">>, <<"error_page", "500", "e">>,
     <<"client_max_body_size", "2">>, <<"return", "200">>, <<"return", "301", "x">>,
     <<"allowed_methods", "GET">>, <<"allowed_methods", "POST", "DELETE">>,
     <<"upload_allowed", "on">>, <<"upload_allowed", "off">>, <<"upload_location", "u">>,
     <<"cgi", "p", "c">>}}
  \cup {Say(<<<<"listen">>, <<"localhost", ":", "80">>>>),
        Say(<<<<"client_max_body_size">>, <<"1", "k">>>>)}

Bad ==
  {Plain(d) : d \in
    {<<"listen">>, <<"listen", "0">>, <<"listen", "65536">>, <<"listen", "80", "on">>,
     <<"listen", "x">>, <<"server_name">>, <<"root">>, <<"root", "w", "x">>, <<"index">>,
     <<"autoindex", "x">>, <<"error_page", "404">>, <<"error_page", "418", "e">>,
     <<"client_max_body_size", "0">>, <<"client_max_body_size", "4">>,
     <<"return", "301">>, <<"return", "418">>, <<"return", "200", "x", "y">>,
     <<"allowed_methods">>, <<"allowed_methods", "PUT">>,
     <<"allowed_methods", "GET", "GET", "GET", "GET">>, <<"upload_allowed", "x">>,
     <<"upload_location">>, <<"upload_location", "u", "v">>, <<"cgi", "p">>, <<"user", "x">>,
     <<"server">>, <<"location", "d">>}}
  \cup {Say(<<<<"listen">>, <<":", "80">>>>), Say(<<<<"listen">>, <<"80", ":">>>>),
        Say(<<<<"listen">>, <<"h", ":", "80">>>>),
        Say(<<<<"client_max_body_size">>, <<"1", "x">>>>),
        Say(<<<<"client_max_body_size">>, <<"1", "k", "k">>>>)}

Pairs ==
  UNION {{ServerOf(a \o b), ServerOf(LocationOf(Slash, a \o b)),
          ServerOf(a \o LocationOf(Slash, b)), ServerOf(LocationOf(D, a) \o b),
          ServerOf(LocationOf(Slash, a) \o LocationOf(D, b))} : a \in Good, b \in Good}

WithOneBad ==
  UNION {{ServerOf(g \o LocationOf(D, b)), ServerOf(LocationOf(D, g \o b))} : g \in Good, b \in Bad}
  \cup UNION {{ServerOf(b), ServerOf(LocationOf(Slash, b)), b, ServerOf(<<>>) \o b} :
           b \in Bad \cup Good}

Listens == {Plain(l) : l \in {<<"listen", "80">>, <<"listen", "80", "default_server">>,
                              <<"listen", "81">>, <<"listen", "8080", "default_server">>}}
             \cup {<<>>, Say(<<<<"listen">>, <<"127.0.0.1", ":", "80">>, <<"default_server">>>>)}

Two(a, b) == ServerOf(a) \o ServerOf(LocationOf(D, <<>>) \o b)

TwoServers == {Two(a, b) : a \in Listens, b \in Listens}

\* Of three servers the first and the last may want what the second has.
ThreeServers == {Two(a, b) \o ServerOf(c) : a \in Listens, b \in Listens, c \in Listens}

ThreeLocations ==
  {ServerOf(LocationOf(p, <<>>) \o LocationOf(q, Plain(<<"root", "x">>)) \o LocationOf(r, <<>>)) :
     p \in {Slash, D}, q \in {Slash, D}, r \in {Slash, D, <<"d">>, <<"/", "x">>}}

\* Files to be damaged: with comments, with uploads, with several servers.
Bases ==
  {ServerOf(Plain(<<"listen", "80">>) \o LocationOf(D, Plain(<<"autoindex", "on">>))
              \o Plain(<<"root", "x">>)),
   <<"#", "sp", "x", "nl">>
     \o ServerOf(<<"sp">> \o LocationOf(Slash, Plain(<<"upload_allowed", "on">>)
                   \o Plain(<<"upload_location", "u">>) \o Plain(<<"root", "w">>))),
   ServerOf(LocationOf(Slash, Plain(<<"upload_location", "u">>) \o Plain(<<"root", "w">>))),
   Two(Plain(<<"listen", "80", "default_server">>),
       Plain(<<"listen", "81", "default_server">>) \o <<"#", ";", "nl">>),
   ServerOf(Plain(<<"index", "x", "i">>) \o Plain(<<"server_name", "a", "b">>)
              \o LocationOf(D, Plain(<<"allowed_methods", "GET", "POST">>)
                   \o Plain(<<"error_page", "404", "e">>) \o Plain(<<"return", "200", "x">>)))}

Damage == {<<>>} \cup {<<c>> : c \in Mark \cup Space \cup {"#", "x"}}

Damaged ==
  UNION {{SubSeq(t, 1, i - 1) \o c \o SubSeq(t, i + 1, Len(t)) : i \in DOMAIN t, c \in Damage}
         \cup {SubSeq(t, 1, i - 1) \o c \o SubSeq(t, i, Len(t)) : i \in 1..(Len(t) + 1), c \in Damage}
         \cup {SubSeq(t, 1, i) : i \in DOMAIN t} : t \in Bases}

MCTexts == Pairs \cup WithOneBad \cup TwoServers \cup ThreeServers \cup ThreeLocations \cup Damaged
=============================================================================
