------------------------------ MODULE SiteProofs ------------------------------
(***************************************************************************)
(* Theorems about a site with any configurations, files and requests.      *)
(***************************************************************************)
EXTENDS SiteProps, SequenceFacts

-----------------------------------------------------------------------------
(* The scan of the locations.                                              *)

\* The scan of LongestMatch, location by location.
Scan(locations, uri, a) ==
  /\ a[0] = [length |-> 1, index |-> 1]
  /\ \A k \in 1..Len(locations) :
       a[k] = IF /\ Matches(locations[k].path, uri)
                 /\ a[k - 1].length < Len(locations[k].path)
                THEN [length |-> Len(locations[k].path), index |-> k] ELSE a[k - 1]

\* There is such a scan, and LongestMatch is its last step.
LEMMA LongestMatchScans ==
  ASSUME NEW locations \in Seq(LocationConfig), NEW uri
  PROVE  \E a : Scan(locations, uri, a) /\ LongestMatch(locations, uri) = a[Len(locations)]
<1> DEFINE n      == Len(locations)
           Step(best, i) ==
             LET path == locations[i].path IN
             IF Matches(path, uri) /\ best.length < Len(path)
               THEN [length |-> Len(path), index |-> i] ELSE best
           base   == [length |-> 1, index |-> 1]
           Id     == [i \in DOMAIN locations |-> i]
           G(it)  == [s \in SUBSET (DOMAIN Id) |->
                        IF s = {} THEN base
                        ELSE LET x == Max(s) IN Step(it[s \ {x}], Id[x])]
           R      == CHOOSE it : it = G(it)
           V      == [length : Nat, index : Nat]
           F      == [i \in 1..n |-> [best \in V |-> Step(best, i)]]
<1>1. LongestMatch(locations, uri) = R[DOMAIN Id]
  BY DEF LongestMatch, FoldLeftDomain, FoldLeft, MapThenFoldSet
<1>2. n \in Nat /\ DOMAIN locations = 1..n /\ \A i \in 1..n : Len(locations[i].path) \in Nat
  <2>1. n \in Nat /\ DOMAIN locations = 1..n BY LenProperties
  <2>2. ASSUME NEW i \in 1..n PROVE locations[i].path \in Seq(Char)
    <3>1. locations[i] \in LocationConfig BY ElementOfSeq
    <3> QED BY <3>1 DEF LocationConfig, Path
  <2> QED BY <2>1, <2>2, LenProperties
<1>3. DOMAIN Id = 1..n /\ \A i \in 1..n : Id[i] = i BY <1>2
<1> HIDE DEF n, Id
<1>4. base \in V OBVIOUS
<1>5. \A i \in 1..n : \A best \in V : Step(best, i) \in V BY <1>2
<1> HIDE DEF Step, V, base
<1>6. F \in [1..n -> [V -> V]] BY <1>5
<1>7. R = G(R)
  <2>1. PICK it : FoldsSets(V, base, n, F, it) 
    <3> HIDE DEF F
    <3> QED BY <1>2, <1>4, <1>6, FoldExists
  <2>2. /\ it \in [SUBSET (1..n) -> V]
        /\ it = [s \in SUBSET (1..n) |-> IF s = {} THEN base ELSE F[Max(s)][it[s \ {Max(s)}]]]
    BY <2>1 DEF FoldsSets
  <2>3. ASSUME NEW s \in SUBSET (1..n), s # {}
        PROVE  F[Max(s)][it[s \ {Max(s)}]] = Step(it[s \ {Max(s)}], Id[Max(s)])
    <3>1. Max(s) \in s BY <1>2, <2>3, RestIsSmaller
    <3>2. it[s \ {Max(s)}] \in V BY <2>2
    <3> QED BY <1>3, <3>1, <3>2
  <2>4. it = G(it)
    <3> HIDE DEF F
    <3>1. \A s \in SUBSET (1..n) :
            (IF s = {} THEN base ELSE F[Max(s)][it[s \ {Max(s)}]])
              = (IF s = {} THEN base ELSE Step(it[s \ {Max(s)}], Id[Max(s)]))
      BY <2>3
    <3>2. [s \in SUBSET (1..n) |-> IF s = {} THEN base ELSE F[Max(s)][it[s \ {Max(s)}]]]
            = G(it)
      BY <1>3, <3>1
    <3> QED BY <2>2, <3>2
  <2> QED BY <2>4
<1> HIDE DEF R
<1> DEFINE a == [k \in 0..n |-> R[1..k]]
<1>8. a[0] = base
  <2>1. 1..0 = {} /\ {} \in SUBSET (1..n) /\ 0 \in 0..n BY <1>2
  <2>2. R[{}] = base BY <1>3, <1>7, <2>1
  <2> QED BY <2>1, <2>2
<1>9. ASSUME NEW k \in 1..n PROVE a[k] = Step(a[k - 1], k)
  <2>1. k - 1 \in 0..n /\ k \in 0..n BY <1>2
  <2>2. 1..k \in SUBSET (1..n) /\ 1..k # {} /\ Max(1..k) = k /\ (1..k) \ {k} = 1..k - 1
    BY <1>2, <2>1, InitialSets
  <2>3. \A s \in SUBSET (1..n) : s # {} => R[s] = Step(R[s \ {Max(s)}], Id[Max(s)])
    BY <1>3, <1>7
  <2>4. R[1..k] = Step(R[(1..k) \ {k}], Id[k]) BY <2>2, <2>3, Zenon
  <2>5. R[1..k] = Step(R[1..k - 1], k) BY <1>3, <2>2, <2>4
  <2> QED BY <2>1, <2>5
<1>10. a[n] = R[DOMAIN Id] BY <1>2, <1>3
<1>11. Scan(locations, uri, a)
  <2> HIDE DEF a
  <2> QED BY <1>8, <1>9 DEF Scan, Step, n, base
<1> QED BY <1>1, <1>10, <1>11 DEF n

\* What the scan finds: no location that matches has a longer path than the best, and
\* the best is a location that matches, or still the "/" it starts from.
LEMMA LongestMatchIs ==
  ASSUME NEW locations \in Seq(LocationConfig), NEW uri \in Path
  PROVE  LET best == LongestMatch(locations, uri) IN
         /\ \A i \in DOMAIN locations :
              Matches(locations[i].path, uri) => Len(locations[i].path) <= best.length
         /\ \/ best.length = 1 /\ best.index = 1
            \/ /\ best.index \in DOMAIN locations
               /\ Matches(locations[best.index].path, uri)
               /\ best.length = Len(locations[best.index].path)
<1> DEFINE n      == Len(locations)
           L(i)   == Len(locations[i].path)
           M(i)   == Matches(locations[i].path, uri)
<1>1. PICK a : Scan(locations, uri, a) /\ LongestMatch(locations, uri) = a[n]
  BY LongestMatchScans
<1>2. n \in Nat /\ DOMAIN locations = 1..n /\ \A i \in 1..n : L(i) \in Nat \ {0}
  <2>1. n \in Nat /\ DOMAIN locations = 1..n BY LenProperties
  <2>2. ASSUME NEW i \in 1..n PROVE L(i) \in Nat \ {0}
    <3>1. locations[i] \in LocationConfig BY ElementOfSeq
    <3>2. locations[i].path \in Seq(Char) /\ locations[i].path # <<>>
      BY <3>1 DEF LocationConfig, Path
    <3> QED BY <3>2, EmptySeq
  <2> QED BY <2>1, <2>2
<1>3. /\ a[0] = [length |-> 1, index |-> 1]
      /\ \A k \in 1..n : a[k] = IF M(k) /\ a[k - 1].length < L(k)
                                  THEN [length |-> L(k), index |-> k] ELSE a[k - 1]
  BY <1>1 DEF Scan
<1> HIDE DEF n, L, M
<1> DEFINE Good(k) == /\ a[k].length \in Nat \ {0}
                      /\ \A i \in 1..k : M(i) => L(i) <= a[k].length
                      /\ \/ a[k].length = 1 /\ a[k].index = 1
                         \/ /\ a[k].index \in 1..n /\ M(a[k].index)
                            /\ a[k].length = L(a[k].index)
           G == {k \in 0..n : Good(k)}
<1>4. 0 \in G BY <1>2, <1>3
<1>5. ASSUME NEW k \in 1..n, k - 1 \in G PROVE k \in G
  <2>1. Good(k - 1) BY <1>5
  <2>2. k \in 0..n /\ L(k) \in Nat \ {0} /\ 1..k = (1..k - 1) \cup {k} BY <1>2
  <2>3. CASE M(k) /\ a[k - 1].length < L(k)
    <3>1. a[k] = [length |-> L(k), index |-> k] BY <1>3, <2>3
    <3>2. a[k].length = L(k) /\ a[k].index = k BY <3>1
    <3>3. \A i \in 1..k : M(i) => L(i) <= a[k].length
      <4> SUFFICES ASSUME NEW i \in 1..k, M(i) PROVE L(i) <= a[k].length OBVIOUS
      <4>1. i # k => L(i) <= a[k - 1].length BY <2>1, <2>2
      <4>2. L(i) \in Nat BY <1>2
      <4>3. a[k - 1].length \in Nat BY <2>1
      <4> QED BY <2>2, <2>3, <3>2, <4>1, <4>2, <4>3
    <3> QED BY <2>2, <2>3, <3>2, <3>3
  <2>4. CASE ~(M(k) /\ a[k - 1].length < L(k))
    <3>1. a[k] = a[k - 1] BY <1>3, <2>4
    <3>2. \A i \in 1..k : M(i) => L(i) <= a[k].length
      <4>1. M(k) => L(k) <= a[k - 1].length BY <2>1, <2>2, <2>4
      <4> QED BY <2>1, <2>2, <3>1, <4>1
    <3> QED BY <2>1, <2>2, <3>1, <3>2
  <2> QED BY <2>3, <2>4
<1>6. G = 0..n
  <2> HIDE DEF Good
  <2>1. G \in SUBSET (0..n) OBVIOUS
  <2> HIDE DEF G
  <2> QED BY <1>2, <1>4, <1>5, <2>1, UpTo
<1>7. Good(n) BY <1>2, <1>6
<1> QED BY <1>1, <1>2, <1>7 DEF n, L, M

-----------------------------------------------------------------------------
(* The matchers.                                                           *)

\* MatchServer picks one of the servers.
LEMMA ServerIsOne ==
  ASSUME NEW servers \in Seq(ServerConfig) \ {<<>>}, NEW host
  PROVE  MatchServer(servers, host) \in ServerConfig /\ MatchServer(servers, host) \in Range(servers)
<1>1. Len(servers) \in Nat \ {0} /\ DOMAIN servers = 1..Len(servers) BY LenProperties, EmptySeq
<1>2. ASSUME NEW T \in SUBSET DOMAIN servers, T # {} PROVE Min(T) \in DOMAIN servers
  <2>1. T \subseteq Nat BY <1>1
  <2> QED BY <1>2, <2>1, MinIsSmallest
<1>3. \E i \in DOMAIN servers : MatchServer(servers, host) = servers[i]
  <2> DEFINE named   == {i \in DOMAIN servers : host \in servers[i].names}
             default == {i \in DOMAIN servers : servers[i].isDefault}
             k == IF Len(servers) = 1 THEN 1
                  ELSE IF named # {} THEN Min(named)
                  ELSE IF default # {} THEN Min(default) ELSE 1
  <2>1. named \in SUBSET DOMAIN servers /\ default \in SUBSET DOMAIN servers OBVIOUS
  <2>2. MatchServer(servers, host) = servers[k] BY DEF MatchServer
  <2> HIDE DEF named, default
  <2>3. k \in DOMAIN servers BY <1>1, <1>2, <2>1
  <2> QED BY <2>2, <2>3
<1>4. \A i \in DOMAIN servers : servers[i] \in ServerConfig BY <1>1, ElementOfSeq
<1> QED BY <1>3, <1>4 DEF Range

\* MatchLocation picks one of the server's locations, or the one the server falls back
\* to when its first location is not "/".
LEMMA LocationIsOne ==
  ASSUME NEW server \in ServerConfig, NEW uri \in Path
  PROVE  LET l == MatchLocation(server, uri) IN
         /\ l \in LocationConfig
         /\ l \in Range(server.locations) \/ l = DefaultLocation
<1> DEFINE locations == server.locations
<1>1. locations \in Seq(LocationConfig) /\ locations # <<>> BY DEF ServerConfig
<1> HIDE DEF locations
<1>2. Len(locations) \in Nat \ {0} /\ DOMAIN locations = 1..Len(locations)
  BY <1>1, LenProperties, EmptySeq
<1> DEFINE exact == {i \in DOMAIN locations : locations[i].path = uri}
           index == LongestMatch(locations, uri).index
<1>3. index \in DOMAIN locations
  <2>1. 1 \in DOMAIN locations BY <1>2
  <2> QED BY <1>1, <2>1, LongestMatchIs
<1>4. exact # {} => Min(exact) \in DOMAIN locations
  <2>1. exact \subseteq DOMAIN locations /\ exact \subseteq Nat BY <1>2
  <2> HIDE DEF exact
  <2> QED BY <2>1, MinIsSmallest
<1>5. DefaultLocation \in LocationConfig
  <2>1. <<>> \in Path /\ <<>> \in Seq(Path) /\ Root \in Path /\ Root # <<>> /\ Root[1] = "/"
    <3>1. <<>> \in Seq(Char) /\ <<>> \in Seq(Path) BY EmptySeq
    <3>2. Root \in Seq(Char) /\ Len(Root) = 1 /\ Root[1] = "/"
      BY SiteAssumption DEF Root
    <3>3. Root # <<>> BY DEF Root
    <3> QED BY <3>1, <3>2, <3>3 DEF Path
  <2> QED BY <2>1 DEF DefaultLocation, LocationConfig, NoReturn, Method
<1>6. \A i \in DOMAIN locations : locations[i] \in LocationConfig BY <1>1, <1>2, ElementOfSeq
<1>7. MatchLocation(server, uri) =
        IF exact # {} THEN locations[Min(exact)]
        ELSE IF index = 1 /\ uri = Root /\ locations[1].path # Root THEN DefaultLocation
        ELSE locations[index]
  BY DEF MatchLocation, locations
<1> HIDE DEF exact, index
<1> QED BY <1>3, <1>4, <1>5, <1>6, <1>7 DEF Range, locations

\* Which location it is: that of the URI itself, or the longest that matches, or, when
\* nothing but "/" can match, the first or the fallback.
LEMMA MatchLocationIs ==
  ASSUME NEW server \in ServerConfig, NEW uri \in Path
  PROVE  LET l         == MatchLocation(server, uri)
             locations == server.locations
             Longest(n) == \A i \in DOMAIN locations :
                             Matches(locations[i].path, uri) => Len(locations[i].path) <= n
             Exact == \E i \in DOMAIN locations : locations[i].path = uri
         IN  \/ l \in Range(locations) /\ l.path = uri
             \/ /\ ~Exact /\ l \in Range(locations)
                /\ Matches(l.path, uri) /\ Longest(Len(l.path))
             \/ ~Exact /\ Longest(1) /\ uri = Root /\ l = DefaultLocation
             \/ ~Exact /\ Longest(1) /\ l = locations[1] /\ 1 \in DOMAIN locations
<1> DEFINE locations == server.locations
           l         == MatchLocation(server, uri)
           exact == {i \in DOMAIN locations : locations[i].path = uri}
           best  == LongestMatch(locations, uri)
           Longest(n) == \A i \in DOMAIN locations :
                           Matches(locations[i].path, uri) => Len(locations[i].path) <= n
<1>1. locations \in Seq(LocationConfig) /\ locations # <<>> BY DEF ServerConfig
<1>2. l = IF exact # {} THEN locations[Min(exact)]
          ELSE IF best.index = 1 /\ uri = Root /\ locations[1].path # Root THEN DefaultLocation
          ELSE locations[best.index]
  BY DEF MatchLocation
<1> HIDE DEF locations, l
<1>3. Len(locations) \in Nat \ {0} /\ DOMAIN locations = 1..Len(locations)
  BY <1>1, LenProperties, EmptySeq
<1>4. /\ Longest(best.length)
      /\ \/ best.length = 1 /\ best.index = 1
         \/ /\ best.index \in DOMAIN locations
            /\ Matches(locations[best.index].path, uri)
            /\ best.length = Len(locations[best.index].path)
  BY <1>1, LongestMatchIs
<1> HIDE DEF best
<1>5. CASE exact # {}
  <2>1. Min(exact) \in exact
    <3>1. exact \subseteq Nat BY <1>3
    <3> HIDE DEF exact
    <3> QED BY <1>5, <3>1, MinIsSmallest
  <2>2. l \in Range(locations) /\ l.path = uri
    <3>1. l = locations[Min(exact)] BY <1>2, <1>5
    <3> QED BY <2>1, <3>1 DEF Range
  <2> QED BY <2>2 DEF l, locations
<1>6. CASE exact = {}
  <2>1. ~\E i \in DOMAIN locations : locations[i].path = uri BY <1>6
  <2>2. l = IF best.index = 1 /\ uri = Root /\ locations[1].path # Root THEN DefaultLocation
            ELSE locations[best.index]
    BY <1>2, <1>6
  <2>3. 1 \in DOMAIN locations BY <1>3
  <2> HIDE DEF exact
  <2>4. CASE best.length = 1 /\ best.index = 1
    <3>1. Longest(1) BY <1>4, <2>4
    <3> HIDE DEF Longest
    <3>2. \/ uri = Root /\ l = DefaultLocation
          \/ l = locations[1]
      BY <2>2, <2>4
    <3> QED BY <2>1, <2>3, <3>1, <3>2 DEF l, locations, Longest
  <2>5. CASE ~(best.length = 1 /\ best.index = 1)
    <3>1. /\ best.index \in DOMAIN locations /\ Matches(locations[best.index].path, uri)
          /\ best.length = Len(locations[best.index].path)
      BY <1>4, <2>5
    <3>2. CASE best.index = 1 /\ uri = Root /\ locations[1].path # Root
      \* A location that matches "/" is "/".
      <4>1. Matches(locations[1].path, Root) BY <3>1, <3>2
      <4>2. locations[1].path \in Seq(Char) /\ locations[1].path # <<>>
        <5>1. locations[1] \in LocationConfig BY <1>1, <1>3, ElementOfSeq
        <5> QED BY <5>1 DEF LocationConfig, Path
      <4>3. Len(locations[1].path) \in Nat \ {0} BY <4>2, EmptySeq
      <4>4. Root \in Seq(Char) /\ Len(Root) = 1 BY SiteAssumption DEF Root
      <4>5. Len(locations[1].path) = 1
        <5> DEFINE a == Len(locations[1].path)
                   b == Len(Root)
        <5>1. a <= b BY <4>1 DEF Matches, IsPrefix
        <5>2. a \in Nat \ {0} /\ b = 1 BY <4>3, <4>4
        <5> HIDE DEF a, b
        <5>3. a = 1 BY <5>1, <5>2
        <5> QED BY <5>3 DEF a
      <4>6. SubSeq(locations[1].path, 1, 1) = SubSeq(Root, 1, 1)
        BY <4>1, <4>5 DEF Matches, IsPrefix
      <4>7. locations[1].path = Root BY <4>2, <4>4, <4>5, <4>6, SubSeqFull
      <4> QED BY <3>2, <4>7
    <3>3. CASE ~(best.index = 1 /\ uri = Root /\ locations[1].path # Root)
      <4>1. l = locations[best.index] BY <2>2, <3>3
      <4>2. l \in Range(locations) BY <3>1, <4>1 DEF Range
      <4>3. Matches(l.path, uri) /\ Longest(Len(l.path)) BY <1>4, <3>1, <4>1
      <4> HIDE DEF Longest
      <4> QED BY <2>1, <4>2, <4>3 DEF l, locations, Longest
    <3> QED BY <3>2, <3>3
  <2> QED BY <2>4, <2>5
<1> QED BY <1>5, <1>6

\* A path that begins with a slash and has one character is "/".
LEMMA OneSlash ==
  ASSUME NEW path \in Path, path # <<>>, path[1] = "/", Len(path) <= 1
  PROVE  path = Root
<1>1. path \in Seq(Char) BY DEF Path
<1>2. Len(path) = 1
  <2>1. Len(path) \in Nat \ {0} BY <1>1, EmptySeq
  <2> QED BY <2>1
<1>3. Root \in Seq(Char) /\ Len(Root) = 1 /\ Root[1] = "/" BY SiteAssumption DEF Root
<1> QED BY <1>1, <1>2, <1>3, SeqEqual

\* A location covers the URIs that its path matches, its own among them.
LEMMA CoversIsMatches ==
  ASSUME NEW l \in LocationConfig, NEW uri \in Path
  PROVE  Covers(l, uri) <=> l.path = uri \/ Matches(l.path, uri)
<1> DEFINE p == l.path
           n == Len(p)
           m == Len(uri)
<1>1. p \in Seq(Char) /\ p # <<>> /\ p[1] = "/" /\ uri \in Seq(Char) BY DEF LocationConfig, Path
<1>2. n \in Nat \ {0} /\ m \in Nat BY <1>1, EmptySeq, LenProperties
<1> DEFINE q == Append(p, "/")
<1>3. Covers(l, uri) <=> p = uri \/ IsPrefix(IF Last(p) = "/" THEN p ELSE q, uri)
  BY DEF Covers
<1> HIDE DEF p
<1>4. /\ q \in Seq(Char) /\ Len(q) = n + 1 /\ q[n + 1] = "/"
      /\ \A i \in 1..n : q[i] = p[i]
  BY <1>1, AppendProperties, SiteAssumption
<1> HIDE DEF q
<1>5. CASE Last(p) = "/"
  <2>1. Matches(p, uri) <=> IsPrefix(p, uri) BY <1>5 DEF Matches, EndsInsideName
  <2> QED BY <1>3, <1>5, <2>1 DEF p
<1>6. CASE Last(p) # "/"
  <2>1. IsPrefix(q, uri) <=> IsPrefix(p, uri) /\ n < m /\ uri[n + 1] = "/"
    <3>1. \A s \in Seq(Char) :
            IsPrefix(s, uri) <=> Len(s) <= m /\ \A i \in 1..Len(s) : s[i] = uri[i]
      BY <1>1, PrefixIs
    <3>2. IsPrefix(q, uri) <=> n + 1 <= m /\ \A i \in 1..n + 1 : q[i] = uri[i] BY <1>4, <3>1
    <3>3. IsPrefix(p, uri) <=> n <= m /\ \A i \in 1..n : p[i] = uri[i] BY <1>1, <3>1
    <3>4. 1..n + 1 = (1..n) \cup {n + 1} BY <1>2
    <3> QED BY <1>2, <1>4, <3>2, <3>3, <3>4
  <2>2. Matches(p, uri) <=> IsPrefix(p, uri) /\ (n < m => uri[n + 1] = "/")
    BY <1>2, <1>6 DEF Matches, EndsInsideName
  <2>3. IsPrefix(p, uri) /\ ~(n < m) => p = uri
    BY <1>1, <1>2, SubSeqFull DEF IsPrefix
  <2> QED BY <1>3, <1>6, <2>1, <2>2, <2>3 DEF p
<1> QED BY <1>5, <1>6

\* When a location covers the URI, MatchLocation gives the one with the longest path.
LEMMA LongestIsMatched ==
  ASSUME NEW server \in ServerConfig, RootIsFirst(server), NEW uri \in Path,
         NEW c \in Range(server.locations), Covers(c, uri)
  PROVE  LET l == MatchLocation(server, uri) IN
         /\ \E k \in Range(server.locations) : Covers(k, uri) /\ k.path = l.path
         /\ Len(c.path) <= Len(l.path)
<1> DEFINE locations == server.locations
           l == MatchLocation(server, uri)
<1>1. locations \in Seq(LocationConfig) BY DEF ServerConfig
<1>2. \A k \in Range(locations) : k \in LocationConfig
  <2>1. DOMAIN locations = 1..Len(locations) BY <1>1, LenProperties
  <2> QED BY <1>1, <2>1, ElementOfSeq DEF Range
<1>3. /\ c.path \in Seq(Char) /\ c.path # <<>> /\ c.path[1] = "/" /\ c.path \in Path
  BY <1>2 DEF LocationConfig, Path
<1>4. Len(c.path) \in Nat \ {0} /\ uri \in Seq(Char) /\ Len(uri) \in Nat
  BY <1>3, EmptySeq, LenProperties DEF Path
<1>5. c.path = uri \/ Matches(c.path, uri) BY <1>2, CoversIsMatches
<1>6. CASE l \in Range(locations) /\ l.path = uri
  <2>1. Len(c.path) <= Len(uri) BY <1>4, <1>5 DEF Matches, IsPrefix
  <2>2. Covers(l, uri) BY <1>6 DEF Covers
  <2> QED BY <1>6, <2>1, <2>2
<1>7. PICK j \in DOMAIN locations : c = locations[j] BY DEF Range
<1>8. CASE /\ l \in Range(locations) /\ Matches(l.path, uri)
           /\ ~\E i \in DOMAIN locations : locations[i].path = uri
           /\ \A i \in DOMAIN locations :
                Matches(locations[i].path, uri) => Len(locations[i].path) <= Len(l.path)
  <2>1. Covers(l, uri) BY <1>2, <1>8, CoversIsMatches
  <2>2. Matches(c.path, uri) BY <1>5, <1>7, <1>8
  <2> QED BY <1>7, <1>8, <2>1, <2>2
<1>9. CASE /\ ~\E i \in DOMAIN locations : locations[i].path = uri
           /\ \A i \in DOMAIN locations :
                Matches(locations[i].path, uri) => Len(locations[i].path) <= 1
           /\ \/ uri = Root /\ l = DefaultLocation
              \/ l = locations[1] /\ 1 \in DOMAIN locations
  <2>1. Matches(c.path, uri) /\ Len(c.path) <= 1 BY <1>5, <1>7, <1>9
  <2>2. c.path = Root BY <1>3, <2>1, OneSlash
  <2>3. uri # Root BY <1>7, <1>9, <2>2
  <2>4. l = locations[1] /\ 1 \in DOMAIN locations BY <1>9, <2>3
  <2>5. l.path = c.path BY <2>2, <2>4 DEF RootIsFirst
  <2> QED BY <1>4, <2>5
<1> QED BY <1>6, <1>8, <1>9, MatchLocationIs

-----------------------------------------------------------------------------
(* Builders.                                                               *)

HeaderLine == [line : {"status", "server", "type", "allow", "length", "end", "cookie",
                       "location", "script"},
               code : Known \cup {0}]

BuilderOf(f, h, c, e, y, t) ==
  [files |-> f, header |-> h, code |-> c, error |-> e, body |-> y, threw |-> t]

IsBuilder(b) ==
  /\ b = BuilderOf(b.files, b.header, b.code, b.error, b.body, b.threw)
  /\ b.header \in Seq(HeaderLine)

\* The fields of a builder, and what changing one leaves.
LEMMA BuilderFields ==
  ASSUME NEW f, NEW h \in Seq(HeaderLine), NEW c, NEW e, NEW y, NEW t
  PROVE  LET b == BuilderOf(f, h, c, e, y, t) IN
         /\ b.files = f /\ b.header = h /\ b.code = c /\ b.error = e /\ b.body = y /\ b.threw = t
         /\ IsBuilder(b)
BY DEF BuilderOf, IsBuilder

\* Changing one field of a builder is a builder with that field changed.
LEMMA BuilderWith ==
  ASSUME NEW b, IsBuilder(b), NEW x
  PROVE  /\ [b EXCEPT !.files = x] = BuilderOf(x, b.header, b.code, b.error, b.body, b.threw)
         /\ [b EXCEPT !.header = x] = BuilderOf(b.files, x, b.code, b.error, b.body, b.threw)
         /\ [b EXCEPT !.code = x] = BuilderOf(b.files, b.header, x, b.error, b.body, b.threw)
         /\ [b EXCEPT !.error = x] = BuilderOf(b.files, b.header, b.code, x, b.body, b.threw)
         /\ [b EXCEPT !.body = x] = BuilderOf(b.files, b.header, b.code, b.error, x, b.threw)
         /\ [b EXCEPT !.threw = x] = BuilderOf(b.files, b.header, b.code, b.error, b.body, x)
<1> DEFINE f == b.files
           h == b.header
           c == b.code
           e == b.error
           y == b.body
           t == b.threw
<1>1. b = BuilderOf(f, h, c, e, y, t) BY DEF IsBuilder
<1> HIDE DEF f, h, c, e, y, t
<1>2. /\ [b EXCEPT !.files = x] = BuilderOf(x, h, c, e, y, t)
      /\ [b EXCEPT !.header = x] = BuilderOf(f, x, c, e, y, t)
      /\ [b EXCEPT !.code = x] = BuilderOf(f, h, x, e, y, t)
      /\ [b EXCEPT !.error = x] = BuilderOf(f, h, c, x, y, t)
      /\ [b EXCEPT !.body = x] = BuilderOf(f, h, c, e, x, t)
      /\ [b EXCEPT !.threw = x] = BuilderOf(f, h, c, e, y, x)
  BY <1>1 DEF BuilderOf
<1> QED BY <1>2 DEF f, h, c, e, y, t

\* A field of a builder is set.
SameBut(b, b2, k) ==
  /\ IsBuilder(b2)
  /\ k # "files" => b2.files = b.files
  /\ k # "header" => b2.header = b.header
  /\ k # "code" => b2.code = b.code
  /\ k # "error" => b2.error = b.error
  /\ k # "body" => b2.body = b.body
  /\ k # "threw" => b2.threw = b.threw

\* The same, said field by field: what is set is read, and the others are as they were.
LEMMA FieldSet ==
  ASSUME NEW b, IsBuilder(b), NEW x
  PROVE  /\ LET b2 == [b EXCEPT !.files = x] IN SameBut(b, b2, "files") /\ b2.files = x
         /\ x \in Seq(HeaderLine) =>
              LET b2 == [b EXCEPT !.header = x] IN SameBut(b, b2, "header") /\ b2.header = x
         /\ LET b2 == [b EXCEPT !.code = x] IN SameBut(b, b2, "code") /\ b2.code = x
         /\ LET b2 == [b EXCEPT !.error = x] IN SameBut(b, b2, "error") /\ b2.error = x
         /\ LET b2 == [b EXCEPT !.body = x] IN SameBut(b, b2, "body") /\ b2.body = x
         /\ LET b2 == [b EXCEPT !.threw = x] IN SameBut(b, b2, "threw") /\ b2.threw = x
<1>1. b.header \in Seq(HeaderLine) BY DEF IsBuilder
<1>2. /\ LET b2 == BuilderOf(x, b.header, b.code, b.error, b.body, b.threw) IN
           SameBut(b, b2, "files") /\ b2.files = x
      /\ x \in Seq(HeaderLine) =>
           LET b2 == BuilderOf(b.files, x, b.code, b.error, b.body, b.threw) IN
           SameBut(b, b2, "header") /\ b2.header = x
      /\ LET b2 == BuilderOf(b.files, b.header, x, b.error, b.body, b.threw) IN
           SameBut(b, b2, "code") /\ b2.code = x
      /\ LET b2 == BuilderOf(b.files, b.header, b.code, x, b.body, b.threw) IN
           SameBut(b, b2, "error") /\ b2.error = x
      /\ LET b2 == BuilderOf(b.files, b.header, b.code, b.error, x, b.threw) IN
           SameBut(b, b2, "body") /\ b2.body = x
      /\ LET b2 == BuilderOf(b.files, b.header, b.code, b.error, b.body, x) IN
           SameBut(b, b2, "threw") /\ b2.threw = x
  BY <1>1, BuilderFields DEF SameBut
<1>3. /\ [b EXCEPT !.files = x] = BuilderOf(x, b.header, b.code, b.error, b.body, b.threw)
      /\ [b EXCEPT !.header = x] = BuilderOf(b.files, x, b.code, b.error, b.body, b.threw)
      /\ [b EXCEPT !.code = x] = BuilderOf(b.files, b.header, x, b.error, b.body, b.threw)
      /\ [b EXCEPT !.error = x] = BuilderOf(b.files, b.header, b.code, x, b.body, b.threw)
      /\ [b EXCEPT !.body = x] = BuilderOf(b.files, b.header, b.code, b.error, x, b.threw)
      /\ [b EXCEPT !.threw = x] = BuilderOf(b.files, b.header, b.code, b.error, b.body, x)
  BY BuilderWith, Zenon
<1> DEFINE f2 == [b EXCEPT !.files = x]
           h2 == [b EXCEPT !.header = x]
           c2 == [b EXCEPT !.code = x]
           e2 == [b EXCEPT !.error = x]
           y2 == [b EXCEPT !.body = x]
           t2 == [b EXCEPT !.threw = x]
<1>4. /\ f2 = BuilderOf(x, b.header, b.code, b.error, b.body, b.threw)
      /\ h2 = BuilderOf(b.files, x, b.code, b.error, b.body, b.threw)
      /\ c2 = BuilderOf(b.files, b.header, x, b.error, b.body, b.threw)
      /\ e2 = BuilderOf(b.files, b.header, b.code, x, b.body, b.threw)
      /\ y2 = BuilderOf(b.files, b.header, b.code, b.error, x, b.threw)
      /\ t2 = BuilderOf(b.files, b.header, b.code, b.error, b.body, x)
  BY <1>3
<1> HIDE DEF f2, h2, c2, e2, y2, t2
<1>5. /\ SameBut(b, f2, "files") /\ f2.files = x
      /\ x \in Seq(HeaderLine) => SameBut(b, h2, "header") /\ h2.header = x
      /\ SameBut(b, c2, "code") /\ c2.code = x
      /\ SameBut(b, e2, "error") /\ e2.error = x
      /\ SameBut(b, y2, "body") /\ y2.body = x
      /\ SameBut(b, t2, "threw") /\ t2.threw = x
  BY <1>2, <1>4
<1> QED BY <1>5 DEF f2, h2, c2, e2, y2, t2

\* The header starts with the status line, which gives the builder's code, and has no
\* other.
Headed(b) == StatusLines(b.header) = {1} /\ b.header[1].code = b.code

\* b2 has the same files as b and has thrown if b has.
SameEnds(b, b2) == b2.files = b.files /\ b2.threw = b.threw

\* A builder starts with nothing, on the files there are.
LEMMA BuilderStarts ==
  ASSUME NEW fs
  PROVE  LET b == Builder(fs) IN
         IsBuilder(b) /\ b.files = fs /\ b.header = <<>> /\ ~b.error /\ ~b.threw
<1> DEFINE b == Builder(fs)
<1>1. b = BuilderOf(fs, <<>>, -1, FALSE, NoBody, FALSE) BY DEF Builder, BuilderOf
<1>2. /\ b.files = fs /\ b.header = <<>> /\ b.code = -1 /\ b.body = NoBody
      /\ b.error = FALSE /\ b.threw = FALSE
  BY DEF Builder
<1>3. <<>> \in Seq(HeaderLine) BY EmptySeq
<1> HIDE DEF b
<1>4. IsBuilder(b) BY <1>1, <1>2, <1>3, Zenon DEF IsBuilder
<1>5. ~b.error /\ ~b.threw BY <1>2, Zenon
<1> QED BY <1>2, <1>4, <1>5, Zenon DEF b

\* A header grows by a line.
LEMMA AddIs ==
  ASSUME NEW b, IsBuilder(b), NEW what, Line(what) \in HeaderLine, what # "status"
  PROVE  LET b2 == Add(b, what) IN
         /\ IsBuilder(b2) /\ SameEnds(b, b2)
         /\ b2.code = b.code /\ b2.error = b.error /\ b2.body = b.body
         /\ Headed(b) => Headed(b2)
<1> DEFINE l  == Line(what)
           h  == b.header
           h2 == Append(h, l)
           b2 == [b EXCEPT !.header = h2]
<1>1. Add(b, what) = b2 BY DEF Add
<1>2. l \in HeaderLine /\ l.line # "status" BY DEF Line
<1>3. h \in Seq(HeaderLine) BY DEF IsBuilder
<1> HIDE DEF l, h
<1>4. /\ h2 \in Seq(HeaderLine) /\ Len(h2) = Len(h) + 1 /\ h2[Len(h) + 1] = l
      /\ \A i \in 1..Len(h) : h2[i] = h[i]
  BY <1>2, <1>3, AppendProperties
<1>5. Len(h) \in Nat /\ DOMAIN h = 1..Len(h) /\ DOMAIN h2 = 1..Len(h) + 1
  BY <1>3, <1>4, LenProperties
<1> HIDE DEF h2
<1>6. SameBut(b, Add(b, what), "header") /\ Add(b, what).header = h2
  <2>1. SameBut(b, b2, "header") /\ b2.header = h2 BY <1>4, FieldSet, Zenon
  <2> HIDE DEF b2
  <2> QED BY <1>1, <2>1, Zenon
<1>7. /\ IsBuilder(Add(b, what)) /\ SameEnds(b, Add(b, what))
      /\ Add(b, what).code = b.code /\ Add(b, what).error = b.error /\ Add(b, what).body = b.body
  BY <1>6 DEF SameBut, SameEnds
<1>8. ASSUME Headed(b) PROVE Headed(Add(b, what))
  <2>1. StatusLines(h) = {1} /\ h[1].code = b.code BY <1>8 DEF Headed, h
  <2>2. \A i \in DOMAIN h2 : h2[i].line = "status" <=> i \in DOMAIN h /\ h[i].line = "status"
    BY <1>2, <1>4, <1>5
  <2>3. StatusLines(h2) = StatusLines(h) BY <1>5, <2>2 DEF StatusLines
  <2>4. 1 \in DOMAIN h BY <2>1 DEF StatusLines
  <2> QED BY <1>4, <1>5, <1>6, <1>7, <2>1, <2>3, <2>4 DEF Headed
<1> QED BY <1>7, <1>8

\* What is taken for the code in the status line.
Meant(code) == IF code \in Known THEN code ELSE 500

\* The status line is written, and is the first when nothing else has been.
LEMMA SetStatusCodeIs ==
  ASSUME NEW b, IsBuilder(b)
  PROVE  LET b2 == SetStatusCode(b) IN
         /\ IsBuilder(b2) /\ SameEnds(b, b2) /\ (b.header = <<>> => Headed(b2))
         /\ b2.code = Meant(b.code) /\ b2.error = b.error /\ b2.body = b.body
<1> DEFINE c  == Meant(b.code)
           g  == b.header
           h  == Append(g, StatusLine(c))
           b1 == [b EXCEPT !.code = c]
           b2 == [b1 EXCEPT !.header = h]
<1>1. SetStatusCode(b) = b2 BY DEF SetStatusCode, Meant
<1>2. c \in Known BY DEF Meant, Known
<1> HIDE DEF c
<1>3. StatusLine(c) \in HeaderLine BY <1>2 DEF StatusLine, HeaderLine
<1>4. g \in Seq(HeaderLine) /\ (g = <<>> => Len(g) = 0) BY EmptySeq DEF IsBuilder
<1> HIDE DEF g
<1>5. h \in Seq(HeaderLine) /\ (g = <<>> => Len(h) = 1 /\ h[1] = StatusLine(c))
  BY <1>3, <1>4, AppendProperties
<1> HIDE DEF h
<1>7. ASSUME g = <<>> PROVE StatusLines(h) = {1}
  <2>1. h[1].line = "status" BY <1>5, <1>7 DEF StatusLine
  <2>2. DOMAIN h = 1..1 BY <1>5, <1>7, LenProperties
  <2> QED BY <2>1, <2>2 DEF StatusLines
<1>8. SameBut(b, b1, "code") /\ b1.code = c BY FieldSet, Zenon
<1>9. IsBuilder(b1) BY <1>8 DEF SameBut
<1> HIDE DEF b1
<1>10. SameBut(b1, b2, "header") /\ b2.header = h BY <1>5, <1>9, FieldSet, Zenon
<1> HIDE DEF b2
<1>11. /\ IsBuilder(b2) /\ SameEnds(b, b2) /\ b2.code = c
       /\ b2.error = b.error /\ b2.body = b.body
  BY <1>8, <1>10 DEF SameBut, SameEnds
<1>12. g = <<>> => Headed(b2) BY <1>5, <1>7, <1>10, <1>11 DEF Headed, StatusLine
<1> QED BY <1>1, <1>11, <1>12 DEF c, g

\* An error leaves nothing of the header.
LEMMA SetErrorStateIs ==
  ASSUME NEW b, IsBuilder(b), NEW code
  PROVE  LET b2 == SetErrorState(b, code) IN
         /\ IsBuilder(b2) /\ SameEnds(b, b2)
         /\ b2.header = <<>> /\ b2.error /\ b2.code = code
<1> DEFINE b1 == [b EXCEPT !.header = <<>>]
           b2 == [b1 EXCEPT !.error = TRUE]
           b3 == [b2 EXCEPT !.code = code]
<1>1. SetErrorState(b, code) = b3 BY DEF SetErrorState
<1>2. <<>> \in Seq(HeaderLine) BY EmptySeq
<1>3. SameBut(b, b1, "header") /\ b1.header = <<>> BY <1>2, FieldSet, Zenon
<1>4. IsBuilder(b1) BY <1>3 DEF SameBut
<1> HIDE DEF b1
<1>5. SameBut(b1, b2, "error") /\ b2.error = TRUE BY <1>4, FieldSet, Zenon
<1>6. IsBuilder(b2) BY <1>5 DEF SameBut
<1> HIDE DEF b2
<1>7. SameBut(b2, b3, "code") /\ b3.code = code BY <1>6, FieldSet, Zenon
<1> HIDE DEF b3
<1>8. IsBuilder(b3) /\ SameEnds(b, b3) /\ b3.header = <<>> /\ b3.code = code
  BY <1>3, <1>5, <1>7 DEF SameBut, SameEnds
<1>9. b3.error = TRUE BY <1>5, <1>7 DEF SameBut
<1> QED BY <1>1, <1>8, <1>9, Zenon

\* The header is begun.
LEMMA BeginIs ==
  ASSUME NEW b, IsBuilder(b), NEW code
  PROVE  LET b2 == Begin(b, code) IN
         /\ IsBuilder(b2) /\ SameEnds(b, b2) /\ (b.header = <<>> => Headed(b2))
         /\ b2.code = Meant(code) /\ b2.error = b.error
<1> DEFINE b1 == [b EXCEPT !.code = code]
           s  == SetStatusCode(b1)
<1>1. Begin(b, code) = Add(s, "server") BY DEF Begin
<1>2. SameBut(b, b1, "code") /\ b1.code = code BY FieldSet, Zenon
<1>3. IsBuilder(b1) /\ b1.header = b.header /\ SameEnds(b, b1) /\ b1.error = b.error
  BY <1>2 DEF SameBut, SameEnds
<1> HIDE DEF b1
<1>4. /\ IsBuilder(s) /\ SameEnds(b1, s) /\ (b1.header = <<>> => Headed(s))
      /\ s.code = Meant(b1.code) /\ s.error = b1.error
  BY <1>3, SetStatusCodeIs
<1> HIDE DEF s
<1>5. Line("server") \in HeaderLine BY DEF Line, HeaderLine
<1>6. LET b2 == Add(s, "server") IN
      /\ IsBuilder(b2) /\ SameEnds(s, b2) /\ (Headed(s) => Headed(b2))
      /\ b2.code = s.code /\ b2.error = s.error
  BY <1>4, <1>5, AddIs
<1> QED BY <1>1, <1>2, <1>3, <1>4, <1>6 DEF SameEnds

\* The header of a page, and the page.
LEMMA SuccessIs ==
  ASSUME NEW b, IsBuilder(b), NEW code, NEW body
  PROVE  LET b2 == Success(b, code, body) IN
         /\ IsBuilder(b2) /\ SameEnds(b, b2) /\ (b.header = <<>> => Headed(b2))
         /\ b2.code = Meant(code) /\ b2.error = b.error
<1> DEFINE b1 == Begin(b, code)
           s  == Add(b1, "type")
           b2 == [s EXCEPT !.body = body]
<1>1. Success(b, code, body) = b2 BY DEF Success
<1>2. /\ IsBuilder(b1) /\ SameEnds(b, b1) /\ (b.header = <<>> => Headed(b1))
      /\ b1.code = Meant(code) /\ b1.error = b.error
  BY BeginIs
<1> HIDE DEF b1
<1>3. Line("type") \in HeaderLine BY DEF Line, HeaderLine
<1>4. /\ IsBuilder(s) /\ SameEnds(b1, s) /\ (Headed(b1) => Headed(s))
      /\ s.code = b1.code /\ s.error = b1.error
  BY <1>2, <1>3, AddIs
<1> HIDE DEF s
<1>5. SameBut(s, b2, "body") BY <1>4, FieldSet, Zenon
<1> HIDE DEF b2
<1> QED BY <1>1, <1>2, <1>4, <1>5 DEF SameBut, SameEnds, Headed

\* The page for an error.
LEMMA BuildErrorResponseIs ==
  ASSUME NEW b, IsBuilder(b), NEW config
  PROVE  LET b2 == BuildErrorResponse(b, config) IN
         /\ IsBuilder(b2) /\ SameEnds(b, b2) /\ b2.code = Meant(b.code)
         /\ b.header = <<>> => Headed(b2)
<1> DEFINE b1 == SetStatusCode(b)
           b2 == IF b1.code = 405 THEN Add(b1, "allow") ELSE b1
           s  == Add(b2, "server")
           b3 == Add(s, "type")
<1>1. \E body : BuildErrorResponse(b, config) = [b3 EXCEPT !.body = body]
  BY Zenon DEF BuildErrorResponse
<1>2. /\ IsBuilder(b1) /\ SameEnds(b, b1) /\ b1.code = Meant(b.code)
      /\ b.header = <<>> => Headed(b1)
  BY SetStatusCodeIs
<1> HIDE DEF b1
<1>3. /\ Line("allow") \in HeaderLine /\ Line("server") \in HeaderLine
      /\ Line("type") \in HeaderLine
  BY DEF Line, HeaderLine
<1>4. IsBuilder(b2) /\ SameEnds(b1, b2) /\ (Headed(b1) => Headed(b2)) /\ b2.code = b1.code
  BY <1>2, <1>3, AddIs DEF SameEnds
<1> HIDE DEF b2
<1>5. IsBuilder(s) /\ SameEnds(b2, s) /\ (Headed(b2) => Headed(s)) /\ s.code = b2.code
  BY <1>3, <1>4, AddIs
<1> HIDE DEF s
<1>6. IsBuilder(b3) /\ SameEnds(s, b3) /\ (Headed(s) => Headed(b3)) /\ b3.code = s.code
  BY <1>3, <1>5, AddIs
<1> HIDE DEF b3
<1>7. PICK body : BuildErrorResponse(b, config) = [b3 EXCEPT !.body = body] BY <1>1
<1> DEFINE r == [b3 EXCEPT !.body = body]
<1>8. SameBut(b3, r, "body") BY <1>6, FieldSet, Zenon
<1>9. BuildErrorResponse(b, config) = r BY <1>7
<1> HIDE DEF r
<1>10. IsBuilder(r) /\ SameEnds(b, r) /\ r.code = Meant(b.code)
  BY <1>2, <1>4, <1>5, <1>6, <1>8 DEF SameBut, SameEnds
<1>11. b.header = <<>> => Headed(r)
  BY <1>2, <1>4, <1>5, <1>6, <1>8 DEF SameBut, Headed
<1> QED BY <1>9, <1>10, <1>11

-----------------------------------------------------------------------------
(* The methods.                                                            *)

\* What a method makes of a builder b that has not begun: only with code 200 are other
\* files left, an error has no header, and without one the header is begun.
Made(b, r) ==
  /\ IsBuilder(r)
  /\ r.error => r.header = <<>> /\ r.files = b.files /\ ~r.threw
  /\ r.threw => r.files = b.files
  /\ ~r.error /\ ~r.threw => Headed(r)
  /\ r.files # b.files => r.code = 200

\* A builder that has not begun, and one that has.
Unbegun(b) == IsBuilder(b) /\ b.header = <<>> /\ ~b.error /\ ~b.threw
Begun(b)   == IsBuilder(b) /\ Headed(b) /\ ~b.error /\ ~b.threw

\* SetErrorState has made an answer: the error's, with no file changed by it.
LEMMA FailureMakes ==
  ASSUME NEW b, NEW b1, IsBuilder(b1), b1.files = b.files, ~b1.threw, NEW code
  PROVE  LET r == SetErrorState(b1, code) IN
         Made(b, r) /\ r.error /\ r.code = code /\ ~r.threw
<1> DEFINE r == SetErrorState(b1, code)
<1>1. IsBuilder(r) /\ SameEnds(b1, r) /\ r.header = <<>> /\ r.error /\ r.code = code
  BY SetErrorStateIs
<1> HIDE DEF r
<1>2. r.files = b.files /\ ~r.threw BY <1>1 DEF SameEnds
<1> QED BY <1>1, <1>2 DEF Made, r

\* Success has made an answer, which is not an error's.
LEMMA SuccessMakes ==
  ASSUME NEW b, NEW b1, Unbegun(b1), NEW code, NEW body, b1.files = b.files \/ code = 200
  PROVE  LET r == Success(b1, code, body) IN
         Made(b, r) /\ r.files = b1.files /\ ~r.error /\ ~r.threw
<1> DEFINE r == Success(b1, code, body)
<1>1. /\ IsBuilder(r) /\ SameEnds(b1, r) /\ Headed(r)
      /\ r.code = Meant(code) /\ r.error = b1.error
  BY SuccessIs DEF Unbegun
<1> HIDE DEF r
<1>2. r.files = b1.files /\ ~r.threw /\ ~r.error BY <1>1 DEF SameEnds, Unbegun
<1>3. code = 200 => r.code = 200 BY <1>1 DEF Meant, Known
<1> QED BY <1>1, <1>2, <1>3 DEF Made, r

\* Begin has written the status line of the code it was given.
LEMMA BeginMakes ==
  ASSUME NEW b, Unbegun(b), NEW code
  PROVE  LET b2 == Begin(b, code) IN Begun(b2) /\ b2.files = b.files /\ b2.code = Meant(code)
<1> DEFINE r == Begin(b, code)
<1>1. /\ IsBuilder(r) /\ SameEnds(b, r) /\ Headed(r) /\ r.error = b.error /\ r.code = Meant(code)
  BY BeginIs DEF Unbegun
<1> HIDE DEF r
<1> QED BY <1>1 DEF Begun, Unbegun, SameEnds, r

\* The page of a header that has been begun.
LEMMA PageMakes ==
  ASSUME NEW b, NEW b1, Begun(b1), b1.files = b.files, NEW body
  PROVE  LET r == [Add(b1, "type") EXCEPT !.body = body] IN
         Made(b, r) /\ ~r.threw /\ r.files = b.files
<1> DEFINE s == Add(b1, "type")
           r == [s EXCEPT !.body = body]
<1>1. Line("type") \in HeaderLine BY DEF Line, HeaderLine
<1>2. IsBuilder(s) /\ SameEnds(b1, s) /\ Headed(s) /\ s.error = b1.error
  BY <1>1, AddIs DEF Begun
<1> HIDE DEF s
<1>3. SameBut(s, r, "body") /\ r.body = body BY <1>2, FieldSet, Zenon
<1> HIDE DEF r
<1>4. IsBuilder(r) /\ Headed(r) /\ r.files = b.files BY <1>2, <1>3 DEF SameBut, SameEnds, Headed
<1>5. ~r.error /\ ~r.threw BY <1>2, <1>3 DEF SameBut, SameEnds, Begun
<1>6. Made(b, r) /\ ~r.threw /\ r.files = b.files BY <1>3, <1>4, <1>5 DEF Made
<1> QED BY <1>6 DEF r, s

\* A builder that throws has made an answer that changes nothing.
LEMMA ThrowMakes ==
  ASSUME NEW b, Unbegun(b)
  PROVE  LET r == [b EXCEPT !.threw = TRUE] IN
         Made(b, r) /\ r.files = b.files /\ r.code = b.code
<1> DEFINE r == [b EXCEPT !.threw = TRUE]
<1>1. SameBut(b, r, "threw") /\ r.threw = TRUE BY FieldSet, Zenon DEF Unbegun
<1> HIDE DEF r
<1>2. IsBuilder(r) /\ r.files = b.files /\ ~r.error /\ r.code = b.code
  BY <1>1 DEF SameBut, Unbegun
<1>3. r.threw BY <1>1, Zenon
<1>4. Made(b, r) /\ r.files = b.files /\ r.code = b.code BY <1>2, <1>3 DEF Made
<1> QED BY <1>4 DEF r

\* Writing and removing leave a builder that has not begun.
LEMMA FilesChange ==
  ASSUME NEW b, Unbegun(b), NEW x
  PROVE  \A w : w = [b EXCEPT !.files = x] => Unbegun(w) /\ w.files = x
<1> DEFINE r == [b EXCEPT !.files = x]
<1>1. SameBut(b, r, "files") /\ r.files = x BY FieldSet, Zenon DEF Unbegun
<1> HIDE DEF r
<1>2. Unbegun(r) /\ r.files = x BY <1>1 DEF SameBut, Unbegun
<1> QED BY <1>2 DEF r

\* Serving a file makes an answer and changes no file.
LEMMA HandleFileMakes ==
  ASSUME NEW b, NEW b1, Begun(b1), b1.files = b.files, NEW path
  PROVE  LET r == HandleFile(b1, path) IN Made(b, r) /\ ~r.threw /\ r.files = b.files
<1> DEFINE body == Body("file", IF IsDir(path) THEN <<>> ELSE b1.files[Resolve(path)])
           r    == HandleFile(b1, path)
<1>1. IsBuilder(b1) /\ ~b1.threw BY DEF Begun
<1>2. CASE Resolve(path) \in Locked
  <2>1. r = SetErrorState(b1, 403) BY <1>2 DEF HandleFile
  <2>2. Made(b, r) /\ ~r.threw /\ r.error BY <1>1, <2>1, FailureMakes
  <2> QED BY <2>2 DEF Made
<1>3. CASE Resolve(path) \notin Locked
  <2>1. r = [Add(b1, "type") EXCEPT !.body = body] BY <1>3 DEF HandleFile
  <2> HIDE DEF body
  <2>2. LET r2 == [Add(b1, "type") EXCEPT !.body = body] IN
        Made(b, r2) /\ ~r2.threw /\ r2.files = b.files
    BY PageMakes, Zenon
  <2> HIDE DEF r
  <2> QED BY <2>1, <2>2, Zenon DEF r
<1> QED BY <1>2, <1>3

\* Serving a directory makes an answer and changes no file.
LEMMA HandleDirectoryMakes ==
  ASSUME NEW b, NEW b1, Begun(b1), b1.files = b.files, NEW config, NEW path
  PROVE  LET r == HandleDirectory(b1, config, path) IN Made(b, r) /\ ~r.threw /\ r.files = b.files
<1> DEFINE Exists(name) == Resolve(Join(path, name)) \in Dirs \cup DOMAIN b1.files
           k == SelectInSeq(config.index, Exists)
           r == HandleDirectory(b1, config, path)
           f == HandleFile(b1, Join(path, config.index[k]))
           e == SetErrorState(b1, 403)
           p == [Add(b1, "type") EXCEPT !.body = Body("listing", <<>>)]
<1>1. r = IF k # 0 THEN f ELSE IF config.autoindex = "off" THEN e ELSE p
  BY Zenon DEF HandleDirectory
<1>2. IsBuilder(b1) /\ ~b1.threw BY DEF Begun
<1>3. Made(b, f) /\ ~f.threw /\ f.files = b.files BY HandleFileMakes, Zenon
<1>4. Made(b, e) /\ ~e.threw /\ e.error BY <1>2, FailureMakes
<1>5. Made(b, p) /\ ~p.threw /\ p.files = b.files BY PageMakes, Zenon
<1> HIDE DEF f, e, p, k, r
<1>6. Made(b, r) /\ ~r.threw /\ r.files = b.files BY <1>1, <1>3, <1>4, <1>5 DEF Made
<1> QED BY <1>6 DEF r

\* A GET throws only when the location's path is longer than what it is cut off.
LEMMA GetMakes ==
  ASSUME NEW b, Unbegun(b), NEW config, NEW uri
  PROVE  LET r == BuildResponseGET(b, config, uri) IN
         Made(b, r) /\ r.files = b.files /\ (r.threw => CutThrows(config, uri))
<1> DEFINE path == Join(config.root, CutPrefixFromUri(config, uri))
           b1 == Begin(b, 200)
           r  == BuildResponseGET(b, config, uri)
           t  == [b EXCEPT !.threw = TRUE]
           f  == HandleFile(b1, path)
           d  == HandleDirectory(b1, config, path)
           e  == SetErrorState(b1, 404)
<1>1. r = IF CutThrows(config, uri) THEN t
          ELSE IF IsFile(b.files, path) THEN f ELSE IF IsDir(path) THEN d ELSE e
  BY DEF BuildResponseGET
<1>2. Begun(b1) /\ b1.files = b.files BY BeginMakes
<1> HIDE DEF b1, path
<1>3. Made(b, t) /\ t.files = b.files BY ThrowMakes
<1>4. Made(b, f) /\ ~f.threw /\ f.files = b.files BY <1>2, HandleFileMakes
<1>5. Made(b, d) /\ ~d.threw /\ d.files = b.files BY <1>2, HandleDirectoryMakes
<1>6. Made(b, e) /\ ~e.threw /\ e.error BY <1>2, FailureMakes DEF Begun
<1> HIDE DEF t, f, d, e, r
<1>7. Made(b, r) /\ r.files = b.files /\ (r.threw => CutThrows(config, uri))
  BY <1>1, <1>3, <1>4, <1>5, <1>6 DEF Made
<1> QED BY <1>7 DEF r

\* A POST does not throw.
LEMMA PostMakes ==
  ASSUME NEW b, Unbegun(b), NEW config, NEW request
  PROVE  LET r == BuildResponsePOST(b, config, request) IN Made(b, r) /\ ~r.threw
<1>1. IsBuilder(b) /\ ~b.threw BY DEF Unbegun
<1>2. \A code : LET e == SetErrorState(b, code) IN Made(b, e) /\ ~e.threw BY <1>1, FailureMakes
<1>3. ASSUME NEW path, NEW content
      PROVE  LET e == Success(Write(b, path, content), 200, DefaultPage) IN
             Made(b, e) /\ ~e.threw
  <2> DEFINE w == Write(b, path, content)
             x == Put(b.files, Resolve(path), content)
  <2>1. w = [b EXCEPT !.files = x] BY DEF Write
  <2> HIDE DEF x, w
  <2>2. Unbegun(w) BY <2>1, FilesChange, Zenon
  <2>3. LET e == Success(w, 200, DefaultPage) IN Made(b, e) /\ ~e.threw BY <2>2, SuccessMakes
  <2> QED BY <2>3 DEF w
<1>4. LET r == HandlePlainText(b, config, request.body) IN Made(b, r) /\ ~r.threw
  BY <1>2, <1>3, Zenon DEF HandlePlainText
<1>5. LET r == HandleUpload(b, config, request.type, request.body) IN Made(b, r) /\ ~r.threw
  <2> DEFINE path    == Join(config.uploadTo, FileNameToUpload(request.body))
             content == FileContent(request.type, request.body)
             e400    == SetErrorState(b, 400)
             e500    == SetErrorState(b, 500)
             done    == Success(Write(b, path, content), 200, DefaultPage)
             r       == HandleUpload(b, config, request.type, request.body)
  <2>1. r = IF FileNameToUpload(request.body) = <<>> THEN e400
            ELSE IF content = <<>> /\ request.type # "multipart" THEN e400
            ELSE IF ~MayOpen(path) THEN e500
            ELSE done
    BY DEF HandleUpload
  <2>2. Made(b, e400) /\ ~e400.threw BY <1>2, Zenon
  <2>3. Made(b, e500) /\ ~e500.threw BY <1>2, Zenon
  <2>4. Made(b, done) /\ ~done.threw BY <1>3, Zenon
  <2> HIDE DEF r, e400, e500, done
  <2>5. Made(b, r) /\ ~r.threw BY <2>1, <2>2, <2>3, <2>4
  <2> QED BY <2>5 DEF r
<1> QED BY <1>2, <1>4, <1>5, Zenon DEF BuildResponsePOST

\* A DELETE makes an answer, and throws only where the URI is cut past its end.
LEMMA DeleteMakes ==
  ASSUME NEW b, Unbegun(b), NEW config, NEW uri
  PROVE  LET r == BuildResponseDELETE(b, config, uri) IN
         Made(b, r) /\ (r.threw => CutThrows(config, uri))
<1> DEFINE path == FileToDelete(config, uri)
           r  == BuildResponseDELETE(b, config, uri)
           t  == [b EXCEPT !.threw = TRUE]
           w  == [b EXCEPT !.files = Restrict(@, DOMAIN @ \ {Resolve(path)})]
           d  == Success(w, 200, DefaultPage)
           e1 == SetErrorState(b, 403)
           e2 == SetErrorState(b, 404)
<1>1. r = IF CutThrows(config, uri) THEN t ELSE IF IsDir(path) THEN e1
          ELSE IF ~IsFile(b.files, path) THEN e2
          ELSE IF Resolve(path) \in Locked THEN e1 ELSE d
  BY DEF BuildResponseDELETE
<1>2. IsBuilder(b) /\ ~b.threw BY DEF Unbegun
<1>3. Made(b, t) BY ThrowMakes, Zenon
<1>4. Unbegun(w) BY FilesChange, Zenon
<1> HIDE DEF w, path
<1>5. Made(b, d) /\ ~d.threw BY <1>4, SuccessMakes
<1>6. Made(b, e1) /\ ~e1.threw /\ Made(b, e2) /\ ~e2.threw BY <1>2, FailureMakes
<1> HIDE DEF t, d, e1, e2, r
<1>7. Made(b, r) /\ (r.threw => CutThrows(config, uri)) BY <1>1, <1>3, <1>5, <1>6
<1> QED BY <1>7 DEF r

\* A return makes an answer and changes no file.
LEMMA ReturnMakes ==
  ASSUME NEW b, Unbegun(b), NEW ret
  PROVE  LET r == BuildReturn(b, ret) IN Made(b, r) /\ ~r.threw /\ r.files = b.files
<1> DEFINE b1 == Begin(b, ret.code)
           b2 == Add(b1, "location")
           r  == BuildReturn(b, ret)
           p1 == [Add(b2, "type") EXCEPT !.body = DefaultPage]
           p2 == [Add(b1, "type") EXCEPT !.body = Body("text", ret.text)]
<1>1. r = IF b1.code \in 301..308 THEN p1 ELSE p2 BY DEF BuildReturn
<1>2. Begun(b1) /\ b1.files = b.files BY BeginMakes
<1> HIDE DEF b1
<1>3. Line("location") \in HeaderLine BY DEF Line, HeaderLine
<1>4. Begun(b2) /\ b2.files = b.files
  <2>1. IsBuilder(b2) /\ SameEnds(b1, b2) /\ Headed(b2) /\ b2.error = b1.error
    BY <1>2, <1>3, AddIs DEF Begun
  <2> QED BY <1>2, <2>1 DEF Begun, SameEnds
<1> HIDE DEF b2
<1>5. Made(b, p1) /\ ~p1.threw /\ p1.files = b.files BY <1>4, PageMakes, Zenon
<1>6. Made(b, p2) /\ ~p2.threw /\ p2.files = b.files BY <1>2, PageMakes, Zenon
<1> HIDE DEF p1, p2, r
<1>7. Made(b, r) /\ ~r.threw /\ r.files = b.files BY <1>1, <1>5, <1>6
<1> QED BY <1>7 DEF r

\* What a POST that succeeds stores, and where.
Stores(config, request, path, content) ==
  /\ MayOpen(path)
  /\ \/ /\ request.type = "plain"
        /\ path = Join(config.root, PlainTextName) /\ content = request.body
     \/ /\ request.type # "plain" /\ config.upload /\ FileNameToUpload(request.body) # <<>>
        /\ path = Join(config.uploadTo, FileNameToUpload(request.body))
        /\ content = FileContent(request.type, request.body)

\* A POST that answers 200 has stored one file, and nothing else.
LEMMA PostSucceeds ==
  ASSUME NEW b, Unbegun(b), NEW config, NEW request,
         BuildResponsePOST(b, config, request).code = 200
  PROVE  \E path, content :
           /\ Stores(config, request, path, content)
           /\ BuildResponsePOST(b, config, request).files = Put(b.files, Resolve(path), content)
<1> DEFINE r == BuildResponsePOST(b, config, request)
           Stored(path, content) == Success(Write(b, path, content), 200, DefaultPage)
           Fails == {413, 403, 400, 500}
<1>1. \A code : SetErrorState(b, code).code = code BY SetErrorStateIs DEF Unbegun
<1>2. ASSUME NEW path, NEW content
      PROVE  Stored(path, content).files = Put(b.files, Resolve(path), content)
  <2> DEFINE w == Write(b, path, content)
             x == Put(b.files, Resolve(path), content)
  <2>1. w = [b EXCEPT !.files = x] BY DEF Write
  <2> HIDE DEF x, w
  <2>2. Unbegun(w) /\ w.files = x BY <2>1, FilesChange
  <2>3. Success(w, 200, DefaultPage).files = w.files BY <2>2, SuccessIs DEF Unbegun, SameEnds
  <2> QED BY <2>2, <2>3 DEF w, x
<1>3. \/ \E code \in Fails : r = SetErrorState(b, code)
      \/ \E path, content : Stores(config, request, path, content) /\ r = Stored(path, content)
  <2>1. CASE request.length > config.maxSize
    <3>1. r = SetErrorState(b, 413) BY <2>1 DEF BuildResponsePOST
    <3> QED BY <3>1
  <2>2. CASE ~(request.length > config.maxSize) /\ request.type = "plain"
    <3> DEFINE path == Join(config.root, PlainTextName)
    <3>1. r = HandlePlainText(b, config, request.body) BY <2>2 DEF BuildResponsePOST
    <3>2. r = IF ~MayOpen(path) THEN SetErrorState(b, 500) ELSE Stored(path, request.body)
      BY <3>1 DEF HandlePlainText
    <3>3. MayOpen(path) => Stores(config, request, path, request.body) BY <2>2 DEF Stores
    <3> HIDE DEF path, Stored, r
    <3> QED BY <3>2, <3>3
  <2>3. CASE ~(request.length > config.maxSize) /\ request.type # "plain" /\ config.upload
    <3> DEFINE path    == Join(config.uploadTo, FileNameToUpload(request.body))
               content == FileContent(request.type, request.body)
    <3>1. r = HandleUpload(b, config, request.type, request.body) BY <2>3 DEF BuildResponsePOST
    <3>2. r = IF FileNameToUpload(request.body) = <<>> THEN SetErrorState(b, 400)
              ELSE IF content = <<>> /\ request.type # "multipart" THEN SetErrorState(b, 400)
              ELSE IF ~MayOpen(path) THEN SetErrorState(b, 500)
              ELSE Stored(path, content)
      BY <3>1 DEF HandleUpload
    <3>3. MayOpen(path) /\ FileNameToUpload(request.body) # <<>>
            => Stores(config, request, path, content)
      BY <2>3 DEF Stores
    <3> HIDE DEF path, content, Stored, r
    <3> QED BY <3>2, <3>3
  <2>4. CASE ~(request.length > config.maxSize) /\ request.type # "plain" /\ ~config.upload
    <3>1. r = SetErrorState(b, 403) BY <2>4 DEF BuildResponsePOST
    <3> QED BY <3>1
  <2> QED BY <2>1, <2>2, <2>3, <2>4
<1> HIDE DEF Stored
<1> QED BY <1>1, <1>2, <1>3

\* What a DELETE that succeeds removes.
LEMMA DeleteSucceeds ==
  ASSUME NEW b, Unbegun(b), b.code # 200, NEW config, NEW uri,
         BuildResponseDELETE(b, config, uri).code = 200
  PROVE  LET path == FileToDelete(config, uri) IN
         /\ ~CutThrows(config, uri) /\ ~IsDir(path) /\ IsFile(b.files, path)
         /\ Resolve(path) \notin Locked
         /\ BuildResponseDELETE(b, config, uri).files
              = Restrict(b.files, DOMAIN b.files \ {Resolve(path)})
<1> DEFINE path == FileToDelete(config, uri)
           r  == BuildResponseDELETE(b, config, uri)
           t  == [b EXCEPT !.threw = TRUE]
           x  == Restrict(b.files, DOMAIN b.files \ {Resolve(path)})
           w  == [b EXCEPT !.files = x]
           d  == Success(w, 200, DefaultPage)
           e1 == SetErrorState(b, 403)
           e2 == SetErrorState(b, 404)
<1>1. r = IF CutThrows(config, uri) THEN t ELSE IF IsDir(path) THEN e1
          ELSE IF ~IsFile(b.files, path) THEN e2
          ELSE IF Resolve(path) \in Locked THEN e1 ELSE d
  BY DEF BuildResponseDELETE
<1>2. t.code = b.code BY ThrowMakes, Zenon
<1>3. e1.code = 403 /\ e2.code = 404 BY SetErrorStateIs DEF Unbegun
<1> HIDE DEF path, x
<1>4. Unbegun(w) /\ w.files = x
  <2>1. w = [b EXCEPT !.files = x] OBVIOUS
  <2> HIDE DEF w
  <2> QED BY <2>1, FilesChange
<1> HIDE DEF w
<1>5. d.files = x BY <1>4, SuccessIs DEF Unbegun, SameEnds
<1> HIDE DEF t, d, e1, e2
<1> QED BY <1>1, <1>2, <1>3, <1>5 DEF path, x

-----------------------------------------------------------------------------
(* The constructors.                                                       *)

\* Where substr throws: the prefix of the location is cut off what is too short.
Throws(config, request) ==
  \/ request.method = "GET" /\ CutThrows(config, PathOf(request.uri))
  \/ request.method = "DELETE" /\ CutThrows(config, request.uri)

\* Every method makes an answer, and throws only where the URI is cut past its end.
LEMMA BuildResponseMakes ==
  ASSUME NEW b, Unbegun(b), NEW config, NEW request, request.method \in Method
  PROVE  LET r == BuildResponse(b, config, request) IN
         Made(b, r) /\ (r.threw => Throws(config, request))
<1> DEFINE r  == BuildResponse(b, config, request)
           m  == request.method
           rt == BuildReturn(b, config.ret)
           e  == SetErrorState(b, 405)
           g  == BuildResponseGET(b, config, PathOf(request.uri))
           p  == BuildResponsePOST(b, config, request)
           d  == BuildResponseDELETE(b, config, request.uri)
<1>1. \/ r = rt
      \/ r = e
      \/ m = "GET" /\ r = g
      \/ m = "POST" /\ r = p
      \/ m = "DELETE" /\ r = d
  BY DEF BuildResponse, Method
<1>2. Made(b, rt) /\ ~rt.threw BY ReturnMakes
<1>3. Made(b, e) /\ ~e.threw BY FailureMakes DEF Unbegun
<1>4. Made(b, g) /\ (g.threw => CutThrows(config, PathOf(request.uri))) BY GetMakes
<1>5. Made(b, p) /\ ~p.threw BY PostMakes
<1>6. Made(b, d) /\ (d.threw => CutThrows(config, request.uri)) BY DeleteMakes
<1> HIDE DEF rt, e, g, p, d, r
<1>7. Made(b, r) /\ (r.threw => Throws(config, request))
  BY <1>1, <1>2, <1>3, <1>4, <1>5, <1>6 DEF Throws
<1> QED BY <1>7 DEF r

\* What a method that succeeds has done to the files.
LEMMA MethodSucceeds ==
  ASSUME NEW b, Unbegun(b), b.code # 200, NEW config, NEW request, request.method \in Method,
         BuildResponse(b, config, request).code = 200
  PROVE  LET m == BuildResponse(b, config, request) IN
         \/ (config.ret # NoReturn \/ request.method = "GET") /\ m.files = b.files
         \/ /\ config.ret = NoReturn /\ request.method = "POST"
            /\ \E path, content : /\ Stores(config, request, path, content)
                                  /\ m.files = Put(b.files, Resolve(path), content)
         \/ /\ config.ret = NoReturn /\ request.method = "DELETE"
            /\ m = BuildResponseDELETE(b, config, request.uri)
<1> DEFINE m  == BuildResponse(b, config, request)
           rt == BuildReturn(b, config.ret)
           e  == SetErrorState(b, 405)
           g  == BuildResponseGET(b, config, PathOf(request.uri))
           p  == BuildResponsePOST(b, config, request)
           d  == BuildResponseDELETE(b, config, request.uri)
<1>1. \/ config.ret # NoReturn /\ m = rt
      \/ config.ret = NoReturn /\ m = e
      \/ config.ret = NoReturn /\ request.method = "GET" /\ m = g
      \/ config.ret = NoReturn /\ request.method = "POST" /\ m = p
      \/ config.ret = NoReturn /\ request.method = "DELETE" /\ m = d
  BY DEF BuildResponse, Method
<1>2. rt.files = b.files BY ReturnMakes
<1>3. e.code = 405 BY SetErrorStateIs DEF Unbegun
<1>4. g.files = b.files BY GetMakes
<1>5. p.code = 200 => \E path, content : /\ Stores(config, request, path, content)
                                         /\ p.files = Put(b.files, Resolve(path), content)
  BY PostSucceeds
<1>6. m.code = 200 OBVIOUS
<1> HIDE DEF rt, e, g, p, d, m
<1>7. \/ (config.ret # NoReturn \/ request.method = "GET") /\ m.files = b.files
      \/ /\ config.ret = NoReturn /\ request.method = "POST"
         /\ \E path, content : /\ Stores(config, request, path, content)
                               /\ m.files = Put(b.files, Resolve(path), content)
      \/ config.ret = NoReturn /\ request.method = "DELETE" /\ m = d
  BY <1>1, <1>2, <1>3, <1>4, <1>5, <1>6
<1> QED BY <1>7 DEF m, d

\* The last lines of a header.
LEMMA EndIs ==
  ASSUME NEW b, IsBuilder(b), Headed(b)
  PROVE  LET r == End(b) IN Headed(r) /\ SameEnds(b, r) /\ r.code = b.code /\ r.body = b.body
<1> DEFINE s == Add(b, "length")
           r == Add(s, "end")
<1>1. Line("length") \in HeaderLine /\ Line("end") \in HeaderLine BY DEF Line, HeaderLine
<1>2. IsBuilder(s) /\ Headed(s) /\ SameEnds(b, s) /\ s.code = b.code /\ s.body = b.body
  BY <1>1, AddIs
<1> HIDE DEF s
<1>3. Headed(r) /\ SameEnds(s, r) /\ r.code = s.code /\ r.body = s.body BY <1>1, <1>2, AddIs
<1>4. End(b) = r BY DEF End, s
<1> HIDE DEF r
<1> QED BY <1>2, <1>3, <1>4 DEF SameEnds

\* A response, whatever is asked and found: it starts with its one status line, a code
\* other than 200 has changed no file, and it throws only where a prefix is too long.
LEMMA BuildIs ==
  ASSUME NEW fs, NEW config, NEW request, request.method \in Method, NEW status
  PROVE  LET r == Build(fs, config, request, status) IN
         /\ r.threw => status = 1 /\ Throws(config, request)
         /\ ~r.threw => Headed(r)
         /\ r.files # fs => r.code = 200
<1> DEFINE r  == Build(fs, config, request, status)
           b0 == Builder(fs)
           s  == SetErrorState(b0, status)
           m  == BuildResponse(b0, config, request)
           b1 == IF status # 1 THEN s ELSE m
           er == BuildErrorResponse(b1, config)
           b2 == IF b1.error THEN er ELSE b1
           q  == SetErrorState(b0, 400)
           eq == BuildErrorResponse(q, config)
           b3 == IF request.cookie \/ QueryOf(request.uri) # <<>> THEN Add(b2, "cookie") ELSE b2
<1>1. r = IF QueryIsBad(request.uri) THEN End(eq) ELSE IF b1.threw THEN b1 ELSE End(b3)
  BY Zenon DEF Build
<1>2. Unbegun(b0) /\ b0.files = fs BY BuilderStarts DEF Unbegun
<1> HIDE DEF b0
<1>3. IsBuilder(b0) /\ ~b0.threw BY <1>2 DEF Unbegun
<1>4. Made(b0, s) /\ ~s.threw BY <1>3, FailureMakes
<1>5. Made(b0, m) /\ (m.threw => Throws(config, request)) BY <1>2, BuildResponseMakes
<1>6. Made(b0, q) /\ q.error /\ ~q.threw BY <1>3, FailureMakes
<1> HIDE DEF s, m, q
<1>7. Made(b0, b1) /\ (b1.threw => status = 1 /\ Throws(config, request)) BY <1>4, <1>5
<1> HIDE DEF b1
<1>8. b1.error => IsBuilder(er) /\ Headed(er) /\ SameEnds(b1, er)
  BY <1>7, BuildErrorResponseIs DEF Made
<1> HIDE DEF er
<1>9. ASSUME ~b1.threw
      PROVE  IsBuilder(b2) /\ Headed(b2) /\ ~b2.threw /\ (b2.files # fs => b2.files = b1.files /\ b2.code = 200)
  <2>1. CASE b1.error
    <3>1. b2 = er BY <2>1, Zenon
    <3>2. er.files = fs /\ ~er.threw BY <1>2, <1>7, <1>8, <1>9, <2>1 DEF Made, SameEnds
    <3> QED BY <1>8, <2>1, <3>1, <3>2
  <2>2. CASE ~b1.error
    <3>1. b2 = b1 BY <2>2, Zenon
    <3> QED BY <1>2, <1>7, <1>9, <2>2, <3>1 DEF Made
  <2> QED BY <2>1, <2>2
<1> HIDE DEF b2
<1>10. ASSUME ~b1.threw
       PROVE  IsBuilder(b3) /\ Headed(b3) /\ ~b3.threw /\ (b3.files # fs => b3.code = 200)
  <2>1. Line("cookie") \in HeaderLine BY DEF Line, HeaderLine
  <2>2. LET c == Add(b2, "cookie") IN
        IsBuilder(c) /\ Headed(c) /\ SameEnds(b2, c) /\ c.code = b2.code
    BY <1>9, <1>10, <2>1, AddIs
  <2>3. b3 = Add(b2, "cookie") \/ b3 = b2 OBVIOUS
  <2> HIDE DEF b3
  <2> QED BY <1>9, <1>10, <2>2, <2>3 DEF SameEnds
<1> HIDE DEF b3
<1>11. IsBuilder(eq) /\ Headed(eq) /\ SameEnds(q, eq)
  BY <1>6, BuildErrorResponseIs DEF Made
<1>12. eq.files = fs /\ ~eq.threw BY <1>2, <1>6, <1>11 DEF Made, SameEnds
<1> HIDE DEF eq
<1>13. Headed(End(eq)) /\ SameEnds(eq, End(eq)) BY <1>11, EndIs
<1>14. ~b1.threw => Headed(End(b3)) /\ SameEnds(b3, End(b3)) /\ End(b3).code = b3.code
  BY <1>10, EndIs
<1> HIDE DEF r
<1>15. r.threw => status = 1 /\ Throws(config, request)
  BY <1>1, <1>7, <1>10, <1>12, <1>13, <1>14 DEF SameEnds
<1>16. ~r.threw => Headed(r) BY <1>1, <1>13, <1>14
<1>17. r.files # fs => r.code = 200
  <2>1. End(eq).files = fs BY <1>12, <1>13 DEF SameEnds
  <2>2. ~b1.threw => (End(b3).files # fs => End(b3).code = 200) BY <1>10, <1>14 DEF SameEnds
  <2>3. b1.threw => b1.files = fs BY <1>2, <1>7 DEF Made
  <2> QED BY <1>1, <2>1, <2>2, <2>3
<1> QED BY <1>15, <1>16, <1>17 DEF r

\* A response with code 200 is what the method made, to a request that is valid.
SuccessIsMade(fs, config, request, status) ==
  LET r == Build(fs, config, request, status)
      m == BuildResponse(Builder(fs), config, request)
  IN  r.code = 200 => /\ status = 1 /\ ~QueryIsBad(request.uri)
                      /\ m.code = 200 /\ r.files = m.files

\* An answer 200 that Build makes: what the method did, and that it was allowed to.
LEMMA BuildSucceeds ==
  ASSUME NEW fs, NEW config, NEW request, NEW status, request.method \in Method, status # 200
  PROVE  SuccessIsMade(fs, config, request, status)
<1> DEFINE r  == Build(fs, config, request, status)
           b0 == Builder(fs)
           s  == SetErrorState(b0, status)
           m  == BuildResponse(b0, config, request)
           b1 == IF status # 1 THEN s ELSE m
           er == BuildErrorResponse(b1, config)
           b2 == IF b1.error THEN er ELSE b1
           q  == SetErrorState(b0, 400)
           eq == BuildErrorResponse(q, config)
           c  == Add(b2, "cookie")
           b3 == IF request.cookie \/ QueryOf(request.uri) # <<>> THEN c ELSE b2
           Same(x, y) == y.code = 200 => x.code = 200 /\ y.files = x.files
<1>1. r = IF QueryIsBad(request.uri) THEN End(eq) ELSE IF b1.threw THEN b1 ELSE End(b3)
  BY Zenon DEF Build
<1>2. Unbegun(b0) BY BuilderStarts DEF Unbegun
<1> HIDE DEF b0
<1>3. IsBuilder(b0) BY <1>2 DEF Unbegun
<1>4. IsBuilder(s) /\ s.code = status /\ IsBuilder(q) /\ q.code = 400 /\ q.header = <<>> /\ s.header = <<>>
  BY <1>3, SetErrorStateIs
<1>5. Made(b0, m) BY <1>2, BuildResponseMakes
<1>6. \A x : Meant(x) = 200 => x = 200 BY DEF Meant
<1> HIDE DEF s, m, q
<1>7. End(eq).code # 200
  <2>1. IsBuilder(eq) /\ eq.code = Meant(400) /\ Headed(eq) BY <1>4, BuildErrorResponseIs
  <2> HIDE DEF eq
  <2>2. End(eq).code = eq.code BY <2>1, EndIs
  <2> QED BY <1>6, <2>1, <2>2
<1>8. r.code = 200 => ~QueryIsBad(request.uri) BY <1>1, <1>7
<1>9. IsBuilder(b1) /\ (b1.error => b1.header = <<>>) /\ (~b1.threw /\ ~b1.error => Headed(b1))
  <2>1. CASE status # 1
    <3>1. b1 = s BY <2>1
    <3>2. s.error BY <1>3, SetErrorStateIs DEF s
    <3> HIDE DEF b1
    <3> QED BY <1>4, <3>1, <3>2
  <2>2. CASE status = 1
    <3>1. b1 = m BY <2>2
    <3> HIDE DEF b1
    <3> QED BY <1>5, <3>1 DEF Made
  <2> QED BY <2>1, <2>2
<1>10. b1.code = 200 => status = 1 /\ b1 = m BY <1>4
<1> HIDE DEF b1
<1>11. Same(b1, er) /\ IsBuilder(er) /\ (b1.error => Headed(er))
  BY <1>6, <1>9, BuildErrorResponseIs DEF SameEnds
<1> HIDE DEF er
<1>12. Same(b1, b2) /\ IsBuilder(b2) /\ (~b1.threw => Headed(b2)) BY <1>9, <1>11
<1> HIDE DEF b2
<1>13. Same(b2, c) /\ IsBuilder(c) /\ (Headed(b2) => Headed(c))
  <2>1. Line("cookie") \in HeaderLine BY DEF Line, HeaderLine
  <2> QED BY <1>12, <2>1, AddIs DEF SameEnds
<1> HIDE DEF c
<1>14. Same(b2, b3) /\ IsBuilder(b3) /\ (Headed(b2) => Headed(b3)) BY <1>12, <1>13
<1> HIDE DEF b3
<1>15. ~b1.threw => Same(b3, End(b3)) BY <1>12, <1>14, EndIs DEF SameEnds
<1> HIDE DEF r
<1>16. Same(b1, r) BY <1>1, <1>8, <1>12, <1>14, <1>15
<1>17. r.code = 200 => b1.code = 200 /\ r.files = b1.files /\ ~QueryIsBad(request.uri)
  BY <1>8, <1>16
<1> QED BY <1>10, <1>17 DEF r, m, b0, SuccessIsMade

\* A request the parser refused, or one still at its start, is never answered 200.
LEMMA ErrorsDoNotSucceed ==
  ASSUME NEW fs, NEW config, NEW request, NEW status,
         request.method \in Method, status # 200, status # 1
  PROVE  Build(fs, config, request, status).code # 200
<1>1. SuccessIsMade(fs, config, request, status) BY BuildSucceeds
<1> QED BY <1>1 DEF SuccessIsMade

\* What a script writes becomes a response that changes no file.
LEMMA BuildFromScriptIs ==
  ASSUME NEW fs, NEW config, NEW request, NEW output
  PROVE  LET r == BuildFromScript(fs, config, request, output) IN r.files = fs /\ ~r.threw
<1> DEFINE s  == Builder(fs)
           q  == SetErrorState(s, 400)
           b0 == IF QueryIsBad(request.uri) THEN q ELSE s
           b1 == BuildCgiResponse(b0, output)
           e  == BuildErrorResponse(b1, config)
           b2 == IF b1.error THEN e ELSE b1
           r1 == Add(b2, "length")
           r2 == Add(r1, "end")
           Kept(b) == IsBuilder(b) /\ b.files = fs /\ ~b.threw
<1>1. BuildFromScript(fs, config, request, output) = r2 BY Zenon DEF BuildFromScript, End
<1>2. Kept(s) BY BuilderStarts
<1> HIDE DEF s
<1>3. Kept(q) BY <1>2, SetErrorStateIs DEF SameEnds
<1> HIDE DEF q
<1>4. Kept(b0) BY <1>2, <1>3
<1> HIDE DEF b0
<1>5. \A what \in {"script", "length", "end"} : \A b : Kept(b) => Kept(Add(b, what))
  <2> SUFFICES ASSUME NEW what \in {"script", "length", "end"}, NEW b, Kept(b)
               PROVE  Kept(Add(b, what))
    OBVIOUS
  <2>1. Line(what) \in HeaderLine BY DEF Line, HeaderLine
  <2>2. IsBuilder(Add(b, what)) /\ SameEnds(b, Add(b, what)) BY <2>1, AddIs
  <2> QED BY <2>2 DEF SameEnds
<1>6. Kept(b1)
  <2> DEFINE k    == SelectInSeq(output, LAMBDA x : x = NewLine)
             head == IF k > 1 THEN output[1] ELSE Text
             a    == Add(b0, "script")
             c    == IF head.atom = "other" THEN a ELSE b0
             code == IF head.atom = "status" THEN head.code ELSE 200
             body == Body("script", SubSeq(output, k + 1, Len(output)))
             x    == SetErrorState(b0, 502)
             y    == Success(c, code, body)
  <2>1. b1 = IF k = 0 THEN x ELSE y BY Zenon DEF BuildCgiResponse
  <2>2. Kept(a) BY <1>4, <1>5
  <2> HIDE DEF a, k, head, b1
  <2>3. Kept(c) BY <1>4, <2>2
  <2> HIDE DEF c, code, body
  <2>4. Kept(x) BY <1>4, SetErrorStateIs DEF SameEnds
  <2>5. Kept(y) BY <2>3, SuccessIs DEF SameEnds
  <2> HIDE DEF x, y
  <2> QED BY <2>1, <2>4, <2>5
<1> HIDE DEF b1
<1>7. Kept(e) BY <1>6, BuildErrorResponseIs DEF SameEnds
<1> HIDE DEF e
<1>8. Kept(b2) BY <1>6, <1>7
<1> HIDE DEF b2
<1>9. Kept(r1) BY <1>5, <1>8
<1> HIDE DEF r1
<1>10. Kept(r2) BY <1>5, <1>9
<1> HIDE DEF r2
<1> QED BY <1>1, <1>10

-----------------------------------------------------------------------------
(* The steps of a site.                                                    *)

\* What the steps are about: a request that may change files, with the directives of
\* its location; a script's; one the parser refused; and none.
Served(request, config, status, response) ==
  /\ request \in Requests /\ config = ConfigOf(request)
  /\ status = StatusOf(request, config) /\ ~(status = 1 /\ IsCgiRequest(request, config))
  /\ response = Build(files, config, request, status)

Scripted(request, config, status, response) ==
  /\ request \in Requests /\ config = ConfigOf(request)
  /\ status = 1 /\ IsCgiRequest(request, config)
  /\ ~response.threw /\ response.files = files

RefusedOne(request, config, status, response) ==
  /\ request \in Broken /\ config = ConfigOf(request) /\ status \in {-1, 415}
  /\ response = Build(files, config, request, status)

Nothing(request, config, status, response) ==
  /\ request = NoRequest /\ config = NoConfig /\ status = 400
  /\ response = Build(files, config, request, status)

\* The request of a client that never sent one is a request.
LEMMA NoRequestIsRequest == IsRequest(NoRequest)
<1>1. <<>> \in Path /\ \A S : <<>> \in Seq(S) BY EmptySeq DEF Path
<1> QED BY <1>1 DEF IsRequest, NoRequest, Method

\* The four kinds of answer a step can be.
LEMMA StepIs ==
  ASSUME Next
  PROVE  \E request, config, status, response :
           /\ Answer(request, config, status, response) /\ IsRequest(request)
           /\ \/ Served(request, config, status, response)
              \/ Scripted(request, config, status, response)
              \/ RefusedOne(request, config, status, response)
              \/ Nothing(request, config, status, response)
<1>1. CASE CutShort
  <2> DEFINE response == Build(files, NoConfig, NoRequest, 400)
  <2>1. Answer(NoRequest, NoConfig, 400, response) BY <1>1 DEF CutShort
  <2>2. Nothing(NoRequest, NoConfig, 400, response) BY DEF Nothing
  <2> HIDE DEF response
  <2> QED BY <2>1, <2>2, NoRequestIsRequest, Zenon
<1>2. CASE \E request \in Broken : Refuse(request)
  <2>1. PICK request \in Broken : Refuse(request) BY <1>2
  <2> DEFINE config == ConfigOf(request)
  <2>2. PICK status \in {-1, 415} :
          Answer(request, config, status, Build(files, config, request, status))
    BY <2>1, Zenon DEF Refuse
  <2> DEFINE response == Build(files, config, request, status)
  <2>3. RefusedOne(request, config, status, response) BY DEF RefusedOne
  <2>4. IsRequest(request) BY SiteAssumption
  <2>5. Answer(request, config, status, response) BY <2>2
  <2> HIDE DEF config, response
  <2> QED BY <2>3, <2>4, <2>5, Zenon
<1>3. CASE \E request \in Requests : Serve(request)
  <2>1. PICK request \in Requests : Serve(request) BY <1>3
  <2> DEFINE config   == ConfigOf(request)
             status   == StatusOf(request, config)
             response == Build(files, config, request, status)
  <2>2. Answer(request, config, status, response) /\ ~(status = 1 /\ IsCgiRequest(request, config))
    BY <2>1, Zenon DEF Serve
  <2>3. Served(request, config, status, response) BY <2>2 DEF Served
  <2>4. IsRequest(request) BY SiteAssumption
  <2> HIDE DEF config, status, response
  <2> QED BY <2>2, <2>3, <2>4, Zenon
<1>4. CASE \E request \in Requests : ServeScript(request)
  <2>1. PICK request \in Requests : ServeScript(request) BY <1>4
  <2> DEFINE config == ConfigOf(request)
  <2>2. /\ StatusOf(request, config) = 1 /\ IsCgiRequest(request, config)
        /\ \E output \in Outputs :
             Answer(request, config, 1,
                    IF output = <<>> THEN Build(files, config, request, 502)
                    ELSE BuildFromScript(files, config, request, output))
    BY <2>1, Zenon DEF ServeScript
  <2> HIDE DEF config
  <2>3. PICK output \in Outputs :
          Answer(request, config, 1,
                 IF output = <<>> THEN Build(files, config, request, 502)
                 ELSE BuildFromScript(files, config, request, output))
    BY <2>2
  <2> DEFINE x == Build(files, config, request, 502)
             y == BuildFromScript(files, config, request, output)
             response == IF output = <<>> THEN x ELSE y
  <2>4. IsRequest(request) BY SiteAssumption
  <2>5. request.method \in Method BY <2>4 DEF IsRequest
  <2>6. ~x.threw /\ x.files = files
    <3>1. ~x.threw /\ (x.files # files => x.code = 200) BY <2>5, BuildIs
    <3>2. x.code # 200
      <4> DEFINE status == 502
      <4>1. status # 200 /\ status # 1 OBVIOUS
      <4> HIDE DEF status
      <4>2. Build(files, config, request, status).code # 200 BY <2>5, <4>1, ErrorsDoNotSucceed
      <4> QED BY <4>2 DEF status
    <3> QED BY <3>1, <3>2
  <2>7. ~y.threw /\ y.files = files BY BuildFromScriptIs
  <2>8. Answer(request, config, 1, response) BY <2>3
  <2> HIDE DEF x, y
  <2>9. ~response.threw /\ response.files = files BY <2>6, <2>7
  <2> HIDE DEF response
  <2>10. Scripted(request, config, 1, response) BY <2>2, <2>9 DEF Scripted, config
  <2> QED BY <2>4, <2>8, <2>10, Zenon
<1> QED BY <1>1, <1>2, <1>3, <1>4 DEF Next

-----------------------------------------------------------------------------
(* Refusals and status lines.                                              *)

\* What an answer leaves behind.
LEMMA AnswerChanges ==
  ASSUME NEW request, NEW config, NEW status, NEW response,
         Answer(request, config, status, response)
  PROVE  /\ last'.request = request /\ last'.config = config
         /\ last'.status = status /\ last'.response = response
         /\ files' = response.files /\ site' = site /\ up' = ~response.threw
BY DEF Answer

\* Whatever the site, the files and the requests are, an answer with an error code has
\* left every file as it was.
THEOREM RefusalsChangeNothing == Spec => RefusalChangesNothing
<1>1. ASSUME Next PROVE last'.response.code >= 400 => files' = files
  <2>1. PICK request, config, status, response :
          /\ Answer(request, config, status, response) /\ IsRequest(request)
          /\ \/ Served(request, config, status, response)
             \/ Scripted(request, config, status, response)
             \/ RefusedOne(request, config, status, response)
             \/ Nothing(request, config, status, response)
    BY <1>1, StepIs
  <2>2. response.files # files => response.code = 200
    <3>1. request.method \in Method BY <2>1 DEF IsRequest
    <3>2. LET r == Build(files, config, request, status) IN r.files # files => r.code = 200
      BY <3>1, BuildIs
    <3> QED BY <2>1, <3>2 DEF Served, Scripted, RefusedOne, Nothing
  <2>3. last'.response.code = response.code /\ files' = response.files
    BY <2>1, AnswerChanges
  <2> QED BY <2>2, <2>3
<1>2. [Next]_vars => [last'.response.code >= 400 => files' = files]_vars BY <1>1
<1> QED BY <1>2, PTL DEF Spec, RefusalChangesNothing

\* Whatever is asked, an answer the server makes itself starts with its one status line.
THEOREM StatusLineIsOne == Spec => []OneStatusLine
<1>1. Init => OneStatusLine BY DEF Init, OneStatusLine, Answered
<1>2. OneStatusLine /\ [Next]_vars => OneStatusLine'
  <2>1. ASSUME OneStatusLine, UNCHANGED vars PROVE OneStatusLine'
    BY <2>1 DEF vars, OneStatusLine, Answered, ScriptAnswer, Response, Status, StatusLines
  <2>2. ASSUME Next PROVE OneStatusLine'
    <3>1. PICK request, config, status, response :
            /\ Answer(request, config, status, response) /\ IsRequest(request)
            /\ \/ Served(request, config, status, response)
               \/ Scripted(request, config, status, response)
               \/ RefusedOne(request, config, status, response)
               \/ Nothing(request, config, status, response)
      BY <2>2, StepIs
    <3>2. /\ last'.request = request /\ last'.config = config
          /\ last'.status = status /\ last'.response = response
      BY <3>1, AnswerChanges
    <3>3. CASE Scripted(request, config, status, response)
      <4>1. ScriptAnswer' BY <3>2, <3>3 DEF ScriptAnswer, Scripted
      <4> QED BY <4>1 DEF OneStatusLine
    <3>4. CASE response = Build(files, config, request, status)
      <4>1. request.method \in Method BY <3>1 DEF IsRequest
      <4>2. ~response.threw => Headed(response) BY <3>4, <4>1, BuildIs
      <4> QED BY <3>2, <4>2 DEF OneStatusLine, Answered, Headed, Status, Response
    <3> QED BY <3>1, <3>3, <3>4 DEF Served, RefusedOne, Nothing
  <2> QED BY <2>1, <2>2
<1> QED BY <1>1, <1>2, PTL DEF Spec

-----------------------------------------------------------------------------
(* Routing.                                                                *)

\* The directives are those of one of the port's servers and of the location that
\* MatchLocation picks in it.
LEMMA ConfigIsMerged ==
  ASSUME site \in Sites, NEW request
  PROVE  LET server == MatchServer(site, request.host) IN
         /\ server \in ServerConfig /\ \E i \in DOMAIN site : server = site[i]
         /\ ConfigOf(request).path = MatchLocation(server, request.uri).path
<1> DEFINE server == MatchServer(site, request.host)
<1>1. site \in Seq(ServerConfig) \ {<<>>} BY SiteAssumption
<1>2. server \in ServerConfig /\ server \in Range(site) BY <1>1, ServerIsOne
<1>3. ConfigOf(request).path = MatchLocation(server, request.uri).path BY DEF ConfigOf, Merge
<1> QED BY <1>2, <1>3 DEF Range

\* No location covers a URI of no characters.
LEMMA NothingIsCovered ==
  ASSUME NEW l \in LocationConfig PROVE ~Covers(l, <<>>)
<1>1. l.path \in Seq(Char) /\ l.path # <<>> BY DEF LocationConfig, Path
<1>2. <<>> \in Path BY EmptySeq DEF Path
<1>3. Len(l.path) \in Nat \ {0} /\ Len(<<>>) = 0 BY <1>1, EmptySeq
<1>4. Len(l.path) <= Len(<<>>) => FALSE BY <1>3
<1>5. ~Matches(l.path, <<>>) BY <1>4 DEF Matches, IsPrefix
<1> QED BY <1>1, <1>2, <1>5, CoversIsMatches

\* When a server that has a location "/" has it first, the location with the longest
\* path is taken.  Without that the first location is, whatever its path, where nothing
\* but "/" matches.
THEOREM LongestPrefixIsTaken ==
  ASSUME \A servers \in Sites : \A i \in DOMAIN servers : RootIsFirst(servers[i])
  PROVE  Spec => []LongestPrefixWins
<1> DEFINE Inv == site \in Sites /\ LongestPrefixWins
<1>1. Init => Inv BY DEF Init, LongestPrefixWins, Answered
<1>2. Inv /\ [Next]_vars => Inv'
  <2>1. ASSUME Inv, UNCHANGED vars PROVE Inv'
    BY <2>1 DEF vars, LongestPrefixWins, Answered, Covering, Response
  <2>2. ASSUME Inv, Next PROVE Inv'
    <3>1. PICK request, config, status, response :
            /\ Answer(request, config, status, response) /\ IsRequest(request)
            /\ \/ Served(request, config, status, response)
               \/ Scripted(request, config, status, response)
               \/ RefusedOne(request, config, status, response)
               \/ Nothing(request, config, status, response)
      BY <2>2, StepIs
    <3>2. last'.request = request /\ last'.config = config /\ site' = site
      BY <3>1, AnswerChanges
    <3> DEFINE server == MatchServer(site, request.host)
               uri    == request.uri
               l      == MatchLocation(server, uri)
               C      == {k \in Range(server.locations) : Covers(k, uri)}
    <3>3. server \in ServerConfig /\ RootIsFirst(server) /\ ConfigOf(request).path = l.path
      BY <2>2, ConfigIsMerged
    <3>4. uri \in Path BY <3>1 DEF IsRequest
    <3>5. Covering(last.request.uri)' = C BY <3>2 DEF Covering
    <3> HIDE DEF server, uri
    <3>6. C # {} => /\ \E k \in C : k.path = l.path
                    /\ \A k \in C : Len(k.path) <= Len(l.path)
      BY <3>3, <3>4, LongestIsMatched
    <3> HIDE DEF l
    <3>7. C # {} => config.path = l.path
      <4>1. CASE Nothing(request, config, status, response)
        <5>1. uri = <<>> BY <4>1 DEF Nothing, NoRequest, uri
        <5>2. server.locations \in Seq(LocationConfig) BY <3>3 DEF ServerConfig
        <5>3. \A k \in Range(server.locations) : k \in LocationConfig
          BY <5>2, ElementOfSeq, LenProperties DEF Range
        <5> QED BY <5>1, <5>3, NothingIsCovered
      <4>2. CASE config = ConfigOf(request) BY <3>3, <4>2
      <4> QED BY <3>1, <4>1, <4>2 DEF Served, Scripted, RefusedOne
    <3> HIDE DEF C
    <3>8. LongestPrefixWins' BY <3>2, <3>5, <3>6, <3>7 DEF LongestPrefixWins
    <3> QED BY <2>2, <3>2, <3>8
  <2> QED BY <2>1, <2>2
<1> QED BY <1>1, <1>2, PTL DEF Spec

-----------------------------------------------------------------------------
(* What is cut off a URI.                                                  *)

\* Where the query of a URI starts.
LEMMA QueryAtIs ==
  ASSUME NEW uri \in Path
  PROVE  LET k == QueryAt(uri) IN
         \/ k = 0 /\ \A i \in DOMAIN uri : uri[i] # "?"
         \/ k \in DOMAIN uri /\ uri[k] = "?" /\ \A i \in 1..k - 1 : uri[i] # "?"
<1> DEFINE T == {i \in 1..Len(uri) : uri[i] = "?"}
<1>1. QueryAt(uri) = IF T = {} THEN 0 ELSE Min(T) BY DEF QueryAt, SelectInSeq
<1>2. Len(uri) \in Nat /\ DOMAIN uri = 1..Len(uri) BY LenProperties DEF Path
<1>3. CASE T = {} BY <1>1, <1>2, <1>3
<1>4. CASE T # {}
  <2>1. T \subseteq Nat BY <1>2
  <2> DEFINE k == Min(T)
  <2> HIDE DEF T
  <2>2. k \in T /\ \A i \in T : k <= i BY <1>4, <2>1, MinIsSmallest
  <2> HIDE DEF k
  <2>3. k \in 1..Len(uri) /\ uri[k] = "?" BY <2>2 DEF T
  <2>4. ASSUME NEW i \in 1..k - 1 PROVE uri[i] # "?"
    <3>1. i \in 1..Len(uri) /\ ~(k <= i) BY <1>2, <2>3
    <3> QED BY <2>2, <3>1 DEF T
  <2> QED BY <1>1, <1>2, <1>4, <2>3, <2>4 DEF k
<1> QED BY <1>3, <1>4

\* The path of the location that MatchLocation picks is the start of the URI, and ends
\* before the query, when "/" is the first location or another covers the URI.
LEMMA LocationFits ==
  ASSUME NEW server \in ServerConfig, PlainPaths(server),
         NEW uri \in Path, uri # <<>>, uri[1] = "/",
         \/ server.locations[1].path = Root
         \/ \E c \in Range(server.locations) : Covers(c, uri) /\ c.path # Root
  PROVE  LET l == MatchLocation(server, uri) IN
         Len(l.path) <= Len(PathOf(uri)) /\ Len(PathOf(uri)) <= Len(uri)
<1> DEFINE locations == server.locations
           l == MatchLocation(server, uri)
           p == l.path
           k == QueryAt(uri)
           n == Len(p)
           m == Len(uri)
<1>1. locations \in Seq(LocationConfig) /\ locations # <<>> BY DEF ServerConfig
<1>2. /\ \A j \in Range(locations) : j \in LocationConfig
      /\ locations[1] \in Range(locations)
  <2>1. DOMAIN locations = 1..Len(locations) /\ Len(locations) \in Nat \ {0}
    BY <1>1, LenProperties, EmptySeq
  <2>2. 1 \in DOMAIN locations BY <2>1
  <2> QED BY <1>1, <2>1, <2>2, ElementOfSeq DEF Range
<1>3. uri \in Seq(Char) /\ m \in Nat \ {0} BY EmptySeq DEF Path
<1>4. Root \in Seq(Char) /\ Len(Root) = 1 /\ Root[1] = "/" BY SiteAssumption DEF Root
<1>5. "?" \notin Range(Root) BY <1>4 DEF Root, Range
<1>6. /\ p \in Seq(Char) /\ "?" \notin Range(p)
      /\ n <= m /\ \A i \in 1..n : p[i] = uri[i]
  <2>1. ASSUME p = Root
        PROVE  /\ p \in Seq(Char) /\ "?" \notin Range(p)
               /\ n <= m /\ \A i \in 1..n : p[i] = uri[i]
    <3> HIDE DEF p
    <3>1. p \in Seq(Char) /\ "?" \notin Range(p) BY <1>4, <1>5, <2>1
    <3>2. n = 1 /\ p[1] = uri[1] BY <1>4, <2>1
    <3> HIDE DEF n, m
    <3>3. n <= m /\ \A i \in 1..n : p[i] = uri[i] BY <1>3, <3>2
    <3> QED BY <3>1, <3>3 DEF n, m
  <2>2. ASSUME l \in Range(locations)
        PROVE  p \in Seq(Char) /\ "?" \notin Range(p)
    <3>1. l \in LocationConfig BY <1>2, <2>2
    <3> QED BY <2>2, <3>1 DEF LocationConfig, Path, PlainPaths
  <2>3. CASE l \in Range(locations) /\ p = uri
    <3>1. p \in Seq(Char) /\ "?" \notin Range(p) BY <2>2, <2>3
    <3>2. p = uri BY <2>3
    <3> HIDE DEF p
    <3>3. n = m /\ \A i \in 1..n : p[i] = uri[i] BY <3>2
    <3>4. n <= m
      <4> HIDE DEF n, m
      <4> QED BY <1>3, <3>3
    <3> QED BY <3>1, <3>3, <3>4 DEF p
  <2>4. CASE l \in Range(locations) /\ Matches(p, uri)
    <3>1. IsPrefix(p, uri) BY <2>4 DEF Matches
    <3>2. p \in Seq(Char) BY <2>2, <2>4
    <3> HIDE DEF p
    <3>3. n <= m /\ \A i \in 1..n : p[i] = uri[i] BY <1>3, <3>1, <3>2, PrefixIs
    <3> QED BY <2>2, <2>4, <3>3 DEF p
  <2>5. CASE l = DefaultLocation
    <3>1. p = Root BY <2>5 DEF DefaultLocation
    <3> QED BY <2>1, <3>1
  <2> DEFINE NoOther == /\ ~\E i \in DOMAIN locations : locations[i].path = uri
                        /\ \A i \in DOMAIN locations :
                             Matches(locations[i].path, uri) => Len(locations[i].path) <= 1
  <2>6. CASE l = locations[1] /\ NoOther
    <3>1. locations[1].path = Root
      <4>1. SUFFICES ASSUME NEW c \in Range(locations), Covers(c, uri), c.path # Root
                     PROVE  FALSE
        OBVIOUS
      <4>2. c \in LocationConfig BY <1>2
      <4>3. c.path = uri \/ Matches(c.path, uri) BY <4>1, <4>2, CoversIsMatches
      <4>4. \E i \in DOMAIN locations : c = locations[i] BY DEF Range
      <4>5. Len(c.path) <= 1 BY <2>6, <4>3, <4>4
      <4>6. c.path \in Path /\ c.path # <<>> /\ c.path[1] = "/" BY <4>2 DEF LocationConfig
      <4> QED BY <4>1, <4>5, <4>6, OneSlash
    <3>2. p = Root BY <2>6, <3>1
    <3> QED BY <2>1, <3>2
  <2>7. \/ l \in Range(locations) /\ p = uri
        \/ l \in Range(locations) /\ Matches(p, uri)
        \/ l = DefaultLocation
        \/ l = locations[1] /\ NoOther
    BY MatchLocationIs
  <2> QED BY <2>3, <2>4, <2>5, <2>6, <2>7
<1> HIDE DEF p
<1>7. n \in Nat /\ DOMAIN p = 1..n BY <1>6, LenProperties
<1>8. CASE k = 0
  <2>1. PathOf(uri) = uri BY <1>8 DEF PathOf
  <2> QED BY <1>3, <1>6, <2>1 DEF p
<1>9. CASE k # 0
  <2>1. k \in 1..m /\ uri[k] = "?"
    <3>1. DOMAIN uri = 1..m BY <1>3, LenProperties
    <3> QED BY <1>9, <3>1, QueryAtIs
  <2> HIDE DEF k, n, m
  <2>2. ~(k <= n)
    <3>1. SUFFICES ASSUME k <= n PROVE FALSE OBVIOUS
    <3>2. k \in 1..n BY <1>7, <2>1, <3>1
    <3>3. p[k] = "?" BY <1>6, <2>1, <3>2
    <3> QED BY <1>6, <1>7, <3>2, <3>3 DEF Range
  <2>3. Len(PathOf(uri)) = k - 1
    <3>1. PathOf(uri) = SubSeq(uri, 1, k - 1) BY <1>9 DEF PathOf, k
    <3>2. \A i \in 1..k - 1 : uri[i] \in Char
      <4>1. \A i \in 1..k - 1 : i \in 1..m BY <1>3, <2>1
      <4> QED BY <1>3, <4>1, ElementOfSeq DEF m
    <3>3. k - 1 \in Nat BY <1>3, <2>1
    <3>4. Len(SubSeq(uri, 1, k - 1)) = IF 1 <= k - 1 THEN k - 1 - 1 + 1 ELSE 0
      BY <3>2, <3>3, SubSeqProperties
    <3> QED BY <3>1, <3>3, <3>4
  <2>4. n <= k - 1 /\ k - 1 <= m BY <1>3, <1>7, <2>1, <2>2
  <2> QED BY <2>3, <2>4 DEF p, n, m
<1> QED BY <1>8, <1>9

\* On any site whose locations have no "?" in their paths, wherever "/" is among them: a
\* URI that another location covers does not end the program.  What is cut off it is the
\* path of the location that is taken, and the URI starts with it.
THEOREM CoveredUrisSurvive ==
  ASSUME \A servers \in Sites : \A i \in DOMAIN servers : PlainPaths(servers[i])
  PROVE  Spec => []CoveredUrisAreSafe
<1> DEFINE Inv == site \in Sites /\ CoveredUrisAreSafe
<1>1. Init => Inv BY DEF Init, CoveredUrisAreSafe
<1>2. Inv /\ [Next]_vars => Inv'
  <2>1. ASSUME Inv, UNCHANGED vars PROVE Inv'
    BY <2>1 DEF vars, CoveredUrisAreSafe, Covering
  <2>2. ASSUME Inv, Next PROVE Inv'
    <3>1. PICK request, config, status, response :
            /\ Answer(request, config, status, response) /\ IsRequest(request)
            /\ \/ Served(request, config, status, response)
               \/ Scripted(request, config, status, response)
               \/ RefusedOne(request, config, status, response)
               \/ Nothing(request, config, status, response)
      BY <2>2, StepIs
    <3> DEFINE server == MatchServer(site, request.host)
               Uncovered == \A c \in Range(server.locations) :
                              Covers(c, request.uri) => c.path = Root
    <3>2. site' = site /\ up' = ~response.threw /\ (Uncovered => CoveredUrisAreSafe')
      <4>1. site' = site /\ up' = ~response.threw /\ last'.request = request
        BY <3>1, AnswerChanges
      <4> QED BY <4>1 DEF CoveredUrisAreSafe, Covering
    <3> HIDE DEF Uncovered, server
    <3>3. request.method \in Method /\ request.uri \in Path BY <3>1 DEF IsRequest
    <3>4. CASE Scripted(request, config, status, response)
      BY <2>2, <3>2, <3>4 DEF Scripted, CoveredUrisAreSafe
    <3>5. CASE response = Build(files, config, request, status)
      <4>1. response.threw => status = 1 /\ Throws(config, request) BY <3>3, <3>5, BuildIs
      <4>2. SUFFICES ASSUME status = 1, Throws(config, request), ~Uncovered PROVE FALSE
        BY <2>2, <3>2, <4>1 DEF CoveredUrisAreSafe
      <4>3. request \in Requests /\ config = ConfigOf(request)
        BY <3>1, <4>2 DEF Served, Scripted, RefusedOne, Nothing
      <4> DEFINE l == MatchLocation(server, request.uri)
      <4>4. server \in ServerConfig /\ PlainPaths(server) /\ config.path = l.path
        BY <2>2, <4>3, ConfigIsMerged DEF server
      <4>5. request.uri # <<>> /\ request.uri[1] = "/" BY <4>3, SiteAssumption
      <4>6. Len(l.path) <= Len(PathOf(request.uri)) /\ Len(PathOf(request.uri)) <= Len(request.uri)
        BY <3>3, <4>2, <4>4, <4>5, LocationFits DEF Uncovered
      <4>7. Len(config.path) \in Int /\ Len(PathOf(request.uri)) \in Int /\ Len(request.uri) \in Int
        OBVIOUS
      <4> QED BY <4>2, <4>4, <4>6, <4>7 DEF Throws, CutThrows
    <3> QED BY <3>1, <3>4, <3>5 DEF Served, RefusedOne, Nothing
  <2> QED BY <2>1, <2>2
<1> QED BY <1>1, <1>2, PTL DEF Spec

-----------------------------------------------------------------------------
(* Files keep their places.                                                *)

\* A path between two others.
LEMMA SubPath ==
  ASSUME NEW p \in Path, NEW i \in Int, i >= 1, NEW j \in Int, j <= Len(p)
  PROVE  SubSeq(p, i, j) \in Path
<1>1. p \in Seq(Char) /\ Len(p) \in Nat BY LenProperties DEF Path
<1>2. ASSUME NEW k \in i..j PROVE p[k] \in Char
  <2>1. k \in 1..Len(p) BY <1>1
  <2> QED BY <1>1, <2>1, ElementOfSeq
<1> QED BY <1>2, SubSeqProperties DEF Path

\* The root and what is asked for make a path.
LEMMA JoinIsPath ==
  ASSUME NEW root \in Path, NEW resource \in Path
  PROVE  Join(root, resource) \in Path
<1>1. Front(root) \in Path
  <2>1. Len(root) \in Nat BY LenProperties DEF Path
  <2>2. Len(root) - 1 \in Int /\ Len(root) - 1 <= Len(root) BY <2>1
  <2> QED BY <2>2, SubPath DEF Front
<1>2. <<"/">> \in Path BY SiteAssumption DEF Path
<1>3. \A p, q \in Path : p \o q \in Path BY ConcatProperties DEF Path
<1>4. root \o <<"/">> \in Path BY <1>2, <1>3
<1> QED BY <1>1, <1>3, <1>4 DEF Join

\* The directories of a site's configuration are paths.
LEMMA ConfigPaths ==
  ASSUME site \in Sites, NEW request, request.uri \in Path
  PROVE  LET config == ConfigOf(request) IN config.root \in Path /\ config.uploadTo \in Path
<1> DEFINE server == MatchServer(site, request.host)
           l      == MatchLocation(server, request.uri)
<1>1. site \in Seq(ServerConfig) \ {<<>>} BY SiteAssumption
<1>2. server \in ServerConfig BY <1>1, ServerIsOne
<1> HIDE DEF server
<1>3. l \in LocationConfig BY <1>2, LocationIsOne
<1> HIDE DEF l
<1>4. server.root \in Path /\ l.root \in Path /\ l.uploadTo \in Path
  BY <1>2, <1>3 DEF ServerConfig, LocationConfig
<1>5. ConfigOf(request) = Merge(server, l) BY DEF ConfigOf, server, l
<1> QED BY <1>4, <1>5 DEF Merge

\* The two names that the code itself gives.
LEMMA NamesAreWords == PlainTextName \in Path /\ Misread \in Path
<1>1. Range(PlainTextName) = {"t"} BY DEF Range, PlainTextName
<1>2. Range(Misread) = {"m"} BY DEF Range, Misread
<1>3. "t" \in Char /\ "m" \in Char BY <1>1, <1>2, SiteAssumption
<1> QED BY <1>3 DEF PlainTextName, Misread, Path

\* So are the names that uploads have: one of the body, or what the code makes up.
LEMMA UploadNames ==
  ASSUME NEW request, IsRequest(request)
  PROVE  LET body == request.body
             name == FileNameToUpload(body)
         IN  /\ name \in Path
             /\ \/ name \in {<<>>, Misread}
                \/ \E i \in DOMAIN body : body[i].atom = "disposition" /\ name = body[i].filename
<1> DEFINE body == request.body
           Named == [atom : {"disposition"}, named : {TRUE}, filename : Path]
           Atom  == [atom : {"boundary", "dashes", "CRLF", "text"}] \cup Named \cup {NoFilename}
           T == {i \in 1..Len(body) : body[i].atom = "disposition" /\ body[i].named}
           k == IF T # {} THEN Min(T) ELSE 0
<1>1. body \in Seq(Atom) BY DEF IsRequest
<1>2. FileNameToUpload(body) = IF k # 0 THEN body[k].filename
                               ELSE IF NewLine \in Range(body) THEN Misread ELSE <<>>
  BY DEF FileNameToUpload, SelectInSeq
<1>3. <<>> \in Path /\ Misread \in Path BY NamesAreWords, EmptySeq DEF Path
<1> HIDE DEF body
<1>4. ASSUME k # 0
      PROVE  body[k].filename \in Path /\ k \in DOMAIN body /\ body[k].atom = "disposition"
  <2>1. T # {} /\ T \subseteq Nat BY <1>4
  <2>2. k \in T
    <3> HIDE DEF T
    <3>1. Min(T) \in T BY <2>1, MinIsSmallest
    <3> QED BY <2>1, <3>1
  <2> HIDE DEF k
  <2>3. k \in 1..Len(body) /\ body[k].atom = "disposition" /\ body[k].named BY <2>2
  <2>4. body[k] \in Atom
    <3> HIDE DEF Atom
    <3> QED BY <1>1, <2>3, ElementOfSeq
  <2>5. body[k] \in Named
    <3>1. NoFilename.named = FALSE BY DEF NoFilename
    <3> QED BY <2>3, <2>4, <3>1
  <2>6. k \in DOMAIN body BY <1>1, <2>3, LenProperties
  <2> QED BY <2>3, <2>5, <2>6
<1> HIDE DEF k
<1> QED BY <1>2, <1>3, <1>4 DEF body

\* A response puts no file in the place of a directory.
LEMMA PlacesKept ==
  ASSUME NEW fs, \A path \in DOMAIN fs : IsPlace(path),
         NEW config, config.root \in Path, config.uploadTo \in Path,
         NEW request, IsRequest(request), NEW status, status # 200
  PROVE  \A path \in DOMAIN Build(fs, config, request, status).files : IsPlace(path)
<1> DEFINE r == Build(fs, config, request, status)
           b == Builder(fs)
           m == BuildResponse(b, config, request)
           d == BuildResponseDELETE(b, config, request.uri)
<1>1. request.method \in Method BY DEF IsRequest
<1>2. r.files # fs => r.code = 200 BY <1>1, BuildIs
<1>3. SuccessIsMade(fs, config, request, status) BY <1>1, BuildSucceeds
<1>4. r.code = 200 => m.code = 200 /\ r.files = m.files BY <1>3 DEF SuccessIsMade
<1>5. SUFFICES ASSUME m.code = 200 PROVE \A path \in DOMAIN m.files : IsPlace(path)
  <2> HIDE DEF r, m
  <2> QED BY <1>2, <1>4 DEF r
<1>6. Unbegun(b) /\ b.files = fs /\ b.code # 200
  <2>1. b.code = -1 BY DEF Builder
  <2>2. Unbegun(b) /\ b.files = fs BY BuilderStarts DEF Unbegun
  <2> QED BY <2>1, <2>2
<1> HIDE DEF b
<1>7. \/ m.files = fs
      \/ \E path, content : /\ Stores(config, request, path, content)
                            /\ m.files = Put(fs, Resolve(path), content)
      \/ m = d
  BY <1>1, <1>5, <1>6, MethodSucceeds
<1>8. CASE m = d
  <2> HIDE DEF m
  <2>1. d.code = 200 BY <1>5, <1>8
  <2>2. \E path : d.files = Restrict(fs, DOMAIN fs \ {path})
    <3> DEFINE path == FileToDelete(config, request.uri)
               name == Resolve(path)
    <3>1. d.files = Restrict(b.files, DOMAIN b.files \ {Resolve(path)})
      BY <1>6, <2>1, DeleteSucceeds
    <3> HIDE DEF d, path
    <3>2. d.files = Restrict(fs, DOMAIN fs \ {name}) BY <1>6, <3>1
    <3> HIDE DEF name
    <3> QED BY <3>2
  <2> HIDE DEF d
  <2>3. DOMAIN d.files \subseteq DOMAIN fs BY <2>2 DEF Restrict
  <2> QED BY <1>8, <2>3
<1>9. CASE \E path, content : /\ Stores(config, request, path, content)
                             /\ m.files = Put(fs, Resolve(path), content)
  <2>1. PICK path, content : /\ Stores(config, request, path, content)
                             /\ m.files = Put(fs, Resolve(path), content)
    BY <1>9
  <2>2. MayOpen(path) BY <2>1 DEF Stores
  <2>3. IsPlace(Resolve(path)) BY <2>2 DEF MayOpen, IsPlace
  <2> HIDE DEF m
  <2>4. DOMAIN m.files = {Resolve(path)} \cup DOMAIN fs BY <2>1 DEF Put
  <2> QED BY <2>3, <2>4
<1>10. CASE m.files = fs
  <2> HIDE DEF m
  <2> QED BY <1>10
<1> QED BY <1>7, <1>8, <1>9, <1>10

\* The types.  Wherever the path of an upload leads, it is opened before it is written, and
\* no directory opens.
THEOREM SiteTypes == Spec => []TypeOK
<1>1. Init => TypeOK
  <2>1. SUFFICES ASSUME Init PROVE TypeOK OBVIOUS
  <2>2. last.request = NoRequest /\ last.response.files = SiteFiles BY <2>1 DEF Init, Builder
  <2>3. 0 \in 0..MaxRequests BY SiteAssumption
  <2> QED BY <2>1, <2>2, <2>3, NoRequestIsRequest, SiteAssumption DEF Init, TypeOK
<1>2. TypeOK /\ [Next]_vars => TypeOK'
  <2>1. ASSUME TypeOK, UNCHANGED vars PROVE TypeOK' BY <2>1 DEF vars, TypeOK
  <2>2. ASSUME TypeOK, Next PROVE TypeOK'
    <3>1. PICK request, config, status, response :
            /\ Answer(request, config, status, response) /\ IsRequest(request)
            /\ \/ Served(request, config, status, response)
               \/ Scripted(request, config, status, response)
               \/ RefusedOne(request, config, status, response)
               \/ Nothing(request, config, status, response)
      BY <2>2, StepIs
    <3>2. /\ last'.request = request /\ last'.response = response
          /\ files' = response.files /\ site' = site /\ up' = ~response.threw
      BY <3>1, AnswerChanges
    <3>3. asked' \in 0..MaxRequests BY <2>2, <3>1, SiteAssumption DEF Answer, TypeOK
    <3>4. request.uri \in Path BY <3>1 DEF IsRequest
    <3>5. \A path \in DOMAIN response.files : IsPlace(path)
      <4>1. CASE Scripted(request, config, status, response)
        BY <2>2, <4>1 DEF Scripted, TypeOK
      <4>2. CASE /\ config = ConfigOf(request) /\ status # 200
                 /\ response = Build(files, config, request, status)
        <5>1. config.root \in Path /\ config.uploadTo \in Path
          BY <2>2, <3>4, <4>2, ConfigPaths DEF TypeOK
        <5> QED BY <2>2, <3>1, <4>2, <5>1, PlacesKept DEF TypeOK
      <4>3. CASE Nothing(request, config, status, response)
        <5>1. request.method \in Method BY <3>1 DEF IsRequest
        <5>2. status # 200 /\ status # 1 /\ response = Build(files, config, request, status)
          BY <4>3 DEF Nothing
        <5>3. response.files = files
          <6>1. Build(files, config, request, status).code # 200
            BY <5>1, <5>2, ErrorsDoNotSucceed
          <6>2. LET r == Build(files, config, request, status) IN r.files # files => r.code = 200
            BY <5>1, BuildIs
          <6> QED BY <5>2, <6>1, <6>2
        <5> QED BY <2>2, <5>3 DEF TypeOK
      <4>4. StatusOf(request, config) # 200 BY DEF StatusOf
      <4> QED BY <3>1, <4>1, <4>2, <4>3, <4>4 DEF Served, RefusedOne
    <3> QED BY <2>2, <3>1, <3>2, <3>3, <3>5 DEF TypeOK
  <2> QED BY <2>1, <2>2
<1> QED BY <1>1, <1>2, PTL DEF Spec

-----------------------------------------------------------------------------
(* What a DELETE takes away.                                               *)

\* What is in a path that another is the end of, or the start.
LEMMA RangeOfTwo ==
  ASSUME NEW p \in Path, NEW q \in Path
  PROVE  Range(p \o q) = Range(p) \cup Range(q)
<1> DEFINE n == Len(p)
           m == Len(q)
           r == p \o q
<1>1. p \in Seq(Char) /\ q \in Seq(Char) BY DEF Path
<1>2. n \in Nat /\ m \in Nat /\ DOMAIN p = 1..n /\ DOMAIN q = 1..m BY <1>1, LenProperties
<1>3. r \in Seq(Char) /\ Len(r) = n + m
      /\ \A i \in 1..n + m : r[i] = IF i <= n THEN p[i] ELSE q[i - n]
  BY <1>1, ConcatProperties
<1>4. DOMAIN r = 1..n + m BY <1>3, LenProperties
<1> HIDE DEF n, m, r
<1>5. ASSUME NEW i \in 1..n + m PROVE r[i] \in Range(p) \cup Range(q)
  <2>1. CASE i <= n
    <3>1. i \in 1..n /\ r[i] = p[i] BY <1>2, <1>3, <2>1
    <3> QED BY <1>2, <3>1 DEF Range
  <2>2. CASE ~(i <= n)
    <3>1. i - n \in 1..m /\ r[i] = q[i - n] BY <1>2, <1>3, <2>2
    <3> QED BY <1>2, <3>1 DEF Range
  <2> QED BY <2>1, <2>2
<1>6. ASSUME NEW i \in 1..n PROVE p[i] \in Range(r)
  <2>1. i \in 1..n + m /\ r[i] = p[i] BY <1>2, <1>3
  <2> QED BY <1>4, <2>1 DEF Range
<1>7. ASSUME NEW i \in 1..m PROVE q[i] \in Range(r)
  <2> DEFINE j == i + n
  <2>1. j \in 1..n + m /\ ~(j <= n) /\ j - n = i BY <1>2
  <2> HIDE DEF j
  <2>2. r[j] = q[i] BY <1>3, <2>1
  <2> QED BY <1>4, <2>1, <2>2 DEF Range
<1>8. Range(r) = Range(p) \cup Range(q) BY <1>2, <1>4, <1>5, <1>6, <1>7 DEF Range
<1> QED BY <1>8 DEF r

\* With one character more.
LEMMA RangeOfOneMore ==
  ASSUME NEW p \in Path, NEW x \in Char
  PROVE  Range(Append(p, x)) = Range(p) \cup {x}
<1>1. <<x>> \in Path /\ Append(p, x) = p \o <<x>> BY AppendIsConcat DEF Path
<1>2. Range(<<x>>) = {x} BY DEF Range
<1> QED BY <1>1, <1>2, RangeOfTwo

\* A part of a path has nothing that the path has not.
LEMMA RangeOfPart ==
  ASSUME NEW p \in Path, NEW i \in Int, i >= 1, NEW j \in Int, j <= Len(p)
  PROVE  /\ Range(SubSeq(p, i, j)) \subseteq Range(p)
         /\ \A k \in i..j : p[k] \in Range(SubSeq(p, i, j))
<1> DEFINE q == SubSeq(p, i, j)
           n == Len(p)
           m == IF i <= j THEN j - i + 1 ELSE 0
<1>1. p \in Seq(Char) /\ n \in Nat /\ DOMAIN p = 1..n BY LenProperties DEF Path
<1>2. \A k \in i..j : k \in 1..n BY <1>1
<1>3. \A k \in i..j : p[k] \in Char BY <1>1, <1>2, ElementOfSeq
<1>4. q \in Seq(Char) /\ Len(q) = m /\ \A k \in 1..j - i + 1 : q[k] = p[i + k - 1]
  BY <1>3, SubSeqProperties
<1>5. DOMAIN q = 1..m BY <1>4, LenProperties
<1> HIDE DEF q, n
<1>6. ASSUME NEW k \in 1..m PROVE q[k] \in Range(p)
  <2>1. k \in 1..j - i + 1 /\ i + k - 1 \in i..j OBVIOUS
  <2>2. q[k] = p[i + k - 1] BY <1>4, <2>1
  <2> QED BY <1>1, <1>2, <2>1, <2>2 DEF Range
<1>7. ASSUME NEW k \in i..j PROVE p[k] \in Range(q)
  <2> DEFINE l == k - i + 1
  <2>1. l \in 1..m /\ l \in 1..j - i + 1 /\ i + l - 1 = k OBVIOUS
  <2> HIDE DEF l, m
  <2>2. q[l] = p[k] BY <1>4, <2>1
  <2> QED BY <1>5, <2>1, <2>2 DEF Range
<1> HIDE DEF m
<1>8. Range(q) \subseteq Range(p) BY <1>5, <1>6 DEF Range
<1> QED BY <1>7, <1>8 DEF q

\* Two paths are joined with nothing but a slash, and the end of the second stays.
LEMMA RangeOfJoin ==
  ASSUME NEW root \in Path, NEW resource \in Path
  PROVE  /\ Range(Join(root, resource)) \subseteq Range(root) \cup Range(resource) \cup {"/"}
         /\ Range(resource) \subseteq Range(Join(root, resource))
<1> DEFINE f == Front(root)
           s == root \o <<"/">>
<1>1. f \in Path /\ Range(f) \subseteq Range(root)
  <2>1. Len(root) \in Nat BY LenProperties DEF Path
  <2>2. Len(root) - 1 \in Int /\ Len(root) - 1 <= Len(root) BY <2>1
  <2> QED BY <2>2, SubPath, RangeOfPart DEF Front
<1>2. <<"/">> \in Path /\ Range(<<"/">>) = {"/"} BY SiteAssumption DEF Path, Range
<1>3. s \in Path /\ Range(s) = Range(root) \cup {"/"}
  <2>1. s \in Path BY <1>2, ConcatProperties DEF Path
  <2> QED BY <1>2, <2>1, RangeOfTwo
<1> HIDE DEF f, s
<1>4. \/ resource = <<>> /\ Join(root, resource) = root
      \/ Join(root, resource) = f \o resource
      \/ Join(root, resource) = s \o resource
      \/ Join(root, resource) = root \o resource
  BY DEF Join, f, s
<1>5. Range(<<>>) = {} BY DEF Range
<1>6. /\ Range(f \o resource) = Range(f) \cup Range(resource)
      /\ Range(s \o resource) = Range(s) \cup Range(resource)
      /\ Range(root \o resource) = Range(root) \cup Range(resource)
  BY <1>1, <1>3, RangeOfTwo
<1> QED BY <1>1, <1>3, <1>4, <1>5, <1>6

\* The walk along a path, character by character.
WalkState == [at : Path, name : Path]

Walked(path, a) ==
  /\ a[0] = [at |-> IF path[1] = "/" THEN Reach(Root) ELSE <<>>, name |-> <<>>]
  /\ \A k \in 1..Len(path) : a[k] = Walk(a[k - 1], path[k])

\* Where a walk is, it is at a directory or nowhere, whatever name comes next.
LEMMA WalkGoesOn ==
  /\ \A path : Reach(path) \in Dirs \cup {Nowhere}
  /\ Dirs \cup {Nowhere, <<>>} \subseteq Path
  /\ \A w \in WalkState : \A x \in Char : Walk(w, x) \in WalkState
<1>1. \A path : Reach(path) \in Dirs \cup {Nowhere} BY DEF Reach
<1>2. Dirs \cup {Nowhere, <<>>} \subseteq Path
  <2>1. <<>> \in Path BY EmptySeq DEF Path
  <2>2. Nowhere \in Path BY SiteAssumption DEF Nowhere, Path
  <2>3. Dirs \subseteq Path BY SiteAssumption
  <2> QED BY <2>1, <2>2, <2>3
<1>3. ASSUME NEW w \in WalkState, NEW x \in Char PROVE Walk(w, x) \in WalkState
  <2>1. w.at \in Path /\ w.name \in Path BY DEF WalkState
  <2>2. Append(w.name, x) \in Path BY <2>1, AppendProperties DEF Path
  <2>3. Reach(Enter(w.at, w.name)) \in Path /\ <<>> \in Path BY <1>1, <1>2
  <2> QED BY <2>1, <2>2, <2>3 DEF Walk, WalkState
<1> QED BY <1>1, <1>2, <1>3

\* There is such a walk, and Resolve is where its end leads.
LEMMA PathIsWalked ==
  ASSUME NEW path \in Path, path # <<>>
  PROVE  \E a : /\ Walked(path, a) /\ \A k \in 0..Len(path) : a[k] \in WalkState
                /\ Resolve(path) = Enter(a[Len(path)].at, a[Len(path)].name)
<1> DEFINE n     == Len(path)
           start == [at |-> IF path[1] = "/" THEN Reach(Root) ELSE <<>>, name |-> <<>>]
           G(it) == [s \in SUBSET (DOMAIN path) |->
                       IF s = {} THEN start
                       ELSE LET x == Max(s) IN Walk(it[s \ {x}], path[x])]
           R     == CHOOSE it : it = G(it)
           V     == WalkState
           F     == [i \in 1..n |-> [w \in V |-> Walk(w, path[i])]]
<1>1. Resolve(path) = Enter(R[DOMAIN path].at, R[DOMAIN path].name)
  BY DEF Resolve, FoldLeft, MapThenFoldSet
<1>2. n \in Nat /\ DOMAIN path = 1..n /\ \A i \in 1..n : path[i] \in Char
  BY LenProperties, ElementOfSeq DEF Path
<1>3. start \in V
  <2>1. Reach(Root) \in Path /\ <<>> \in Path BY WalkGoesOn
  <2> QED BY <2>1 DEF WalkState
<1> HIDE DEF n, start
<1>4. \A i \in 1..n : \A w \in V : Walk(w, path[i]) \in V BY <1>2, WalkGoesOn
<1> HIDE DEF V
<1>5. F \in [1..n -> [V -> V]] BY <1>4
<1>6. R = G(R)
  <2>1. PICK it : FoldsSets(V, start, n, F, it)
    <3> HIDE DEF F
    <3> QED BY <1>2, <1>3, <1>5, FoldExists
  <2>2. /\ it \in [SUBSET (1..n) -> V]
        /\ it = [s \in SUBSET (1..n) |-> IF s = {} THEN start ELSE F[Max(s)][it[s \ {Max(s)}]]]
    BY <2>1 DEF FoldsSets
  <2>3. ASSUME NEW s \in SUBSET (1..n), s # {}
        PROVE  F[Max(s)][it[s \ {Max(s)}]] = Walk(it[s \ {Max(s)}], path[Max(s)])
    <3>1. Max(s) \in s BY <1>2, <2>3, RestIsSmaller
    <3>2. it[s \ {Max(s)}] \in V BY <2>2
    <3> QED BY <3>1, <3>2
  <2>4. it = G(it)
    <3> HIDE DEF F
    <3>1. \A s \in SUBSET (1..n) :
            (IF s = {} THEN start ELSE F[Max(s)][it[s \ {Max(s)}]])
              = (IF s = {} THEN start ELSE Walk(it[s \ {Max(s)}], path[Max(s)]))
      BY <2>3
    <3>2. [s \in SUBSET (1..n) |-> IF s = {} THEN start ELSE F[Max(s)][it[s \ {Max(s)}]]]
            = G(it)
      BY <1>2, <3>1
    <3> QED BY <2>2, <3>2
  <2> QED BY <2>4
<1> HIDE DEF R
<1> DEFINE a == [k \in 0..n |-> R[1..k]]
<1>7. a[0] = start
  <2>1. 1..0 = {} /\ {} \in SUBSET (1..n) /\ 0 \in 0..n BY <1>2
  <2>2. R[{}] = start BY <1>2, <1>6, <2>1
  <2> QED BY <2>1, <2>2
<1>8. ASSUME NEW k \in 1..n PROVE a[k] = Walk(a[k - 1], path[k])
  <2>1. k - 1 \in 0..n /\ k \in 0..n BY <1>2
  <2>2. 1..k \in SUBSET (1..n) /\ 1..k # {} /\ Max(1..k) = k /\ (1..k) \ {k} = 1..k - 1
    BY <1>2, <2>1, InitialSets
  <2>3. \A s \in SUBSET (1..n) : s # {} => R[s] = Walk(R[s \ {Max(s)}], path[Max(s)])
    BY <1>2, <1>6
  <2>4. R[1..k] = Walk(R[(1..k) \ {k}], path[k]) BY <2>2, <2>3, Zenon
  <2>5. R[1..k] = Walk(R[1..k - 1], path[k]) BY <2>2, <2>4
  <2> QED BY <2>1, <2>5
<1>9. a[n] = R[DOMAIN path] BY <1>2
<1> HIDE DEF a
<1>10. \A k \in 0..n : a[k] \in V
  <2> DEFINE T == {k \in 0..n : a[k] \in V}
  <2>1. 0 \in T BY <1>2, <1>3, <1>7
  <2>2. ASSUME NEW k \in 1..n, k - 1 \in T PROVE k \in T
    <3>1. a[k] \in V BY <1>4, <1>8, <2>2
    <3> QED BY <3>1
  <2>3. T \in SUBSET (0..n) OBVIOUS
  <2> HIDE DEF T
  <2>4. T = 0..n BY <1>2, <2>1, <2>2, <2>3, UpTo
  <2> QED BY <2>4 DEF T
<1>11. Walked(path, a) BY <1>7, <1>8 DEF Walked, start, n
<1> QED BY <1>1, <1>9, <1>10, <1>11 DEF n, V

\* Where directories have plain names, a path with plain names leads to one.
LEMMA PlainWalk ==
  ASSUME PlainNames, NEW path \in Path, "?" \notin Range(path)
  PROVE  "?" \notin Range(Resolve(path))
<1> DEFINE Plain(p) == "?" \notin Range(p)
<1>1. Plain(Nowhere) /\ Plain(<<>>) /\ Plain(DotDot) BY DEF Nowhere, DotDot, Range
<1>2. \A p : Plain(Reach(p)) BY <1>1 DEF Reach, PlainNames
<1>3. path = <<>> => Resolve(path) = Nowhere BY DEF Resolve
<1>4. SUFFICES ASSUME path # <<>> PROVE Plain(Resolve(path)) BY <1>1, <1>3
<1> DEFINE n == Len(path)
<1>5. PICK a : /\ Walked(path, a) /\ \A k \in 0..n : a[k] \in WalkState
               /\ Resolve(path) = Enter(a[n].at, a[n].name)
  BY <1>4, PathIsWalked
<1>6. n \in Nat /\ DOMAIN path = 1..n BY LenProperties DEF Path
<1>7. \A k \in 1..n : path[k] \in Char /\ path[k] # "?"
  BY <1>6, ElementOfSeq DEF Path, Range
<1> HIDE DEF n
<1> DEFINE T == {k \in 0..n : Plain(a[k].at) /\ Plain(a[k].name)}
<1>8. T = 0..n
  <2>1. 0 \in T
    <3>1. a[0].at \in {Reach(Root), <<>>} /\ a[0].name = <<>> BY <1>5 DEF Walked
    <3> HIDE DEF Plain
    <3>2. Plain(a[0].at) /\ Plain(a[0].name) BY <1>1, <1>2, <3>1
    <3> QED BY <1>6, <3>2
  <2>2. ASSUME NEW k \in 1..n, k - 1 \in T PROVE k \in T
    <3> DEFINE w == a[k - 1]
               x == path[k]
    <3>1. k - 1 \in 0..n BY <1>6
    <3>2. w.name \in Path /\ x \in Char /\ x # "?" BY <1>5, <1>7, <3>1 DEF WalkState
    <3>3. a[k] = Walk(w, x) BY <1>5 DEF Walked, n
    <3>4. Plain(w.at) /\ Plain(w.name) BY <2>2
    <3> HIDE DEF w, x
    <3>5. Plain(Append(w.name, x)) BY <3>2, <3>4, RangeOfOneMore
    <3> HIDE DEF Plain
    <3>6. Plain(Walk(w, x).at) /\ Plain(Walk(w, x).name) BY <1>1, <1>2, <3>4, <3>5 DEF Walk
    <3> QED BY <3>3, <3>6
  <2>3. T \in SUBSET (0..n) OBVIOUS
  <2> HIDE DEF T
  <2> QED BY <1>6, <2>1, <2>2, <2>3, UpTo
<1> DEFINE at   == a[n].at
           name == a[n].name
<1>9. Plain(at) /\ Plain(name) /\ at \in Path /\ name \in Path
  <2>1. n \in 0..n BY <1>6
  <2>2. n \in T BY <1>8, <2>1
  <2> QED BY <1>5, <2>1, <2>2 DEF WalkState
<1> HIDE DEF at, name
<1>10. Plain(Below(at, name))
  <2>1. Range(Join(at, name)) \subseteq Range(at) \cup Range(name) \cup {"/"} BY <1>9, RangeOfJoin
  <2>2. "?" \notin {"/"} OBVIOUS
  <2> QED BY <1>9, <2>1, <2>2 DEF Below
<1> HIDE DEF Plain
<1>11. Plain(Enter(at, name)) BY <1>1, <1>2, <1>9, <1>10 DEF Enter
<1> QED BY <1>5, <1>11 DEF at, name

\* A "?" in the last name of a path stays in the name of what it leads to.
LEMMA QueryLeads ==
  ASSUME NEW path \in Path, NEW k \in 1..Len(path), path[k] = "?",
         \A i \in k..Len(path) : path[i] # "/"
  PROVE  Resolve(path) = Nowhere \/ "?" \in Range(Resolve(path))
<1> DEFINE n == Len(path)
<1>1. n \in Nat /\ DOMAIN path = 1..n BY LenProperties DEF Path
<1>2. path # <<>> BY <1>1, EmptySeq
<1>3. PICK a : /\ Walked(path, a) /\ \A i \in 0..n : a[i] \in WalkState
               /\ Resolve(path) = Enter(a[n].at, a[n].name)
  BY <1>2, PathIsWalked
<1>4. \A i \in 1..n : path[i] \in Char BY ElementOfSeq DEF Path
<1>5. k \in 1..n /\ \A i \in k..n : path[i] # "/" OBVIOUS
<1>6. \A i \in 1..n : a[i] = Walk(a[i - 1], path[i]) BY <1>3 DEF Walked
<1> HIDE DEF n
<1>7. ASSUME NEW i \in k..n
      PROVE  /\ i - 1 \in 0..n /\ a[i].name = Append(a[i - 1].name, path[i])
             /\ Range(a[i].name) = Range(a[i - 1].name) \cup {path[i]}
  <2>1. i \in 1..n /\ i - 1 \in 0..n BY <1>1, <1>5
  <2>2. a[i] = Walk(a[i - 1], path[i]) /\ path[i] # "/" BY <1>5, <1>6, <2>1
  <2>3. a[i].name = Append(a[i - 1].name, path[i]) BY <2>2 DEF Walk
  <2>4. a[i - 1].name \in Path /\ path[i] \in Char BY <1>3, <1>4, <2>1 DEF WalkState
  <2> QED BY <2>1, <2>3, <2>4, RangeOfOneMore
<1> DEFINE T == {i \in 0..n : i >= k => "?" \in Range(a[i].name)}
<1>8. T = 0..n
  <2>1. 0 \in T BY <1>1, <1>5
  <2>2. ASSUME NEW i \in 1..n, i - 1 \in T PROVE i \in T
    <3>1. CASE i < k BY <1>1, <1>5, <3>1
    <3>2. CASE i = k
      <4>1. i \in k..n /\ path[i] = "?" BY <1>1, <3>2
      <4>2. "?" \in Range(a[i].name) BY <1>7, <4>1
      <4> QED BY <4>2
    <3>3. CASE i > k
      <4>1. i \in k..n /\ i - 1 >= k BY <1>1, <1>5, <3>3
      <4>2. "?" \in Range(a[i - 1].name) BY <2>2, <4>1
      <4>3. "?" \in Range(a[i].name) BY <1>7, <4>1, <4>2
      <4> QED BY <4>3
    <3> QED BY <1>1, <1>5, <3>1, <3>2, <3>3
  <2>3. T \in SUBSET (0..n) OBVIOUS
  <2> HIDE DEF T
  <2> QED BY <1>1, <2>1, <2>2, <2>3, UpTo
<1> DEFINE at   == a[n].at
           name == a[n].name
<1>9. "?" \in Range(name) /\ at \in Path /\ name \in Path
  <2>1. n \in 0..n /\ n >= k BY <1>1, <1>5
  <2>2. n \in T BY <1>8, <2>1
  <2> QED BY <1>3, <2>1, <2>2 DEF WalkState
<1> HIDE DEF at, name
<1>10. name \notin {<<>>, Dot, DotDot} BY <1>9 DEF Dot, DotDot, Range
<1>11. "?" \in Range(Below(at, name)) BY <1>9, RangeOfJoin DEF Below
<1>12. Enter(at, name) = Nowhere \/ Enter(at, name) = Below(at, name) BY <1>10 DEF Enter
<1> QED BY <1>3, <1>11, <1>12 DEF at, name

\* A "?" in a URI stays in the name of the file that a DELETE looks for, because the
\* path of a safe server's location ends before it.
LEMMA QueryStays ==
  ASSUME NEW server \in ServerConfig, SafeServer(server),
         NEW uri \in Path, uri # <<>>, uri[1] = "/", QueryAt(uri) # 0,
         NEW config, config.path = MatchLocation(server, uri).path, config.root \in Path,
         ~QueryIsBad(uri)
  PROVE  LET place == Resolve(FileToDelete(config, uri)) IN
         place = Nowhere \/ "?" \in Range(place)
<1> DEFINE k == QueryAt(uri)
           n == Len(config.path)
           m == Len(uri)
           cut == SubSeq(uri, n + 1, m)
<1>1. m \in Nat /\ DOMAIN uri = 1..m BY LenProperties DEF Path
<1>2. k \in 1..m /\ uri[k] = "?" BY <1>1, QueryAtIs
<1>3. n \in Nat
  <2>1. config.path \in Path BY LocationIsOne DEF LocationConfig
  <2> QED BY <2>1, LenProperties DEF Path
<1>4. n < k
  <2>1. n <= Len(PathOf(uri)) BY LocationFits DEF SafeServer
  <2>2. PathOf(uri) = SubSeq(uri, 1, k - 1) BY DEF PathOf
  <2> HIDE DEF k, n, m
  <2>3. \A i \in 1..k - 1 : i \in 1..m BY <1>1, <1>2
  <2>4. \A i \in 1..k - 1 : uri[i] \in Char BY <2>3, ElementOfSeq DEF Path, m
  <2>5. k - 1 \in Int BY <1>2
  <2>6. Len(SubSeq(uri, 1, k - 1)) = IF 1 <= k - 1 THEN k - 1 - 1 + 1 ELSE 0
    BY <2>4, <2>5, SubSeqProperties
  <2>7. Len(PathOf(uri)) = k - 1 BY <1>2, <2>2, <2>6
  <2> QED BY <1>2, <1>3, <2>1, <2>7
<1>5. CutPrefixFromUri(config, uri) = cut BY DEF CutPrefixFromUri
<1>6. \A i \in k..m : uri[i] # "/"
  <2> DEFINE query == SubSeq(uri, k + 1, m)
  <2>1. QueryOf(uri) = query BY DEF QueryOf
  <2> HIDE DEF k, m
  <2>2. \A i \in k + 1..m : i \in 1..m BY <1>1, <1>2
  <2>3. \A i \in k + 1..m : uri[i] \in Char BY <2>2, ElementOfSeq DEF Path, m
  <2>4. /\ query \in Seq(Char) /\ Len(query) = IF k + 1 <= m THEN m - (k + 1) + 1 ELSE 0
        /\ \A i \in 1..m - (k + 1) + 1 : query[i] = uri[k + 1 + i - 1]
    BY <1>1, <1>2, <2>3, SubSeqProperties
  <2> HIDE DEF query
  <2>5. ASSUME NEW i \in k + 1..m PROVE uri[i] # "/"
    <3> DEFINE j == i - k
    <3>1. j \in 1..m - (k + 1) + 1 /\ k + 1 + j - 1 = i /\ k + 1 <= m BY <1>1, <1>2
    <3> HIDE DEF j
    <3>2. j \in DOMAIN query /\ query[j] = uri[i]
      <4>1. DOMAIN query = 1..Len(query) BY <2>4, LenProperties
      <4>2. Len(query) = m - (k + 1) + 1 BY <2>4, <3>1
      <4>3. query[j] = uri[k + 1 + j - 1] BY <2>4, <3>1
      <4> QED BY <3>1, <4>1, <4>2, <4>3
    <3>3. query[j] \in {"=", "q"} BY <2>1, <3>2 DEF QueryIsBad
    <3> QED BY <3>2, <3>3
  <2>6. \A i \in k..m : i = k \/ i \in k + 1..m BY <1>1, <1>2
  <2> QED BY <1>2, <2>5, <2>6
<1>7. cut \in Path /\ m - n \in Nat /\ Len(cut) = m - n
      /\ \A i \in 1..m - n : cut[i] = uri[n + i]
  <2> HIDE DEF k
  <2>1. n + 1 \in Int /\ n + 1 >= 1 /\ m \in Int /\ m <= Len(uri) /\ n + 1 <= m
    <3>1. m = Len(uri) OBVIOUS
    <3> HIDE DEF n, m
    <3> QED BY <1>1, <1>2, <1>3, <1>4, <3>1
  <2> HIDE DEF n, m
  <2>2. cut \in Path BY <2>1, SubPath
  <2>3. \A i \in n + 1..m : i \in 1..m BY <1>1, <1>3
  <2>4. \A i \in n + 1..m : uri[i] \in Char BY <2>3, ElementOfSeq DEF Path, m
  <2>5. /\ Len(cut) = IF n + 1 <= m THEN m - (n + 1) + 1 ELSE 0
        /\ \A i \in 1..m - (n + 1) + 1 : cut[i] = uri[n + 1 + i - 1]
    BY <2>1, <2>4, SubSeqProperties
  <2>6. m - (n + 1) + 1 = m - n /\ \A i \in 1..m - n : n + 1 + i - 1 = n + i BY <1>1, <1>3
  <2>7. m - n \in Nat BY <1>1, <1>3, <2>1
  <2> QED BY <2>1, <2>2, <2>5, <2>6, <2>7
<1> HIDE DEF cut
<1> DEFINE path == Join(config.root, cut)
<1>8. PICK front \in Path : path = front \o cut
  <2>1. cut # <<>> /\ <<"/">> \in Path
    <3>1. cut = <<>> => Len(cut) = 0 BY EmptySeq
    <3>2. m - n # 0 BY <1>1, <1>2, <1>3, <1>4
    <3> QED BY <1>7, <3>1, <3>2, SiteAssumption DEF Path
  <2>2. Front(config.root) \in Path
    <3>1. Len(config.root) \in Nat BY LenProperties DEF Path
    <3>2. Len(config.root) - 1 \in Int /\ Len(config.root) - 1 <= Len(config.root) BY <3>1
    <3> QED BY <3>2, SubPath DEF Front
  <2>3. config.root \o <<"/">> \in Path BY <2>1, ConcatProperties DEF Path
  <2> QED BY <2>1, <2>2, <2>3 DEF Join
<1>9. FileToDelete(config, uri) = path BY <1>5 DEF FileToDelete
<1> HIDE DEF path, n, m, k
<1> DEFINE f == Len(front)
           j == f + (k - n)
<1>10. f \in Nat BY LenProperties DEF Path
<1>11. /\ path \in Path /\ Len(path) = f + (m - n)
       /\ \A i \in 1..f + (m - n) : path[i] = IF i <= f THEN front[i] ELSE cut[i - f]
  <2>1. front \in Seq(Char) /\ cut \in Seq(Char) BY <1>7 DEF Path
  <2>2. /\ path \in Seq(Char) /\ Len(path) = f + Len(cut)
        /\ \A i \in 1..f + Len(cut) : path[i] = IF i <= f THEN front[i] ELSE cut[i - f]
    BY <1>8, <2>1, ConcatProperties
  <2> HIDE DEF f
  <2> QED BY <1>7, <2>2 DEF Path
<1> HIDE DEF f
<1>12. j \in 1..Len(path) BY <1>1, <1>2, <1>3, <1>4, <1>10, <1>11
<1>13. ASSUME NEW i \in j..Len(path) PROVE path[i] = uri[i - f + n] /\ i - f + n \in k..m
  <2>1. /\ i \in 1..f + (m - n) /\ ~(i <= f) /\ i - f \in 1..m - n /\ n + (i - f) = i - f + n
        /\ i - f + n \in k..m
    BY <1>1, <1>2, <1>3, <1>4, <1>10, <1>11
  <2>2. path[i] = cut[i - f] BY <1>11, <2>1
  <2> QED BY <1>7, <2>1, <2>2
<1>14. path[j] = "?"
  <2>1. j \in j..Len(path) /\ j - f + n = k BY <1>2, <1>3, <1>10, <1>12
  <2> QED BY <1>2, <1>13, <2>1
<1>15. \A i \in j..Len(path) : path[i] # "/" BY <1>6, <1>13
<1> HIDE DEF j
<1> QED BY <1>9, <1>11, <1>12, <1>14, <1>15, QueryLeads

\* What stands in the directories of such a site's configuration.
LEMMA PlainConfig ==
  ASSUME PlainNames, site \in Sites, NEW request, request.uri \in Path
  PROVE  LET config == ConfigOf(request)
         IN  "?" \notin Range(config.root) /\ "?" \notin Range(config.uploadTo)
<1> DEFINE server == MatchServer(site, request.host)
           l      == MatchLocation(server, request.uri)
<1>1. site \in Seq(ServerConfig) \ {<<>>} BY SiteAssumption
<1>2. server \in ServerConfig /\ server \in Range(site) BY <1>1, ServerIsOne
<1>3. PICK i \in DOMAIN site : server = site[i] BY <1>2 DEF Range
<1> HIDE DEF server
<1>4. l \in Range(server.locations) \/ l = DefaultLocation BY <1>2, LocationIsOne
<1>5. "?" \notin Range(<<>>) BY DEF Range
<1>6. "?" \notin Range(server.root) BY <1>3 DEF PlainNames
<1>7. "?" \notin Range(l.root) /\ "?" \notin Range(l.uploadTo)
  <2>1. CASE l \in Range(server.locations)
    <3> HIDE DEF l
    <3> QED BY <1>3, <2>1 DEF PlainNames
  <2>2. CASE l = DefaultLocation
    <3>1. l.root = <<>> /\ l.uploadTo = <<>> BY <2>2 DEF DefaultLocation
    <3> QED BY <1>5, <3>1
  <2> QED BY <1>4, <2>1, <2>2
<1>8. ConfigOf(request) = Merge(server, l) BY DEF ConfigOf, server
<1>9. LET config == Merge(server, l) IN
      (config.root = l.root \/ config.root = server.root) /\ config.uploadTo = l.uploadTo
  BY DEF Merge
<1> QED BY <1>6, <1>7, <1>8, <1>9

\* What is stored there has a plain name.
LEMMA StoredNames ==
  ASSUME PlainNames, NEW request \in Requests, NEW config, NEW path, NEW content,
         config.root \in Path, "?" \notin Range(config.root),
         config.uploadTo \in Path, "?" \notin Range(config.uploadTo),
         Stores(config, request, path, content)
  PROVE  "?" \notin Range(Resolve(path))
<1> DEFINE name == FileNameToUpload(request.body)
<1>1. IsRequest(request) BY SiteAssumption
<1>2. PlainTextName \in Path /\ "?" \notin Range(PlainTextName) BY NamesAreWords DEF PlainTextName, Range
<1>3. name \in Path /\ "?" \notin Range(name)
  <2>1. "?" \notin Range(<<>>) /\ "?" \notin Range(Misread) BY DEF Range, Misread
  <2>2. /\ name \in Path
        /\ \/ name \in {<<>>, Misread}
           \/ \E i \in DOMAIN request.body :
                request.body[i].atom = "disposition" /\ name = request.body[i].filename
    BY <1>1, UploadNames
  <2> HIDE DEF name
  <2> QED BY <2>1, <2>2 DEF PlainNames
<1>4. path = Join(config.root, PlainTextName) \/ path = Join(config.uploadTo, name) BY DEF Stores
<1> HIDE DEF name
<1>5. path \in Path /\ "?" \notin Range(path)
  <2>1. ASSUME NEW root \in Path, NEW resource \in Path,
               "?" \notin Range(root), "?" \notin Range(resource)
        PROVE  Join(root, resource) \in Path /\ "?" \notin Range(Join(root, resource))
    <3>1. Range(Join(root, resource)) \subseteq Range(root) \cup Range(resource) \cup {"/"}
      BY RangeOfJoin
    <3>2. "?" \notin {"/"} OBVIOUS
    <3> QED BY <2>1, <3>1, <3>2, JoinIsPath
  <2> QED BY <1>2, <1>3, <1>4, <2>1
<1> QED BY <1>5, PlainWalk

\* A file that is there, not locked and no directory, is the body of the GET for it.
LEMMA FileIsRead ==
  ASSUME NEW fs, NEW config, NEW uri, LET path == Join(config.root, CutPrefixFromUri(config, uri)) IN
           /\ ~CutThrows(config, uri) /\ ~IsDir(path) /\ IsFile(fs, path)
           /\ Resolve(path) \notin Locked
  PROVE  LET path == Join(config.root, CutPrefixFromUri(config, uri))
             read == BuildResponseGET(Builder(fs), config, uri)
         IN  read.body.from = "file" /\ read.body.data = fs[Resolve(path)]
<1> DEFINE path == Join(config.root, CutPrefixFromUri(config, uri))
           b    == Builder(fs)
           b1   == Begin(b, 200)
           s    == Add(b1, "type")
           body == Body("file", IF IsDir(path) THEN <<>> ELSE b1.files[Resolve(path)])
           r    == [s EXCEPT !.body = body]
           read == BuildResponseGET(b, config, uri)
<1>1. b.files = fs /\ Unbegun(b) BY BuilderStarts DEF Unbegun
<1>2. read = HandleFile(b1, path) BY <1>1 DEF BuildResponseGET
<1>3. HandleFile(b1, path) = r BY DEF HandleFile
<1> HIDE DEF b
<1>4. Begun(b1) /\ b1.files = fs BY <1>1, BeginMakes
<1> HIDE DEF b1, read
<1>5. IsBuilder(s)
  <2>1. Line("type") \in HeaderLine BY DEF Line, HeaderLine
  <2> QED BY <1>4, <2>1, AddIs DEF Begun
<1>6. body = Body("file", fs[Resolve(path)]) BY <1>4
<1> HIDE DEF s, body
<1>7. r.body = body BY <1>5, FieldSet, Zenon
<1> HIDE DEF r
<1>8. read.body = Body("file", fs[Resolve(path)]) BY <1>2, <1>3, <1>6, <1>7
<1> QED BY <1>8 DEF Body, read, b

\* Where names have no "?" and servers are safe, a DELETE that succeeds takes away what a
\* GET of the same URI would have been answered with, and nothing else.  A DELETE looks
\* for the whole URI and a GET for what is before the query: with a file that has a "?"
\* in its name the two are not the same.
THEOREM DeletedIsRead ==
  ASSUME \A servers \in Sites : \A i \in DOMAIN servers : SafeServer(servers[i]), PlainNames
  PROVE  Spec => DeleteRemovesWhatIsRead
<1> DEFINE Named(fs) == \A path \in DOMAIN fs : path # Nowhere /\ "?" \notin Range(path)
           Inv == site \in Sites /\ Named(files)
<1>1. Init => Inv BY SiteAssumption DEF Init, PlainNames, IsPlace
<1>2. ASSUME Inv, NEW request, NEW config, NEW status, NEW response, IsRequest(request),
             Served(request, config, status, response), response.code = 200
      PROVE  LET b == Builder(files)
                 m == BuildResponse(b, config, request)
             IN  /\ m.code = 200 /\ status = 1 /\ response.files = m.files
                 /\ ~QueryIsBad(request.uri) /\ Unbegun(b) /\ b.files = files /\ b.code # 200
  <2> DEFINE b == Builder(files)
  <2>1. b.code = -1 BY DEF Builder
  <2>2. Unbegun(b) /\ b.files = files /\ b.code # 200 BY <2>1, BuilderStarts DEF Unbegun
  <2>3. request.method \in Method BY <1>2 DEF IsRequest
  <2>4. status # 200 BY <1>2 DEF Served, StatusOf
  <2>5. SuccessIsMade(files, config, request, status) BY <2>3, <2>4, BuildSucceeds
  <2>6. response = Build(files, config, request, status) BY <1>2 DEF Served
  <2> QED BY <1>2, <2>2, <2>5, <2>6 DEF SuccessIsMade
<1>3. ASSUME Inv, NEW request, NEW config, NEW status, NEW response, IsRequest(request),
             Served(request, config, status, response),
             response.code = 200, request.method = "DELETE", config.ret = NoReturn
      PROVE  LET read == BuildResponseGET(Builder(files), config, PathOf(request.uri)) IN
             /\ read.body.from = "file"
             /\ \E path \in DOMAIN files : /\ files[path] = read.body.data
                                           /\ response.files = Restrict(files, DOMAIN files \ {path})
  <2> DEFINE b    == Builder(files)
             m    == BuildResponse(b, config, request)
             d    == BuildResponseDELETE(b, config, request.uri)
             path == FileToDelete(config, request.uri)
             read == BuildResponseGET(b, config, PathOf(request.uri))
             server == MatchServer(site, request.host)
  <2>1. /\ m.code = 200 /\ response.files = m.files /\ ~QueryIsBad(request.uri)
        /\ Unbegun(b) /\ b.files = files /\ b.code # 200
    BY <1>2, <1>3
  <2> HIDE DEF b
  <2>2. m = d
    <3>1. request.method \in Method /\ request.method # "POST" /\ request.method # "GET"
      BY <1>3 DEF Method
    <3> QED BY <1>3, <2>1, <3>1, MethodSucceeds
  <2> HIDE DEF m
  <2>3. /\ ~CutThrows(config, request.uri) /\ ~IsDir(path) /\ IsFile(files, path)
        /\ Resolve(path) \notin Locked
        /\ response.files = Restrict(files, DOMAIN files \ {Resolve(path)})
    BY <2>1, <2>2, DeleteSucceeds
  <2>4. Resolve(path) \in DOMAIN files BY <2>3 DEF IsFile
  <2>5. request \in Requests /\ config = ConfigOf(request) BY <1>3 DEF Served
  <2>6. request.uri \in Path /\ request.uri # <<>> /\ request.uri[1] = "/"
    BY <1>3, <2>5, SiteAssumption DEF IsRequest
  <2>7. /\ server \in ServerConfig /\ SafeServer(server)
        /\ config.path = MatchLocation(server, request.uri).path
    <3>1. server \in ServerConfig /\ config.path = MatchLocation(server, request.uri).path
      BY <1>3, <2>5, ConfigIsMerged
    <3>2. \E i \in DOMAIN site : server = site[i] BY <1>3, ConfigIsMerged
    <3> HIDE DEF server
    <3> QED BY <1>3, <3>1, <3>2
  <2>8. config.root \in Path BY <1>3, <2>5, <2>6, ConfigPaths
  <2> HIDE DEF server, path
  <2>9. QueryAt(request.uri) = 0
    <3>1. QueryAt(request.uri) # 0 => Resolve(path) = Nowhere \/ "?" \in Range(Resolve(path))
      BY <2>1, <2>6, <2>7, <2>8, QueryStays DEF path
    <3> QED BY <1>3, <2>4, <3>1
  <2>10. PathOf(request.uri) = request.uri BY <2>9 DEF PathOf
  <2>11. read.body.from = "file" /\ read.body.data = files[Resolve(path)]
    <3>1. path = Join(config.root, CutPrefixFromUri(config, request.uri)) BY DEF path, FileToDelete
    <3> QED BY <2>3, <2>10, <3>1, FileIsRead DEF b
  <2> HIDE DEF read
  <2> QED BY <2>3, <2>4, <2>11 DEF read, b
<1>4. ASSUME Inv, NEW request, NEW config, NEW status, NEW response, IsRequest(request),
             \/ Served(request, config, status, response)
             \/ Scripted(request, config, status, response)
             \/ RefusedOne(request, config, status, response)
             \/ Nothing(request, config, status, response)
      PROVE  Named(response.files)
  <2>1. request.method \in Method /\ request.uri \in Path BY <1>4 DEF IsRequest
  <2>2. CASE response.files = files BY <1>4, <2>2
  <2>3. ASSUME Served(request, config, status, response), response.code = 200
        PROVE  Named(response.files)
    <3> DEFINE b == Builder(files)
               m == BuildResponse(b, config, request)
               d == BuildResponseDELETE(b, config, request.uri)
    <3>1. m.code = 200 /\ response.files = m.files /\ Unbegun(b) /\ b.files = files /\ b.code # 200
      BY <1>2, <1>4, <2>3
    <3> HIDE DEF b
    <3>2. \/ m.files = files
          \/ \E path, content : /\ Stores(config, request, path, content)
                                /\ m.files = Put(files, Resolve(path), content)
          \/ m = d
      BY <2>1, <3>1, MethodSucceeds
    <3>3. CASE m = d
      <4> HIDE DEF m
      <4> DEFINE name == Resolve(FileToDelete(config, request.uri))
      <4>1. d.files = Restrict(files, DOMAIN files \ {name}) BY <3>1, <3>3, DeleteSucceeds
      <4> HIDE DEF d, name
      <4>2. DOMAIN d.files \subseteq DOMAIN files BY <4>1 DEF Restrict
      <4> QED BY <1>4, <3>1, <3>3, <4>2
    <3>4. CASE \E path, content : /\ Stores(config, request, path, content)
                                  /\ m.files = Put(files, Resolve(path), content)
      <4>1. PICK path, content : /\ Stores(config, request, path, content)
                                 /\ m.files = Put(files, Resolve(path), content)
        BY <3>4
      <4> HIDE DEF m
      <4>2. request \in Requests /\ config = ConfigOf(request) BY <2>3 DEF Served
      <4>3. /\ config.root \in Path /\ "?" \notin Range(config.root)
            /\ config.uploadTo \in Path /\ "?" \notin Range(config.uploadTo)
        BY <1>4, <2>1, <4>2, ConfigPaths, PlainConfig
      <4>4. Resolve(path) # Nowhere /\ "?" \notin Range(Resolve(path))
        BY <4>1, <4>2, <4>3, StoredNames DEF Stores, MayOpen
      <4>5. DOMAIN m.files = {Resolve(path)} \cup DOMAIN files BY <4>1 DEF Put
      <4> QED BY <1>4, <3>1, <4>4, <4>5
    <3>5. CASE m.files = files
      <4> HIDE DEF m
      <4> QED BY <1>4, <3>1, <3>5
    <3> QED BY <3>2, <3>3, <3>4, <3>5
  <2>4. response.files # files => response.code = 200 /\ Served(request, config, status, response)
    <3>1. LET r == Build(files, config, request, status) IN r.files # files => r.code = 200
      BY <2>1, BuildIs
    <3>2. status # 200 /\ status # 1 => Build(files, config, request, status).code # 200
      BY <2>1, ErrorsDoNotSucceed
    <3> QED BY <1>4, <3>1, <3>2 DEF Served, Scripted, RefusedOne, Nothing
  <2> QED BY <2>2, <2>3, <2>4
<1> DEFINE Removes ==
             LET r == last'.request IN
                last' # last /\ r.method = "DELETE" /\ last'.response.code = 200
                  /\ last'.config.ret = NoReturn /\ last'.status = 1 /\ ~(ScriptAnswer)'
                => LET read == BuildResponseGET(Builder(files), last'.config, PathOf(r.uri)) IN
                   /\ read.body.from = "file"
                   /\ \E path \in DOMAIN files : /\ files[path] = read.body.data
                                                 /\ files' = Restrict(files, DOMAIN files \ {path})
<1>5. ASSUME Inv, Next PROVE Inv' /\ Removes
  <2>1. PICK request, config, status, response :
          /\ Answer(request, config, status, response) /\ IsRequest(request)
          /\ \/ Served(request, config, status, response)
             \/ Scripted(request, config, status, response)
             \/ RefusedOne(request, config, status, response)
             \/ Nothing(request, config, status, response)
    BY <1>5, StepIs
  <2>2. /\ last'.request = request /\ last'.config = config
        /\ last'.status = status /\ last'.response = response
        /\ files' = response.files /\ site' = site
    BY <2>1, AnswerChanges
  <2>3. Inv' BY <1>4, <1>5, <2>1, <2>2
  <2>4. SUFFICES ASSUME request.method = "DELETE", response.code = 200, config.ret = NoReturn,
                        status = 1, ~(ScriptAnswer)'
                 PROVE  LET read == BuildResponseGET(Builder(files), config, PathOf(request.uri)) IN
                        /\ read.body.from = "file"
                        /\ \E path \in DOMAIN files :
                             /\ files[path] = read.body.data
                             /\ response.files = Restrict(files, DOMAIN files \ {path})
    BY <2>2, <2>3
  <2>5. Served(request, config, status, response)
    <3>1. ~Scripted(request, config, status, response)
      BY <2>2, <2>4 DEF Scripted, ScriptAnswer
    <3> QED BY <2>1, <2>4, <3>1 DEF RefusedOne, Nothing
  <2> QED BY <1>3, <1>5, <2>1, <2>4, <2>5
<1>6. Inv /\ [Next]_vars => Inv'
  <2>1. ASSUME Inv, UNCHANGED vars PROVE Inv' BY <2>1 DEF vars
  <2> QED BY <1>5, <2>1
<1>7. Inv /\ [Next]_vars => [Removes]_vars
  <2> HIDE DEF Removes, Inv
  <2> QED BY <1>5
<1>8. [][Removes]_vars => DeleteRemovesWhatIsRead BY DEF DeleteRemovesWhatIsRead
<1> HIDE DEF Removes, Inv
<1> QED BY <1>1, <1>6, <1>7, <1>8, PTL DEF Spec, Inv

-----------------------------------------------------------------------------
(* What an upload stores.                                                  *)

\* The first of several places.
LEMMA FirstPlaceIs ==
  ASSUME NEW s, NEW t, NEW i, NEW p, Places(s, t) \subseteq Nat, p \in Places(s, t), p >= i,
         \A j \in Places(s, t) : j >= i => p <= j
  PROVE  FirstPlace(s, t, i) = p
<1> DEFINE after == {j \in Places(s, t) : j >= i}
<1>1. after \subseteq Nat /\ p \in after /\ \A j \in after : p <= j OBVIOUS
<1>2. FirstPlace(s, t, i) = IF after = {} THEN 0 ELSE Min(after) BY DEF FirstPlace
<1> HIDE DEF after
<1>3. Min(after) \in after /\ \A j \in after : Min(after) <= j
  <2>1. after # {} BY <1>1
  <2> QED BY <1>1, <2>1, MinIsSmallest
<1>4. Min(after) = p
  <2> DEFINE m == Min(after)
  <2>1. m \in Nat /\ p \in Nat /\ m <= p /\ p <= m BY <1>1, <1>3
  <2> HIDE DEF m
  <2>2. m = p BY <2>1
  <2> QED BY <2>2 DEF m
<1> QED BY <1>1, <1>2, <1>4

\* A place of one atom, and of two.
LEMMA PlacesAre ==
  ASSUME NEW S, NEW s \in Seq(S)
  PROVE  /\ \A x : Places(s, <<x>>) = {i \in 1..Len(s) : s[i] = x}
         /\ \A x, y : Places(s, <<x, y>>) = {i \in 1..Len(s) - 1 : s[i] = x /\ s[i + 1] = y}
<1> DEFINE n == Len(s)
<1>1. n \in Nat BY LenProperties
<1>2. \A i \in 1..n : s[i] \in S BY <1>1, ElementOfSeq
<1>3. ASSUME NEW x PROVE Places(s, <<x>>) = {i \in 1..n : s[i] = x}
  <2>1. ASSUME NEW i \in 1..n PROVE SubSeq(s, i, i + 1 - 1) = <<x>> <=> s[i] = x
    <3> DEFINE u == SubSeq(s, i, i)
    <3>1. i \in Int /\ i + 1 - 1 = i /\ i..i = {i} OBVIOUS
    <3>2. \A k \in i..i : s[k] \in S BY <1>2, <3>1
    <3>3. /\ u \in Seq(S) /\ Len(u) = IF i <= i THEN i - i + 1 ELSE 0
          /\ \A k \in 1..i - i + 1 : u[k] = s[i + k - 1]
      BY <3>1, <3>2, SubSeqProperties
    <3> HIDE DEF u
    <3>4. Len(u) = 1 /\ u[1] = s[i]
      <4>1. i - i + 1 = 1 /\ i <= i /\ i + 1 - 1 = i /\ 1 \in 1..1 OBVIOUS
      <4> QED BY <3>3, <4>1
    <3>5. u = <<x>> <=> u[1] = x
      <4>1. u[1] \in S BY <1>2, <3>4
      <4>2. u[1] = x => <<x>> \in Seq(S) /\ Len(<<x>>) = 1 /\ <<x>>[1] = x BY <4>1
      <4>3. u[1] = x => u = <<x>> BY <3>3, <3>4, <4>2, SeqEqual
      <4> QED BY <4>3
    <3> QED BY <3>1, <3>4, <3>5 DEF u
  <2>2. Len(<<x>>) = 1 /\ Len(s) - 1 + 1 = n BY <1>1
  <2> QED BY <2>1, <2>2 DEF Places
<1>4. ASSUME NEW x, NEW y PROVE Places(s, <<x, y>>) = {i \in 1..n - 1 : s[i] = x /\ s[i + 1] = y}
  <2>1. ASSUME NEW i \in 1..n - 1
        PROVE  SubSeq(s, i, i + 2 - 1) = <<x, y>> <=> s[i] = x /\ s[i + 1] = y
    <3> DEFINE j == i + 1
               u == SubSeq(s, i, j)
    <3>1. i \in Int /\ j \in Int /\ i + 2 - 1 = j OBVIOUS
    <3>2. \A k \in i..j : k \in 1..n BY <1>1
    <3>3. \A k \in i..j : s[k] \in S BY <1>2, <3>2
    <3> HIDE DEF j
    <3>4. /\ u \in Seq(S) /\ Len(u) = IF i <= j THEN j - i + 1 ELSE 0
          /\ \A k \in 1..j - i + 1 : u[k] = s[i + k - 1]
      BY <3>1, <3>3, SubSeqProperties
    <3> HIDE DEF u
    <3>5. Len(u) = 2 /\ u[1] = s[i] /\ u[2] = s[i + 1]
      <4>1. j - i + 1 = 2 /\ i <= j /\ i + 1 - 1 = i /\ i + 2 - 1 = i + 1 BY DEF j
      <4>2. 1 \in 1..2 /\ 2 \in 1..2 OBVIOUS
      <4> QED BY <3>4, <4>1, <4>2
    <3>6. u = <<x, y>> <=> u[1] = x /\ u[2] = y
      <4>1. u[1] \in S /\ u[2] \in S BY <3>4, <3>5, ElementOfSeq
      <4>2. u[1] = x /\ u[2] = y =>
              <<x, y>> \in Seq(S) /\ Len(<<x, y>>) = 2 /\ \A k \in 1..2 : <<x, y>>[k] = u[k]
        BY <4>1
      <4>3. u[1] = x /\ u[2] = y => u = <<x, y>> BY <3>4, <3>5, <4>2, SeqEqual
      <4> QED BY <4>3
    <3> QED BY <3>1, <3>5, <3>6 DEF u
  <2>2. Len(<<x, y>>) = 2 /\ n - 2 + 1 = n - 1 BY <1>1
  <2>3. Places(s, <<x, y>>) = {i \in 1..n - 1 : SubSeq(s, i, i + 2 - 1) = <<x, y>>}
    BY <2>2 DEF Places
  <2> HIDE DEF n
  <2> QED BY <2>1, <2>3
<1> QED BY <1>3, <1>4


\* ResponseBuilder takes such a body apart as the parser does.
LEMMA OneFileIsRead ==
  ASSUME NEW S, NEW body \in Seq(S), OneFile(body),
         \A i \in DOMAIN body :
           body[i].atom = "disposition" /\ body[i].filename # <<>> => body[i].named,
         NEW part \in Parts(body), part.filename # <<>>
  PROVE  /\ part.filename = FileNameToUpload(body)
         /\ part.content = FileContent("multipart", body)
<1> DEFINE n == Len(body)
           e == FirstPlace(body, HeaderEnd, 1)
           s == SubSeq(body, 3, n - 2)
<1>1. /\ {i \in 1..n : body[i] = Delimiter} = {1, n - 1}
      /\ body[2] = NewLine /\ body[n] = Dashes /\ body[n - 2] = NewLine
      /\ e > 3 /\ e <= n - 4
  BY DEF OneFile
<1>2. PICK d \in 3..e - 1 : {i \in 3..e - 1 : body[i].atom = "disposition"} = {d} BY DEF OneFile
<1>3. n \in Nat BY LenProperties
<1>4. Delimiter # NewLine /\ Delimiter # Dashes /\ NewLine # Dashes
  <2>1. /\ Delimiter.atom = "boundary" /\ NewLine.atom = "CRLF" /\ Dashes.atom = "dashes"
    BY DEF Delimiter, NewLine, Dashes
  <2> QED BY <2>1
\* Where the header ends.
<1>5. /\ e \in Nat /\ body[e] = NewLine /\ body[e + 1] = NewLine
      /\ \A j \in 1..n - 1 : body[j] = NewLine /\ body[j + 1] = NewLine => e <= j
  <2> DEFINE P     == Places(body, HeaderEnd)
             after == {j \in P : j >= 1}
  <2>1. P = {j \in 1..n - 1 : body[j] = NewLine /\ body[j + 1] = NewLine}
    BY PlacesAre DEF HeaderEnd
  <2>2. after = P BY <1>3, <2>1
  <2>3. e = IF after = {} THEN 0 ELSE Min(after) BY DEF FirstPlace
  <2> HIDE DEF e, n, P, after
  <2>4. P # {} BY <1>1, <2>2, <2>3
  <2>5. P \subseteq Nat BY <1>3, <2>1
  <2>6. e \in P /\ \A j \in P : e <= j BY <2>2, <2>3, <2>4, <2>5, MinIsSmallest
  <2> QED BY <2>1, <2>5, <2>6
<1> HIDE DEF e, n
<1>6. n \in Nat /\ n >= 8 /\ e \in 4..n - 4 BY <1>1, <1>3, <1>5
\* Where the body is closed, and the one slice.
<1>7. Places(body, <<Delimiter>>) = {1, n - 1} BY <1>1, PlacesAre DEF n
<1>8. Places(body, Closing) = {n - 1}
  <2>1. Places(body, Closing) = {i \in 1..n - 1 : body[i] = Delimiter /\ body[i + 1] = Dashes}
    BY PlacesAre DEF Closing, n
  <2>2. ASSUME NEW i \in 1..n - 1 PROVE body[i] = Delimiter /\ body[i + 1] = Dashes <=> i = n - 1
    <3>1. body[i] = Delimiter <=> i = 1 \/ i = n - 1
      <4>1. i \in 1..n BY <1>3
      <4> QED BY <1>1, <4>1
    <3>2. i = 1 => body[i + 1] # Dashes BY <1>1, <1>4
    <3>3. i = n - 1 => i + 1 = n BY <1>3
    <3> QED BY <1>1, <3>1, <3>2, <3>3
  <2>3. n - 1 \in 1..n - 1 BY <1>6
  <2> QED BY <2>1, <2>2, <2>3
<1>9. FirstPlace(body, Closing, 1) = n - 1
  <2> DEFINE m == n - 1
             P == Places(body, Closing)
  <2>1. m \in Nat /\ m >= 1 /\ P = {m} BY <1>6, <1>8
  <2> HIDE DEF m, P
  <2>2. P \subseteq Nat /\ m \in P /\ \A j \in P : m <= j BY <2>1
  <2>3. FirstPlace(body, Closing, 1) = m BY <2>1, <2>2, FirstPlaceIs DEF P
  <2> QED BY <2>3 DEF m
<1>10. FirstPlace(body, <<Delimiter>>, 2) = n - 1
  <2> DEFINE m == n - 1
             P == Places(body, <<Delimiter>>)
  <2>1. m \in Nat /\ m >= 2 /\ P = {1, m} BY <1>6, <1>7
  <2> HIDE DEF m, P
  <2>2. P \subseteq Nat /\ m \in P /\ \A j \in P : j >= 2 => m <= j BY <2>1
  <2>3. FirstPlace(body, <<Delimiter>>, 2) = m BY <2>1, <2>2, FirstPlaceIs DEF P
  <2> QED BY <2>3 DEF m
<1>11. Slices(body) = {s}
  <2> DEFINE bounds == Places(body, <<Delimiter>>)
             closed == Places(body, Closing)
             J == {j \in bounds : /\ FirstPlace(body, <<Delimiter>>, j + 1) # 0
                                  /\ \A k \in closed : j < k}
  <2>1. J = {1}
    <3>1. 1 < n - 1 /\ ~(n - 1 < n - 1) /\ n - 1 # 0 BY <1>6
    <3>2. 1 + 1 = 2 OBVIOUS
    <3> QED BY <1>7, <1>8, <1>10, <3>1, <3>2
  <2>2. Slices(body) = {SubSeq(body, i + 2, FirstPlace(body, <<Delimiter>>, i + 1) - 1) : i \in J}
    BY DEF Slices
  <2> HIDE DEF J
  <2>3. SubSeq(body, 1 + 2, FirstPlace(body, <<Delimiter>>, 1 + 1) - 1) = s
    <3>1. 1 + 1 = 2 /\ 1 + 2 = 3 /\ n - 1 - 1 = n - 2 BY <1>6
    <3> QED BY <1>10, <3>1
  <2> QED BY <2>1, <2>2, <2>3
<1>12. /\ s \in Seq(S) /\ Len(s) = n - 4 /\ DOMAIN s = 1..n - 4
       /\ \A i \in 1..n - 4 : s[i] = body[i + 2]
  <2>1. \A k \in 3..n - 2 : k \in 1..n BY <1>3
  <2>2. \A k \in 3..n - 2 : body[k] \in S BY <2>1, ElementOfSeq DEF n
  <2>3. n - 2 \in Int /\ 3 <= n - 2 BY <1>6
  <2>4. /\ s \in Seq(S) /\ Len(s) = IF 3 <= n - 2 THEN n - 2 - 3 + 1 ELSE 0
        /\ \A k \in 1..n - 2 - 3 + 1 : s[k] = body[3 + k - 1]
    BY <2>2, <2>3, SubSeqProperties
  <2> HIDE DEF s
  <2>5. Len(s) = n - 4
    <3> DEFINE l == Len(s)
    <3>1. l = IF 3 <= n - 2 THEN n - 2 - 3 + 1 ELSE 0 BY <2>4
    <3> HIDE DEF l
    <3>2. l = n - 4 BY <1>6, <2>3, <3>1
    <3> QED BY <3>2 DEF l
  <2>6. ASSUME NEW i \in 1..n - 4 PROVE s[i] = body[i + 2]
    <3>1. i \in 1..n - 2 - 3 + 1 /\ 3 + i - 1 = i + 2 BY <1>3
    <3> QED BY <2>4, <3>1
  <2> QED BY <2>4, <2>5, <2>6, LenProperties
<1> HIDE DEF s
<1>13. FirstPlace(s, HeaderEnd, 1) = e - 2
  <2> DEFINE P == Places(s, HeaderEnd)
             p == e - 2
  <2>1. P = {i \in 1..n - 4 - 1 : s[i] = NewLine /\ s[i + 1] = NewLine}
    BY <1>12, PlacesAre DEF HeaderEnd
  <2>2. p \in 1..n - 4 - 1 /\ p + 1 \in 1..n - 4 /\ p \in 1..n - 4 /\ p + 2 = e /\ p + 1 + 2 = e + 1
    BY <1>6
  <2> HIDE DEF p, P
  <2>3. s[p] = body[e] /\ s[p + 1] = body[e + 1] BY <1>12, <2>2
  <2>4. p \in P BY <1>5, <2>1, <2>2, <2>3
  <2>5. ASSUME NEW j \in P PROVE p <= j
    <3>1. j \in 1..n - 4 - 1 /\ s[j] = NewLine /\ s[j + 1] = NewLine BY <2>1, <2>5
    <3>2. /\ j \in 1..n - 4 /\ j + 1 \in 1..n - 4 /\ j + 2 \in 1..n - 1 /\ j + 2 + 1 = j + 1 + 2
      BY <1>6, <3>1
    <3>3. body[j + 2] = NewLine /\ body[j + 2 + 1] = NewLine BY <1>12, <3>1, <3>2
    <3>4. e <= j + 2 BY <1>5, <3>2, <3>3
    <3> QED BY <1>6, <2>2, <3>1, <3>4
  <2>6. P \subseteq Nat /\ p >= 1 BY <1>3, <2>1, <2>2
  <2>7. FirstPlace(s, HeaderEnd, 1) = p BY <2>4, <2>5, <2>6, FirstPlaceIs DEF P
  <2> QED BY <2>7 DEF p
\* The file's name.
<1>14. Dispositions(s) = {body[d]}
  <2> DEFINE h == SubSeq(s, 1, e - 3)
  <2>1. Header(s) = h
    <3>1. e - 2 - 1 = e - 3 BY <1>6
    <3> QED BY <1>13, <3>1 DEF Header
  <2>2. /\ h \in Seq(S) /\ DOMAIN h = 1..e - 3 /\ \A i \in 1..e - 3 : h[i] = body[i + 2]
    <3>1. \A k \in 1..e - 3 : k \in 1..n - 4 BY <1>6
    <3>2. \A k \in 1..e - 3 : s[k] \in S BY <1>12, <3>1, ElementOfSeq
    <3>3. e - 3 \in Int /\ 1 <= e - 3 /\ e - 3 - 1 + 1 = e - 3 BY <1>6
    <3>4. /\ h \in Seq(S) /\ Len(h) = IF 1 <= e - 3 THEN e - 3 - 1 + 1 ELSE 0
          /\ \A k \in 1..e - 3 - 1 + 1 : h[k] = s[1 + k - 1]
      BY <3>2, <3>3, SubSeqProperties
    <3> HIDE DEF h
    <3>5. DOMAIN h = 1..e - 3
      <4>1. Len(h) = e - 3
        <5> DEFINE l == Len(h)
        <5>1. l = IF 1 <= e - 3 THEN e - 3 - 1 + 1 ELSE 0 BY <3>4
        <5> HIDE DEF l
        <5>2. l = e - 3 BY <3>3, <5>1
        <5> QED BY <5>2 DEF l
      <4> QED BY <3>4, <4>1, LenProperties
    <3>6. ASSUME NEW i \in 1..e - 3 PROVE h[i] = body[i + 2]
      <4>1. i \in 1..e - 3 - 1 + 1 /\ 1 + i - 1 = i BY <1>6
      <4> QED BY <1>12, <3>1, <3>4, <4>1
    <3> QED BY <3>4, <3>5, <3>6
  <2> HIDE DEF h
  <2>3. ASSUME NEW x PROVE x \in Range(h) <=> \E j \in 3..e - 1 : x = body[j]
    <3>1. ASSUME NEW i \in 1..e - 3, x = h[i] PROVE \E j \in 3..e - 1 : x = body[j]
      <4>1. i + 2 \in 3..e - 1 BY <1>6
      <4> QED BY <2>2, <3>1, <4>1
    <3>2. ASSUME NEW j \in 3..e - 1, x = body[j] PROVE \E i \in 1..e - 3 : x = h[i]
      <4> DEFINE i == j - 2
      <4>1. i \in 1..e - 3 /\ i + 2 = j BY <1>6
      <4> HIDE DEF i
      <4>2. x = h[i] BY <2>2, <3>2, <4>1
      <4> QED BY <4>1, <4>2
    <3> QED BY <2>2, <3>1, <3>2 DEF Range
  <2>4. \A x : x \in Dispositions(s) <=> x \in Range(h) /\ x.atom = "disposition"
    BY <2>1 DEF Dispositions
  <2>5. body[d].atom = "disposition" /\ \A j \in 3..e - 1 : body[j].atom = "disposition" => j = d
    BY <1>2
  <2> QED BY <1>2, <2>3, <2>4, <2>5
<1>15. part.filename = body[d].filename /\ part.content = Content(s)
  <2> DEFINE F(t) == [filename |-> (CHOOSE x \in Dispositions(t) : TRUE).filename, content |-> Content(t)]
  <2>1. Parts(body) = {F(t) : t \in {u \in Slices(body) : HasHeader(u) /\ Dispositions(u) # {}}}
    BY Zenon DEF Parts
  <2> HIDE DEF F
  <2>2. part = F(s) BY <1>11, <2>1
  <2>3. (CHOOSE x \in Dispositions(s) : TRUE) = body[d] BY <1>14
  <2>4. F(s) = [filename |-> (CHOOSE x \in Dispositions(s) : TRUE).filename, content |-> Content(s)]
    BY Zenon DEF F
  <2>5. F(s) = [filename |-> body[d].filename, content |-> Content(s)] BY <2>3, <2>4
  <2> QED BY <2>2, <2>5
<1>16. FileNameToUpload(body) = body[d].filename
  <2> DEFINE T == {i \in 1..n : body[i].atom = "disposition" /\ body[i].named}
  <2>1. SelectInSeq(body, LAMBDA x : x.atom = "disposition" /\ x.named)
          = IF T = {} THEN 0 ELSE Min(T)
    BY DEF SelectInSeq, n
  <2>2. T \subseteq Nat BY <1>6
  <2>3. d \in T
    <3>1. d \in 1..n /\ d \in 3..e - 1 BY <1>6
    <3>2. body[d].atom = "disposition" /\ d \in DOMAIN body BY <1>2, <3>1, LenProperties DEF n
    <3>3. body[d].named BY <1>15, <3>2
    <3> QED BY <3>1, <3>2, <3>3
  <2>4. ASSUME NEW i \in T PROVE d <= i
    <3>1. i \in 1..n /\ body[i].atom = "disposition" BY <2>4
    <3>2. i # 1 /\ i # 2
      <4>1. body[1] = Delimiter /\ body[2] = NewLine
        <5>1. 1 \in {j \in 1..n : body[j] = Delimiter} BY <1>1
        <5> QED BY <1>1, <5>1
      <4>2. Delimiter.atom # "disposition" /\ NewLine.atom # "disposition" BY DEF Delimiter, NewLine
      <4> QED BY <3>1, <4>1, <4>2
    <3>3. CASE i \in 3..e - 1 BY <1>2, <3>1, <3>3
    <3>4. CASE i \notin 3..e - 1 BY <1>6, <3>1, <3>2, <3>4
    <3> QED BY <3>3, <3>4
  <2> HIDE DEF T
  <2>5. T # {} /\ Min(T) \in T /\ \A y \in T : Min(T) <= y BY <2>2, <2>3, MinIsSmallest
  <2>6. Min(T) = d
    <3> DEFINE m == Min(T)
    <3>1. m \in Nat /\ d \in Nat /\ m <= d /\ d <= m BY <2>2, <2>3, <2>4, <2>5
    <3> HIDE DEF m
    <3>2. m = d BY <3>1
    <3> QED BY <3>2 DEF m
  <2>7. d # 0 BY <1>6
  <2> QED BY <2>1, <2>5, <2>6, <2>7 DEF FileNameToUpload
\* The file's content.
<1> DEFINE c == SubSeq(body, e + 2, n - 3)
<1>17. FileContent("multipart", body) = c
  <2>1. e # 0 /\ n - 1 # 0 /\ ~(n - 1 - 1 < e + 2) /\ n - 1 - 2 = n - 3 BY <1>6
  <2> HIDE DEF c
  <2>2. FirstPlace(body, HeaderEnd, 1) = e BY DEF e
  <2> QED BY <1>9, <2>1, <2>2 DEF FileContent, c
<1>18. Content(s) = c
  <2> DEFINE t == SubSeq(s, e, n - 4)
             f == Front(t)
             m == n - e - 4
  <2>1. Content(s) = IF t # <<>> /\ Last(t) = NewLine THEN f ELSE t
    <3>1. e - 2 + 2 = e BY <1>6
    <3> QED BY <1>12, <1>13, <3>1 DEF Content
  <2>2. /\ t \in Seq(S) /\ Len(t) = m + 1
        /\ \A i \in 1..m + 1 : t[i] = body[e + i + 1]
    <3>1. \A k \in e..n - 4 : k \in 1..n - 4 BY <1>6
    <3>2. \A k \in e..n - 4 : s[k] \in S BY <1>12, <3>1, ElementOfSeq
    <3>3. e \in Int /\ n - 4 \in Int /\ e <= n - 4 /\ n - 4 - e + 1 = m + 1 BY <1>6
    <3>4. /\ t \in Seq(S) /\ Len(t) = IF e <= n - 4 THEN n - 4 - e + 1 ELSE 0
          /\ \A k \in 1..n - 4 - e + 1 : t[k] = s[e + k - 1]
      BY <3>2, <3>3, SubSeqProperties
    <3> HIDE DEF t, m
    <3>5. Len(t) = m + 1
      <4> DEFINE l == Len(t)
      <4>1. l = IF e <= n - 4 THEN n - 4 - e + 1 ELSE 0 BY <3>4
      <4> HIDE DEF l
      <4>2. l = m + 1 BY <3>3, <4>1
      <4> QED BY <4>2 DEF l
    <3>6. ASSUME NEW i \in 1..m + 1 PROVE t[i] = body[e + i + 1]
      <4> DEFINE j == e + i - 1
      <4>1. i \in 1..n - 4 - e + 1 /\ j \in 1..n - 4 /\ j + 2 = e + i + 1 BY <1>6, <3>3
      <4>2. t[i] = s[j] BY <3>4, <4>1
      <4> HIDE DEF j
      <4>3. s[j] = body[j + 2] BY <1>12, <4>1
      <4> QED BY <4>1, <4>2, <4>3
    <3> QED BY <3>4, <3>5, <3>6
  <2>3. m \in Nat /\ m + 1 \in 1..m + 1 /\ e + (m + 1) + 1 = n - 2 BY <1>6
  <2> HIDE DEF t, m
  <2>4. t # <<>> /\ Last(t) = NewLine
    <3>1. Len(t) # 0 BY <2>2, <2>3
    <3>2. t # <<>> BY <2>2, <3>1, EmptySeq
    <3>3. Last(t) = t[m + 1] BY <2>2 DEF Last
    <3> QED BY <1>1, <2>2, <2>3, <3>2, <3>3
  <2>5. /\ f \in Seq(S) /\ Len(f) = m /\ \A i \in 1..m : f[i] = body[e + i + 1]
    <3>1. \A k \in 1..m : k \in 1..m + 1 BY <2>3
    <3>2. \A k \in 1..m : t[k] \in S BY <2>2, <3>1, ElementOfSeq
    <3>3. m + 1 - 1 = m /\ m - 1 + 1 = m BY <2>3
    <3>4. f = SubSeq(t, 1, m)
      <4> DEFINE l == Len(t)
      <4>1. f = SubSeq(t, 1, l - 1) BY DEF Front
      <4>2. l = m + 1 BY <2>2
      <4> HIDE DEF l, f
      <4>3. l - 1 = m BY <2>3, <3>3, <4>2
      <4> QED BY <4>1, <4>3
    <3>5. /\ f \in Seq(S) /\ Len(f) = IF 1 <= m THEN m - 1 + 1 ELSE 0
          /\ \A k \in 1..m - 1 + 1 : f[k] = t[1 + k - 1]
      BY <2>3, <3>2, <3>4, SubSeqProperties
    <3> HIDE DEF f
    <3>6. Len(f) = m
      <4> DEFINE l == Len(f)
      <4>1. l = IF 1 <= m THEN m - 1 + 1 ELSE 0 BY <3>5
      <4> HIDE DEF l
      <4>2. l = m BY <2>3, <3>3, <4>1
      <4> QED BY <4>2 DEF l
    <3>7. ASSUME NEW i \in 1..m PROVE f[i] = body[e + i + 1]
      <4>1. i \in 1..m - 1 + 1 /\ 1 + i - 1 = i BY <2>3, <3>3
      <4> QED BY <2>2, <3>1, <3>5, <4>1
    <3> QED BY <3>5, <3>6, <3>7
  <2> HIDE DEF f
  <2>6. /\ c \in Seq(S) /\ Len(c) = m /\ \A i \in 1..m : c[i] = body[e + i + 1]
    <3>1. \A k \in e + 2..n - 3 : k \in 1..n BY <1>6
    <3>2. \A k \in e + 2..n - 3 : body[k] \in S BY <3>1, ElementOfSeq DEF n
    <3>3. e + 2 \in Int /\ n - 3 \in Int BY <1>6
    <3>4. /\ c \in Seq(S) /\ Len(c) = IF e + 2 <= n - 3 THEN n - 3 - (e + 2) + 1 ELSE 0
          /\ \A k \in 1..n - 3 - (e + 2) + 1 : c[k] = body[e + 2 + k - 1]
      BY <3>2, <3>3, SubSeqProperties
    <3> HIDE DEF c
    <3>5. n - 3 - (e + 2) + 1 = m BY <1>6 DEF m
    <3>6. Len(c) = m
      <4> DEFINE l == Len(c)
      <4>1. l = IF e + 2 <= n - 3 THEN n - 3 - (e + 2) + 1 ELSE 0 BY <3>4
      <4> HIDE DEF l
      <4>2. l = m BY <1>6, <2>3, <3>5, <4>1
      <4> QED BY <4>2 DEF l
    <3>7. ASSUME NEW i \in 1..m PROVE c[i] = body[e + i + 1]
      <4>1. e + 2 + i - 1 = e + i + 1 BY <1>6, <2>3
      <4> QED BY <3>4, <3>5, <4>1
    <3> QED BY <3>4, <3>6, <3>7
  <2> HIDE DEF c
  <2>7. f = c BY <2>3, <2>5, <2>6, SeqEqual
  <2> QED BY <2>1, <2>4, <2>7
<1> QED BY <1>15, <1>16, <1>17, <1>18

\* Where a body in which the parser finds one file is a form's, an upload stores what the
\* parser found, whatever the file holds, under its name, and changes nothing else.
THEOREM UploadsAreStored == ASSUME UploadsAreForms PROVE Spec => UploadIsStored
<1>1. ASSUME NEW request \in Requests, NEW config, NEW status, NEW response,
             IsRequest(request), Served(request, config, status, response),
             response.code = 200, config.ret = NoReturn,
             request.method = "POST", request.type = "multipart",
             Cardinality(Slices(request.body)) = 1,
             NEW part \in Parts(request.body), part.filename # <<>>
      PROVE  response.files = Put(files, Resolve(Join(config.uploadTo, part.filename)), part.content)
  <2> DEFINE b    == Builder(files)
             m    == BuildResponse(b, config, request)
             body == request.body
             Atom == [atom : {"boundary", "dashes", "CRLF", "text"}]
                       \cup [atom : {"disposition"}, named : {TRUE}, filename : Path] \cup {NoFilename}
  <2>1. Unbegun(b) /\ b.files = files /\ b.code # 200
    <3>1. b.code = -1 BY DEF Builder
    <3> QED BY <3>1, BuilderStarts DEF Unbegun
  <2>2. m.code = 200 /\ response.files = m.files
    <3>1. request.method \in Method BY <1>1 DEF IsRequest
    <3>2. status # 200 BY <1>1 DEF Served, StatusOf
    <3>3. SuccessIsMade(files, config, request, status) BY <3>1, <3>2, BuildSucceeds
    <3>4. response = Build(files, config, request, status) BY <1>1 DEF Served
    <3> QED BY <1>1, <3>3, <3>4 DEF SuccessIsMade
  <2> HIDE DEF b
  <2>3. \E path, content : /\ Stores(config, request, path, content)
                           /\ m.files = Put(b.files, Resolve(path), content)
    <3>1. request.method \in Method /\ request.method # "GET" /\ request.method # "DELETE"
      BY <1>1 DEF Method
    <3> QED BY <1>1, <2>1, <2>2, <3>1, MethodSucceeds
  <2> HIDE DEF m
  <2>4. PICK path, content : /\ Stores(config, request, path, content)
                             /\ m.files = Put(files, Resolve(path), content)
    BY <2>1, <2>3
  <2>5. /\ path = Join(config.uploadTo, FileNameToUpload(body))
        /\ content = FileContent("multipart", body)
    BY <1>1, <2>4 DEF Stores
  <2>6. body \in Seq(Atom) BY <1>1 DEF IsRequest
  <2>7. OneFile(body) BY <1>1 DEF UploadsAreForms
  <2> HIDE DEF body
  <2>10. ASSUME NEW i \in DOMAIN body, body[i].atom = "disposition", body[i].filename # <<>>
         PROVE  body[i].named
    <3>1. body[i] \in Atom
      <4> HIDE DEF Atom
      <4> QED BY <2>6, <2>10, LenProperties, ElementOfSeq
    <3>2. NoFilename.filename = <<>> BY DEF NoFilename
    <3> QED BY <2>10, <3>1, <3>2
  <2> HIDE DEF Atom
  <2>8. part \in Parts(body) BY <1>1 DEF body
  <2>9. part.filename = FileNameToUpload(body) /\ part.content = FileContent("multipart", body)
    BY <1>1, <2>6, <2>7, <2>8, <2>10, OneFileIsRead
  <2> QED BY <2>2, <2>4, <2>5, <2>9
<1> DEFINE Stored ==
             LET r == last'.request IN
             /\ last' # last /\ r.method = "POST" /\ r.type = "multipart"
             /\ last'.response.code = 200 /\ last'.config.ret = NoReturn /\ ~(ScriptAnswer)'
             /\ Cardinality(Slices(r.body)) = 1
             => \A part \in Parts(r.body) : part.filename # <<>> =>
                  files' = Put(files, Resolve(Join(last'.config.uploadTo, part.filename)),
                               part.content)
<1>2. ASSUME Next PROVE Stored
  <2>1. PICK request, config, status, response :
          /\ Answer(request, config, status, response) /\ IsRequest(request)
          /\ \/ Served(request, config, status, response)
             \/ Scripted(request, config, status, response)
             \/ RefusedOne(request, config, status, response)
             \/ Nothing(request, config, status, response)
    BY <1>2, StepIs
  <2>2. /\ last'.request = request /\ last'.config = config
        /\ last'.status = status /\ last'.response = response
        /\ files' = response.files
    BY <2>1, AnswerChanges
  <2>3. SUFFICES ASSUME request.method = "POST", request.type = "multipart",
                        response.code = 200, config.ret = NoReturn, ~(ScriptAnswer)',
                        Cardinality(Slices(request.body)) = 1,
                        NEW part \in Parts(request.body), part.filename # <<>>
                 PROVE  response.files = Put(files, Resolve(Join(config.uploadTo, part.filename)),
                                             part.content)
    BY <2>2
  <2>4. Served(request, config, status, response)
    <3>1. ~Scripted(request, config, status, response)
      BY <2>2, <2>3 DEF Scripted, ScriptAnswer
    <3>2. status # 200 /\ status # 1 => Build(files, config, request, status).code # 200
      BY <2>3, ErrorsDoNotSucceed DEF Method
    <3> QED BY <2>1, <2>3, <3>1, <3>2 DEF RefusedOne, Nothing
  <2>5. request \in Requests BY <2>4 DEF Served
  <2> QED BY <1>1, <2>1, <2>3, <2>4, <2>5
<1>3. [Next]_vars => [Stored]_vars
  <2> HIDE DEF Stored
  <2> QED BY <1>2
<1>4. [][Stored]_vars => UploadIsStored BY DEF UploadIsStored
<1> HIDE DEF Stored
<1> QED BY <1>3, <1>4, PTL DEF Spec
=============================================================================
