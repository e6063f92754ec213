---------------------------- MODULE ResponseBuilder ----------------------------
(***************************************************************************)
(* The making of a response (src/src/http/ResponseBuilder.cpp) over the    *)
(* files of the site.  Its methods fill the members header_, code_, error_ *)
(* and response_ one after the other and change files on the way, so each  *)
(* is an operator from a builder to the next; a builder b has the fields   *)
(*   files   the content of every regular file, by path                    *)
(*   header  the lines in header_                                          *)
(*   code, error                                                           *)
(*   body    where the body comes from, and the content it has             *)
(*   threw   substr threw out_of_range, which no one catches before main() *)
(* The text of a line, the date and the user's name in a page are left out. *)
(***************************************************************************)
EXTENDS Routing, Multipart

CONSTANTS Dirs,     \* the directories there are, all of them open to the server; <<>> is
                    \* the one it works in
          Locked    \* the files that may be neither read, written nor removed

-----------------------------------------------------------------------------
(* Paths and files.                                                        *)

\* buildPathFromRootAndResource: exactly one slash between the two.
Join(root, resource) ==
  IF resource = <<>> THEN root
  ELSE IF Last(root) = "/" /\ resource[1] = "/" THEN Front(root) \o resource
  ELSE IF Last(root) # "/" /\ resource[1] # "/" THEN root \o <<"/">> \o resource
  ELSE root \o resource

\* The kernel goes along a path name by name: a dot is the directory it has come to, two
\* dots are the one above, and a slash wants a directory before it.  From Nowhere, which
\* is no path of a file, it does not come back.
Nowhere == <<"/", "/">>
Dot     == <<".">>
DotDot  == <<".", ".">>

Below(dir, name) == IF dir = <<>> THEN name ELSE Join(dir, name)

\* The directory above; above the one the server works in there are only dots.
Above(dir) ==
  LET slash == CHOOSE i \in 0..Len(dir) :
                 /\ i = 0 \/ dir[i] = "/"
                 /\ \A j \in i + 1..Len(dir) : dir[j] # "/"
  IN  IF dir = <<>> THEN DotDot
      ELSE IF SubSeq(dir, slash + 1, Len(dir)) = DotDot THEN dir \o <<"/">> \o DotDot
      ELSE SubSeq(dir, 1, IF slash = 1 THEN 1 ELSE slash - 1)

Reach(path) == IF path \in Dirs THEN path ELSE Nowhere

\* Where a name leads from the directory at.
Enter(at, name) ==
  IF at = Nowhere THEN Nowhere
  ELSE IF name \in {<<>>, Dot} THEN at
  ELSE IF name = DotDot THEN Reach(Above(at))
  ELSE Below(at, name)

Walk(w, x) ==
  IF x = "/" THEN [at |-> Reach(Enter(w.at, w.name)), name |-> <<>>]
  ELSE [at |-> w.at, name |-> Append(w.name, x)]

\* What the kernel takes a path for.
Resolve(path) ==
  LET start == [at |-> IF path[1] = "/" THEN Reach(Root) ELSE <<>>, name |-> <<>>]
      end   == FoldLeft(Walk, start, path)
  IN  IF path = <<>> THEN Nowhere ELSE Enter(end.at, end.name)

PlainTextName == <<"t">>     \* text_uploaded_to_server.txt
Misread       == <<"m">>     \* what FileNameToUpload reads where there is no name

IsDir(path)         == Resolve(path) \in Dirs
IsFile(files, path) == Resolve(path) \in DOMAIN files

\* Mistake: is_open() is not asked.
MayOpenAnything(path) == TRUE

\* ofstream::open: the path leads somewhere, to no directory, and the file may be written.
MayOpen(path) == Resolve(path) \notin Dirs \cup Locked \cup {Nowhere}

Put(files, name, content) ==
  [path \in DOMAIN files \cup {name} |-> IF path = name THEN content ELSE files[path]]

Write(b, path, content) == [b EXCEPT !.files = Put(@, Resolve(path), content)]

-----------------------------------------------------------------------------
(* The pieces of a response.                                               *)

Line(what)        == [line |-> what, code |-> 0]
StatusLine(code)  == [line |-> "status", code |-> code]
Body(from, data)  == [from |-> from, data |-> data]
NoBody            == Body("none", <<>>)
DefaultPage       == Body("default page", <<>>)

Builder(files) == [files |-> files, header |-> <<>>, code |-> -1, error |-> FALSE,
                   body |-> NoBody, threw |-> FALSE]

Add(b, what) == [b EXCEPT !.header = Append(@, Line(what))]

\* Mistake: what has been written of the header stays.
SetErrorStateKeeps(b, code) == [b EXCEPT !.error = TRUE, !.code = code]

SetErrorState(b, code) == [b EXCEPT !.header = <<>>, !.error = TRUE, !.code = code]

Known == {200, 201, 204, 301, 302, 303, 307, 308, 400, 403, 404, 405, 413, 415,
          500, 502, 504, 505}

\* setStatusCode and setServerAndDate: a code without a meaning becomes 500.
SetStatusCode(b) ==
  LET code == IF b.code \in Known THEN b.code ELSE 500 IN
  [b EXCEPT !.code = code, !.header = Append(@, StatusLine(code))]

Begin(b, code) == Add(SetStatusCode([b EXCEPT !.code = code]), "server")

Success(b, code, body) == [Add(Begin(b, code), "type") EXCEPT !.body = body]

\* buildErrorResponse: the page the configuration has for the code, if it can be
\* read and is not empty, or the default page.
BuildErrorResponse(b, config) ==
  LET b1    == SetStatusCode(b)
      b2    == IF b1.code = 405 THEN Add(b1, "allow") ELSE b1
      pages == {path \in {Join(config.root, e.page) :
                            e \in {d \in config.errorPage : d.code = b1.code}} :
                  /\ IsFile(b.files, path) /\ Resolve(path) \notin Locked
                  /\ b.files[Resolve(path)] # <<>>}
      b3    == Add(Add(b2, "server"), "type")
  IN  [b3 EXCEPT !.body = IF pages = {} THEN DefaultPage
                          ELSE Body("error page", b.files[Resolve(CHOOSE p \in pages : TRUE)])]

-----------------------------------------------------------------------------
(* The methods.                                                            *)

\* cutPrefixFromUri throws when the location's path is longer than the URI.
CutThrows(config, uri)        == Len(config.path) > Len(uri)
CutPrefixFromUri(config, uri) == SubSeq(uri, Len(config.path) + 1, Len(uri))

\* cutQueryFromUri, and the check of the query in initialize_values: letters and
\* at most one equals sign; q stands for any letter.
QueryAt(uri)  == SelectInSeq(uri, LAMBDA x : x = "?")
PathOf(uri)   == IF QueryAt(uri) = 0 THEN uri ELSE SubSeq(uri, 1, QueryAt(uri) - 1)
QueryOf(uri)  == IF QueryAt(uri) = 0 THEN <<>> ELSE SubSeq(uri, QueryAt(uri) + 1, Len(uri))
QueryIsBad(uri) ==
  LET q == QueryOf(uri) IN
  \/ \E i \in DOMAIN q : q[i] \notin {"=", "q"}
  \/ \E i, j \in DOMAIN q : i # j /\ q[i] = "=" /\ q[j] = "="

\* A directory that is an index of another opens and reads as an empty file.
HandleFile(b, path) ==
  IF Resolve(path) \in Locked THEN SetErrorState(b, 403)
  ELSE [Add(b, "type") EXCEPT
          !.body = Body("file", IF IsDir(path) THEN <<>> ELSE b.files[Resolve(path)])]

\* handleDirectory and handleAutoindex.
HandleDirectory(b, config, path) ==
  LET Exists(name) == Resolve(Join(path, name)) \in Dirs \cup DOMAIN b.files
      k            == SelectInSeq(config.index, Exists) IN
  IF k # 0 THEN HandleFile(b, Join(path, config.index[k]))
  ELSE IF config.autoindex = "off" THEN SetErrorState(b, 403)
  ELSE [Add(b, "type") EXCEPT !.body = Body("listing", <<>>)]

\* buildResponseGET, handleUri.
BuildResponseGET(b, config, uri) ==
  LET path == Join(config.root, CutPrefixFromUri(config, uri))
      b1   == Begin(b, 200)
  IN  IF CutThrows(config, uri) THEN [b EXCEPT !.threw = TRUE]
      ELSE IF IsFile(b.files, path) THEN HandleFile(b1, path)
      ELSE IF IsDir(path) THEN HandleDirectory(b1, config, path)
      ELSE SetErrorState(b1, 404)

\* getFileNametoUpload: the name in the first disposition of a file.  With none
\* the position found is not npos, because 10 was added to it, and the name is
\* what stands in the first line.
FileNameToUpload(body) ==
  LET k == SelectInSeq(body, LAMBDA x : x.atom = "disposition" /\ x.named) IN
  IF k # 0 THEN body[k].filename
  ELSE IF NewLine \in Range(body) THEN Misread ELSE <<>>

\* Mistake: the line end before the boundary is taken for content.
FileContentKeepsEnd(type, body) ==
  SubSeq(body, FirstPlace(body, HeaderEnd, 1) + 2, FirstPlace(body, Closing, 1) - 1)

\* getFileContent: from the end of the first part's header to the line end before
\* the closing boundary.  Where either is not found, 4 was added to npos or 2 taken
\* from it, and the content starts in the first line or is the rest; so it is when
\* the length is negative and wraps.  Only a multipart type names a boundary.
FileContent(type, body) ==
  LET header == FirstPlace(body, HeaderEnd, 1)
      close  == IF type = "multipart" THEN FirstPlace(body, Closing, 1) ELSE 0
      start  == IF header = 0 THEN 1 ELSE header + 2
      end    == IF close = 0 \/ close - 1 < start THEN Len(body) ELSE close - 2
  IN  SubSeq(body, start, end)

\* handleUpload, createUploadedFile.
HandleUpload(b, config, type, body) ==
  LET path    == Join(config.uploadTo, FileNameToUpload(body))
      content == FileContent(type, body)
  IN  IF FileNameToUpload(body) = <<>> THEN SetErrorState(b, 400)
      ELSE IF content = <<>> /\ type # "multipart" THEN SetErrorState(b, 400)
      ELSE IF ~MayOpen(path) THEN SetErrorState(b, 500)
      ELSE Success(Write(b, path, content), 200, DefaultPage)

\* handlePlainText.
HandlePlainText(b, config, body) ==
  LET path == Join(config.root, PlainTextName) IN
  IF ~MayOpen(path) THEN SetErrorState(b, 500)
  ELSE Success(Write(b, path, body), 200, DefaultPage)

BuildResponsePOST(b, config, request) ==
  IF request.length > config.maxSize THEN SetErrorState(b, 413)
  ELSE IF request.type = "plain" THEN HandlePlainText(b, config, request.body)
  ELSE IF config.upload THEN HandleUpload(b, config, request.type, request.body)
  ELSE SetErrorState(b, 403)

\* Mistake: the prefix is not cut.
FileToDeleteWhole(config, uri) == Join(config.root, uri)

\* deleteFile works on the whole URI, the query included.
FileToDelete(config, uri) == Join(config.root, CutPrefixFromUri(config, uri))

BuildResponseDELETE(b, config, uri) ==
  LET path == FileToDelete(config, uri) IN
  IF CutThrows(config, uri) THEN [b EXCEPT !.threw = TRUE]
  ELSE IF IsDir(path) THEN SetErrorState(b, 403)
  ELSE IF ~IsFile(b.files, path) THEN SetErrorState(b, 404)
  ELSE IF Resolve(path) \in Locked THEN SetErrorState(b, 403)
  ELSE Success([b EXCEPT !.files = Restrict(@, DOMAIN @ \ {Resolve(path)})], 200, DefaultPage)

\* buildReturn: what a `return` directive says, for a redirection as Location.
BuildReturn(b, ret) ==
  LET b1 == Begin(b, ret.code) IN
  IF b1.code \in 301..308
    THEN [Add(Add(b1, "location"), "type") EXCEPT !.body = DefaultPage]
    ELSE [Add(b1, "type") EXCEPT !.body = Body("text", ret.text)]

\* buildResponse, buildResponseAccordingToMethod.
BuildResponse(b, config, request) ==
  IF config.ret # NoReturn THEN BuildReturn(b, config.ret)
  ELSE IF request.method \notin config.methods THEN SetErrorState(b, 405)
  ELSE CASE request.method = "GET"    -> BuildResponseGET(b, config, PathOf(request.uri))
         [] request.method = "POST"   -> BuildResponsePOST(b, config, request)
         [] request.method = "DELETE" -> BuildResponseDELETE(b, config, request.uri)

-----------------------------------------------------------------------------
(* The constructors.                                                       *)

End(b) == Add(Add(b, "length"), "end")

\* Mistake: the query is looked at when the method has been carried out.
BuildChecksLate(files, config, request, status) ==
  LET b1 == IF status # 1 THEN SetErrorState(Builder(files), status)
                          ELSE BuildResponse(Builder(files), config, request)
      b2 == IF QueryIsBad(request.uri) THEN SetErrorState(b1, 400) ELSE b1
  IN  IF b1.threw THEN b1 ELSE End(IF b2.error THEN BuildErrorResponse(b2, config) ELSE b2)

\* ResponseBuilder(request, config, status); status 1 is REQUEST_VALID.
Build(files, config, request, status) ==
  LET b0 == Builder(files)
      b1 == IF status # 1 THEN SetErrorState(b0, status) ELSE BuildResponse(b0, config, request)
      b2 == IF b1.error THEN BuildErrorResponse(b1, config) ELSE b1
  IN  IF QueryIsBad(request.uri)
        THEN End(BuildErrorResponse(SetErrorState(b0, 400), config))
      ELSE IF b1.threw THEN b1
      ELSE End(IF request.cookie \/ QueryOf(request.uri) # <<>> THEN Add(b2, "cookie") ELSE b2)

\* buildCgiResponse: the header ends at the first line end, so it is one line at
\* most: a status, a content type or another line, which goes ahead of the
\* status line.  Without a line end the answer is 502.
BuildCgiResponse(b, output) ==
  LET k    == SelectInSeq(output, LAMBDA x : x = NewLine)
      head == IF k > 1 THEN output[1] ELSE Text
      b1   == IF head.atom = "other" THEN Add(b, "script") ELSE b
  IN  IF k = 0 THEN SetErrorState(b, 502)
      ELSE Success(b1, IF head.atom = "status" THEN head.code ELSE 200,
                   Body("script", SubSeq(output, k + 1, Len(output))))

\* ResponseBuilder(request, config, raw_cgi_output) does not stop at a bad query.
BuildFromScript(files, config, request, output) ==
  LET b0 == IF QueryIsBad(request.uri) THEN SetErrorState(Builder(files), 400)
                                       ELSE Builder(files)
      b1 == BuildCgiResponse(b0, output)
  IN  End(IF b1.error THEN BuildErrorResponse(b1, config) ELSE b1)
=============================================================================
