# Webserv, specified

TLA+ models of the web server in `src/`, the TLC configurations that check them,
and theorems about them that TLAPS proves. Paths below are those of the source
tree; a module's definitions are tied to lines of it in `PROJECT.json` ("map").

## 1. The system

One process, one thread, one `epoll` instance with edge-triggered descriptors. The
configuration file names ports, servers and locations; each port gets a listening
socket; each accepted connection carries one request and one response and is then
closed. A request for a script forks, and two pipes lead to the script and back.

| Component | Source (`src/`, `includes/`) | State it keeps | Operations | Interacts with |
|---|---|---|---|---|
| Reactor | `reactor/Reactor` | `handlers_`, `fd_map_`, the epoll instance | `addHandler`, `updateHandler`, `deleteHandler`, `wakeUpHandler`, `removeDeactivatedHandler`, `run` | calls every handler back; is called by them meanwhile |
| Handler flags | `reactor/BaseEventHandler` | `flags_` | `setWantRead`, `setWantWrite`, `deactivate`, `isInactive` | read by the reactor |
| ConnectionAcceptor | `reactor/ConnectionAcceptor`, `core/Socket` | the listening socket | `handleRead`, `accept` | allocates connections |
| ConnectionHandler | `core/ConnectionHandler` | `fd_`, the parser, `serialized_response_`, `bytes_sent_`, `cgi_output_buffer_`, `cgi_pending_` | `handleRead`, `handleWrite`, `handleError`, `prepareResponse`, `handleCgi` | owns the buffer a CgiHandler writes to |
| CgiHandler | `core/CgiHandler` | two pipes, `pid_`, `body_`, `write_offset_`, a reference to its connection's buffer and the *number* of its connection's descriptor | `execCgi`, `handleRead`, `handleWrite`, `handleError`, `cleanup` | wakes the connection through the reactor |
| SignalHandler | `core/SignalHandler` | `g_running` | `handle_sigint` | ends the loop |
| ServerManager, Socket, `main` | `core/ServerManager`, `core/Socket`, `main.cpp` | `listening_sockets_`; the acceptors are the reactor's | `init`, `run`, destructor | start and end |
| RequestParser | `http/RequestParser`, `http/HttpRequest` | the input buffer, the state, the request, the bytes left of a body or a chunk | `appendData`, `parseNext` | fed by `handleRead` segment by segment |
| MultipartParser | `http/MultipartParser` | the parts | `parse` | called when a body is complete |
| Routing | `routing/*` | none | `matchServer`, `matchLocation`, getters of `MergedConfig` | configuration + request to directives |
| ResponseBuilder | `http/ResponseBuilder`, `http/HttpResponse` | `header_`, `code_`, `error_`, `response_` | two constructors | reads, writes and removes files |
| Configuration | `parser/*` | the mode stack, servers, locations | `getNextToken`, one method per directive, `fillEmptyDirectives`, `checkUpload` | read once at the start; what it accepts, routing and the builder take for granted |
| Utils | `utils/Utils` | none | `trim`, `parseLongLong`, `toLower`, `setNonBlocking` | |

What is hard about it:

* **Events of one batch.** `epoll_wait` returns up to 1024 events; handling one may
  give up the handler of another one that is still in the batch. Deletion is put
  off to the end of the batch, and inactive handlers are skipped.
* **Edge triggering.** An interest that is set while the descriptor is ready is only
  reported if `epoll_ctl` arms it again.
* **Names that outlive what they name.** A descriptor number is kept by a CgiHandler
  across the life of its script; a reference to a buffer across the life of its
  owner; event records across `deleteHandler`.
* **Inheritance.** A forked script holds the descriptors of the others, so the end of
  a pipe or of a connection is not seen when the server closes its own.
* **Segmentation.** Header, body and chunks arrive in segments cut anywhere.
* **Two readings of the same thing.** The size of a body is checked in three places,
  a multipart body is taken apart twice by different code, GET and DELETE find
  their file on different ways, a query is cut off in one place and not in others.
* **Order in the configuration file.** A directive goes to the block that the mode
  stack and the end of two lists point at; checks look at what has been read so far,
  or only at the end of the file, and the servers of a port come in any order.
* **Failure on the way.** `bind`, `listen`, `pipe`, `fork`, `accept`, `send`, `write`, `open` fail in the
  middle of a state change.

## 2. Modules

| Module | Models | State and actions |
|---|---|---|
| `Reactor` | the reactor's tables, the handlers' flags, and the kernel tables behind them | operators from one `ReactorState` to the next. `handlers`, `fdMap`, `flags` are the members; `tab` is the descriptor table, `mask`, `ptr`, `armed` what epoll has of each open file |
| `Webserv` (extends `Reactor`) | the running server, its clients, its scripts, Ctrl-C | one step per blocking call, per `accept` and per handler method; clients and scripts step in between. See the comments at the variables for the members they stand for |
| `HttpExchange` | the promise to a client: a request, an answer, the end of the connection, the end of the program | the abstract specification `Webserv` implements |
| `WebservProps`, `MCWebserv` | properties; symmetry | |
| `RequestParser` | the parser and the loop of `handleRead` around it | `p` is the parser, `h` the handler's place, `msg` what the client sends, `sent` how much has come. A line of the header is one atom; line ends, digits and bytes of the body are atoms of their own |
| `RequestParserProps`, `MCRequestParser` | properties; the families of messages | |
| `Routing` | `ServerMatcher`, `LocationMatcher`, `MergedConfig` | operators; paths are sequences of characters |
| `Multipart` | `MultipartParser` | operators on bodies of atoms |
| `ResponseBuilder` (extends both) | the builder over the files of the site | operators from one builder to the next |
| `Site` | a site that is asked one request after the other | `files` changes as the builder says; `last` keeps the request, the directives and the response |
| `SiteProps`, `MCSite` | properties; a small site, its requests and what its scripts write | |
| `Lexer` | `Lexer` | operators from a text, a sequence of pieces, to its tokens |
| `ConfigParser` (extends `Routing`, `Lexer`) | `ConfigParser` | `tokens` and `pos` are what the lexer still has, `mode` is `mode_`, `servers` is `servers_list_`; one action per directive, which takes all tokens that its method takes, or refuses the file |
| `Startup` (extends `ConfigParser`) | `main`, `ServerManager`, its sockets | `stage` is where `main` is, `listening` is `listening_sockets_`, `deleted` counts the deletions of each socket, `acceptors` holds the servers of each |
| `StartupProps`, `MCStartup` | properties, among them a second reading of the text; the files | |
| `WebservWiring`, `WebservScripts` | the inductive invariants of the event loop: tables and descriptors; scripts and those who wait for them | no state of their own |
| `ReactorProofs`, `SafetyProofs`, `AnswerProofs`, `ScriptProofs` | theorems about the event loop, each module on the one before | |
| `RequestParserProofs` | theorems about the parser, and its inductive invariant | |
| `SequenceFacts` | lemmas that the proofs of the parser, the start and the site share: smallest numbers, positions, folds, sequences of sequences | |
| `StartupProofs` | theorems about the start, and the invariant that the parser follows the text | |
| `SiteProofs` | theorems about routing and the builder | |

`Webserv` composes the reactor with its handlers and abstracts from a request all
but how much of it has come and what kind of answer it gets; `RequestParser`
and `Site` are what it abstracts from: how bytes become a verdict, and how a request
and the directives become an answer. `Startup` comes before all of them: it ends in
the state that `Webserv` begins in, and what it promises of a configuration
(`ConfigIsServable`) is what `Routing` and `ResponseBuilder` do not test. A definition named for a mistake (`CloseNot`,
`FileContentKeepsEnd`, ...) is part of no behaviour: it is the form the definition
after it would have with a plausible bug, used to see that a property notices.

### Fidelity notes

* **One step per handler call** is sound because the program has one thread: nothing
  of its own runs in between, and what clients and scripts do during a call can be
  moved before or after it, or is in the model as an alternative of the step
  (`SendKills`, `CgiWriteKills`, `SendFails`).
* **epoll** is modelled by what the code can see: a file whose wakeup callback named
  bits that are watched is armed, arming is undone by `epoll_wait` unless the
  event is reported again, `EPOLL_CTL_MOD` polls the file at once, and a file
  leaves the instance when its last descriptor is closed, which after a fork is not
  when the server closes its own.
* **Undefined behaviour.** A use of a deleted handler or buffer either goes on without
  effect or kills the program (`UseFreed`, `AppendToFreed`).
* **SIGPIPE** ends the program: nothing ignores it (`SendKills`, `CgiWriteKills`).
* **Exceptions.** What `accept` throws leaves `Reactor::run` in the middle of a batch; `main` catches it
  (`main.cpp:36-39`), and the destructors run as they do after Ctrl-C (`Shutdown`). `AcceptFails` has
  `accept` fail though there is a descriptor: every `errno` but `EAGAIN` throws (`Socket.cpp:97-99`).
* **`Site` is sequential** because from `prepareResponse` to the response the server does
  nothing else; a script runs in between, but changes no file of the model.
* **A directive is one step** because its method returns only when it has all its tokens
  and throws otherwise; nothing reads a configuration of which a part was stored.
* **The text** of a configuration keeps what the lexer tells apart: marks, `#`, blanks,
  line feeds, other white space, and pieces of words. A piece that is a numeral has its
  value in `NumeralValue`.
* **Failures of the file system** are a directory that is missing and a file that may
  not be touched (`Locked`).
* **Paths.** `Resolve` follows "." and ".." as the kernel does, one name after the other; a name that
  is no directory of the model (`Dirs`) leads `Nowhere` when something comes behind it. There are no symbolic
  links, and a relative path and an absolute one are never the same file.
* **Empty values** of headers are told from absent headers where the code does so (`no-length`,
  `no-coding`): the test for repeated lines finds them, and reading them yields nothing.
* **The end of a client's input** may come at any moment (`RecvEnd`), in the middle of a message too.
* **A body that the multipart parser refuses**, for whatever reason, is one atom for `RequestParser` ("!").

## 3. What is checked

| Run | Configuration | Question |
|---|---|---|
| `serve` | 2 well-behaved clients, static pages and scripts with a body, `FairSpec` | is everyone answered, with the right answer, and is everything given back? |
| `peers` | 1 good client beside 1 that half-closes, resets and reads slowly; `accept` fails | do descriptors, registrations and handlers stay consistent, is the good client's connection never cut, and is a reset all that parts a script from its connection? |
| `scripts` | scripts that exit, ignore input or close output at any moment; `pipe`, `fork` and `accept` fail; Ctrl-C | are answers whole, and is nothing left after `main` returns, whatever ended the event loop? |
| `parser` | about 590 messages, every segmentation | is what is accepted what was sent, has a refusal its reason, do the loops end? |
| `site` | 3 sites, one of them without "/", about 175 requests, every sequence of two | routing, one status line, files and answers agree; does a URI that a location other than "/" covers leave the program running? |
| `startup` | about 7300 files, every failure of the start, Ctrl-C at any moment | does an accepted file keep the rules and say what it seems to say, is every server served, is every socket given back once? |

The properties, each with the reason it is worth a run, are commented where they are
defined. Those that relate most:

* `ExchangeFairSpec`, `ExchangeSpec`: the server implements `HttpExchange`, with and
  without liveness. The refinement reads `asked`, `answer` and `closed` off the sockets.
* `FdMapIsWatched`, `ConnectionIsWatched`, `NoDescriptorLeak`, `ConnectionNeverDangles`,
  `CgiNeverDangles`: the four tables (open descriptors, epoll, `fd_map_`, `handlers_`)
  agree at every step, also between two events of a batch.
* `CgiAnswerIsComplete`, `WholeResponse`, `WaiterIsWoken`: what a script writes and what
  its client gets.
* `OrphanNeedsReset`, `ForeignWakeNeedsOrphan`: how far the two mistakes go that `unsafe_deletion` and
  `foreign_wake` show. A script loses its connection by a reset and in no other way, and wakes another
  connection only after that, if the other has got the number of the first.
* `InputIsKept`, `AcceptsHeaderSent`, `BodyIsAsSent`, `EveryTurnConsumes`: segmentation.
* `RulesAreKept`, `BlocksAsWritten`: the parser follows tokens and a stack; the properties
  count the braces before each place of the text, and both must find the same blocks with
  the same directives. They are about files that are spaced as their reader thinks
  (`WellSpaced`): a `}` or `#` that touches a word is a part of it.
* `ConfigIsServable`, `EveryServerIsServed`, `SocketsFreedOnce`: what the start promises to the
  rest of the program, and that its failures leave nothing behind.
* `LongestPrefixWins`, `RefusalChangesNothing`, `UploadIsStored`, `DeleteRemovesWhatIsRead`:
  pieces of code written apart agree.

### Bounds

* **Clients.** Two are enough for each hazard of one connection or script meeting
  another.
* **Descriptors (`MaxFd`).** 9 is what two connections with scripts need at once
  (listening socket, two sockets, and four pipe ends per `execCgi`, two of which it
  closes). `scripts` and `peers` let `accept`, and `scripts` lets `pipe` and `fork`, fail all the same: what
  the code does then is the same step as when the table is full (`AcceptThrows`, `CgiFails`). In `cgi_failure`
  it is full: `MaxFd` is 6.
* **Request.** Nothing, a part, or all (`Amount`): the parser alone knows more.
* **`BodyLen` 2, `PipeCap` 1.** A body that does not fit the pipe, so that writing it
  blocks. **`OutLen` 1.** Output, or none.
* **`BatchMax` 8 or 3.** All ready events in one batch in any order, or, in `scripts`, any three of them:
  the rest come with the next.
* **Parser.** Bodies of 0 to 3 bytes, up to two chunks, headers of up to three lines,
  limits 1 and 3, and a 10 MB limit of 2: every boundary has a message on both sides.
* **Site.** Characters instead of names; two requests in a row, because the second
  sees the files the first left; a site with locations nested three deep in two orders.
* **Files.** Every pair of 24 good directives in every two places of a block and its
  neighbours; 32 wrong ones alone and beside a good one; two and three servers with
  every combination of `listen`; and five longer files in which each character in turn
  is left out, doubled, replaced by each mark or blank, or the last. Two directives
  are enough for one to repeat, undo or misplace another; three servers are enough
  for one between two of the same port. `Kilo` is 2 and `IntMax` 3, so that a size
  has a limit on both sides within a handful of numerals.
* `CHECK_DEADLOCK FALSE` everywhere: clients stop asking, and `Startup` ends.

The texts of `startup` without sizes (7061) have also been given to the compiled
`ConfigParser`: it accepts and refuses the same ones.

### Fairness

`FairSpec` is weak fairness of `Server` and of each script's steps. The server runs
whenever something is ready: `epoll_wait` has no other condition. Within a batch no
fairness between events is needed: a batch is finite and is emptied before the
next. Fairness of scripts says that a script goes on reading, writing and at last
exits, which the code cannot enforce, as it has no time limit; without it no client
of a script can be promised anything. Nothing is assumed of clients: one may stop
at any point of its request.

### Findings

Each is a run that TLC refutes, with the line of the repository it contradicts.

| Run | The code |
|---|---|
| `cgi_failure` | a script that cannot be started leaves its connection without response for ever (`ConnectionHandler.cpp:210`) |
| `slow_client` | a full send buffer cuts the response off: `EAGAIN` is taken for an error (`ConnectionHandler.cpp:145`) |
| `foreign_wake` | a script wakes whichever connection has its dead client's descriptor number (`Reactor.cpp:252`) |
| `unsafe_deletion` | a connection that is reset while its script runs is deleted first; the script's handler then appends to the freed `cgi_output_buffer_` (`Reactor.cpp:246`, `CgiHandler.cpp:85`) |
| `split_last_chunk` | a chunked request whose last CRLF comes in a segment of its own is refused (`RequestParser.cpp:505`) |
| `location_fallback` | a URI without a location gets the first location's directives, not the server's (`LocationMatcher.cpp:30`); if it is shorter than that location's path, `substr` throws and the program ends (`ResponseBuilder.cpp:767`) |

Met while modelling, and in the models, but not kept as runs:

* A script that ends its output early leaves its stdin pipe watched; when another
  script has inherited it, closing it does not end that (`CgiNeverDangles` needs `Dutiful`).
* SIGINT between the test of `g_running` and `epoll_wait` is noticed at the next event only.
* A chunked body has no limit: `checkBodySizeLimit` sees the announced length only, though
  `docs/response_docs/order_algo.md:66` wants the bytes counted.
* `trim` leaves white space at the end (`Utils.cpp:56`; the comment at
  `RequestParser.cpp:309` says both ends). A GET with `Content-Length: 0` is refused
  (`RequestParser.cpp:771`); `order_algo.md:56` says a GET's body is ignored. A line that
  cannot be split is answered 500, as its error code stays -1.
* A CRLF after a body is dropped, refused or left, depending on the segments.
* A header line of a script that is neither status nor content type comes before the status
  line (`ResponseBuilder.cpp:112`; `docs/response_docs/response_steps.md:3` shows the
  status line first). `OneStatusLine` leaves answers of scripts out.
* When `epoll_ctl` refuses a listening socket, it is deleted twice: where it fails and, as it is in
  `listening_sockets_` already, by the destructor (`ServerManager.cpp:61`, `27`).
  `SocketsFreedOnce` leaves this failure out.
* Without `index` and `error_page` a server starts with `default.html` and no error pages
  (`ServerConfig.hpp:14`), where `default_values_config.md:31, 35` has `index.html` and a map of them.
  `BlocksAsWritten` compares with the code's values.
* A brace that is still open at the end of a configuration file is not missed, and a word
  that the end cuts off is dropped (`Lexer.cpp:57`); a carriage return is a word.
* `upload_location` before `upload_allowed on` passes over the next two tokens unseen
  (`ConfigParser.cpp:526`), and `upload_allowed off` does not take an earlier `on` back.
* The interface of `listen` is stored and never used: `Socket::bind` takes every interface, and
  a second `default_server` is refused per port. The one it starts with is "localhost" where
  `default_values_config.md:6` has 0.0.0.0.
* 405 is decided before a `return` directive is looked at.
* The query is part of what locations, scripts and deletions are looked up by: a script
  with a query is sent as a file, a DELETE with a query finds nothing.
* A script's answer to a request whose query is refused has two status lines.
* With several servers of the same name the first is taken, not the `default_server`
  (`README.md:67-70`). A location with any `error_page` hides all of the server's.
* A form without file name stores a file of a misread name (`ResponseBuilder.cpp:500`);
  a form of several parts stores what follows the first header as content.
* The file name of a form and the URI of a DELETE are put behind a directory as they are, and "..", as
  everywhere, is left to the kernel (`ResponseBuilder.cpp:561`, `309-319`): a file outside the directory may be
  meant. The model does the same, and no property says that a request stays below its root, as neither the
  code nor a document does.

## 4. What is proved

TLAPS checks eight modules of theorems. Every safety and action property of `Webserv` that a passing run
checks, and its refinement of `HttpExchange` without liveness, is a theorem for every set of
clients, every value of the limits and every interleaving. So is every invariant and action property of the
parser, for messages of every length and every segmentation; all of `SiteProps`, for every set of
configurations, files and requests; and all invariants of the start but `BlocksAsWritten`, for every
set of configuration files.

### The event loop

`WebservAssumption` (the limits are positive, the sets of clients are sets of clients) and
`ReactorAssumption` (there is at least one descriptor) are the assumptions of all of it; TLC evaluates both
in every run of `MCWebserv`. Further hypotheses are named at each theorem.

| Theorem | Establishes | Hypotheses | Proofs in |
|---|---|---|---|
| `TypeCorrect`, `Typing` | `TypeOK`; `TypeInv` | | `SafetyProofs` |
| `Safety` | `SafeInv` | | `SafetyProofs` |
| `EpollNeverThrows`, `MapIsWatched`, `ConnectionsAreWatched`, `DescriptorsAreOwned`, `ConnectionsDoNotDangle` | `EpollNeverFails`, `FdMapIsWatched`, `ConnectionIsWatched`, `NoDescriptorLeak`, `ConnectionNeverDangles` | | `SafetyProofs` |
| `Answers`, `ResponsesAreSingle` | `AnswerInv`, `OneResponse` | | `AnswerProofs` |
| `ResponsesAreWhole` | `WholeResponse` | `Slow = {}` | `AnswerProofs` |
| `ServerImplementsExchange` | `ExchangeSpec` | | `AnswerProofs` |
| `ScriptsAreHeld` | `HeldInv` | | `ScriptProofs` |
| `ShutdownLeavesNothing` | `ShutdownIsClean` | | `ScriptProofs` |
| `WaitersAreWoken` | `WaiterIsWoken` | `~ForkFails`, `MaxFd >= 3 * Cardinality(Clients) + 3` | `ScriptProofs` |
| `ScriptsAreAttached` | `NoResetYet => AttachedInv` | | `ScriptProofs` |
| `OrphansNeedResets`, `ForeignWakesNeedOrphans` | `OrphanNeedsReset`, `ForeignWakeNeedsOrphan` | | `ScriptProofs` |
| `CgiAnswersAreComplete` | `CgiAnswerIsComplete` | `Resetting = {}` | `ScriptProofs` |
| `ScriptsAreDutied`, `ScriptsDoNotDangle` | `DutiedInv`, `CgiNeverDangles` | `Dutiful`, `~EarlyClose` | `ScriptProofs` |
| `AnswersAreRight` | `RightAnswer` | `Resetting = {}`, `Finning = {}`, `Dutiful`, `~EarlyClose` | `ScriptProofs` |

The hypotheses are about what surrounds the program, and each is there because the property
is false without it; the code does nothing to bring it about.

* `Slow = {}`: `send` never finds a full buffer. The run `slow_client` shows the response that is
  cut off otherwise.
* `~ForkFails` and the bound on `MaxFd`: a script can always be started. The run `cgi_failure` shows the
  connection that waits for ever otherwise. The bound is what `execCgi` may meet: the
  listening socket, three descriptors of every other client, its own client's socket, and the four
  pipe ends that it opens before it closes two. `MaxFd` of the run `peers` is this bound for two clients.
* `Resetting = {}`: no client vanishes while its script runs. Otherwise the script of one that has may
  wake another connection before its own script is done (`foreign_wake`), which is then answered with what
  has been collected so far. What holds whatever clients do is `ForeignWakesNeedOrphans`.
* `Dutiful`, `~EarlyClose`: a script reads its input to the end, and closes its output when it exits, not
  before. Otherwise its handler is deleted with `stdin_pipe_[1]` still registered, and the number of
  the descriptor is forgotten but the registration is not, if another script has inherited the end.
  A script that closes its output first is also forgotten with its handler, and is not killed when the server
  ends; `ShutdownIsClean` asks that of scripts that may still write.
* `Finning = {}`: a client that closes its side in the middle of a request is answered 400, which
  `RightAnswer` does not want of it.

The invariants, and what each part is for:

* **`TypeInv`** (`SafetyProofs`) is `TypeOK`, `Sane(rx)` and `PipeOK`. `TypeOK` is not inductive. That an
  event `epoll_wait` reports carries a handler (it is called without a test) needs `Sane`: epoll
  polls only files it watches, and a watched file has a handler as `data.ptr`. That collected
  output stays in its range needs `PipeOK`: what the connection has collected and what is in the
  pipe is never more than the script wrote. `ReactorProofs` has a lemma per operation of the
  reactor (`AddHandlerIsSane`, ...), `SafetyProofs` one per action.
* **`SafeInv`** (`WebservWiring`; proved inductive in `ReactorProofs` for the operations, in `SafetyProofs` for
  the actions) ties the four tables together.
  * `Wired` says for each handler what is its own: a `ConnectionHandler` one descriptor, one entry of
    `fd_map_` and one registration with the mask of its flags, a `CgiHandler` up to two of each. None
    of the five properties is inductive alone: a number that is closed is given to the next `accept` or
    `pipe`, so a handler's entries must be where it says, and nowhere else. The registration of a script's
    input is the one exception: it may outlive its handler (`EndWired` allows it, `CgiWired`
    excludes it for the output).
  * `Fresh` says what a client cannot have before it has come that far: a handler only
    exists for a peer that is connected, a script is only started when a whole request has
    been read. Without it `accept` could overwrite a connection that lives.
  * `BatchInv` is about the events still to handle. A connection that a pending event
    names is allocated; an event for a script's input comes with that end still open, unless its
    handler has been given up, and there is one such event at most: the second `handleWrite` of one
    batch would write to descriptor -1.
  * `EndInv` keeps the acceptor in place until the destructors run, and has nothing left after them.
* **`AnswerInv`** (`Answering`) says that a connection that makes a response asks for no more input and has no
  pending event that makes it read, so a second request or a second response cannot come in
  between; and that an error is only reported of a peer that has reset. `AnswerProofs` first
  classifies every step by what it does to one connection (its *moves*: `Reads`, `Responds`,
  `Suspends`, `CgiResponds`, `Closes`, `CutsOff`, ...), at most one connection per step
  (`NextMoves`); each property is then a matter of a move.
* **Refinement.** `asked`, `answer` and `closed` are read off the sockets, `over` off the event loop.
  `HiddenMoves` shows that all moves but `Says`, `Closes` and `CutsOff` stutter, `EndsShow` and `SaysShows`
  that these are `Ask`, `Answer` and `Cut` of `HttpExchange`, `NextShows` that no two clients see something of
  one step. The step that ends the loop is
  `End`; the destructors close every connection at once, answered or not, which is `Clear`.
* **Scripts** (`WebservScripts`). `ScriptProofs` reduces a step once more to what it does to the handlers,
  the script and the batch of one client (`NextViews`), so that each of the following is proved by a short
  case analysis on views, not on the actions.
  * `HeldInv`: a script that may still write has a handler that knows its process, so that the
    destructors kill it; the number kept in `CgiHandler::fd_` is its connection's as long as both
    are there; and whoever waits for a script that was started has a handler to wake it.
  * `BegunInv`: no one waits for a script that was not started. This needs a count: each client has at
    most three descriptors when nobody is inside `execCgi` (`Wired` maps descriptors to the ends that
    clients own), so that four are free whenever a script is started.
  * `AttachedInv`, until a client resets: while a script's handler works its connection is there, has no
    flag set and no event pending, so nothing but the script can make it move; and what it has collected
    plus what is in the pipe is what was written.
  * `DutiedInv`: a handler that is at the end of its output has closed its input.
  * `RightInv`: who waits has asked for a script, and either that script works or all of it is
    collected; the response at hand is the one for the request.

TLC has checked each of these invariants on the instance of `serve` (and those without
hypotheses on `peers` and `scripts`) before it was proved.

### The parser

`RequestParserProofs` rests on `RequestParserAssumption` (what clients send is a message in the sense of
`Message`, limits are natural numbers), which TLC evaluates in the runs of `MCRequestParser`. A message
may be of any length, valid or not, and come in any segments; only the last two theorems ask more of it.

| Theorem | Establishes | Hypotheses |
|---|---|---|
| `Input` | `InputInv`, the inductive invariant | |
| `ParserTyping` | `TypeOK` | |
| `HeaderAsSent` | `AcceptsHeaderSent` | |
| `LimitRespected` | `AnnouncedLimitIsRespected` | |
| `RefusalsHaveReasons` | `RefusesForAReason` | |
| `NothingIsLost` | `InputIsKept` | |
| `TurnsConsume` | `EveryTurnConsumes` | |
| `BodiesAreAsSent` | `BodyIsAsSent` | `StandsForData` of every message |
| `PlainRequestsAreAccepted` | `AcceptsPlainRequests` | `IsTidy` of every message that is not chunked |

`StandsForData(m)` says nothing about what clients may send. The fields `data` and `coded` of a message have no
part in any step; they are what the properties compare the parser with, and `StandsForData` says how they are read
off the header and the tail: as the chunks of the tail, taken one after the other, or as so many bytes as were
announced. Every header and tail have such `data`. `IsTidy(m)` leaves out what the code is known to refuse
although it is a request (section 3): a number or a coding with white space after it (`Utils.cpp:56`), and a GET or
DELETE with `Content-Length: 0` (`RequestParser.cpp:771`). `MCRequestParser` has TLC evaluate both for the
messages of its runs (`TidyMessages`).

* **`InputInv`** says where in the message the buffer begins. `ParserIs` has a part for each state of the
  parser: nothing is consumed at the request line; n lines are consumed and have passed their
  checks (`HeaderPart`), and the buffer begins at the next (`Buffered`); the header is over and has passed
  all of them (`HeaderOver`); so many bytes of the body are taken. `HandlerIs` says that
  `handleRead` looks the server up exactly when the header is over, and that an announced length then fits.
* **Why it is needed.** None of the properties is inductive alone but `RefusesForAReason`, and that one needs
  `HandlerIs`. The checks of a line look at the lines read before, those at the end at what was kept, so that
  the header accepted is valid only because what was kept is what was sent. The limit is compared
  once, with the announced length, and later relied on when the body is cut off there. A body's
  count of bytes to come is what was announced only if there is one `content-length`, which is what the
  check for repeated lines lets through.
* **The argument.** `WireAtoms` says what is at each place of a message; `NextText`, `NextEmpty` and `DropIs`
  what the next line of a buffer is that begins at a known place; `LineFault`, `FieldFault` and `HeaderFault`
  what the absence of a fault means and that a fault has its reason. Each function of the parser has its
  lemma (`RequestLineTurn`, `FieldTurn`, `HeaderEndTurn`, `LengthTurn`, `ChunkSizeTurn`, `ChunkDataTurn`), which
  `ParseNextTurn` puts together; `RecvKeeps`, `RecvEndKeeps` and `ParseKeeps` are the steps of
  `handleRead`. `EveryTurnConsumes` is a consequence of the same lemmas, as each says that the buffer gets
  shorter.
* **`BodyInv`** says where in the chunks the parser is, which `InputInv` leaves open. From each place of the
  tail, `Decoding` has what the chunks from there on amount to; there is such a function for a tail of any length
  because each place refers to a later one (`BackwardExists`, by induction on the number of places, counted from the
  end). `Stands(body, c)` is then that the body so far followed by what comes after c bytes is what the whole tail
  amounts to, and `ChunksAre` that this holds where the buffer begins, or, in the middle of a chunk, where
  the chunk ends. The step from one chunk to the next (`OneChunkOn`) needs that the first line of the buffer is the
  first line of what is still to come, whatever the segment (`SameFirstLine`). The one place where parser and
  meaning part is an empty line that has not arrived when the last size is read (`EndAt`): the parser has then
  the whole body and will refuse it or accept it, and the property holds of both.
* **`RequestInv`** says that a good request that has not been accepted waits for input that is still to come. A
  parser that goes back to `recv` has no whole line in its buffer, or no byte of the body (`Starved`), and where a
  good message ends there would be one (`MoreToCome`); so `recv` does not return 0 before the request is
  accepted. That no check refuses it is in the same lemmas as `RefusesForAReason`, which give the fault
  for each refusal.
* TLC has checked `InputInv`, `BodyInv` and `RequestInv` on the instance of `parser` before they were proved.

### The start

`StartupProofs` proves, for every set of configuration files, any meaning of numerals and any
number of ports:

* `AcceptedConfigIsServable`: `Spec => []ConfigIsServable`. The invariant (`IInv`) has to say three
  things that the property does not. While a file is read, a block that the mode stack names is
  there (`ModeInv`), since every directive changes the last element of a list. The
  blocks are already in order but for what is filled in at the end (`ServersInv`:
  fields, ports, different paths; a location may still have no methods and no place
  for uploads). And `OneDefaultPerPort` holds between any two directives, because `listen`
  compares the port it is about to give. There is a lemma for each directive or kind
  of directive; those of `root`, `index` and the like follow from one about directives
  that leave alone what tells blocks apart (`Identity`, `BlockStep`). Nothing is known of
  tokens but what the methods test, so the sequences are sequences over their own
  elements (`IsSeq`).
* `SocketsAreFreedOnce`: `Spec => []SocketsFreedOnce`. Its invariant (`SocketInv`) is who owns a socket before
  the destructors run: one that listens is in `listening_sockets_` and has not been deleted, any other
  has been deleted by `init`. It needs `IInv`: that the port of each turn is a new one
  follows from ports being numbers, so that the next one exists.

* `EveryServerListens`: `Spec => []EveryServerIsServed`. The map of ports is a fold over the servers of the file
  (`ByPort`), and what it has for a port is a sequence given by how it came about, while the property asks for
  an increasing choice of places in the file. `ByPortScans` turns the fold into a scan, the map after each server,
  and `InOrderUpTo` is the property for the servers so far; `OneMoreInOrder` is its step. `Served` then keeps
  that the ports done are the keys of `acceptors`, none twice in `listening`.
* `StartupTyping`: `Spec => []TypeOK`. It needs a scan of the lexer (`TokensTypes`) for the types of tokens,
  `PlaceInv` for the place in them (no method passes over a negative number of tokens), `IInv` for the blocks and
  `SocketTypes` for the sockets.

* `AcceptedFilesKeepTheRules`: `Spec => []RulesAreKept`. The parser sees one token after another and knows the
  block it is in by a stack; the property reads the whole text by the places of its marks and counts braces. They
  are brought together in four steps.
  1. *Tokens are places.* In a text that is spaced as its reader thinks (`WellSpaced`) the tokens are, in this
     order, the marks, the first pieces of words and the line feeds outside comments (`Lexed`, `LexerReads`, by a
     scan of the lexer whose invariant is `LexerIs`).
  2. *Statements are what a step takes.* The words and the mark that a method takes are the statement of that
     mark, with the words since the mark before (`TakesStatement`), and what `Statements` counts changes with the
     mark as it should (`AfterStatement`).
  3. *The parser follows* (`Follows`). The depth of the text is that of the mode stack, the server and the location
     that its braces count to are the last of the lists, and of every statement so far the blocks keep what a
     later one is compared with (`Kept`): that a block has listened or returned, that a port has its default, that
     a path is taken, that uploads are allowed. Blocks only grow in these (`Grows`). So a statement that breaks a
     rule with an earlier one (`Clash`) is refused; `FollowsOn` is the step, and each directive has a lemma.
  4. *`upload_location`* that is not obeyed takes a token or two whatever they are, and the parser follows no
     more. Where `NothingSwallowed` holds this only happens after the last mark (`NothingAfter`), when all
     statements have been seen; hence the alternative in `FollowInv`.

`StartupTyping` and `AcceptedFilesKeepTheRules` use of `ConfigAssumption` that a text is a sequence; the other
three rest on no assumption about the constants.

### The site

`SiteProofs` rests on `SiteAssumption`: there is a server, and a location has a path that starts with a slash,
as the parser of the configuration has it (`ConfigParser.cpp:112-113`, `571`, and `ConfigIsServable`, which
is a theorem of the start); a URI starts with a slash (`RequestParser.cpp:604`); and no file has at first the
place of a directory. TLC evaluates it, and the further hypotheses (`PlainSites` in `MCSite`), for the runs.

| Theorem | Establishes | Hypotheses |
|---|---|---|
| `SiteTypes` | `TypeOK` | |
| `StatusLineIsOne` | `OneStatusLine` | |
| `RefusalsChangeNothing` | `RefusalChangesNothing` | |
| `LongestPrefixIsTaken` | `LongestPrefixWins` | `RootIsFirst` of every server |
| `CoveredUrisSurvive` | `CoveredUrisAreSafe` | `PlainPaths` of every server |
| `DeletedIsRead` | `DeleteRemovesWhatIsRead` | `SafeServer` of every server, `PlainNames` |
| `UploadsAreStored` | `UploadIsStored` | `UploadsAreForms` |

Where nothing matches, the code falls back to the first location (`LocationMatcher.cpp:30`, the run
`location_fallback`); with "/" first that is the right one (`RootIsFirst`). The fallback can end the program
(the same run), and no rule of the configuration prevents it: "/" may be missing, and where it is
there but not the first location the matcher passes it over. `CoveredUrisSurvive` says that on any
site a URI that another location covers is safe. Its hypothesis keeps "?" out of the paths of locations, as
the location is looked up with the query and the path is cut off without it. `SafeServer` is "/" first and
`PlainPaths`: what is cut off a URI that nothing covers may reach into its query, and the rest of it is then a
name for a DELETE and none for a GET. `PlainNames` is there because a DELETE takes the query for a part of the name
and a GET does not: with a "?" in the name of a file or directory the two differ. `UploadsAreForms` is what the second
reading of a multipart body needs: the parser finds parts between boundaries, the builder looks for the first
file name and the first empty line anywhere in the body, so that a boundary that is not at the start, or a second
header in front of the first part, sends them to different places. It says nothing of the content.

* **Routing.** `LongestMatch` is a fold; `LongestMatchScans` turns it into a scan and `LongestMatchIs` says what the
  scan ends with: the first of the longest paths that match, or 1.
* **The builder.** `HeaderLine` and `IsBuilder` type it; each of its methods has a lemma that says what it adds
  to the header, when it throws and which file it changes (`AddIs`, `BeginIs`, `PageMakes`, `PostMakes`, ...).
  `Made` is what all ways through have in common, `BuildIs` and `BuildSucceeds` put them together, and
  `StepIs` sorts the answers of the site into those a builder served, a script wrote, the parser refused.
* **Paths.** `Resolve` is a fold over the characters of a path, and `PathIsWalked` makes the scan of it: each
  character leads from one place and a beginning of a name to the next. `PlainWalk` is that no place
  on a way without "?" has one; `QueryLeads`, that a way whose last name has a "?" ends in such a name
  or nowhere, which is why a DELETE with a query finds nothing.

### Model-checked only

* Liveness under fairness (`RequestIsAnswered`, `ResourcesReturn`, `ExchangeFairSpec`): fairness and
  `ENABLED` are out of the prover's reach.
* `BlocksAsWritten` compares every member of every block with the directives of the text. `Follows`
  would carry it, with a part for each member beside `Kept` (the last of a repeated directive, the words of
  all in their order); that has not been written.

Induction over data is out of reach as a rule about operators, but not as a fact about sets: a set of numbers has a
smallest element (`MinIsSmallest`) and a set that holds 0 and with k also k + 1 holds all numbers (`UpTo`).
`SequenceFacts` derives from them that the folds of the community modules are scans (`FoldExists`), and the
other modules in the same way that functions defined by recursion exist (`BackwardExists`). So what a fold or a
recursive function computes is proved here for every input, each time from a set of good places.

## 5. What is not modelled

* The test of `argc`; the interface of `listen`, which nothing uses once it is stored, and the
  program of `cgi`, which only the script's process uses; numbers with a sign or blanks before
  them (`strtol` takes them); the printing of a configuration.
* Memory that runs out: `new` and the containers do not fail.
* The text of pages, headers, dates, logs; the environment of a script; the user's name
  put into a page from a cookie (one fixed buffer of 1000 characters).
* `MultipartData`, `UploadedFile` and `HttpResponse` only store what they are given.
* `reset()` of the parser: the connection is deleted in the same call.
* The kernel beyond what section 2 says of it; symbolic links.
* A `Content-Type` for forms without a boundary (`MultipartParser.cpp:58`, `86`) is, like any other reason for which
  the multipart parser throws, a body that it refuses; as that is an atom of the body, an empty chunked
  body is never refused for it.

## 6. Plan

1. *(done)* `Reactor`, `Webserv`, `HttpExchange`: the core, its runs, `Typing`.
2. *(done)* `RequestParser`; `Routing`, `Multipart`, `ResponseBuilder`, `Site`.
3. *(done)* `Lexer`, `ConfigParser`, `Startup`: from the file to the running server and back,
   and the two theorems about it.
4. *(done)* The safety and action properties of `Webserv` as theorems, from the invariants of `WebservWiring` and
   `WebservScripts`.
5. *(done)* `Spec => Exchange!Spec`, step by step.
6. *(done)* `RequestParser`: all its invariants as theorems, from `InputInv`, `BodyInv` and `RequestInv`.
7. *(done)* `Startup`: who is served, and the types; `Site`: its invariants and action properties.
8. *(done)* `RulesAreKept`, from `FollowInv`.
9. `BlocksAsWritten` as a theorem.
