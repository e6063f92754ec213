------------------------------- MODULE Reactor -------------------------------
(***************************************************************************)
(* The Reactor (src/src/reactor/Reactor.cpp), the flags of the handlers it *)
(* drives (BaseEventHandler.cpp) and the part of the kernel it talks to:   *)
(* the descriptor table of the process and the epoll instance.             *)
(*                                                                         *)
(* A handler of the program calls several Reactor methods in a row, so     *)
(* each method is an operator from a reactor state to the next one; the    *)
(* module Webserv composes them into the actions of the event loop.  A     *)
(* reactor state r has the fields                                          *)
(*   handlers  the objects that are allocated and owned (handlers_)        *)
(*   flags     flags_ of each BaseEventHandler                             *)
(*   fdMap     fd_map_, NoHandler where the map has no entry               *)
(*   tab       descriptor table: the open file behind each descriptor      *)
(*   ptr       epoll_event.data.ptr of each registered file, NoHandler for *)
(*             a file epoll does not watch                                 *)
(*   mask      the IN and OUT bits each registered file is watched for     *)
(*   edge      the files epoll has to poll again: with EPOLLET a file gets *)
(*             on this list when it is added or modified or when something *)
(*             happens to it, and leaves it when it is reported            *)
(*   failed    an epoll_ctl failed, and the method threw runtime_error     *)
(***************************************************************************)
EXTENDS Naturals

CONSTANTS Clients,   \* the clients; each opens at most one connection
          NoClient,  \* the client field of what belongs to no client
          MaxFd      \* the descriptors the process may have open: 1..MaxFd

ASSUME ReactorAssumption == /\ MaxFd \in Nat \ {0}
                            /\ NoClient \notin Clients

-----------------------------------------------------------------------------
(* Handlers, files and descriptors.                                        *)

\* ConnectionHandler and CgiHandler objects are named by the client they serve:
\* a client opens one connection, a connection starts at most one script.
Handler == [type: {"CONNECTION", "CGI"}, client: Clients]
             \cup {[type |-> "ACCEPTOR", client |-> NoClient]}
Acceptor  == [type |-> "ACCEPTOR", client |-> NoClient]
NoHandler == [type |-> "NONE", client |-> NoClient]
Conn(c)   == [type |-> "CONNECTION", client |-> c]
Cgi(c)    == [type |-> "CGI", client |-> c]

\* The open files of the server: the listening socket, one socket per accepted
\* client, and the server's ends of the two pipes of a script.
File == [end: {"socket", "stdin", "stdout"}, client: Clients]
          \cup {[end |-> "listen", client |-> NoClient]}
Listening == [end |-> "listen", client |-> NoClient]
NoFile    == [end |-> "none", client |-> NoClient]
Sock(c)   == [end |-> "socket", client |-> c]
In(c)     == [end |-> "stdin", client |-> c]
Out(c)    == [end |-> "stdout", client |-> c]

Fd       == 1..MaxFd
NoFd     == 0        \* -1 in the code
ListenFd == 1        \* the first descriptor main() opens here

Flag == {"INACTIVE", "WANT_READ", "WANT_WRITE"}
Bit  == {"IN", "OUT", "ERR", "HUP"}

ReactorState ==
  [handlers: SUBSET Handler, flags: [Handler -> SUBSET Flag],
   fdMap: [Fd -> Handler \cup {NoHandler}], tab: [Fd -> File \cup {NoFile}],
   ptr: [File -> Handler \cup {NoHandler}], mask: [File -> SUBSET {"IN", "OUT"}],
   edge: SUBSET File, failed: BOOLEAN]

-----------------------------------------------------------------------------
(* BaseEventHandler: the flags.                                            *)

IsInactive(r, h)   == "INACTIVE" \in r.flags[h]
Deactivate(r, h)   == [r EXCEPT !.flags[h] = @ \cup {"INACTIVE"}]
SetFlags(r, h, fl) == [r EXCEPT !.flags[h] = (@ \cap {"INACTIVE"}) \cup fl]
SetWantWrite(r, h) == [r EXCEPT !.flags[h] = @ \cup {"WANT_WRITE"}]
ClearWantWrite(r, h) == [r EXCEPT !.flags[h] = @ \ {"WANT_WRITE"}]

\* computeEvents: the bits a handler's flags ask epoll for, EPOLLET always.
ComputeEvents(fl) == {b \in {"IN", "OUT"} : \/ b = "IN" /\ "WANT_READ" \in fl
                                            \/ b = "OUT" /\ "WANT_WRITE" \in fl}

-----------------------------------------------------------------------------
(* The kernel: epoll_ctl, close, and the callbacks that fill the list.     *)

FreeFds(r)       == {fd \in Fd : r.tab[fd] = NoFile}
Lowest(fds)       == {fd \in fds : \A g \in fds : fd <= g}
IsOpen(r, fd)    == fd \in Fd /\ r.tab[fd] # NoFile
Registered(r, fd) == IsOpen(r, fd) /\ r.ptr[r.tab[fd]] # NoHandler

Open(r, fd, f) == [r EXCEPT !.tab[fd] = f]

\* Something happens to file f that epoll hears of under the bits b: it counts
\* when the file is watched for one of them; errors always are.
Wake(r, f, b) ==
  IF r.ptr[f] # NoHandler /\ b \cap (r.mask[f] \cup {"ERR", "HUP"}) # {}
    THEN [r EXCEPT !.edge = @ \cup {f}] ELSE r

\* The registrations of a set of files disappear.
Forget(r, fs) ==
  [r EXCEPT !.ptr  = [f \in File |-> IF f \in fs THEN NoHandler ELSE @[f]],
            !.mask = [f \in File |-> IF f \in fs THEN {} ELSE @[f]],
            !.edge = @ \ fs]

\* close(2) on every descriptor of fds.  A file that no child process holds
\* either is gone, and epoll forgets it; a file in held lives on, watched.
CloseAll(r, fds, held) ==
  [Forget(r, {r.tab[fd] : fd \in fds \cap Fd} \ held) EXCEPT
     !.tab = [fd \in Fd |-> IF fd \in fds THEN NoFile ELSE @[fd]]]

-----------------------------------------------------------------------------
(* The methods of Reactor.                                                 *)

\* addHandler(handler), with the handler's own descriptor and computeEvents.  A failed
\* EPOLL_CTL_ADD takes the handler and its map entry back and throws.
AddHandler(r, h, fd, events) ==
  IF IsOpen(r, fd) /\ ~Registered(r, fd)
    THEN [r EXCEPT !.handlers = @ \cup {h}, !.fdMap[fd] = h,
                   !.ptr[r.tab[fd]] = h, !.mask[r.tab[fd]] = events,
                   !.edge = @ \cup {r.tab[fd]}]
    ELSE [r EXCEPT !.fdMap[fd] = NoHandler, !.failed = TRUE]

\* addHandler(handler, fd, events) takes only the map entry back: the handler stays.
AddHandlerFd(r, h, fd, events) ==
  [AddHandler(r, h, fd, events) EXCEPT !.handlers = @ \cup {h}]

FdsOf(r, h) == {fd \in Fd : r.fdMap[fd] = h}

\* EPOLL_CTL_MOD of a set of descriptors to the bits the handler wants now.
Modify(r, fds, h) ==
  LET fs == {r.tab[fd] : fd \in fds} IN
  IF \A fd \in fds : Registered(r, fd)
    THEN [r EXCEPT
            !.ptr  = [f \in File |-> IF f \in fs THEN h ELSE @[f]],
            !.mask = [f \in File |-> IF f \in fs THEN ComputeEvents(r.flags[h])
                                                 ELSE @[f]],
            !.edge = @ \cup fs]
    ELSE [r EXCEPT !.failed = TRUE]

\* updateHandler(handler): every descriptor fd_map_ gives to the handler.
UpdateHandler(r, h) == Modify(r, FdsOf(r, h), h)

\* Mistake: the descriptor stays in fd_map_.
DeleteHandlerKeepsEntry(r, fd) ==
  IF ~Registered(r, fd) THEN [r EXCEPT !.failed = TRUE]
  ELSE Deactivate(Forget(r, {r.tab[fd]}), r.fdMap[fd])

\* deleteHandler(fd): EPOLL_CTL_DEL, forget the descriptor, and deactivate the
\* handler when this was its last one.
DeleteHandler(r, fd) ==
  IF ~Registered(r, fd) THEN [r EXCEPT !.failed = TRUE]
  ELSE LET r1 == Forget(r, {r.tab[fd]})
           h  == r.fdMap[fd]
           r2 == [r1 EXCEPT !.fdMap[fd] = NoHandler]
       IN  IF h = NoHandler THEN r1
           ELSE IF FdsOf(r2, h) = {} THEN Deactivate(r2, h) ELSE r2

\* Mistake: whoever waits is woken, not the one named.
WakeUpHandlerAny(r, fd) ==
  LET hs == {h \in r.handlers : h.type = "CONNECTION" /\ r.flags[h] = {}}
      m  == {f \in File : r.ptr[f] \in hs}
  IN  [r EXCEPT !.flags = [h \in Handler |-> IF h \in hs THEN {"WANT_WRITE"} ELSE @[h]],
                !.mask = [f \in File |-> IF f \in m THEN {"OUT"} ELSE @[f]],
                !.edge = @ \cup m]

\* wakeUpHandler(fd): whoever fd_map_ has under that number is made to write.
WakeUpHandler(r, fd) ==
  IF fd \notin Fd \/ r.fdMap[fd] = NoHandler \/ IsInactive(r, r.fdMap[fd]) THEN r
  ELSE LET h == r.fdMap[fd] IN Modify(SetFlags(r, h, {"WANT_WRITE"}), {fd}, h)

Dead(r) == {h \in r.handlers : IsInactive(r, h)}

\* removeDeactivatedHandler(): the inactive handlers leave fd_map_ and handlers_
\* and are deleted; what their destructors do is Webserv!Destroy.
RemoveDeactivated(r) ==
  [r EXCEPT !.fdMap = [fd \in Fd |-> IF @[fd] \in Dead(r) THEN NoHandler ELSE @[fd]],
            !.handlers = @ \ Dead(r)]

\* Reactor::Reactor() and ServerManager::init(): one listening socket.
InitReactor ==
  [handlers |-> {Acceptor}, flags |-> [h \in Handler |-> {"WANT_READ"}],
   fdMap |-> [fd \in Fd |-> IF fd = ListenFd THEN Acceptor ELSE NoHandler],
   tab   |-> [fd \in Fd |-> IF fd = ListenFd THEN Listening ELSE NoFile],
   ptr   |-> [f \in File |-> IF f = Listening THEN Acceptor ELSE NoHandler],
   mask  |-> [f \in File |-> IF f = Listening THEN {"IN"} ELSE {}],
   edge  |-> {}, failed |-> FALSE]
=============================================================================
