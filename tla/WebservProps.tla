---------------------------- MODULE WebservProps -----------------------------
(***************************************************************************)
(* What the event loop and its handlers have to get right.                 *)
(***************************************************************************)
EXTENDS Webserv

Active(h) == h \in rx.handlers /\ ~IsInactive(rx, h)

-----------------------------------------------------------------------------
(* Invariants.                                                             *)

\* No handler method ever calls epoll_ctl on a descriptor that is closed, not
\* watched, or watched already: each such call would throw runtime_error
\* (Reactor.cpp:57-62, 125-129, 136-137, 263-264) and end the server.
EpollNeverFails == ~rx.failed

\* Whatever is in fd_map_ is an open descriptor that epoll watches for the same
\* handler, and that handler is allocated.
FdMapIsWatched ==
  \A fd \in Fd : rx.fdMap[fd] # NoHandler =>
    /\ rx.fdMap[fd] \in rx.handlers
    /\ rx.tab[fd] # NoFile
    /\ rx.ptr[rx.tab[fd]] = rx.fdMap[fd]

\* A connection that has not been given up is in fd_map_ under its own
\* descriptor, and epoll watches its socket for exactly what its flags want: no
\* setWantRead or setWantWrite goes without its updateHandler.
ConnectionIsWatched ==
  \A c \in Clients : Active(Conn(c)) =>
    /\ conn[c].fd \in Fd
    /\ rx.fdMap[conn[c].fd] = Conn(c)
    /\ rx.tab[conn[c].fd] = Sock(c)
    /\ rx.mask[Sock(c)] = ComputeEvents(rx.flags[Conn(c)])

\* Every open descriptor but the listening one belongs to an allocated handler
\* that knows it, so some destructor will close it.
NoDescriptorLeak ==
  \A fd \in Fd \ {ListenFd} : rx.tab[fd] # NoFile =>
    \E c \in Clients :
      \/ rx.tab[fd] = Sock(c) /\ Conn(c) \in rx.handlers /\ conn[c].fd = fd
      \/ rx.tab[fd] = In(c) /\ Cgi(c) \in rx.handlers /\ cgi[c].inFd = fd
      \/ rx.tab[fd] = Out(c) /\ Cgi(c) \in rx.handlers /\ cgi[c].outFd = fd

\* No registration, and no event epoll_wait has returned, refers to a connection
\* that is deleted: events already in the batch outlive deleteHandler, so the
\* deletion has to wait for the end of the batch (Reactor.cpp:245).
ConnectionNeverDangles ==
  \A c \in Clients : Conn(c) \notin rx.handlers =>
    /\ rx.ptr[Sock(c)] = NoHandler
    /\ \A e \in loop.batch : e.h # Conn(c)

\* The same of the scripts' handlers, as long as scripts read all they are sent:
\* one that ends its output earlier leaves its stdin pipe watched, and when another
\* script has inherited the pipe closing it does not end that.
CgiNeverDangles ==
  \A c \in Clients : Cgi(c) \notin rx.handlers =>
    /\ rx.ptr[In(c)] = NoHandler /\ rx.ptr[Out(c)] = NoHandler
    /\ \A e \in loop.batch : e.h # Cgi(c)

\* A connection is not deleted while its script's handler still writes into it:
\* output_buffer_ is a reference into the ConnectionHandler (CgiHandler.cpp:85).
\* The deletion at the end of the batch is called safe (Reactor.cpp:245).
OwnerOutlivesCgi == \A c \in Clients : Active(Cgi(c)) => Conn(c) \in rx.handlers

\* What the code does ensure: nothing but a reset separates them.  Until the first one
\* a suspended connection is not closed, refused or answered under its script.
OrphanNeedsReset == (\A c \in Clients : ~peer[c].rst) => OwnerOutlivesCgi

\* A connection that waits for its script is woken by that script or by none:
\* while it waits either the script's handler is there to wake it, or it has
\* been woken.
WaiterIsWoken ==
  \A c \in Clients : Active(Conn(c)) /\ conn[c].cgiPending =>
    Active(Cgi(c)) \/ "WANT_WRITE" \in rx.flags[Conn(c)]

\* After main() has returned nothing is left behind, after Ctrl-C as after an
\* exception in the middle of a batch: no handler, no descriptor, and no script that
\* goes on writing.  A script that has closed its output early is forgotten with its
\* handler (CgiHandler.cpp:91-96) and not killed.
ShutdownIsClean ==
  loop.pc = "gone" =>
    /\ rx.handlers = {} /\ OpenFiles = {}
    /\ \A c \in Clients : child[c].st = "run" => ~child[c].outOpen

-----------------------------------------------------------------------------
(* Action properties.                                                      *)

\* Once a response is being made no more of the request is read, and the response
\* is not replaced by another: it is there until it has been sent.
OneResponse ==
  [][\A c \in Clients :
       (conn[c].resp # "none" \/ conn[c].cgiPending) /\ conn'[c] # NoConn =>
         /\ conn'[c].rcvd = conn[c].rcvd
         /\ conn[c].resp # "none" => conn'[c].resp \in {"none", conn[c].resp}]_vars

\* The output of a script becomes a response only when the script has closed it
\* and all of it has been collected.
CgiAnswerIsComplete ==
  [][\A c \in Clients :
       conn[c].resp = "none" /\ conn'[c].resp = "cgi" =>
         /\ ~child[c].outOpen
         /\ conn[c].out = child[c].wrote]_vars

\* A connection whose peer is still there is given up only after the whole
\* response has been handed to the kernel.
WholeResponse ==
  [][\A c \in Clients :
       Active(Conn(c)) /\ ~(Active(Conn(c)))' /\ loop'.pc = "dispatch" /\ ~peer[c].rst =>
         peer'[c].reply \in {"page", "error", "cgi"}]_vars

\* The step in which d's script handler ends changes what another connection c
\* waits for.
WakesForeign(c, d) ==
  /\ c # d /\ Active(Cgi(d)) /\ ~(Active(Cgi(d)))' /\ loop'.pc = "dispatch"
  /\ rx'.flags[Conn(c)] # rx.flags[Conn(c)]

\* Only the script a connection started makes it write.
WokenByOwnScript == [][\A c, d \in Clients : ~WakesForeign(c, d)]_vars

\* A script wakes the wrong connection in one case only: its own connection has been
\* deleted, and the other one was given the descriptor number it had.  The number
\* is all that wakeUpHandler is told (CgiHandler.cpp:94, 140, Reactor.cpp:250-257).
ForeignWakeNeedsOrphan ==
  [][\A c, d \in Clients : WakesForeign(c, d) =>
       Conn(d) \notin rx.handlers /\ conn[c].fd = cgi[d].fd]_vars

-----------------------------------------------------------------------------
(* The abstract specification.                                             *)

Exchange == INSTANCE HttpExchange WITH
  Reliable <- Clients \ (Resetting \cup Slow),
  asked    <- [c \in Clients |-> IF peer[c].sent = 2 \/ peer[c].fin THEN "all"
                                ELSE IF peer[c].sent = 1 THEN "part" ELSE "nothing"],
  answer   <- [c \in Clients |-> peer[c].reply],
  closed   <- [c \in Clients |-> /\ peer[c].st \in {"up", "closed"}
                                 /\ ~Active(Conn(c))],
  over     <- ~Running

\* Seen from the clients the server does nothing but what HttpExchange allows: no
\* answer before something was asked, at most one, the connection closed with it.
ExchangeSpec == Exchange!Spec

\* The program does not end, and whoever has said all it had to say is answered.
ExchangeFairSpec == Exchange!FairSpec

-----------------------------------------------------------------------------
(* Liveness.                                                               *)

Answered(c) == peer[c].reply \in {"page", "error", "cgi"}

\* A client that has sent its whole request is answered.
RequestIsAnswered ==
  \A c \in Clients : peer[c].st # "idle" /\ peer[c].sent = 2 ~> Answered(c)

\* The answer is the one asked for, once the script has written something.
RightAnswer ==
  \A c \in Clients : Answered(c) =>
    CASE peer[c].kind = "static" -> peer[c].reply = "page"
      [] peer[c].kind = "bad"    -> peer[c].reply = "error"
      [] OTHER -> peer[c].reply = IF child[c].wrote > 0 THEN "cgi" ELSE "error"

\* Everything a served client made the server allocate is given back.
ResourcesReturn ==
  \A c \in Clients : peer[c].st # "idle" /\ peer[c].sent = 2
    ~> /\ {Conn(c), Cgi(c)} \cap rx.handlers = {}
       /\ \A fd \in Fd : rx.tab[fd] \notin {Sock(c), In(c), Out(c)}
=============================================================================
