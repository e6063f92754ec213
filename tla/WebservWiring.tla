---------------------------- MODULE WebservWiring ----------------------------
(***************************************************************************)
(* How handlers, descriptors, open files and epoll's registrations hang    *)
(* together: the inductive invariant behind the properties of the event    *)
(* loop that are about registrations, descriptors and the life of handlers.*)
(***************************************************************************)
EXTENDS WebservProps

\* h is allocated and has not been given up, in reactor state r.
Lives(r, h) == h \in r.handlers /\ ~IsInactive(r, h)

\* The listening socket and its acceptor stay as ServerManager::init made them.
ListenWired(r) ==
  /\ Lives(r, Acceptor)
  /\ r.tab[ListenFd] = Listening
  /\ r.fdMap[ListenFd] = Acceptor
  /\ r.ptr[Listening] = Acceptor

\* fd is where client c's ConnectionHandler has its socket.  The handler is in
\* fd_map_ and epoll watches the socket for what it wants until it is given up;
\* the socket stays open until it is deleted.
ConnWired(r, c, fd) ==
  /\ Conn(c) \in r.handlers => fd \in Fd /\ r.tab[fd] = Sock(c)
  /\ Lives(r, Conn(c)) => /\ r.fdMap[fd] = Conn(c)
                          /\ r.ptr[Sock(c)] = Conn(c)
                          /\ r.mask[Sock(c)] = ComputeEvents(r.flags[Conn(c)])
  /\ r.ptr[Sock(c)] # NoHandler => r.ptr[Sock(c)] = Conn(c) /\ Lives(r, Conn(c))
  /\ \A g \in Fd : r.fdMap[g] = Conn(c) => Lives(r, Conn(c)) /\ g = fd
  /\ \A g \in Fd : r.tab[g] = Sock(c) => Conn(c) \in r.handlers /\ g = fd

\* fd, unless it is NoFd, is where a CgiHandler h has its end f of a pipe.
EndWired(r, h, f, fd) ==
  /\ h \in r.handlers /\ fd # NoFd =>
       fd \in Fd /\ r.tab[fd] = f /\ r.fdMap[fd] = h /\ r.ptr[f] = h
  /\ r.ptr[f] # NoHandler => r.ptr[f] = h /\ (h \in r.handlers => fd # NoFd)
  /\ \A g \in Fd : r.tab[g] = f => h \in r.handlers /\ g = fd

\* in and out are stdin_pipe_[1] and stdout_pipe_[0] of c's CgiHandler.  The
\* registration of out never outlives the handler; that of in may.
CgiWired(r, c, in, out) ==
  /\ EndWired(r, Cgi(c), In(c), in) /\ EndWired(r, Cgi(c), Out(c), out)
  /\ r.ptr[Out(c)] # NoHandler => Cgi(c) \in r.handlers
  /\ Cgi(c) \in r.handlers => (IsInactive(r, Cgi(c)) <=> out = NoFd)
  /\ \A g \in Fd : r.fdMap[g] = Cgi(c) => Cgi(c) \in r.handlers /\ g \in {in, out}

\* Nothing else is in fd_map_, in the descriptor table or registered.
Wired(r, cn, cg) ==
  /\ ~r.failed
  /\ \A c \in Clients : /\ ConnWired(r, c, cn[c].fd)
                        /\ CgiWired(r, c, cg[c].inFd, cg[c].outFd)
  /\ \A g \in Fd : r.fdMap[g] = Acceptor \/ r.tab[g] = Listening => g = ListenFd
  /\ r.ptr[Listening] \in {NoHandler, Acceptor}

\* What a client cannot have before it has come that far.
Fresh(c) ==
  /\ Conn(c) \in rx.handlers => peer[c].st = "up" /\ conn[c].rcvd <= peer[c].sent
  /\ peer[c].st \in {"idle", "queued"} =>
       rx.flags[Conn(c)] = {"WANT_READ"} /\ child[c].st = "none"
  /\ Conn(c) \in rx.handlers /\ conn[c].rcvd < 2 => child[c].st = "none"
  /\ child[c].st = "none" => /\ Cgi(c) \notin rx.handlers
                             /\ "INACTIVE" \notin rx.flags[Cgi(c)]
                             /\ rx.ptr[In(c)] = NoHandler
                             /\ \A e \in loop.batch : e.h # Cgi(c)

\* The events still to handle.  Each of a script's events comes from one pipe,
\* and a stdin event only as long as the handler has its end.
BatchInv ==
  /\ loop.pc \in {"wait", "stopped", "gone"} => loop.batch = {}
  /\ \A c \in Clients : \A e \in loop.batch :
       /\ e.h = Conn(c) => Conn(c) \in rx.handlers
       /\ e.h = Cgi(c) /\ "OUT" \in e.ev =>
            /\ e.ev \cap {"IN", "HUP"} = {}
            /\ Active(Cgi(c)) => cgi[c].inFd # NoFd
            /\ \A d \in loop.batch : d.h = Cgi(c) /\ "OUT" \in d.ev => d = e

\* The acceptor is there until the destructors run; after main() nothing is left.
EndInv ==
  /\ loop.pc # "gone" => ListenWired(rx)
  /\ loop.pc = "gone" => /\ rx.handlers = {} /\ rx.tab[ListenFd] = NoFile
                         /\ \A g \in Fd : rx.fdMap[g] = NoHandler

SafeInv == /\ EndInv
           /\ Wired(rx, conn, cgi)
           /\ \A c \in Clients : Fresh(c)
           /\ BatchInv

-----------------------------------------------------------------------------
(* Connections and their answers.                                          *)

\* Something is being made of the request, or has been.
Responding(c) == conn[c].resp # "none" \/ conn[c].cgiPending

\* A connection that makes a response asks for nothing to read, and no event
\* makes it read; an error is reported of a client that has reset, and a
\* response was asked for.
Answering(c) ==
  /\ Conn(c) \notin rx.handlers => conn[c] = NoConn
  /\ Responding(c) /\ Active(Conn(c)) => "WANT_READ" \notin rx.flags[Conn(c)]
  /\ \A e \in loop.batch : e.h = Conn(c) =>
       /\ Responding(c) /\ Active(Conn(c)) => ~IsRead(e)
       /\ IsError(e) => peer[c].rst
       /\ \A d \in loop.batch : d.h = Conn(c) => d = e
  /\ conn[c].resp # "none" => peer[c].sent > 0 \/ peer[c].fin
  /\ conn[c].cgiPending => conn[c].rcvd = 2 /\ peer[c].sent = 2
  /\ peer[c].st \in {"idle", "queued"} \/ Active(Conn(c)) => peer[c].reply = "none"
  /\ peer[c].rst => c \in Resetting

AnswerInv == \A c \in Clients : Answering(c)
=============================================================================
