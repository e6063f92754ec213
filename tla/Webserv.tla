------------------------------- MODULE Webserv -------------------------------
(***************************************************************************)
(* The running server: the event loop (Reactor::run), the acceptor, the    *)
(* connection handlers and the CGI handlers, with the clients, the scripts *)
(* and the kernel they meet.                                               *)
(*                                                                         *)
(* One step of the server is one system call that may block, one accept(), *)
(* or one handler method run to its end: the program has a single thread,  *)
(* so nothing of its own comes between.  Clients, scripts and SIGINT move  *)
(* between any two of these steps, in particular between epoll_wait() and  *)
(* the handling of the events it returned.                                 *)
(***************************************************************************)
EXTENDS Reactor, FiniteSets

CONSTANTS Kinds,      \* what the clients may ask for, see Kind
          BodyLen,    \* pieces of request body a "cgiBody" request carries
          PipeCap,    \* pieces a pipe holds
          OutLen,     \* pieces of output a script may write
          BatchMax,   \* kMaxReadyEventsBatchSize (1024 in the code)
          Finning,    \* clients that may shut their side down early
          Resetting,  \* clients that may reset their connection
          Slow,       \* clients whose response does not fit the send buffer
          ForkFails,  \* whether fork(), or pipe() with descriptors left, may fail
          Dutiful,    \* scripts read all their input and write all their output
          EarlyClose, \* whether a script may close its output before it exits
          AcceptFails, \* whether accept() may fail with a client in the queue: one
                      \* that hung up there, the system out of files or memory
          MaySigint   \* whether the user may press Ctrl-C

\* A page, an upload or a deletion ("static"), a script without and with a
\* request body, and a request that is answered by an error: one the parser
\* refuses, or the method and body size checks do.
Kind == {"static", "cgi", "cgiBody", "bad"}

ASSUME WebservAssumption ==
  /\ Kinds \subseteq Kind /\ Kinds # {}
  /\ BodyLen \in Nat \ {0} /\ PipeCap \in Nat \ {0} /\ OutLen \in Nat \ {0}
  /\ BatchMax \in Nat \ {0}
  /\ Finning \subseteq Clients /\ Resetting \subseteq Clients /\ Slow \subseteq Clients
  /\ {ForkFails, Dutiful, EarlyClose, AcceptFails, MaySigint} \subseteq BOOLEAN

VARIABLES
  rx,     \* the Reactor and the kernel tables behind it
  loop,   \* where Reactor::run is, g_running, the events still to handle
  conn,   \* the members of each ConnectionHandler
  cgi,    \* the members of each CgiHandler
  peer,   \* each client and the socket buffers between it and the server
  child   \* each script: the process and its two pipes

vars == <<rx, loop, conn, cgi, peer, child>>

-----------------------------------------------------------------------------
(* State.                                                                  *)

Event == [h: Handler, ev: SUBSET Bit]       \* data.ptr and events

\* "wait" in epoll_wait, "dispatch" in the for loop over the batch, "accept" in
\* the loop of ConnectionAcceptor::handleRead; "stopped" after the while loop,
\* "gone" after the destructors, "threw" when an exception reached main(),
\* "killed" by SIGPIPE or by a use of freed memory.
Loop == [pc: {"wait", "dispatch", "accept", "stopped", "gone", "threw", "killed"},
         running: BOOLEAN, batch: SUBSET Event]

\* How much of its request a client has sent, or the server has received:
\* nothing, a part, all of it.
Amount == 0..2

Body == {"none", "page", "error", "cgi"}    \* serialized_response_

ConnState == [fd: Fd \cup {NoFd}, rcvd: Amount, resp: Body,
              cgiPending: BOOLEAN, out: 0..OutLen]
NoConn    == [fd |-> NoFd, rcvd |-> 0, resp |-> "none",
              cgiPending |-> FALSE, out |-> 0]

\* fd is the client's descriptor number, inFd is stdin_pipe_[1], outFd is
\* stdout_pipe_[0], pid says pid_ > 0, left counts body_ after write_offset_.
CgiState == [fd: Fd \cup {NoFd}, inFd: Fd \cup {NoFd}, outFd: Fd \cup {NoFd},
             pid: BOOLEAN, left: 0..BodyLen]
NoCgi    == [fd |-> NoFd, inFd |-> NoFd, outFd |-> NoFd, pid |-> FALSE, left |-> 0]

\* reply is what the server has put on the wire; "part" of a response was all
\* that ever came.
PeerState == [st: {"idle", "queued", "up", "closed"}, kind: Kinds, sent: Amount,
              fin: BOOLEAN, rst: BOOLEAN,
              reply: Body \cup {"part"}]

\* inPipe and outPipe are the pieces in the two pipes, wrote what the script has
\* written so far, holds the server's open files that the fork handed it as well.
ChildState == [st: {"none", "run", "killed", "zombie", "reaped"}, outOpen: BOOLEAN,
               inPipe: 0..PipeCap, outPipe: 0..OutLen, wrote: 0..OutLen,
               holds: SUBSET File]
NoChild    == [st |-> "none", outOpen |-> FALSE, inPipe |-> 0, outPipe |-> 0,
               wrote |-> 0, holds |-> {}]

TypeOK == /\ rx \in ReactorState
          /\ loop \in Loop
          /\ conn \in [Clients -> ConnState]
          /\ cgi \in [Clients -> CgiState]
          /\ peer \in [Clients -> PeerState]
          /\ child \in [Clients -> ChildState]

Init == /\ rx = InitReactor
        /\ loop = [pc |-> "wait", running |-> TRUE, batch |-> {}]
        /\ conn = [c \in Clients |-> NoConn]
        /\ cgi = [c \in Clients |-> NoCgi]
        /\ \E k \in [Clients -> Kinds] :
             peer = [c \in Clients |-> [st |-> "idle", kind |-> k[c], sent |-> 0,
                                        fin |-> FALSE, rst |-> FALSE, reply |-> "none"]]
        /\ child = [c \in Clients |-> NoChild]

-----------------------------------------------------------------------------
(* What epoll sees.                                                        *)

Alive(c) == child[c].st \in {"run", "killed"}

\* No descriptor is marked close-on-exec: a script inherits what the server has
\* open, and keeps it open until it exits.
Held == UNION {child[c].holds : c \in Clients}
OpenFiles == {rx.tab[fd] : fd \in Fd} \ {NoFile}

\* Nobody can write to the stdin pipe of c's script any more.
StdinEof(c) == In(c) \notin Held \cup OpenFiles

Poll(f) ==
  CASE f.end = "listen" -> {b \in {"IN"} : \E c \in Clients : peer[c].st = "queued"}
    [] f.end = "socket" ->
         LET p == peer[f.client] IN
           {"OUT"} \cup (IF p.sent > conn[f.client].rcvd \/ p.fin THEN {"IN"} ELSE {})
                   \cup (IF p.rst THEN {"IN", "ERR", "HUP"} ELSE {})
    [] f.end = "stdin" ->
         (IF child[f.client].inPipe < PipeCap THEN {"OUT"} ELSE {})
           \cup (IF Alive(f.client) THEN {} ELSE {"ERR"})
    [] f.end = "stdout" ->
         (IF child[f.client].outPipe > 0 THEN {"IN"} ELSE {})
           \cup (IF child[f.client].outOpen THEN {} ELSE {"HUP"})

Reported(f) == Poll(f) \cap (rx.mask[f] \cup {"ERR", "HUP"})

-----------------------------------------------------------------------------
(* Reactor::run.                                                           *)

\* epoll_wait returns: every file on the list that still has something to report,
\* at most BatchMax of them, each with the bits that hold now.
EpollWait ==
  /\ loop.pc = "wait"
  /\ LET ready == {f \in rx.edge : Reported(f) # {}} IN
     /\ ready # {}
     /\ \E fs \in SUBSET ready :
          /\ \/ fs = ready /\ Cardinality(ready) <= BatchMax
             \/ Cardinality(ready) > BatchMax /\ Cardinality(fs) = BatchMax
          /\ loop' = [loop EXCEPT !.pc = "dispatch",
                        !.batch = {[h |-> rx.ptr[f], ev |-> Reported(f)] : f \in fs}]
          /\ rx' = [rx EXCEPT !.edge = ready \ fs]
  /\ UNCHANGED <<conn, cgi, peer, child>>

\* The three ways an event is handled: handleError, and nothing after it; on a
\* script's hangup handleRead, and nothing after it; handleRead or handleWrite.
IsError(e) == "ERR" \in e.ev \/ ("HUP" \in e.ev /\ e.h.type # "CGI")
IsRead(e)  == ~IsError(e) /\ e.ev \cap {"IN", "HUP"} # {}
IsWrite(e) == ~IsError(e) /\ ~IsRead(e) /\ "OUT" \in e.ev

\* The events left after e.  After a read the same event may still ask for a
\* write, which the loop does next.
Rest(e) == (loop.batch \ {e})
             \cup (IF IsRead(e) /\ "HUP" \notin e.ev /\ "OUT" \in e.ev
                     THEN {[e EXCEPT !.ev = {"OUT"}]} ELSE {})

Takes(e, h) == e.h = h /\ h \in rx.handlers /\ ~IsInactive(rx, h)

Goto(e, pc) == loop' = [loop EXCEPT !.batch = Rest(e), !.pc = pc]

\* A handler method returns, or an epoll_ctl in it threw.
Proceed(e) == Goto(e, IF rx'.failed THEN "threw" ELSE "dispatch")

\* if (handler->isInactive()) continue;
SkipInactive(e) ==
  /\ e.h \in rx.handlers /\ IsInactive(rx, e.h)
  /\ Goto(e, "dispatch")
  /\ UNCHANGED <<rx, conn, cgi, peer, child>>

\* The handler behind data.ptr is freed memory: anything may happen; the build
\* goes on or crashes.
UseFreed(e) ==
  /\ e.h \notin rx.handlers
  /\ Goto(e, "dispatch") \/ Goto(e, "killed")
  /\ UNCHANGED <<rx, conn, cgi, peer, child>>

-----------------------------------------------------------------------------
(* ConnectionAcceptor.                                                     *)

AcceptorHandleRead(e) ==
  /\ Takes(e, Acceptor) /\ IsRead(e)
  /\ Goto(e, "accept")
  /\ UNCHANGED <<rx, conn, cgi, peer, child>>

\* accept(), new ConnectionHandler, Reactor::addHandler(handler).
Accept(c) ==
  /\ loop.pc = "accept" /\ peer[c].st = "queued"
  /\ \E fd \in Lowest(FreeFds(rx)) :
       /\ rx' = AddHandler(Open(rx, fd, Sock(c)), Conn(c), fd,
                           ComputeEvents({"WANT_READ"}))
       /\ conn' = [conn EXCEPT ![c] = [NoConn EXCEPT !.fd = fd]]
  /\ peer' = [peer EXCEPT ![c].st = "up"]
  /\ loop' = [loop EXCEPT !.pc = IF rx'.failed THEN "threw" ELSE "accept"]
  /\ UNCHANGED <<cgi, child>>

\* accept() fails, with no descriptor left or for another reason: any errno but
\* EAGAIN makes Socket::accept throw, and no one catches it before main().
AcceptThrows ==
  /\ loop.pc = "accept"
  /\ \/ FreeFds(rx) = {}
     \/ AcceptFails /\ \E c \in Clients : peer[c].st = "queued"
  /\ loop' = [loop EXCEPT !.pc = "threw"]
  /\ UNCHANGED <<rx, conn, cgi, peer, child>>

\* accept() fails with EAGAIN: the loop ends.  The kernel takes a descriptor before
\* it looks into the queue.
AcceptDone ==
  /\ loop.pc = "accept" /\ FreeFds(rx) # {} /\ \A c \in Clients : peer[c].st # "queued"
  /\ loop' = [loop EXCEPT !.pc = "dispatch"]
  /\ UNCHANGED <<rx, conn, cgi, peer, child>>

-----------------------------------------------------------------------------
(* ConnectionHandler.                                                      *)

\* Mistakes: no updateHandler; reading goes on.
RespondNoUpdate(r, c) == SetFlags(r, Conn(c), {"WANT_WRITE"})
RespondReading(r, c)  == UpdateHandler(SetWantWrite(r, Conn(c)), Conn(c))

\* prepareResponse for a status that needs no script: the response is built, and
\* the connection turns from reading to writing.
Respond(r, c) == UpdateHandler(SetFlags(r, Conn(c), {"WANT_WRITE"}), Conn(c))

\* Mistake: the connection may write while its script runs.
SuspendWriting(r, c) == UpdateHandler(SetFlags(r, Conn(c), {"WANT_WRITE"}), Conn(c))

\* prepareResponse for a script: neither reading nor writing until it is woken.
Suspend(r, c) == UpdateHandler(SetFlags(r, Conn(c), {}), Conn(c))

\* What parseNext makes of the bytes recv() got, all that had been sent: more is
\* needed, the request is refused, or it is complete.  An error may show before
\* the whole request is there.
Parsed(c) ==
  LET p == peer[c] IN
  IF p.sent = conn[c].rcvd THEN {"again"}
  ELSE IF p.sent = 2 THEN {IF p.kind = "bad" THEN "error" ELSE "complete"}
  ELSE {"again"} \cup (IF p.kind = "bad" THEN {"error"} ELSE {})

IsComplete(c) == conn[c].rcvd = 2 /\ peer[c].kind # "bad"

\* recv() until EAGAIN; at the end of the stream an unfinished request is
\* answered with 400.
ConnectionHandleRead(e, c) ==
  /\ Takes(e, Conn(c)) /\ IsRead(e)
  /\ \E parsed \in Parsed(c) :
       \/ /\ parsed = "again" /\ (peer[c].fin => IsComplete(c))
          /\ conn' = [conn EXCEPT ![c].rcvd = peer[c].sent]
          /\ UNCHANGED rx
       \/ /\ parsed = "error" \/ (parsed = "again" /\ peer[c].fin /\ ~IsComplete(c))
          /\ conn' = [conn EXCEPT ![c].rcvd = peer[c].sent, ![c].resp = "error"]
          /\ rx' = Respond(rx, c)
       \/ /\ parsed = "complete" /\ peer[c].kind = "static"
          /\ conn' = [conn EXCEPT ![c].rcvd = peer[c].sent, ![c].resp = "page"]
          /\ rx' = Respond(rx, c)
  /\ Proceed(e)
  /\ UNCHANGED <<cgi, peer, child>>

\* The request is complete and names a script.
CompletesCgi(e, c) ==
  /\ Takes(e, Conn(c)) /\ IsRead(e)
  /\ "complete" \in Parsed(c) /\ peer[c].kind \in {"cgi", "cgiBody"}

Pending(c) == [conn EXCEPT ![c].rcvd = peer[c].sent,
                           ![c].cgiPending = TRUE, ![c].out = 0]

BodyOf(c) == IF peer[c].kind = "cgiBody" THEN BodyLen ELSE 0

\* execCgi in the parent, with the four lowest free descriptors a < b < g < d
\* in the two pipes: a and d are the script's ends, closed after the fork.
\* The write end b is kept only when there is a body to forward.
ExecCgi(r, c, b, g) ==
  LET r1 == IF BodyOf(c) > 0
              THEN AddHandlerFd(Open(r, b, In(c)), Cgi(c), b, {"OUT"}) ELSE r
  IN  AddHandlerFd(SetFlags(Open(r1, g, Out(c)), Cgi(c), {"WANT_READ"}),
                   Cgi(c), g, {"IN"})

\* handleRead, prepareResponse, execCgi: the script starts.  It inherits every
\* descriptor the server has open, those of other connections and scripts too.
StartCgi(e, c) ==
  /\ CompletesCgi(e, c)
  /\ \E a \in Lowest(FreeFds(rx)) : \E b \in Lowest(FreeFds(rx) \ {a}) :
     \E g \in Lowest(FreeFds(rx) \ {a, b}) : \E d \in Lowest(FreeFds(rx) \ {a, b, g}) :
       /\ rx' = Suspend(ExecCgi(rx, c, b, g), c)
       /\ cgi' = [cgi EXCEPT ![c] =
                    [fd |-> conn[c].fd, inFd |-> IF BodyOf(c) > 0 THEN b ELSE NoFd,
                     outFd |-> g, pid |-> TRUE, left |-> BodyOf(c)]]
  /\ child' = [child EXCEPT ![c] = [NoChild EXCEPT !.st = "run", !.outOpen = TRUE,
                                                   !.holds = OpenFiles]]
  /\ conn' = Pending(c)
  /\ Proceed(e)
  /\ UNCHANGED peer

\* execCgi fails, in pipe() or in fork(): the CgiHandler is deleted, and the
\* connection is suspended all the same.
CgiFails(e, c) ==
  /\ CompletesCgi(e, c)
  /\ ForkFails \/ Cardinality(FreeFds(rx)) < 4
  /\ rx' = Suspend(rx, c)
  /\ conn' = Pending(c)
  /\ Proceed(e)
  /\ UNCHANGED <<cgi, peer, child>>

\* Mistakes: epoll is not armed again for the response; the connection is closed.
ArmNoUpdate(r, c) == SetWantWrite(r, Conn(c))
ArmCloses(r, c)   == DeleteHandler(r, conn[c].fd)

Arm(r, c) == UpdateHandler(SetWantWrite(r, Conn(c)), Conn(c))

\* handleCgi: the script is over; its output, or 502 when there is none, becomes
\* the response.
HandleCgi(e, c) ==
  /\ Takes(e, Conn(c)) /\ IsWrite(e)
  /\ conn[c].resp = "none" /\ conn[c].cgiPending
  /\ conn' = [conn EXCEPT ![c].cgiPending = FALSE,
                ![c].resp = IF conn[c].out = 0 THEN "error" ELSE "cgi"]
  /\ rx' = Arm(rx, c)
  /\ Proceed(e)
  /\ UNCHANGED <<cgi, peer, child>>

\* handleWrite with nothing to write.
HandleWriteNothing(e, c) ==
  /\ Takes(e, Conn(c)) /\ IsWrite(e)
  /\ conn[c].resp = "none" /\ ~conn[c].cgiPending
  /\ Goto(e, "dispatch")
  /\ UNCHANGED <<rx, conn, cgi, peer, child>>

Writes(e, c) == Takes(e, Conn(c)) /\ IsWrite(e) /\ conn[c].resp # "none"

\* Mistakes: the connection is not closed after the response, or closed twice.
CloseNot(r, c)   == UpdateHandler(ClearWantWrite(r, Conn(c)), Conn(c))
CloseTwice(r, c) == DeleteHandler(DeleteHandler(r, conn[c].fd), conn[c].fd)

Close(r, c) == DeleteHandler(UpdateHandler(ClearWantWrite(r, Conn(c)), Conn(c)),
                             conn[c].fd)

\* handleWrite sends the whole response, and closes.
SendAll(e, c) ==
  /\ Writes(e, c) /\ ~peer[c].rst
  /\ rx' = Close(rx, c)
  /\ conn' = [conn EXCEPT ![c].resp = "none", ![c].out = 0]
  /\ peer' = [peer EXCEPT ![c].reply = conn[c].resp]
  /\ Proceed(e)
  /\ UNCHANGED <<cgi, child>>

\* Mistake: the handler is deactivated without EPOLL_CTL_DEL.
GiveUpNoDel(r, c) == Deactivate(r, Conn(c))

GiveUp(r, c) == DeleteHandler(r, conn[c].fd)

\* send() returns -1: the send buffer is full, or the peer is gone.  Either way
\* the connection is given up.  (send() never returns 0 for a positive length,
\* so the branch for it has no step.)
SendFails(e, c) ==
  /\ Writes(e, c) /\ (peer[c].rst \/ c \in Slow)
  /\ rx' = GiveUp(rx, c)
  /\ peer' = [peer EXCEPT ![c].reply = IF peer[c].rst THEN @ ELSE "part"]
  /\ Proceed(e)
  /\ UNCHANGED <<conn, cgi, child>>

\* send() to a peer that is gone raises SIGPIPE, which no one handles.
SendKills(e, c) ==
  /\ Writes(e, c) /\ peer[c].rst
  /\ Goto(e, "killed")
  /\ UNCHANGED <<rx, conn, cgi, peer, child>>

ConnectionHandleError(e, c) ==
  /\ Takes(e, Conn(c)) /\ IsError(e)
  /\ rx' = GiveUp(rx, c)
  /\ Proceed(e)
  /\ UNCHANGED <<conn, cgi, peer, child>>

ConnectionStep(e, c) ==
  \/ ConnectionHandleRead(e, c) \/ StartCgi(e, c) \/ CgiFails(e, c)
  \/ HandleCgi(e, c) \/ HandleWriteNothing(e, c)
  \/ SendAll(e, c) \/ SendFails(e, c) \/ SendKills(e, c)
  \/ ConnectionHandleError(e, c)

-----------------------------------------------------------------------------
(* CgiHandler.                                                             *)

\* output_buffer_ is a reference into the ConnectionHandler; after that is
\* deleted an access to it may do nothing visible, or crash.
OwnerLives(c) == Conn(c) \in rx.handlers

CgiReads(e, c) == Takes(e, Cgi(c)) /\ IsRead(e)

\* Mistake: what comes with the end of the stream is lost.
CollectedNothing(c) == conn

\* What read() empties out of the pipe goes to the connection's buffer.
Collected(c) == IF OwnerLives(c)
                  THEN [conn EXCEPT ![c].out = @ + child[c].outPipe] ELSE conn

\* Mistake: the pipe is not emptied.
DrainedNot(s) == s
Drained(s)    == [s EXCEPT !.outPipe = 0]

\* read() until EAGAIN.
CgiHandleRead(e, c) ==
  /\ CgiReads(e, c) /\ child[c].outOpen
  /\ conn' = Collected(c)
  /\ child' = [child EXCEPT ![c] = Drained(@)]
  /\ Goto(e, "dispatch")
  /\ UNCHANGED <<rx, cgi, peer>>

\* Mistakes: no deleteHandler, no close, no wakeUpHandler.
FinishNoDelete(r, c) ==
  LET r1 == [CloseAll(r, {cgi[c].outFd}, Held) EXCEPT !.fdMap[cgi[c].outFd] = NoHandler]
  IN  WakeUpHandler(Deactivate(r1, Cgi(c)), cgi[c].fd)
FinishNoClose(r, c) ==
  WakeUpHandler(Deactivate(DeleteHandler(r, cgi[c].outFd), Cgi(c)), cgi[c].fd)
FinishNoWake(r, c) ==
  Deactivate(CloseAll(DeleteHandler(r, cgi[c].outFd), {cgi[c].outFd}, Held), Cgi(c))

\* deleteHandler, close, deactivate, wakeUpHandler(fd_).
Finish(r, c) ==
  LET r1 == CloseAll(DeleteHandler(r, cgi[c].outFd), {cgi[c].outFd}, Held)
  IN  WakeUpHandler(Deactivate(r1, Cgi(c)), cgi[c].fd)

\* waitpid(pid, NULL, WNOHANG) reaps a script that has exited, and only then.
WaitPid(s) == IF s.st = "zombie" THEN [s EXCEPT !.st = "reaped"] ELSE s

\* read() until the end of the script's output.
CgiHandleEof(e, c) ==
  /\ CgiReads(e, c) /\ ~child[c].outOpen
  /\ conn' = Collected(c)
  /\ rx' = Finish(rx, c)
  /\ cgi' = [cgi EXCEPT ![c].outFd = NoFd, ![c].pid = FALSE]
  /\ child' = [child EXCEPT ![c] = WaitPid(Drained(@))]
  /\ Proceed(e)
  /\ UNCHANGED peer

\* output_buffer_.append on a deleted connection, when it crashes.
AppendToFreed(e, c) ==
  /\ CgiReads(e, c) /\ child[c].outPipe > 0 /\ ~OwnerLives(c)
  /\ Goto(e, "killed")
  /\ UNCHANGED <<rx, conn, cgi, peer, child>>

\* write() until the body is out, which closes the pipe, or the pipe is full.
CgiHandleWrite(e, c) ==
  /\ Takes(e, Cgi(c)) /\ IsWrite(e) /\ Alive(c)
  /\ LET room == PipeCap - child[c].inPipe
         n    == IF cgi[c].left < room THEN cgi[c].left ELSE room
     IN
     /\ child' = [child EXCEPT ![c].inPipe = @ + n]
     /\ IF n < cgi[c].left
          THEN /\ cgi' = [cgi EXCEPT ![c].left = @ - n]
               /\ UNCHANGED rx
          ELSE /\ cgi' = [cgi EXCEPT ![c].left = 0, ![c].inFd = NoFd]
               /\ rx' = ClearWantWrite(CloseAll(DeleteHandler(rx, cgi[c].inFd),
                                                {cgi[c].inFd}, Held), Cgi(c))
  /\ Proceed(e)
  /\ UNCHANGED <<conn, peer>>

\* write() to a script that is gone raises SIGPIPE.
CgiWriteKills(e, c) ==
  /\ Takes(e, Cgi(c)) /\ IsWrite(e) /\ ~Alive(c) /\ cgi[c].left > 0
  /\ Goto(e, "killed")
  /\ UNCHANGED <<rx, conn, cgi, peer, child>>

\* deleteHandler and close on one pipe end that may be closed already.
Drop(r, fd) == IF fd = NoFd THEN r ELSE CloseAll(DeleteHandler(r, fd), {fd}, Held)

\* The script closed its input while there was still some for it: its output is
\* thrown away, and the connection woken to answer 502.
CgiHandleError(e, c) ==
  /\ Takes(e, Cgi(c)) /\ IsError(e)
  /\ rx' = WakeUpHandler(Deactivate(Drop(Drop(rx, cgi[c].inFd), cgi[c].outFd),
                                    Cgi(c)), cgi[c].fd)
  /\ conn' = IF OwnerLives(c) THEN [conn EXCEPT ![c].out = 0] ELSE conn
  /\ cgi' = [cgi EXCEPT ![c].inFd = NoFd, ![c].outFd = NoFd]
  /\ Proceed(e)
  /\ UNCHANGED <<peer, child>>

CgiStep(e, c) ==
  \/ CgiHandleRead(e, c) \/ CgiHandleEof(e, c) \/ AppendToFreed(e, c)
  \/ CgiHandleWrite(e, c) \/ CgiWriteKills(e, c) \/ CgiHandleError(e, c)

-----------------------------------------------------------------------------
(* The end of a turn of the loop, and of the program.                      *)

\* ~ConnectionHandler closes the socket; ~CgiHandler closes the pipes and kills
\* the script it still knows of.
Destroy(r, hs) ==
  /\ rx' = CloseAll(r, UNION {IF h.type = "CONNECTION" THEN {conn[h.client].fd}
                              ELSE IF h.type = "CGI"
                                     THEN {cgi[h.client].inFd, cgi[h.client].outFd}
                              ELSE {} : h \in hs}, Held)
  /\ conn' = [c \in Clients |-> IF Conn(c) \in hs THEN NoConn ELSE conn[c]]
  /\ cgi' = [c \in Clients |-> IF Cgi(c) \in hs THEN NoCgi ELSE cgi[c]]
  /\ peer' = [c \in Clients |-> IF Conn(c) \in hs
                                  THEN [peer[c] EXCEPT !.st = "closed"] ELSE peer[c]]
  /\ child' = [c \in Clients |->
                 IF Cgi(c) \in hs /\ cgi[c].pid
                   THEN IF child[c].st = "run" THEN [child[c] EXCEPT !.st = "killed"]
                                               ELSE WaitPid(child[c])
                   ELSE child[c]]

\* removeDeactivatedHandler, and the test of g_running.
Sweep ==
  /\ loop.pc = "dispatch" /\ loop.batch = {}
  /\ Destroy(RemoveDeactivated(rx), Dead(rx))
  /\ loop' = [loop EXCEPT !.pc = IF loop.running THEN "wait" ELSE "stopped"]

\* Mistake: the listening socket stays open.
TeardownKeepsSocket(r) == [Forget(r, File) EXCEPT !.handlers = {},
                                                  !.fdMap = [fd \in Fd |-> NoHandler]]

\* ~ServerManager closes the listening socket, ~Reactor deletes every handler and
\* closes the epoll instance.
Teardown(r) == [Forget(r, File) EXCEPT !.handlers = {}, !.tab[ListenFd] = NoFile,
                                       !.fdMap = [fd \in Fd |-> NoHandler]]

\* Reactor::run returned to main(), or an exception left it: main() catches that,
\* and the destructors run all the same.
Shutdown ==
  /\ loop.pc \in {"stopped", "threw"}
  /\ Destroy(Teardown(rx), rx.handlers)
  /\ loop' = [loop EXCEPT !.pc = "gone", !.batch = {}]

\* handle_sigint.  A signal that finds the program inside epoll_wait makes it
\* return with EINTR; one that comes between the test of g_running and the
\* system call only sets the flag, and epoll_wait then waits as it would have.
Sigint ==
  /\ MaySigint /\ loop.running
  /\ loop' \in {[loop EXCEPT !.running = FALSE],
                [loop EXCEPT !.running = FALSE,
                             !.pc = IF @ = "wait" THEN "stopped" ELSE @]}
  /\ UNCHANGED <<rx, conn, cgi, peer, child>>

Dispatch(e) ==
  /\ loop.pc = "dispatch"
  /\ \/ SkipInactive(e) \/ UseFreed(e) \/ AcceptorHandleRead(e)
     \/ \E c \in Clients : ConnectionStep(e, c) \/ CgiStep(e, c)

Server == \/ EpollWait \/ Sweep \/ Shutdown
          \/ \E e \in loop.batch : Dispatch(e)
          \/ (\E c \in Clients : Accept(c)) \/ AcceptThrows \/ AcceptDone

-----------------------------------------------------------------------------
(* Clients.  Once the server is gone nothing they do is followed further.  *)

Running == loop.pc \in {"wait", "dispatch", "accept"}

Connect(c) ==
  /\ Running /\ peer[c].st = "idle"
  /\ peer' = [peer EXCEPT ![c].st = "queued"]
  /\ rx' = Wake(rx, Listening, {"IN"})
  /\ UNCHANGED <<loop, conn, cgi, child>>

Connected(c) == Running /\ peer[c].st \in {"queued", "up"} /\ ~peer[c].rst

\* More of the request, or the rest of it.
Send(c) ==
  /\ Connected(c) /\ ~peer[c].fin
  /\ \E n \in Amount : n > peer[c].sent /\ peer' = [peer EXCEPT ![c].sent = n]
  /\ rx' = Wake(rx, Sock(c), {"IN"})
  /\ UNCHANGED <<loop, conn, cgi, child>>

\* The client closes its side, early or not.  The callback for the end of the
\* stream names no bits, so epoll polls the socket whatever it is watched for.
Fin(c) ==
  /\ Connected(c) /\ c \in Finning /\ ~peer[c].fin
  /\ peer' = [peer EXCEPT ![c].fin = TRUE]
  /\ rx' = Wake(rx, Sock(c), Bit)
  /\ UNCHANGED <<loop, conn, cgi, child>>

Reset(c) ==
  /\ Connected(c) /\ c \in Resetting
  /\ peer' = [peer EXCEPT ![c].rst = TRUE]
  /\ rx' = Wake(rx, Sock(c), Bit)
  /\ UNCHANGED <<loop, conn, cgi, child>>

-----------------------------------------------------------------------------
(* Scripts.                                                                *)

ChildRead(c) ==
  /\ Running /\ child[c].st = "run" /\ child[c].inPipe > 0
  /\ child' = [child EXCEPT ![c].inPipe = @ - 1]
  /\ rx' = Wake(rx, In(c), {"OUT"})
  /\ UNCHANGED <<loop, conn, cgi, peer>>

\* Output blocks while the pipe is full; with the other end closed it would end
\* the script, which ChildExit covers.
ChildWrite(c) ==
  /\ Running /\ child[c].st = "run" /\ child[c].outOpen
  /\ child[c].wrote < OutLen /\ child[c].outPipe < PipeCap /\ cgi[c].outFd # NoFd
  /\ child' = [child EXCEPT ![c].wrote = @ + 1, ![c].outPipe = @ + 1]
  /\ rx' = Wake(rx, Out(c), {"IN"})
  /\ UNCHANGED <<loop, conn, cgi, peer>>

\* The script closes its output and goes on.
ChildCloseOut(c) ==
  /\ Running /\ EarlyClose /\ child[c].st = "run" /\ child[c].outOpen
  /\ child' = [child EXCEPT ![c].outOpen = FALSE]
  /\ rx' = Wake(rx, Out(c), {"IN", "HUP"})
  /\ UNCHANGED <<loop, conn, cgi, peer>>

MayExit(c) ==
  \/ child[c].st = "killed"
  \/ /\ child[c].st = "run"
     /\ Dutiful => /\ StdinEof(c) /\ child[c].inPipe = 0
                   /\ child[c].wrote = OutLen \/ cgi[c].outFd = NoFd

\* The script exits, or dies of the SIGKILL it was sent.  Its ends of the pipes
\* are closed, and so is all that it had inherited.
ChildExit(c) ==
  /\ Running /\ MayExit(c)
  /\ child' = [child EXCEPT ![c].st = "zombie", ![c].outOpen = FALSE,
                            ![c].inPipe = 0, ![c].holds = {}]
  /\ LET orphans == child[c].holds
                       \ (OpenFiles \cup UNION {child[b].holds : b \in Clients \ {c}})
     IN  rx' = Wake(Wake(Forget(rx, orphans), In(c), {"OUT", "ERR"}),
                    Out(c), {"IN", "HUP"})
  /\ UNCHANGED <<loop, conn, cgi, peer>>

Client(c) == Connect(c) \/ Send(c) \/ Fin(c) \/ Reset(c)
Script(c) == ChildRead(c) \/ ChildWrite(c) \/ ChildCloseOut(c) \/ ChildExit(c)

Next == Server \/ (\E c \in Clients : Client(c) \/ Script(c)) \/ Sigint

Spec == Init /\ [][Next]_vars

\* The loop never stops of its own, epoll_wait returns when something is ready,
\* and the kernel runs every script process.  Clients may stop at any point.
FairSpec == /\ Spec
            /\ WF_vars(Server)
            /\ \A c \in Clients : WF_vars(Script(c))
=============================================================================
