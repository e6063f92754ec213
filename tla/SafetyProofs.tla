----------------------------- MODULE SafetyProofs -----------------------------
(***************************************************************************)
(* The state of the server keeps its type, TypeInv.  That a script's       *)
(* output fits where it is collected needs PipeOK: pieces are neither made *)
(* nor doubled between the script and the connection.  That data.ptr of a  *)
(* reported event is a handler needs Sane: epoll never polls a file it     *)
(* forgot.                                                                 *)
(*                                                                         *)
(* SafeInv is an inductive invariant of the server, whatever clients,      *)
(* scripts and SIGINT do, with as many clients and descriptors as there    *)
(* may be; the properties about registrations, descriptors and the life of *)
(* handlers follow from it.                                                *)
(***************************************************************************)
EXTENDS ReactorProofs

PipeOK == \A c \in Clients :
            conn[c].out + child[c].outPipe <= child[c].wrote

TypeInv == TypeOK /\ Sane(rx) /\ PipeOK

\* What TypeInv says of the members of one client's records.
LEMMA FieldsAreTyped ==
  ASSUME TypeInv, NEW c \in Clients
  PROVE  /\ conn[c] \in ConnState /\ cgi[c] \in CgiState
         /\ peer[c] \in PeerState /\ child[c] \in ChildState
         /\ conn[c].fd \in Fd \cup {NoFd} /\ cgi[c].fd \in Fd \cup {NoFd}
         /\ cgi[c].inFd \in Fd \cup {NoFd} /\ cgi[c].outFd \in Fd \cup {NoFd}
         /\ conn[c].out + child[c].outPipe <= child[c].wrote
         /\ conn[c].out \in Nat /\ child[c].outPipe \in Nat
         /\ child[c].wrote \in 0..OutLen
BY WebservAssumption DEF TypeInv, TypeOK, PipeOK, ConnState, CgiState, PeerState, ChildState

\* An empty buffer is a buffer.
LEMMA ZeroFits == 0 \in 0..OutLen /\ 0 \in 0..BodyLen /\ 0 \in 0..PipeCap
BY WebservAssumption

\* So are the records of what does not exist yet.
LEMMA NoRecordsAreTyped ==
  NoConn \in ConnState /\ NoCgi \in CgiState /\ NoChild \in ChildState
BY WebservAssumption DEF NoConn, ConnState, NoCgi, CgiState, NoChild, ChildState,
   NoFd, Amount, Body

\* The server starts in a state of its type.
LEMMA InitTypeInv == Init => TypeInv
<1> SUFFICES ASSUME Init PROVE TypeInv OBVIOUS
<1>1. Sane(rx) BY InitReactorIsSane DEF Init
<1>2. loop \in Loop BY DEF Init, Loop
<1>3. conn \in [Clients -> ConnState] /\ cgi \in [Clients -> CgiState]
      /\ child \in [Clients -> ChildState]
  BY NoRecordsAreTyped DEF Init
<1>4. peer \in [Clients -> PeerState]
  BY DEF Init, PeerState, Amount, Body
<1>5. PipeOK
  <2> SUFFICES ASSUME NEW c \in Clients
               PROVE  conn[c].out + child[c].outPipe <= child[c].wrote
    BY DEF PipeOK
  <2>1. conn[c] = NoConn /\ child[c] = NoChild BY DEF Init
  <2>2. conn[c].out = 0 /\ child[c].outPipe = 0 /\ child[c].wrote = 0
    BY <2>1 DEF NoConn, NoChild
  <2> QED BY <2>2
<1> QED BY <1>1, <1>2, <1>3, <1>4, <1>5 DEF TypeInv, TypeOK, Sane

\* The batch that is left is a batch, so both ways on keep loop's type.
LEMMA GotoIsTyped ==
  ASSUME TypeInv, NEW e \in loop.batch,
         NEW pc \in {"dispatch", "accept", "threw", "killed"}, Goto(e, pc)
  PROVE  loop' \in Loop
<1>1. loop.batch \subseteq Event /\ e \in Event BY DEF TypeInv, TypeOK, Loop
<1>2. [e EXCEPT !.ev = {"OUT"}] \in Event BY <1>1 DEF Event, Bit
<1>3. Rest(e) \subseteq Event BY <1>1, <1>2 DEF Rest
<1> QED BY <1>3 DEF Goto, TypeInv, TypeOK, Loop

\* The same of the way on after a handler method.
LEMMA ProceedIsTyped ==
  ASSUME TypeInv, NEW e \in loop.batch, Proceed(e)
  PROVE  loop' \in Loop
BY GotoIsTyped DEF Proceed

\* The events still to handle are events of handlers.
LEMMA EventsAreTyped ==
  ASSUME TypeInv, NEW e \in loop.batch
  PROVE  e \in Event /\ e.h \in Handler
BY DEF TypeInv, TypeOK, Loop, Event

-----------------------------------------------------------------------------
(* Typing: the loop.                                                       *)

\* epoll_wait reports handlers, because the list holds watched files only.
LEMMA EpollWaitTyped == ASSUME TypeInv, EpollWait PROVE TypeInv'
<1> DEFINE ready == {f \in rx.edge : Reported(f) # {}}
<1>1. PICK fs \in SUBSET ready :
        /\ loop' = [loop EXCEPT !.pc = "dispatch",
                       !.batch = {[h |-> rx.ptr[f], ev |-> Reported(f)] : f \in fs}]
        /\ rx' = [rx EXCEPT !.edge = ready \ fs]
  BY DEF EpollWait
<1>2. \A f \in fs : f \in File /\ rx.ptr[f] \in Handler
  BY DEF TypeInv, Sane, ReactorState
<1>3. \A f \in fs : Reported(f) \in SUBSET Bit
  BY <1>2 DEF Reported, Bit, TypeInv, TypeOK, ReactorState
<1>4. {[h |-> rx.ptr[f], ev |-> Reported(f)] : f \in fs} \subseteq Event
  BY <1>2, <1>3 DEF Event
<1>5. loop' \in Loop BY <1>1, <1>4 DEF Loop, TypeInv, TypeOK
<1>6. Sane(rx') BY <1>1 DEF Sane, ReactorState, TypeInv
<1> QED BY <1>5, <1>6 DEF EpollWait, TypeInv, TypeOK, PipeOK, Sane

\* Skipping an inactive handler, or using a freed one.
LEMMA SkipInactiveTyped ==
  ASSUME TypeInv, NEW e \in loop.batch, SkipInactive(e) \/ UseFreed(e)
  PROVE  TypeInv'
<1>1. loop' \in Loop BY GotoIsTyped DEF SkipInactive, UseFreed
<1> QED BY <1>1 DEF SkipInactive, UseFreed, TypeInv, TypeOK, PipeOK

\* ConnectionAcceptor::handleRead begins.
LEMMA AcceptorTyped ==
  ASSUME TypeInv, NEW e \in loop.batch, AcceptorHandleRead(e)
  PROVE  TypeInv'
<1>1. loop' \in Loop BY GotoIsTyped DEF AcceptorHandleRead
<1> QED BY <1>1 DEF AcceptorHandleRead, TypeInv, TypeOK, PipeOK

\* accept() takes a client in.
LEMMA AcceptTyped ==
  ASSUME TypeInv, NEW c \in Clients, Accept(c)
  PROVE  TypeInv'
<1>1. PICK fd \in Fd :
        /\ rx' = AddHandler(Open(rx, fd, Sock(c)), Conn(c), fd,
                            ComputeEvents({"WANT_READ"}))
        /\ conn' = [conn EXCEPT ![c] = [NoConn EXCEPT !.fd = fd]]
  BY DEF Accept, Lowest, FreeFds
<1>2. ComputeEvents({"WANT_READ"}) \in SUBSET {"IN", "OUT"} BY DEF ComputeEvents
<1>3. Sane(rx')
  BY <1>1, <1>2, NamesAreTyped, OpenIsSane, AddHandlerIsSane DEF TypeInv
<1>4. [NoConn EXCEPT !.fd = fd] \in ConnState /\ [NoConn EXCEPT !.fd = fd].out = 0
  BY NoRecordsAreTyped DEF ConnState, NoConn
<1>5. conn' \in [Clients -> ConnState] BY <1>1, <1>4 DEF TypeInv, TypeOK
<1>6. peer' \in [Clients -> PeerState]
  <2>1. [peer[c] EXCEPT !.st = "up"] \in PeerState BY FieldsAreTyped DEF PeerState
  <2> QED BY <2>1 DEF Accept, TypeInv, TypeOK
<1>7. loop' \in Loop BY DEF Accept, TypeInv, TypeOK, Loop
<1>8. PipeOK'
  <2> SUFFICES ASSUME NEW d \in Clients
               PROVE  conn'[d].out + child[d].outPipe <= child[d].wrote
    BY DEF PipeOK, Accept
  <2>1. conn'[d].out = 0 \/ conn'[d] = conn[d] BY <1>1, <1>4 DEF TypeInv, TypeOK
  <2> QED BY <2>1, FieldsAreTyped
<1> QED BY <1>3, <1>5, <1>6, <1>7, <1>8 DEF Accept, TypeInv, TypeOK, Sane

\* accept() finds no client, or fails.
LEMMA AcceptEndsTyped ==
  ASSUME TypeInv, AcceptThrows \/ AcceptDone
  PROVE  TypeInv'
BY DEF AcceptThrows, AcceptDone, TypeInv, TypeOK, PipeOK, Loop

-----------------------------------------------------------------------------
(* Typing: ConnectionHandler.                                              *)

\* The reactor operations a connection performs.
LEMMA ConnectionOpsAreSane ==
  ASSUME NEW r, Sane(r), NEW c \in Clients, conn[c].fd \in Fd \cup {NoFd}
  PROVE  /\ Sane(Respond(r, c)) /\ Sane(Suspend(r, c)) /\ Sane(Arm(r, c))
         /\ Sane(Close(r, c)) /\ Sane(GiveUp(r, c))
<1>1. {"WANT_WRITE"} \in SUBSET Flag /\ {} \in SUBSET Flag BY DEF Flag
<1>2. Conn(c) \in Handler BY NamesAreTyped
<1>3. Sane(Respond(r, c)) BY <1>1, <1>2, FlagsAreSane, UpdateHandlerIsSane DEF Respond
<1>4. Sane(Suspend(r, c)) BY <1>1, <1>2, FlagsAreSane, UpdateHandlerIsSane DEF Suspend
<1>5. Sane(SetWantWrite(r, Conn(c))) /\ Sane(ClearWantWrite(r, Conn(c)))
  BY <1>1, <1>2, FlagsAreSane
<1>6. Sane(Arm(r, c)) BY <1>2, <1>5, UpdateHandlerIsSane DEF Arm
<1>7. Sane(UpdateHandler(ClearWantWrite(r, Conn(c)), Conn(c)))
  BY <1>2, <1>5, UpdateHandlerIsSane
<1>8. Sane(Close(r, c)) BY <1>7, DeleteHandlerIsSane DEF Close
<1>9. Sane(GiveUp(r, c)) BY DeleteHandlerIsSane DEF GiveUp
<1> QED BY <1>3, <1>4, <1>6, <1>8, <1>9

\* A step that replaces one connection, without giving it output that no script
\* wrote, and leaves the scripts' records alone keeps the types of both.
LEMMA ConnectionChanges ==
  ASSUME TypeInv, NEW c \in Clients, NEW k \in ConnState,
         conn' = [conn EXCEPT ![c] = k], k.out = conn[c].out \/ k.out = 0,
         UNCHANGED child
  PROVE  conn' \in [Clients -> ConnState] /\ PipeOK'
<1>1. conn' \in [Clients -> ConnState] BY DEF TypeInv, TypeOK
<1> SUFFICES ASSUME NEW d \in Clients
             PROVE  conn'[d].out + child[d].outPipe <= child[d].wrote
  BY <1>1 DEF PipeOK
<1>2. conn'[d].out = 0 \/ conn'[d].out = conn[d].out BY DEF TypeInv, TypeOK
<1> QED BY <1>2, FieldsAreTyped

\* handleRead, when no script is asked for.
LEMMA ConnectionHandleReadTyped ==
  ASSUME TypeInv, NEW e \in loop.batch, NEW c \in Clients, ConnectionHandleRead(e, c)
  PROVE  TypeInv'
<1>1. loop' \in Loop BY ProceedIsTyped DEF ConnectionHandleRead
<1>2. Sane(rx')
  <2>1. Sane(Respond(rx, c)) BY ConnectionOpsAreSane, FieldsAreTyped DEF TypeInv
  <2> QED BY <2>1 DEF ConnectionHandleRead, TypeInv
<1> DEFINE k0   == [conn[c] EXCEPT !.rcvd = peer[c].sent]
           k(b) == [k0 EXCEPT !.resp = b]
<1>3. \/ conn' = [conn EXCEPT ![c] = k0]
      \/ conn' = [conn EXCEPT ![c] = k("error")]
      \/ conn' = [conn EXCEPT ![c] = k("page")]
  BY DEF ConnectionHandleRead
<1>4. k0 \in ConnState /\ k0.out = conn[c].out
  BY FieldsAreTyped DEF ConnState, PeerState
<1> HIDE DEF k0
<1>5. \A b \in Body : k(b) \in ConnState /\ k(b).out = conn[c].out
  BY <1>4 DEF ConnState
<1>6. UNCHANGED <<cgi, peer, child>> BY DEF ConnectionHandleRead
<1>7. conn' \in [Clients -> ConnState] /\ PipeOK'
  <2>1. "error" \in Body /\ "page" \in Body BY DEF Body
  <2> HIDE DEF k
  <2> QED BY <1>3, <1>4, <1>5, <1>6, <2>1, ConnectionChanges
<1> QED BY <1>1, <1>2, <1>6, <1>7 DEF TypeInv, TypeOK, Sane

\* A connection that starts to wait for a script has no output yet.
LEMMA PendingIsTyped ==
  ASSUME TypeInv, NEW c \in Clients, conn' = Pending(c)
  PROVE  /\ conn' \in [Clients -> ConnState]
         /\ conn'[c].out = 0
         /\ \A d \in Clients \ {c} : conn'[d] = conn[d]
<1> DEFINE k == [conn[c] EXCEPT !.rcvd = peer[c].sent, !.cgiPending = TRUE, !.out = 0]
<1>1. conn' = [conn EXCEPT ![c] = k] BY DEF Pending, TypeInv, TypeOK
<1>2. k \in ConnState /\ k.out = 0
  BY ZeroFits, FieldsAreTyped DEF ConnState, PeerState
<1> QED BY <1>1, <1>2 DEF TypeInv, TypeOK

\* execCgi adds one or two pipe ends.
LEMMA ExecCgiIsSane ==
  ASSUME NEW r, Sane(r), NEW c \in Clients, NEW b \in Fd, NEW g \in Fd
  PROVE  Sane(ExecCgi(r, c, b, g))
<1> DEFINE r1 == IF BodyOf(c) > 0
              THEN AddHandlerFd(Open(r, b, In(c)), Cgi(c), b, {"OUT"}) ELSE r
           r2 == Open(r1, g, Out(c))
           r3 == SetFlags(r2, Cgi(c), {"WANT_READ"})
<1>1. Sane(r1) BY NamesAreTyped, OpenIsSane, AddHandlerFdIsSane
<1> HIDE DEF r1
<1>2. Sane(r2) BY <1>1, NamesAreTyped, OpenIsSane
<1> HIDE DEF r2
<1>3. Sane(r3) BY <1>2, NamesAreTyped, FlagsAreSane DEF Flag
<1> HIDE DEF r3
<1>4. Sane(AddHandlerFd(r3, Cgi(c), g, {"IN"})) BY <1>3, NamesAreTyped, AddHandlerFdIsSane
<1> QED BY <1>4 DEF ExecCgi, r1, r2, r3

\* handleRead, when a script starts.
LEMMA StartCgiTyped ==
  ASSUME TypeInv, NEW e \in loop.batch, NEW c \in Clients, StartCgi(e, c)
  PROVE  TypeInv'
<1>1. PICK b \in Fd, g \in Fd :
        /\ rx' = Suspend(ExecCgi(rx, c, b, g), c)
        /\ cgi' = [cgi EXCEPT ![c] =
                     [fd |-> conn[c].fd, inFd |-> IF BodyOf(c) > 0 THEN b ELSE NoFd,
                      outFd |-> g, pid |-> TRUE, left |-> BodyOf(c)]]
  BY DEF StartCgi, Lowest, FreeFds
<1>2. Sane(rx')
  <2>1. Sane(ExecCgi(rx, c, b, g)) BY ExecCgiIsSane DEF TypeInv
  <2> QED BY <1>1, <2>1, ConnectionOpsAreSane, FieldsAreTyped
<1>3. cgi' \in [Clients -> CgiState]
  <2>1. BodyOf(c) \in 0..BodyLen BY WebservAssumption DEF BodyOf
  <2> QED BY <1>1, <2>1, FieldsAreTyped DEF CgiState, TypeInv, TypeOK
<1>4. /\ child' \in [Clients -> ChildState]
      /\ child'[c].outPipe = 0 /\ child'[c].wrote = 0
      /\ \A d \in Clients \ {c} : child'[d] = child[d]
  <2> DEFINE k == [NoChild EXCEPT !.st = "run", !.outOpen = TRUE, !.holds = OpenFiles]
  <2>1. OpenFiles \subseteq File BY DEF OpenFiles, TypeInv, TypeOK, ReactorState
  <2>2. k \in ChildState /\ k.outPipe = 0 /\ k.wrote = 0
    BY <2>1, NoRecordsAreTyped DEF ChildState, NoChild
  <2>3. child' = [child EXCEPT ![c] = k] BY DEF StartCgi
  <2> QED BY <2>2, <2>3 DEF TypeInv, TypeOK
<1>5. /\ conn' \in [Clients -> ConnState] /\ conn'[c].out = 0
      /\ \A d \in Clients \ {c} : conn'[d] = conn[d]
  BY PendingIsTyped DEF StartCgi
<1>6. PipeOK'
  <2> SUFFICES ASSUME NEW d \in Clients
               PROVE  conn'[d].out + child'[d].outPipe <= child'[d].wrote
    BY DEF PipeOK
  <2>1. CASE d = c BY <2>1, <1>4, <1>5
  <2>2. CASE d # c BY <2>2, <1>4, <1>5, FieldsAreTyped
  <2> QED BY <2>1, <2>2
<1>7. loop' \in Loop BY ProceedIsTyped DEF StartCgi
<1> QED BY <1>2, <1>3, <1>4, <1>5, <1>6, <1>7 DEF StartCgi, TypeInv, TypeOK, Sane

\* handleRead, when a script cannot start.
LEMMA CgiFailsTyped ==
  ASSUME TypeInv, NEW e \in loop.batch, NEW c \in Clients, CgiFails(e, c)
  PROVE  TypeInv'
<1>1. Sane(rx')
  BY ConnectionOpsAreSane, FieldsAreTyped DEF CgiFails, TypeInv
<1>2. /\ conn' \in [Clients -> ConnState] /\ conn'[c].out = 0
      /\ \A d \in Clients \ {c} : conn'[d] = conn[d]
  BY PendingIsTyped DEF CgiFails
<1>3. UNCHANGED <<cgi, peer, child>> BY DEF CgiFails
<1>4. PipeOK'
  <2> SUFFICES ASSUME NEW d \in Clients
               PROVE  conn'[d].out + child[d].outPipe <= child[d].wrote
    BY <1>3 DEF PipeOK
  <2> QED BY <1>2, FieldsAreTyped
<1>5. loop' \in Loop BY ProceedIsTyped DEF CgiFails
<1> QED BY <1>1, <1>2, <1>3, <1>4, <1>5 DEF TypeInv, TypeOK, Sane

\* handleWrite, when the script is over.
LEMMA HandleCgiTyped ==
  ASSUME TypeInv, NEW e \in loop.batch, NEW c \in Clients, HandleCgi(e, c)
  PROVE  TypeInv'
<1> DEFINE k == [conn[c] EXCEPT !.cgiPending = FALSE,
                   !.resp = IF conn[c].out = 0 THEN "error" ELSE "cgi"]
<1>1. Sane(rx') BY ConnectionOpsAreSane, FieldsAreTyped DEF HandleCgi, TypeInv
<1>2. conn' = [conn EXCEPT ![c] = k] BY DEF HandleCgi, TypeInv, TypeOK
<1>3. k \in ConnState /\ k.out = conn[c].out BY FieldsAreTyped DEF ConnState, Body
<1>4. UNCHANGED <<cgi, peer, child>> BY DEF HandleCgi
<1>5. conn' \in [Clients -> ConnState] /\ PipeOK'
  BY <1>2, <1>3, <1>4, ConnectionChanges
<1>6. loop' \in Loop BY ProceedIsTyped DEF HandleCgi
<1> QED BY <1>1, <1>4, <1>5, <1>6 DEF TypeInv, TypeOK, Sane

\* handleWrite, when send() takes the response.
LEMMA SendAllTyped ==
  ASSUME TypeInv, NEW e \in loop.batch, NEW c \in Clients, SendAll(e, c)
  PROVE  TypeInv'
<1> DEFINE k == [conn[c] EXCEPT !.resp = "none", !.out = 0]
<1>1. Sane(rx') BY ConnectionOpsAreSane, FieldsAreTyped DEF SendAll, TypeInv
<1>2. conn' = [conn EXCEPT ![c] = k] BY DEF SendAll, TypeInv, TypeOK
<1>3. k \in ConnState /\ k.out = 0
  BY FieldsAreTyped, ZeroFits DEF ConnState, Body
<1>4. UNCHANGED <<cgi, child>> BY DEF SendAll
<1>5. conn' \in [Clients -> ConnState] /\ PipeOK'
  BY <1>2, <1>3, <1>4, ConnectionChanges
<1>6. peer' \in [Clients -> PeerState]
  <2>1. [peer[c] EXCEPT !.reply = conn[c].resp] \in PeerState
    BY FieldsAreTyped DEF PeerState, ConnState
  <2> QED BY <2>1 DEF SendAll, TypeInv, TypeOK
<1>7. loop' \in Loop BY ProceedIsTyped DEF SendAll
<1> QED BY <1>1, <1>4, <1>5, <1>6, <1>7 DEF TypeInv, TypeOK, Sane

\* handleWrite, when send() fails.
LEMMA SendFailsTyped ==
  ASSUME TypeInv, NEW e \in loop.batch, NEW c \in Clients, SendFails(e, c)
  PROVE  TypeInv'
<1>1. Sane(rx') BY ConnectionOpsAreSane, FieldsAreTyped DEF SendFails, TypeInv
<1>2. peer' \in [Clients -> PeerState]
  <2>1. [peer[c] EXCEPT !.reply = IF peer[c].rst THEN @ ELSE "part"] \in PeerState
    BY FieldsAreTyped DEF PeerState
  <2> QED BY <2>1 DEF SendFails, TypeInv, TypeOK
<1>3. loop' \in Loop BY ProceedIsTyped DEF SendFails
<1> QED BY <1>1, <1>2, <1>3 DEF SendFails, TypeInv, TypeOK, Sane, PipeOK

\* Every method of a connection.
LEMMA ConnectionStepTyped ==
  ASSUME TypeInv, NEW e \in loop.batch, NEW c \in Clients, ConnectionStep(e, c)
  PROVE  TypeInv'
<1>1. CASE HandleWriteNothing(e, c) \/ SendKills(e, c)
  <2>1. loop' \in Loop BY <1>1, GotoIsTyped DEF HandleWriteNothing, SendKills
  <2> QED BY <1>1, <2>1 DEF HandleWriteNothing, SendKills, TypeInv, TypeOK, PipeOK
<1>2. CASE ConnectionHandleError(e, c)
  <2>1. Sane(rx')
    BY <1>2, ConnectionOpsAreSane, FieldsAreTyped DEF ConnectionHandleError, TypeInv
  <2>2. loop' \in Loop BY <1>2, ProceedIsTyped DEF ConnectionHandleError
  <2> QED BY <1>2, <2>1, <2>2 DEF ConnectionHandleError, TypeInv, TypeOK, PipeOK, Sane
<1> QED BY <1>1, <1>2, ConnectionHandleReadTyped, StartCgiTyped, CgiFailsTyped,
           HandleCgiTyped, SendAllTyped, SendFailsTyped DEF ConnectionStep

-----------------------------------------------------------------------------
(* Typing: CgiHandler.                                                     *)

\* The reactor operations a script's handler performs.
LEMMA CgiOpsAreSane ==
  ASSUME NEW r, Sane(r), NEW c \in Clients, cgi[c] \in CgiState
  PROVE  /\ Sane(Finish(r, c))
         /\ \A fd \in Fd \cup {NoFd} : Sane(Drop(r, fd))
         /\ \A fd \in Fd \cup {NoFd} :
              Sane(ClearWantWrite(CloseAll(DeleteHandler(r, fd), {fd}, Held), Cgi(c)))
<1>1. \A fd \in Fd \cup {NoFd} : Sane(CloseAll(DeleteHandler(r, fd), {fd}, Held))
  BY DeleteHandlerIsSane, CloseAllIsSane
<1>2. cgi[c].outFd \in Fd \cup {NoFd} BY DEF CgiState
<1>3. Sane(Finish(r, c))
  <2> DEFINE r1 == CloseAll(DeleteHandler(r, cgi[c].outFd), {cgi[c].outFd}, Held)
  <2>1. Sane(r1) BY <1>1, <1>2
  <2> HIDE DEF r1
  <2>2. Sane(Deactivate(r1, Cgi(c))) BY <2>1, NamesAreTyped, FlagsAreSane
  <2> QED BY <2>2, WakeUpHandlerIsSane DEF Finish, r1
<1>4. \A fd \in Fd \cup {NoFd} : Sane(Drop(r, fd)) BY <1>1 DEF Drop
<1>5. \A s : Sane(s) => Sane(ClearWantWrite(s, Cgi(c)))
  BY NamesAreTyped, FlagsAreSane
<1> QED BY <1>1, <1>3, <1>4, <1>5

\* What is collected was written, and is no longer in the pipe.
LEMMA CollectedIsTyped ==
  ASSUME TypeInv, NEW c \in Clients, NEW s \in ChildState,
         s.outPipe = 0, s.wrote = child[c].wrote,
         conn' = Collected(c), child' = [child EXCEPT ![c] = s]
  PROVE  /\ conn' \in [Clients -> ConnState] /\ child' \in [Clients -> ChildState]
         /\ PipeOK'
<1>1. child' \in [Clients -> ChildState] /\ child'[c] = s
      /\ \A d \in Clients \ {c} : child'[d] = child[d]
  BY DEF TypeInv, TypeOK
<1> DEFINE n == conn[c].out + child[c].outPipe
           k == [conn[c] EXCEPT !.out = n]
<1>2. n \in 0..OutLen /\ n <= child[c].wrote
  BY FieldsAreTyped, WebservAssumption
<1> HIDE DEF n
<1>3. k \in ConnState /\ k.out = n BY <1>2, FieldsAreTyped DEF ConnState
<1>4. conn' = conn \/ conn' = [conn EXCEPT ![c] = k]
  BY DEF Collected, n, TypeInv, TypeOK
<1>5. conn' \in [Clients -> ConnState] BY <1>3, <1>4 DEF TypeInv, TypeOK
<1> SUFFICES ASSUME NEW d \in Clients
             PROVE  conn'[d].out + child'[d].outPipe <= child'[d].wrote
  BY <1>1, <1>5 DEF PipeOK
<1>6. CASE d = c
  <2>1. conn'[c].out = conn[c].out \/ conn'[c].out = n
    BY <1>3, <1>4 DEF TypeInv, TypeOK
  <2>2. conn[c].out <= child[c].wrote BY FieldsAreTyped
  <2>3. n \in Nat /\ child[c].wrote \in Nat BY <1>2, FieldsAreTyped, WebservAssumption
  <2> QED BY <1>1, <1>2, <1>6, <2>1, <2>2, <2>3, FieldsAreTyped
<1>7. CASE d # c
  <2>1. conn'[d] = conn[d] BY <1>4, <1>7 DEF TypeInv, TypeOK
  <2> QED BY <1>1, <1>7, <2>1, FieldsAreTyped
<1> QED BY <1>6, <1>7

\* A script's record with its output drained, and reaped, is one.
LEMMA DrainedIsTyped ==
  ASSUME NEW s \in ChildState
  PROVE  /\ Drained(s) \in ChildState /\ Drained(s).outPipe = 0
         /\ Drained(s).wrote = s.wrote
         /\ WaitPid(s) \in ChildState /\ WaitPid(s).outPipe = s.outPipe
         /\ WaitPid(s).wrote = s.wrote
BY ZeroFits DEF Drained, WaitPid, ChildState

\* handleRead of a script, to EAGAIN or to the end of its output.
LEMMA CgiReadTyped ==
  ASSUME TypeInv, NEW e \in loop.batch, NEW c \in Clients,
         CgiHandleRead(e, c) \/ CgiHandleEof(e, c)
  PROVE  TypeInv'
<1> DEFINE s == Drained(child[c])
<1>1. s \in ChildState /\ s.outPipe = 0 /\ s.wrote = child[c].wrote
  BY DrainedIsTyped, FieldsAreTyped
<1> HIDE DEF s
<1>2. CASE CgiHandleRead(e, c)
  <2>1. conn' = Collected(c) /\ child' = [child EXCEPT ![c] = s]
    BY <1>2 DEF CgiHandleRead, TypeInv, TypeOK, s
  <2>2. loop' \in Loop BY <1>2, GotoIsTyped DEF CgiHandleRead
  <2>3. UNCHANGED <<rx, cgi, peer>> BY <1>2 DEF CgiHandleRead
  <2> QED BY <1>1, <2>1, <2>2, <2>3, CollectedIsTyped DEF TypeInv, TypeOK
<1>3. CASE CgiHandleEof(e, c)
  <2> DEFINE t == WaitPid(s)
  <2>1. t \in ChildState /\ t.outPipe = 0 /\ t.wrote = child[c].wrote
    BY <1>1, DrainedIsTyped
  <2>2. conn' = Collected(c) /\ child' = [child EXCEPT ![c] = t]
    BY <1>3 DEF CgiHandleEof, TypeInv, TypeOK, s
  <2>3. loop' \in Loop BY <1>3, ProceedIsTyped DEF CgiHandleEof
  <2>4. Sane(rx') BY <1>3, CgiOpsAreSane, FieldsAreTyped DEF CgiHandleEof, TypeInv
  <2>5. cgi' \in [Clients -> CgiState]
    <3>1. [cgi[c] EXCEPT !.outFd = NoFd, !.pid = FALSE] \in CgiState
      BY FieldsAreTyped DEF CgiState
    <3>2. cgi' = [cgi EXCEPT ![c] = [cgi[c] EXCEPT !.outFd = NoFd, !.pid = FALSE]]
      BY <1>3 DEF CgiHandleEof, TypeInv, TypeOK
    <3> QED BY <3>1, <3>2 DEF TypeInv, TypeOK
  <2>6. peer' = peer BY <1>3 DEF CgiHandleEof
  <2> HIDE DEF t
  <2> QED BY <2>1, <2>2, <2>3, <2>4, <2>5, <2>6, CollectedIsTyped
          DEF TypeInv, TypeOK, Sane
<1> QED BY <1>2, <1>3

\* handleWrite of a script.
LEMMA CgiHandleWriteTyped ==
  ASSUME TypeInv, NEW e \in loop.batch, NEW c \in Clients, CgiHandleWrite(e, c)
  PROVE  TypeInv'
<1> DEFINE room == PipeCap - child[c].inPipe
           n    == IF cgi[c].left < room THEN cgi[c].left ELSE room
           s    == [child[c] EXCEPT !.inPipe = @ + n]
<1>1. child[c].inPipe \in 0..PipeCap /\ cgi[c].left \in 0..BodyLen
  BY FieldsAreTyped DEF ChildState, CgiState
<1>2. /\ n \in Nat /\ child[c].inPipe + n \in 0..PipeCap
      /\ n < cgi[c].left => cgi[c].left - n \in 0..BodyLen
  BY <1>1, WebservAssumption
<1>3. /\ child' = [child EXCEPT ![c] = s]
      /\ \/ cgi' = [cgi EXCEPT ![c] = [cgi[c] EXCEPT !.left = @ - n]]
            /\ n < cgi[c].left /\ rx' = rx
         \/ /\ cgi' = [cgi EXCEPT ![c] = [cgi[c] EXCEPT !.left = 0, !.inFd = NoFd]]
            /\ rx' = ClearWantWrite(CloseAll(DeleteHandler(rx, cgi[c].inFd),
                                             {cgi[c].inFd}, Held), Cgi(c))
  BY DEF CgiHandleWrite, TypeInv, TypeOK
<1> HIDE DEF n
<1>4. s \in ChildState /\ s.outPipe = child[c].outPipe /\ s.wrote = child[c].wrote
  BY <1>2, FieldsAreTyped DEF ChildState
<1>5. cgi' \in [Clients -> CgiState]
  <2>1. n < cgi[c].left => [cgi[c] EXCEPT !.left = @ - n] \in CgiState
    BY <1>2, FieldsAreTyped DEF CgiState
  <2>2. [cgi[c] EXCEPT !.left = 0, !.inFd = NoFd] \in CgiState
    BY ZeroFits, FieldsAreTyped DEF CgiState
  <2> QED BY <1>3, <2>1, <2>2 DEF TypeInv, TypeOK
<1>6. Sane(rx') BY <1>3, CgiOpsAreSane, FieldsAreTyped DEF TypeInv
<1> HIDE DEF s
<1>7. child' \in [Clients -> ChildState]
      /\ \A d \in Clients : /\ child'[d].outPipe = child[d].outPipe
                            /\ child'[d].wrote = child[d].wrote
  BY <1>3, <1>4 DEF TypeInv, TypeOK
<1>8. UNCHANGED <<conn, peer>> BY DEF CgiHandleWrite
<1>9. PipeOK' BY <1>7, <1>8 DEF TypeInv, PipeOK
<1>10. loop' \in Loop BY ProceedIsTyped DEF CgiHandleWrite
<1> QED BY <1>5, <1>6, <1>7, <1>8, <1>9, <1>10 DEF TypeInv, TypeOK, Sane

\* handleError of a script.
LEMMA CgiHandleErrorTyped ==
  ASSUME TypeInv, NEW e \in loop.batch, NEW c \in Clients, CgiHandleError(e, c)
  PROVE  TypeInv'
<1>1. Sane(rx')
  <2> DEFINE r1 == Drop(rx, cgi[c].inFd)
             r2 == Drop(r1, cgi[c].outFd)
  <2>1. Sane(r1) BY CgiOpsAreSane, FieldsAreTyped DEF TypeInv
  <2> HIDE DEF r1
  <2>2. Sane(r2) BY <2>1, CgiOpsAreSane, FieldsAreTyped
  <2> HIDE DEF r2
  <2>3. Sane(WakeUpHandler(Deactivate(r2, Cgi(c)), cgi[c].fd))
    BY <2>2, NamesAreTyped, FlagsAreSane, WakeUpHandlerIsSane
  <2> QED BY <2>3 DEF CgiHandleError, r1, r2
<1> DEFINE k == [conn[c] EXCEPT !.out = 0]
           g == [cgi[c] EXCEPT !.inFd = NoFd, !.outFd = NoFd]
<1>2. k \in ConnState /\ k.out = 0 BY FieldsAreTyped, ZeroFits DEF ConnState
<1>3. conn' = [conn EXCEPT ![c] = k] \/ conn' = [conn EXCEPT ![c] = conn[c]]
  BY DEF CgiHandleError, TypeInv, TypeOK
<1>4. UNCHANGED <<peer, child>> BY DEF CgiHandleError
<1>5. conn' \in [Clients -> ConnState] /\ PipeOK'
  <2> HIDE DEF k
  <2> QED BY <1>2, <1>3, <1>4, ConnectionChanges, FieldsAreTyped
<1>6. cgi' \in [Clients -> CgiState]
  <2>1. g \in CgiState BY FieldsAreTyped DEF CgiState
  <2>2. cgi' = [cgi EXCEPT ![c] = g] BY DEF CgiHandleError, TypeInv, TypeOK
  <2> QED BY <2>1, <2>2 DEF TypeInv, TypeOK
<1>7. loop' \in Loop BY ProceedIsTyped DEF CgiHandleError
<1> QED BY <1>1, <1>4, <1>5, <1>6, <1>7 DEF TypeInv, TypeOK, Sane

\* Every method of a script's handler.
LEMMA CgiStepTyped ==
  ASSUME TypeInv, NEW e \in loop.batch, NEW c \in Clients, CgiStep(e, c)
  PROVE  TypeInv'
<1>1. CASE AppendToFreed(e, c) \/ CgiWriteKills(e, c)
  <2>1. loop' \in Loop BY <1>1, GotoIsTyped DEF AppendToFreed, CgiWriteKills
  <2> QED BY <1>1, <2>1 DEF AppendToFreed, CgiWriteKills, TypeInv, TypeOK, PipeOK
<1> QED BY <1>1, CgiReadTyped, CgiHandleWriteTyped, CgiHandleErrorTyped DEF CgiStep

-----------------------------------------------------------------------------
(* Typing: the end of a turn, and of the program.                          *)

\* Destructors leave fresh records behind.
LEMMA DestroyTyped ==
  ASSUME TypeInv, NEW r, Sane(r), NEW hs, Destroy(r, hs), loop' \in Loop
  PROVE  TypeInv'
<1>1. Sane(rx') BY CloseAllIsSane DEF Destroy
<1>2. conn' \in [Clients -> ConnState] /\ cgi' \in [Clients -> CgiState]
  BY NoRecordsAreTyped DEF Destroy, TypeInv, TypeOK
<1>3. peer' \in [Clients -> PeerState]
  <2>1. \A c \in Clients : [peer[c] EXCEPT !.st = "closed"] \in PeerState
    BY FieldsAreTyped DEF PeerState
  <2> QED BY <2>1, FieldsAreTyped DEF Destroy
<1>4. /\ child' \in [Clients -> ChildState]
      /\ \A c \in Clients : /\ child'[c].outPipe = child[c].outPipe
                            /\ child'[c].wrote = child[c].wrote
  <2>1. \A c \in Clients :
          LET k == [child[c] EXCEPT !.st = "killed"] IN
          k \in ChildState /\ k.outPipe = child[c].outPipe /\ k.wrote = child[c].wrote
    BY FieldsAreTyped DEF ChildState
  <2>2. \A c \in Clients :
          LET k == WaitPid(child[c]) IN
          k \in ChildState /\ k.outPipe = child[c].outPipe /\ k.wrote = child[c].wrote
    BY FieldsAreTyped, DrainedIsTyped
  <2>3. \A c \in Clients : child[c] \in ChildState BY FieldsAreTyped
  <2> QED BY <2>1, <2>2, <2>3 DEF Destroy
<1>5. PipeOK'
  <2> SUFFICES ASSUME NEW c \in Clients
               PROVE  conn'[c].out + child'[c].outPipe <= child'[c].wrote
    BY DEF PipeOK
  <2>1. conn'[c].out = conn[c].out \/ conn'[c].out = 0 BY DEF Destroy, NoConn
  <2> QED BY <1>4, <2>1, FieldsAreTyped
<1> QED BY <1>1, <1>2, <1>3, <1>4, <1>5 DEF TypeInv, TypeOK, Sane

\* removeDeactivatedHandler at the end of a turn.
LEMMA SweepTyped == ASSUME TypeInv, Sweep PROVE TypeInv'
<1>1. Sane(RemoveDeactivated(rx)) BY RemoveDeactivatedIsSane DEF TypeInv
<1>2. loop' \in Loop BY DEF Sweep, TypeInv, TypeOK, Loop
<1> QED BY <1>1, <1>2, DestroyTyped DEF Sweep

\* The destructors at the end of main().
LEMMA ShutdownTyped == ASSUME TypeInv, Shutdown PROVE TypeInv'
<1>1. Sane(Teardown(rx))
  <2> DEFINE r1 == Forget(rx, File)
  <2>1. Sane(r1) BY ForgetIsSane DEF TypeInv
  <2> HIDE DEF r1
  <2>2. Sane([r1 EXCEPT !.handlers = {}, !.tab[ListenFd] = NoFile,
                        !.fdMap = [fd \in Fd |-> NoHandler]])
    BY <2>1 DEF Sane, ReactorState
  <2> QED BY <2>2 DEF Teardown, r1
<1>2. loop' \in Loop BY DEF Shutdown, TypeInv, TypeOK, Loop
<1> QED BY <1>1, <1>2, DestroyTyped DEF Shutdown

\* Ctrl-C.
LEMMA SigintTyped == ASSUME TypeInv, Sigint PROVE TypeInv'
<1>1. loop' \in Loop BY DEF Sigint, TypeInv, TypeOK, Loop
<1> QED BY <1>1 DEF Sigint, TypeInv, TypeOK, PipeOK

\* Every step of the server.
LEMMA ServerTyped == ASSUME TypeInv, Server PROVE TypeInv'
<1>1. CASE \E e \in loop.batch : Dispatch(e)
  <2>1. PICK e \in loop.batch : Dispatch(e) BY <1>1
  <2> QED BY <2>1, SkipInactiveTyped, AcceptorTyped, ConnectionStepTyped, CgiStepTyped
          DEF Dispatch
<1> QED BY <1>1, EpollWaitTyped, SweepTyped, ShutdownTyped, AcceptTyped,
           AcceptEndsTyped DEF Server

-----------------------------------------------------------------------------
(* Typing: clients and scripts.                                            *)

\* Every step of a client.
LEMMA ClientTyped ==
  ASSUME TypeInv, NEW c \in Clients, Client(c)
  PROVE  TypeInv'
<1>1. Sane(rx')
  <2>1. {"IN"} \in SUBSET Bit /\ Bit \in SUBSET Bit BY DEF Bit
  <2> QED BY <2>1, NamesAreTyped, NamesAreDistinct, WakeIsSane
          DEF Client, Connect, Send, Fin, Reset, TypeInv
<1>2. PICK k \in PeerState : peer' = [peer EXCEPT ![c] = k]
  <2>1. [peer[c] EXCEPT !.st = "queued"] \in PeerState
    BY FieldsAreTyped DEF PeerState
  <2>2. \A n \in Amount : [peer[c] EXCEPT !.sent = n] \in PeerState
    BY FieldsAreTyped DEF PeerState
  <2>3. [peer[c] EXCEPT !.fin = TRUE] \in PeerState
    BY FieldsAreTyped DEF PeerState
  <2>4. [peer[c] EXCEPT !.rst = TRUE] \in PeerState
    BY FieldsAreTyped DEF PeerState
  <2> QED BY <2>1, <2>2, <2>3, <2>4
          DEF Client, Connect, Send, Fin, Reset, TypeInv, TypeOK
<1>3. UNCHANGED <<loop, conn, cgi, child>>
  BY DEF Client, Connect, Send, Fin, Reset
<1> QED BY <1>1, <1>2, <1>3 DEF TypeInv, TypeOK, PipeOK, Sane

\* Every step of a script; what it writes is counted as written.
LEMMA ScriptTyped ==
  ASSUME TypeInv, NEW c \in Clients, Script(c)
  PROVE  TypeInv'
<1>1. UNCHANGED <<loop, conn, cgi, peer>>
  BY DEF Script, ChildRead, ChildWrite, ChildCloseOut, ChildExit
<1>2. Sane(rx')
  <2>1. {{"OUT"}, {"IN"}, {"IN", "HUP"}, {"OUT", "ERR"}} \subseteq SUBSET Bit BY DEF Bit
  <2>2. CASE ChildRead(c) \/ ChildWrite(c) \/ ChildCloseOut(c)
    BY <2>1, <2>2, NamesAreTyped, WakeIsSane
       DEF ChildRead, ChildWrite, ChildCloseOut, TypeInv
  <2>3. CASE ChildExit(c)
    <3>1. PICK fs : rx' = Wake(Wake(Forget(rx, fs), In(c), {"OUT", "ERR"}),
                               Out(c), {"IN", "HUP"})
      BY <2>3 DEF ChildExit
    <3>2. Sane(Forget(rx, fs)) BY ForgetIsSane DEF TypeInv
    <3>3. Sane(Wake(Forget(rx, fs), In(c), {"OUT", "ERR"}))
      BY <2>1, <3>2, NamesAreTyped, WakeIsSane
    <3> QED BY <2>1, <3>1, <3>3, NamesAreTyped, WakeIsSane
  <2> QED BY <2>2, <2>3 DEF Script
<1>3. PICK k \in ChildState :
        /\ child' = [child EXCEPT ![c] = k]
        /\ conn[c].out + k.outPipe <= k.wrote
  <2>1. /\ child[c].inPipe \in 0..PipeCap /\ child[c].outPipe \in 0..OutLen
        /\ child[c].wrote \in 0..OutLen /\ conn[c].out \in 0..OutLen
        /\ conn[c].out + child[c].outPipe <= child[c].wrote
    BY FieldsAreTyped DEF ChildState, ConnState
  <2>2. CASE ChildRead(c)
    <3>1. child[c].inPipe - 1 \in 0..PipeCap
      BY <2>1, <2>2, WebservAssumption DEF ChildRead
    <3>2. [child[c] EXCEPT !.inPipe = @ - 1] \in ChildState
      BY <3>1, FieldsAreTyped DEF ChildState
    <3>3. child' = [child EXCEPT ![c] = [child[c] EXCEPT !.inPipe = @ - 1]]
      BY <2>2 DEF ChildRead, TypeInv, TypeOK
    <3> QED BY <2>1, <3>2, <3>3 DEF ChildState
  <2>3. CASE ChildWrite(c)
    <3> DEFINE o == child[c].outPipe + 1
               w == child[c].wrote + 1
    <3>1. o \in 0..OutLen /\ w \in 0..OutLen /\ conn[c].out + o <= w
      BY <2>1, <2>3, WebservAssumption DEF ChildWrite
    <3>2. child' = [child EXCEPT ![c] = [child[c] EXCEPT !.wrote = w, !.outPipe = o]]
      BY <2>3 DEF ChildWrite, TypeInv, TypeOK
    <3> HIDE DEF o, w
    <3>3. [child[c] EXCEPT !.wrote = w, !.outPipe = o] \in ChildState
      BY <3>1, FieldsAreTyped DEF ChildState
    <3> QED BY <3>1, <3>2, <3>3 DEF ChildState
  <2>4. CASE ChildCloseOut(c)
    <3>1. [child[c] EXCEPT !.outOpen = FALSE] \in ChildState
      BY FieldsAreTyped DEF ChildState
    <3>2. child' = [child EXCEPT ![c] = [child[c] EXCEPT !.outOpen = FALSE]]
      BY <2>4 DEF ChildCloseOut, TypeInv, TypeOK
    <3> QED BY <2>1, <3>1, <3>2 DEF ChildState
  <2>5. CASE ChildExit(c)
    <3> DEFINE k == [child[c] EXCEPT !.st = "zombie", !.outOpen = FALSE,
                                     !.inPipe = 0, !.holds = {}]
    <3>1. k \in ChildState /\ k.outPipe = child[c].outPipe /\ k.wrote = child[c].wrote
      BY ZeroFits, FieldsAreTyped DEF ChildState
    <3>2. child' = [child EXCEPT ![c] = k]
      BY <2>5 DEF ChildExit, TypeInv, TypeOK
    <3> QED BY <2>1, <3>1, <3>2
  <2> QED BY <2>2, <2>3, <2>4, <2>5 DEF Script
<1>4. child' \in [Clients -> ChildState] /\ child'[c] = k
      /\ \A d \in Clients \ {c} : child'[d] = child[d]
  BY <1>3 DEF TypeInv, TypeOK
<1>5. PipeOK'
  <2> SUFFICES ASSUME NEW d \in Clients
               PROVE  conn[d].out + child'[d].outPipe <= child'[d].wrote
    BY <1>1 DEF PipeOK
  <2> QED BY <1>3, <1>4 DEF TypeInv, PipeOK
<1> QED BY <1>1, <1>2, <1>4, <1>5 DEF TypeInv, TypeOK, Sane

-----------------------------------------------------------------------------

\* TypeInv is inductive.
LEMMA NextTypeInv == TypeInv /\ [Next]_vars => TypeInv'
<1> SUFFICES ASSUME TypeInv, [Next]_vars PROVE TypeInv' OBVIOUS
<1>1. CASE UNCHANGED vars
  BY <1>1 DEF vars, TypeInv, TypeOK, PipeOK
<1> QED BY <1>1, ServerTyped, ClientTyped, ScriptTyped, SigintTyped DEF Next

\* Every reachable state of the server is of its type, and no output of a script
\* is counted twice on its way to the connection.
THEOREM Typing == Spec => []TypeInv
BY InitTypeInv, NextTypeInv, PTL DEF Spec

\* The type invariant of Webserv, for any clients, pipes, and descriptor limit.
THEOREM TypeCorrect == Spec => []TypeOK
<1>1. TypeInv => TypeOK BY DEF TypeInv
<1> QED BY <1>1, Typing, PTL

-----------------------------------------------------------------------------
(* The events that are left.                                               *)

\* What is left after e concerns handlers the batch concerned; a script's event is
\* one of the batch, and not e again.
LEMMA RestIsOld ==
  ASSUME TypeInv, BatchInv, NEW e \in loop.batch, NEW d \in Rest(e)
  PROVE  /\ \E b \in loop.batch : b.h = d.h
         /\ \A c \in Clients : d.h = Cgi(c) => d \in loop.batch \ {e}
<1>1. CASE d \in loop.batch \ {e} BY <1>1
<1>2. CASE d \notin loop.batch \ {e}
  <2>1. IsRead(e) /\ "OUT" \in e.ev /\ d = [e EXCEPT !.ev = {"OUT"}]
    BY <1>2 DEF Rest
  <2>2. d.h = e.h BY <2>1, EventsAreTyped DEF Event
  <2>3. \A c \in Clients : e.h # Cgi(c) BY <2>1 DEF BatchInv, IsRead
  <2> QED BY <2>2, <2>3
<1> QED BY <1>1, <1>2

-----------------------------------------------------------------------------
(* Handler methods.                                                        *)

\* After a handler method that did not throw the loop goes on.
LEMMA ProceedGoesOn ==
  ASSUME TypeInv, NEW e \in loop.batch, Proceed(e), ~rx'.failed
  PROVE  loop'.batch = Rest(e) /\ loop'.pc = "dispatch"
BY DEF Proceed, Goto, TypeInv, TypeOK, Loop

\* A step of the loop that takes event e and adds or deletes no handler.
LEMMA HandlerStepSafe ==
  ASSUME TypeInv, TypeInv', SafeInv, NEW e \in loop.batch,
         loop'.batch = Rest(e), loop'.pc \in {"dispatch", "accept", "killed"},
         Wired(rx', conn', cgi'), ListenWired(rx'), rx'.handlers = rx.handlers,
         \A c \in Clients :
           /\ conn'[c].rcvd \in {conn[c].rcvd, peer[c].sent}
           /\ peer'[c].st = peer[c].st /\ peer'[c].sent = peer[c].sent
           /\ child'[c].st = "none" <=> child[c].st = "none"
           /\ rx'.flags[Conn(c)] = rx.flags[Conn(c)] \/ Conn(c) \in rx.handlers
           /\ "INACTIVE" \in rx.flags[Cgi(c)] => "INACTIVE" \in rx'.flags[Cgi(c)]
           /\ "INACTIVE" \in rx'.flags[Cgi(c)] =>
                "INACTIVE" \in rx.flags[Cgi(c)] \/ Cgi(c) \in rx.handlers
           /\ rx'.ptr[In(c)] \in {rx.ptr[In(c)], NoHandler}
           /\ cgi'[c].inFd = NoFd => \/ cgi[c].inFd = NoFd
                                     \/ "INACTIVE" \in rx'.flags[Cgi(c)]
                                     \/ e.h = Cgi(c) /\ "OUT" \in e.ev
  PROVE  SafeInv'
<1>1. BatchInv /\ \A c \in Clients : Fresh(c) BY DEF SafeInv
<1>2. \A d \in loop'.batch : \E b \in loop.batch : b.h = d.h BY <1>1, RestIsOld
<1>3. ASSUME NEW c \in Clients PROVE Fresh(c)'
  <2>1. Fresh(c) BY <1>1
  <2>2. conn[c].rcvd \in Amount /\ peer[c].sent \in Amount
    BY FieldsAreTyped DEF ConnState, PeerState
  <2>3. Conn(c) \in rx'.handlers =>
          /\ peer'[c].st = "up" /\ conn[c].rcvd <= conn'[c].rcvd
          /\ conn'[c].rcvd <= peer'[c].sent
    BY <2>1, <2>2 DEF Fresh, Amount
  <2>4. peer'[c].st \in {"idle", "queued"} =>
          rx'.flags[Conn(c)] = {"WANT_READ"} /\ child'[c].st = "none"
    BY <2>1 DEF Fresh
  <2>5. Conn(c) \in rx'.handlers /\ conn'[c].rcvd < 2 => child'[c].st = "none"
    <3>1. conn'[c].rcvd \in Amount BY <2>2
    <3>2. conn[c].rcvd <= conn'[c].rcvd /\ conn'[c].rcvd < 2 => conn[c].rcvd < 2
      BY <2>2, <3>1 DEF Amount
    <3> QED BY <2>1, <2>3, <3>2 DEF Fresh
  <2>6. child'[c].st = "none" =>
          /\ Cgi(c) \notin rx'.handlers /\ "INACTIVE" \notin rx'.flags[Cgi(c)]
          /\ rx'.ptr[In(c)] = NoHandler /\ \A d \in loop'.batch : d.h # Cgi(c)
    BY <1>2, <2>1 DEF Fresh
  <2> QED BY <2>3, <2>4, <2>5, <2>6 DEF Fresh
<1>4. BatchInv'
  <2> SUFFICES ASSUME NEW c \in Clients, NEW d \in loop'.batch
               PROVE  /\ d.h = Conn(c) => Conn(c) \in rx'.handlers
                      /\ d.h = Cgi(c) /\ "OUT" \in d.ev =>
                           /\ d.ev \cap {"IN", "HUP"} = {}
                           /\ Active(Cgi(c))' => cgi'[c].inFd # NoFd
                           /\ \A k \in loop'.batch : k.h = Cgi(c) /\ "OUT" \in k.ev => k = d
    BY DEF BatchInv
  <2>1. d.h = Conn(c) => Conn(c) \in rx'.handlers BY <1>1, <1>2 DEF BatchInv
  <2>2. ASSUME d.h = Cgi(c), "OUT" \in d.ev
        PROVE  /\ d.ev \cap {"IN", "HUP"} = {}
               /\ Active(Cgi(c))' => cgi'[c].inFd # NoFd
               /\ \A k \in loop'.batch : k.h = Cgi(c) /\ "OUT" \in k.ev => k = d
    <3>1. d \in loop.batch /\ d # e BY <1>1, <2>2, RestIsOld
    <3>2. d.ev \cap {"IN", "HUP"} = {} BY <1>1, <2>2, <3>1 DEF BatchInv
    <3>3. ~(e.h = Cgi(c) /\ "OUT" \in e.ev) BY <1>1, <2>2, <3>1 DEF BatchInv
    <3>4. Active(Cgi(c)) => cgi[c].inFd # NoFd BY <1>1, <2>2, <3>1 DEF BatchInv
    <3>5. Active(Cgi(c))' => cgi'[c].inFd # NoFd
      BY <3>3, <3>4 DEF Active, IsInactive
    <3>6. \A k \in loop'.batch : k.h = Cgi(c) /\ "OUT" \in k.ev => k = d
      BY <1>1, <2>2, <3>1, RestIsOld DEF BatchInv
    <3> QED BY <3>2, <3>5, <3>6
  <2> QED BY <2>1, <2>2
<1>5. EndInv' BY DEF EndInv
<1> QED BY <1>3, <1>4, <1>5 DEF SafeInv

\* While there are events the acceptor is there.
LEMMA BatchMeansListening ==
  ASSUME SafeInv, NEW e \in loop.batch
  PROVE  Wired(rx, conn, cgi) /\ ListenWired(rx)
BY DEF SafeInv, EndInv, BatchInv

\* A step that touches neither the reactor nor the handlers' descriptors.
LEMMA QuietStepSafe ==
  ASSUME TypeInv, TypeInv', SafeInv, NEW e \in loop.batch,
         loop'.batch = Rest(e), loop'.pc \in {"dispatch", "accept", "killed"},
         rx' = rx,
         \A c \in Clients :
           /\ conn'[c].rcvd \in {conn[c].rcvd, peer[c].sent} /\ conn'[c].fd = conn[c].fd
           /\ cgi'[c].inFd = cgi[c].inFd /\ cgi'[c].outFd = cgi[c].outFd
           /\ peer'[c].st = peer[c].st /\ peer'[c].sent = peer[c].sent
           /\ child'[c].st = "none" <=> child[c].st = "none"
  PROVE  SafeInv'
<1>1. Wired(rx, conn, cgi) /\ ListenWired(rx) BY BatchMeansListening
<1>2. Wired(rx', conn', cgi') BY <1>1, WiredByDescriptors
<1> QED BY <1>1, <1>2, HandlerStepSafe

\* A connection changes its flags, and epoll is armed accordingly.
LEMMA RearmedStepSafe ==
  ASSUME TypeInv, TypeInv', SafeInv, NEW e \in loop.batch, NEW c \in Clients,
         Lives(rx, Conn(c)), NEW fl \in SUBSET Flag, "INACTIVE" \notin fl,
         Rearmed(rx, rx', Conn(c), Sock(c), fl), Proceed(e),
         UNCHANGED <<cgi, peer, child>>,
         \A d \in Clients : /\ conn'[d].fd = conn[d].fd
                            /\ conn'[d].rcvd \in {conn[d].rcvd, peer[d].sent}
  PROVE  SafeInv'
<1>1. Wired(rx, conn, cgi) /\ ListenWired(rx) /\ Sane(rx)
  BY BatchMeansListening DEF TypeInv
<1>2. Wired(rx', conn, cgi) /\ ListenWired(rx') BY <1>1, ConnectionStaysWired
<1>3. Wired(rx', conn', cgi') BY <1>2, WiredByDescriptors
<1>4. loop'.batch = Rest(e) /\ loop'.pc = "dispatch" BY <1>2, ProceedGoesOn DEF Wired
<1>5. rx'.handlers = rx.handlers BY DEF Rearmed
<1>6. ASSUME NEW d \in Clients
      PROVE  /\ rx'.flags[Conn(d)] = rx.flags[Conn(d)] \/ Conn(d) \in rx.handlers
             /\ rx'.flags[Cgi(d)] = rx.flags[Cgi(d)] /\ rx'.ptr[In(d)] = rx.ptr[In(d)]
  BY NamesAreTyped, NamesDiffer DEF Rearmed, Lives
<1> QED BY <1>2, <1>3, <1>4, <1>5, <1>6, HandlerStepSafe

\* A connection is given up.
LEMMA GivenUpStepSafe ==
  ASSUME TypeInv, TypeInv', SafeInv, NEW e \in loop.batch, NEW c \in Clients,
         Lives(rx, Conn(c)), GivenUp(rx, rx', Conn(c), conn[c].fd, Sock(c)), Proceed(e),
         UNCHANGED <<cgi, child>>,
         \A d \in Clients :
           /\ conn'[d].fd = conn[d].fd /\ conn'[d].rcvd = conn[d].rcvd
           /\ peer'[d].st = peer[d].st /\ peer'[d].sent = peer[d].sent
  PROVE  SafeInv'
<1>1. Wired(rx, conn, cgi) /\ ListenWired(rx) /\ Sane(rx)
  BY BatchMeansListening DEF TypeInv
<1>2. Wired(rx', conn, cgi) /\ ListenWired(rx') BY <1>1, GivenUpIsWired
<1>3. Wired(rx', conn', cgi') BY <1>2, WiredByDescriptors
<1>4. loop'.batch = Rest(e) /\ loop'.pc = "dispatch" BY <1>2, ProceedGoesOn DEF Wired
<1>5. rx'.handlers = rx.handlers BY DEF GivenUp
<1>6. ASSUME NEW d \in Clients
      PROVE  /\ rx'.flags[Conn(d)] = rx.flags[Conn(d)] \/ Conn(d) \in rx.handlers
             /\ rx'.flags[Cgi(d)] = rx.flags[Cgi(d)] /\ rx'.ptr[In(d)] = rx.ptr[In(d)]
  BY NamesAreTyped, NamesDiffer DEF GivenUp, Lives
<1> QED BY <1>2, <1>3, <1>4, <1>5, <1>6, HandlerStepSafe

-----------------------------------------------------------------------------
(* ConnectionHandler.                                                      *)

\* What a method of a connection can rely on.
LEMMA ConnectionIsThere ==
  ASSUME TypeInv, SafeInv, NEW e \in loop.batch, NEW h, Takes(e, h)
  PROVE  /\ Wired(rx, conn, cgi) /\ ListenWired(rx) /\ Sane(rx) /\ Lives(rx, h)
         /\ \A c \in Clients : ConnWired(rx, c, conn[c].fd)
         /\ \A c \in Clients : CgiWired(rx, c, cgi[c].inFd, cgi[c].outFd)
BY BatchMeansListening DEF TypeInv, Takes, Lives, Wired

\* What handleRead makes of conn when no script is asked for.
LEMMA ReadKeepsDescriptors ==
  ASSUME TypeInv, NEW e, NEW c \in Clients, ConnectionHandleRead(e, c)
  PROVE  \A d \in Clients : /\ conn'[d].fd = conn[d].fd
                            /\ conn'[d].rcvd \in {conn[d].rcvd, peer[d].sent}
<1> DEFINE k0   == [conn[c] EXCEPT !.rcvd = peer[c].sent]
           k(b) == [k0 EXCEPT !.resp = b]
<1>1. \/ conn' = [conn EXCEPT ![c] = k0]
      \/ conn' = [conn EXCEPT ![c] = k("error")]
      \/ conn' = [conn EXCEPT ![c] = k("page")]
  BY DEF ConnectionHandleRead
<1>2. k0.fd = conn[c].fd /\ k0.rcvd = peer[c].sent /\ k0 \in ConnState
  BY FieldsAreTyped DEF ConnState, PeerState
<1> HIDE DEF k0
<1>3. \A b : k(b).fd = conn[c].fd /\ k(b).rcvd = peer[c].sent BY <1>2 DEF ConnState
<1> HIDE DEF k
<1> QED BY <1>1, <1>2, <1>3 DEF TypeInv, TypeOK

\* handleRead, when no script is asked for.
LEMMA ConnectionHandleReadSafe ==
  ASSUME TypeInv, TypeInv', SafeInv, NEW e \in loop.batch, NEW c \in Clients,
         ConnectionHandleRead(e, c)
  PROVE  SafeInv'
<1>1. Takes(e, Conn(c)) /\ Proceed(e) /\ UNCHANGED <<cgi, peer, child>>
  BY DEF ConnectionHandleRead
<1>2. /\ Wired(rx, conn, cgi) /\ ListenWired(rx) /\ Sane(rx) /\ Lives(rx, Conn(c))
      /\ ConnWired(rx, c, conn[c].fd)
  BY <1>1, ConnectionIsThere
<1>3. \A d \in Clients : /\ conn'[d].fd = conn[d].fd
                         /\ conn'[d].rcvd \in {conn[d].rcvd, peer[d].sent}
  BY ReadKeepsDescriptors
<1>4. CASE rx' = rx
  <2>1. ~rx'.failed BY <1>2, <1>4 DEF Wired
  <2>2. loop'.batch = Rest(e) /\ loop'.pc = "dispatch" BY <1>1, <2>1, ProceedGoesOn
  <2> QED BY <1>1, <1>3, <1>4, <2>2, QuietStepSafe
<1>5. CASE rx' = Respond(rx, c)
  <2>1. Rearmed(rx, rx', Conn(c), Sock(c), {"WANT_WRITE"})
    BY <1>2, <1>5, ConnectionIsRearmed
  <2>2. {"WANT_WRITE"} \in SUBSET Flag BY DEF Flag
  <2> QED BY <1>1, <1>2, <1>3, <2>1, <2>2, RearmedStepSafe
<1> QED BY <1>4, <1>5 DEF ConnectionHandleRead

\* The connection starts to wait for its script: it has the whole request.
LEMMA PendingKeepsDescriptors ==
  ASSUME TypeInv, NEW c \in Clients, conn' = Pending(c)
  PROVE  \A d \in Clients :
           /\ conn'[d].fd = conn[d].fd
           /\ conn'[d].rcvd = IF d = c THEN peer[d].sent ELSE conn[d].rcvd
<1> DEFINE k == [conn[c] EXCEPT !.rcvd = peer[c].sent, !.cgiPending = TRUE, !.out = 0]
<1>1. conn' = [conn EXCEPT ![c] = k] BY DEF Pending, TypeInv, TypeOK
<1>2. k.fd = conn[c].fd /\ k.rcvd = peer[c].sent
  BY FieldsAreTyped DEF ConnState, PeerState
<1> HIDE DEF k
<1> QED BY <1>1, <1>2 DEF TypeInv, TypeOK

\* handleRead, when execCgi fails.
LEMMA CgiFailsSafe ==
  ASSUME TypeInv, TypeInv', SafeInv, NEW e \in loop.batch, NEW c \in Clients,
         CgiFails(e, c)
  PROVE  SafeInv'
<1>1. /\ Takes(e, Conn(c)) /\ Proceed(e) /\ UNCHANGED <<cgi, peer, child>>
      /\ conn' = Pending(c) /\ rx' = Suspend(rx, c)
  BY DEF CgiFails, CompletesCgi
<1>2. Sane(rx) /\ Lives(rx, Conn(c)) /\ ConnWired(rx, c, conn[c].fd)
  BY <1>1, ConnectionIsThere
<1>3. Rearmed(rx, rx', Conn(c), Sock(c), {}) BY <1>1, <1>2, ConnectionIsRearmed
<1>4. \A d \in Clients : /\ conn'[d].fd = conn[d].fd
                         /\ conn'[d].rcvd \in {conn[d].rcvd, peer[d].sent}
  BY <1>1, PendingKeepsDescriptors
<1> QED BY <1>1, <1>2, <1>3, <1>4, RearmedStepSafe

\* handleWrite, when the script is over.
LEMMA HandleCgiSafe ==
  ASSUME TypeInv, TypeInv', SafeInv, NEW e \in loop.batch, NEW c \in Clients,
         HandleCgi(e, c)
  PROVE  SafeInv'
<1>1. /\ Takes(e, Conn(c)) /\ Proceed(e) /\ UNCHANGED <<cgi, peer, child>>
      /\ rx' = Arm(rx, c)
  BY DEF HandleCgi
<1>2. Sane(rx) /\ Lives(rx, Conn(c)) /\ ConnWired(rx, c, conn[c].fd)
  BY <1>1, ConnectionIsThere
<1> DEFINE fl == rx.flags[Conn(c)] \cup {"WANT_WRITE"}
<1>3. Rearmed(rx, rx', Conn(c), Sock(c), fl) BY <1>1, <1>2, ConnectionIsRearmed
<1>4. fl \in SUBSET Flag /\ "INACTIVE" \notin fl
  BY <1>2, NamesAreTyped DEF Sane, ReactorState, Lives, IsInactive, Flag
<1>5. \A d \in Clients : /\ conn'[d].fd = conn[d].fd
                         /\ conn'[d].rcvd \in {conn[d].rcvd, peer[d].sent}
  <2> DEFINE k == [conn[c] EXCEPT !.cgiPending = FALSE,
                      !.resp = IF conn[c].out = 0 THEN "error" ELSE "cgi"]
  <2>1. conn' = [conn EXCEPT ![c] = k] BY DEF HandleCgi, TypeInv, TypeOK
  <2>2. k.fd = conn[c].fd /\ k.rcvd = conn[c].rcvd BY FieldsAreTyped DEF ConnState
  <2> HIDE DEF k
  <2> QED BY <2>1, <2>2 DEF TypeInv, TypeOK
<1> HIDE DEF fl
<1> QED BY <1>1, <1>2, <1>3, <1>4, <1>5, RearmedStepSafe

\* handleWrite sends the response and closes the connection.
LEMMA SendAllSafe ==
  ASSUME TypeInv, TypeInv', SafeInv, NEW e \in loop.batch, NEW c \in Clients,
         SendAll(e, c)
  PROVE  SafeInv'
<1>1. /\ Takes(e, Conn(c)) /\ Proceed(e) /\ UNCHANGED <<cgi, child>>
      /\ rx' = Close(rx, c)
  BY DEF SendAll, Writes
<1>2. Sane(rx) /\ Lives(rx, Conn(c)) /\ ConnWired(rx, c, conn[c].fd)
  BY <1>1, ConnectionIsThere
<1>3. GivenUp(rx, rx', Conn(c), conn[c].fd, Sock(c)) BY <1>1, <1>2, ConnectionIsGivenUp
<1>4. \A d \in Clients : conn'[d].fd = conn[d].fd /\ conn'[d].rcvd = conn[d].rcvd
  <2> DEFINE k == [conn[c] EXCEPT !.resp = "none", !.out = 0]
  <2>1. conn' = [conn EXCEPT ![c] = k] BY DEF SendAll, TypeInv, TypeOK
  <2>2. k.fd = conn[c].fd /\ k.rcvd = conn[c].rcvd BY FieldsAreTyped DEF ConnState
  <2> HIDE DEF k
  <2> QED BY <2>1, <2>2 DEF TypeInv, TypeOK
<1>5. \A d \in Clients : peer'[d].st = peer[d].st /\ peer'[d].sent = peer[d].sent
  <2> DEFINE k == [peer[c] EXCEPT !.reply = conn[c].resp]
  <2>1. peer' = [peer EXCEPT ![c] = k] BY DEF SendAll, TypeInv, TypeOK
  <2>2. k.st = peer[c].st /\ k.sent = peer[c].sent BY FieldsAreTyped DEF PeerState
  <2> HIDE DEF k
  <2> QED BY <2>1, <2>2 DEF TypeInv, TypeOK
<1> QED BY <1>1, <1>2, <1>3, <1>4, <1>5, GivenUpStepSafe

\* send() fails, or epoll reports an error: the connection is given up.
LEMMA SendFailsSafe ==
  ASSUME TypeInv, TypeInv', SafeInv, NEW e \in loop.batch, NEW c \in Clients,
         SendFails(e, c) \/ ConnectionHandleError(e, c)
  PROVE  SafeInv'
<1>1. /\ Takes(e, Conn(c)) /\ Proceed(e) /\ UNCHANGED <<conn, cgi, child>>
      /\ rx' = GiveUp(rx, c)
  BY DEF SendFails, Writes, ConnectionHandleError
<1>2. Sane(rx) /\ Lives(rx, Conn(c)) /\ ConnWired(rx, c, conn[c].fd)
  BY <1>1, ConnectionIsThere
<1>3. GivenUp(rx, rx', Conn(c), conn[c].fd, Sock(c)) BY <1>1, <1>2, ConnectionIsGivenUp
<1>4. \A d \in Clients : peer'[d].st = peer[d].st /\ peer'[d].sent = peer[d].sent
  <2> DEFINE k == [peer[c] EXCEPT !.reply = IF peer[c].rst THEN @ ELSE "part"]
  <2>1. peer' = [peer EXCEPT ![c] = k] \/ peer' = peer
    BY DEF SendFails, ConnectionHandleError, TypeInv, TypeOK
  <2>2. k.st = peer[c].st /\ k.sent = peer[c].sent BY FieldsAreTyped DEF PeerState
  <2> HIDE DEF k
  <2> QED BY <2>1, <2>2 DEF TypeInv, TypeOK
<1> QED BY <1>1, <1>2, <1>3, <1>4, GivenUpStepSafe

\* The events that are skipped or kill, and the methods that change no reactor.
LEMMA QuietStepsSafe ==
  ASSUME TypeInv, TypeInv', SafeInv, NEW e \in loop.batch,
         \/ SkipInactive(e) \/ UseFreed(e) \/ AcceptorHandleRead(e)
         \/ \E c \in Clients : \/ HandleWriteNothing(e, c) \/ SendKills(e, c)
                               \/ AppendToFreed(e, c) \/ CgiWriteKills(e, c)
  PROVE  SafeInv'
<1>1. UNCHANGED <<rx, conn, cgi, peer, child>>
  BY DEF SkipInactive, UseFreed, AcceptorHandleRead, HandleWriteNothing, SendKills,
         AppendToFreed, CgiWriteKills
<1>2. Goto(e, "dispatch") \/ Goto(e, "accept") \/ Goto(e, "killed")
  BY DEF SkipInactive, UseFreed, AcceptorHandleRead, HandleWriteNothing, SendKills,
         AppendToFreed, CgiWriteKills
<1>3. loop'.batch = Rest(e) /\ loop'.pc \in {"dispatch", "accept", "killed"}
  BY <1>2 DEF Goto, TypeInv, TypeOK, Loop
<1> QED BY <1>1, <1>3, QuietStepSafe

\* What the start of a script does to the reactor, and that the wiring holds.
LEMMA StartCgiIsWired ==
  ASSUME NEW r, Sane(r), NEW cn, NEW cg, Wired(r, cn, cg), ListenWired(r),
         NEW c \in Clients, Lives(r, Conn(c)), Cgi(c) \notin r.handlers,
         ~IsInactive(r, Cgi(c)), r.ptr[In(c)] = NoHandler,
         NEW b \in Fd, NEW g \in Fd, b # g, r.tab[b] = NoFile, r.tab[g] = NoFile,
         NEW cg2, cg2[c].inFd = IF BodyOf(c) > 0 THEN b ELSE NoFd, cg2[c].outFd = g,
         \A d \in Clients \ {c} : cg2[d] = cg[d]
  PROVE  LET r2 == Suspend(ExecCgi(r, c, b, g), c) IN
         /\ Wired(r2, cn, cg2) /\ ListenWired(r2)
         /\ r2.handlers = r.handlers \cup {Cgi(c)} /\ r2.flags[Conn(c)] = {}
         /\ \A k \in Handler : k \notin {Cgi(c), Conn(c)} => r2.flags[k] = r.flags[k]
         /\ \A f \in File : f \notin {In(c), Out(c)} => r2.ptr[f] = r.ptr[f]
<1> DEFINE ins == IF BodyOf(c) > 0 THEN b ELSE NoFd
           r1 == ExecCgi(r, c, b, g)
           r2 == Suspend(r1, c)
<1>1. r.ptr[Out(c)] = NoHandler BY DEF Wired, CgiWired
<1>2. Started(r, r1, c, ins, g) /\ Sane(r1) BY <1>1, ExecCgiEffect
<1> HIDE DEF r1
<1>3. Wired(r1, cn, cg2) /\ ListenWired(r1)
  <2>1. ins \in Fd \cup {NoFd} /\ ins # g /\ (ins # NoFd => r.tab[ins] = NoFile)
    BY NamesAreDistinct
  <2>2. cg2[c].inFd = ins OBVIOUS
  <2> HIDE DEF ins
  <2> QED BY <1>2, <2>1, <2>2, StartedIsWired
<1>4. /\ Conn(c) \in Handler /\ Cgi(c) \in Handler /\ Conn(c) # Cgi(c)
      /\ Sock(c) \in File
  BY NamesAreTyped, NamesDiffer
<1>5. Lives(r1, Conn(c)) BY <1>2, <1>4 DEF Started, Lives, IsInactive
<1>6. ConnWired(r1, c, cn[c].fd) BY <1>3 DEF Wired
<1>7. Rearmed(r1, r2, Conn(c), Sock(c), {}) BY <1>2, <1>5, <1>6, ConnectionIsRearmed
<1> HIDE DEF r2
<1>8. Wired(r2, cn, cg2) /\ ListenWired(r2)
  BY <1>2, <1>3, <1>5, <1>7, ConnectionStaysWired
<1>9. r2.handlers = r.handlers \cup {Cgi(c)} /\ r2.flags[Conn(c)] = {}
  <2>1. r1.handlers = r.handlers \cup {Cgi(c)} BY <1>2 DEF Started
  <2>2. r2.handlers = r1.handlers /\ r2.flags[Conn(c)] = {} BY <1>7 DEF Rearmed
  <2> QED BY <2>1, <2>2
<1>10. \A k \in Handler : k \notin {Cgi(c), Conn(c)} => r2.flags[k] = r.flags[k]
  BY <1>2, <1>7 DEF Started, Rearmed
<1>11. \A f \in File : f \notin {In(c), Out(c)} => r2.ptr[f] = r.ptr[f]
  BY <1>2, <1>7 DEF Started, Rearmed
<1> QED BY <1>8, <1>9, <1>10, <1>11 DEF r2, r1

\* A request that is completed just now has no script yet.
LEMMA CompletedHasNoScript ==
  ASSUME TypeInv, SafeInv, NEW e \in loop.batch, NEW c \in Clients, CompletesCgi(e, c)
  PROVE  /\ child[c].st = "none" /\ Cgi(c) \notin rx.handlers
         /\ ~IsInactive(rx, Cgi(c)) /\ rx.ptr[In(c)] = NoHandler
         /\ \A d \in loop.batch : d.h # Cgi(c)
         /\ peer[c].sent = 2 /\ peer[c].st = "up"
<1>1. Fresh(c) /\ Conn(c) \in rx.handlers BY DEF SafeInv, CompletesCgi, Takes
<1>2. peer[c].sent = 2 /\ conn[c].rcvd # 2
  BY DEF CompletesCgi, Parsed
<1>3. conn[c].rcvd < 2 BY <1>2, FieldsAreTyped DEF ConnState, Amount
<1> QED BY <1>1, <1>2, <1>3 DEF Fresh, IsInactive

\* What the start of a script does to the reactor.
LEMMA StartCgiEffect ==
  ASSUME TypeInv, SafeInv, NEW e \in loop.batch, NEW c \in Clients, StartCgi(e, c)
  PROVE  /\ Wired(rx', conn, cgi') /\ ListenWired(rx')
         /\ rx'.handlers = rx.handlers \cup {Cgi(c)} /\ rx'.flags[Conn(c)] = {}
         /\ \A k \in Handler : k \notin {Cgi(c), Conn(c)} => rx'.flags[k] = rx.flags[k]
         /\ \A f \in File : f \notin {In(c), Out(c)} => rx'.ptr[f] = rx.ptr[f]
         /\ \A d \in Clients \ {c} : cgi'[d] = cgi[d]
         /\ cgi'[c].fd = conn[c].fd /\ cgi'[c].pid /\ cgi'[c].outFd \in Fd
<1>1. Takes(e, Conn(c)) /\ CompletesCgi(e, c) BY DEF StartCgi, CompletesCgi
<1>2. Wired(rx, conn, cgi) /\ ListenWired(rx) /\ Sane(rx) /\ Lives(rx, Conn(c))
  BY <1>1, ConnectionIsThere
<1>3. /\ Cgi(c) \notin rx.handlers /\ ~IsInactive(rx, Cgi(c)) /\ rx.ptr[In(c)] = NoHandler
  BY <1>1, CompletedHasNoScript
<1>4. PICK b \in Fd, g \in Fd :
        /\ b # g /\ rx.tab[b] = NoFile /\ rx.tab[g] = NoFile
        /\ rx' = Suspend(ExecCgi(rx, c, b, g), c)
        /\ cgi' = [cgi EXCEPT ![c] =
                     [fd |-> conn[c].fd, inFd |-> IF BodyOf(c) > 0 THEN b ELSE NoFd,
                      outFd |-> g, pid |-> TRUE, left |-> BodyOf(c)]]
  BY DEF StartCgi, Lowest, FreeFds
<1>5. /\ cgi'[c].inFd = (IF BodyOf(c) > 0 THEN b ELSE NoFd) /\ cgi'[c].outFd = g
      /\ cgi'[c].fd = conn[c].fd /\ cgi'[c].pid
      /\ \A d \in Clients \ {c} : cgi'[d] = cgi[d]
  BY <1>4 DEF TypeInv, TypeOK
<1> DEFINE cg2 == cgi'
           r2  == Suspend(ExecCgi(rx, c, b, g), c)
<1>6. /\ cg2[c].inFd = (IF BodyOf(c) > 0 THEN b ELSE NoFd) /\ cg2[c].outFd = g
      /\ \A d \in Clients \ {c} : cg2[d] = cgi[d]
  BY <1>5
<1> HIDE DEF cg2
<1>7. /\ Wired(r2, conn, cg2) /\ ListenWired(r2)
      /\ r2.handlers = rx.handlers \cup {Cgi(c)} /\ r2.flags[Conn(c)] = {}
      /\ \A k \in Handler : k \notin {Cgi(c), Conn(c)} => r2.flags[k] = rx.flags[k]
      /\ \A f \in File : f \notin {In(c), Out(c)} => r2.ptr[f] = rx.ptr[f]
  BY <1>2, <1>3, <1>4, <1>6, StartCgiIsWired
<1> QED BY <1>4, <1>5, <1>7 DEF cg2

\* handleRead, when a script starts.
LEMMA StartCgiSafe ==
  ASSUME TypeInv, TypeInv', SafeInv, NEW e \in loop.batch, NEW c \in Clients,
         StartCgi(e, c)
  PROVE  SafeInv'
<1>1. Takes(e, Conn(c)) /\ Proceed(e) /\ conn' = Pending(c) /\ UNCHANGED peer
  BY DEF StartCgi, CompletesCgi
<1>2. Wired(rx, conn, cgi) /\ ListenWired(rx) /\ Sane(rx) /\ Lives(rx, Conn(c))
  BY <1>1, ConnectionIsThere
<1>3. /\ child[c].st = "none" /\ Cgi(c) \notin rx.handlers
      /\ ~IsInactive(rx, Cgi(c)) /\ rx.ptr[In(c)] = NoHandler
      /\ \A d \in loop.batch : d.h # Cgi(c)
      /\ peer[c].sent = 2 /\ peer[c].st = "up"
  BY CompletedHasNoScript DEF StartCgi
<1>4. /\ Wired(rx', conn, cgi') /\ ListenWired(rx')
      /\ rx'.handlers = rx.handlers \cup {Cgi(c)} /\ rx'.flags[Conn(c)] = {}
      /\ \A k \in Handler : k \notin {Cgi(c), Conn(c)} => rx'.flags[k] = rx.flags[k]
      /\ \A f \in File : f \notin {In(c), Out(c)} => rx'.ptr[f] = rx.ptr[f]
      /\ \A d \in Clients \ {c} : cgi'[d] = cgi[d]
  BY StartCgiEffect
<1>5. \A d \in Clients :
        /\ conn'[d].fd = conn[d].fd
        /\ conn'[d].rcvd = IF d = c THEN peer[d].sent ELSE conn[d].rcvd
  BY <1>1, PendingKeepsDescriptors
<1>6. Wired(rx', conn', cgi') BY <1>4, <1>5, WiredByDescriptors
<1>7. loop'.batch = Rest(e) /\ loop'.pc = "dispatch"
  BY <1>1, <1>4, ProceedGoesOn DEF Wired
<1>8. BatchInv /\ \A d \in Clients : Fresh(d) BY DEF SafeInv
<1>9. \A d \in loop'.batch : \E k \in loop.batch : k.h = d.h BY <1>7, <1>8, RestIsOld
<1>10. /\ child'[c].st # "none"
       /\ \A d \in Clients \ {c} : child'[d] = child[d]
  <2> DEFINE k == [NoChild EXCEPT !.st = "run", !.outOpen = TRUE, !.holds = OpenFiles]
  <2>1. child' = [child EXCEPT ![c] = k] BY DEF StartCgi
  <2>2. k.st = "run" BY DEF NoChild
  <2> HIDE DEF k
  <2> QED BY <2>1, <2>2 DEF TypeInv, TypeOK
<1>11. ASSUME NEW d \in Clients PROVE Fresh(d)'
  <2>1. Fresh(d) BY <1>8
  <2>2. CASE d = c
    <3>1. peer'[c].st = "up" /\ conn'[c].rcvd = 2 /\ peer'[c].sent = 2
      BY <1>1, <1>3, <1>5
    <3> QED BY <1>10, <2>2, <3>1 DEF Fresh
  <2>3. CASE d # c
    <3>1. /\ Conn(d) \in Handler /\ Cgi(d) \in Handler /\ In(d) \in File
          /\ Conn(d) # Conn(c) /\ Cgi(d) # Cgi(c) /\ Conn(d) # Cgi(c) /\ Cgi(d) # Conn(c)
          /\ In(d) # In(c) /\ In(d) # Out(c)
      BY <2>3, NamesAreTyped, NamesDiffer
    <3>2. /\ rx'.flags[Conn(d)] = rx.flags[Conn(d)] /\ rx'.flags[Cgi(d)] = rx.flags[Cgi(d)]
          /\ rx'.ptr[In(d)] = rx.ptr[In(d)]
          /\ Conn(d) \in rx'.handlers <=> Conn(d) \in rx.handlers
          /\ Cgi(d) \in rx'.handlers <=> Cgi(d) \in rx.handlers
      BY <1>4, <3>1
    <3>3. conn'[d].rcvd = conn[d].rcvd /\ child'[d] = child[d] /\ peer'[d] = peer[d]
      BY <1>1, <1>5, <1>10, <2>3
    <3> QED BY <1>9, <2>1, <3>2, <3>3 DEF Fresh
  <2> QED BY <2>2, <2>3
<1>12. BatchInv'
  <2> SUFFICES ASSUME NEW d \in Clients, NEW k \in loop'.batch
               PROVE  /\ k.h = Conn(d) => Conn(d) \in rx'.handlers
                      /\ k.h = Cgi(d) /\ "OUT" \in k.ev =>
                           /\ k.ev \cap {"IN", "HUP"} = {}
                           /\ Active(Cgi(d))' => cgi'[d].inFd # NoFd
                           /\ \A j \in loop'.batch : j.h = Cgi(d) /\ "OUT" \in j.ev => j = k
    BY <1>7 DEF BatchInv
  <2>1. k.h = Conn(d) => Conn(d) \in rx'.handlers BY <1>4, <1>8, <1>9 DEF BatchInv
  <2>2. ASSUME k.h = Cgi(d), "OUT" \in k.ev
        PROVE  /\ k.ev \cap {"IN", "HUP"} = {}
               /\ Active(Cgi(d))' => cgi'[d].inFd # NoFd
               /\ \A j \in loop'.batch : j.h = Cgi(d) /\ "OUT" \in j.ev => j = k
    <3>1. k \in loop.batch /\ d # c BY <1>3, <1>7, <1>8, <2>2, RestIsOld
    <3>2. /\ k.ev \cap {"IN", "HUP"} = {}
          /\ Active(Cgi(d)) => cgi[d].inFd # NoFd
      BY <1>8, <2>2, <3>1 DEF BatchInv
    <3>3. Cgi(d) \in Handler /\ Cgi(d) # Cgi(c) /\ Cgi(d) # Conn(c)
      BY <3>1, NamesAreTyped, NamesDiffer
    <3>4. Active(Cgi(d))' => Active(Cgi(d)) BY <1>4, <3>3 DEF Active, IsInactive
    <3>5. cgi'[d] = cgi[d] BY <1>4, <3>1
    <3>6. \A j \in loop'.batch : j.h = Cgi(d) /\ "OUT" \in j.ev => j = k
      BY <1>7, <1>8, <2>2, <3>1, RestIsOld DEF BatchInv
    <3> QED BY <3>2, <3>4, <3>5, <3>6
  <2> QED BY <2>1, <2>2
<1>13. EndInv' BY <1>4, <1>7 DEF EndInv
<1> QED BY <1>6, <1>11, <1>12, <1>13 DEF SafeInv

-----------------------------------------------------------------------------
(* CgiHandler.                                                             *)

\* A script's handler that takes an event has a script.
LEMMA HandlerHasScript ==
  ASSUME SafeInv, NEW c \in Clients, Cgi(c) \in rx.handlers
  PROVE  child[c].st # "none"
BY DEF SafeInv, Fresh

\* read(): what is collected changes nothing the wiring knows of.
LEMMA CollectedKeepsDescriptors ==
  ASSUME TypeInv, NEW c \in Clients, conn' = Collected(c)
  PROVE  \A d \in Clients : conn'[d].fd = conn[d].fd /\ conn'[d].rcvd = conn[d].rcvd
<1> DEFINE k == [conn[c] EXCEPT !.out = @ + child[c].outPipe]
<1>1. conn' = conn \/ conn' = [conn EXCEPT ![c] = k]
  BY DEF Collected, TypeInv, TypeOK
<1>2. k.fd = conn[c].fd /\ k.rcvd = conn[c].rcvd BY FieldsAreTyped DEF ConnState
<1> HIDE DEF k
<1> QED BY <1>1, <1>2 DEF TypeInv, TypeOK

\* handleRead of a script, to EAGAIN.
LEMMA CgiHandleReadSafe ==
  ASSUME TypeInv, TypeInv', SafeInv, NEW e \in loop.batch, NEW c \in Clients,
         CgiHandleRead(e, c)
  PROVE  SafeInv'
<1>1. /\ conn' = Collected(c) /\ child' = [child EXCEPT ![c] = Drained(child[c])]
      /\ Goto(e, "dispatch") /\ UNCHANGED <<rx, cgi, peer>>
  BY DEF CgiHandleRead, TypeInv, TypeOK
<1>2. Drained(child[c]).st = child[c].st BY FieldsAreTyped DEF Drained, ChildState
<1>3. \A d \in Clients : child'[d].st = child[d].st
  BY <1>1, <1>2 DEF TypeInv, TypeOK
<1>4. \A d \in Clients : conn'[d].fd = conn[d].fd /\ conn'[d].rcvd = conn[d].rcvd
  BY <1>1, CollectedKeepsDescriptors
<1>5. loop'.batch = Rest(e) /\ loop'.pc = "dispatch"
  BY <1>1 DEF Goto, TypeInv, TypeOK, Loop
<1> QED BY <1>1, <1>3, <1>4, <1>5, QuietStepSafe

\* c's script's handler has closed its output and is inactive in reactor state r2;
\* then it wakes the connection.
Finished(c, r2) ==
  /\ Sane(r2) /\ Wired(r2, conn, cgi') /\ ListenWired(r2)
  /\ r2.handlers = rx.handlers /\ IsInactive(r2, Cgi(c))
  /\ \A k \in Handler : k # Cgi(c) => r2.flags[k] = rx.flags[k]
  /\ \A d \in Clients : r2.ptr[In(d)] \in {rx.ptr[In(d)], NoHandler}
  /\ rx' = WakeUpHandler(r2, cgi[c].fd)
  /\ \A d \in Clients \ {c} : cgi'[d] = cgi[d]

\* A script's handler is deactivated, and then wakes the connection.
LEMMA WakeStepSafe ==
  ASSUME TypeInv, TypeInv', SafeInv, NEW e \in loop.batch, NEW c \in Clients,
         Takes(e, Cgi(c)), Proceed(e), NEW r2, Finished(c, r2), UNCHANGED peer,
         \A d \in Clients : /\ conn'[d].fd = conn[d].fd /\ conn'[d].rcvd = conn[d].rcvd
                            /\ child'[d].st = "none" <=> child[d].st = "none"
  PROVE  SafeInv'
<1>0. /\ Sane(r2) /\ Wired(r2, conn, cgi') /\ ListenWired(r2)
      /\ r2.handlers = rx.handlers /\ IsInactive(r2, Cgi(c))
      /\ \A k \in Handler : k # Cgi(c) => r2.flags[k] = rx.flags[k]
      /\ \A d \in Clients : r2.ptr[In(d)] \in {rx.ptr[In(d)], NoHandler}
      /\ rx' = WakeUpHandler(r2, cgi[c].fd)
      /\ \A d \in Clients \ {c} : cgi'[d] = cgi[d]
  BY DEF Finished
<1>1. /\ Wired(rx', conn, cgi') /\ ListenWired(rx') /\ rx'.handlers = rx.handlers
      /\ \A k \in Handler : IsInactive(rx', k) <=> IsInactive(r2, k)
      /\ \A k \in Handler : rx'.flags[k] = r2.flags[k] \/ k \in rx.handlers
      /\ \A f \in File : rx'.ptr[f] = r2.ptr[f]
  <2> DEFINE cg == cgi'
             r3 == WakeUpHandler(r2, cgi[c].fd)
  <2>1. Wired(r2, conn, cg) BY <1>0
  <2> HIDE DEF cg
  <2>2. /\ Wired(r3, conn, cg) /\ ListenWired(r3) /\ r3.handlers = rx.handlers
        /\ \A k \in Handler : IsInactive(r3, k) <=> IsInactive(r2, k)
        /\ \A k \in Handler : r3.flags[k] = r2.flags[k] \/ k \in rx.handlers
        /\ \A f \in File : r3.ptr[f] = r2.ptr[f]
    BY <1>0, <2>1, WakeUpIsWired
  <2> QED BY <1>0, <2>2 DEF cg
<1>2. Wired(rx', conn', cgi') BY <1>1, WiredByDescriptors
<1>3. loop'.batch = Rest(e) /\ loop'.pc = "dispatch" BY <1>1, ProceedGoesOn DEF Wired
<1>4. ASSUME NEW d \in Clients
      PROVE  /\ rx'.flags[Conn(d)] = rx.flags[Conn(d)] \/ Conn(d) \in rx.handlers
             /\ "INACTIVE" \in rx.flags[Cgi(d)] => "INACTIVE" \in rx'.flags[Cgi(d)]
             /\ "INACTIVE" \in rx'.flags[Cgi(d)] =>
                  "INACTIVE" \in rx.flags[Cgi(d)] \/ Cgi(d) \in rx.handlers
             /\ rx'.ptr[In(d)] \in {rx.ptr[In(d)], NoHandler}
             /\ cgi'[d].inFd = NoFd =>
                  cgi[d].inFd = NoFd \/ "INACTIVE" \in rx'.flags[Cgi(d)]
  <2>1. /\ Conn(d) \in Handler /\ Cgi(d) \in Handler /\ In(d) \in File
        /\ Conn(d) # Cgi(c) /\ (d # c => Cgi(d) # Cgi(c))
    BY NamesAreTyped, NamesDiffer
  <2>2. Cgi(c) \in rx.handlers BY DEF Takes
  <2> QED BY <1>0, <1>1, <2>1, <2>2 DEF IsInactive
<1> QED BY <1>1, <1>2, <1>3, <1>4, HandlerStepSafe

\* handleRead of a script at the end of its output finishes its handler.
LEMMA EofFinishes ==
  ASSUME TypeInv, SafeInv, NEW e \in loop.batch, NEW c \in Clients,
         CgiHandleEof(e, c)
  PROVE  \E r2 : Finished(c, r2)
<1> DEFINE g  == cgi[c].outFd
           r2 == Deactivate(CloseAll(DeleteHandler(rx, g), {g}, Held), Cgi(c))
<1>1. /\ Takes(e, Cgi(c))
      /\ cgi' = [cgi EXCEPT ![c] = [cgi[c] EXCEPT !.outFd = NoFd, !.pid = FALSE]]
      /\ rx' = WakeUpHandler(r2, cgi[c].fd)
  BY DEF CgiHandleEof, CgiReads, Finish, TypeInv, TypeOK
<1>2. Wired(rx, conn, cgi) /\ ListenWired(rx) /\ Sane(rx) /\ Lives(rx, Cgi(c))
  BY <1>1, ConnectionIsThere
<1>3. /\ \A d \in Clients \ {c} : cgi'[d] = cgi[d]
      /\ cgi'[c].outFd = NoFd /\ cgi'[c].inFd = cgi[c].inFd
  <2> DEFINE k == [cgi[c] EXCEPT !.outFd = NoFd, !.pid = FALSE]
  <2>1. k.outFd = NoFd /\ k.inFd = cgi[c].inFd BY FieldsAreTyped DEF CgiState
  <2>2. cgi' = [cgi EXCEPT ![c] = k] BY <1>1
  <2> HIDE DEF k
  <2> QED BY <2>1, <2>2 DEF TypeInv, TypeOK
<1>4. /\ EndClosed(rx, r2, Cgi(c), g, Out(c)) /\ Sane(r2)
      /\ Wired(r2, conn, cgi') /\ ListenWired(r2) /\ IsInactive(r2, Cgi(c))
  <2> DEFINE cg2 == cgi'
  <2>1. /\ \A d \in Clients \ {c} : cg2[d] = cgi[d]
        /\ cg2[c].outFd = NoFd /\ cg2[c].inFd = cgi[c].inFd
    BY <1>3
  <2> HIDE DEF cg2
  <2>2. Wired(r2, conn, cg2) BY <1>2, <2>1, OutputClosedIsWired
  <2> QED BY <1>2, <2>1, <2>2, OutputClosedIsWired DEF cg2
<1> HIDE DEF r2
<1>5. \A k \in Handler : k # Cgi(c) => r2.flags[k] = rx.flags[k] BY <1>4 DEF EndClosed
<1>6. \A d \in Clients : r2.ptr[In(d)] \in {rx.ptr[In(d)], NoHandler}
  BY <1>4, NamesAreTyped DEF EndClosed
<1>7. r2.handlers = rx.handlers BY <1>4 DEF EndClosed
<1> QED BY <1>1, <1>3, <1>4, <1>5, <1>6, <1>7 DEF Finished

\* It is safe.
LEMMA CgiHandleEofSafe ==
  ASSUME TypeInv, TypeInv', SafeInv, NEW e \in loop.batch, NEW c \in Clients,
         CgiHandleEof(e, c)
  PROVE  SafeInv'
<1>1. /\ Takes(e, Cgi(c)) /\ Proceed(e) /\ conn' = Collected(c) /\ UNCHANGED peer
      /\ child' = [child EXCEPT ![c] = WaitPid(Drained(child[c]))]
  BY DEF CgiHandleEof, CgiReads, TypeInv, TypeOK
<1>2. PICK r2 : Finished(c, r2) BY EofFinishes
<1>3. \A d \in Clients : conn'[d].fd = conn[d].fd /\ conn'[d].rcvd = conn[d].rcvd
  BY <1>1, CollectedKeepsDescriptors
<1>4. \A d \in Clients : child'[d].st = "none" <=> child[d].st = "none"
  <2> DEFINE s == WaitPid(Drained(child[c]))
  <2>1. s.st = "none" <=> child[c].st = "none"
    BY FieldsAreTyped DEF WaitPid, Drained, ChildState
  <2>2. child' = [child EXCEPT ![c] = s] BY <1>1
  <2> HIDE DEF s
  <2> QED BY <2>1, <2>2 DEF TypeInv, TypeOK
<1> QED BY <1>1, <1>2, <1>3, <1>4, WakeStepSafe

\* handleWrite of a script: the body is out, or the pipe is full.
LEMMA CgiHandleWriteSafe ==
  ASSUME TypeInv, TypeInv', SafeInv, NEW e \in loop.batch, NEW c \in Clients,
         CgiHandleWrite(e, c)
  PROVE  SafeInv'
<1> DEFINE room == PipeCap - child[c].inPipe
           n    == IF cgi[c].left < room THEN cgi[c].left ELSE room
           s    == [child[c] EXCEPT !.inPipe = @ + n]
           g    == cgi[c].inFd
           r1   == CloseAll(DeleteHandler(rx, g), {g}, Held)
           k1   == [cgi[c] EXCEPT !.left = @ - n]
           k2   == [cgi[c] EXCEPT !.left = 0, !.inFd = NoFd]
<1>1. /\ Takes(e, Cgi(c)) /\ IsWrite(e) /\ Proceed(e) /\ UNCHANGED <<conn, peer>>
      /\ child' = [child EXCEPT ![c] = s]
      /\ \/ cgi' = [cgi EXCEPT ![c] = k1] /\ rx' = rx
         \/ cgi' = [cgi EXCEPT ![c] = k2] /\ rx' = ClearWantWrite(r1, Cgi(c))
  BY DEF CgiHandleWrite, TypeInv, TypeOK
<1>2. Wired(rx, conn, cgi) /\ ListenWired(rx) /\ Sane(rx) /\ Lives(rx, Cgi(c))
  BY <1>1, ConnectionIsThere
<1>3. \A d \in Clients : child'[d].st = child[d].st
  <2>1. s.st = child[c].st BY FieldsAreTyped DEF ChildState
  <2> HIDE DEF s
  <2> QED BY <1>1, <2>1 DEF TypeInv, TypeOK
<1>4. CASE cgi' = [cgi EXCEPT ![c] = k1] /\ rx' = rx
  <2>1. k1.inFd = cgi[c].inFd /\ k1.outFd = cgi[c].outFd BY FieldsAreTyped DEF CgiState
  <2> HIDE DEF k1
  <2>2. \A d \in Clients : cgi'[d].inFd = cgi[d].inFd /\ cgi'[d].outFd = cgi[d].outFd
    BY <1>4, <2>1 DEF TypeInv, TypeOK
  <2>3. ~rx'.failed BY <1>2, <1>4 DEF Wired
  <2>4. loop'.batch = Rest(e) /\ loop'.pc = "dispatch" BY <1>1, <2>3, ProceedGoesOn
  <2> QED BY <1>1, <1>3, <1>4, <2>2, <2>4, QuietStepSafe
<1>5. CASE cgi' = [cgi EXCEPT ![c] = k2] /\ rx' = ClearWantWrite(r1, Cgi(c))
  <2>1. k2.inFd = NoFd /\ k2.outFd = cgi[c].outFd BY FieldsAreTyped DEF CgiState
  <2> HIDE DEF k2, s
  <2> DEFINE cg2 == cgi'
             r2  == ClearWantWrite(r1, Cgi(c))
  <2>2. /\ \A d \in Clients \ {c} : cg2[d] = cgi[d]
        /\ cg2[c].inFd = NoFd /\ cg2[c].outFd = cgi[c].outFd
    BY <1>5, <2>1 DEF TypeInv, TypeOK
  <2> HIDE DEF cg2
  <2>3. e.h = Cgi(c) /\ "OUT" \in e.ev BY <1>1 DEF Takes, IsWrite
  <2>4. g # NoFd
    <3>1. Active(Cgi(c)) BY <1>1 DEF Takes, Active
    <3> QED BY <2>3, <3>1 DEF SafeInv, BatchInv
  <2>5. /\ EndClosed(rx, r1, Cgi(c), g, In(c)) /\ Sane(r1)
        /\ Wired(r1, conn, cg2) /\ ListenWired(r1) /\ Lives(r1, Cgi(c))
    BY <1>2, <2>2, <2>4, InputClosedIsWired
  <2> HIDE DEF r1
  <2>6. /\ r2.handlers = r1.handlers /\ r2.failed = r1.failed /\ r2.fdMap = r1.fdMap
        /\ r2.tab = r1.tab /\ r2.ptr = r1.ptr /\ r2.mask = r1.mask
        /\ \A k \in Handler : k # Cgi(c) => r2.flags[k] = r1.flags[k]
        /\ r2.flags[Cgi(c)] = r1.flags[Cgi(c)] \ {"WANT_WRITE"}
    BY <2>5, NamesAreTyped DEF ClearWantWrite, Sane, ReactorState
  <2>7. EndClosed(rx, r2, Cgi(c), g, In(c))
    BY <2>5, <2>6 DEF EndClosed
  <2>8. Lives(r2, Cgi(c)) BY <2>5, <2>6 DEF Lives, IsInactive
  <2> HIDE DEF r2, g
  <2>9. Wired(r2, conn, cg2) /\ ListenWired(r2)
    <3>1. cgi[c].outFd # NoFd BY <1>2 DEF Wired, CgiWired, Lives
    <3>2. IsInactive(r2, Cgi(c)) <=> cg2[c].outFd = NoFd BY <2>2, <2>8, <3>1 DEF Lives
    <3> QED BY <1>2, <2>2, <2>4, <2>7, <3>2, EndClosedIsWired DEF g
  <2>10. rx' = r2 BY <1>5 DEF r2
  <2>11. Wired(rx', conn', cgi') /\ ListenWired(rx') BY <1>1, <2>9, <2>10 DEF cg2
  <2>12. loop'.batch = Rest(e) /\ loop'.pc = "dispatch"
    BY <1>1, <2>11, ProceedGoesOn DEF Wired
  <2>13. rx'.handlers = rx.handlers BY <2>7, <2>10 DEF EndClosed
  <2>14. ASSUME NEW d \in Clients
         PROVE  /\ rx'.flags[Conn(d)] = rx.flags[Conn(d)]
                /\ IsInactive(rx', Cgi(d)) <=> IsInactive(rx, Cgi(d))
                /\ rx'.ptr[In(d)] \in {rx.ptr[In(d)], NoHandler}
                /\ d # c => cgi'[d] = cgi[d]
    <3>1. /\ Conn(d) \in Handler /\ Cgi(d) \in Handler /\ In(d) \in File
          /\ Conn(d) # Cgi(c) /\ (d # c => Cgi(d) # Cgi(c))
      BY NamesAreTyped, NamesDiffer
    <3>2. IsInactive(r2, Cgi(c)) <=> IsInactive(rx, Cgi(c)) BY <1>2, <2>8 DEF Lives
    <3>3. d # c => r2.flags[Cgi(d)] = rx.flags[Cgi(d)] BY <2>7, <3>1 DEF EndClosed
    <3>4. r2.flags[Conn(d)] = rx.flags[Conn(d)] BY <2>7, <3>1 DEF EndClosed
    <3>5. r2.ptr[In(d)] \in {rx.ptr[In(d)], NoHandler} BY <2>7, <3>1 DEF EndClosed
    <3> QED BY <2>2, <2>10, <3>2, <3>3, <3>4, <3>5 DEF IsInactive, cg2
  <2> QED BY <1>1, <1>3, <2>3, <2>11, <2>12, <2>13, <2>14, HandlerStepSafe DEF IsInactive
<1> QED BY <1>1, <1>4, <1>5

\* handleError of a script: both ends are closed, and that finishes it.
LEMMA ErrorFinishes ==
  ASSUME TypeInv, SafeInv, NEW e \in loop.batch, NEW c \in Clients,
         CgiHandleError(e, c)
  PROVE  \E r2 : Finished(c, r2)
<1> DEFINE r1 == Drop(rx, cgi[c].inFd)
           r2 == Deactivate(Drop(r1, cgi[c].outFd), Cgi(c))
           kA == [cgi[c] EXCEPT !.inFd = NoFd]
           kB == [cgi[c] EXCEPT !.inFd = NoFd, !.outFd = NoFd]
           cgA == [cgi EXCEPT ![c] = kA]
<1>1. /\ Takes(e, Cgi(c))
      /\ cgi' = [cgi EXCEPT ![c] = kB] /\ rx' = WakeUpHandler(r2, cgi[c].fd)
  BY DEF CgiHandleError, TypeInv, TypeOK
<1>2. Wired(rx, conn, cgi) /\ ListenWired(rx) /\ Sane(rx) /\ Lives(rx, Cgi(c))
  BY <1>1, ConnectionIsThere
<1>3. /\ kA.inFd = NoFd /\ kA.outFd = cgi[c].outFd
      /\ kB.inFd = NoFd /\ kB.outFd = NoFd
  BY FieldsAreTyped DEF CgiState
<1> HIDE DEF kA, kB
<1>4. /\ \A d \in Clients \ {c} : cgA[d] = cgi[d]
      /\ cgA[c].inFd = NoFd /\ cgA[c].outFd = cgi[c].outFd
  BY <1>3 DEF TypeInv, TypeOK
<1> HIDE DEF cgA
<1>5. /\ Sane(r1) /\ Wired(r1, conn, cgA) /\ ListenWired(r1) /\ Lives(r1, Cgi(c))
      /\ r1.handlers = rx.handlers
      /\ \A k \in Handler : k # Cgi(c) => r1.flags[k] = rx.flags[k]
      /\ \A d \in Clients : r1.ptr[In(d)] \in {rx.ptr[In(d)], NoHandler}
  <2>1. CASE cgi[c].inFd = NoFd
    <3>1. r1 = rx BY <2>1 DEF Drop
    <3>2. \A d \in Clients : cgA[d].inFd = cgi[d].inFd /\ cgA[d].outFd = cgi[d].outFd
      BY <1>4, <2>1
    <3>3. Wired(rx, conn, cgA) BY <1>2, <3>2, WiredByDescriptors
    <3> QED BY <1>2, <3>1, <3>3
  <2>2. CASE cgi[c].inFd # NoFd
    <3>1. r1 = CloseAll(DeleteHandler(rx, cgi[c].inFd), {cgi[c].inFd}, Held)
      BY <2>2 DEF Drop
    <3> HIDE DEF r1
    <3>2. /\ EndClosed(rx, r1, Cgi(c), cgi[c].inFd, In(c)) /\ Sane(r1)
          /\ Wired(r1, conn, cgA) /\ ListenWired(r1) /\ Lives(r1, Cgi(c))
      BY <1>2, <1>4, <2>2, <3>1, InputClosedIsWired
    <3> QED BY <3>2, NamesAreTyped DEF EndClosed
  <2> QED BY <2>1, <2>2
<1> HIDE DEF r1
<1>6. cgi[c].outFd # NoFd /\ cgA[c].outFd = cgi[c].outFd
  BY <1>2, <1>4 DEF Wired, CgiWired, Lives
<1>7. r2 = Deactivate(CloseAll(DeleteHandler(r1, cgA[c].outFd), {cgA[c].outFd}, Held), Cgi(c))
  BY <1>6 DEF Drop
<1>8. /\ \A d \in Clients \ {c} : cgi'[d] = cgA[d] /\ cgi'[d] = cgi[d]
      /\ cgi'[c].outFd = NoFd /\ cgi'[c].inFd = cgA[c].inFd
  BY <1>1, <1>3, <1>4 DEF TypeInv, TypeOK
<1> HIDE DEF r2
<1>9. /\ EndClosed(r1, r2, Cgi(c), cgA[c].outFd, Out(c)) /\ Sane(r2)
      /\ Wired(r2, conn, cgi') /\ ListenWired(r2) /\ IsInactive(r2, Cgi(c))
  <2> DEFINE cg2 == cgi'
  <2>1. /\ \A d \in Clients \ {c} : cg2[d] = cgA[d]
        /\ cg2[c].outFd = NoFd /\ cg2[c].inFd = cgA[c].inFd
    BY <1>8
  <2> HIDE DEF cg2
  <2>2. Wired(r2, conn, cg2) BY <1>5, <1>7, <2>1, OutputClosedIsWired
  <2> QED BY <1>5, <1>7, <2>1, <2>2, OutputClosedIsWired DEF cg2
<1>10. /\ r2.handlers = rx.handlers
       /\ \A k \in Handler : k # Cgi(c) => r2.flags[k] = rx.flags[k]
  BY <1>5, <1>9 DEF EndClosed
<1>11. \A d \in Clients : r2.ptr[In(d)] \in {rx.ptr[In(d)], NoHandler}
  BY <1>5, <1>9, NamesAreTyped DEF EndClosed
<1> QED BY <1>1, <1>8, <1>9, <1>10, <1>11 DEF Finished

\* It is safe.
LEMMA CgiHandleErrorSafe ==
  ASSUME TypeInv, TypeInv', SafeInv, NEW e \in loop.batch, NEW c \in Clients,
         CgiHandleError(e, c)
  PROVE  SafeInv'
<1>1. /\ Takes(e, Cgi(c)) /\ Proceed(e) /\ UNCHANGED <<peer, child>>
      /\ conn' = conn \/ conn' = [conn EXCEPT ![c] = [conn[c] EXCEPT !.out = 0]]
  BY DEF CgiHandleError, TypeInv, TypeOK
<1>2. PICK r2 : Finished(c, r2) BY ErrorFinishes
<1>3. \A d \in Clients : conn'[d].fd = conn[d].fd /\ conn'[d].rcvd = conn[d].rcvd
  <2> DEFINE k == [conn[c] EXCEPT !.out = 0]
  <2>1. k.fd = conn[c].fd /\ k.rcvd = conn[c].rcvd BY FieldsAreTyped DEF ConnState
  <2>2. conn' = conn \/ conn' = [conn EXCEPT ![c] = k] BY <1>1
  <2> HIDE DEF k
  <2> QED BY <2>1, <2>2 DEF TypeInv, TypeOK
<1> QED BY <1>1, <1>2, <1>3, WakeStepSafe

-----------------------------------------------------------------------------
(* The loop.                                                               *)

\* Events come from registrations, and only the input of a script reports OUT for it.
LEMMA EventOrigin ==
  ASSUME TypeInv, SafeInv, NEW f \in rx.edge
  PROVE  /\ f \in File /\ rx.ptr[f] # NoHandler
         /\ \A c \in Clients :
              /\ rx.ptr[f] = Conn(c) => f = Sock(c) /\ Conn(c) \in rx.handlers
              /\ rx.ptr[f] = Cgi(c) => child[c].st # "none"
              /\ rx.ptr[f] = Cgi(c) /\ "OUT" \in Reported(f) =>
                   /\ f = In(c) /\ Reported(f) \cap {"IN", "HUP"} = {}
                   /\ Cgi(c) \in rx.handlers => cgi[c].inFd # NoFd
<1>1. f \in File /\ rx.ptr[f] # NoHandler /\ Sane(rx)
  BY DEF TypeInv, Sane, ReactorState
<1>2. Wired(rx, conn, cgi) BY DEF SafeInv
<1>3. ASSUME NEW c \in Clients, rx.ptr[f] = Conn(c)
      PROVE  f = Sock(c) /\ Conn(c) \in rx.handlers
  <2>1. f = Sock(c) BY <1>1, <1>2, <1>3, RegistrationIsOwn
  <2> QED BY <1>1, <1>2, <2>1 DEF Wired, ConnWired, Lives
<1>4. ASSUME NEW c \in Clients, rx.ptr[f] = Cgi(c)
      PROVE  /\ child[c].st # "none"
             /\ "OUT" \in Reported(f) =>
                  /\ f = In(c) /\ Reported(f) \cap {"IN", "HUP"} = {}
                  /\ Cgi(c) \in rx.handlers => cgi[c].inFd # NoFd
  <2>1. f \in {In(c), Out(c)} BY <1>1, <1>2, <1>4, RegistrationIsOwn
  <2>2. CgiWired(rx, c, cgi[c].inFd, cgi[c].outFd) /\ Fresh(c) BY <1>2 DEF SafeInv, Wired
  <2>3. child[c].st # "none" BY <1>1, <1>4, <2>1, <2>2 DEF CgiWired, Fresh
  <2>4. CASE f = Out(c)
    <3>1. "OUT" \notin Poll(f) BY <2>4 DEF Poll, Out
    <3> QED BY <2>3, <3>1 DEF Reported
  <2>5. CASE f = In(c)
    <3>1. Poll(f) \cap {"IN", "HUP"} = {} BY <2>5 DEF Poll, In
    <3>2. Cgi(c) \in rx.handlers => cgi[c].inFd # NoFd
      BY <1>1, <2>2, <2>5 DEF CgiWired, EndWired
    <3> QED BY <2>3, <2>5, <3>1, <3>2 DEF Reported
  <2> QED BY <2>1, <2>4, <2>5
<1> QED BY <1>1, <1>3, <1>4

\* epoll_wait returns.
LEMMA EpollWaitSafe ==
  ASSUME TypeInv, SafeInv, EpollWait
  PROVE  SafeInv'
<1> DEFINE ready == {f \in rx.edge : Reported(f) # {}}
<1>1. PICK fs \in SUBSET ready :
        /\ loop' = [loop EXCEPT !.pc = "dispatch",
                       !.batch = {[h |-> rx.ptr[f], ev |-> Reported(f)] : f \in fs}]
        /\ rx' = [rx EXCEPT !.edge = ready \ fs]
  BY DEF EpollWait
<1>2. UNCHANGED <<conn, cgi, peer, child>> /\ loop.pc = "wait" BY DEF EpollWait
<1>3. /\ rx'.handlers = rx.handlers /\ rx'.flags = rx.flags /\ rx'.fdMap = rx.fdMap
      /\ rx'.tab = rx.tab /\ rx'.ptr = rx.ptr /\ rx'.mask = rx.mask
      /\ rx'.failed = rx.failed
  BY <1>1 DEF TypeInv, TypeOK, ReactorState
<1>4. /\ loop'.pc = "dispatch"
      /\ loop'.batch = {[h |-> rx.ptr[f], ev |-> Reported(f)] : f \in fs}
  BY <1>1 DEF TypeInv, TypeOK, Loop
<1>5. fs \subseteq rx.edge OBVIOUS
<1> HIDE DEF ready
<1>6. Wired(rx', conn, cgi) /\ ListenWired(rx')
  BY <1>2, <1>3, WiredByFields DEF SafeInv, EndInv
<1>7. \A d \in loop'.batch : \E f \in fs : d.h = rx.ptr[f] /\ d.ev = Reported(f)
  BY <1>4
<1>8. ASSUME NEW c \in Clients PROVE Fresh(c)'
  <2>1. Fresh(c) BY DEF SafeInv
  <2>2. child[c].st = "none" => \A d \in loop'.batch : d.h # Cgi(c)
    BY <1>5, <1>7, EventOrigin
  <2> QED BY <1>2, <1>3, <2>1, <2>2 DEF Fresh
<1>9. BatchInv'
  <2> SUFFICES ASSUME NEW c \in Clients, NEW d \in loop'.batch
               PROVE  /\ d.h = Conn(c) => Conn(c) \in rx.handlers
                      /\ d.h = Cgi(c) /\ "OUT" \in d.ev =>
                           /\ d.ev \cap {"IN", "HUP"} = {}
                           /\ Active(Cgi(c))' => cgi[c].inFd # NoFd
                           /\ \A k \in loop'.batch : k.h = Cgi(c) /\ "OUT" \in k.ev => k = d
    BY <1>2, <1>3, <1>4 DEF BatchInv
  <2>1. PICK f \in fs : d = [h |-> rx.ptr[f], ev |-> Reported(f)] BY <1>4
  <2>2. d.h = rx.ptr[f] /\ d.ev = Reported(f) BY <2>1
  <2>3. d.h = Conn(c) => Conn(c) \in rx.handlers BY <1>5, <2>2, EventOrigin
  <2>4. ASSUME d.h = Cgi(c), "OUT" \in d.ev
        PROVE  /\ d.ev \cap {"IN", "HUP"} = {}
               /\ Active(Cgi(c))' => cgi[c].inFd # NoFd
               /\ \A k \in loop'.batch : k.h = Cgi(c) /\ "OUT" \in k.ev => k = d
    <3>1. /\ f = In(c) /\ d.ev \cap {"IN", "HUP"} = {}
          /\ Cgi(c) \in rx.handlers => cgi[c].inFd # NoFd
      BY <1>5, <2>2, <2>4, EventOrigin
    <3>2. ASSUME NEW k \in loop'.batch, k.h = Cgi(c), "OUT" \in k.ev PROVE k = d
      <4>1. PICK f2 \in fs : k = [h |-> rx.ptr[f2], ev |-> Reported(f2)] BY <1>4
      <4>2. f2 = In(c) BY <1>5, <3>2, <4>1, EventOrigin
      <4> QED BY <2>1, <3>1, <4>1, <4>2
    <3>3. Active(Cgi(c))' => Cgi(c) \in rx.handlers BY <1>3 DEF Active
    <3> QED BY <3>1, <3>2, <3>3
  <2> QED BY <2>3, <2>4
<1>10. EndInv' BY <1>4, <1>6 DEF EndInv
<1> QED BY <1>2, <1>6, <1>8, <1>9, <1>10 DEF SafeInv

\* accept() takes a client in.
LEMMA AcceptSafe ==
  ASSUME TypeInv, SafeInv, NEW c \in Clients, Accept(c)
  PROVE  SafeInv'
<1>1. PICK fd \in Fd :
        /\ rx.tab[fd] = NoFile
        /\ rx' = AddHandler(Open(rx, fd, Sock(c)), Conn(c), fd,
                            ComputeEvents({"WANT_READ"}))
        /\ conn' = [conn EXCEPT ![c] = [NoConn EXCEPT !.fd = fd]]
  BY DEF Accept, Lowest, FreeFds
<1>2. /\ loop.pc = "accept" /\ peer[c].st = "queued" /\ UNCHANGED <<cgi, child>>
      /\ peer' = [peer EXCEPT ![c] = [peer[c] EXCEPT !.st = "up"]]
      /\ loop' = [loop EXCEPT !.pc = IF rx'.failed THEN "threw" ELSE "accept"]
  BY DEF Accept, TypeInv, TypeOK
<1>3. Wired(rx, conn, cgi) /\ ListenWired(rx) /\ Sane(rx)
  BY <1>2 DEF TypeInv, SafeInv, EndInv
<1>4. /\ Conn(c) \notin rx.handlers /\ rx.flags[Conn(c)] = {"WANT_READ"}
      /\ child[c].st = "none"
  BY <1>2 DEF SafeInv, Fresh
<1>5. /\ conn'[c].fd = fd /\ conn'[c].rcvd = 0
      /\ \A d \in Clients \ {c} : conn'[d] = conn[d]
  <2> DEFINE k == [NoConn EXCEPT !.fd = fd]
  <2>1. k.fd = fd /\ k.rcvd = 0 BY DEF NoConn
  <2> HIDE DEF k
  <2>2. conn' = [conn EXCEPT ![c] = k] BY <1>1 DEF k
  <2> QED BY <2>1, <2>2 DEF TypeInv, TypeOK
<1>6. /\ Wired(rx', conn', cgi) /\ ListenWired(rx')
      /\ rx'.handlers = rx.handlers \cup {Conn(c)} /\ rx'.flags = rx.flags
      /\ \A f \in File \ {Sock(c)} : rx'.ptr[f] = rx.ptr[f]
  <2> DEFINE cn2 == conn'
             r2 == AddHandler(Open(rx, fd, Sock(c)), Conn(c), fd,
                              ComputeEvents({"WANT_READ"}))
  <2>1. cn2[c].fd = fd /\ \A d \in Clients \ {c} : cn2[d] = conn[d] BY <1>5
  <2> HIDE DEF cn2
  <2>2. /\ Wired(r2, cn2, cgi) /\ ListenWired(r2)
        /\ r2.handlers = rx.handlers \cup {Conn(c)} /\ r2.flags = rx.flags
        /\ \A f \in File \ {Sock(c)} : r2.ptr[f] = rx.ptr[f]
    BY <1>1, <1>3, <1>4, <2>1, NewConnIsWired
  <2> QED BY <1>1, <2>2 DEF cn2
<1>7. loop'.pc = "accept" /\ loop'.batch = loop.batch
  BY <1>2, <1>6 DEF Wired, TypeInv, TypeOK, Loop
<1>8. /\ peer'[c].st = "up" /\ peer'[c].sent = peer[c].sent /\ peer[c].sent \in Amount
      /\ \A d \in Clients \ {c} : peer'[d] = peer[d]
  <2> DEFINE k == [peer[c] EXCEPT !.st = "up"]
  <2>1. k.st = "up" /\ k.sent = peer[c].sent /\ peer[c].sent \in Amount
    BY FieldsAreTyped DEF PeerState
  <2> HIDE DEF k
  <2>2. peer' = [peer EXCEPT ![c] = k] BY <1>2 DEF k
  <2> QED BY <2>1, <2>2 DEF TypeInv, TypeOK
<1>9. ASSUME NEW d \in Clients PROVE Fresh(d)'
  <2>1. Fresh(d) BY DEF SafeInv
  <2>2. /\ In(d) \in File \ {Sock(c)} /\ Cgi(d) # Conn(c) /\ (d # c => Conn(d) # Conn(c))
    BY NamesAreTyped, NamesDiffer
  <2>3. rx'.ptr[In(d)] = rx.ptr[In(d)] /\ (Cgi(d) \in rx'.handlers <=> Cgi(d) \in rx.handlers)
    BY <1>6, <2>2
  <2>4. CASE d = c
    <3>1. conn'[c].rcvd <= peer'[c].sent BY <1>5, <1>8 DEF Amount
    <3> QED BY <1>2, <1>4, <1>6, <1>7, <1>8, <2>1, <2>3, <2>4, <3>1 DEF Fresh
  <2>5. CASE d # c
    BY <1>2, <1>5, <1>6, <1>7, <1>8, <2>1, <2>2, <2>3, <2>5 DEF Fresh
  <2> QED BY <2>4, <2>5
<1>10. BatchInv'
  <2>1. \A d \in Clients : Active(Cgi(d))' => Active(Cgi(d))
    BY <1>6, NamesDiffer DEF Active, IsInactive
  <2> QED BY <1>2, <1>6, <1>7, <2>1 DEF SafeInv, BatchInv
<1>11. EndInv' BY <1>6, <1>7 DEF EndInv
<1> QED BY <1>2, <1>6, <1>9, <1>10, <1>11 DEF SafeInv

\* accept() fails, or finds no one waiting.
LEMMA AcceptEndsSafe ==
  ASSUME TypeInv, SafeInv, AcceptThrows \/ AcceptDone
  PROVE  SafeInv'
<1>1. /\ loop.pc = "accept" /\ UNCHANGED <<rx, conn, cgi, peer, child>>
      /\ loop'.batch = loop.batch
      /\ loop'.pc \in {"dispatch", "threw"}
  <2>1. CASE AcceptThrows BY <2>1 DEF AcceptThrows, TypeInv, TypeOK, Loop
  <2>2. CASE AcceptDone BY <2>2 DEF AcceptDone, TypeInv, TypeOK, Loop
  <2> QED BY <2>1, <2>2
<1>2. \A c \in Clients : Fresh(c)' BY <1>1 DEF SafeInv, Fresh
<1>3. BatchInv' BY <1>1 DEF SafeInv, BatchInv, Active
<1>4. EndInv' BY <1>1 DEF SafeInv, EndInv
<1> QED BY <1>1, <1>2, <1>3, <1>4 DEF SafeInv

-----------------------------------------------------------------------------
(* The end of a turn, and of the program.                                  *)

\* What the destructors do to the records of the handlers' owners.
LEMMA DestroyEffect ==
  ASSUME TypeInv, NEW r, NEW hs, Destroy(r, hs)
  PROVE  /\ rx' = CloseAll(r, DescriptorsOf(hs, conn, cgi), Held)
         /\ \A c \in Clients :
              /\ Conn(c) \notin hs => conn'[c] = conn[c] /\ peer'[c] = peer[c]
              /\ Conn(c) \in hs =>
                   /\ conn'[c] = NoConn /\ peer'[c] = [peer[c] EXCEPT !.st = "closed"]
                   /\ peer'[c].st = "closed"
              /\ Cgi(c) \notin hs => cgi'[c] = cgi[c]
              /\ child'[c].st = "none" <=> child[c].st = "none"
<1>1. rx' = CloseAll(r, DescriptorsOf(hs, conn, cgi), Held)
  BY DEF Destroy, DescriptorsOf
<1>2. ASSUME NEW c \in Clients
      PROVE  /\ Conn(c) \notin hs => conn'[c] = conn[c] /\ peer'[c] = peer[c]
             /\ Conn(c) \in hs =>
                  /\ conn'[c] = NoConn /\ peer'[c] = [peer[c] EXCEPT !.st = "closed"]
                  /\ peer'[c].st = "closed"
             /\ Cgi(c) \notin hs => cgi'[c] = cgi[c]
             /\ child'[c].st = "none" <=> child[c].st = "none"
  <2>1. [peer[c] EXCEPT !.st = "closed"].st = "closed" BY FieldsAreTyped DEF PeerState
  <2>2. [child[c] EXCEPT !.st = "killed"].st = "killed" BY FieldsAreTyped DEF ChildState
  <2>3. WaitPid(child[c]).st = "none" <=> child[c].st = "none"
    BY FieldsAreTyped DEF WaitPid, ChildState
  <2>4. /\ Conn(c) \notin hs => conn'[c] = conn[c] /\ peer'[c] = peer[c]
        /\ Conn(c) \in hs =>
             /\ conn'[c] = NoConn /\ peer'[c] = [peer[c] EXCEPT !.st = "closed"]
             /\ peer'[c].st = "closed"
    BY <2>1 DEF Destroy
  <2>5. Cgi(c) \notin hs => cgi'[c] = cgi[c] BY DEF Destroy
  <2>6. child'[c].st = "none" <=> child[c].st = "none" BY <2>2, <2>3 DEF Destroy
  <2> QED BY <2>4, <2>5, <2>6
<1> QED BY <1>1, <1>2

\* Clients whose handlers are deleted, or left alone, stay fresh or not.
LEMMA DestroyedStaysFresh ==
  ASSUME TypeInv, SafeInv, NEW r, NEW hs, Destroy(r, hs), NEW c \in Clients,
         rx'.handlers \subseteq rx.handlers \ hs, rx'.flags = rx.flags,
         rx'.ptr[In(c)] \in {rx.ptr[In(c)], NoHandler},
         loop'.batch \subseteq loop.batch
  PROVE  Fresh(c)'
<1>1. /\ Conn(c) \notin hs => conn'[c] = conn[c] /\ peer'[c] = peer[c]
      /\ Conn(c) \in hs => peer'[c].st = "closed"
      /\ child'[c].st = "none" <=> child[c].st = "none"
  BY DestroyEffect
<1>2. Fresh(c) BY DEF SafeInv
<1> QED BY <1>1, <1>2 DEF Fresh

\* removeDeactivatedHandler.
LEMMA SweepSafe ==
  ASSUME TypeInv, SafeInv, Sweep
  PROVE  SafeInv'
<1>1. /\ loop.pc = "dispatch" /\ loop.batch = {}
      /\ Destroy(RemoveDeactivated(rx), Dead(rx))
      /\ loop'.batch = {} /\ loop'.pc \in {"wait", "stopped"}
  BY DEF Sweep, TypeInv, TypeOK, Loop
<1>2. Wired(rx, conn, cgi) /\ ListenWired(rx) /\ Sane(rx)
  BY <1>1 DEF TypeInv, SafeInv, EndInv
<1>3. rx' = CloseAll(RemoveDeactivated(rx), DescriptorsOf(Dead(rx), conn, cgi), Held)
  BY <1>1, DestroyEffect
<1>4. \A c \in Clients : /\ Conn(c) \notin Dead(rx) => conn'[c] = conn[c]
                         /\ Cgi(c) \notin Dead(rx) => cgi'[c] = cgi[c]
  BY <1>1, DestroyEffect
<1>5. /\ Wired(rx', conn', cgi') /\ ListenWired(rx')
      /\ rx'.handlers = rx.handlers \ Dead(rx) /\ rx'.flags = rx.flags
      /\ \A f \in File : rx'.ptr[f] \in {rx.ptr[f], NoHandler}
  <2> DEFINE cn2 == conn'
             cg2 == cgi'
             r2  == CloseAll(RemoveDeactivated(rx), DescriptorsOf(Dead(rx), conn, cgi), Held)
  <2>1. \A c \in Clients : /\ Conn(c) \notin Dead(rx) => cn2[c] = conn[c]
                           /\ Cgi(c) \notin Dead(rx) => cg2[c] = cgi[c]
    BY <1>4
  <2> HIDE DEF cn2, cg2
  <2>2. /\ Wired(r2, cn2, cg2) /\ ListenWired(r2)
        /\ r2.handlers = rx.handlers \ Dead(rx) /\ r2.flags = rx.flags
        /\ \A f \in File : r2.ptr[f] \in {rx.ptr[f], NoHandler}
    BY <1>2, <2>1, SweptIsWired
  <2> QED BY <1>3, <2>2 DEF cn2, cg2
<1>6. \A c \in Clients : Fresh(c)'
  BY <1>1, <1>5, NamesAreTyped, DestroyedStaysFresh
<1>7. BatchInv' BY <1>1 DEF BatchInv
<1>8. EndInv' BY <1>1, <1>5 DEF EndInv
<1> QED BY <1>5, <1>6, <1>7, <1>8 DEF SafeInv

\* main() returns, or catches an exception.
LEMMA ShutdownSafe ==
  ASSUME TypeInv, SafeInv, Shutdown
  PROVE  SafeInv'
<1>1. /\ loop.pc \in {"stopped", "threw"} /\ Destroy(Teardown(rx), rx.handlers)
      /\ loop'.batch = {} /\ loop'.pc = "gone"
  BY DEF Shutdown, TypeInv, TypeOK, Loop
<1>2. Wired(rx, conn, cgi) /\ Sane(rx) BY DEF TypeInv, SafeInv
<1>3. rx' = CloseAll(Teardown(rx), DescriptorsOf(rx.handlers, conn, cgi), Held)
  BY <1>1, DestroyEffect
<1>4. /\ Wired(rx', conn', cgi') /\ rx'.handlers = {} /\ rx'.tab[ListenFd] = NoFile
      /\ \A g \in Fd : rx'.fdMap[g] = NoHandler
      /\ rx'.flags = rx.flags /\ \A f \in File : rx'.ptr[f] = NoHandler
  <2> DEFINE cn2 == conn'
             cg2 == cgi'
             hs  == rx.handlers
             r2  == CloseAll(Teardown(rx), DescriptorsOf(hs, conn, cgi), Held)
  <2>0. /\ hs \in SUBSET Handler /\ \A h \in Handler : h \in hs <=> h \in rx.handlers
        /\ r2 = CloseAll(Teardown(rx), DescriptorsOf(hs, conn, cgi), Held)
    BY <1>2 DEF Sane, ReactorState
  <2> HIDE DEF cn2, cg2, hs, r2
  <2>1. /\ Wired(r2, cn2, cg2) /\ r2.handlers = {} /\ r2.tab[ListenFd] = NoFile
        /\ \A g \in Fd : r2.fdMap[g] = NoHandler
        /\ r2.flags = rx.flags /\ \A f \in File : r2.ptr[f] = NoHandler
    BY <1>2, <2>0, TornDownIsWired
  <2> QED BY <1>3, <2>1 DEF cn2, cg2, hs, r2
<1>5. \A c \in Clients : Fresh(c)'
  BY <1>1, <1>4, NamesAreTyped, DestroyedStaysFresh
<1>6. BatchInv' BY <1>1 DEF BatchInv
<1>7. EndInv' BY <1>1, <1>4 DEF EndInv
<1> QED BY <1>4, <1>5, <1>6, <1>7 DEF SafeInv

\* The signal ends the wait, or will end the loop.
LEMMA SigintSafe ==
  ASSUME TypeInv, SafeInv, Sigint
  PROVE  SafeInv'
<1>1. /\ UNCHANGED <<rx, conn, cgi, peer, child>> /\ loop'.batch = loop.batch
      /\ loop'.pc = loop.pc \/ (loop.pc = "wait" /\ loop'.pc = "stopped")
  BY DEF Sigint, TypeInv, TypeOK, Loop
<1>2. \A c \in Clients : Fresh(c)' BY <1>1 DEF SafeInv, Fresh
<1>3. BatchInv' BY <1>1 DEF SafeInv, BatchInv, Active
<1>4. EndInv' BY <1>1 DEF SafeInv, EndInv
<1> QED BY <1>1, <1>2, <1>3, <1>4 DEF SafeInv

-----------------------------------------------------------------------------
(* Clients and scripts.                                                    *)

\* Something that happens outside changes epoll's list, and at most forgets files.
LEMMA OutsideStepSafe ==
  ASSUME TypeInv, SafeInv, Running, UNCHANGED <<loop, conn, cgi>>,
         Wired(rx', conn, cgi), ListenWired(rx'), rx'.handlers = rx.handlers,
         rx'.flags = rx.flags,
         \A f \in File : rx'.ptr[f] \in {rx.ptr[f], NoHandler},
         \A c \in Clients :
           /\ peer[c].sent <= peer'[c].sent
           /\ peer'[c].st = peer[c].st
                \/ (peer[c].st \in {"idle", "queued"} /\ peer'[c].st \in {"idle", "queued"})
           /\ child'[c].st = "none" <=> child[c].st = "none",
         peer' \in [Clients -> PeerState]
  PROVE  SafeInv'
<1>1. ASSUME NEW c \in Clients PROVE Fresh(c)'
  <2>1. Fresh(c) BY DEF SafeInv
  <2>2. /\ conn[c].rcvd \in Amount /\ peer[c].sent \in Amount /\ peer'[c].sent \in Amount
    BY FieldsAreTyped DEF ConnState, PeerState
  <2>3. conn[c].rcvd <= peer[c].sent => conn[c].rcvd <= peer'[c].sent
    BY <2>2 DEF Amount
  <2>4. In(c) \in File BY NamesAreTyped
  <2> QED BY <2>1, <2>3, <2>4 DEF Fresh
<1>2. BatchInv'
  <2>1. BatchInv BY DEF SafeInv
  <2>2. \A c \in Clients : Active(Cgi(c))' <=> Active(Cgi(c)) BY DEF Active, IsInactive
  <2> QED BY <2>1, <2>2 DEF BatchInv
<1>3. EndInv' BY DEF EndInv, Running
<1> QED BY <1>1, <1>2, <1>3 DEF SafeInv

\* A client connects, sends, closes its side or resets.
LEMMA ClientSafe ==
  ASSUME TypeInv, TypeInv', SafeInv, NEW c \in Clients, Client(c)
  PROVE  SafeInv'
<1>1. Running /\ UNCHANGED <<loop, conn, cgi, child>>
  BY DEF Client, Connect, Send, Fin, Reset, Connected
<1>2. Wired(rx, conn, cgi) /\ ListenWired(rx) /\ Sane(rx)
  BY <1>1 DEF TypeInv, SafeInv, EndInv, Running
<1>3. PICK f \in File, b \in SUBSET Bit : rx' = Wake(rx, f, b)
  <2>1. Listening \in File /\ Sock(c) \in File /\ {"IN"} \in SUBSET Bit /\ Bit \in SUBSET Bit
    BY NamesAreDistinct, NamesAreTyped DEF Bit
  <2> QED BY <2>1 DEF Client, Connect, Send, Fin, Reset
<1>4. /\ rx'.handlers = rx.handlers /\ rx'.flags = rx.flags
      /\ rx'.fdMap = rx.fdMap /\ rx'.tab = rx.tab /\ rx'.ptr = rx.ptr
      /\ rx'.mask = rx.mask /\ rx'.failed = rx.failed
  BY <1>2, <1>3, WakeEffect
<1>5. Wired(rx', conn, cgi) /\ ListenWired(rx') BY <1>2, <1>4, WiredByFields
<1>6. ASSUME NEW d \in Clients
      PROVE  /\ peer[d].sent <= peer'[d].sent
             /\ peer'[d].st = peer[d].st
                  \/ (peer[d].st \in {"idle", "queued"} /\ peer'[d].st \in {"idle", "queued"})
  <2> DEFINE p == peer[c]
  <2>1. p \in PeerState /\ peer[d].sent \in 0..2 BY FieldsAreTyped DEF PeerState, Amount
  <2>2. CASE Connect(c)
    <3>1. peer' = [peer EXCEPT ![c] = [p EXCEPT !.st = "queued"]] /\ p.st = "idle"
      BY <2>2 DEF Connect
    <3>2. [p EXCEPT !.st = "queued"].st = "queued" /\ [p EXCEPT !.st = "queued"].sent = p.sent
      BY <2>1 DEF PeerState
    <3> QED BY <2>1, <3>1, <3>2 DEF TypeInv, TypeOK
  <2>3. CASE Send(c)
    <3>1. PICK n \in Amount : n > p.sent /\ peer' = [peer EXCEPT ![c] = [p EXCEPT !.sent = n]]
      BY <2>3 DEF Send
    <3>2. [p EXCEPT !.sent = n].st = p.st /\ [p EXCEPT !.sent = n].sent = n
      BY <2>1 DEF PeerState
    <3>3. p.sent <= n BY <2>1, <3>1 DEF Amount, PeerState
    <3> QED BY <2>1, <3>1, <3>2, <3>3 DEF TypeInv, TypeOK
  <2>4. CASE Fin(c)
    <3>1. peer' = [peer EXCEPT ![c] = [p EXCEPT !.fin = TRUE]] BY <2>4 DEF Fin
    <3>2. [p EXCEPT !.fin = TRUE].st = p.st /\ [p EXCEPT !.fin = TRUE].sent = p.sent
      BY <2>1 DEF PeerState
    <3> QED BY <2>1, <3>1, <3>2 DEF TypeInv, TypeOK
  <2>5. CASE Reset(c)
    <3>1. peer' = [peer EXCEPT ![c] = [p EXCEPT !.rst = TRUE]] BY <2>5 DEF Reset
    <3>2. [p EXCEPT !.rst = TRUE].st = p.st /\ [p EXCEPT !.rst = TRUE].sent = p.sent
      BY <2>1 DEF PeerState
    <3> QED BY <2>1, <3>1, <3>2 DEF TypeInv, TypeOK
  <2> QED BY <2>2, <2>3, <2>4, <2>5 DEF Client
<1>7. peer' \in [Clients -> PeerState] BY DEF TypeInv, TypeOK
<1> QED BY <1>1, <1>4, <1>5, <1>6, <1>7, OutsideStepSafe

\* What a script's step does to the reactor: nothing but to wake it, or to end
\* registrations of files nobody has open any more.
LEMMA ScriptEffect ==
  ASSUME TypeInv, SafeInv, NEW c \in Clients, Script(c)
  PROVE  /\ Running /\ UNCHANGED <<loop, conn, cgi, peer>>
         /\ rx'.handlers = rx.handlers /\ rx'.flags = rx.flags
         /\ Wired(rx', conn, cgi) /\ ListenWired(rx')
         /\ \A f \in File : rx'.ptr[f] \in {rx.ptr[f], NoHandler}
<1>1. Running /\ UNCHANGED <<loop, conn, cgi, peer>>
  BY DEF Script, ChildRead, ChildWrite, ChildCloseOut, ChildExit
<1>2. Wired(rx, conn, cgi) /\ ListenWired(rx) /\ Sane(rx)
  BY <1>1 DEF TypeInv, SafeInv, EndInv, Running
<1>3. In(c) \in File /\ Out(c) \in File BY NamesAreTyped
<1>4. /\ rx'.handlers = rx.handlers /\ rx'.flags = rx.flags
      /\ Wired(rx', conn, cgi) /\ ListenWired(rx')
      /\ \A f \in File : rx'.ptr[f] \in {rx.ptr[f], NoHandler}
  <2>1. CASE ChildRead(c) \/ ChildWrite(c) \/ ChildCloseOut(c)
    <3>1. PICK f \in File, b \in SUBSET Bit : rx' = Wake(rx, f, b)
      <4>1. {"IN"} \in SUBSET Bit /\ {"OUT"} \in SUBSET Bit /\ {"IN", "HUP"} \in SUBSET Bit
        BY DEF Bit
      <4> QED BY <1>3, <2>1, <4>1 DEF ChildRead, ChildWrite, ChildCloseOut
    <3>2. /\ rx'.handlers = rx.handlers /\ rx'.flags = rx.flags
          /\ rx'.fdMap = rx.fdMap /\ rx'.tab = rx.tab /\ rx'.ptr = rx.ptr
          /\ rx'.mask = rx.mask /\ rx'.failed = rx.failed
      BY <1>2, <3>1, WakeEffect
    <3> QED BY <1>2, <3>2, WiredByFields
  <2>2. CASE ChildExit(c)
    <3> DEFINE orphans == child[c].holds
                 \ (OpenFiles \cup UNION {child[b].holds : b \in Clients \ {c}})
               r1 == Forget(rx, orphans)
               r2 == Wake(r1, In(c), {"OUT", "ERR"})
    <3>1. rx' = Wake(r2, Out(c), {"IN", "HUP"}) BY <2>2 DEF ChildExit
    <3>2. {"OUT", "ERR"} \in SUBSET Bit /\ {"IN", "HUP"} \in SUBSET Bit BY DEF Bit
    <3>3. orphans \subseteq File BY FieldsAreTyped DEF ChildState
    <3>4. \A fd \in Fd : rx.tab[fd] \notin orphans
      BY <3>3, NamesAreDistinct DEF OpenFiles
    <3> HIDE DEF orphans
    <3>5. Wired(r1, conn, cgi) /\ ListenWired(r1)
      BY <1>2, <3>4, OrphansForgottenIsWired
    <3>6. /\ r1.handlers = rx.handlers /\ r1.flags = rx.flags /\ Sane(r1)
          /\ \A f \in File : r1.ptr[f] \in {rx.ptr[f], NoHandler}
      BY <1>2, ForgetEffect, ForgetIsSane
    <3> HIDE DEF r1
    <3>7. /\ Sane(r2) /\ r2.handlers = r1.handlers /\ r2.flags = r1.flags
          /\ r2.fdMap = r1.fdMap /\ r2.tab = r1.tab /\ r2.ptr = r1.ptr
          /\ r2.mask = r1.mask /\ r2.failed = r1.failed
      BY <1>3, <3>2, <3>6, WakeEffect
    <3> HIDE DEF r2
    <3>8. /\ rx'.handlers = r2.handlers /\ rx'.flags = r2.flags
          /\ rx'.fdMap = r2.fdMap /\ rx'.tab = r2.tab /\ rx'.ptr = r2.ptr
          /\ rx'.mask = r2.mask /\ rx'.failed = r2.failed
      BY <1>3, <3>1, <3>2, <3>7, WakeEffect
    <3>9. Wired(r2, conn, cgi) /\ ListenWired(r2) BY <3>5, <3>7, WiredByFields
    <3>10. Wired(rx', conn, cgi) /\ ListenWired(rx') BY <3>8, <3>9, WiredByFields
    <3> QED BY <3>6, <3>7, <3>8, <3>10
  <2> QED BY <2>1, <2>2 DEF Script
<1> QED BY <1>1, <1>4

\* A script reads, writes, closes its output or exits.
LEMMA ScriptSafe ==
  ASSUME TypeInv, TypeInv', SafeInv, NEW c \in Clients, Script(c)
  PROVE  SafeInv'
<1>1. Running /\ UNCHANGED <<loop, conn, cgi, peer>> BY ScriptEffect
<1>2. /\ rx'.handlers = rx.handlers /\ rx'.flags = rx.flags
      /\ Wired(rx', conn, cgi) /\ ListenWired(rx')
      /\ \A f \in File : rx'.ptr[f] \in {rx.ptr[f], NoHandler}
  BY ScriptEffect
<1>3. ASSUME NEW d \in Clients PROVE child'[d].st = "none" <=> child[d].st = "none"
  <2> DEFINE s == child[c]
  <2>1. s \in ChildState /\ s.st # "none"
    BY FieldsAreTyped DEF Script, ChildRead, ChildWrite, ChildCloseOut, ChildExit, MayExit
  <2>2. CASE ChildRead(c)
    <3> DEFINE k == [s EXCEPT !.inPipe = @ - 1]
    <3>1. k.st = s.st BY <2>1 DEF ChildState
    <3>2. child' = [child EXCEPT ![c] = k] BY <2>2 DEF ChildRead
    <3> HIDE DEF k
    <3> QED BY <3>1, <3>2 DEF TypeInv, TypeOK
  <2>3. CASE ChildWrite(c)
    <3> DEFINE k == [s EXCEPT !.wrote = @ + 1, !.outPipe = @ + 1]
    <3>1. k.st = s.st BY <2>1 DEF ChildState
    <3>2. child' = [child EXCEPT ![c] = k] BY <2>3 DEF ChildWrite
    <3> HIDE DEF k
    <3> QED BY <3>1, <3>2 DEF TypeInv, TypeOK
  <2>4. CASE ChildCloseOut(c)
    <3> DEFINE k == [s EXCEPT !.outOpen = FALSE]
    <3>1. k.st = s.st BY <2>1 DEF ChildState
    <3>2. child' = [child EXCEPT ![c] = k] BY <2>4 DEF ChildCloseOut
    <3> HIDE DEF k
    <3> QED BY <3>1, <3>2 DEF TypeInv, TypeOK
  <2>5. CASE ChildExit(c)
    <3> DEFINE k == [s EXCEPT !.st = "zombie", !.outOpen = FALSE, !.inPipe = 0, !.holds = {}]
    <3>1. k.st = "zombie" BY <2>1 DEF ChildState
    <3>2. child' = [child EXCEPT ![c] = k] BY <2>5 DEF ChildExit
    <3> HIDE DEF k
    <3> QED BY <2>1, <3>1, <3>2 DEF TypeInv, TypeOK
  <2> QED BY <2>2, <2>3, <2>4, <2>5 DEF Script
<1>4. \A d \in Clients : peer[d].sent <= peer'[d].sent
  BY <1>1, FieldsAreTyped DEF PeerState, Amount
<1>5. peer' \in [Clients -> PeerState] BY DEF TypeInv, TypeOK
<1> QED BY <1>1, <1>2, <1>3, <1>4, <1>5, OutsideStepSafe

-----------------------------------------------------------------------------
(* SafeInv is an invariant.                                                *)

\* At the start there is the listening socket and nothing else.
LEMMA InitSafe == Init => SafeInv
<1> SUFFICES ASSUME Init PROVE SafeInv OBVIOUS
<1> DEFINE r == InitReactor
<1>1. /\ Acceptor \in Handler /\ Listening \in File /\ ListenFd \in Fd
      /\ Acceptor # NoHandler /\ Listening # NoFile
  BY NamesAreDistinct, NamesDiffer
<1>2. /\ r.handlers = {Acceptor} /\ ~r.failed
      /\ \A h \in Handler : r.flags[h] = {"WANT_READ"}
      /\ \A fd \in Fd : /\ r.fdMap[fd] = IF fd = ListenFd THEN Acceptor ELSE NoHandler
                        /\ r.tab[fd] = IF fd = ListenFd THEN Listening ELSE NoFile
      /\ \A f \in File : r.ptr[f] = IF f = Listening THEN Acceptor ELSE NoHandler
  BY DEF InitReactor
<1> HIDE DEF r
<1>3. /\ rx = r /\ loop.pc = "wait" /\ loop.batch = {}
      /\ \A c \in Clients : /\ conn[c].rcvd = 0 /\ peer[c].st = "idle"
                            /\ child[c].st = "none"
  BY DEF Init, r, NoConn, NoChild
<1>4. \A c \in Clients :
        /\ Conn(c) \in Handler /\ Cgi(c) \in Handler
        /\ Conn(c) # Acceptor /\ Cgi(c) # Acceptor
        /\ Conn(c) # NoHandler /\ Cgi(c) # NoHandler
        /\ Sock(c) \in File /\ In(c) \in File /\ Out(c) \in File
        /\ Sock(c) # Listening /\ In(c) # Listening /\ Out(c) # Listening
        /\ Sock(c) # NoFile /\ In(c) # NoFile /\ Out(c) # NoFile
  BY NamesAreTyped, NamesDiffer
<1>5. ListenWired(r) BY <1>1, <1>2 DEF ListenWired, Lives, IsInactive
<1>6. ASSUME NEW c \in Clients, NEW fd PROVE ConnWired(r, c, fd)
  BY <1>1, <1>2, <1>4 DEF ConnWired, Lives
<1>7. ASSUME NEW c \in Clients, NEW ins, NEW outs PROVE CgiWired(r, c, ins, outs)
  BY <1>1, <1>2, <1>4 DEF CgiWired, EndWired
<1>8. Wired(r, conn, cgi) BY <1>1, <1>2, <1>6, <1>7 DEF Wired
<1>9. ASSUME NEW c \in Clients PROVE Fresh(c)
  <2>1. /\ Conn(c) \notin r.handlers /\ Cgi(c) \notin r.handlers
        /\ r.flags[Conn(c)] = {"WANT_READ"} /\ r.flags[Cgi(c)] = {"WANT_READ"}
        /\ r.ptr[In(c)] = NoHandler
    BY <1>2, <1>4
  <2>2. child[c].st = "none" /\ loop.batch = {} BY <1>3
  <2> QED BY <1>3, <2>1, <2>2 DEF Fresh
<1>10. BatchInv BY <1>3 DEF BatchInv
<1>11. EndInv BY <1>3, <1>5 DEF EndInv
<1> QED BY <1>3, <1>8, <1>9, <1>10, <1>11 DEF SafeInv

\* One event is handled.
LEMMA DispatchSafe ==
  ASSUME TypeInv, TypeInv', SafeInv, NEW e \in loop.batch, Dispatch(e)
  PROVE  SafeInv'
<1>1. CASE SkipInactive(e) \/ UseFreed(e) \/ AcceptorHandleRead(e)
  BY <1>1, QuietStepsSafe
<1>2. ASSUME NEW c \in Clients, ConnectionStep(e, c) PROVE SafeInv'
  BY <1>2, ConnectionHandleReadSafe, StartCgiSafe, CgiFailsSafe, HandleCgiSafe,
     SendAllSafe, SendFailsSafe, QuietStepsSafe DEF ConnectionStep
<1>3. ASSUME NEW c \in Clients, CgiStep(e, c) PROVE SafeInv'
  BY <1>3, CgiHandleReadSafe, CgiHandleEofSafe, CgiHandleWriteSafe,
     CgiHandleErrorSafe, QuietStepsSafe DEF CgiStep
<1> QED BY <1>1, <1>2, <1>3 DEF Dispatch

\* SafeInv is inductive.
LEMMA NextSafe == TypeInv /\ TypeInv' /\ SafeInv /\ [Next]_vars => SafeInv'
<1> SUFFICES ASSUME TypeInv, TypeInv', SafeInv, [Next]_vars PROVE SafeInv' OBVIOUS
<1>1. CASE UNCHANGED vars
  BY <1>1 DEF vars, SafeInv, EndInv, Fresh, BatchInv, Active, IsInactive
<1>2. CASE Server
  BY <1>2, EpollWaitSafe, SweepSafe, ShutdownSafe, DispatchSafe, AcceptSafe,
     AcceptEndsSafe DEF Server
<1> QED BY <1>1, <1>2, ClientSafe, ScriptSafe, SigintSafe DEF Next

\* Handlers, descriptors, open files, registrations and events hang together as
\* WebservWiring says, for any clients, scripts, limits and signals.
THEOREM Safety == Spec => []SafeInv
<1>1. SafeInv /\ TypeInv /\ TypeInv' /\ [Next]_vars => SafeInv' BY NextSafe
<1> QED BY InitSafe, Typing, <1>1, PTL DEF Spec

-----------------------------------------------------------------------------
(* What follows from it.                                                   *)

\* No epoll_ctl of the server ever fails, so no handler method throws: each one
\* adds only what is open and not watched, and modifies or deletes only what is.
THEOREM EpollNeverThrows == Spec => []EpollNeverFails
<1>1. SafeInv => EpollNeverFails BY DEF SafeInv, Wired, EpollNeverFails
<1> QED BY <1>1, Safety, PTL

\* What fd_map_ has is open, allocated, and watched for the same handler.
THEOREM MapIsWatched == Spec => []FdMapIsWatched
<1>1. ASSUME TypeInv, SafeInv PROVE FdMapIsWatched
  <2> SUFFICES ASSUME NEW fd \in Fd, rx.fdMap[fd] # NoHandler
               PROVE  /\ rx.fdMap[fd] \in rx.handlers /\ rx.tab[fd] # NoFile
                      /\ rx.ptr[rx.tab[fd]] = rx.fdMap[fd]
    BY DEF FdMapIsWatched
  <2>1. Wired(rx, conn, cgi) /\ Sane(rx) BY <1>1 DEF SafeInv, TypeInv
  <2>2. ListenWired(rx) BY <1>1, NamesAreDistinct DEF SafeInv, EndInv
  <2>3. NoFile \notin File BY NamesAreDistinct
  <2> QED BY <2>1, <2>2, <2>3, MappedIsWatched
<1>2. TypeInv /\ SafeInv => FdMapIsWatched BY <1>1
<1> QED BY <1>2, Safety, Typing, PTL

\* A connection that goes on is watched for exactly what its flags want.
THEOREM ConnectionsAreWatched == Spec => []ConnectionIsWatched
<1>1. ASSUME SafeInv PROVE ConnectionIsWatched
  <2>1. \A c \in Clients : ConnWired(rx, c, conn[c].fd) BY <1>1 DEF SafeInv, Wired
  <2> QED BY <2>1 DEF ConnectionIsWatched, ConnWired, Lives, Active
<1>2. SafeInv => ConnectionIsWatched BY <1>1
<1> QED BY <1>2, Safety, PTL

\* An open descriptor has an allocated handler that knows it and will close it.
THEOREM DescriptorsAreOwned == Spec => []NoDescriptorLeak
<1>1. ASSUME TypeInv, SafeInv PROVE NoDescriptorLeak
  <2> SUFFICES ASSUME NEW fd \in Fd, fd # ListenFd, rx.tab[fd] # NoFile
               PROVE \E c \in Clients :
                 \/ rx.tab[fd] = Sock(c) /\ Conn(c) \in rx.handlers /\ conn[c].fd = fd
                 \/ rx.tab[fd] = In(c) /\ Cgi(c) \in rx.handlers /\ cgi[c].inFd = fd
                 \/ rx.tab[fd] = Out(c) /\ Cgi(c) \in rx.handlers /\ cgi[c].outFd = fd
    BY DEF NoDescriptorLeak
  <2>1. Wired(rx, conn, cgi) BY <1>1 DEF SafeInv
  <2>2. rx.tab[fd] \in File BY <1>1 DEF TypeInv, Sane, ReactorState
  <2>3. rx.tab[fd] # Listening BY <2>1 DEF Wired
  <2>4. PICK c \in Clients : rx.tab[fd] \in {Sock(c), In(c), Out(c)}
    BY <2>2, <2>3, NamesAreAll
  <2>5. /\ ConnWired(rx, c, conn[c].fd)
        /\ EndWired(rx, Cgi(c), In(c), cgi[c].inFd)
        /\ EndWired(rx, Cgi(c), Out(c), cgi[c].outFd)
    BY <2>1 DEF Wired, CgiWired
  <2> QED BY <2>4, <2>5 DEF ConnWired, EndWired
<1>2. TypeInv /\ SafeInv => NoDescriptorLeak BY <1>1
<1> QED BY <1>2, Safety, Typing, PTL

\* Nothing that is still to be handled points to a connection that is deleted.
THEOREM ConnectionsDoNotDangle == Spec => []ConnectionNeverDangles
<1>1. ASSUME SafeInv PROVE ConnectionNeverDangles
  <2>1. \A c \in Clients : ConnWired(rx, c, conn[c].fd) BY <1>1 DEF SafeInv, Wired
  <2>2. BatchInv BY <1>1 DEF SafeInv
  <2> QED BY <2>1, <2>2 DEF ConnectionNeverDangles, ConnWired, Lives, BatchInv
<1>2. SafeInv => ConnectionNeverDangles BY <1>1
<1> QED BY <1>2, Safety, PTL
===============================================================================
