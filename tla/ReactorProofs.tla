---------------------------- MODULE ReactorProofs ----------------------------
(***************************************************************************)
(* What each method of the Reactor, and each thing that befalls its kernel *)
(* tables, does to a reactor state: one that is sane it leaves sane, and   *)
(* one whose handlers, descriptors and files are wired it leaves wired,    *)
(* for each the fields it changes are named.                               *)
(***************************************************************************)
EXTENDS WebservWiring, TLAPS

\* A reactor state in which epoll never has to poll a file it does not watch.
Sane(r) == r \in ReactorState /\ \A f \in r.edge : r.ptr[f] # NoHandler

-----------------------------------------------------------------------------
(* Names.                                                                  *)

\* The handlers and files of a client are what their names say they are.
LEMMA NamesAreTyped ==
  ASSUME NEW c \in Clients
  PROVE  /\ Conn(c) \in Handler /\ Cgi(c) \in Handler
         /\ Sock(c) \in File /\ In(c) \in File /\ Out(c) \in File
BY DEF Conn, Cgi, Handler, Sock, In, Out, File

\* The acceptor and the listening socket are a handler and a file, the absent
\* handler and file are not, and the listening socket has a descriptor.
LEMMA NamesAreDistinct ==
  /\ Acceptor \in Handler /\ Listening \in File
  /\ NoHandler \notin Handler /\ NoFile \notin File /\ NoFd \notin Fd
  /\ ListenFd \in Fd
BY ReactorAssumption DEF Acceptor, Handler, Listening, File, NoHandler, NoFile,
                        NoFd, Fd, ListenFd

-----------------------------------------------------------------------------
(* The flags.                                                              *)

\* Setting flags of a handler changes nothing but those flags.
LEMMA FlagsAreSane ==
  ASSUME NEW r, Sane(r), NEW h \in Handler, NEW fl \in SUBSET Flag
  PROVE  /\ Sane(Deactivate(r, h)) /\ Sane(SetFlags(r, h, fl))
         /\ Sane(SetWantWrite(r, h)) /\ Sane(ClearWantWrite(r, h))
BY DEF Sane, ReactorState, Deactivate, SetFlags, SetWantWrite, ClearWantWrite, Flag

-----------------------------------------------------------------------------
(* The kernel.                                                             *)

\* A descriptor for a new file is opened.
LEMMA OpenIsSane ==
  ASSUME NEW r, Sane(r), NEW fd \in Fd, NEW f \in File
  PROVE  Sane(Open(r, fd, f))
BY DEF Sane, ReactorState, Open

\* Something happens to a file.
LEMMA WakeIsSane ==
  ASSUME NEW r, Sane(r), NEW f \in File, NEW b \in SUBSET Bit
  PROVE  Sane(Wake(r, f, b))
BY DEF Sane, ReactorState, Wake

\* Registrations disappear, and the files leave the list with them.
LEMMA ForgetIsSane ==
  ASSUME NEW r, Sane(r), NEW fs
  PROVE  Sane(Forget(r, fs))
BY DEF Sane, ReactorState, Forget

\* Descriptors are closed, whoever else holds their files.
LEMMA CloseAllIsSane ==
  ASSUME NEW r, Sane(r), NEW fds, NEW held
  PROVE  Sane(CloseAll(r, fds, held))
<1> DEFINE r1 == Forget(r, {r.tab[fd] : fd \in fds \cap Fd} \ held)
<1>1. Sane(r1) BY ForgetIsSane
<1> HIDE DEF r1
<1>2. Sane([r1 EXCEPT !.tab = [fd \in Fd |-> IF fd \in fds THEN NoFile ELSE @[fd]]])
  BY <1>1 DEF Sane, ReactorState
<1> QED BY <1>2 DEF CloseAll, r1

-----------------------------------------------------------------------------
(* The methods.                                                            *)

\* addHandler, whether EPOLL_CTL_ADD succeeds or not.
LEMMA AddHandlerIsSane ==
  ASSUME NEW r, Sane(r), NEW h \in Handler, NEW fd \in Fd,
         NEW ev \in SUBSET {"IN", "OUT"}
  PROVE  Sane(AddHandler(r, h, fd, ev))
<1>1. CASE IsOpen(r, fd) /\ ~Registered(r, fd)
  <2> DEFINE f  == r.tab[fd]
             r1 == [r EXCEPT !.handlers = @ \cup {h}, !.fdMap[fd] = h]
             r2 == [r1 EXCEPT !.ptr[f] = h, !.edge = @ \cup {f}]
             r3 == [r2 EXCEPT !.mask[f] = ev]
  <2>1. f \in File BY <1>1 DEF IsOpen, Sane, ReactorState
  <2>2. AddHandler(r, h, fd, ev) = r3 BY <1>1 DEF AddHandler, Sane, ReactorState
  <2> HIDE DEF f
  <2>3. Sane(r1) BY DEF Sane, ReactorState
  <2> HIDE DEF r1
  <2>4. Sane(r2)
    <3>1. h # NoHandler BY NamesAreDistinct
    <3>2. r1 \in ReactorState /\ \A g \in r1.edge : r1.ptr[g] # NoHandler
      BY <2>3 DEF Sane
    <3>3. r2 \in ReactorState BY <2>1, <3>2 DEF ReactorState
    <3>4. /\ r2.edge = r1.edge \cup {f}
          /\ \A g \in File : r2.ptr[g] = IF g = f THEN h ELSE r1.ptr[g]
      BY <2>1, <3>2 DEF ReactorState
    <3>5. r1.edge \subseteq File BY <3>2 DEF ReactorState
    <3> QED BY <2>1, <3>1, <3>2, <3>3, <3>4, <3>5 DEF Sane
  <2> HIDE DEF r2
  <2>5. Sane(r3) BY <2>1, <2>4 DEF Sane, ReactorState
  <2> QED BY <2>2, <2>5 
<1>2. CASE ~(IsOpen(r, fd) /\ ~Registered(r, fd))
  BY <1>2 DEF AddHandler, Sane, ReactorState
<1> QED BY <1>1, <1>2

LEMMA AddHandlerFdIsSane ==
  ASSUME NEW r, Sane(r), NEW h \in Handler, NEW fd \in Fd,
         NEW ev \in SUBSET {"IN", "OUT"}
  PROVE  Sane(AddHandlerFd(r, h, fd, ev))
<1> DEFINE r1 == AddHandler(r, h, fd, ev)
<1>1. Sane(r1) BY AddHandlerIsSane
<1> HIDE DEF r1
<1>2. Sane([r1 EXCEPT !.handlers = @ \cup {h}]) BY <1>1 DEF Sane, ReactorState
<1> QED BY <1>2 DEF AddHandlerFd, r1

\* EPOLL_CTL_MOD, whether it succeeds or not.
LEMMA ModifyIsSane ==
  ASSUME NEW r, Sane(r), NEW fds \in SUBSET Fd, NEW h \in Handler
  PROVE  Sane(Modify(r, fds, h))
<1>1. CASE \A fd \in fds : Registered(r, fd)
  <2>1. {r.tab[fd] : fd \in fds} \subseteq File
    BY <1>1 DEF Registered, IsOpen, Sane, ReactorState
  <2>2. ComputeEvents(r.flags[h]) \in SUBSET {"IN", "OUT"} BY DEF ComputeEvents
  <2> QED BY <1>1, <2>1, <2>2, NamesAreDistinct DEF Modify, Sane, ReactorState
<1>2. CASE ~ \A fd \in fds : Registered(r, fd)
  BY <1>2 DEF Modify, Sane, ReactorState
<1> QED BY <1>1, <1>2

\* updateHandler.
LEMMA UpdateHandlerIsSane ==
  ASSUME NEW r, Sane(r), NEW h \in Handler
  PROVE  Sane(UpdateHandler(r, h))
BY ModifyIsSane DEF UpdateHandler, FdsOf

\* deleteHandler, also of a descriptor epoll does not know.
LEMMA DeleteHandlerIsSane ==
  ASSUME NEW r, Sane(r), NEW fd \in Fd \cup {NoFd}
  PROVE  Sane(DeleteHandler(r, fd))
<1>1. CASE ~Registered(r, fd)
  BY <1>1 DEF DeleteHandler, Sane, ReactorState
<1>2. CASE Registered(r, fd)
  <2> DEFINE r1 == Forget(r, {r.tab[fd]})
             h  == r.fdMap[fd]
             r2 == [r1 EXCEPT !.fdMap[fd] = NoHandler]
  <2>1. Sane(r1) BY ForgetIsSane
  <2>2. fd \in Fd /\ h \in Handler \cup {NoHandler}
    BY <1>2 DEF Registered, IsOpen, Sane, ReactorState
  <2> HIDE DEF r1, h
  <2>3. Sane(r2) BY <2>1, <2>2 DEF Sane, ReactorState
  <2> HIDE DEF r2
  <2>4. h # NoHandler => Sane(Deactivate(r2, h)) BY <2>2, <2>3, FlagsAreSane
  <2> QED BY <1>2, <2>1, <2>3, <2>4 DEF DeleteHandler, r1, h, r2
<1> QED BY <1>1, <1>2

\* wakeUpHandler, whoever has the descriptor, or no one.
LEMMA WakeUpHandlerIsSane ==
  ASSUME NEW r, Sane(r), NEW fd
  PROVE  Sane(WakeUpHandler(r, fd))
<1>1. CASE fd \notin Fd \/ r.fdMap[fd] = NoHandler \/ IsInactive(r, r.fdMap[fd])
  BY <1>1 DEF WakeUpHandler
<1>2. CASE ~(fd \notin Fd \/ r.fdMap[fd] = NoHandler \/ IsInactive(r, r.fdMap[fd]))
  <2> DEFINE h == r.fdMap[fd]
  <2>1. fd \in Fd /\ h \in Handler BY <1>2 DEF Sane, ReactorState
  <2> HIDE DEF h
  <2>2. Sane(SetFlags(r, h, {"WANT_WRITE"})) BY <2>1, FlagsAreSane DEF Flag
  <2>3. Sane(Modify(SetFlags(r, h, {"WANT_WRITE"}), {fd}, h))
    BY <2>1, <2>2, ModifyIsSane
  <2> QED BY <1>2, <2>3 DEF WakeUpHandler, h
<1> QED BY <1>1, <1>2

\* removeDeactivatedHandler.
LEMMA RemoveDeactivatedIsSane ==
  ASSUME NEW r, Sane(r)
  PROVE  Sane(RemoveDeactivated(r)) /\ Dead(r) \subseteq Handler
BY DEF Sane, ReactorState, RemoveDeactivated, Dead

\* The reactor after start-up.
LEMMA InitReactorIsSane == Sane(InitReactor)
BY NamesAreDistinct DEF Sane, ReactorState, InitReactor, Flag

-----------------------------------------------------------------------------
(* Wiring: names.                                                          *)

\* Different handlers and different files have different names.
LEMMA NamesDiffer ==
  /\ \A c, d \in Clients :
       /\ Conn(c) = Conn(d) => c = d
       /\ Cgi(c) = Cgi(d) => c = d
       /\ Sock(c) = Sock(d) => c = d
       /\ In(c) = In(d) => c = d
       /\ Out(c) = Out(d) => c = d
       /\ Conn(c) # Cgi(d)
       /\ Sock(c) # In(d) /\ Sock(c) # Out(d) /\ In(c) # Out(d)
  /\ \A c \in Clients :
       /\ Conn(c) # Acceptor /\ Cgi(c) # Acceptor
       /\ Conn(c) # NoHandler /\ Cgi(c) # NoHandler
       /\ Sock(c) # Listening /\ In(c) # Listening /\ Out(c) # Listening
       /\ Sock(c) # NoFile /\ In(c) # NoFile /\ Out(c) # NoFile
  /\ Acceptor # NoHandler /\ Listening # NoFile
BY DEF Conn, Cgi, Sock, In, Out, Acceptor, NoHandler, Listening, NoFile

\* There are no other handlers and no other files.
LEMMA NamesAreAll ==
  /\ \A h \in Handler : h = Acceptor \/ \E c \in Clients : h = Conn(c) \/ h = Cgi(c)
  /\ \A f \in File : f = Listening
                       \/ \E c \in Clients : f = Sock(c) \/ f = In(c) \/ f = Out(c)
BY DEF Handler, File, Conn, Cgi, Sock, In, Out, Acceptor, Listening

-----------------------------------------------------------------------------
(* The methods, field by field.                                            *)

\* The flags of h are fl now, and epoll watches f for what they ask.
Rearmed(r, r2, h, f, fl) ==
  /\ r2.handlers = r.handlers /\ r2.fdMap = r.fdMap /\ r2.tab = r.tab
  /\ r2.failed = r.failed
  /\ r2.flags[h] = fl
  /\ \A k \in Handler : k # h => r2.flags[k] = r.flags[k]
  /\ \A k \in File : r2.ptr[k] = r.ptr[k]
  /\ \A k \in File : r2.mask[k] = IF k = f THEN ComputeEvents(fl) ELSE r.mask[k]

\* EPOLL_CTL_MOD of one watched descriptor after its handler's flags are set.
LEMMA ModifyEffect ==
  ASSUME NEW r, Sane(r), NEW h \in Handler, NEW fl \in SUBSET Flag, NEW fd \in Fd,
         NEW f \in File, r.tab[fd] = f, r.ptr[f] = h
  PROVE  LET r1 == [r EXCEPT !.flags[h] = fl] IN
         Rearmed(r, Modify(r1, {fd}, h), h, f, fl)
<1> DEFINE r1 == [r EXCEPT !.flags[h] = fl]
           ce == ComputeEvents(r1.flags[h])
           r2 == [r1 EXCEPT !.ptr  = [k \in File |-> IF k \in {f} THEN h ELSE @[k]],
                            !.mask = [k \in File |-> IF k \in {f} THEN ce ELSE @[k]],
                            !.edge = @ \cup {f}]
<1>1. /\ r1.handlers = r.handlers /\ r1.fdMap = r.fdMap /\ r1.tab = r.tab
      /\ r1.failed = r.failed /\ r1.ptr = r.ptr /\ r1.mask = r.mask
      /\ r1.flags[h] = fl
      /\ \A k \in Handler : k # h => r1.flags[k] = r.flags[k]
      /\ r1 \in ReactorState
  BY DEF Sane, ReactorState
<1> HIDE DEF r1
<1>2. Registered(r1, fd) BY <1>1, NamesAreDistinct DEF Registered, IsOpen
<1>3. {r1.tab[g] : g \in {fd}} = {f} BY <1>1
<1>4. \A g \in {fd} : Registered(r1, g) BY <1>2
<1>5. Modify(r1, {fd}, h) = r2 BY <1>3, <1>4 DEF Modify
<1> HIDE DEF ce
<1>6. /\ r2.handlers = r1.handlers /\ r2.fdMap = r1.fdMap /\ r2.tab = r1.tab
      /\ r2.failed = r1.failed /\ r2.flags = r1.flags
      /\ \A k \in File : r2.ptr[k] = IF k = f THEN h ELSE r1.ptr[k]
      /\ \A k \in File : r2.mask[k] = IF k = f THEN ce ELSE r1.mask[k]
  BY <1>1 DEF ReactorState
<1>7. ce = ComputeEvents(fl) BY <1>1 DEF ce
<1> HIDE DEF r2
<1>8. Rearmed(r, Modify(r1, {fd}, h), h, f, fl)
  BY <1>1, <1>5, <1>6, <1>7 DEF Rearmed
<1> QED BY <1>8 DEF r1

\* The registrations of a set of files disappear.
LEMMA ForgetEffect ==
  ASSUME NEW r, Sane(r), NEW fs
  PROVE  LET r2 == Forget(r, fs) IN
         /\ r2.handlers = r.handlers /\ r2.flags = r.flags /\ r2.fdMap = r.fdMap
         /\ r2.tab = r.tab /\ r2.failed = r.failed
         /\ \A f \in File : r2.ptr[f] = IF f \in fs THEN NoHandler ELSE r.ptr[f]
         /\ \A f \in File : r2.mask[f] = IF f \in fs THEN {} ELSE r.mask[f]
BY DEF Sane, ReactorState, Forget

\* A set of descriptors is closed, and epoll forgets what nobody else holds.
LEMMA CloseAllEffect ==
  ASSUME NEW r, Sane(r), NEW fds, NEW held
  PROVE  LET r2 == CloseAll(r, fds, held)
             fs == {r.tab[fd] : fd \in fds \cap Fd} \ held IN
         /\ r2.handlers = r.handlers /\ r2.flags = r.flags /\ r2.fdMap = r.fdMap
         /\ r2.failed = r.failed
         /\ \A g \in Fd : r2.tab[g] = IF g \in fds THEN NoFile ELSE r.tab[g]
         /\ \A f \in File : r2.ptr[f] = IF f \in fs THEN NoHandler ELSE r.ptr[f]
         /\ \A f \in File : r2.mask[f] = IF f \in fs THEN {} ELSE r.mask[f]
<1> DEFINE fs == {r.tab[fd] : fd \in fds \cap Fd} \ held
           r1 == Forget(r, fs)
<1>1. /\ r1.handlers = r.handlers /\ r1.flags = r.flags /\ r1.fdMap = r.fdMap
      /\ r1.tab = r.tab /\ r1.failed = r.failed
      /\ \A f \in File : r1.ptr[f] = IF f \in fs THEN NoHandler ELSE r.ptr[f]
      /\ \A f \in File : r1.mask[f] = IF f \in fs THEN {} ELSE r.mask[f]
  BY ForgetEffect
<1>2. Sane(r1) BY ForgetIsSane
<1>3. CloseAll(r, fds, held) =
        [r1 EXCEPT !.tab = [fd \in Fd |-> IF fd \in fds THEN NoFile ELSE r1.tab[fd]]]
  BY DEF CloseAll
<1> HIDE DEF fs, r1
<1> QED BY <1>1, <1>2, <1>3 DEF Sane, ReactorState, fs

\* Handler h is owned and watches f, through descriptor g, for the bits ev.
Added(r, r2, h, g, f, ev) ==
  /\ r2.handlers = r.handlers \cup {h} /\ r2.flags = r.flags /\ r2.tab = r.tab
  /\ r2.failed = r.failed
  /\ \A k \in Fd : r2.fdMap[k] = IF k = g THEN h ELSE r.fdMap[k]
  /\ \A k \in File : r2.ptr[k] = IF k = f THEN h ELSE r.ptr[k]
  /\ \A k \in File : r2.mask[k] = IF k = f THEN ev ELSE r.mask[k]

\* addHandler of an open descriptor whose file is not watched yet.
LEMMA AddHandlerEffect ==
  ASSUME NEW r, Sane(r), NEW h \in Handler, NEW fd \in Fd,
         NEW ev \in SUBSET {"IN", "OUT"}, NEW f \in File, r.tab[fd] = f,
         r.ptr[f] = NoHandler
  PROVE  Added(r, AddHandler(r, h, fd, ev), h, fd, f, ev)
<1> DEFINE r2 == AddHandler(r, h, fd, ev)
<1>1. f # NoFile BY NamesAreDistinct
<1>2. IsOpen(r, fd) /\ ~Registered(r, fd) BY <1>1 DEF IsOpen, Registered
<1>3. r2 = [r EXCEPT !.handlers = @ \cup {h}, !.fdMap[fd] = h,
                     !.ptr[f] = h, !.mask[f] = ev, !.edge = @ \cup {f}]
  BY <1>2 DEF AddHandler
<1> HIDE DEF r2
<1>4. Added(r, r2, h, fd, f, ev) BY <1>3 DEF Sane, ReactorState, Added
<1> QED BY <1>4 DEF r2

LEMMA AddHandlerFdEffect ==
  ASSUME NEW r, Sane(r), NEW h \in Handler, NEW fd \in Fd,
         NEW ev \in SUBSET {"IN", "OUT"}, NEW f \in File, r.tab[fd] = f,
         r.ptr[f] = NoHandler
  PROVE  Added(r, AddHandlerFd(r, h, fd, ev), h, fd, f, ev)
<1> DEFINE r1 == AddHandler(r, h, fd, ev)
           r2 == [r1 EXCEPT !.handlers = @ \cup {h}]
<1>1. Added(r, r1, h, fd, f, ev) /\ Sane(r1) BY AddHandlerEffect, AddHandlerIsSane
<1> HIDE DEF r1
<1>2. Added(r, r2, h, fd, f, ev) BY <1>1 DEF Added, Sane, ReactorState
<1> QED BY <1>2 DEF AddHandlerFd, r1

\* Descriptor g is no longer in fd_map_ and its file f no longer watched; the
\* handler h they belonged to is inactive if it has no other.
Deleted(r, r2, h, g, f) ==
  /\ r2.handlers = r.handlers /\ r2.tab = r.tab /\ r2.failed = r.failed
  /\ \A k \in Fd : r2.fdMap[k] = IF k = g THEN NoHandler ELSE r.fdMap[k]
  /\ \A k \in File : r2.ptr[k] = IF k = f THEN NoHandler ELSE r.ptr[k]
  /\ \A k \in File : k # f => r2.mask[k] = r.mask[k]
  /\ \A k \in Handler : k # h => r2.flags[k] = r.flags[k]
  /\ r2.flags[h] = IF \A k \in Fd : r.fdMap[k] = h => k = g
                     THEN r.flags[h] \cup {"INACTIVE"} ELSE r.flags[h]

\* deleteHandler of a watched descriptor that is in fd_map_.
LEMMA DeleteHandlerEffect ==
  ASSUME NEW r, Sane(r), NEW fd \in Fd, NEW f \in File, NEW h \in Handler,
         r.tab[fd] = f, r.ptr[f] # NoHandler, r.fdMap[fd] = h
  PROVE  Deleted(r, DeleteHandler(r, fd), h, fd, f)
<1> DEFINE r1 == Forget(r, {r.tab[fd]})
           r2 == [r1 EXCEPT !.fdMap[fd] = NoHandler]
           r3 == DeleteHandler(r, fd)
<1>1. /\ r1.handlers = r.handlers /\ r1.flags = r.flags /\ r1.fdMap = r.fdMap
      /\ r1.tab = r.tab /\ r1.failed = r.failed
      /\ \A k \in File : r1.ptr[k] = IF k \in {r.tab[fd]} THEN NoHandler ELSE r.ptr[k]
      /\ \A k \in File : r1.mask[k] = IF k \in {r.tab[fd]} THEN {} ELSE r.mask[k]
  BY ForgetEffect
<1>2. Sane(r1) BY ForgetIsSane
<1>3. h # NoHandler /\ f # NoFile BY NamesAreDistinct
<1>4. Registered(r, fd) BY <1>3 DEF Registered, IsOpen
<1>5. r3 = IF FdsOf(r2, h) = {} THEN Deactivate(r2, h) ELSE r2
  BY <1>3, <1>4 DEF DeleteHandler
<1> HIDE DEF r1, r3
<1>6. /\ r2.handlers = r.handlers /\ r2.flags = r.flags
      /\ \A g \in Fd : r2.fdMap[g] = IF g = fd THEN NoHandler ELSE r.fdMap[g]
      /\ r2.tab = r.tab /\ r2.failed = r.failed
      /\ \A k \in File : r2.ptr[k] = IF k = f THEN NoHandler ELSE r.ptr[k]
      /\ \A k \in File : r2.mask[k] = IF k = f THEN {} ELSE r.mask[k]
      /\ r2 \in ReactorState
  BY <1>1, <1>2 DEF Sane, ReactorState
<1> HIDE DEF r2
<1>7. FdsOf(r2, h) = {} <=> \A g \in Fd : r.fdMap[g] = h => g = fd
  BY <1>3, <1>6 DEF FdsOf
<1>8. /\ r3.handlers = r.handlers /\ r3.tab = r.tab /\ r3.failed = r.failed
      /\ r3.fdMap = r2.fdMap /\ r3.ptr = r2.ptr /\ r3.mask = r2.mask
  BY <1>5, <1>6 DEF Deactivate, ReactorState
<1>9. \A k \in Handler : k # h => r3.flags[k] = r.flags[k]
  BY <1>5, <1>6 DEF Deactivate, ReactorState
<1>10. r3.flags[h] = IF FdsOf(r2, h) = {} THEN r.flags[h] \cup {"INACTIVE"} ELSE r.flags[h]
  BY <1>5, <1>6 DEF Deactivate, ReactorState
<1>11. Deleted(r, r3, h, fd, f) BY <1>6, <1>7, <1>8, <1>9, <1>10 DEF Deleted
<1> QED BY <1>11 DEF r3
-----------------------------------------------------------------------------
(* What holds of a wired reactor.                                          *)

\* Whatever is in fd_map_ is open and watched for its handler.
LEMMA MappedIsWatched ==
  ASSUME NEW r, Sane(r), NEW cn, NEW cg, Wired(r, cn, cg), ListenWired(r),
         NEW fd \in Fd, r.fdMap[fd] # NoHandler
  PROVE  /\ r.fdMap[fd] \in r.handlers /\ r.fdMap[fd] \in Handler
         /\ r.tab[fd] \in File /\ r.tab[fd] # NoFile
         /\ r.ptr[r.tab[fd]] = r.fdMap[fd]
<1> DEFINE h == r.fdMap[fd]
<1>1. h \in Handler /\ r.tab[fd] \in File \cup {NoFile} BY DEF Sane, ReactorState
<1>2. CASE h = Acceptor
  <2>1. fd = ListenFd BY <1>2 DEF Wired
  <2> QED BY <1>1, <1>2, <2>1, NamesDiffer DEF ListenWired, Lives
<1>3. CASE \E c \in Clients : h = Conn(c)
  <2>1. PICK c \in Clients : h = Conn(c) BY <1>3
  <2>2. ConnWired(r, c, cn[c].fd) BY DEF Wired
  <2> QED BY <1>1, <2>1, <2>2, NamesDiffer DEF ConnWired, Lives
<1>4. CASE \E c \in Clients : h = Cgi(c)
  <2>1. PICK c \in Clients : h = Cgi(c) BY <1>4
  <2>2. CgiWired(r, c, cg[c].inFd, cg[c].outFd) BY DEF Wired
  <2>3. Cgi(c) \in r.handlers /\ fd \in {cg[c].inFd, cg[c].outFd} /\ fd # NoFd
    BY <2>1, <2>2, NamesAreDistinct DEF CgiWired
  <2> QED BY <1>1, <2>1, <2>2, <2>3, NamesDiffer DEF CgiWired, EndWired
<1> QED BY <1>1, <1>2, <1>3, <1>4, NamesAreAll

\* A registration names the handler of its file.
LEMMA RegistrationIsOwn ==
  ASSUME NEW r, Sane(r), NEW cn, NEW cg, Wired(r, cn, cg), NEW f \in File, NEW c \in Clients
  PROVE  /\ r.ptr[f] = Conn(c) => f = Sock(c)
         /\ r.ptr[f] = Cgi(c) => f \in {In(c), Out(c)}
         /\ r.ptr[f] = Acceptor => f = Listening
<1>1. /\ r.ptr[Listening] \in {NoHandler, Acceptor}
      /\ \A d \in Clients : /\ r.ptr[Sock(d)] \in {NoHandler, Conn(d)}
                            /\ r.ptr[In(d)] \in {NoHandler, Cgi(d)}
                            /\ r.ptr[Out(d)] \in {NoHandler, Cgi(d)}
  BY DEF Wired, ConnWired, CgiWired, EndWired
<1> QED BY <1>1, NamesAreAll, NamesDiffer

-----------------------------------------------------------------------------
(* Flags change, and epoll is armed again.                                 *)

\* The wiring holds again after flags other than INACTIVE change and epoll is told.
LEMMA RearmedIsWired ==
  ASSUME NEW r, Sane(r), NEW cn, NEW cg, Wired(r, cn, cg), ListenWired(r),
         NEW h \in Handler, ~IsInactive(r, h), NEW f \in File, r.ptr[f] = h,
         NEW fl \in SUBSET Flag, "INACTIVE" \notin fl, NEW r2, Rearmed(r, r2, h, f, fl)
  PROVE  Wired(r2, cn, cg) /\ ListenWired(r2)
<1>1. /\ r2.handlers = r.handlers /\ r2.fdMap = r.fdMap /\ r2.tab = r.tab
      /\ r2.failed = r.failed
      /\ \A k \in Handler : IsInactive(r2, k) <=> IsInactive(r, k)
      /\ \A k \in File : r2.ptr[k] = r.ptr[k]
  BY DEF Rearmed, IsInactive
<1>2. ASSUME NEW c \in Clients PROVE ConnWired(r2, c, cn[c].fd)
  <2>1. ConnWired(r, c, cn[c].fd) BY DEF Wired
  <2>2. Conn(c) \in Handler /\ Sock(c) \in File BY NamesAreTyped
  <2>3. h = Conn(c) => f = Sock(c) BY RegistrationIsOwn
  <2>4. h # Conn(c) /\ Lives(r, Conn(c)) => f # Sock(c) BY <2>1 DEF ConnWired
  <2>5. Lives(r, Conn(c)) => r2.mask[Sock(c)] = ComputeEvents(r2.flags[Conn(c)])
    BY <2>1, <2>2, <2>3, <2>4 DEF Rearmed, ConnWired
  <2> QED BY <1>1, <2>1, <2>2, <2>5 DEF ConnWired, Lives
<1>3. ASSUME NEW c \in Clients PROVE CgiWired(r2, c, cg[c].inFd, cg[c].outFd)
  <2>1. CgiWired(r, c, cg[c].inFd, cg[c].outFd) BY DEF Wired
  <2>2. In(c) \in File /\ Out(c) \in File /\ Cgi(c) \in Handler BY NamesAreTyped
  <2> QED BY <1>1, <2>1, <2>2 DEF CgiWired, EndWired
<1>4. Listening \in File /\ Acceptor \in Handler BY NamesAreDistinct
<1>5. ListenWired(r2) BY <1>1, <1>4 DEF ListenWired, Lives
<1> QED BY <1>1, <1>2, <1>3, <1>4, <1>5 DEF Wired

-----------------------------------------------------------------------------
(* A connection is given up.                                               *)

\* Descriptor g is no longer in fd_map_, its file f no longer watched, and the
\* handler h they belonged to is inactive.
GivenUp(r, r2, h, g, f) ==
  /\ r2.handlers = r.handlers /\ r2.tab = r.tab /\ r2.failed = r.failed
  /\ \A k \in Fd : r2.fdMap[k] = IF k = g THEN NoHandler ELSE r.fdMap[k]
  /\ \A k \in File : r2.ptr[k] = IF k = f THEN NoHandler ELSE r.ptr[k]
  /\ \A k \in File : k # f => r2.mask[k] = r.mask[k]
  /\ \A k \in Handler : k # h => r2.flags[k] = r.flags[k]
  /\ "INACTIVE" \in r2.flags[h]

\* deleteHandler of a connection's only descriptor.
LEMMA GiveUpEffect ==
  ASSUME NEW r, Sane(r), NEW c \in Clients, NEW fd, ConnWired(r, c, fd),
         Lives(r, Conn(c))
  PROVE  GivenUp(r, DeleteHandler(r, fd), Conn(c), fd, Sock(c))
<1>1. /\ Conn(c) \in Handler /\ Sock(c) \in File /\ Conn(c) # NoHandler
      /\ fd \in Fd /\ r.tab[fd] = Sock(c) /\ r.fdMap[fd] = Conn(c)
      /\ r.ptr[Sock(c)] = Conn(c)
      /\ \A g \in Fd : r.fdMap[g] = Conn(c) => g = fd
  BY NamesAreTyped, NamesDiffer DEF ConnWired, Lives
<1> DEFINE r2 == DeleteHandler(r, fd)
<1>2. Deleted(r, r2, Conn(c), fd, Sock(c)) BY <1>1, DeleteHandlerEffect
<1> HIDE DEF r2
<1>3. GivenUp(r, r2, Conn(c), fd, Sock(c)) BY <1>1, <1>2 DEF GivenUp, Deleted
<1> QED BY <1>3 DEF r2

\* The wiring holds again; the socket stays open until the handler is deleted.
LEMMA GivenUpIsWired ==
  ASSUME NEW r, Sane(r), NEW cn, NEW cg, Wired(r, cn, cg), ListenWired(r),
         NEW c \in Clients, Lives(r, Conn(c)),
         NEW r2, GivenUp(r, r2, Conn(c), cn[c].fd, Sock(c))
  PROVE  Wired(r2, cn, cg) /\ ListenWired(r2)
<1> DEFINE fd == cn[c].fd
<1>1. /\ Conn(c) \in Handler /\ Sock(c) \in File
      /\ fd \in Fd /\ r.tab[fd] = Sock(c) /\ r.fdMap[fd] = Conn(c)
      /\ r.ptr[Sock(c)] = Conn(c)
  BY NamesAreTyped DEF Wired, ConnWired, Lives
<1>2. ASSUME NEW d \in Clients PROVE ConnWired(r2, d, cn[d].fd)
  <2>1. ConnWired(r, d, cn[d].fd) BY DEF Wired
  <2>2. Conn(d) \in Handler /\ Sock(d) \in File /\ NoHandler # Conn(d)
        /\ (d # c => Conn(d) # Conn(c) /\ Sock(d) # Sock(c))
    BY NamesAreTyped, NamesDiffer
  <2>3. CASE d = c
    BY <1>1, <2>1, <2>2, <2>3 DEF GivenUp, ConnWired, Lives, IsInactive
  <2>4. CASE d # c
    BY <1>1, <2>1, <2>2, <2>4 DEF GivenUp, ConnWired, Lives, IsInactive
  <2> QED BY <2>3, <2>4
<1>3. ASSUME NEW d \in Clients PROVE CgiWired(r2, d, cg[d].inFd, cg[d].outFd)
  <2>1. CgiWired(r, d, cg[d].inFd, cg[d].outFd) BY DEF Wired
  <2>2. /\ In(d) \in File /\ Out(d) \in File /\ Cgi(d) \in Handler
        /\ In(d) # Sock(c) /\ Out(d) # Sock(c) /\ Cgi(d) # Conn(c)
        /\ Cgi(d) # NoHandler
    BY NamesAreTyped, NamesDiffer
  <2>3. EndWired(r2, Cgi(d), In(d), cg[d].inFd)
    BY <1>1, <2>1, <2>2 DEF GivenUp, CgiWired, EndWired
  <2>4. EndWired(r2, Cgi(d), Out(d), cg[d].outFd)
    BY <1>1, <2>1, <2>2 DEF GivenUp, CgiWired, EndWired
  <2> QED BY <2>1, <2>2, <2>3, <2>4 DEF GivenUp, CgiWired, IsInactive
<1>4. /\ Listening \in File /\ Acceptor # NoHandler /\ Listening # Sock(c)
      /\ Acceptor \in Handler /\ Acceptor # Conn(c) /\ ListenFd \in Fd
  BY NamesAreDistinct, NamesDiffer
<1>5. ListenWired(r2) BY <1>1, <1>4 DEF ListenWired, Lives, IsInactive, GivenUp
<1> QED BY <1>2, <1>3, <1>4, <1>5 DEF Wired, GivenUp

-----------------------------------------------------------------------------
(* One end of a script's pipe is closed.                                   *)

\* Descriptor g, its entry in fd_map_ and the registration of its file f are gone;
\* the flags of handler h, which they belonged to, are another matter.
EndClosed(r, r2, h, g, f) ==
  /\ r2.handlers = r.handlers /\ r2.failed = r.failed
  /\ \A k \in Fd : r2.fdMap[k] = IF k = g THEN NoHandler ELSE r.fdMap[k]
  /\ \A k \in Fd : r2.tab[k] = IF k = g THEN NoFile ELSE r.tab[k]
  /\ \A k \in File : r2.ptr[k] = IF k = f THEN NoHandler ELSE r.ptr[k]
  /\ \A k \in File : k # f => r2.mask[k] = r.mask[k]
  /\ \A k \in Handler : k # h => r2.flags[k] = r.flags[k]

\* deleteHandler and close of a pipe end the handler has: it is inactive after it if
\* that was its last one.
LEMMA EndClosedEffect ==
  ASSUME NEW r, Sane(r), NEW h \in Handler, NEW f \in File, NEW g,
         EndWired(r, h, f, g), h \in r.handlers, g # NoFd, NEW held
  PROVE  LET r2 == CloseAll(DeleteHandler(r, g), {g}, held) IN
         /\ EndClosed(r, r2, h, g, f) /\ Sane(r2)
         /\ r2.flags[h] = IF \A k \in Fd : r.fdMap[k] = h => k = g
                            THEN r.flags[h] \cup {"INACTIVE"} ELSE r.flags[h]
<1> DEFINE r1 == DeleteHandler(r, g)
           r2 == CloseAll(r1, {g}, held)
           fs == {r1.tab[fd] : fd \in {g} \cap Fd} \ held
<1>1. g \in Fd /\ r.tab[g] = f /\ r.fdMap[g] = h /\ r.ptr[f] = h /\ h # NoHandler
  BY NamesAreDistinct DEF EndWired
<1>2. Deleted(r, r1, h, g, f) BY <1>1, DeleteHandlerEffect
<1>3. Sane(r1) BY <1>1, DeleteHandlerIsSane
<1> HIDE DEF r1
<1>4. /\ r2.handlers = r1.handlers /\ r2.flags = r1.flags /\ r2.fdMap = r1.fdMap
      /\ r2.failed = r1.failed
      /\ \A k \in Fd : r2.tab[k] = IF k \in {g} THEN NoFile ELSE r1.tab[k]
      /\ \A k \in File : r2.ptr[k] = IF k \in fs THEN NoHandler ELSE r1.ptr[k]
      /\ \A k \in File : r2.mask[k] = IF k \in fs THEN {} ELSE r1.mask[k]
  BY <1>3, CloseAllEffect
<1>5. \A k \in fs : k = f BY <1>1, <1>2 DEF Deleted
<1>6. Sane(r2) BY <1>3, CloseAllIsSane
<1> HIDE DEF r2, fs
<1>7. EndClosed(r, r2, h, g, f) BY <1>2, <1>4, <1>5 DEF EndClosed, Deleted
<1>8. r2.flags[h] = IF \A k \in Fd : r.fdMap[k] = h => k = g
                      THEN r.flags[h] \cup {"INACTIVE"} ELSE r.flags[h]
  BY <1>2, <1>4 DEF Deleted
<1> QED BY <1>6, <1>7, <1>8 DEF r2, r1

\* The wiring holds again when the CgiHandler has forgotten that end, and is inactive
\* exactly when it has no end of the output any more.
LEMMA EndClosedIsWired ==
  ASSUME NEW r, Sane(r), NEW cn, NEW cg, Wired(r, cn, cg), ListenWired(r),
         NEW c \in Clients, Lives(r, Cgi(c)), NEW f, NEW g, g # NoFd,
         NEW cg2, \A d \in Clients \ {c} : cg2[d] = cg[d],
         \/ f = In(c) /\ g = cg[c].inFd /\ cg2[c].inFd = NoFd /\ cg2[c].outFd = cg[c].outFd
         \/ f = Out(c) /\ g = cg[c].outFd /\ cg2[c].outFd = NoFd /\ cg2[c].inFd = cg[c].inFd,
         NEW r2, EndClosed(r, r2, Cgi(c), g, f),
         IsInactive(r2, Cgi(c)) <=> cg2[c].outFd = NoFd
  PROVE  Wired(r2, cn, cg2) /\ ListenWired(r2)
<1>1. CgiWired(r, c, cg[c].inFd, cg[c].outFd) BY DEF Wired
<1>2. /\ Cgi(c) \in Handler /\ f \in File /\ Cgi(c) \in r.handlers
      /\ g \in Fd /\ r.tab[g] = f /\ r.fdMap[g] = Cgi(c)
  BY <1>1, NamesAreTyped DEF CgiWired, EndWired, Lives
<1>3. ASSUME NEW d \in Clients PROVE ConnWired(r2, d, cn[d].fd)
  <2>1. ConnWired(r, d, cn[d].fd) BY DEF Wired
  <2>2. /\ Conn(d) \in Handler /\ Sock(d) \in File /\ NoHandler # Conn(d)
        /\ Conn(d) # Cgi(c) /\ Sock(d) # f /\ Sock(d) # NoFile
    BY NamesAreTyped, NamesDiffer
  <2> QED BY <1>2, <2>1, <2>2 DEF EndClosed, ConnWired, Lives, IsInactive
<1>4. ASSUME NEW d \in Clients PROVE CgiWired(r2, d, cg2[d].inFd, cg2[d].outFd)
  <2>1. CgiWired(r, d, cg[d].inFd, cg[d].outFd) BY DEF Wired
  <2>2. /\ In(d) \in File /\ Out(d) \in File /\ Cgi(d) \in Handler
        /\ Cgi(d) # NoHandler /\ In(d) # NoFile /\ Out(d) # NoFile
        /\ In(d) # Out(d)
    BY NamesAreTyped, NamesDiffer
  <2>3. CASE d # c
    <3>1. cg2[d] = cg[d] /\ Cgi(d) # Cgi(c) /\ In(d) # f /\ Out(d) # f
      BY <2>3, NamesDiffer
    <3>2. EndWired(r2, Cgi(d), In(d), cg[d].inFd) /\ EndWired(r2, Cgi(d), Out(d), cg[d].outFd)
      BY <1>2, <2>1, <2>2, <3>1 DEF EndClosed, CgiWired, EndWired
    <3> QED BY <2>1, <2>2, <3>1, <3>2 DEF EndClosed, CgiWired, IsInactive
  <2>4. CASE d = c
    <3>1. EndWired(r2, Cgi(c), In(c), cg2[c].inFd)
      BY <1>1, <1>2, <2>2, <2>4 DEF EndClosed, CgiWired, EndWired
    <3>2. EndWired(r2, Cgi(c), Out(c), cg2[c].outFd)
      BY <1>1, <1>2, <2>2, <2>4 DEF EndClosed, CgiWired, EndWired
    <3> QED BY <1>1, <1>2, <2>2, <2>4, <3>1, <3>2 DEF EndClosed, CgiWired
  <2> QED BY <2>3, <2>4
<1>5. /\ Listening \in File /\ Acceptor # NoHandler /\ Listening # f /\ Listening # NoFile
      /\ Acceptor \in Handler /\ Acceptor # Cgi(c) /\ ListenFd \in Fd
  BY NamesAreDistinct, NamesDiffer
<1>6. ListenWired(r2) BY <1>2, <1>5 DEF ListenWired, Lives, IsInactive, EndClosed
<1> QED BY <1>3, <1>4, <1>5, <1>6 DEF Wired, EndClosed

-----------------------------------------------------------------------------
(* wakeUpHandler.                                                          *)

\* Nothing happens, or the handler fd_map_ has under that number is made to write.
LEMMA WakeUpEffect ==
  ASSUME NEW r, Sane(r), NEW cn, NEW cg, Wired(r, cn, cg), ListenWired(r), NEW fd
  PROVE  \/ WakeUpHandler(r, fd) = r
            /\ (fd \notin Fd \/ r.fdMap[fd] = NoHandler \/ IsInactive(r, r.fdMap[fd]))
         \/ /\ fd \in Fd /\ r.fdMap[fd] \in Handler /\ ~IsInactive(r, r.fdMap[fd])
            /\ r.tab[fd] \in File /\ r.ptr[r.tab[fd]] = r.fdMap[fd]
            /\ Rearmed(r, WakeUpHandler(r, fd), r.fdMap[fd], r.tab[fd], {"WANT_WRITE"})
<1>1. CASE fd \notin Fd \/ r.fdMap[fd] = NoHandler \/ IsInactive(r, r.fdMap[fd])
  BY <1>1 DEF WakeUpHandler
<1>2. CASE ~(fd \notin Fd \/ r.fdMap[fd] = NoHandler \/ IsInactive(r, r.fdMap[fd]))
  <2> DEFINE h == r.fdMap[fd]
             f == r.tab[fd]
  <2>1. fd \in Fd /\ h \in Handler /\ f \in File /\ r.ptr[f] = h /\ ~IsInactive(r, h)
    BY <1>2, MappedIsWatched
  <2>2. r.flags[h] \cap {"INACTIVE"} = {} BY <2>1 DEF IsInactive
  <2>3. SetFlags(r, h, {"WANT_WRITE"}) = [r EXCEPT !.flags[h] = {"WANT_WRITE"}]
    <3>1. (r.flags[h] \cap {"INACTIVE"}) \cup {"WANT_WRITE"} = {"WANT_WRITE"} BY <2>2
    <3> QED BY <3>1 DEF SetFlags
  <2>4. WakeUpHandler(r, fd) = Modify([r EXCEPT !.flags[h] = {"WANT_WRITE"}], {fd}, h)
    BY <1>2, <2>3 DEF WakeUpHandler
  <2>5. {"WANT_WRITE"} \in SUBSET Flag BY DEF Flag
  <2> HIDE DEF h, f
  <2>6. Rearmed(r, WakeUpHandler(r, fd), h, f, {"WANT_WRITE"})
    BY <2>1, <2>4, <2>5, ModifyEffect DEF f
  <2> QED BY <2>1, <2>6 DEF h, f
<1> QED BY <1>1, <1>2

\* The wiring holds again, and no handler lives or dies of it.
LEMMA WakeUpIsWired ==
  ASSUME NEW r, Sane(r), NEW cn, NEW cg, Wired(r, cn, cg), ListenWired(r), NEW fd
  PROVE  LET r2 == WakeUpHandler(r, fd) IN
         /\ Wired(r2, cn, cg) /\ ListenWired(r2)
         /\ r2.handlers = r.handlers
         /\ \A k \in Handler : IsInactive(r2, k) <=> IsInactive(r, k)
         /\ \A k \in Handler : r2.flags[k] = r.flags[k] \/ k \in r.handlers
         /\ \A f \in File : r2.ptr[f] = r.ptr[f]
<1>1. CASE WakeUpHandler(r, fd) = r BY <1>1
<1>2. CASE WakeUpHandler(r, fd) # r
  <2> DEFINE h == r.fdMap[fd]
             f == r.tab[fd]
             r2 == WakeUpHandler(r, fd)
  <2>1. /\ fd \in Fd /\ h \in Handler /\ ~IsInactive(r, h) /\ f \in File
        /\ r.ptr[f] = h /\ Rearmed(r, r2, h, f, {"WANT_WRITE"})
    BY <1>2, WakeUpEffect
  <2> HIDE DEF h, f, r2
  <2>2. {"WANT_WRITE"} \in SUBSET Flag /\ "INACTIVE" \notin {"WANT_WRITE"} BY DEF Flag
  <2>3. Wired(r2, cn, cg) /\ ListenWired(r2) BY <2>1, <2>2, RearmedIsWired
  <2>4. /\ r2.handlers = r.handlers
        /\ \A k \in Handler : IsInactive(r2, k) <=> IsInactive(r, k)
    BY <2>1, <2>2 DEF Rearmed, IsInactive
  <2>5. h \in r.handlers BY <1>2, MappedIsWatched DEF h, WakeUpHandler
  <2>6. /\ \A k \in Handler : r2.flags[k] = r.flags[k] \/ k \in r.handlers
        /\ \A k \in File : r2.ptr[k] = r.ptr[k]
    BY <2>1, <2>5 DEF Rearmed
  <2> QED BY <2>3, <2>4, <2>6 DEF r2
<1> QED BY <1>1, <1>2

-----------------------------------------------------------------------------
(* Handlers are added.                                                     *)

\* A descriptor that is free is nowhere in fd_map_, and belongs to no one.
LEMMA FreeFdIsUnused ==
  ASSUME NEW r, Sane(r), NEW cn, NEW cg, Wired(r, cn, cg), ListenWired(r),
         NEW fd \in Fd, r.tab[fd] = NoFile
  PROVE  /\ r.fdMap[fd] = NoHandler /\ fd # ListenFd
         /\ \A c \in Clients : /\ Conn(c) \in r.handlers => cn[c].fd # fd
                               /\ Cgi(c) \in r.handlers => fd \notin {cg[c].inFd, cg[c].outFd}
<1>1. r.fdMap[fd] = NoHandler BY MappedIsWatched
<1>2. fd # ListenFd BY NamesDiffer DEF ListenWired
<1>3. ASSUME NEW c \in Clients
      PROVE  /\ Conn(c) \in r.handlers => cn[c].fd # fd
             /\ Cgi(c) \in r.handlers => fd \notin {cg[c].inFd, cg[c].outFd}
  <2>1. fd # NoFd BY NamesAreDistinct
  <2> QED BY <2>1, NamesDiffer DEF Wired, ConnWired, CgiWired, EndWired
<1> QED BY <1>1, <1>2, <1>3

\* The acceptor adds a connection it has just accepted.
LEMMA NewConnIsWired ==
  ASSUME NEW r, Sane(r), NEW cn, NEW cg, Wired(r, cn, cg), ListenWired(r),
         NEW c \in Clients, Conn(c) \notin r.handlers, r.flags[Conn(c)] = {"WANT_READ"},
         NEW fd \in Fd, r.tab[fd] = NoFile,
         NEW cn2, cn2[c].fd = fd, \A d \in Clients \ {c} : cn2[d] = cn[d]
  PROVE  LET r2 == AddHandler(Open(r, fd, Sock(c)), Conn(c), fd,
                              ComputeEvents({"WANT_READ"})) IN
         /\ Wired(r2, cn2, cg) /\ ListenWired(r2)
         /\ r2.handlers = r.handlers \cup {Conn(c)} /\ r2.flags = r.flags
         /\ \A f \in File \ {Sock(c)} : r2.ptr[f] = r.ptr[f]
<1> DEFINE ev == ComputeEvents({"WANT_READ"})
           r1 == Open(r, fd, Sock(c))
           r2 == AddHandler(r1, Conn(c), fd, ev)
<1>1. Conn(c) \in Handler /\ Sock(c) \in File BY NamesAreTyped
<1>2. ConnWired(r, c, cn[c].fd) BY DEF Wired
<1>3. r.ptr[Sock(c)] = NoHandler BY <1>2 DEF ConnWired, Lives
<1>4. /\ r1.handlers = r.handlers /\ r1.flags = r.flags /\ r1.fdMap = r.fdMap
      /\ r1.ptr = r.ptr /\ r1.mask = r.mask /\ r1.failed = r.failed
      /\ \A g \in Fd : r1.tab[g] = IF g = fd THEN Sock(c) ELSE r.tab[g]
  BY DEF Open, Sane, ReactorState
<1>5. Sane(r1) BY <1>1, OpenIsSane
<1>6. ev \in SUBSET {"IN", "OUT"} BY DEF ComputeEvents
<1> HIDE DEF ev, r1
<1>7. Added(r1, r2, Conn(c), fd, Sock(c), ev)
  BY <1>1, <1>3, <1>4, <1>5, <1>6, AddHandlerEffect
<1> HIDE DEF r2
<1>8. r.fdMap[fd] = NoHandler /\ fd # ListenFd BY FreeFdIsUnused
<1>9. ConnWired(r2, c, fd)
  <2>1. /\ r2.mask[Sock(c)] = ev /\ r2.flags[Conn(c)] = {"WANT_READ"}
        /\ r2.ptr[Sock(c)] = Conn(c) /\ r2.fdMap[fd] = Conn(c) /\ r2.tab[fd] = Sock(c)
        /\ Conn(c) \in r2.handlers
    BY <1>1, <1>4, <1>7 DEF Added
  <2>2. r2.mask[Sock(c)] = ComputeEvents(r2.flags[Conn(c)]) BY <2>1 DEF ev
  <2>3. Lives(r2, Conn(c)) BY <2>1 DEF Lives, IsInactive
  <2>4. \A g \in Fd : r2.fdMap[g] = Conn(c) => g = fd
    BY <1>2, <1>4, <1>7 DEF Added, ConnWired, Lives
  <2>5. \A g \in Fd : r2.tab[g] = Sock(c) => g = fd
    BY <1>2, <1>4, <1>7 DEF Added, ConnWired
  <2> QED BY <2>1, <2>2, <2>3, <2>4, <2>5 DEF ConnWired
<1>10. ASSUME NEW d \in Clients \ {c} PROVE ConnWired(r2, d, cn2[d].fd)
  <2>1. ConnWired(r, d, cn[d].fd) BY DEF Wired
  <2>2. /\ Conn(d) \in Handler /\ Sock(d) \in File /\ Conn(d) # Conn(c)
        /\ Sock(d) # Sock(c) /\ NoHandler # Conn(d)
    BY NamesAreTyped, NamesDiffer
  <2>3. Conn(d) \in r.handlers => cn[d].fd # fd BY FreeFdIsUnused
  <2> QED BY <1>4, <1>7, <2>1, <2>2, <2>3 DEF Added, ConnWired, Lives, IsInactive
<1>11. ASSUME NEW d \in Clients PROVE CgiWired(r2, d, cg[d].inFd, cg[d].outFd)
  <2>1. CgiWired(r, d, cg[d].inFd, cg[d].outFd) BY DEF Wired
  <2>2. /\ In(d) \in File /\ Out(d) \in File /\ Cgi(d) \in Handler
        /\ In(d) # Sock(c) /\ Out(d) # Sock(c) /\ Cgi(d) # Conn(c)
    BY NamesAreTyped, NamesDiffer
  <2>3. Cgi(d) \in r.handlers => fd \notin {cg[d].inFd, cg[d].outFd} BY FreeFdIsUnused
  <2>4. EndWired(r2, Cgi(d), In(d), cg[d].inFd)
    BY <1>4, <1>7, <2>1, <2>2, <2>3 DEF Added, CgiWired, EndWired
  <2>5. EndWired(r2, Cgi(d), Out(d), cg[d].outFd)
    BY <1>4, <1>7, <2>1, <2>2, <2>3 DEF Added, CgiWired, EndWired
  <2> QED BY <1>4, <1>7, <2>1, <2>2, <2>4, <2>5 DEF Added, CgiWired, IsInactive
<1>12. /\ Listening \in File /\ Acceptor # Conn(c) /\ Listening # Sock(c) /\ ListenFd \in Fd
  BY NamesAreDistinct, NamesDiffer
<1>13. Wired(r2, cn2, cg)
  BY <1>4, <1>7, <1>9, <1>10, <1>11, <1>12 DEF Wired, Added
<1>14. ListenWired(r2)
  BY <1>4, <1>7, <1>8, <1>12 DEF ListenWired, Lives, IsInactive, Added
<1>15. /\ r2.handlers = r.handlers \cup {Conn(c)} /\ r2.flags = r.flags
       /\ \A f \in File \ {Sock(c)} : r2.ptr[f] = r.ptr[f]
  BY <1>4, <1>7 DEF Added
<1> QED BY <1>13, <1>14, <1>15 DEF r2, r1, ev

-----------------------------------------------------------------------------
(* A script is started.                                                    *)

\* c's CgiHandler is owned and has its end g of the output and, unless ins is
\* NoFd, its end ins of the input.
Started(r, r2, c, ins, g) ==
  /\ r2.handlers = r.handlers \cup {Cgi(c)} /\ r2.failed = r.failed
  /\ \A k \in Fd : r2.fdMap[k] = IF k = g \/ k = ins THEN Cgi(c) ELSE r.fdMap[k]
  /\ \A k \in Fd : r2.tab[k] = IF k = g THEN Out(c)
                               ELSE IF k = ins THEN In(c) ELSE r.tab[k]
  /\ \A k \in File : r2.ptr[k] = IF k = Out(c) \/ (k = In(c) /\ ins # NoFd)
                                   THEN Cgi(c) ELSE r.ptr[k]
  /\ \A k \in File \ {In(c), Out(c)} : r2.mask[k] = r.mask[k]
  /\ \A k \in Handler : k # Cgi(c) => r2.flags[k] = r.flags[k]
  /\ ~IsInactive(r2, Cgi(c))

\* execCgi opens and adds the end of the input, if there is a body for it, and
\* then the end of the output.
LEMMA ExecCgiEffect ==
  ASSUME NEW r, Sane(r), NEW c \in Clients, NEW b \in Fd, NEW g \in Fd, b # g,
         r.tab[b] = NoFile, r.tab[g] = NoFile, ~IsInactive(r, Cgi(c)),
         r.ptr[In(c)] = NoHandler, r.ptr[Out(c)] = NoHandler
  PROVE  Started(r, ExecCgi(r, c, b, g), c, IF BodyOf(c) > 0 THEN b ELSE NoFd, g)
         /\ Sane(ExecCgi(r, c, b, g))
<1> DEFINE ins == IF BodyOf(c) > 0 THEN b ELSE NoFd
           r0 == Open(r, b, In(c))
           r1 == IF BodyOf(c) > 0 THEN AddHandlerFd(r0, Cgi(c), b, {"OUT"}) ELSE r
           r2 == Open(r1, g, Out(c))
           r3 == SetFlags(r2, Cgi(c), {"WANT_READ"})
           r4 == AddHandlerFd(r3, Cgi(c), g, {"IN"})
<1>1. Cgi(c) \in Handler /\ In(c) \in File /\ Out(c) \in File /\ In(c) # Out(c)
  BY NamesAreTyped, NamesDiffer
<1>2. b # NoFd BY NamesAreDistinct
<1>3. /\ r1.handlers \cup {Cgi(c)} = r.handlers \cup {Cgi(c)}
      /\ r1.failed = r.failed /\ r1.flags = r.flags
      /\ \A k \in Fd : r1.fdMap[k] = IF k = ins THEN Cgi(c) ELSE r.fdMap[k]
      /\ \A k \in Fd : r1.tab[k] = IF k = ins THEN In(c) ELSE r.tab[k]
      /\ \A k \in File : r1.ptr[k] = IF k = In(c) /\ ins # NoFd
                                       THEN Cgi(c) ELSE r.ptr[k]
      /\ \A k \in File \ {In(c)} : r1.mask[k] = r.mask[k]
      /\ Sane(r1)
  <2>1. CASE BodyOf(c) > 0
    <3>1. /\ r0.handlers = r.handlers /\ r0.flags = r.flags /\ r0.fdMap = r.fdMap
          /\ r0.ptr = r.ptr /\ r0.mask = r.mask /\ r0.failed = r.failed
          /\ \A k \in Fd : r0.tab[k] = IF k = b THEN In(c) ELSE r.tab[k]
      BY DEF Open, Sane, ReactorState
    <3>2. Sane(r0) BY <1>1, OpenIsSane
    <3>3. r1 = AddHandlerFd(r0, Cgi(c), b, {"OUT"}) /\ ins = b BY <2>1
    <3> HIDE DEF r0, r1, ins
    <3>4. Added(r0, r1, Cgi(c), b, In(c), {"OUT"})
      BY <1>1, <3>1, <3>2, <3>3, AddHandlerFdEffect
    <3>5. Sane(r1) BY <1>1, <3>2, <3>3, AddHandlerFdIsSane
    <3> QED BY <1>1, <1>2, <3>1, <3>3, <3>4, <3>5 DEF Added
  <2>2. CASE ~(BodyOf(c) > 0)
    <3>1. r1 = r /\ ins = NoFd BY <2>2
    <3> QED BY <3>1, NamesAreDistinct
  <2> QED BY <2>1, <2>2
<1> HIDE DEF r1
<1>4. /\ r2.handlers = r1.handlers /\ r2.flags = r1.flags /\ r2.fdMap = r1.fdMap
      /\ r2.ptr = r1.ptr /\ r2.mask = r1.mask /\ r2.failed = r1.failed
      /\ \A k \in Fd : r2.tab[k] = IF k = g THEN Out(c) ELSE r1.tab[k]
  BY <1>3 DEF Open, Sane, ReactorState
<1>5. Sane(r2) BY <1>1, <1>3, OpenIsSane
<1> HIDE DEF r2
<1>6. /\ r3.handlers = r2.handlers /\ r3.fdMap = r2.fdMap /\ r3.tab = r2.tab
      /\ r3.ptr = r2.ptr /\ r3.mask = r2.mask /\ r3.failed = r2.failed
      /\ \A k \in Handler : k # Cgi(c) => r3.flags[k] = r2.flags[k]
      /\ r3.flags[Cgi(c)] = (r2.flags[Cgi(c)] \cap {"INACTIVE"}) \cup {"WANT_READ"}
  BY <1>1, <1>5 DEF SetFlags, Sane, ReactorState
<1>7. Sane(r3) BY <1>1, <1>5, FlagsAreSane DEF Flag
<1>8. ~IsInactive(r3, Cgi(c)) BY <1>3, <1>4, <1>6 DEF IsInactive
<1> HIDE DEF r3, ins
<1>9. r3.tab[g] = Out(c) /\ r3.ptr[Out(c)] = NoHandler
  BY <1>1, <1>3, <1>4, <1>6
<1>10. Added(r3, r4, Cgi(c), g, Out(c), {"IN"}) BY <1>1, <1>7, <1>9, AddHandlerFdEffect
<1>11. Sane(r4) BY <1>1, <1>7, AddHandlerFdIsSane
<1> HIDE DEF r4
<1>12. /\ r4.handlers = r.handlers \cup {Cgi(c)} /\ r4.failed = r.failed
       /\ ~IsInactive(r4, Cgi(c))
       /\ \A k \in Handler : k # Cgi(c) => r4.flags[k] = r.flags[k]
  BY <1>3, <1>4, <1>6, <1>8, <1>10 DEF Added, IsInactive
<1>13. /\ \A k \in Fd : r4.fdMap[k] = IF k = g \/ k = ins THEN Cgi(c) ELSE r.fdMap[k]
       /\ \A k \in Fd : r4.tab[k] = IF k = g THEN Out(c)
                                    ELSE IF k = ins THEN In(c) ELSE r.tab[k]
  BY <1>3, <1>4, <1>6, <1>10 DEF Added
<1>14. /\ \A k \in File : r4.ptr[k] = IF k = Out(c) \/ (k = In(c) /\ ins # NoFd)
                                        THEN Cgi(c) ELSE r.ptr[k]
       /\ \A k \in File \ {In(c), Out(c)} : r4.mask[k] = r.mask[k]
  BY <1>3, <1>4, <1>6, <1>10 DEF Added
<1>15. Started(r, r4, c, ins, g) BY <1>12, <1>13, <1>14 DEF Started
<1> QED BY <1>11, <1>15 DEF r4, r3, r2, r1, ins, ExecCgi

\* The wiring holds with the new CgiHandler.
LEMMA StartedIsWired ==
  ASSUME NEW r, Sane(r), NEW cn, NEW cg, Wired(r, cn, cg), ListenWired(r),
         NEW c \in Clients, Cgi(c) \notin r.handlers,
         NEW ins \in Fd \cup {NoFd}, NEW g \in Fd, ins # g, r.tab[g] = NoFile,
         ins # NoFd => r.tab[ins] = NoFile, r.ptr[In(c)] = NoHandler,
         NEW cg2, cg2[c].inFd = ins, cg2[c].outFd = g,
         \A d \in Clients \ {c} : cg2[d] = cg[d],
         NEW r2, Started(r, r2, c, ins, g)
  PROVE  Wired(r2, cn, cg2) /\ ListenWired(r2)
<1>1. /\ r.fdMap[g] = NoHandler /\ g # ListenFd
      /\ \A d \in Clients : /\ Conn(d) \in r.handlers => cn[d].fd # g
                            /\ Cgi(d) \in r.handlers => g \notin {cg[d].inFd, cg[d].outFd}
  BY FreeFdIsUnused
<1>2. ins # NoFd =>
        /\ ins \in Fd /\ r.fdMap[ins] = NoHandler /\ ins # ListenFd
        /\ \A d \in Clients : /\ Conn(d) \in r.handlers => cn[d].fd # ins
                              /\ Cgi(d) \in r.handlers => ins \notin {cg[d].inFd, cg[d].outFd}
  BY FreeFdIsUnused
<1>3. ASSUME NEW d \in Clients PROVE ConnWired(r2, d, cn[d].fd)
  <2>1. ConnWired(r, d, cn[d].fd) BY DEF Wired
  <2>2. /\ Conn(d) \in Handler /\ Sock(d) \in File \ {In(c), Out(c)} /\ Conn(d) # Cgi(c)
        /\ NoHandler # Conn(d)
    BY NamesAreTyped, NamesDiffer
  <2>3. /\ r2.flags[Conn(d)] = r.flags[Conn(d)] /\ r2.ptr[Sock(d)] = r.ptr[Sock(d)]
        /\ r2.mask[Sock(d)] = r.mask[Sock(d)]
        /\ Conn(d) \in r2.handlers <=> Conn(d) \in r.handlers
    BY <2>2 DEF Started
  <2>4. \A k \in Fd : /\ r2.fdMap[k] = Conn(d) <=> r.fdMap[k] = Conn(d)
                      /\ r2.tab[k] = Sock(d) <=> r.tab[k] = Sock(d)
    BY <1>1, <1>2, <2>2, NamesDiffer, NamesAreDistinct DEF Started
  <2> QED BY <2>1, <2>3, <2>4 DEF ConnWired, Lives, IsInactive
<1>4. ASSUME NEW d \in Clients PROVE CgiWired(r2, d, cg2[d].inFd, cg2[d].outFd)
  <2>1. CgiWired(r, d, cg[d].inFd, cg[d].outFd) BY DEF Wired
  <2>2. /\ In(d) \in File /\ Out(d) \in File /\ Cgi(d) \in Handler
        /\ Cgi(d) # NoHandler /\ In(d) # NoFile /\ Out(d) # NoFile
        /\ In(d) # Out(d) /\ NoFd \notin Fd
    BY NamesAreTyped, NamesDiffer, NamesAreDistinct
  <2>3. CASE d # c
    <3>1. /\ cg2[d] = cg[d] /\ Cgi(d) # Cgi(c)
          /\ In(d) \notin {In(c), Out(c)} /\ Out(d) \notin {In(c), Out(c)}
      BY <2>3, NamesDiffer
    <3>2. /\ r2.flags[Cgi(d)] = r.flags[Cgi(d)]
          /\ r2.ptr[In(d)] = r.ptr[In(d)] /\ r2.ptr[Out(d)] = r.ptr[Out(d)]
          /\ Cgi(d) \in r2.handlers <=> Cgi(d) \in r.handlers
      BY <2>2, <3>1 DEF Started
    <3>3. \A k \in Fd : /\ r2.fdMap[k] = Cgi(d) <=> r.fdMap[k] = Cgi(d)
                        /\ r2.tab[k] = In(d) <=> r.tab[k] = In(d)
                        /\ r2.tab[k] = Out(d) <=> r.tab[k] = Out(d)
      BY <1>1, <1>2, <2>2, <3>1 DEF Started
    <3>4. EndWired(r2, Cgi(d), In(d), cg[d].inFd) /\ EndWired(r2, Cgi(d), Out(d), cg[d].outFd)
      BY <2>1, <3>2, <3>3 DEF CgiWired, EndWired
    <3> QED BY <2>1, <3>1, <3>2, <3>3, <3>4 DEF CgiWired, IsInactive
  <2>4. CASE d = c
    <3>1. /\ Cgi(c) \in r2.handlers /\ ~IsInactive(r2, Cgi(c))
          /\ r2.ptr[Out(c)] = Cgi(c)
          /\ r2.ptr[In(c)] = IF ins # NoFd THEN Cgi(c) ELSE NoHandler
      BY <2>2, <2>4 DEF Started
    <3>2. \A k \in Fd : /\ r.fdMap[k] # Cgi(c)
                        /\ r.tab[k] # In(c) /\ r.tab[k] # Out(c)
      BY <2>1, <2>4 DEF CgiWired, EndWired
    <3>3. /\ \A k \in Fd : r2.fdMap[k] = Cgi(c) <=> k = g \/ k = ins
          /\ \A k \in Fd : r2.tab[k] = Out(c) <=> k = g
          /\ \A k \in Fd : r2.tab[k] = In(c) <=> k = ins
      BY <2>2, <2>4, <3>2 DEF Started
    <3>4. EndWired(r2, Cgi(c), In(c), ins) BY <3>1, <3>3, <2>2, <2>4 DEF EndWired
    <3>5. EndWired(r2, Cgi(c), Out(c), g) BY <3>1, <3>3, <2>2, <2>4 DEF EndWired
    <3> QED BY <2>2, <2>4, <3>1, <3>3, <3>4, <3>5 DEF CgiWired
  <2> QED BY <2>3, <2>4
<1>5. /\ Listening \in File /\ Acceptor # Cgi(c) /\ Listening # In(c) /\ Listening # Out(c)
      /\ Acceptor \in Handler /\ ListenFd \in Fd
  BY NamesAreDistinct, NamesDiffer
<1>6. ListenWired(r2) BY <1>1, <1>2, <1>5, NamesAreDistinct DEF ListenWired, Lives, IsInactive, Started
<1>7. \A k \in Fd : r2.fdMap[k] = Acceptor \/ r2.tab[k] = Listening => k = ListenFd
  BY <1>5 DEF Wired, Started
<1>8. ~r2.failed /\ r2.ptr[Listening] \in {NoHandler, Acceptor}
  BY <1>5 DEF Wired, Started
<1> QED BY <1>3, <1>4, <1>6, <1>7, <1>8 DEF Wired

-----------------------------------------------------------------------------
(* What a connection does to the Reactor.                                  *)

\* Flags of a connection change, and updateHandler arms its socket accordingly.
LEMMA UpdateConnEffect ==
  ASSUME NEW r, Sane(r), NEW c \in Clients, NEW fd, ConnWired(r, c, fd),
         Lives(r, Conn(c)), NEW fl \in SUBSET Flag
  PROVE  LET r1 == [r EXCEPT !.flags[Conn(c)] = fl] IN
         Rearmed(r, UpdateHandler(r1, Conn(c)), Conn(c), Sock(c), fl)
<1> DEFINE r1 == [r EXCEPT !.flags[Conn(c)] = fl]
<1>1. /\ Conn(c) \in Handler /\ Sock(c) \in File /\ fd \in Fd /\ r.tab[fd] = Sock(c)
      /\ r.ptr[Sock(c)] = Conn(c) /\ \A g \in Fd : r.fdMap[g] = Conn(c) <=> g = fd
  BY NamesAreTyped DEF ConnWired, Lives
<1>2. r1.fdMap = r.fdMap BY DEF Sane, ReactorState
<1>3. FdsOf(r1, Conn(c)) = {fd} BY <1>1, <1>2 DEF FdsOf
<1>4. UpdateHandler(r1, Conn(c)) = Modify(r1, {fd}, Conn(c)) BY <1>3 DEF UpdateHandler
<1>5. Rearmed(r, Modify(r1, {fd}, Conn(c)), Conn(c), Sock(c), fl)
  BY <1>1, ModifyEffect
<1> QED BY <1>4, <1>5

\* The connection turns to writing, is suspended, or is made to write as well.
LEMMA ConnectionIsRearmed ==
  ASSUME NEW r, Sane(r), NEW c \in Clients, NEW fd, ConnWired(r, c, fd),
         Lives(r, Conn(c))
  PROVE  /\ Rearmed(r, Respond(r, c), Conn(c), Sock(c), {"WANT_WRITE"})
         /\ Rearmed(r, Suspend(r, c), Conn(c), Sock(c), {})
         /\ Rearmed(r, Arm(r, c), Conn(c), Sock(c), r.flags[Conn(c)] \cup {"WANT_WRITE"})
         /\ Rearmed(r, UpdateHandler(ClearWantWrite(r, Conn(c)), Conn(c)), Conn(c), Sock(c),
                    r.flags[Conn(c)] \ {"WANT_WRITE"})
<1> DEFINE h  == Conn(c)
           fl == r.flags[h]
<1>1. h \in Handler /\ fl \in SUBSET Flag /\ "INACTIVE" \notin fl
  BY NamesAreTyped DEF Sane, ReactorState, Lives, IsInactive
<1>2. /\ fl \cup {"WANT_WRITE"} \in SUBSET Flag /\ fl \ {"WANT_WRITE"} \in SUBSET Flag
      /\ {"WANT_WRITE"} \in SUBSET Flag /\ {} \in SUBSET Flag
  BY <1>1 DEF Flag
<1>3. SetFlags(r, h, {"WANT_WRITE"}) = [r EXCEPT !.flags[h] = {"WANT_WRITE"}]
  <2>1. (fl \cap {"INACTIVE"}) \cup {"WANT_WRITE"} = {"WANT_WRITE"} BY <1>1
  <2> QED BY <2>1 DEF SetFlags
<1>4. SetFlags(r, h, {}) = [r EXCEPT !.flags[h] = {}]
  <2>1. (fl \cap {"INACTIVE"}) \cup {} = {} BY <1>1
  <2> QED BY <2>1 DEF SetFlags
<1>5. SetWantWrite(r, h) = [r EXCEPT !.flags[h] = fl \cup {"WANT_WRITE"}]
  BY DEF SetWantWrite
<1>6. ClearWantWrite(r, h) = [r EXCEPT !.flags[h] = fl \ {"WANT_WRITE"}]
  BY DEF ClearWantWrite
<1>7. Rearmed(r, Respond(r, c), h, Sock(c), {"WANT_WRITE"})
  BY <1>2, <1>3, UpdateConnEffect DEF Respond
<1>8. Rearmed(r, Suspend(r, c), h, Sock(c), {})
  BY <1>2, <1>4, UpdateConnEffect DEF Suspend
<1>9. Rearmed(r, Arm(r, c), h, Sock(c), fl \cup {"WANT_WRITE"})
  BY <1>2, <1>5, UpdateConnEffect DEF Arm
<1>10. Rearmed(r, UpdateHandler(ClearWantWrite(r, h), h), h, Sock(c), fl \ {"WANT_WRITE"})
  BY <1>2, <1>6, UpdateConnEffect
<1> QED BY <1>7, <1>8, <1>9, <1>10

\* The wiring holds after each of these.
LEMMA ConnectionStaysWired ==
  ASSUME NEW r, Sane(r), NEW cn, NEW cg, Wired(r, cn, cg), ListenWired(r),
         NEW c \in Clients, Lives(r, Conn(c)),
         NEW r2, NEW fl \in SUBSET Flag, "INACTIVE" \notin fl,
         Rearmed(r, r2, Conn(c), Sock(c), fl)
  PROVE  Wired(r2, cn, cg) /\ ListenWired(r2)
<1>1. /\ Conn(c) \in Handler /\ Sock(c) \in File /\ ~IsInactive(r, Conn(c))
      /\ r.ptr[Sock(c)] = Conn(c)
  BY NamesAreTyped DEF Wired, ConnWired, Lives
<1> QED BY <1>1, RearmedIsWired

\* A connection is given up, after its last response or without one.
LEMMA ConnectionIsGivenUp ==
  ASSUME NEW r, Sane(r), NEW c \in Clients, ConnWired(r, c, conn[c].fd),
         Lives(r, Conn(c))
  PROVE  /\ GivenUp(r, GiveUp(r, c), Conn(c), conn[c].fd, Sock(c))
         /\ GivenUp(r, Close(r, c), Conn(c), conn[c].fd, Sock(c))
<1>1. GivenUp(r, GiveUp(r, c), Conn(c), conn[c].fd, Sock(c))
  BY GiveUpEffect DEF GiveUp
<1> DEFINE fl == r.flags[Conn(c)] \ {"WANT_WRITE"}
           r1 == UpdateHandler(ClearWantWrite(r, Conn(c)), Conn(c))
<1>2. Rearmed(r, r1, Conn(c), Sock(c), fl) BY ConnectionIsRearmed
<1>3. Close(r, c) = DeleteHandler(r1, conn[c].fd) BY DEF Close
<1>4. Conn(c) \in Handler /\ Sock(c) \in File BY NamesAreTyped
<1>5. fl \in SUBSET Flag /\ "INACTIVE" \notin fl
  BY <1>4 DEF Sane, ReactorState, Lives, IsInactive
<1>6. Sane(r1)
  <2>1. Sane(ClearWantWrite(r, Conn(c))) BY <1>4, FlagsAreSane DEF Flag
  <2> QED BY <1>4, <2>1, UpdateHandlerIsSane
<1> HIDE DEF r1, fl
<1>7. ConnWired(r1, c, conn[c].fd) /\ Lives(r1, Conn(c))
  BY <1>2, <1>4, <1>5 DEF Rearmed, ConnWired, Lives, IsInactive
<1>8. GivenUp(r1, DeleteHandler(r1, conn[c].fd), Conn(c), conn[c].fd, Sock(c))
  BY <1>6, <1>7, GiveUpEffect
<1>9. GivenUp(r, Close(r, c), Conn(c), conn[c].fd, Sock(c))
  BY <1>2, <1>3, <1>8 DEF Rearmed, GivenUp
<1> QED BY <1>1, <1>9

-----------------------------------------------------------------------------
(* What clients and scripts do to the kernel's tables.                     *)

\* The wiring depends on the descriptors in the handlers' members only.
LEMMA WiredByDescriptors ==
  ASSUME NEW r, NEW cn, NEW cg, NEW cn2, NEW cg2, Wired(r, cn, cg),
         \A c \in Clients : /\ cn2[c].fd = cn[c].fd /\ cg2[c].inFd = cg[c].inFd
                            /\ cg2[c].outFd = cg[c].outFd
  PROVE  Wired(r, cn2, cg2)
BY DEF Wired

\* The list of files to poll again is no part of the wiring.
LEMMA WakeEffect ==
  ASSUME NEW r, Sane(r), NEW f \in File, NEW b \in SUBSET Bit
  PROVE  LET r2 == Wake(r, f, b) IN
         /\ Sane(r2) /\ r2.handlers = r.handlers /\ r2.flags = r.flags
         /\ r2.fdMap = r.fdMap /\ r2.tab = r.tab /\ r2.ptr = r.ptr /\ r2.mask = r.mask
         /\ r2.failed = r.failed
<1>1. Sane(Wake(r, f, b)) BY WakeIsSane
<1>2. CASE Wake(r, f, b) = r BY <1>1, <1>2
<1>3. CASE Wake(r, f, b) = [r EXCEPT !.edge = @ \cup {f}]
  BY <1>1, <1>3 DEF Sane, ReactorState
<1> QED BY <1>2, <1>3 DEF Wake

\* Only these fields of the reactor state matter.
LEMMA WiredByFields ==
  ASSUME NEW r, NEW cn, NEW cg, NEW r2,
         r2.handlers = r.handlers, r2.flags = r.flags, r2.fdMap = r.fdMap, r2.tab = r.tab,
         r2.ptr = r.ptr, r2.mask = r.mask, r2.failed = r.failed
  PROVE  (Wired(r, cn, cg) => Wired(r2, cn, cg)) /\ (ListenWired(r) => ListenWired(r2))
BY DEF Wired, ListenWired, ConnWired, CgiWired, EndWired, Lives, IsInactive

\* Files that no descriptor of the server leads to are forgotten.
LEMMA OrphansForgottenIsWired ==
  ASSUME NEW r, Sane(r), NEW cn, NEW cg, Wired(r, cn, cg), NEW fs,
         \A fd \in Fd : r.tab[fd] \notin fs
  PROVE  Wired(Forget(r, fs), cn, cg) /\ (ListenWired(r) => ListenWired(Forget(r, fs)))
<1> DEFINE r2 == Forget(r, fs)
<1>1. /\ r2.handlers = r.handlers /\ r2.flags = r.flags /\ r2.fdMap = r.fdMap
      /\ r2.tab = r.tab /\ r2.failed = r.failed
      /\ \A f \in File : r2.ptr[f] = IF f \in fs THEN NoHandler ELSE r.ptr[f]
      /\ \A f \in File : r2.mask[f] = IF f \in fs THEN {} ELSE r.mask[f]
  BY ForgetEffect
<1> HIDE DEF r2
<1>2. ASSUME NEW c \in Clients
      PROVE  ConnWired(r2, c, cn[c].fd) /\ CgiWired(r2, c, cg[c].inFd, cg[c].outFd)
  <2>1. ConnWired(r, c, cn[c].fd) /\ CgiWired(r, c, cg[c].inFd, cg[c].outFd) BY DEF Wired
  <2>2. Sock(c) \in File /\ In(c) \in File /\ Out(c) \in File BY NamesAreTyped
  <2>3. ConnWired(r2, c, cn[c].fd)
    BY <1>1, <2>1, <2>2 DEF ConnWired, Lives, IsInactive
  <2>4. CgiWired(r2, c, cg[c].inFd, cg[c].outFd)
    BY <1>1, <2>1, <2>2 DEF CgiWired, EndWired, IsInactive
  <2> QED BY <2>3, <2>4
<1>3. Listening \in File /\ ListenFd \in Fd BY NamesAreDistinct
<1>4. ListenWired(r) => ListenWired(r2)
  BY <1>1, <1>3 DEF ListenWired, Lives, IsInactive
<1>5. Wired(r2, cn, cg) BY <1>1, <1>2, <1>3 DEF Wired
<1> QED BY <1>4, <1>5 DEF r2

-----------------------------------------------------------------------------
(* Handlers are deleted.                                                   *)

\* The descriptors the destructors of the handlers hs close.
DescriptorsOf(hs, cn, cg) ==
  UNION {IF h.type = "CONNECTION" THEN {cn[h.client].fd}
         ELSE IF h.type = "CGI" THEN {cg[h.client].inFd, cg[h.client].outFd}
         ELSE {} : h \in hs}

\* They are the sockets of the connections and the pipe ends of the scripts.
LEMMA DescriptorsAreOwn ==
  ASSUME NEW hs \in SUBSET Handler, NEW cn, NEW cg, NEW fd
  PROVE  fd \in DescriptorsOf(hs, cn, cg) <=>
           \E c \in Clients : \/ Conn(c) \in hs /\ fd = cn[c].fd
                              \/ Cgi(c) \in hs /\ fd \in {cg[c].inFd, cg[c].outFd}
<1> DEFINE D(h) == IF h.type = "CONNECTION" THEN {cn[h.client].fd}
                   ELSE IF h.type = "CGI" THEN {cg[h.client].inFd, cg[h.client].outFd}
                   ELSE {}
<1>1. \A c \in Clients : /\ D(Conn(c)) = {cn[c].fd}
                         /\ D(Cgi(c)) = {cg[c].inFd, cg[c].outFd}
  BY DEF Conn, Cgi
<1>2. D(Acceptor) = {} BY DEF Acceptor
<1>3. DescriptorsOf(hs, cn, cg) = UNION {D(h) : h \in hs} BY DEF DescriptorsOf
<1> HIDE DEF D
<1>4. ASSUME fd \in DescriptorsOf(hs, cn, cg)
      PROVE  \E c \in Clients : \/ Conn(c) \in hs /\ fd = cn[c].fd
                                \/ Cgi(c) \in hs /\ fd \in {cg[c].inFd, cg[c].outFd}
  <2>1. PICK h \in hs : fd \in D(h) BY <1>3, <1>4
  <2>2. PICK c \in Clients : h = Conn(c) \/ h = Cgi(c) BY <1>2, <2>1, NamesAreAll
  <2> QED BY <1>1, <2>1, <2>2
<1>5. ASSUME NEW c \in Clients, \/ Conn(c) \in hs /\ fd = cn[c].fd
                                \/ Cgi(c) \in hs /\ fd \in {cg[c].inFd, cg[c].outFd}
      PROVE  fd \in DescriptorsOf(hs, cn, cg)
  BY <1>1, <1>3, <1>5
<1> QED BY <1>4, <1>5

\* The inactive handlers leave fd_map_ and handlers_.
LEMMA RemoveDeactivatedEffect ==
  ASSUME NEW r, Sane(r)
  PROVE  LET r2 == RemoveDeactivated(r) IN
         /\ r2.handlers = r.handlers \ Dead(r) /\ r2.flags = r.flags
         /\ r2.tab = r.tab /\ r2.ptr = r.ptr /\ r2.mask = r.mask /\ r2.failed = r.failed
         /\ \A k \in Fd : r2.fdMap[k] = IF r.fdMap[k] \in Dead(r) THEN NoHandler
                                        ELSE r.fdMap[k]
BY DEF Sane, ReactorState, RemoveDeactivated

\* The inactive handlers are deleted and their descriptors closed.
LEMMA SweptIsWired ==
  ASSUME NEW r, Sane(r), NEW cn, NEW cg, Wired(r, cn, cg), ListenWired(r), NEW held,
         NEW cn2, \A c \in Clients : Conn(c) \notin Dead(r) => cn2[c] = cn[c],
         NEW cg2, \A c \in Clients : Cgi(c) \notin Dead(r) => cg2[c] = cg[c]
  PROVE  LET r2 == CloseAll(RemoveDeactivated(r), DescriptorsOf(Dead(r), cn, cg), held) IN
         /\ Wired(r2, cn2, cg2) /\ ListenWired(r2)
         /\ r2.handlers = r.handlers \ Dead(r) /\ r2.flags = r.flags
         /\ \A f \in File : r2.ptr[f] \in {r.ptr[f], NoHandler}
<1> DEFINE fds == DescriptorsOf(Dead(r), cn, cg)
           r1 == RemoveDeactivated(r)
           r2 == CloseAll(r1, fds, held)
           fs == {r1.tab[fd] : fd \in fds \cap Fd} \ held
<1>1. /\ r1.handlers = r.handlers \ Dead(r) /\ r1.flags = r.flags
      /\ r1.tab = r.tab /\ r1.ptr = r.ptr /\ r1.mask = r.mask /\ r1.failed = r.failed
      /\ \A k \in Fd : r1.fdMap[k] = IF r.fdMap[k] \in Dead(r) THEN NoHandler
                                     ELSE r.fdMap[k]
  BY RemoveDeactivatedEffect
<1>2. Sane(r1) BY RemoveDeactivatedIsSane
<1>3. \A h : h \in Dead(r) <=> h \in r.handlers /\ IsInactive(r, h) BY DEF Dead
<1>4. Dead(r) \in SUBSET Handler BY RemoveDeactivatedIsSane
<1>5. \A fd : fd \in fds <=>
        \E c \in Clients : \/ Conn(c) \in Dead(r) /\ fd = cn[c].fd
                           \/ Cgi(c) \in Dead(r) /\ fd \in {cg[c].inFd, cg[c].outFd}
  BY <1>4, DescriptorsAreOwn
<1> HIDE DEF r1, fds
<1>6. /\ r2.handlers = r1.handlers /\ r2.flags = r1.flags /\ r2.fdMap = r1.fdMap
      /\ r2.failed = r1.failed
      /\ \A g \in Fd : r2.tab[g] = IF g \in fds THEN NoFile ELSE r1.tab[g]
      /\ \A f \in File : r2.ptr[f] = IF f \in fs THEN NoHandler ELSE r1.ptr[f]
      /\ \A f \in File : r2.mask[f] = IF f \in fs THEN {} ELSE r1.mask[f]
  BY <1>2, CloseAllEffect
<1>7. \A f \in fs : \E fd \in fds \cap Fd : f = r.tab[fd] BY <1>1
<1> HIDE DEF r2, fs
\* The file behind a descriptor of a dead handler is that handler's.
<1>8. ASSUME NEW fd \in fds \cap Fd
      PROVE  \E c \in Clients : \/ Conn(c) \in Dead(r) /\ r.tab[fd] = Sock(c)
                                \/ Cgi(c) \in Dead(r) /\ r.tab[fd] \in {In(c), Out(c)}
  <2>1. PICK c \in Clients : \/ Conn(c) \in Dead(r) /\ fd = cn[c].fd
                             \/ Cgi(c) \in Dead(r) /\ fd \in {cg[c].inFd, cg[c].outFd}
    BY <1>5
  <2>2. ConnWired(r, c, cn[c].fd) /\ CgiWired(r, c, cg[c].inFd, cg[c].outFd) BY DEF Wired
  <2>3. fd # NoFd BY NamesAreDistinct
  <2> QED BY <1>3, <2>1, <2>2, <2>3 DEF ConnWired, CgiWired, EndWired
<1>9. ASSUME NEW c \in Clients PROVE ConnWired(r2, c, cn2[c].fd)
  <2>1. ConnWired(r, c, cn[c].fd) BY DEF Wired
  <2>2. Conn(c) \in Handler /\ Sock(c) \in File /\ Conn(c) # NoHandler /\ Sock(c) # NoFile
    BY NamesAreTyped, NamesDiffer
  <2>3. CASE Conn(c) \in Dead(r)
    <3>1. Conn(c) \notin r2.handlers BY <1>1, <1>6, <2>3
    <3>2. r2.ptr[Sock(c)] = NoHandler
      BY <1>1, <1>3, <1>6, <2>1, <2>2, <2>3 DEF ConnWired, Lives
    <3>3. \A g \in Fd : r2.fdMap[g] # Conn(c) BY <1>1, <1>6, <2>2, <2>3
    <3>4. \A g \in Fd : r2.tab[g] # Sock(c)
      BY <1>1, <1>5, <1>6, <2>1, <2>2, <2>3 DEF ConnWired
    <3> QED BY <3>1, <3>2, <3>3, <3>4 DEF ConnWired, Lives
  <2>4. CASE Conn(c) \notin Dead(r)
    <3>1. cn2[c] = cn[c] BY <2>4
    <3>2. \A fd \in fds \cap Fd : r.tab[fd] # Sock(c) BY <1>8, <2>4, NamesDiffer
    <3>3. Sock(c) \notin fs BY <1>7, <3>2
    <3>4. /\ Conn(c) \in r2.handlers <=> Conn(c) \in r.handlers
          /\ r2.ptr[Sock(c)] = r.ptr[Sock(c)] /\ r2.mask[Sock(c)] = r.mask[Sock(c)]
          /\ \A g \in Fd : /\ r2.fdMap[g] = Conn(c) <=> r.fdMap[g] = Conn(c)
                           /\ r2.tab[g] = Sock(c) <=> r.tab[g] = Sock(c)
      BY <1>1, <1>6, <2>2, <2>4, <3>2, <3>3
    <3> QED BY <1>1, <1>6, <2>1, <3>1, <3>4 DEF ConnWired, Lives, IsInactive
  <2> QED BY <2>3, <2>4
<1>10. ASSUME NEW c \in Clients PROVE CgiWired(r2, c, cg2[c].inFd, cg2[c].outFd)
  <2>1. CgiWired(r, c, cg[c].inFd, cg[c].outFd) BY DEF Wired
  <2>2. /\ Cgi(c) \in Handler /\ In(c) \in File /\ Out(c) \in File /\ Cgi(c) # NoHandler
        /\ In(c) # NoFile /\ Out(c) # NoFile
    BY NamesAreTyped, NamesDiffer
  <2>3. CASE Cgi(c) \in Dead(r)
    <3>1. Cgi(c) \notin r2.handlers BY <1>1, <1>6, <2>3
    <3>2. r2.ptr[Out(c)] = NoHandler
      BY <1>1, <1>3, <1>6, <2>1, <2>2, <2>3 DEF CgiWired, EndWired
    <3>3. r2.ptr[In(c)] \in {NoHandler, Cgi(c)}
      BY <1>1, <1>6, <2>1, <2>2 DEF CgiWired, EndWired
    <3>4. \A g \in Fd : r2.fdMap[g] # Cgi(c) BY <1>1, <1>6, <2>2, <2>3
    <3>5. \A g \in Fd : r2.tab[g] # In(c) /\ r2.tab[g] # Out(c)
      BY <1>1, <1>5, <1>6, <2>1, <2>2, <2>3 DEF CgiWired, EndWired
    <3> QED BY <3>1, <3>2, <3>3, <3>4, <3>5 DEF CgiWired, EndWired
  <2>4. CASE Cgi(c) \notin Dead(r)
    <3>1. cg2[c] = cg[c] BY <2>4
    <3>2. \A fd \in fds \cap Fd : r.tab[fd] # In(c) /\ r.tab[fd] # Out(c)
      BY <1>8, <2>4, NamesDiffer
    <3>3. In(c) \notin fs /\ Out(c) \notin fs BY <1>7, <3>2
    <3>4. /\ Cgi(c) \in r2.handlers <=> Cgi(c) \in r.handlers
          /\ r2.ptr[In(c)] = r.ptr[In(c)] /\ r2.ptr[Out(c)] = r.ptr[Out(c)]
          /\ \A g \in Fd : /\ r2.fdMap[g] = Cgi(c) <=> r.fdMap[g] = Cgi(c)
                           /\ r2.tab[g] = In(c) <=> r.tab[g] = In(c)
                           /\ r2.tab[g] = Out(c) <=> r.tab[g] = Out(c)
      BY <1>1, <1>6, <2>2, <2>4, <3>2, <3>3
    <3> QED BY <1>1, <1>6, <2>1, <3>1, <3>4 DEF CgiWired, EndWired, IsInactive
  <2> QED BY <2>3, <2>4
<1>11. /\ Listening \in File /\ Acceptor # NoHandler /\ Listening # NoFile
       /\ Acceptor \in Handler /\ ListenFd \in Fd
  BY NamesAreDistinct, NamesDiffer
<1>12. \A fd \in fds \cap Fd : r.tab[fd] # Listening BY <1>8, NamesDiffer
<1>13. ListenWired(r2)
  <2>1. Listening \notin fs /\ ListenFd \notin fds
    BY <1>7, <1>11, <1>12 DEF ListenWired
  <2>2. Acceptor \notin Dead(r) BY <1>3 DEF ListenWired, Lives
  <2> QED BY <1>1, <1>6, <1>11, <2>1, <2>2 DEF ListenWired, Lives, IsInactive
<1>14. \A g \in Fd : r2.fdMap[g] = Acceptor \/ r2.tab[g] = Listening => g = ListenFd
  BY <1>1, <1>6, <1>11 DEF Wired
<1>15. ~r2.failed /\ r2.ptr[Listening] \in {NoHandler, Acceptor}
  BY <1>1, <1>6, <1>11 DEF Wired
<1>16. Wired(r2, cn2, cg2) BY <1>9, <1>10, <1>14, <1>15 DEF Wired
<1>17. \A f \in File : r2.ptr[f] \in {r.ptr[f], NoHandler} BY <1>1, <1>6
<1> QED BY <1>1, <1>6, <1>13, <1>16, <1>17 DEF r2, r1, fds

\* At the end every handler is deleted, and nothing is left in the tables.
LEMMA TornDownIsWired ==
  ASSUME NEW r, Sane(r), NEW cn, NEW cg, Wired(r, cn, cg), NEW held, NEW cn2, NEW cg2,
         NEW hs \in SUBSET Handler, \A h \in Handler : h \in hs <=> h \in r.handlers,
         NEW r2, r2 = CloseAll(Teardown(r), DescriptorsOf(hs, cn, cg), held)
  PROVE  /\ Wired(r2, cn2, cg2) /\ r2.handlers = {} /\ r2.tab[ListenFd] = NoFile
         /\ \A g \in Fd : r2.fdMap[g] = NoHandler
         /\ r2.flags = r.flags /\ \A f \in File : r2.ptr[f] = NoHandler
<1> DEFINE fds == DescriptorsOf(hs, cn, cg)
           r0 == Forget(r, File)
           r1 == Teardown(r)
<1>1. /\ r0.flags = r.flags /\ r0.tab = r.tab /\ r0.failed = r.failed
      /\ \A f \in File : r0.ptr[f] = NoHandler
  BY ForgetEffect
<1>2. Sane(r0) BY ForgetIsSane
<1>3. r1 = [r0 EXCEPT !.handlers = {}, !.tab[ListenFd] = NoFile,
                      !.fdMap = [fd \in Fd |-> NoHandler]]
  BY DEF Teardown
<1> HIDE DEF r0, r1
<1>4. /\ r1.handlers = {} /\ r1.flags = r.flags /\ r1.failed = r.failed
      /\ \A g \in Fd : r1.fdMap[g] = NoHandler
      /\ \A g \in Fd : r1.tab[g] = IF g = ListenFd THEN NoFile ELSE r.tab[g]
      /\ \A f \in File : r1.ptr[f] = NoHandler
      /\ Sane(r1)
  BY <1>1, <1>2, <1>3, NamesAreDistinct DEF Sane, ReactorState
<1>6. \A fd : fd \in fds <=>
        \E c \in Clients : \/ Conn(c) \in hs /\ fd = cn[c].fd
                           \/ Cgi(c) \in hs /\ fd \in {cg[c].inFd, cg[c].outFd}
  BY DescriptorsAreOwn
<1>0. r2 = CloseAll(r1, fds, held) BY DEF r1
<1> HIDE DEF fds
<1>7. /\ r2.handlers = {} /\ r2.flags = r.flags /\ r2.failed = r.failed
      /\ \A g \in Fd : r2.fdMap[g] = NoHandler
      /\ \A g \in Fd : r2.tab[g] = IF g \in fds THEN NoFile ELSE r1.tab[g]
      /\ \A f \in File : r2.ptr[f] = NoHandler
  BY <1>0, <1>4, CloseAllEffect
<1>8. ASSUME NEW c \in Clients
      PROVE  ConnWired(r2, c, cn2[c].fd) /\ CgiWired(r2, c, cg2[c].inFd, cg2[c].outFd)
  <2>1. ConnWired(r, c, cn[c].fd) /\ CgiWired(r, c, cg[c].inFd, cg[c].outFd) BY DEF Wired
  <2>2. /\ Sock(c) \in File /\ In(c) \in File /\ Out(c) \in File
        /\ Conn(c) \in Handler /\ Cgi(c) \in Handler
        /\ Conn(c) # NoHandler /\ Cgi(c) # NoHandler
        /\ Sock(c) # NoFile /\ In(c) # NoFile /\ Out(c) # NoFile
    BY NamesAreTyped, NamesDiffer
  <2>3. \A g \in Fd : r2.tab[g] # Sock(c)
    BY <1>4, <1>6, <1>7, <2>1, <2>2 DEF ConnWired
  <2>4. \A g \in Fd : r2.tab[g] # In(c) /\ r2.tab[g] # Out(c)
    BY <1>4, <1>6, <1>7, <2>1, <2>2 DEF CgiWired, EndWired
  <2> QED BY <1>7, <2>2, <2>3, <2>4 DEF ConnWired, CgiWired, EndWired, Lives
<1>9. Listening \in File /\ ListenFd \in Fd /\ Acceptor # NoHandler /\ Listening # NoFile
  BY NamesAreDistinct, NamesDiffer
<1>10. r2.tab[ListenFd] = NoFile BY <1>4, <1>7, <1>9
<1>11. \A g \in Fd : r2.fdMap[g] = Acceptor \/ r2.tab[g] = Listening => g = ListenFd
  BY <1>4, <1>7, <1>9 DEF Wired
<1>12. ~r2.failed BY <1>7 DEF Wired
<1>13. Wired(r2, cn2, cg2) BY <1>7, <1>8, <1>9, <1>11, <1>12 DEF Wired
<1> QED BY <1>7, <1>10, <1>13

-----------------------------------------------------------------------------
(* What a script's handler does to the Reactor.                            *)

\* The handler closes its end of the input and keeps that of the output: it lives on.
LEMMA InputClosedIsWired ==
  ASSUME NEW r, Sane(r), NEW cn, NEW cg, Wired(r, cn, cg), ListenWired(r),
         NEW c \in Clients, Lives(r, Cgi(c)), cg[c].inFd # NoFd, NEW held,
         NEW cg2, \A d \in Clients \ {c} : cg2[d] = cg[d],
         cg2[c].inFd = NoFd, cg2[c].outFd = cg[c].outFd
  PROVE  LET r2 == CloseAll(DeleteHandler(r, cg[c].inFd), {cg[c].inFd}, held) IN
         /\ EndClosed(r, r2, Cgi(c), cg[c].inFd, In(c)) /\ Sane(r2)
         /\ Wired(r2, cn, cg2) /\ ListenWired(r2) /\ Lives(r2, Cgi(c))
         /\ r2.flags[Cgi(c)] = r.flags[Cgi(c)]
<1> DEFINE g  == cg[c].inFd
           r2 == CloseAll(DeleteHandler(r, g), {g}, held)
<1>1. CgiWired(r, c, g, cg[c].outFd) BY DEF Wired
<1>2. Cgi(c) \in Handler /\ In(c) \in File /\ Cgi(c) \in r.handlers
  BY NamesAreTyped DEF Lives
<1>3. /\ EndClosed(r, r2, Cgi(c), g, In(c)) /\ Sane(r2)
      /\ r2.flags[Cgi(c)] = IF \A k \in Fd : r.fdMap[k] = Cgi(c) => k = g
                              THEN r.flags[Cgi(c)] \cup {"INACTIVE"} ELSE r.flags[Cgi(c)]
  BY <1>1, <1>2, EndClosedEffect DEF CgiWired
<1> HIDE DEF r2, g
<1>4. cg[c].outFd # NoFd BY <1>1, <1>2 DEF CgiWired, Lives
<1>5. /\ cg[c].outFd \in Fd /\ r.fdMap[cg[c].outFd] = Cgi(c)
      /\ r.tab[cg[c].outFd] = Out(c)
  BY <1>1, <1>2, <1>4 DEF CgiWired, EndWired
<1>6. g # NoFd /\ r.tab[g] = In(c) BY <1>1, <1>2 DEF CgiWired, EndWired, g
<1>7. cg[c].outFd # g BY <1>5, <1>6, NamesDiffer
<1>8. r2.flags[Cgi(c)] = r.flags[Cgi(c)] BY <1>3, <1>5, <1>7
<1>9. ~IsInactive(r2, Cgi(c)) BY <1>8 DEF Lives, IsInactive
<1>10. Wired(r2, cn, cg2) /\ ListenWired(r2)
  <2>1. IsInactive(r2, Cgi(c)) <=> cg2[c].outFd = NoFd BY <1>4, <1>9
  <2> QED BY <1>3, <1>6, <2>1, EndClosedIsWired DEF g
<1>11. Lives(r2, Cgi(c)) BY <1>2, <1>3, <1>9 DEF EndClosed, Lives
<1> QED BY <1>3, <1>8, <1>10, <1>11 DEF r2, g

\* The handler closes its end of the output and is deactivated.
LEMMA OutputClosedIsWired ==
  ASSUME NEW r, Sane(r), NEW cn, NEW cg, Wired(r, cn, cg), ListenWired(r),
         NEW c \in Clients, Lives(r, Cgi(c)), NEW held,
         NEW cg2, \A d \in Clients \ {c} : cg2[d] = cg[d],
         cg2[c].outFd = NoFd, cg2[c].inFd = cg[c].inFd
  PROVE  LET g  == cg[c].outFd
             r2 == Deactivate(CloseAll(DeleteHandler(r, g), {g}, held), Cgi(c)) IN
         /\ EndClosed(r, r2, Cgi(c), g, Out(c)) /\ Sane(r2)
         /\ Wired(r2, cn, cg2) /\ ListenWired(r2) /\ IsInactive(r2, Cgi(c))
         /\ g \in Fd
<1> DEFINE g  == cg[c].outFd
           r1 == CloseAll(DeleteHandler(r, g), {g}, held)
           r2 == Deactivate(r1, Cgi(c))
<1>1. CgiWired(r, c, cg[c].inFd, g) BY DEF Wired
<1>2. Cgi(c) \in Handler /\ Out(c) \in File /\ Cgi(c) \in r.handlers
  BY NamesAreTyped DEF Lives
<1>3. g # NoFd BY <1>1, <1>2 DEF CgiWired, Lives
<1>4. g \in Fd BY <1>1, <1>2, <1>3 DEF CgiWired, EndWired
<1>5. EndClosed(r, r1, Cgi(c), g, Out(c)) /\ Sane(r1)
  BY <1>1, <1>2, <1>3, EndClosedEffect DEF CgiWired
<1> HIDE DEF r1
<1>6. Sane(r2) BY <1>2, <1>5, FlagsAreSane
<1>7. EndClosed(r, r2, Cgi(c), g, Out(c)) /\ IsInactive(r2, Cgi(c))
  BY <1>2, <1>5 DEF EndClosed, Deactivate, IsInactive, Sane, ReactorState
<1> HIDE DEF r2, g
<1>8. Wired(r2, cn, cg2) /\ ListenWired(r2)
  BY <1>3, <1>7, EndClosedIsWired DEF g
<1> QED BY <1>4, <1>6, <1>7, <1>8 DEF r2, r1, g
=============================================================================
