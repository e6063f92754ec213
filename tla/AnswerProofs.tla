---------------------------- MODULE AnswerProofs ----------------------------
(***************************************************************************)
(* Connections and their answers.  Every step is first seen as what it     *)
(* does to one connection and its client: nothing, or one of the few moves *)
(* below.  That the moves keep AnswerInv, that a request gets one response *)
(* and a whole one, and that the server implements HttpExchange is then    *)
(* shown of the moves alone.                                               *)
(***************************************************************************)
EXTENDS SafetyProofs

-----------------------------------------------------------------------------
(* The moves.                                                              *)

\* Nothing changes but what is collected of a script, and perhaps the connection
\* is made to write.
Keeps(c) ==
  /\ conn'[c].resp = conn[c].resp /\ conn'[c].cgiPending = conn[c].cgiPending
  /\ conn'[c].rcvd = conn[c].rcvd
  /\ Conn(c) \notin rx.handlers => conn'[c] = conn[c]
  /\ peer'[c] = peer[c]
  /\ Conn(c) \in rx'.handlers <=> Conn(c) \in rx.handlers
  /\ Active(Conn(c))' <=> Active(Conn(c))
  /\ rx'.flags[Conn(c)] \in {rx.flags[Conn(c)], {"WANT_WRITE"}}

\* The connection is there before and after.
Goes(c) == /\ Active(Conn(c)) /\ Active(Conn(c))' /\ peer'[c] = peer[c]
           /\ conn'[c].fd = conn[c].fd

\* More of the request is read, and more is needed.
Reads(c) ==
  /\ Goes(c) /\ ~Responding(c)
  /\ conn'[c].resp = "none" /\ ~conn'[c].cgiPending
  /\ rx'.flags[Conn(c)] = rx.flags[Conn(c)]

\* A response is made, a page or a refusal.
Responds(c) ==
  /\ Goes(c) /\ ~Responding(c)
  /\ \/ conn'[c].resp = "page" /\ peer[c].kind = "static"
     \/ conn'[c].resp = "error" /\ (peer[c].kind = "bad" \/ peer[c].fin)
  /\ ~conn'[c].cgiPending
  /\ peer[c].sent > 0 \/ peer[c].fin
  /\ rx'.flags[Conn(c)] = {"WANT_WRITE"}

\* The connection waits for its script.
Suspends(c) ==
  /\ Goes(c) /\ ~Responding(c)
  /\ conn'[c].resp = "none" /\ conn'[c].cgiPending
  /\ conn'[c].rcvd = 2 /\ peer[c].sent = 2 /\ conn'[c].out = 0
  /\ peer[c].kind \in {"cgi", "cgiBody"}
  /\ rx'.flags[Conn(c)] = {}

\* A response is made of what the script has written.
CgiResponds(c) ==
  /\ Goes(c) /\ conn[c].cgiPending /\ conn[c].resp = "none"
  /\ conn'[c].resp = IF conn[c].out = 0 THEN "error" ELSE "cgi"
  /\ ~conn'[c].cgiPending
  /\ conn'[c].rcvd = conn[c].rcvd
  /\ rx'.flags[Conn(c)] = rx.flags[Conn(c)] \cup {"WANT_WRITE"}

\* The connection is given up: it has only to be deleted.
Ends(c) ==
  /\ Active(Conn(c)) /\ ~Active(Conn(c))' /\ Conn(c) \in rx'.handlers
  /\ conn'[c].fd = conn[c].fd
  /\ conn'[c].rcvd = conn[c].rcvd /\ conn'[c].cgiPending = conn[c].cgiPending

\* The whole response is sent.
Closes(c) ==
  /\ Ends(c) /\ ~peer[c].rst
  /\ conn[c].resp # "none" /\ conn'[c].resp = "none" /\ conn'[c].out = 0
  /\ peer'[c] = [peer[c] EXCEPT !.reply = conn[c].resp]

\* The response is not sent, or only a part of it.
CutsOff(c) ==
  /\ Ends(c) /\ conn'[c] = conn[c]
  /\ \/ peer[c].rst /\ peer'[c] = peer[c]
     \/ /\ ~peer[c].rst /\ c \in Slow /\ conn[c].resp # "none"
        /\ peer'[c] = [peer[c] EXCEPT !.reply = "part"]

\* The ConnectionHandler is deleted, at the end of a turn or of the program.
Leaves(c) ==
  /\ Conn(c) \in rx.handlers /\ Conn(c) \notin rx'.handlers
  /\ loop'.pc = "gone" \/ ~Active(Conn(c))
  /\ conn'[c] = NoConn /\ peer'[c] = [peer[c] EXCEPT !.st = "closed"]

\* The client is accepted.
Arrives(c) ==
  /\ Conn(c) \notin rx.handlers /\ Active(Conn(c))'
  /\ peer[c].st = "queued" /\ peer'[c] = [peer[c] EXCEPT !.st = "up"]
  /\ conn'[c].resp = "none" /\ ~conn'[c].cgiPending /\ conn'[c].rcvd = 0

\* The client says something.
Says(c) ==
  /\ conn'[c] = conn[c] /\ rx'.handlers = rx.handlers /\ rx'.flags = rx.flags
  /\ \/ peer[c].st = "idle" /\ peer'[c] = [peer[c] EXCEPT !.st = "queued"]
     \/ /\ peer[c].st \in {"queued", "up"} /\ ~peer[c].fin
        /\ \E n \in Amount : n > peer[c].sent /\ peer'[c] = [peer[c] EXCEPT !.sent = n]
     \/ /\ peer[c].st \in {"queued", "up"} /\ c \in Finning
        /\ peer'[c] = [peer[c] EXCEPT !.fin = TRUE]
     \/ /\ peer[c].st \in {"queued", "up"} /\ c \in Resetting
        /\ peer'[c] = [peer[c] EXCEPT !.rst = TRUE]

-----------------------------------------------------------------------------
(* The events that are left.                                               *)

\* The method that handled e has returned, or the loop has skipped it or died of it.
Handled(e) == /\ loop'.batch = Rest(e) /\ loop'.running = loop.running
              /\ loop'.pc \in {"dispatch", "accept", "killed"}

\* A step that goes on with another event has handled e; no epoll_ctl has failed.
LEMMA StepHandles ==
  ASSUME TypeInv, SafeInv', NEW e \in loop.batch,
         Proceed(e) \/ Goto(e, "dispatch") \/ Goto(e, "accept") \/ Goto(e, "killed")
  PROVE  Handled(e)
<1>1. ~rx'.failed BY DEF SafeInv, Wired
<1>2. Goto(e, "dispatch") \/ Goto(e, "accept") \/ Goto(e, "killed")
  BY <1>1 DEF Proceed
<1> QED BY <1>2 DEF Handled, Goto, TypeInv, TypeOK, Loop

\* The events of other handlers are what they were.
LEMMA OtherEvents ==
  ASSUME TypeInv, NEW e \in loop.batch, Handled(e), NEW c \in Clients, e.h # Conn(c),
         NEW k \in loop'.batch, k.h = Conn(c)
  PROVE  k \in loop.batch
<1>1. e \in Event BY DEF TypeInv, TypeOK, Loop
<1>2. [e EXCEPT !.ev = {"OUT"}].h = e.h BY <1>1 DEF Event
<1> QED BY <1>2 DEF Handled, Rest

\* Of the event of a connection nothing is left, or a write.
LEMMA OwnEvent ==
  ASSUME TypeInv, NEW e \in loop.batch, Handled(e), NEW c \in Clients, Answering(c),
         e.h = Conn(c), NEW k \in loop'.batch, k.h = Conn(c)
  PROVE  /\ ~IsRead(k) /\ ~IsError(k)
         /\ \A j \in loop'.batch : j.h = Conn(c) => j = k
<1> DEFINE w == [e EXCEPT !.ev = {"OUT"}]
<1>1. e \in Event BY DEF TypeInv, TypeOK, Loop
<1>2. w.h = e.h /\ w.ev = {"OUT"} BY <1>1 DEF Event
<1>3. ASSUME NEW j \in loop'.batch, j.h = Conn(c) PROVE j = w
  <2>1. j \notin loop.batch \ {e} BY <1>3 DEF Answering
  <2> QED BY <2>1 DEF Handled, Rest
<1> HIDE DEF w
<1>4. ~IsRead(w) /\ ~IsError(w) BY <1>2 DEF IsRead, IsError
<1>5. k = w BY <1>3
<1> QED BY <1>3, <1>4, <1>5

-----------------------------------------------------------------------------
(* The moves keep what Answering says of the connection.                   *)

\* Nothing happens to a connection, and its events are what they were.
LEMMA KeepsAnswering ==
  ASSUME NEW c \in Clients, Answering(c), Keeps(c),
         \A k \in loop'.batch : k.h = Conn(c) => k \in loop.batch
  PROVE  Answering(c)'
<1>1. Responding(c)' <=> Responding(c) BY DEF Keeps, Responding
<1>2. "WANT_READ" \in rx'.flags[Conn(c)] => "WANT_READ" \in rx.flags[Conn(c)] BY DEF Keeps
<1> QED BY <1>1, <1>2 DEF Keeps, Answering, IsRead, IsError

\* An event of a connection is skipped, or finds nothing to do.
LEMMA KeepsOwnAnswering ==
  ASSUME TypeInv, NEW e \in loop.batch, Handled(e), NEW c \in Clients, Answering(c),
         Keeps(c), e.h = Conn(c)
  PROVE  Answering(c)'
<1>1. Responding(c)' <=> Responding(c) BY DEF Keeps, Responding
<1>2. "WANT_READ" \in rx'.flags[Conn(c)] => "WANT_READ" \in rx.flags[Conn(c)] BY DEF Keeps
<1>3. \A k \in loop'.batch : k.h = Conn(c) =>
        ~IsRead(k) /\ ~IsError(k) /\ \A j \in loop'.batch : j.h = Conn(c) => j = k
  BY OwnEvent
<1> QED BY <1>1, <1>2, <1>3 DEF Keeps, Answering, IsRead, IsError

\* A method of the connection has handled its event.
LEMMA OwnMoveAnswering ==
  ASSUME TypeInv, TypeInv', SafeInv, NEW e \in loop.batch, Handled(e),
         NEW c \in Clients, Answering(c), e.h = Conn(c), Active(Conn(c)),
         Reads(c) \/ Responds(c) \/ Suspends(c) \/ CgiResponds(c) \/ Closes(c) \/ CutsOff(c)
  PROVE  Answering(c)'
<1>1. \A k \in loop'.batch : k.h = Conn(c) =>
        ~IsRead(k) /\ ~IsError(k) /\ \A j \in loop'.batch : j.h = Conn(c) => j = k
  BY OwnEvent
<1>2. peer[c].st = "up" /\ peer[c].reply = "none" /\ (peer[c].rst => c \in Resetting)
  BY DEF SafeInv, Fresh, Active, Answering
<1>3. /\ peer'[c].st = peer[c].st /\ peer'[c].sent = peer[c].sent
      /\ peer'[c].fin = peer[c].fin /\ peer'[c].rst = peer[c].rst
      /\ Active(Conn(c))' => peer'[c].reply = peer[c].reply
  BY FieldsAreTyped DEF Reads, Responds, Suspends, CgiResponds, Closes, CutsOff, Ends, Goes,
     PeerState
<1>4. Conn(c) \in rx'.handlers
  BY DEF Reads, Responds, Suspends, CgiResponds, Closes, CutsOff, Ends, Goes, Active
<1>5. Responding(c)' /\ Active(Conn(c))' => "WANT_READ" \notin rx'.flags[Conn(c)]
  BY DEF Reads, Responds, Suspends, CgiResponds, Closes, CutsOff, Ends, Responding, Answering
<1>6. conn'[c].resp # "none" => peer[c].sent > 0 \/ peer[c].fin
  <2>1. conn[c].cgiPending => peer[c].sent > 0 BY DEF Answering
  <2> QED BY <2>1 DEF Reads, Responds, Suspends, CgiResponds, Closes, CutsOff, Answering
<1>7. conn'[c].cgiPending => conn'[c].rcvd = 2 /\ peer[c].sent = 2
  BY DEF Reads, Responds, Suspends, CgiResponds, Closes, CutsOff, Ends, Answering
<1> QED BY <1>1, <1>2, <1>3, <1>4, <1>5, <1>6, <1>7 DEF Answering, IsRead, IsError

\* A connection comes, when no event can be of it.
LEMMA ArrivesAnswering ==
  ASSUME TypeInv, SafeInv, NEW c \in Clients, Answering(c), Arrives(c),
         loop'.batch = loop.batch
  PROVE  Answering(c)'
<1>1. \A k \in loop'.batch : k.h # Conn(c) BY DEF SafeInv, BatchInv, Arrives
<1>2. /\ peer'[c].sent = peer[c].sent /\ peer'[c].rst = peer[c].rst
      /\ peer'[c].reply = peer[c].reply
  BY FieldsAreTyped DEF Arrives, PeerState
<1>3. Conn(c) \in rx'.handlers BY DEF Arrives, Active
<1> QED BY <1>1, <1>2, <1>3 DEF Arrives, Answering, Responding

\* A connection is deleted, when no events are left.
LEMMA LeavesAnswering ==
  ASSUME TypeInv, NEW c \in Clients, Answering(c), Leaves(c), loop'.batch = {}
  PROVE  Answering(c)'
<1>1. /\ peer'[c].st = "closed" /\ peer'[c].rst = peer[c].rst
  BY FieldsAreTyped DEF Leaves, PeerState
<1>2. conn'[c].resp = "none" /\ ~conn'[c].cgiPending BY DEF Leaves, NoConn
<1> QED BY <1>1, <1>2 DEF Leaves, Answering, Responding, Active

\* The client says something; what it has said and done stays.
LEMMA SaysAnswering ==
  ASSUME TypeInv, NEW c \in Clients, Answering(c), Says(c), loop'.batch = loop.batch
  PROVE  Answering(c)'
<1>1. /\ peer'[c].reply = peer[c].reply
      /\ peer[c].sent = 2 => peer'[c].sent = 2
      /\ peer[c].sent > 0 \/ peer[c].fin => peer'[c].sent > 0 \/ peer'[c].fin
      /\ peer[c].rst => peer'[c].rst
      /\ peer'[c].rst => peer[c].rst \/ c \in Resetting
      /\ peer'[c].st \in {"idle", "queued"} => peer[c].st \in {"idle", "queued"}
  <2>1. peer[c] \in PeerState /\ peer[c].sent \in 0..2
    BY FieldsAreTyped DEF PeerState, Amount
  <2>2. CASE \E n \in Amount : n > peer[c].sent /\ peer'[c] = [peer[c] EXCEPT !.sent = n]
    <3>1. PICK n \in 0..2 : n > peer[c].sent /\ peer'[c] = [peer[c] EXCEPT !.sent = n]
      BY <2>2 DEF Amount
    <3>2. /\ peer'[c].sent = n /\ peer'[c].fin = peer[c].fin /\ peer'[c].rst = peer[c].rst
          /\ peer'[c].st = peer[c].st /\ peer'[c].reply = peer[c].reply
      BY <2>1, <3>1 DEF PeerState
    <3> QED BY <2>1, <3>1, <3>2
  <2> QED BY <2>1, <2>2 DEF Says, PeerState
<1>2. /\ Responding(c)' <=> Responding(c)
      /\ Active(Conn(c))' <=> Active(Conn(c))
      /\ rx'.flags[Conn(c)] = rx.flags[Conn(c)]
      /\ Conn(c) \in rx'.handlers <=> Conn(c) \in rx.handlers
      /\ conn'[c] = conn[c]
  BY DEF Says, Responding, Active, IsInactive
<1> QED BY <1>1, <1>2 DEF Answering, IsRead, IsError

-----------------------------------------------------------------------------
(* The methods of a connection are moves of it, and of no other.           *)

\* Whatever is left alone keeps.
LEMMA LeftAloneKeeps ==
  ASSUME NEW c \in Clients, conn'[c] = conn[c], peer'[c] = peer[c],
         rx'.flags[Conn(c)] = rx.flags[Conn(c)],
         Conn(c) \in rx'.handlers <=> Conn(c) \in rx.handlers
  PROVE  Keeps(c)
BY DEF Keeps, Active, IsInactive

\* epoll is armed for c's connection with other flags: it goes on, and no other
\* connection is concerned.
LEMMA RearmedMove ==
  ASSUME TypeInv, NEW c \in Clients, Lives(rx, Conn(c)), NEW fl, "INACTIVE" \notin fl,
         Rearmed(rx, rx', Conn(c), Sock(c), fl), UNCHANGED peer, conn'[c].fd = conn[c].fd,
         \A d \in Clients \ {c} : conn'[d] = conn[d]
  PROVE  Goes(c) /\ rx'.flags[Conn(c)] = fl /\ \A d \in Clients \ {c} : Keeps(d)
<1>1. rx'.handlers = rx.handlers /\ rx'.flags[Conn(c)] = fl BY DEF Rearmed
<1>2. Goes(c) BY <1>1 DEF Goes, Active, Lives, IsInactive
<1>3. ASSUME NEW d \in Clients \ {c} PROVE Keeps(d)
  <2>1. rx'.flags[Conn(d)] = rx.flags[Conn(d)]
    BY NamesAreTyped, NamesDiffer DEF Rearmed
  <2> QED BY <1>1, <2>1, LeftAloneKeeps
<1> QED BY <1>1, <1>2, <1>3

\* c's connection is given up, and no other.
LEMMA GivenUpMove ==
  ASSUME TypeInv, NEW c \in Clients, Lives(rx, Conn(c)),
         GivenUp(rx, rx', Conn(c), conn[c].fd, Sock(c)),
         conn'[c].fd = conn[c].fd,
         conn'[c].rcvd = conn[c].rcvd, conn'[c].cgiPending = conn[c].cgiPending,
         \A d \in Clients \ {c} : conn'[d] = conn[d] /\ peer'[d] = peer[d]
  PROVE  Ends(c) /\ \A d \in Clients \ {c} : Keeps(d)
<1>1. rx'.handlers = rx.handlers /\ "INACTIVE" \in rx'.flags[Conn(c)] BY DEF GivenUp
<1>2. Ends(c) BY <1>1 DEF Ends, Active, Lives, IsInactive
<1>3. ASSUME NEW d \in Clients \ {c} PROVE Keeps(d)
  <2>1. rx'.flags[Conn(d)] = rx.flags[Conn(d)]
    BY NamesAreTyped, NamesDiffer DEF GivenUp
  <2> QED BY <1>1, <2>1, LeftAloneKeeps
<1> QED BY <1>2, <1>3

\* A connection that reads has not begun to respond.
LEMMA ReaderHasNoResponse ==
  ASSUME NEW e \in loop.batch, NEW c \in Clients, Answering(c), Takes(e, Conn(c)), IsRead(e)
  PROVE  ~Responding(c)
BY DEF Takes, Answering, Active

\* handleRead, when no script is asked for.
LEMMA ReadMove ==
  ASSUME TypeInv, SafeInv, NEW e \in loop.batch, NEW c \in Clients,
         Answering(c), ConnectionHandleRead(e, c)
  PROVE  (Reads(c) \/ Responds(c)) /\ \A d \in Clients \ {c} : Keeps(d)
<1>1. Takes(e, Conn(c)) /\ IsRead(e) /\ UNCHANGED peer
  BY DEF ConnectionHandleRead
<1>2. Sane(rx) /\ Lives(rx, Conn(c)) /\ ConnWired(rx, c, conn[c].fd)
  BY <1>1, ConnectionIsThere
<1>3. ~Responding(c) BY <1>1, ReaderHasNoResponse
<1> DEFINE k0   == [conn[c] EXCEPT !.rcvd = peer[c].sent]
           k(b) == [k0 EXCEPT !.resp = b]
           Fits(b) == \/ b = "page" /\ peer[c].kind = "static"
                      \/ b = "error" /\ (peer[c].kind = "bad" \/ peer[c].fin)
<1>4. /\ k0.resp = conn[c].resp /\ k0.cgiPending = conn[c].cgiPending
      /\ k0.fd = conn[c].fd /\ k0 \in ConnState
  BY FieldsAreTyped DEF ConnState, PeerState
<1>5. \/ conn' = [conn EXCEPT ![c] = k0] /\ rx' = rx
      \/ /\ \E b \in {"page", "error"} : /\ conn' = [conn EXCEPT ![c] = k(b)]
                                         /\ Fits(b)
         /\ rx' = Respond(rx, c) /\ (peer[c].sent > 0 \/ peer[c].fin)
  <2>1. "error" \in Parsed(c) \/ "complete" \in Parsed(c) => peer[c].sent > 0
    <3>1. peer[c].sent \in 0..2 /\ conn[c].rcvd \in 0..2
      BY FieldsAreTyped DEF PeerState, ConnState, Amount
    <3>2. peer[c].sent = 0 /\ conn[c].rcvd # 0 => FALSE
      <4>1. Fresh(c) /\ Conn(c) \in rx.handlers BY <1>1 DEF SafeInv, Takes
      <4> QED BY <3>1, <4>1 DEF Fresh
    <3> QED BY <3>1, <3>2 DEF Parsed
  <2>2. "error" \in Parsed(c) => peer[c].kind = "bad" BY DEF Parsed
  <2> QED BY <2>1, <2>2 DEF ConnectionHandleRead
<1> HIDE DEF k0
<1>6. \A b : k(b).resp = b /\ k(b).cgiPending = k0.cgiPending /\ k(b).fd = k0.fd
  BY <1>4 DEF ConnState
<1> HIDE DEF k
<1>7. \A d \in Clients \ {c} : conn'[d] = conn[d] BY <1>5 DEF TypeInv, TypeOK
<1>8. CASE conn' = [conn EXCEPT ![c] = k0] /\ rx' = rx
  <2>1. Reads(c) BY <1>1, <1>2, <1>3, <1>4, <1>8
    DEF Reads, Goes, Active, Lives, Responding, TypeInv, TypeOK
  <2> QED BY <1>1, <1>7, <1>8, <2>1, LeftAloneKeeps
<1>9. ASSUME NEW b \in {"page", "error"}, Fits(b), conn' = [conn EXCEPT ![c] = k(b)],
             rx' = Respond(rx, c), peer[c].sent > 0 \/ peer[c].fin
      PROVE  Responds(c) /\ \A d \in Clients \ {c} : Keeps(d)
  <2>1. Rearmed(rx, rx', Conn(c), Sock(c), {"WANT_WRITE"})
    BY <1>2, <1>9, ConnectionIsRearmed
  <2>2. conn'[c] = k(b) BY <1>9 DEF TypeInv, TypeOK
  <2>3. /\ Goes(c) /\ rx'.flags[Conn(c)] = {"WANT_WRITE"}
        /\ \A d \in Clients \ {c} : Keeps(d)
    BY <1>1, <1>2, <1>4, <1>6, <1>7, <2>1, <2>2, RearmedMove
  <2> QED BY <1>3, <1>4, <1>6, <1>9, <2>3, <2>2 DEF Responds, Responding
<1> QED BY <1>5, <1>8, <1>9

\* What a connection is that starts to wait.
LEMMA PendingFields ==
  ASSUME TypeInv, NEW c \in Clients, conn' = Pending(c)
  PROVE  /\ conn'[c].resp = conn[c].resp /\ conn'[c].cgiPending
         /\ conn'[c].rcvd = peer[c].sent /\ conn'[c].out = 0 /\ conn'[c].fd = conn[c].fd
         /\ \A d \in Clients \ {c} : conn'[d] = conn[d]
<1> DEFINE k == [conn[c] EXCEPT !.rcvd = peer[c].sent, !.cgiPending = TRUE, !.out = 0]
<1>1. conn' = [conn EXCEPT ![c] = k] BY DEF Pending, TypeInv, TypeOK
<1>2. /\ k.resp = conn[c].resp /\ k.cgiPending = TRUE /\ k.rcvd = peer[c].sent
      /\ k.out = 0 /\ k.fd = conn[c].fd
  BY FieldsAreTyped DEF ConnState, PeerState
<1> HIDE DEF k
<1> QED BY <1>1, <1>2 DEF TypeInv, TypeOK

\* handleRead, when a script is asked for but not started.
LEMMA CgiFailsMove ==
  ASSUME TypeInv, SafeInv, NEW e \in loop.batch, NEW c \in Clients,
         Answering(c), CgiFails(e, c)
  PROVE  Suspends(c) /\ \A d \in Clients \ {c} : Keeps(d)
<1>1. /\ Takes(e, Conn(c)) /\ IsRead(e) /\ UNCHANGED peer
      /\ conn' = Pending(c) /\ rx' = Suspend(rx, c) /\ CompletesCgi(e, c)
  BY DEF CgiFails, CompletesCgi
<1>2. Sane(rx) /\ Lives(rx, Conn(c)) /\ ConnWired(rx, c, conn[c].fd)
  BY <1>1, ConnectionIsThere
<1>3. ~Responding(c) BY <1>1, ReaderHasNoResponse
<1>4. Rearmed(rx, rx', Conn(c), Sock(c), {}) BY <1>1, <1>2, ConnectionIsRearmed
<1>5. /\ conn'[c].resp = conn[c].resp /\ conn'[c].cgiPending
      /\ conn'[c].rcvd = peer[c].sent /\ conn'[c].out = 0 /\ conn'[c].fd = conn[c].fd
      /\ \A d \in Clients \ {c} : conn'[d] = conn[d]
  BY <1>1, PendingFields
<1>6. Goes(c) /\ rx'.flags[Conn(c)] = {} /\ \A d \in Clients \ {c} : Keeps(d)
  BY <1>1, <1>2, <1>4, <1>5, RearmedMove
<1>7. peer[c].sent = 2 /\ peer[c].kind \in {"cgi", "cgiBody"}
  BY <1>1, CompletedHasNoScript DEF CompletesCgi
<1> QED BY <1>3, <1>5, <1>6, <1>7 DEF Suspends, Responding

\* handleRead, when a script is started.
LEMMA StartCgiMove ==
  ASSUME TypeInv, SafeInv, NEW e \in loop.batch, NEW c \in Clients,
         Answering(c), StartCgi(e, c)
  PROVE  Suspends(c) /\ \A d \in Clients \ {c} : Keeps(d)
<1>1. /\ Takes(e, Conn(c)) /\ IsRead(e) /\ UNCHANGED peer
      /\ conn' = Pending(c) /\ CompletesCgi(e, c)
  BY DEF StartCgi, CompletesCgi
<1>2. ~Responding(c) BY <1>1, ReaderHasNoResponse
<1>3. /\ rx'.handlers = rx.handlers \cup {Cgi(c)} /\ rx'.flags[Conn(c)] = {}
      /\ \A k \in Handler : k \notin {Cgi(c), Conn(c)} => rx'.flags[k] = rx.flags[k]
  BY StartCgiEffect
<1>4. /\ conn'[c].resp = conn[c].resp /\ conn'[c].cgiPending
      /\ conn'[c].rcvd = peer[c].sent /\ conn'[c].out = 0 /\ conn'[c].fd = conn[c].fd
      /\ \A d \in Clients \ {c} : conn'[d] = conn[d]
  BY <1>1, PendingFields
<1>5. Goes(c) BY <1>1, <1>3, <1>4 DEF Goes, Takes, Active, IsInactive
<1>6. ASSUME NEW d \in Clients \ {c} PROVE Keeps(d)
  <2>1. Conn(d) \in Handler /\ Conn(d) \notin {Cgi(c), Conn(c)}
    BY NamesAreTyped, NamesDiffer
  <2> QED BY <1>1, <1>3, <1>4, <2>1, LeftAloneKeeps
<1>7. peer[c].sent = 2 /\ peer[c].kind \in {"cgi", "cgiBody"}
  BY <1>1, CompletedHasNoScript DEF CompletesCgi
<1> QED BY <1>2, <1>3, <1>4, <1>5, <1>6, <1>7 DEF Suspends, Responding

\* handleWrite, when the script is over.
LEMMA HandleCgiMove ==
  ASSUME TypeInv, SafeInv, NEW e \in loop.batch, NEW c \in Clients, HandleCgi(e, c)
  PROVE  CgiResponds(c) /\ \A d \in Clients \ {c} : Keeps(d)
<1>1. /\ Takes(e, Conn(c)) /\ UNCHANGED peer /\ rx' = Arm(rx, c)
      /\ conn[c].resp = "none" /\ conn[c].cgiPending
  BY DEF HandleCgi
<1>2. Sane(rx) /\ Lives(rx, Conn(c)) /\ ConnWired(rx, c, conn[c].fd)
  BY <1>1, ConnectionIsThere
<1> DEFINE fl == rx.flags[Conn(c)] \cup {"WANT_WRITE"}
           k  == [conn[c] EXCEPT !.cgiPending = FALSE,
                     !.resp = IF conn[c].out = 0 THEN "error" ELSE "cgi"]
<1>3. Rearmed(rx, rx', Conn(c), Sock(c), fl) BY <1>1, <1>2, ConnectionIsRearmed
<1>4. "INACTIVE" \notin fl BY <1>2 DEF Lives, IsInactive
<1>5. conn' = [conn EXCEPT ![c] = k] BY DEF HandleCgi, TypeInv, TypeOK
<1>6. /\ k.cgiPending = FALSE /\ k.rcvd = conn[c].rcvd /\ k.fd = conn[c].fd
      /\ k.resp = IF conn[c].out = 0 THEN "error" ELSE "cgi"
  BY FieldsAreTyped DEF ConnState
<1> HIDE DEF k, fl
<1>7. conn'[c] = k /\ \A d \in Clients \ {c} : conn'[d] = conn[d]
  BY <1>5 DEF TypeInv, TypeOK
<1>8. Goes(c) /\ rx'.flags[Conn(c)] = fl /\ \A d \in Clients \ {c} : Keeps(d)
  BY <1>1, <1>2, <1>3, <1>4, <1>6, <1>7, RearmedMove
<1> QED BY <1>1, <1>6, <1>7, <1>8 DEF CgiResponds, fl

\* handleWrite, when the response is sent.
LEMMA SendAllMove ==
  ASSUME TypeInv, SafeInv, NEW e \in loop.batch, NEW c \in Clients, SendAll(e, c)
  PROVE  Closes(c) /\ \A d \in Clients \ {c} : Keeps(d)
<1>1. /\ Takes(e, Conn(c)) /\ rx' = Close(rx, c)
      /\ conn[c].resp # "none" /\ ~peer[c].rst
  BY DEF SendAll, Writes
<1>2. Sane(rx) /\ Lives(rx, Conn(c)) /\ ConnWired(rx, c, conn[c].fd)
  BY <1>1, ConnectionIsThere
<1>3. GivenUp(rx, rx', Conn(c), conn[c].fd, Sock(c)) BY <1>1, <1>2, ConnectionIsGivenUp
<1> DEFINE k == [conn[c] EXCEPT !.resp = "none", !.out = 0]
           p == [peer[c] EXCEPT !.reply = conn[c].resp]
<1>4. conn' = [conn EXCEPT ![c] = k] /\ peer' = [peer EXCEPT ![c] = p]
  BY DEF SendAll, TypeInv, TypeOK
<1>5. /\ k.resp = "none" /\ k.rcvd = conn[c].rcvd /\ k.cgiPending = conn[c].cgiPending
      /\ k.out = 0 /\ k.fd = conn[c].fd
  BY FieldsAreTyped DEF ConnState
<1> HIDE DEF k, p
<1>6. /\ conn'[c] = k /\ peer'[c] = p
      /\ \A d \in Clients \ {c} : conn'[d] = conn[d] /\ peer'[d] = peer[d]
  BY <1>4 DEF TypeInv, TypeOK
<1>7. Ends(c) /\ \A d \in Clients \ {c} : Keeps(d)
  BY <1>2, <1>3, <1>5, <1>6, GivenUpMove
<1> QED BY <1>1, <1>5, <1>6, <1>7 DEF Closes, p

\* handleWrite, when send() fails, and handleError.
LEMMA SendFailsMove ==
  ASSUME TypeInv, SafeInv, NEW e \in loop.batch, NEW c \in Clients, Answering(c),
         SendFails(e, c) \/ ConnectionHandleError(e, c)
  PROVE  CutsOff(c) /\ \A d \in Clients \ {c} : Keeps(d)
<1>1. Takes(e, Conn(c)) /\ UNCHANGED conn /\ rx' = GiveUp(rx, c)
  BY DEF SendFails, Writes, ConnectionHandleError
<1>2. Sane(rx) /\ Lives(rx, Conn(c)) /\ ConnWired(rx, c, conn[c].fd)
  BY <1>1, ConnectionIsThere
<1>3. GivenUp(rx, rx', Conn(c), conn[c].fd, Sock(c)) BY <1>1, <1>2, ConnectionIsGivenUp
<1> DEFINE q == [peer[c] EXCEPT !.reply = IF peer[c].rst THEN peer[c].reply ELSE "part"]
           p == [peer[c] EXCEPT !.reply = "part"]
<1>4. \/ peer[c].rst /\ peer' = peer
      \/ ~peer[c].rst /\ c \in Slow /\ conn[c].resp # "none" /\ peer' = [peer EXCEPT ![c] = p]
  <2>1. CASE ConnectionHandleError(e, c)
    BY <2>1 DEF ConnectionHandleError, Answering, Takes
  <2>2. CASE SendFails(e, c)
    <3>1. /\ peer[c].rst \/ (c \in Slow /\ conn[c].resp # "none")
          /\ peer' = [peer EXCEPT ![c] = q]
      BY <2>2 DEF SendFails, Writes, TypeInv, TypeOK
    <3>2. CASE peer[c].rst
      <4>1. q = peer[c] BY <3>2, FieldsAreTyped DEF PeerState
      <4> HIDE DEF q
      <4>2. peer' = peer BY <3>1, <4>1 DEF TypeInv, TypeOK
      <4> QED BY <3>2, <4>2
    <3>3. CASE ~peer[c].rst BY <3>1, <3>3
    <3> QED BY <3>2, <3>3
  <2> QED BY <2>1, <2>2
<1> HIDE DEF p
<1>5. /\ peer[c].rst => peer'[c] = peer[c]
      /\ ~peer[c].rst => peer'[c] = p
      /\ \A d \in Clients \ {c} : peer'[d] = peer[d]
  BY <1>4 DEF TypeInv, TypeOK
<1>6. Ends(c) /\ \A d \in Clients \ {c} : Keeps(d)
  BY <1>1, <1>2, <1>3, <1>5, GivenUpMove
<1> QED BY <1>1, <1>4, <1>5, <1>6 DEF CutsOff, p

-----------------------------------------------------------------------------
(* The methods of a script's handler move no connection.                   *)

\* What is collected is all that changes in a connection.
LEMMA CollectedFields ==
  ASSUME TypeInv, NEW c \in Clients, conn' = Collected(c)
  PROVE  \A d \in Clients :
           /\ conn'[d].resp = conn[d].resp /\ conn'[d].cgiPending = conn[d].cgiPending
           /\ conn'[d].rcvd = conn[d].rcvd
           /\ Conn(d) \notin rx.handlers => conn'[d] = conn[d]
<1> DEFINE k == [conn[c] EXCEPT !.out = @ + child[c].outPipe]
<1>1. (Conn(c) \notin rx.handlers /\ conn' = conn) \/ conn' = [conn EXCEPT ![c] = k]
  BY DEF Collected, OwnerLives, TypeInv, TypeOK
<1>2. /\ k.resp = conn[c].resp /\ k.cgiPending = conn[c].cgiPending /\ k.rcvd = conn[c].rcvd
  BY FieldsAreTyped DEF ConnState
<1>3. Conn(c) \notin rx.handlers => conn' = conn BY DEF Collected, OwnerLives
<1> HIDE DEF k
<1> QED BY <1>1, <1>2, <1>3 DEF TypeInv, TypeOK

\* A handler that is finished wakes at most one connection.
LEMMA FinishedKeeps ==
  ASSUME TypeInv, NEW c \in Clients, NEW r2, Finished(c, r2), UNCHANGED peer,
         NEW d \in Clients,
         conn'[d].resp = conn[d].resp, conn'[d].cgiPending = conn[d].cgiPending,
         conn'[d].rcvd = conn[d].rcvd, Conn(d) \notin rx.handlers => conn'[d] = conn[d]
  PROVE  Keeps(d)
<1> DEFINE h  == Conn(d)
           fd == cgi[c].fd
           cg == cgi'
<1>1. h \in Handler /\ h # Cgi(c) BY NamesAreTyped, NamesDiffer
<1>2. /\ Sane(r2) /\ Wired(r2, conn, cg) /\ ListenWired(r2)
      /\ r2.handlers = rx.handlers /\ r2.flags[h] = rx.flags[h]
      /\ rx' = WakeUpHandler(r2, fd)
  BY <1>1 DEF Finished
<1> HIDE DEF cg, h, fd
<1>3. /\ rx'.handlers = rx.handlers
      /\ IsInactive(rx', h) <=> IsInactive(rx, h)
  BY <1>1, <1>2, WakeUpIsWired DEF IsInactive
<1>4. rx'.flags[h] \in {r2.flags[h], {"WANT_WRITE"}}
  <2>1. CASE WakeUpHandler(r2, fd) = r2 BY <1>2, <2>1
  <2>2. CASE Rearmed(r2, WakeUpHandler(r2, fd), r2.fdMap[fd], r2.tab[fd], {"WANT_WRITE"})
    BY <1>1, <1>2, <2>2 DEF Rearmed
  <2> QED BY <1>2, <2>1, <2>2, WakeUpEffect
<1> QED BY <1>2, <1>3, <1>4 DEF Keeps, Active, h

\* What handleWrite of a script does to the reactor.
LEMMA CgiWriteEffect ==
  ASSUME TypeInv, SafeInv, NEW e \in loop.batch, NEW c \in Clients, CgiHandleWrite(e, c)
  PROVE  /\ rx'.handlers = rx.handlers
         /\ \A k \in Handler : k # Cgi(c) => rx'.flags[k] = rx.flags[k]
         /\ IsInactive(rx', Cgi(c)) <=> IsInactive(rx, Cgi(c))
         /\ \A f \in File : rx'.ptr[f] \in {rx.ptr[f], NoHandler}
<1> DEFINE g  == cgi[c].inFd
           r1 == CloseAll(DeleteHandler(rx, g), {g}, Held)
           k2 == [cgi[c] EXCEPT !.inFd = NoFd]
           cg == [cgi EXCEPT ![c] = k2]
<1>1. /\ Takes(e, Cgi(c)) /\ IsWrite(e)
      /\ rx' = rx \/ rx' = ClearWantWrite(r1, Cgi(c))
  BY DEF CgiHandleWrite
<1>2. Wired(rx, conn, cgi) /\ ListenWired(rx) /\ Sane(rx) /\ Lives(rx, Cgi(c))
  BY <1>1, ConnectionIsThere
<1>3. cgi[c].inFd # NoFd
  <2>1. e.h = Cgi(c) /\ "OUT" \in e.ev /\ Active(Cgi(c))
    BY <1>1 DEF Takes, IsWrite, Active
  <2> QED BY <2>1 DEF SafeInv, BatchInv
<1>4. k2.inFd = NoFd /\ k2.outFd = cgi[c].outFd BY FieldsAreTyped DEF CgiState
<1> HIDE DEF k2
<1>5. /\ \A d \in Clients \ {c} : cg[d] = cgi[d]
      /\ cg[c].inFd = NoFd /\ cg[c].outFd = cgi[c].outFd
  BY <1>4 DEF TypeInv, TypeOK
<1> HIDE DEF cg
<1>6. /\ EndClosed(rx, r1, Cgi(c), g, In(c)) /\ Sane(r1)
      /\ Wired(r1, conn, cg) /\ ListenWired(r1) /\ Lives(r1, Cgi(c))
  BY <1>2, <1>3, <1>5, InputClosedIsWired
<1> HIDE DEF r1, g
<1>7. CASE rx' = ClearWantWrite(r1, Cgi(c))
  <2>1. /\ rx'.handlers = r1.handlers
        /\ \A k \in Handler : k # Cgi(c) => rx'.flags[k] = r1.flags[k]
        /\ rx'.flags[Cgi(c)] = r1.flags[Cgi(c)] \ {"WANT_WRITE"} /\ rx'.ptr = r1.ptr
    BY <1>6, <1>7, NamesAreTyped DEF ClearWantWrite, Sane, ReactorState
  <2> QED BY <1>2, <1>6, <2>1 DEF EndClosed, Lives, IsInactive
<1>8. CASE rx' = rx BY <1>8
<1> QED BY <1>1, <1>7, <1>8

\* Every method of a script's handler.
LEMMA CgiStepKeeps ==
  ASSUME TypeInv, SafeInv, NEW e \in loop.batch, NEW c \in Clients, CgiStep(e, c)
  PROVE  \A d \in Clients : Keeps(d)
<1>1. UNCHANGED peer
  BY DEF CgiStep, CgiHandleRead, CgiHandleEof, AppendToFreed, CgiHandleWrite,
         CgiWriteKills, CgiHandleError
<1>2. CASE CgiHandleRead(e, c)
  <2>1. conn' = Collected(c) /\ rx' = rx BY <1>2 DEF CgiHandleRead
  <2> QED BY <1>1, <2>1, CollectedFields DEF Keeps, Active
<1>3. CASE CgiHandleEof(e, c)
  <2>1. conn' = Collected(c) BY <1>3 DEF CgiHandleEof
  <2>2. PICK r2 : Finished(c, r2) BY <1>3, EofFinishes
  <2> QED BY <1>1, <2>1, <2>2, CollectedFields, FinishedKeeps
<1>4. CASE AppendToFreed(e, c) \/ CgiWriteKills(e, c)
  BY <1>4, LeftAloneKeeps DEF AppendToFreed, CgiWriteKills
<1>5. CASE CgiHandleWrite(e, c)
  <2>1. conn' = conn BY <1>5 DEF CgiHandleWrite
  <2>2. /\ rx'.handlers = rx.handlers
        /\ \A k \in Handler : k # Cgi(c) => rx'.flags[k] = rx.flags[k]
    BY <1>5, CgiWriteEffect
  <2>3. ASSUME NEW d \in Clients PROVE rx'.flags[Conn(d)] = rx.flags[Conn(d)]
    BY <2>2, NamesAreTyped, NamesDiffer
  <2> QED BY <1>1, <2>1, <2>2, <2>3, LeftAloneKeeps
<1>6. CASE CgiHandleError(e, c)
  <2> DEFINE k == [conn[c] EXCEPT !.out = 0]
  <2>1. /\ conn' = conn \/ conn' = [conn EXCEPT ![c] = k]
        /\ Conn(c) \notin rx.handlers => conn' = conn
    BY <1>6 DEF CgiHandleError, OwnerLives, TypeInv, TypeOK
  <2>2. k.resp = conn[c].resp /\ k.cgiPending = conn[c].cgiPending /\ k.rcvd = conn[c].rcvd
    BY FieldsAreTyped DEF ConnState
  <2> HIDE DEF k
  <2>3. \A d \in Clients :
          /\ conn'[d].resp = conn[d].resp /\ conn'[d].cgiPending = conn[d].cgiPending
          /\ conn'[d].rcvd = conn[d].rcvd
          /\ Conn(d) \notin rx.handlers => conn'[d] = conn[d]
    BY <2>1, <2>2 DEF TypeInv, TypeOK
  <2>4. PICK r2 : Finished(c, r2) BY <1>6, ErrorFinishes
  <2> QED BY <1>1, <2>3, <2>4, FinishedKeeps
<1> QED BY <1>2, <1>3, <1>4, <1>5, <1>6 DEF CgiStep

-----------------------------------------------------------------------------
(* The other steps.                                                        *)

\* Nothing that a connection is made of changes.
LEMMA QuietKeeps ==
  ASSUME UNCHANGED <<conn, peer>>, rx'.handlers = rx.handlers, rx'.flags = rx.flags
  PROVE  \A c \in Clients : Keeps(c)
BY LeftAloneKeeps

\* The connection's events of a new batch all come from its socket, and are what
\* its flags ask for.
LEMMA NewEvents ==
  ASSUME TypeInv, SafeInv, EpollWait, NEW c \in Clients, Answering(c)
  PROVE  Keeps(c) /\ Answering(c)'
<1> DEFINE ready == {f \in rx.edge : Reported(f) # {}}
<1>1. PICK fs \in SUBSET ready :
        /\ loop' = [loop EXCEPT !.pc = "dispatch",
                       !.batch = {[h |-> rx.ptr[f], ev |-> Reported(f)] : f \in fs}]
        /\ rx' = [rx EXCEPT !.edge = ready \ fs]
  BY DEF EpollWait
<1>2. UNCHANGED <<conn, cgi, peer, child>> BY DEF EpollWait
<1>3. rx'.handlers = rx.handlers /\ rx'.flags = rx.flags
  BY <1>1 DEF TypeInv, TypeOK, ReactorState
<1>4. loop'.batch = {[h |-> rx.ptr[f], ev |-> Reported(f)] : f \in fs}
  BY <1>1 DEF TypeInv, TypeOK, Loop
<1>5. fs \subseteq rx.edge OBVIOUS
<1> HIDE DEF ready
<1> DEFINE k == [h |-> Conn(c), ev |-> Reported(Sock(c))]
<1>6. ASSUME NEW d \in loop'.batch, d.h = Conn(c) PROVE d = k
  <2>1. PICK f \in fs : d = [h |-> rx.ptr[f], ev |-> Reported(f)] BY <1>4
  <2>2. rx.ptr[f] = Conn(c) BY <1>6, <2>1
  <2>3. f = Sock(c) BY <1>5, <2>2, EventOrigin
  <2> QED BY <2>1, <2>2, <2>3
<1>7. k.h = Conn(c) /\ k.ev = Reported(Sock(c)) /\ k.h.type = "CONNECTION" BY DEF Conn
<1> HIDE DEF k
<1>8. IsError(k) => peer[c].rst
  <2>1. "ERR" \in Poll(Sock(c)) \/ "HUP" \in Poll(Sock(c)) => peer[c].rst
    BY DEF Poll, Sock
  <2> QED BY <1>7, <2>1 DEF IsError, Reported
<1>9. IsRead(k) /\ Active(Conn(c)) => ~Responding(c)
  <2> SUFFICES ASSUME IsRead(k), Active(Conn(c)), Responding(c) PROVE FALSE OBVIOUS
  <2>1. "IN" \in k.ev BY <1>7 DEF IsRead, IsError
  <2>2. "IN" \in rx.mask[Sock(c)] BY <1>7, <2>1 DEF Reported
  <2>3. rx.mask[Sock(c)] = ComputeEvents(rx.flags[Conn(c)])
    BY DEF SafeInv, Wired, ConnWired, Lives, Active
  <2> QED BY <2>2, <2>3 DEF ComputeEvents, Answering
<1>10. /\ Responding(c)' <=> Responding(c)
       /\ Active(Conn(c))' <=> Active(Conn(c))
       /\ \A d : (IsRead(d)' <=> IsRead(d)) /\ (IsError(d)' <=> IsError(d))
  BY <1>2, <1>3 DEF Responding, Active, IsInactive, IsRead, IsError
<1>11. Keeps(c) BY <1>2, <1>3, LeftAloneKeeps
<1> QED BY <1>2, <1>3, <1>6, <1>8, <1>9, <1>10, <1>11 DEF Answering

\* accept() returns the connection of a client.
LEMMA AcceptMove ==
  ASSUME TypeInv, SafeInv, NEW c \in Clients, Answering(c), Accept(c), SafeInv'
  PROVE  /\ Arrives(c) /\ \A d \in Clients \ {c} : Keeps(d)
         /\ loop'.batch = loop.batch /\ loop'.pc = "accept" /\ loop'.running = loop.running
<1>1. PICK fd \in Fd :
        /\ rx.tab[fd] = NoFile
        /\ rx' = AddHandler(Open(rx, fd, Sock(c)), Conn(c), fd,
                            ComputeEvents({"WANT_READ"}))
        /\ conn' = [conn EXCEPT ![c] = [NoConn EXCEPT !.fd = fd]]
  BY DEF Accept, Lowest, FreeFds
<1>2. /\ loop.pc = "accept" /\ peer[c].st = "queued"
      /\ peer' = [peer EXCEPT ![c] = [peer[c] EXCEPT !.st = "up"]]
      /\ loop' = [loop EXCEPT !.pc = IF rx'.failed THEN "threw" ELSE "accept"]
  BY DEF Accept, TypeInv, TypeOK
<1>3. ~rx'.failed BY DEF SafeInv, Wired
<1>4. loop'.batch = loop.batch /\ loop'.pc = "accept" /\ loop'.running = loop.running
  BY <1>2, <1>3 DEF TypeInv, TypeOK, Loop
<1>5. Conn(c) \notin rx.handlers /\ rx.flags[Conn(c)] = {"WANT_READ"}
  BY <1>2 DEF SafeInv, Fresh
<1>6. rx'.handlers = rx.handlers \cup {Conn(c)} /\ rx'.flags = rx.flags
  <2> DEFINE r1 == Open(rx, fd, Sock(c))
  <2>1. r1.handlers = rx.handlers /\ r1.flags = rx.flags /\ Sane(r1)
    BY NamesAreTyped, OpenIsSane DEF Open, TypeInv, Sane, ReactorState
  <2> HIDE DEF r1
  <2> QED BY <1>1, <1>3, <2>1 DEF r1, AddHandler, Sane, ReactorState
<1> DEFINE k == [NoConn EXCEPT !.fd = fd]
<1>7. k.resp = "none" /\ k.cgiPending = FALSE /\ k.rcvd = 0 BY DEF NoConn
<1>8. conn' = [conn EXCEPT ![c] = k] BY <1>1
<1> HIDE DEF k
<1>9. /\ conn'[c] = k /\ peer'[c] = [peer[c] EXCEPT !.st = "up"]
      /\ \A d \in Clients \ {c} : conn'[d] = conn[d] /\ peer'[d] = peer[d]
  BY <1>2, <1>8 DEF TypeInv, TypeOK
<1>10. ASSUME NEW d \in Clients \ {c} PROVE Keeps(d)
  <2>1. Conn(d) # Conn(c) BY NamesDiffer
  <2> QED BY <1>6, <1>9, <2>1, LeftAloneKeeps
<1>11. Arrives(c) BY <1>2, <1>5, <1>6, <1>7, <1>9 DEF Arrives, Active, IsInactive
<1> QED BY <1>4, <1>10, <1>11

\* The deactivated handlers are deleted at the end of a turn, all of them at the
\* end of the program.
LEMMA DestroyMoves ==
  ASSUME TypeInv, SafeInv, AnswerInv, Sweep \/ Shutdown, NEW c \in Clients
  PROVE  Keeps(c) \/ Leaves(c)
<1>1. PICK r, hs :
        /\ Destroy(r, hs) /\ r.handlers = rx.handlers \ hs /\ r.flags = rx.flags
        /\ hs \subseteq rx.handlers
        /\ loop'.pc = "gone" \/ \A h \in hs : IsInactive(rx, h)
  <2>1. CASE Sweep
    <3>1. LET r == RemoveDeactivated(rx) IN
            r.handlers = rx.handlers \ Dead(rx) /\ r.flags = rx.flags
      BY DEF RemoveDeactivated, TypeInv, Sane, ReactorState
    <3>2. Destroy(RemoveDeactivated(rx), Dead(rx)) BY <2>1 DEF Sweep
    <3> QED BY <3>1, <3>2 DEF Dead
  <2>2. CASE Shutdown
    <3> DEFINE r == Teardown(rx)
    <3>1. r.handlers = {} /\ r.flags = rx.flags
      BY DEF Teardown, Forget, TypeInv, Sane, ReactorState
    <3>2. Destroy(r, rx.handlers) /\ loop'.pc = "gone"
      BY <2>2 DEF Shutdown, TypeInv, TypeOK, Loop
    <3> HIDE DEF r
    <3>3. r.handlers = rx.handlers \ rx.handlers BY <3>1
    <3> QED BY <3>1, <3>2, <3>3
  <2> QED BY <2>1, <2>2
<1>2. rx'.handlers = r.handlers /\ rx'.flags = r.flags
  BY <1>1 DEF Destroy, CloseAll, Forget
<1>3. /\ Conn(c) \notin hs => conn'[c] = conn[c] /\ peer'[c] = peer[c]
      /\ Conn(c) \in hs =>
           conn'[c] = NoConn /\ peer'[c] = [peer[c] EXCEPT !.st = "closed"]
  BY <1>1, DestroyEffect
<1>4. CASE Conn(c) \notin hs BY <1>1, <1>2, <1>3, <1>4, LeftAloneKeeps
<1>5. CASE Conn(c) \in hs
  BY <1>1, <1>2, <1>3, <1>5, NamesAreTyped DEF Leaves, Active
<1> QED BY <1>4, <1>5

\* A client's step is something it says, and concerns no other.
LEMMA ClientMove ==
  ASSUME TypeInv, NEW c \in Clients, Client(c)
  PROVE  Says(c) /\ (\A d \in Clients \ {c} : Keeps(d)) /\ UNCHANGED loop
<1>1. UNCHANGED <<loop, conn, cgi, child>>
  BY DEF Client, Connect, Send, Fin, Reset
<1>2. rx'.handlers = rx.handlers /\ rx'.flags = rx.flags
  <2>1. PICK f \in File, b \in SUBSET Bit : rx' = Wake(rx, f, b)
    <3>1. Listening \in File /\ Sock(c) \in File /\ {"IN"} \in SUBSET Bit /\ Bit \in SUBSET Bit
      BY NamesAreDistinct, NamesAreTyped DEF Bit
    <3> QED BY <3>1 DEF Client, Connect, Send, Fin, Reset
  <2>2. Sane(rx) BY DEF TypeInv
  <2> QED BY <2>1, <2>2, WakeEffect
<1> DEFINE p == peer[c]
<1>3. \/ p.st = "idle" /\ peer' = [peer EXCEPT ![c] = [p EXCEPT !.st = "queued"]]
      \/ /\ p.st \in {"queued", "up"} /\ ~p.fin
         /\ \E n \in Amount : n > p.sent /\ peer' = [peer EXCEPT ![c] = [p EXCEPT !.sent = n]]
      \/ /\ p.st \in {"queued", "up"} /\ c \in Finning
         /\ peer' = [peer EXCEPT ![c] = [p EXCEPT !.fin = TRUE]]
      \/ /\ p.st \in {"queued", "up"} /\ c \in Resetting
         /\ peer' = [peer EXCEPT ![c] = [p EXCEPT !.rst = TRUE]]
  BY DEF Client, Connect, Send, Fin, Reset, Connected
<1>4. \/ p.st = "idle" /\ peer'[c] = [p EXCEPT !.st = "queued"]
      \/ /\ p.st \in {"queued", "up"} /\ ~p.fin
         /\ \E n \in Amount : n > p.sent /\ peer'[c] = [p EXCEPT !.sent = n]
      \/ /\ p.st \in {"queued", "up"} /\ c \in Finning
         /\ peer'[c] = [p EXCEPT !.fin = TRUE]
      \/ /\ p.st \in {"queued", "up"} /\ c \in Resetting
         /\ peer'[c] = [p EXCEPT !.rst = TRUE]
  BY <1>3 DEF TypeInv, TypeOK
<1>5. \A d \in Clients \ {c} : peer'[d] = peer[d] BY <1>3 DEF TypeInv, TypeOK
<1>6. \A d \in Clients \ {c} : Keeps(d) BY <1>1, <1>2, <1>5, LeftAloneKeeps
<1>7. Says(c) BY <1>1, <1>2, <1>4 DEF Says
<1> QED BY <1>1, <1>6, <1>7

-----------------------------------------------------------------------------
(* Every step is one connection's move, or moves none but to delete some.  *)

\* What the methods of a connection do to it.
OwnMove(c) ==
  Reads(c) \/ Responds(c) \/ Suspends(c) \/ CgiResponds(c) \/ Closes(c) \/ CutsOff(c)

\* The other moves, and that no other connection moves.
Moves(c) == /\ OwnMove(c) \/ Arrives(c) \/ Says(c)
            /\ \A d \in Clients \ {c} : Keeps(d)

\* One event is handled.
LEMMA DispatchMoves ==
  ASSUME TypeInv, SafeInv, SafeInv', AnswerInv, NEW e \in loop.batch, Dispatch(e)
  PROVE  /\ Handled(e)
         /\ \/ \A c \in Clients : Keeps(c)
            \/ \E c \in Clients : /\ OwnMove(c) /\ e.h = Conn(c) /\ Active(Conn(c))
                                  /\ \A d \in Clients \ {c} : Keeps(d)
<1>1. CASE SkipInactive(e) \/ UseFreed(e) \/ AcceptorHandleRead(e)
  <2>1. UNCHANGED <<rx, conn, cgi, peer, child>>
    BY <1>1 DEF SkipInactive, UseFreed, AcceptorHandleRead
  <2>2. Handled(e)
    BY <1>1, StepHandles DEF SkipInactive, UseFreed, AcceptorHandleRead
  <2> QED BY <2>1, <2>2, QuietKeeps
<1>2. ASSUME NEW c \in Clients, ConnectionStep(e, c)
      PROVE  /\ Handled(e)
             /\ \/ \A d \in Clients : Keeps(d)
                \/ /\ OwnMove(c) /\ e.h = Conn(c) /\ Active(Conn(c))
                   /\ \A d \in Clients \ {c} : Keeps(d)
  <2>1. Takes(e, Conn(c)) /\ (Proceed(e) \/ Goto(e, "dispatch") \/ Goto(e, "killed"))
    BY <1>2 DEF ConnectionStep, ConnectionHandleRead, StartCgi, CgiFails, CompletesCgi,
       HandleCgi, HandleWriteNothing, SendAll, SendFails, SendKills, Writes,
       ConnectionHandleError
  <2>2. Handled(e) BY <2>1, StepHandles
  <2>3. e.h = Conn(c) /\ Active(Conn(c)) BY <2>1 DEF Takes, Active
  <2>4. Answering(c) BY DEF AnswerInv
  <2>5. CASE HandleWriteNothing(e, c) \/ SendKills(e, c)
    BY <2>2, <2>5, QuietKeeps DEF HandleWriteNothing, SendKills
  <2>6. ASSUME ~HandleWriteNothing(e, c), ~SendKills(e, c)
        PROVE  OwnMove(c) /\ \A d \in Clients \ {c} : Keeps(d)
    BY <1>2, <2>4, <2>6, ReadMove, StartCgiMove, CgiFailsMove, HandleCgiMove, SendAllMove,
       SendFailsMove DEF ConnectionStep, OwnMove
  <2> QED BY <2>2, <2>3, <2>5, <2>6
<1>3. ASSUME NEW c \in Clients, CgiStep(e, c)
      PROVE  Handled(e) /\ \A d \in Clients : Keeps(d)
  <2>1. Proceed(e) \/ Goto(e, "dispatch") \/ Goto(e, "killed")
    BY <1>3 DEF CgiStep, CgiHandleRead, CgiHandleEof, AppendToFreed, CgiHandleWrite,
       CgiWriteKills, CgiHandleError
  <2> QED BY <1>3, <2>1, StepHandles, CgiStepKeeps
<1> QED BY <1>1, <1>2, <1>3 DEF Dispatch

\* Every step is a move, or keeps and deletes connections.
LEMMA NextMoves ==
  ASSUME TypeInv, SafeInv, SafeInv', AnswerInv, [Next]_vars
  PROVE  (\E c \in Clients : Moves(c)) \/ (\A c \in Clients : Keeps(c) \/ Leaves(c))
<1>1. ASSUME NEW c \in Clients PROVE Answering(c) BY DEF AnswerInv
<1>2. CASE \E e \in loop.batch : Dispatch(e) BY <1>2, DispatchMoves DEF Moves
<1>3. CASE EpollWait BY <1>1, <1>3, NewEvents
<1>4. CASE Sweep \/ Shutdown BY <1>4, DestroyMoves
<1>5. CASE \E c \in Clients : Accept(c) BY <1>1, <1>5, AcceptMove DEF Moves
<1>6. CASE AcceptThrows \/ AcceptDone \/ Sigint \/ UNCHANGED vars
  BY <1>6, QuietKeeps DEF AcceptThrows, AcceptDone, Sigint, vars
<1>7. CASE \E c \in Clients : Client(c) BY <1>7, ClientMove DEF Moves
<1>8. CASE \E c \in Clients : Script(c) BY <1>8, ScriptEffect, QuietKeeps
<1> QED BY <1>2, <1>3, <1>4, <1>5, <1>6, <1>7, <1>8 DEF Next, Server

\* Every step keeps Answering.
LEMMA NextAnswering ==
  ASSUME TypeInv, TypeInv', SafeInv, SafeInv', AnswerInv, [Next]_vars, NEW c \in Clients
  PROVE  Answering(c)'
<1>1. \A d \in Clients : Answering(d) BY DEF AnswerInv
<1>2. ASSUME NEW e \in loop.batch, Dispatch(e) PROVE Answering(c)'
  <2>1. Handled(e) BY <1>2, DispatchMoves
  <2>2. CASE Keeps(c) /\ e.h # Conn(c) BY <1>1, <2>1, <2>2, KeepsAnswering, OtherEvents
  <2>3. CASE Keeps(c) /\ e.h = Conn(c)
    BY <1>1, <2>1, <2>3, KeepsOwnAnswering
  <2>4. CASE OwnMove(c) /\ e.h = Conn(c) /\ Active(Conn(c))
    BY <1>1, <2>1, <2>4, OwnMoveAnswering DEF OwnMove
  <2> QED BY <1>2, <2>2, <2>3, <2>4, DispatchMoves
<1>3. CASE EpollWait BY <1>1, <1>3, NewEvents
<1>4. CASE Sweep \/ Shutdown
  <2>1. loop'.batch = {} BY <1>4 DEF Sweep, Shutdown, TypeInv, TypeOK, Loop
  <2> QED BY <1>1, <1>4, <2>1, DestroyMoves, KeepsAnswering, LeavesAnswering
<1>5. ASSUME NEW d \in Clients, Accept(d) PROVE Answering(c)'
  <2>1. /\ Arrives(d) /\ loop'.batch = loop.batch /\ \A b \in Clients \ {d} : Keeps(b)
    BY <1>1, <1>5, AcceptMove
  <2> QED BY <1>1, <2>1, ArrivesAnswering, KeepsAnswering
<1>6. CASE AcceptThrows \/ AcceptDone \/ Sigint \/ UNCHANGED vars
  <2>1. UNCHANGED <<rx, conn, peer>> /\ loop'.batch = loop.batch
    BY <1>6 DEF AcceptThrows, AcceptDone, Sigint, vars, TypeInv, TypeOK, Loop
  <2> QED BY <1>1, <2>1, QuietKeeps, KeepsAnswering
<1>7. ASSUME NEW d \in Clients, Client(d) PROVE Answering(c)'
  <2>1. Says(d) /\ loop'.batch = loop.batch /\ \A b \in Clients \ {d} : Keeps(b)
    BY <1>7, ClientMove
  <2> QED BY <1>1, <2>1, SaysAnswering, KeepsAnswering
<1>8. ASSUME NEW d \in Clients, Script(d) PROVE Answering(c)'
  <2>1. Keeps(c) /\ loop'.batch = loop.batch BY <1>8, ScriptEffect, QuietKeeps
  <2> QED BY <1>1, <2>1, KeepsAnswering
<1> QED BY <1>2, <1>3, <1>4, <1>5, <1>6, <1>7, <1>8 DEF Next, Server

\* At the start no one has a connection.
LEMMA InitAnswer == Init => AnswerInv
<1> SUFFICES ASSUME Init PROVE AnswerInv OBVIOUS
<1>1. loop.batch = {} BY DEF Init
<1>2. ASSUME NEW c \in Clients PROVE Answering(c)
  <2>1. PICK k \in Kinds :
          /\ conn[c] = NoConn /\ rx.handlers = {Acceptor}
          /\ peer[c] = [st |-> "idle", kind |-> k, sent |-> 0, fin |-> FALSE,
                        rst |-> FALSE, reply |-> "none"]
    BY DEF Init, InitReactor
  <2>2. Conn(c) \notin rx.handlers BY <2>1, NamesDiffer
  <2>3. conn[c].resp = "none" /\ ~conn[c].cgiPending BY <2>1 DEF NoConn
  <2>4. peer[c].reply = "none" /\ ~peer[c].rst BY <2>1
  <2> QED BY <1>1, <2>1, <2>2, <2>3, <2>4 DEF Answering, Responding, Active
<1> QED BY <1>2 DEF AnswerInv

-----------------------------------------------------------------------------
(* AnswerInv is an invariant, and what follows.                            *)

\* A connection that makes a response reads no more, errors are reported only of
\* clients that have reset, and a client that is served has no answer yet.
THEOREM Answers == Spec => []AnswerInv
<1>1. TypeInv /\ TypeInv' /\ SafeInv /\ SafeInv' /\ AnswerInv /\ [Next]_vars => AnswerInv'
  BY NextAnswering DEF AnswerInv
<1> QED BY InitAnswer, Typing, Safety, <1>1, PTL DEF Spec

\* A connection's response is made once, of a request that is not read any further.
LEMMA OneResponseStep ==
  ASSUME TypeInv, SafeInv, SafeInv', AnswerInv, [Next]_vars,
         NEW c \in Clients, Responding(c), conn'[c] # NoConn
  PROVE  /\ conn'[c].rcvd = conn[c].rcvd
         /\ conn[c].resp # "none" => conn'[c].resp \in {"none", conn[c].resp}
<1>1. CASE Keeps(c) BY <1>1 DEF Keeps
<1>2. CASE OwnMove(c)
  BY <1>2 DEF OwnMove, Reads, Responds, Suspends, CgiResponds, Closes, CutsOff, Ends
<1>3. CASE Leaves(c) BY <1>3 DEF Leaves
<1>4. CASE Says(c) BY <1>4 DEF Says
<1>5. CASE Arrives(c)
  <2>1. conn[c] = NoConn BY <1>5 DEF AnswerInv, Answering, Arrives
  <2> QED BY <2>1 DEF NoConn, Responding
<1> QED BY <1>1, <1>2, <1>3, <1>4, <1>5, NextMoves DEF Moves

\* Once a response is being made no more of the request is read, and the response
\* is not replaced by another.
THEOREM ResponsesAreSingle == Spec => OneResponse
<1>1. TypeInv /\ SafeInv /\ SafeInv' /\ AnswerInv /\ [Next]_vars =>
        [\A c \in Clients :
           (conn[c].resp # "none" \/ conn[c].cgiPending) /\ conn'[c] # NoConn =>
             /\ conn'[c].rcvd = conn[c].rcvd
             /\ conn[c].resp # "none" => conn'[c].resp \in {"none", conn[c].resp}]_vars
  BY OneResponseStep DEF Responding
<1> QED BY <1>1, Typing, Safety, Answers, PTL DEF Spec, OneResponse

\* Who gives up a connection has sent the response, unless the client has reset or
\* the send buffer was too small.
LEMMA WholeResponseStep ==
  ASSUME TypeInv, SafeInv, SafeInv', AnswerInv, [Next]_vars,
         NEW c \in Clients, c \notin Slow,
         Active(Conn(c)), ~Active(Conn(c))', loop'.pc # "gone", ~peer[c].rst
  PROVE  peer'[c].reply \in {"page", "error", "cgi"}
<1>1. CASE Closes(c)
  <2> DEFINE p == [peer[c] EXCEPT !.reply = conn[c].resp]
  <2>1. p.reply = conn[c].resp BY FieldsAreTyped DEF PeerState
  <2> HIDE DEF p
  <2>2. peer'[c] = p /\ conn[c].resp # "none" BY <1>1 DEF Closes, p
  <2> QED BY <2>1, <2>2, FieldsAreTyped DEF ConnState, Body
<1>2. CASE CutsOff(c) BY <1>2 DEF CutsOff
<1>3. CASE Keeps(c) BY <1>3 DEF Keeps
<1>4. CASE Reads(c) \/ Responds(c) \/ Suspends(c) \/ CgiResponds(c)
  BY <1>4 DEF Reads, Responds, Suspends, CgiResponds, Goes
<1>5. CASE Leaves(c) \/ Arrives(c) BY <1>5 DEF Leaves, Arrives
<1>6. CASE Says(c) BY <1>6 DEF Says, Active, IsInactive
<1> QED BY <1>1, <1>2, <1>3, <1>4, <1>5, <1>6, NextMoves DEF Moves, OwnMove

\* With responses that fit the send buffer a connection whose client is there is
\* given up only after the whole response.
THEOREM ResponsesAreWhole == ASSUME Slow = {} PROVE Spec => WholeResponse
<1>1. TypeInv /\ SafeInv /\ SafeInv' /\ AnswerInv /\ [Next]_vars =>
        [\A c \in Clients :
           Active(Conn(c)) /\ ~(Active(Conn(c)))' /\ loop'.pc = "dispatch" /\ ~peer[c].rst =>
             peer'[c].reply \in {"page", "error", "cgi"}]_vars
  BY WholeResponseStep
<1> QED BY <1>1, Typing, Safety, Answers, PTL DEF Spec, WholeResponse

-----------------------------------------------------------------------------
(* The server implements HttpExchange.                                     *)

\* The state HttpExchange has of a client.
Asked(c) == IF peer[c].sent = 2 \/ peer[c].fin THEN "all"
            ELSE IF peer[c].sent = 1 THEN "part" ELSE "nothing"
Closed(c) == peer[c].st \in {"up", "closed"} /\ ~Active(Conn(c))

\* A step HttpExchange does not see of c.
Stutters(c) == /\ Asked(c)' = Asked(c) /\ peer'[c].reply = peer[c].reply
               /\ Closed(c)' = Closed(c)

\* What it sees: the client says more, is answered, or is cut off.
Asks(c) == /\ Asked(c) # "all" /\ Asked(c)' \in {"part", "all"}
           /\ peer'[c].reply = peer[c].reply /\ Closed(c)' = Closed(c)
IsAnswered(c) == /\ Asked(c) # "nothing" /\ ~Closed(c)
                 /\ peer'[c].reply \in {"page", "error", "cgi"} /\ Closed(c)'
                 /\ Asked(c)' = Asked(c)
IsCut(c) == /\ c \in Resetting \cup Slow /\ ~Closed(c)
            /\ peer'[c].reply \in {"none", "part"} /\ Closed(c)'
            /\ Asked(c)' = Asked(c)

\* What does not show.
LEMMA HiddenMoves ==
  ASSUME TypeInv, SafeInv, NEW c \in Clients,
         \/ Keeps(c) \/ Reads(c) \/ Responds(c) \/ Suspends(c) \/ CgiResponds(c)
         \/ Arrives(c) \/ (Leaves(c) /\ loop'.pc # "gone")
  PROVE  Stutters(c)
<1>1. CASE Keeps(c) BY <1>1 DEF Keeps, Stutters, Asked, Closed
<1>2. CASE Reads(c) \/ Responds(c) \/ Suspends(c) \/ CgiResponds(c)
  BY <1>2 DEF Reads, Responds, Suspends, CgiResponds, Goes, Stutters, Asked, Closed
<1>3. CASE Arrives(c)
  <2>1. /\ peer'[c].sent = peer[c].sent /\ peer'[c].fin = peer[c].fin
        /\ peer'[c].reply = peer[c].reply /\ peer[c].st = "queued" /\ Active(Conn(c))'
    BY <1>3, FieldsAreTyped DEF Arrives, PeerState
  <2> QED BY <2>1 DEF Stutters, Asked, Closed
<1>4. CASE Leaves(c) /\ loop'.pc # "gone"
  <2>1. /\ peer'[c].sent = peer[c].sent /\ peer'[c].fin = peer[c].fin
        /\ peer'[c].reply = peer[c].reply /\ peer'[c].st = "closed"
    BY <1>4, FieldsAreTyped DEF Leaves, PeerState
  <2>2. peer[c].st = "up" /\ ~Active(Conn(c)) /\ ~Active(Conn(c))'
    BY <1>4 DEF Leaves, SafeInv, Fresh, Active
  <2> QED BY <2>1, <2>2 DEF Stutters, Asked, Closed
<1> QED BY <1>1, <1>2, <1>3, <1>4

\* What the client says.
LEMMA SaysShows ==
  ASSUME TypeInv, NEW c \in Clients, Says(c)
  PROVE  Asks(c) \/ Stutters(c)
<1> DEFINE p == peer[c]
           q == peer'[c]
<1>1. p \in PeerState /\ p.sent \in 0..2 BY FieldsAreTyped DEF PeerState, Amount
<1>2. Active(Conn(c))' <=> Active(Conn(c)) BY DEF Says, Active, IsInactive
<1>3. CASE p.st = "idle" /\ q = [p EXCEPT !.st = "queued"]
  <2>1. q.sent = p.sent /\ q.fin = p.fin /\ q.reply = p.reply /\ q.st = "queued"
    BY <1>1, <1>3 DEF PeerState
  <2> QED BY <1>3, <2>1 DEF Stutters, Asked, Closed
<1>4. CASE ~p.fin /\ \E n \in Amount : n > p.sent /\ q = [p EXCEPT !.sent = n]
  <2>1. PICK n \in 0..2 : n > p.sent /\ q = [p EXCEPT !.sent = n] BY <1>4 DEF Amount
  <2>2. q.sent = n /\ q.fin = p.fin /\ q.reply = p.reply /\ q.st = p.st
    BY <1>1, <2>1 DEF PeerState
  <2>3. p.sent \in {0, 1} /\ n \in {1, 2} BY <1>1, <2>1
  <2>4. Asked(c) # "all" BY <1>4, <2>3 DEF Asked
  <2>5. Asked(c)' \in {"part", "all"} BY <2>2, <2>3 DEF Asked
  <2> QED BY <1>2, <2>2, <2>4, <2>5 DEF Asks, Closed
<1>5. CASE q = [p EXCEPT !.fin = TRUE]
  <2>1. q.sent = p.sent /\ q.fin = TRUE /\ q.reply = p.reply /\ q.st = p.st
    BY <1>1, <1>5 DEF PeerState
  <2> QED BY <1>2, <2>1 DEF Asks, Stutters, Asked, Closed
<1>6. CASE q = [p EXCEPT !.rst = TRUE]
  <2>1. q.sent = p.sent /\ q.fin = p.fin /\ q.reply = p.reply /\ q.st = p.st
    BY <1>1, <1>6 DEF PeerState
  <2> QED BY <1>2, <2>1 DEF Stutters, Asked, Closed
<1> QED BY <1>3, <1>4, <1>5, <1>6 DEF Says

\* The answer, or the end without it.
LEMMA EndsShow ==
  ASSUME TypeInv, SafeInv, NEW c \in Clients, Answering(c), Closes(c) \/ CutsOff(c)
  PROVE  IsAnswered(c) \/ IsCut(c)
<1>1. /\ peer[c].st = "up" /\ peer[c].reply = "none" /\ ~Closed(c)
  BY DEF Closes, CutsOff, Ends, SafeInv, Fresh, Active, Answering, Closed
<1>2. /\ peer'[c].st = peer[c].st /\ peer'[c].sent = peer[c].sent /\ peer'[c].fin = peer[c].fin
      /\ Closes(c) => peer'[c].reply = conn[c].resp
      /\ CutsOff(c) => peer'[c].reply \in {"none", "part"}
  BY <1>1, FieldsAreTyped DEF Closes, CutsOff, PeerState
<1>3. Asked(c)' = Asked(c) BY <1>2 DEF Asked
<1>4. Closed(c)' BY <1>1, <1>2 DEF Closed, Closes, CutsOff, Ends
<1>5. CASE Closes(c)
  <2>1. conn[c].resp \in {"page", "error", "cgi"}
    BY <1>5, FieldsAreTyped DEF Closes, ConnState, Body
  <2>2. peer[c].sent > 0 \/ peer[c].fin BY <1>5 DEF Closes, Answering
  <2>3. peer[c].sent \in 0..2 BY FieldsAreTyped DEF PeerState, Amount
  <2>4. Asked(c) # "nothing" BY <2>2, <2>3 DEF Asked
  <2> QED BY <1>1, <1>2, <1>3, <1>4, <1>5, <2>1, <2>4 DEF IsAnswered
<1>6. CASE CutsOff(c)
  <2>1. c \in Resetting \cup Slow BY <1>6 DEF CutsOff, Answering
  <2> QED BY <1>1, <1>2, <1>3, <1>4, <1>6, <2>1 DEF IsCut
<1> QED BY <1>5, <1>6

\* What the end of the program leaves of a connection.
IsCleared(c) == /\ Asked(c)' = Asked(c) /\ peer'[c].reply = peer[c].reply
                /\ Closed(c) => Closed(c)'

\* The destructors.
LEMMA LeavesClears ==
  ASSUME TypeInv, SafeInv, NEW c \in Clients, Keeps(c) \/ Leaves(c)
  PROVE  IsCleared(c)
<1>1. CASE Keeps(c) BY <1>1, HiddenMoves DEF Stutters, IsCleared
<1>2. CASE Leaves(c)
  <2>1. /\ peer'[c].sent = peer[c].sent /\ peer'[c].fin = peer[c].fin
        /\ peer'[c].reply = peer[c].reply /\ peer'[c].st = "closed" /\ ~Active(Conn(c))'
    BY <1>2, FieldsAreTyped DEF Leaves, PeerState, Active
  <2> QED BY <2>1 DEF IsCleared, Asked, Closed
<1> QED BY <1>1, <1>2

\* A step in which the program dies of a signal does nothing else.
LEMMA KilledStops ==
  ASSUME TypeInv, NEW e \in loop.batch, Dispatch(e), loop'.pc = "killed"
  PROVE  UNCHANGED <<rx, conn, cgi, peer, child>>
<1>1. ASSUME Proceed(e) \/ Goto(e, "dispatch") \/ Goto(e, "accept") PROVE FALSE
  BY <1>1 DEF Proceed, Goto, TypeInv, TypeOK, Loop
<1>2. CASE SkipInactive(e) \/ UseFreed(e) \/ AcceptorHandleRead(e)
  BY <1>2 DEF SkipInactive, UseFreed, AcceptorHandleRead
<1>3. ASSUME NEW c \in Clients, ConnectionStep(e, c)
      PROVE  UNCHANGED <<rx, conn, cgi, peer, child>>
  BY <1>1, <1>3 DEF ConnectionStep, ConnectionHandleRead, StartCgi, CgiFails,
     HandleCgi, HandleWriteNothing, SendAll, SendFails, SendKills, ConnectionHandleError
<1>4. ASSUME NEW c \in Clients, CgiStep(e, c)
      PROVE  UNCHANGED <<rx, conn, cgi, peer, child>>
  BY <1>1, <1>4 DEF CgiStep, CgiHandleRead, CgiHandleEof, AppendToFreed, CgiHandleWrite,
     CgiWriteKills, CgiHandleError
<1> QED BY <1>2, <1>3, <1>4 DEF Dispatch

\* The program goes on, ends and does nothing else, or has ended.
LEMMA NextRuns ==
  ASSUME TypeInv, SafeInv, SafeInv', AnswerInv, [Next]_vars
  PROVE  \/ Running /\ Running'
         \/ Running /\ ~Running' /\ \A c \in Clients : Stutters(c)
         \/ ~Running /\ ~Running' /\ \A c \in Clients : IsCleared(c)
<1> DEFINE Same == UNCHANGED <<rx, conn, peer>>
<1>1. ASSUME Same, NEW c \in Clients PROVE Stutters(c) /\ IsCleared(c)
  BY <1>1, QuietKeeps, HiddenMoves DEF Stutters, IsCleared
<1> HIDE DEF Same
<1>2. ASSUME NEW e \in loop.batch, Dispatch(e)
      PROVE  Running /\ (Running' \/ (~Running' /\ Same))
  <2>1. Running BY <1>2 DEF Dispatch, Running
  <2>2. Handled(e) BY <1>2, DispatchMoves
  <2>3. CASE loop'.pc = "killed" BY <1>2, <2>1, <2>3, KilledStops DEF Same, Running
  <2>4. CASE loop'.pc # "killed" BY <2>1, <2>2, <2>4 DEF Handled, Running
  <2> QED BY <2>3, <2>4
<1>3. CASE EpollWait BY <1>3 DEF EpollWait, Running, TypeInv, TypeOK, Loop
<1>4. CASE Sweep
  <2>1. Running /\ loop'.pc # "gone" BY <1>4 DEF Sweep, Running, TypeInv, TypeOK, Loop
  <2>2. \A c \in Clients : Stutters(c) BY <1>4, <2>1, DestroyMoves, HiddenMoves
  <2> QED BY <2>1, <2>2
<1>5. CASE Shutdown
  <2>1. ~Running /\ ~Running' BY <1>5 DEF Shutdown, Running, TypeInv, TypeOK, Loop
  <2>2. \A c \in Clients : IsCleared(c) BY <1>5, DestroyMoves, LeavesClears
  <2> QED BY <2>1, <2>2
<1>6. ASSUME NEW c \in Clients, Accept(c) PROVE Running /\ Running'
  <2>1. ~rx'.failed BY DEF SafeInv, Wired
  <2> QED BY <1>6, <2>1 DEF Accept, Running, TypeInv, TypeOK, Loop
<1>7. CASE AcceptThrows \/ AcceptDone
  <2>1. Running /\ Same BY <1>7 DEF AcceptThrows, AcceptDone, Running, Same
  <2> QED BY <1>1, <2>1
<1>8. CASE Sigint
  <2>1. Same /\ (Running' => Running)
    BY <1>8 DEF Sigint, Running, Same, TypeInv, TypeOK, Loop
  <2> QED BY <1>1, <2>1
<1>9. ASSUME NEW c \in Clients, Client(c) \/ Script(c) PROVE Running /\ Running'
  <2>1. UNCHANGED loop BY <1>9, ClientMove, ScriptEffect
  <2>2. Running
    BY <1>9 DEF Client, Connect, Send, Fin, Reset, Connected, Script, ChildRead, ChildWrite,
       ChildCloseOut, ChildExit
  <2> QED BY <2>1, <2>2 DEF Running
<1>10. CASE UNCHANGED vars
  <2>1. Same /\ (Running' <=> Running) BY <1>10 DEF vars, Same, Running
  <2> QED BY <1>1, <2>1
<1> QED BY <1>1, <1>2, <1>3, <1>4, <1>5, <1>6, <1>7, <1>8, <1>9, <1>10 DEF Next, Server

\* At most one client sees something of a step of a program that goes on.
LEMMA NextShows ==
  ASSUME TypeInv, SafeInv, SafeInv', AnswerInv, Running', [Next]_vars
  PROVE  \/ \A c \in Clients : Stutters(c)
         \/ \E c \in Clients : /\ Asks(c) \/ IsAnswered(c) \/ IsCut(c)
                               /\ \A d \in Clients \ {c} : Stutters(d)
<1>1. loop'.pc # "gone" BY DEF Running
<1>2. CASE \A c \in Clients : Keeps(c) \/ Leaves(c) BY <1>1, <1>2, HiddenMoves
<1>3. ASSUME NEW c \in Clients, Moves(c)
      PROVE  /\ Stutters(c) \/ Asks(c) \/ IsAnswered(c) \/ IsCut(c)
             /\ \A d \in Clients \ {c} : Stutters(d)
  <2>1. \A d \in Clients \ {c} : Stutters(d) BY <1>3, HiddenMoves DEF Moves
  <2>2. Answering(c) BY DEF AnswerInv
  <2>3. CASE Closes(c) \/ CutsOff(c) BY <2>1, <2>2, <2>3, EndsShow
  <2>4. CASE Says(c) BY <2>1, <2>4, SaysShows
  <2>5. CASE ~(Closes(c) \/ CutsOff(c)) /\ ~Says(c)
    BY <1>3, <2>1, <2>5, HiddenMoves DEF Moves, OwnMove
  <2> QED BY <2>3, <2>4, <2>5
<1>4. CASE \E c \in Clients : Moves(c)
  <2>1. PICK c \in Clients : Moves(c) BY <1>4
  <2>2. Stutters(c) => \A d \in Clients : Stutters(d) BY <1>3, <2>1
  <2> QED BY <1>3, <2>1, <2>2
<1> QED BY <1>2, <1>4, NextMoves

\* What a step shows is a step of HttpExchange.
LEMMA NextImplements ==
  ASSUME TypeInv, SafeInv, SafeInv', AnswerInv, [Next]_vars
  PROVE  [Exchange!Next]_(Exchange!vars)
<1> DEFINE as == [c \in Clients |-> Asked(c)]
           an == [c \in Clients |-> peer[c].reply]
           cl == [c \in Clients |-> Closed(c)]
           ov == ~Running
<1>1. (\A c \in Clients : Stutters(c)) => as' = as /\ an' = an /\ cl' = cl
  BY DEF Stutters
<1>2. ASSUME NEW c \in Clients, \A d \in Clients \ {c} : Stutters(d), Asks(c),
             Running, Running'
      PROVE  Exchange!Ask(c)
  <2>1. /\ as' = [as EXCEPT ![c] = Asked(c)'] /\ an' = an /\ cl' = cl
        /\ as[c] # "all" /\ Asked(c)' \in {"part", "all"} /\ ~ov /\ ov' = ov
    BY <1>2 DEF Stutters, Asks
  <2> QED BY <2>1 DEF Exchange!Ask, as, an, cl, ov, Asked, Closed
<1>3. ASSUME NEW c \in Clients, \A d \in Clients \ {c} : Stutters(d), IsAnswered(c),
             Running, Running'
      PROVE  Exchange!Answer(c)
  <2>1. /\ as' = as /\ an' = [an EXCEPT ![c] = peer'[c].reply]
        /\ cl' = [cl EXCEPT ![c] = TRUE] /\ as[c] # "nothing" /\ ~cl[c]
        /\ peer'[c].reply \in {"page", "error", "cgi"} /\ ~ov /\ ov' = ov
    BY <1>3 DEF Stutters, IsAnswered, Closed
  <2> QED BY <2>1 DEF Exchange!Answer, Exchange!Whole, as, an, cl, ov, Asked, Closed
<1>4. ASSUME NEW c \in Clients, \A d \in Clients \ {c} : Stutters(d), IsCut(c),
             Running, Running'
      PROVE  Exchange!Cut(c)
  <2>1. /\ as' = as /\ an' = [an EXCEPT ![c] = peer'[c].reply]
        /\ cl' = [cl EXCEPT ![c] = TRUE] /\ ~cl[c]
        /\ peer'[c].reply \in {"none", "part"}
        /\ c \notin Clients \ (Resetting \cup Slow) /\ ~ov /\ ov' = ov
    BY <1>4 DEF Stutters, IsCut, Closed
  <2> QED BY <2>1 DEF Exchange!Cut, as, an, cl, ov, Asked, Closed
<1>5. CASE Running /\ Running'
  <2>1. CASE \A c \in Clients : Stutters(c)
    <3>1. as' = as /\ an' = an /\ cl' = cl BY <1>1, <2>1
    <3>2. ov' = ov BY <1>5
    <3> QED BY <3>1, <3>2 DEF Exchange!vars, as, an, cl, ov, Asked, Closed
  <2> QED BY <1>2, <1>3, <1>4, <1>5, <2>1, NextShows DEF Exchange!Next
<1>6. CASE Running /\ ~Running' /\ \A c \in Clients : Stutters(c)
  <2>1. as' = as /\ an' = an /\ cl' = cl BY <1>1, <1>6
  <2>2. ~ov /\ ov' = TRUE BY <1>6
  <2> QED BY <2>1, <2>2 DEF Exchange!Next, Exchange!End, as, an, cl, ov, Asked, Closed
<1>7. CASE ~Running /\ ~Running' /\ \A c \in Clients : IsCleared(c)
  <2> DEFINE gone == {c \in Clients : Closed(c)'}
  <2>1. as' = as /\ an' = an /\ ov /\ ov' = ov BY <1>7 DEF IsCleared
  <2>2. cl' = [c \in Clients |-> cl[c] \/ c \in gone] BY <1>7 DEF IsCleared, Closed
  <2>3. gone \in SUBSET Clients OBVIOUS
  <2> HIDE DEF gone
  <2> QED BY <2>1, <2>2, <2>3
      DEF Exchange!Next, Exchange!Clear, as, an, cl, ov, Asked, Closed
<1> QED BY <1>5, <1>6, <1>7, NextRuns

\* Seen from the clients the server is one that answers each once and then closes,
\* until the program ends.
THEOREM ServerImplementsExchange == Spec => ExchangeSpec
<1>1. Init => Exchange!Init
  <2> SUFFICES ASSUME Init PROVE Exchange!Init OBVIOUS
  <2>1. PICK k \in [Clients -> Kinds] :
          peer = [c \in Clients |-> [st |-> "idle", kind |-> k[c], sent |-> 0,
                                     fin |-> FALSE, rst |-> FALSE, reply |-> "none"]]
    BY DEF Init
  <2>2. \A c \in Clients : /\ peer[c].st = "idle" /\ peer[c].sent = 0 /\ peer[c].fin = FALSE
                           /\ peer[c].reply = "none"
    BY <2>1
  <2>3. Running BY DEF Init, Running
  <2> QED BY <2>2, <2>3 DEF Exchange!Init
<1>2. TypeInv /\ SafeInv /\ SafeInv' /\ AnswerInv /\ [Next]_vars
        => [Exchange!Next]_(Exchange!vars)
  BY NextImplements
<1> QED BY <1>1, <1>2, Typing, Safety, Answers, PTL DEF Spec, ExchangeSpec, Exchange!Spec
=============================================================================
