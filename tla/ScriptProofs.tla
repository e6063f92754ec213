----------------------------- MODULE ScriptProofs -----------------------------
(***************************************************************************)
(* Scripts.  Every step is first seen as what it does to one script, to    *)
(* its handler and to the connection that waits for it; the invariants of  *)
(* WebservScripts are then shown to be kept one such view at a time.       *)
(***************************************************************************)
EXTENDS AnswerProofs, WebservScripts, FiniteSetTheorems

-----------------------------------------------------------------------------
(* Views.                                                                  *)

\* The script and its handler are left alone.
Rests(c) ==
  /\ child'[c] = child[c] /\ cgi'[c] = cgi[c]
  /\ Cgi(c) \in rx'.handlers <=> Cgi(c) \in rx.handlers
  /\ Active(Cgi(c))' <=> Active(Cgi(c))
  /\ rx'.ptr[In(c)] \in {rx.ptr[In(c)], NoHandler}

\* The handler of d's script, which has the number of c's descriptor, wakes c's
\* connection.
WokenBy(c, d) == /\ Active(Cgi(d)) /\ cgi[d].fd = conn[c].fd
                 /\ Active(Conn(c)) /\ rx'.flags[Conn(c)] = {"WANT_WRITE"}

WokenByOther(c) == \E d \in Clients \ {c} : WokenBy(c, d)

\* The connection is left alone, or woken so.
Alone(c) ==
  /\ conn'[c] = conn[c]
  /\ Conn(c) \in rx'.handlers <=> Conn(c) \in rx.handlers
  /\ Active(Conn(c))' <=> Active(Conn(c))
  /\ rx'.flags[Conn(c)] = rx.flags[Conn(c)] \/ WokenByOther(c)

\* No event comes, and no bit of one.
Shrinks == \A k \in loop'.batch : \E j \in loop.batch : j.h = k.h /\ k.ev \subseteq j.ev

\* All of that.
Bystands(c) == Rests(c) /\ Alone(c) /\ Shrinks

-----------------------------------------------------------------------------
(* How a step looks to those it is not about.                              *)

\* Handling an event brings none.
LEMMA HandledShrinks ==
  ASSUME TypeInv, NEW e \in loop.batch, Handled(e)
  PROVE  Shrinks
<1> DEFINE w == [e EXCEPT !.ev = {"OUT"}]
<1>1. e \in Event BY DEF TypeInv, TypeOK, Loop
<1>2. w.h = e.h /\ w.ev = {"OUT"} BY <1>1 DEF Event
<1> SUFFICES ASSUME NEW k \in loop'.batch
             PROVE  \E j \in loop.batch : j.h = k.h /\ k.ev \subseteq j.ev
  BY DEF Shrinks
<1>3. k \in loop.batch \/ (k = w /\ "OUT" \in e.ev) BY DEF Handled, Rest
<1> HIDE DEF w
<1> QED BY <1>2, <1>3

\* A handler whose flags and registrations are left alone.
LEMMA QuietRests ==
  ASSUME NEW c \in Clients, child'[c] = child[c], cgi'[c] = cgi[c],
         rx'.flags[Cgi(c)] = rx.flags[Cgi(c)],
         Cgi(c) \in rx'.handlers <=> Cgi(c) \in rx.handlers,
         rx'.ptr[In(c)] \in {rx.ptr[In(c)], NoHandler}
  PROVE  Rests(c)
BY DEF Rests, Active, IsInactive

\* A connection whose flags are left alone.
LEMMA QuietAlone ==
  ASSUME NEW c \in Clients, conn'[c] = conn[c], rx'.flags[Conn(c)] = rx.flags[Conn(c)],
         Conn(c) \in rx'.handlers <=> Conn(c) \in rx.handlers
  PROVE  Alone(c)
BY DEF Alone, Active, IsInactive

\* What a method of d's connection that starts no script does to the reactor.
LEMMA ConnectionStepReactor ==
  ASSUME TypeInv, SafeInv, NEW e \in loop.batch, NEW d \in Clients,
         ConnectionStep(e, d), ~StartCgi(e, d)
  PROVE  /\ rx'.handlers = rx.handlers /\ UNCHANGED <<cgi, child>>
         /\ \A k \in Handler : k # Conn(d) => rx'.flags[k] = rx.flags[k]
         /\ \A f \in File : rx'.ptr[f] \in {rx.ptr[f], NoHandler}
<1>1. UNCHANGED <<cgi, child>>
  BY DEF ConnectionStep, ConnectionHandleRead, CgiFails, HandleCgi, HandleWriteNothing,
     SendAll, SendFails, SendKills, ConnectionHandleError
<1>2. Takes(e, Conn(d))
  BY DEF ConnectionStep, ConnectionHandleRead, StartCgi, CgiFails, CompletesCgi,
     HandleCgi, HandleWriteNothing, SendAll, SendFails, SendKills, Writes,
     ConnectionHandleError
<1>3. Sane(rx) /\ Lives(rx, Conn(d)) /\ ConnWired(rx, d, conn[d].fd)
  BY <1>2, ConnectionIsThere
<1>4. \/ rx' = rx \/ rx' = Respond(rx, d) \/ rx' = Suspend(rx, d) \/ rx' = Arm(rx, d)
      \/ rx' = Close(rx, d) \/ rx' = GiveUp(rx, d)
  <2>1. CASE ConnectionHandleRead(e, d) BY <2>1 DEF ConnectionHandleRead
  <2>2. CASE CgiFails(e, d) \/ HandleCgi(e, d) BY <2>2 DEF CgiFails, HandleCgi
  <2>3. CASE HandleWriteNothing(e, d) \/ SendKills(e, d)
    BY <2>3 DEF HandleWriteNothing, SendKills
  <2>4. CASE SendAll(e, d) \/ SendFails(e, d) \/ ConnectionHandleError(e, d)
    BY <2>4 DEF SendAll, SendFails, ConnectionHandleError
  <2> QED BY <2>1, <2>2, <2>3, <2>4 DEF ConnectionStep
<1>5. CASE rx' = Respond(rx, d) \/ rx' = Suspend(rx, d) \/ rx' = Arm(rx, d)
  <2>1. \E fl : Rearmed(rx, Respond(rx, d), Conn(d), Sock(d), fl)
    BY <1>3, ConnectionIsRearmed
  <2>2. \E fl : Rearmed(rx, Suspend(rx, d), Conn(d), Sock(d), fl)
    BY <1>3, ConnectionIsRearmed
  <2>3. \E fl : Rearmed(rx, Arm(rx, d), Conn(d), Sock(d), fl)
    BY <1>3, ConnectionIsRearmed
  <2>4. PICK fl : Rearmed(rx, rx', Conn(d), Sock(d), fl) BY <1>5, <2>1, <2>2, <2>3
  <2> QED BY <1>1, <2>4 DEF Rearmed
<1>6. CASE rx' = Close(rx, d) \/ rx' = GiveUp(rx, d)
  <2>1. GivenUp(rx, rx', Conn(d), conn[d].fd, Sock(d)) BY <1>3, <1>6, ConnectionIsGivenUp
  <2> QED BY <1>1, <2>1 DEF GivenUp
<1> QED BY <1>1, <1>4, <1>5, <1>6

\* It changes no other connection.
LEMMA ConnectionStepOthers ==
  ASSUME TypeInv, NEW e \in loop.batch, NEW d \in Clients, ConnectionStep(e, d),
         NEW c \in Clients \ {d}
  PROVE  conn'[c] = conn[c]
BY DEF ConnectionStep, ConnectionHandleRead, StartCgi, CgiFails, Pending, HandleCgi,
   HandleWriteNothing, SendAll, SendFails, SendKills, ConnectionHandleError, TypeInv, TypeOK

\* A method of a connection is nothing to the others, and to no script but one that
\* it starts.
LEMMA ConnectionStepView ==
  ASSUME TypeInv, SafeInv, NEW e \in loop.batch, NEW d \in Clients,
         ConnectionStep(e, d), NEW c \in Clients
  PROVE  /\ ~StartCgi(e, d) => Rests(c)
         /\ c # d => Rests(c) /\ Alone(c)
<1>1. Conn(d) \in Handler /\ Cgi(d) \in Handler /\ Conn(c) \in Handler /\ Cgi(c) \in Handler
      /\ In(c) \in File /\ Conn(d) # Cgi(c)
  BY NamesAreTyped, NamesDiffer
<1>2. c # d => /\ Conn(c) # Conn(d) /\ Cgi(c) # Cgi(d) /\ Conn(c) # Cgi(d)
               /\ In(c) # In(d) /\ In(c) # Out(d) /\ conn'[c] = conn[c]
  BY NamesDiffer, ConnectionStepOthers
<1>3. CASE ~StartCgi(e, d)
  <2>1. /\ rx'.handlers = rx.handlers /\ UNCHANGED <<cgi, child>>
        /\ \A k \in Handler : k # Conn(d) => rx'.flags[k] = rx.flags[k]
        /\ \A f \in File : rx'.ptr[f] \in {rx.ptr[f], NoHandler}
    BY <1>3, ConnectionStepReactor
  <2> QED BY <1>1, <1>2, <2>1, QuietRests, QuietAlone
<1>4. CASE StartCgi(e, d) /\ c # d
  <2>1. /\ rx'.handlers = rx.handlers \cup {Cgi(d)}
        /\ \A k \in Handler : k \notin {Cgi(d), Conn(d)} => rx'.flags[k] = rx.flags[k]
        /\ \A f \in File : f \notin {In(d), Out(d)} => rx'.ptr[f] = rx.ptr[f]
        /\ cgi'[c] = cgi[c]
    BY <1>4, StartCgiEffect
  <2>2. child'[c] = child[c] BY <1>4 DEF StartCgi, TypeInv, TypeOK
  <2> QED BY <1>1, <1>2, <1>4, <2>1, <2>2, QuietRests, QuietAlone
<1> QED BY <1>3, <1>4

\* A script's handler that is finished wakes the connection it works for, and is
\* nothing to the others but that it may wake one of them instead.
LEMMA FinishedView ==
  ASSUME TypeInv, NEW c \in Clients, Active(Cgi(c)), NEW r2, Finished(c, r2)
  PROVE  /\ rx'.handlers = rx.handlers /\ ~Active(Cgi(c))'
         /\ Active(Conn(c)) /\ cgi[c].fd = conn[c].fd =>
              rx'.flags[Conn(c)] = {"WANT_WRITE"}
         /\ \A d \in Clients :
              /\ Active(Conn(d))' <=> Active(Conn(d))
              /\ rx'.ptr[In(d)] \in {rx.ptr[In(d)], NoHandler}
              /\ d # c => /\ cgi'[d] = cgi[d] /\ (Active(Cgi(d))' <=> Active(Cgi(d)))
                          /\ rx'.flags[Conn(d)] = rx.flags[Conn(d)] \/ WokenBy(d, c)
<1> DEFINE fd == cgi[c].fd
           cg == cgi'
<1>1. /\ Sane(r2) /\ Wired(r2, conn, cg) /\ ListenWired(r2)
      /\ r2.handlers = rx.handlers /\ IsInactive(r2, Cgi(c))
      /\ \A k \in Handler : k # Cgi(c) => r2.flags[k] = rx.flags[k]
      /\ \A d \in Clients : r2.ptr[In(d)] \in {rx.ptr[In(d)], NoHandler}
      /\ rx' = WakeUpHandler(r2, fd)
      /\ \A d \in Clients \ {c} : cg[d] = cgi[d]
  BY DEF Finished
<1> DEFINE r3 == WakeUpHandler(r2, fd)
<1> HIDE DEF cg
<1>2. /\ r3.handlers = rx.handlers
      /\ \A k \in Handler : IsInactive(r3, k) <=> IsInactive(r2, k)
      /\ \A f \in File : r3.ptr[f] = r2.ptr[f]
  BY <1>1, WakeUpIsWired
<1>3. \/ r3 = r2 /\ (fd \notin Fd \/ r2.fdMap[fd] = NoHandler \/ IsInactive(r2, r2.fdMap[fd]))
      \/ /\ fd \in Fd /\ r2.fdMap[fd] \in Handler /\ ~IsInactive(r2, r2.fdMap[fd])
         /\ r2.tab[fd] \in File /\ r2.ptr[r2.tab[fd]] = r2.fdMap[fd]
         /\ Rearmed(r2, r3, r2.fdMap[fd], r2.tab[fd], {"WANT_WRITE"})
  BY <1>1, WakeUpEffect
<1>4. \A d \in Clients : ConnWired(r2, d, conn[d].fd) BY <1>1 DEF Wired
<1>5. \A d \in Clients : /\ Conn(d) \in Handler /\ Cgi(d) \in Handler /\ In(d) \in File
                         /\ Conn(d) # Cgi(c) /\ Conn(d) # NoHandler
                         /\ d # c => Cgi(d) # Cgi(c)
  BY NamesAreTyped, NamesDiffer
<1>6. \A d \in Clients : (IsInactive(r3, Conn(d)) <=> IsInactive(rx, Conn(d)))
                         /\ (d # c => (IsInactive(r3, Cgi(d)) <=> IsInactive(rx, Cgi(d))))
  BY <1>1, <1>2, <1>5 DEF IsInactive
<1>7. ASSUME Active(Conn(c)), fd = conn[c].fd PROVE r3.flags[Conn(c)] = {"WANT_WRITE"}
  <2>1. ~IsInactive(r2, Conn(c)) /\ Conn(c) \in r2.handlers
    BY <1>1, <1>5, <1>7 DEF Active, IsInactive
  <2>2. fd \in Fd /\ r2.fdMap[fd] = Conn(c) BY <1>4, <1>7, <2>1 DEF ConnWired, Lives
  <2> QED BY <1>3, <1>5, <2>1, <2>2 DEF Rearmed
<1>8. ASSUME NEW d \in Clients \ {c}, r3.flags[Conn(d)] # rx.flags[Conn(d)]
      PROVE  /\ fd = conn[d].fd /\ Active(Conn(d)) /\ r3.flags[Conn(d)] = {"WANT_WRITE"}
  <2>1. r2.flags[Conn(d)] = rx.flags[Conn(d)] BY <1>1, <1>5
  <2>2. fd \in Fd /\ r2.fdMap[fd] = Conn(d) /\ r3.flags[Conn(d)] = {"WANT_WRITE"}
    BY <1>3, <1>5, <1>8, <2>1 DEF Rearmed
  <2> QED BY <1>1, <1>4, <1>5, <2>1, <2>2 DEF ConnWired, Lives, Active, IsInactive
<1>9. rx' = r3 BY <1>1
<1> HIDE DEF r3
<1>10. ~Active(Cgi(c))' BY <1>1, <1>2, <1>5, <1>9 DEF Active
<1>11. \A d \in Clients : Active(Conn(d))' <=> Active(Conn(d))
  BY <1>2, <1>6, <1>9 DEF Active
<1>12. \A d \in Clients \ {c} : Active(Cgi(d))' <=> Active(Cgi(d))
  BY <1>2, <1>6, <1>9 DEF Active
<1>13. \A d \in Clients \ {c} : rx'.flags[Conn(d)] = rx.flags[Conn(d)] \/ WokenBy(d, c)
  BY <1>8, <1>9 DEF WokenBy
<1> QED BY <1>1, <1>2, <1>5, <1>7, <1>9, <1>10, <1>11, <1>12, <1>13 DEF cg

\* A method of a script's handler is nothing to the other scripts, and to the other
\* connections but that it may wake one.
LEMMA CgiStepView ==
  ASSUME TypeInv, SafeInv, NEW e \in loop.batch, NEW d \in Clients, CgiStep(e, d),
         NEW c \in Clients \ {d}
  PROVE  Rests(c) /\ Alone(c) /\ (rx'.flags[Conn(c)] = rx.flags[Conn(c)] \/ WokenBy(c, d))
<1>1. conn'[c] = conn[c] /\ child'[c] = child[c] /\ cgi'[c] = cgi[c]
  BY DEF CgiStep, CgiHandleRead, CgiHandleEof, AppendToFreed, CgiHandleWrite,
     CgiWriteKills, CgiHandleError, Collected, TypeInv, TypeOK
<1>2. Active(Cgi(d))
  BY DEF CgiStep, CgiHandleRead, CgiHandleEof, AppendToFreed, CgiHandleWrite,
     CgiWriteKills, CgiHandleError, CgiReads, Takes, Active
<1>3. Conn(c) \in Handler /\ Cgi(c) \in Handler /\ Conn(c) # Cgi(d) /\ Cgi(c) # Cgi(d)
      /\ In(c) \in File /\ In(c) # In(d)
  BY NamesAreTyped, NamesDiffer
<1>4. CASE CgiHandleRead(e, d) \/ AppendToFreed(e, d) \/ CgiWriteKills(e, d)
  <2>1. rx' = rx BY <1>4 DEF CgiHandleRead, AppendToFreed, CgiWriteKills
  <2> QED BY <1>1, <2>1, QuietRests, QuietAlone
<1>5. CASE CgiHandleWrite(e, d)
  <2>1. /\ rx'.handlers = rx.handlers
        /\ \A k \in Handler : k # Cgi(d) => rx'.flags[k] = rx.flags[k]
        /\ \A f \in File : rx'.ptr[f] \in {rx.ptr[f], NoHandler}
    BY <1>5, CgiWriteEffect
  <2> QED BY <1>1, <1>3, <2>1, QuietRests, QuietAlone
<1>6. CASE CgiHandleEof(e, d) \/ CgiHandleError(e, d)
  <2>1. PICK r2 : Finished(d, r2) BY <1>6, EofFinishes, ErrorFinishes
  <2> QED BY <1>1, <1>2, <2>1, FinishedView DEF Rests, Alone, WokenByOther
<1> QED BY <1>4, <1>5, <1>6 DEF CgiStep

\* accept() is nothing to any script, nor to the other connections.
LEMMA AcceptView ==
  ASSUME TypeInv, SafeInv, SafeInv', NEW d \in Clients, Accept(d), NEW c \in Clients
  PROVE  Rests(c) /\ Shrinks /\ rx'.flags = rx.flags /\ (c # d => Alone(c))
<1>1. PICK fd \in Fd :
        /\ rx.tab[fd] = NoFile
        /\ rx' = AddHandler(Open(rx, fd, Sock(d)), Conn(d), fd,
                            ComputeEvents({"WANT_READ"}))
        /\ conn' = [conn EXCEPT ![d] = [NoConn EXCEPT !.fd = fd]]
  BY DEF Accept, Lowest, FreeFds
<1>2. /\ UNCHANGED <<cgi, child>>
      /\ loop' = [loop EXCEPT !.pc = IF rx'.failed THEN "threw" ELSE "accept"]
  BY DEF Accept
<1>3. ~rx'.failed BY DEF SafeInv, Wired
<1>4. loop'.batch = loop.batch BY <1>2, <1>3 DEF TypeInv, TypeOK, Loop
<1>5. /\ rx'.handlers = rx.handlers \cup {Conn(d)} /\ rx'.flags = rx.flags
      /\ \A f \in File : f # Sock(d) => rx'.ptr[f] = rx.ptr[f]
  <2> DEFINE r1 == Open(rx, fd, Sock(d))
  <2>1. /\ r1.handlers = rx.handlers /\ r1.flags = rx.flags /\ r1.ptr = rx.ptr
        /\ r1.tab[fd] = Sock(d) /\ Sane(r1)
    BY NamesAreTyped, OpenIsSane DEF Open, TypeInv, Sane, ReactorState
  <2> HIDE DEF r1
  <2> QED BY <1>1, <1>3, <2>1 DEF r1, AddHandler, Sane, ReactorState
<1>6. Cgi(c) # Conn(d) /\ In(c) # Sock(d) /\ In(c) \in File /\ (c # d => Conn(c) # Conn(d))
  BY NamesAreTyped, NamesDiffer
<1>7. c # d => conn'[c] = conn[c] BY <1>1 DEF TypeInv, TypeOK
<1> QED BY <1>2, <1>4, <1>5, <1>6, <1>7, QuietRests, QuietAlone DEF Shrinks

\* What a client does is nothing to anyone in the server.
LEMMA ClientView ==
  ASSUME TypeInv, NEW d \in Clients, Client(d), NEW c \in Clients
  PROVE  Bystands(c)
<1>1. UNCHANGED <<loop, conn, cgi, child>>
  BY DEF Client, Connect, Send, Fin, Reset
<1>2. rx'.handlers = rx.handlers /\ rx'.flags = rx.flags /\ rx'.ptr = rx.ptr
  <2>1. PICK f \in File, b \in SUBSET Bit : rx' = Wake(rx, f, b)
    <3>1. Listening \in File /\ Sock(d) \in File /\ {"IN"} \in SUBSET Bit /\ Bit \in SUBSET Bit
      BY NamesAreDistinct, NamesAreTyped DEF Bit
    <3> QED BY <3>1 DEF Client, Connect, Send, Fin, Reset
  <2>2. Sane(rx) BY DEF TypeInv
  <2> QED BY <2>1, <2>2, WakeEffect
<1> QED BY <1>1, <1>2, QuietRests, QuietAlone DEF Bystands, Shrinks

\* What a script does is nothing to any handler, nor to the other scripts.
LEMMA ScriptView ==
  ASSUME TypeInv, SafeInv, NEW d \in Clients, Script(d), NEW c \in Clients
  PROVE  /\ Alone(c) /\ Shrinks /\ (c # d => Rests(c))
         /\ cgi'[c] = cgi[c] /\ rx'.handlers = rx.handlers /\ rx'.flags = rx.flags
         /\ rx'.ptr[In(c)] \in {rx.ptr[In(c)], NoHandler}
<1>1. /\ UNCHANGED <<loop, conn, cgi, peer>>
      /\ rx'.handlers = rx.handlers /\ rx'.flags = rx.flags
      /\ \A f \in File : rx'.ptr[f] \in {rx.ptr[f], NoHandler}
  BY ScriptEffect
<1>2. c # d => child'[c] = child[c]
  BY DEF Script, ChildRead, ChildWrite, ChildCloseOut, ChildExit, TypeInv, TypeOK
<1> QED BY <1>1, <1>2, NamesAreTyped, QuietRests, QuietAlone DEF Shrinks

\* What the loop does of its own is nothing to anyone, when it does not delete.
LEMMA QuietView ==
  ASSUME TypeInv, UNCHANGED <<rx, conn, cgi, child>>, Shrinks, NEW c \in Clients
  PROVE  Bystands(c)
BY QuietRests, QuietAlone DEF Bystands

\* c's connection or its script's handler handles event e.
Works(e, c) == /\ e \in loop.batch /\ Handled(e) /\ loop.pc = "dispatch"
               /\ ConnectionStep(e, c) \/ CgiStep(e, c)

\* What a step can be to a client's script and connection.
LEMMA NextViews ==
  ASSUME TypeInv, SafeInv, SafeInv', AnswerInv, [Next]_vars, NEW c \in Clients
  PROVE  \/ Bystands(c)
         \/ EpollWait \/ Sweep \/ Shutdown \/ Accept(c) \/ Script(c)
         \/ \E e \in loop.batch : Works(e, c)
<1>1. ASSUME NEW e \in loop.batch, Dispatch(e)
      PROVE  Bystands(c) \/ Works(e, c)
  <2>1. Handled(e) BY <1>1, DispatchMoves
  <2>2. Shrinks /\ loop.pc = "dispatch" BY <1>1, <2>1, HandledShrinks DEF Dispatch
  <2>3. CASE SkipInactive(e) \/ UseFreed(e) \/ AcceptorHandleRead(e)
    BY <2>2, <2>3, QuietView DEF SkipInactive, UseFreed, AcceptorHandleRead
  <2>4. ASSUME NEW d \in Clients, ConnectionStep(e, d) \/ CgiStep(e, d)
        PROVE  Bystands(c) \/ Works(e, c)
    <3>1. CASE d = c BY <2>1, <2>2, <2>4, <3>1 DEF Works
    <3>2. CASE d # c BY <2>2, <2>4, <3>2, ConnectionStepView, CgiStepView DEF Bystands
    <3> QED BY <3>1, <3>2
  <2> QED BY <1>1, <2>3, <2>4 DEF Dispatch
<1>2. ASSUME NEW d \in Clients, Accept(d) PROVE Bystands(c) \/ Accept(c)
  BY <1>2, AcceptView DEF Bystands
<1>3. CASE AcceptThrows \/ AcceptDone \/ Sigint \/ UNCHANGED vars
  <2>1. UNCHANGED <<rx, conn, cgi, child>> /\ loop'.batch = loop.batch
    BY <1>3 DEF AcceptThrows, AcceptDone, Sigint, vars, TypeInv, TypeOK, Loop
  <2> QED BY <2>1, QuietView DEF Shrinks
<1>4. ASSUME NEW d \in Clients, Script(d) PROVE Bystands(c) \/ Script(c)
  BY <1>4, ScriptView DEF Bystands
<1> QED BY <1>1, <1>2, <1>3, <1>4, ClientView DEF Next, Server

-----------------------------------------------------------------------------
(* What the methods of c's connection are to c.                            *)

\* Nothing changes but the events.
Idles(c) == conn'[c] = conn[c] /\ rx' = rx

\* A method of the connection that starts no script: the script and its handler are
\* left alone, and the connection moves or does not.
LEMMA OwnView ==
  ASSUME TypeInv, SafeInv, AnswerInv, NEW e \in loop.batch, NEW c \in Clients,
         ConnectionStep(e, c), ~StartCgi(e, c)
  PROVE  /\ Rests(c) /\ e.h = Conn(c) /\ Active(Conn(c))
         /\ conn'[c].fd = conn[c].fd /\ rx'.handlers = rx.handlers
         /\ \/ Idles(c) \/ Reads(c) \/ Responds(c) \/ CgiResponds(c) \/ Closes(c)
            \/ CutsOff(c)
            \/ (Suspends(c) /\ child[c].st = "none" /\ CgiFails(e, c))
<1>1. Answering(c) BY DEF AnswerInv
<1>2. Takes(e, Conn(c))
  BY DEF ConnectionStep, ConnectionHandleRead, CgiFails, CompletesCgi, StartCgi,
     HandleCgi, HandleWriteNothing, SendAll, SendFails, SendKills, Writes,
     ConnectionHandleError
<1>3. rx'.handlers = rx.handlers BY ConnectionStepReactor
<1>4. \/ Idles(c) \/ Reads(c) \/ Responds(c) \/ CgiResponds(c) \/ Closes(c)
      \/ CutsOff(c)
      \/ (Suspends(c) /\ child[c].st = "none" /\ CgiFails(e, c))
  <2>1. CASE HandleWriteNothing(e, c) \/ SendKills(e, c)
    BY <2>1 DEF HandleWriteNothing, SendKills, Idles
  <2>2. CASE CgiFails(e, c)
    <3>1. child[c].st = "none" BY <2>2, CompletedHasNoScript DEF CgiFails
    <3> QED BY <1>1, <2>2, <3>1, CgiFailsMove
  <2> QED BY <1>1, <2>1, <2>2, ReadMove, HandleCgiMove, SendAllMove, SendFailsMove
       DEF ConnectionStep
<1>5. conn'[c].fd = conn[c].fd
  BY <1>4 DEF Idles, Reads, Responds, CgiResponds, Closes, CutsOff, Suspends, Goes, Ends
<1> QED BY <1>2, <1>3, <1>4, <1>5, ConnectionStepView DEF Takes, Active

\* A script is started.
Starts(c) ==
  /\ child[c].st = "none" /\ Cgi(c) \notin rx.handlers
  /\ child'[c] = [NoChild EXCEPT !.st = "run", !.outOpen = TRUE, !.holds = OpenFiles]
  /\ Active(Cgi(c))' /\ cgi'[c].fd = conn[c].fd /\ cgi'[c].pid

\* A request that names a script starts it and suspends its connection.
LEMMA StartView ==
  ASSUME TypeInv, SafeInv, AnswerInv, NEW e \in loop.batch, NEW c \in Clients,
         StartCgi(e, c)
  PROVE  /\ Starts(c) /\ Suspends(c) /\ e.h = Conn(c) /\ IsRead(e)
         /\ \A d \in loop.batch : d.h # Cgi(c)
<1>1. /\ Takes(e, Conn(c)) /\ CompletesCgi(e, c) /\ IsRead(e)
  BY DEF StartCgi, CompletesCgi
<1>2. /\ child[c].st = "none" /\ Cgi(c) \notin rx.handlers /\ ~IsInactive(rx, Cgi(c))
      /\ \A d \in loop.batch : d.h # Cgi(c)
  BY <1>1, CompletedHasNoScript
<1>3. Answering(c) BY DEF AnswerInv
<1>4. Suspends(c) BY <1>3, StartCgiMove
<1>5. /\ rx'.handlers = rx.handlers \cup {Cgi(c)} /\ Wired(rx', conn, cgi')
      /\ cgi'[c].fd = conn[c].fd /\ cgi'[c].pid /\ cgi'[c].outFd \in Fd
  BY StartCgiEffect
<1>6. child'[c] = [NoChild EXCEPT !.st = "run", !.outOpen = TRUE, !.holds = OpenFiles]
  BY DEF StartCgi, TypeInv, TypeOK
<1>7. Active(Cgi(c))'
  <2> DEFINE cg == cgi'
  <2>1. Wired(rx', conn, cg) BY <1>5
  <2> HIDE DEF cg
  <2>2. CgiWired(rx', c, cg[c].inFd, cg[c].outFd) BY <2>1 DEF Wired
  <2> QED BY <1>5, <2>2, NamesAreDistinct DEF CgiWired, Active, cg
<1> QED BY <1>1, <1>2, <1>4, <1>5, <1>6, <1>7 DEF Starts, Takes

-----------------------------------------------------------------------------
(* What the methods of the script's handler are to c.                      *)

\* The pipe is emptied into the connection, if there is one.
Empties(c) ==
  /\ Conn(c) \in rx.handlers => conn'[c].out = conn[c].out + child[c].outPipe
  /\ child'[c].outPipe = 0
  /\ child'[c].wrote = child[c].wrote /\ child'[c].outOpen = child[c].outOpen

\* The handler has nothing left to do but to be deleted, and has woken its connection.
Finishes(c) ==
  /\ rx'.handlers = rx.handlers /\ ~Active(Cgi(c))'
  /\ Active(Conn(c)) /\ cgi[c].fd = conn[c].fd => rx'.flags[Conn(c)] = {"WANT_WRITE"}
  /\ rx'.ptr[In(c)] \in {rx.ptr[In(c)], NoHandler}
  /\ cgi'[c].fd = cgi[c].fd

\* Output is collected and more may come, or it is the last.
Collects(c) == /\ child[c].outOpen /\ Empties(c) /\ child'[c].st = child[c].st
               /\ cgi'[c] = cgi[c] /\ rx' = rx
Eofs(c) == /\ ~child[c].outOpen /\ Empties(c) /\ Finishes(c)
           /\ child'[c].st = child[c].st \/ (child[c].st = "zombie" /\ child'[c].st = "reaped")
           /\ cgi'[c].inFd = cgi[c].inFd

\* Input is written.
Feeds(c) ==
  /\ conn'[c] = conn[c]
  /\ child'[c].st = child[c].st /\ child'[c].outOpen = child[c].outOpen
  /\ child'[c].outPipe = child[c].outPipe /\ child'[c].wrote = child[c].wrote
  /\ cgi'[c].fd = cgi[c].fd /\ cgi'[c].pid = cgi[c].pid
  /\ cgi'[c].inFd \in {cgi[c].inFd, NoFd}
  /\ rx'.handlers = rx.handlers /\ rx'.flags[Conn(c)] = rx.flags[Conn(c)]
  /\ Active(Cgi(c))' <=> Active(Cgi(c))
  /\ rx'.ptr[In(c)] \in {rx.ptr[In(c)], NoHandler}

\* Its output is thrown away.
Errs(c) == /\ child'[c] = child[c] /\ cgi'[c].pid = cgi[c].pid /\ Finishes(c)
           /\ Conn(c) \in rx.handlers => conn'[c].out = 0

\* handleRead of a script.
LEMMA CollectsView ==
  ASSUME TypeInv, NEW c \in Clients, conn' = Collected(c),
         child' = [child EXCEPT ![c] = Drained(child[c])]
                    \/ child' = [child EXCEPT ![c] = WaitPid(Drained(child[c]))]
  PROVE  /\ Empties(c) /\ conn'[c].fd = conn[c].fd
         /\ \/ child'[c].st = child[c].st
            \/ /\ child[c].st = "zombie" /\ child'[c].st = "reaped"
               /\ child' = [child EXCEPT ![c] = WaitPid(Drained(child[c]))]
<1> DEFINE s == Drained(child[c])
           t == WaitPid(s)
<1>1. /\ s \in ChildState /\ s.outPipe = 0 /\ s.wrote = child[c].wrote
      /\ s.outOpen = child[c].outOpen /\ s.st = child[c].st
  BY FieldsAreTyped, ZeroFits DEF Drained, ChildState
<1> HIDE DEF s
<1>2. /\ t.outPipe = 0 /\ t.wrote = s.wrote /\ t.outOpen = s.outOpen
      /\ t.st = s.st \/ (s.st = "zombie" /\ t.st = "reaped")
  BY <1>1 DEF WaitPid, ChildState
<1> HIDE DEF t
<1>3. child'[c] = s \/ (child'[c] = t /\ child' = [child EXCEPT ![c] = t])
  BY DEF TypeInv, TypeOK, s, t
<1> DEFINE k == [conn[c] EXCEPT !.out = conn[c].out + child[c].outPipe]
<1>4. k.out = conn[c].out + child[c].outPipe /\ k.fd = conn[c].fd
  BY FieldsAreTyped DEF ConnState
<1>5. \/ conn'[c] = k
      \/ conn' = conn /\ Conn(c) \notin rx.handlers
  BY DEF Collected, OwnerLives, TypeInv, TypeOK
<1> HIDE DEF k
<1>6. child'[c].outPipe = 0 /\ child'[c].wrote = child[c].wrote
      /\ child'[c].outOpen = child[c].outOpen
  BY <1>1, <1>2, <1>3
<1>7. Conn(c) \in rx.handlers => conn'[c].out = conn[c].out + child[c].outPipe
  BY <1>4, <1>5
<1>8. conn'[c].fd = conn[c].fd BY <1>4, <1>5
<1>9. \/ child'[c].st = child[c].st
      \/ /\ child[c].st = "zombie" /\ child'[c].st = "reaped"
         /\ child' = [child EXCEPT ![c] = t]
  BY <1>1, <1>2, <1>3
<1> QED BY <1>6, <1>7, <1>8, <1>9 DEF Empties, t, s

\* Every method of it.
LEMMA HandlerView ==
  ASSUME TypeInv, SafeInv, NEW e \in loop.batch, NEW c \in Clients, CgiStep(e, c)
  PROVE  /\ e.h = Cgi(c) /\ Active(Cgi(c)) /\ Keeps(c) /\ conn'[c].fd = conn[c].fd
         /\ \/ Idles(c) /\ UNCHANGED <<cgi, child>>
            \/ Collects(c) \/ Eofs(c) \/ Feeds(c) \/ (Errs(c) /\ "ERR" \in e.ev)
<1>1. e.h = Cgi(c) /\ Active(Cgi(c))
  BY DEF CgiStep, CgiHandleRead, CgiHandleEof, AppendToFreed, CgiHandleWrite,
     CgiWriteKills, CgiHandleError, CgiReads, Takes, Active
<1>2. Keeps(c) BY CgiStepKeeps
<1>3. CASE AppendToFreed(e, c) \/ CgiWriteKills(e, c)
  BY <1>1, <1>2, <1>3 DEF AppendToFreed, CgiWriteKills, Idles
<1>4. CASE CgiHandleRead(e, c)
  <2>1. /\ child[c].outOpen /\ conn' = Collected(c) /\ UNCHANGED <<rx, cgi>>
        /\ child' = [child EXCEPT ![c] = Drained(child[c])]
    BY <1>4 DEF CgiHandleRead, TypeInv, TypeOK
  <2>2. child'[c].st = child[c].st
    BY <2>1, FieldsAreTyped DEF Drained, ChildState, TypeInv, TypeOK
  <2> QED BY <1>1, <1>2, <2>1, <2>2, CollectsView DEF Collects
<1>5. CASE CgiHandleEof(e, c)
  <2> DEFINE k == [cgi[c] EXCEPT !.outFd = NoFd, !.pid = FALSE]
  <2>1. /\ ~child[c].outOpen /\ conn' = Collected(c) /\ cgi' = [cgi EXCEPT ![c] = k]
        /\ child' = [child EXCEPT ![c] = WaitPid(Drained(child[c]))]
    BY <1>5 DEF CgiHandleEof, TypeInv, TypeOK
  <2>2. k.fd = cgi[c].fd /\ k.inFd = cgi[c].inFd BY FieldsAreTyped DEF CgiState
  <2> HIDE DEF k
  <2>3. cgi'[c].fd = cgi[c].fd /\ cgi'[c].inFd = cgi[c].inFd
    BY <2>1, <2>2 DEF TypeInv, TypeOK
  <2>4. PICK r2 : Finished(c, r2) BY <1>5, EofFinishes
  <2>5. Finishes(c) BY <1>1, <2>3, <2>4, FinishedView DEF Finishes
  <2> QED BY <1>1, <1>2, <2>1, <2>3, <2>5, CollectsView DEF Eofs
<1>6. CASE CgiHandleWrite(e, c)
  <2> DEFINE room == PipeCap - child[c].inPipe
             n    == IF cgi[c].left < room THEN cgi[c].left ELSE room
             s    == [child[c] EXCEPT !.inPipe = @ + n]
             k1   == [cgi[c] EXCEPT !.left = @ - n]
             k2   == [cgi[c] EXCEPT !.left = 0, !.inFd = NoFd]
  <2>1. /\ conn' = conn /\ child' = [child EXCEPT ![c] = s]
        /\ cgi' = [cgi EXCEPT ![c] = k1] \/ cgi' = [cgi EXCEPT ![c] = k2]
    BY <1>6 DEF CgiHandleWrite, TypeInv, TypeOK
  <2>2. /\ k1.fd = cgi[c].fd /\ k1.pid = cgi[c].pid /\ k1.inFd = cgi[c].inFd
        /\ k2.fd = cgi[c].fd /\ k2.pid = cgi[c].pid /\ k2.inFd = NoFd
        /\ s.st = child[c].st /\ s.outOpen = child[c].outOpen
        /\ s.outPipe = child[c].outPipe /\ s.wrote = child[c].wrote
    BY FieldsAreTyped DEF CgiState, ChildState
  <2> HIDE DEF s, k1, k2
  <2>3. child'[c] = s /\ (cgi'[c] = k1 \/ cgi'[c] = k2) BY <2>1 DEF TypeInv, TypeOK
  <2>4. /\ rx'.handlers = rx.handlers
        /\ \A k \in Handler : k # Cgi(c) => rx'.flags[k] = rx.flags[k]
        /\ IsInactive(rx', Cgi(c)) <=> IsInactive(rx, Cgi(c))
        /\ \A f \in File : rx'.ptr[f] \in {rx.ptr[f], NoHandler}
    BY <1>6, CgiWriteEffect
  <2>5. /\ rx'.flags[Conn(c)] = rx.flags[Conn(c)]
        /\ Active(Cgi(c))' <=> Active(Cgi(c))
        /\ rx'.ptr[In(c)] \in {rx.ptr[In(c)], NoHandler}
    BY <2>4, NamesAreTyped, NamesDiffer DEF Active
  <2>6. Feeds(c) BY <2>1, <2>2, <2>3, <2>4, <2>5 DEF Feeds
  <2> QED BY <1>1, <1>2, <2>1, <2>6
<1>7. CASE CgiHandleError(e, c)
  <2> DEFINE k == [cgi[c] EXCEPT !.inFd = NoFd, !.outFd = NoFd]
             m == [conn[c] EXCEPT !.out = 0]
  <2>1. /\ IsError(e) /\ child' = child /\ cgi' = [cgi EXCEPT ![c] = k]
        /\ conn' = IF Conn(c) \in rx.handlers THEN [conn EXCEPT ![c] = m] ELSE conn
    BY <1>7 DEF CgiHandleError, OwnerLives, TypeInv, TypeOK
  <2>2. /\ k.fd = cgi[c].fd /\ k.pid = cgi[c].pid /\ m.out = 0 /\ m.fd = conn[c].fd
    BY FieldsAreTyped DEF CgiState, ConnState
  <2> HIDE DEF k, m
  <2>3. /\ cgi'[c].fd = cgi[c].fd /\ cgi'[c].pid = cgi[c].pid
        /\ conn'[c].fd = conn[c].fd
        /\ Conn(c) \in rx.handlers => conn'[c].out = 0
    BY <2>1, <2>2 DEF TypeInv, TypeOK
  <2>4. PICK r2 : Finished(c, r2) BY <1>7, ErrorFinishes
  <2>5. Finishes(c) BY <1>1, <2>3, <2>4, FinishedView DEF Finishes
  <2>6. "ERR" \in e.ev BY <1>1, <2>1 DEF IsError, Cgi
  <2> QED BY <1>1, <1>2, <2>1, <2>3, <2>5, <2>6 DEF Errs
<1> QED BY <1>3, <1>4, <1>5, <1>6, <1>7 DEF CgiStep

-----------------------------------------------------------------------------
(* The end of a turn and of the program, a new batch, and the script.      *)

\* What is deleted was inactive or the program ends, and a script whose handler is
\* deleted is killed if the handler still knew it and it ran.
LEMMA DestroyView ==
  ASSUME TypeInv, SafeInv, AnswerInv, Sweep \/ Shutdown, NEW c \in Clients
  PROVE  /\ loop'.batch = {} /\ rx'.flags = rx.flags /\ rx'.handlers \subseteq rx.handlers
         /\ \A h \in rx.handlers \ rx'.handlers : IsInactive(rx, h) \/ rx'.handlers = {}
         /\ rx'.ptr[In(c)] \in {rx.ptr[In(c)], NoHandler}
         /\ rx'.handlers = {} => rx'.ptr[In(c)] = NoHandler
         /\ conn'[c] = IF Conn(c) \in rx'.handlers THEN conn[c] ELSE NoConn
         /\ Cgi(c) \in rx'.handlers => cgi'[c] = cgi[c]
         /\ Cgi(c) \in rx'.handlers \/ Cgi(c) \notin rx.handlers => child'[c] = child[c]
         /\ child'[c].outOpen = child[c].outOpen /\ child'[c].wrote = child[c].wrote
         /\ child'[c].outPipe = child[c].outPipe
         /\ child'[c].st \in IF child[c].st # "run" THEN {child[c].st, "reaped"}
                             ELSE IF Cgi(c) \in rx.handlers \ rx'.handlers /\ cgi[c].pid
                                    THEN {"killed"} ELSE {"run"}
         /\ child[c].st \in {"none", "killed"} => child'[c].st = child[c].st
<1>1. PICK r, hs :
        /\ Destroy(r, hs) /\ r.handlers = rx.handlers \ hs /\ r.flags = rx.flags
        /\ hs \subseteq rx.handlers
        /\ r.handlers = {} \/ \A h \in hs : IsInactive(rx, h)
        /\ r.ptr[In(c)] \in {rx.ptr[In(c)], NoHandler}
        /\ r.handlers = {} => r.ptr[In(c)] = NoHandler
  <2>0. In(c) \in File BY NamesAreTyped
  <2>1. CASE Sweep
    <3>1. LET r == RemoveDeactivated(rx) IN
            r.handlers = rx.handlers \ Dead(rx) /\ r.flags = rx.flags /\ r.ptr = rx.ptr
      BY DEF RemoveDeactivated, TypeInv, Sane, ReactorState
    <3>2. Destroy(RemoveDeactivated(rx), Dead(rx)) BY <2>1 DEF Sweep
    <3>3. Acceptor \in rx.handlers \ Dead(rx)
      <4>1. loop.pc = "dispatch" BY <2>1 DEF Sweep
      <4> QED BY <4>1 DEF SafeInv, EndInv, ListenWired, Lives, Dead
    <3> QED BY <3>1, <3>2, <3>3 DEF Dead
  <2>2. CASE Shutdown
    <3> DEFINE r == Teardown(rx)
    <3>1. r.handlers = {} /\ r.flags = rx.flags /\ r.ptr[In(c)] = NoHandler
      BY <2>0 DEF Teardown, Forget, TypeInv, Sane, ReactorState
    <3>2. Destroy(r, rx.handlers) BY <2>2 DEF Shutdown
    <3> HIDE DEF r
    <3>3. r.handlers = rx.handlers \ rx.handlers BY <3>1
    <3> QED BY <3>1, <3>2, <3>3
  <2> QED BY <2>1, <2>2
<1>2. rx'.handlers = r.handlers /\ rx'.flags = r.flags
      /\ rx'.ptr[In(c)] \in {r.ptr[In(c)], NoHandler}
  <2>1. PICK fds : rx' = CloseAll(r, fds, Held) BY <1>1 DEF Destroy
  <2>2. In(c) \in File BY NamesAreTyped
  <2>3. \A gone : rx' = CloseAll(r, gone, Held) =>
          /\ rx'.handlers = r.handlers /\ rx'.flags = r.flags
          /\ rx'.ptr[In(c)] \in {r.ptr[In(c)], NoHandler}
    BY <2>2 DEF CloseAll, Forget
  <2> QED BY <2>1, <2>3
<1>3. loop'.batch = {}
  BY DEF Sweep, Shutdown, TypeInv, TypeOK, Loop
<1>4. /\ Conn(c) \notin hs => conn'[c] = conn[c]
      /\ Conn(c) \in hs => conn'[c] = NoConn
      /\ Cgi(c) \notin hs => cgi'[c] = cgi[c]
  <2>1. Destroy(r, hs) BY <1>1
  <2> QED BY <2>1, DestroyEffect
<1>5. Conn(c) \notin rx.handlers => conn[c] = NoConn BY DEF AnswerInv, Answering
<1>6. conn'[c] = IF Conn(c) \in rx'.handlers THEN conn[c] ELSE NoConn
  BY <1>1, <1>2, <1>4, <1>5
<1> DEFINE k == [child[c] EXCEPT !.st = "killed"]
           w == WaitPid(child[c])
<1>7. /\ k.st = "killed" /\ k.outOpen = child[c].outOpen /\ k.wrote = child[c].wrote
      /\ k.outPipe = child[c].outPipe
  BY FieldsAreTyped DEF ChildState
<1>8. /\ w.outOpen = child[c].outOpen /\ w.wrote = child[c].wrote
      /\ w.outPipe = child[c].outPipe
      /\ w.st = child[c].st \/ (child[c].st = "zombie" /\ w.st = "reaped")
  BY FieldsAreTyped DEF WaitPid, ChildState
<1>9. child'[c] = IF Cgi(c) \in hs /\ cgi[c].pid
                    THEN IF child[c].st = "run" THEN k ELSE w ELSE child[c]
  BY <1>1 DEF Destroy
<1> HIDE DEF k, w
<1>10. Cgi(c) \in hs <=> Cgi(c) \in rx.handlers \ rx'.handlers BY <1>1, <1>2
<1>11. /\ child'[c].outOpen = child[c].outOpen /\ child'[c].wrote = child[c].wrote
       /\ child'[c].outPipe = child[c].outPipe
  BY <1>7, <1>8, <1>9
<1>12. child'[c].st \in IF child[c].st # "run" THEN {child[c].st, "reaped"}
                        ELSE IF Cgi(c) \in rx.handlers \ rx'.handlers /\ cgi[c].pid
                               THEN {"killed"} ELSE {"run"}
  BY <1>7, <1>8, <1>9, <1>10
<1>13. child[c].st \in {"none", "killed"} => child'[c].st = child[c].st
  BY <1>8, <1>9
<1>14. Cgi(c) \in rx'.handlers \/ Cgi(c) \notin rx.handlers =>
         child'[c] = child[c]
  BY <1>9, <1>10
<1> QED BY <1>1, <1>2, <1>3, <1>4, <1>6, <1>10, <1>11, <1>12, <1>13, <1>14

\* A new batch changes nothing else.
LEMMA EpollView ==
  ASSUME TypeInv, EpollWait, NEW c \in Clients
  PROVE  /\ Rests(c) /\ Alone(c)
         /\ rx'.flags = rx.flags /\ rx'.handlers = rx.handlers /\ rx'.ptr = rx.ptr
         /\ \A k \in loop'.batch : \E f \in rx.edge :
              k = [h |-> rx.ptr[f], ev |-> Reported(f)] /\ Reported(f) # {}
<1> DEFINE ready == {f \in rx.edge : Reported(f) # {}}
<1>1. PICK fs \in SUBSET ready :
        /\ loop' = [loop EXCEPT !.pc = "dispatch",
                       !.batch = {[h |-> rx.ptr[f], ev |-> Reported(f)] : f \in fs}]
        /\ rx' = [rx EXCEPT !.edge = ready \ fs]
  BY DEF EpollWait
<1>2. UNCHANGED <<conn, cgi, peer, child>> BY DEF EpollWait
<1>3. rx'.handlers = rx.handlers /\ rx'.flags = rx.flags /\ rx'.ptr = rx.ptr
  BY <1>1 DEF TypeInv, TypeOK, ReactorState
<1>4. loop'.batch = {[h |-> rx.ptr[f], ev |-> Reported(f)] : f \in fs}
  BY <1>1 DEF TypeInv, TypeOK, Loop
<1>5. \A f \in fs : f \in rx.edge /\ Reported(f) # {} OBVIOUS
<1> HIDE DEF ready
<1> QED BY <1>2, <1>3, <1>4, <1>5, QuietRests, QuietAlone

\* What a script does to itself: it reads, writes, closes its output or exits.
Runs(c) ==
  LET s == child[c] t == child'[c] IN
  \/ s.st = "run" /\ t.st = "run" /\ t.outOpen = s.outOpen /\ t.outPipe = s.outPipe /\ t.wrote = s.wrote
  \/ /\ s.st = "run" /\ s.outOpen /\ t.st = "run" /\ t.outOpen
     /\ t.outPipe = s.outPipe + 1 /\ t.wrote = s.wrote + 1
  \/ /\ EarlyClose /\ s.st = "run" /\ t.st = "run" /\ ~t.outOpen
     /\ t.outPipe = s.outPipe /\ t.wrote = s.wrote
  \/ /\ MayExit(c) /\ t.st = "zombie" /\ ~t.outOpen
     /\ t.outPipe = s.outPipe /\ t.wrote = s.wrote

\* Nothing else happens to it of its own.
LEMMA RunsView ==
  ASSUME TypeInv, NEW c \in Clients, Script(c)
  PROVE  Runs(c)
<1> DEFINE s == child[c]
<1>1. s \in ChildState BY FieldsAreTyped
<1>2. CASE ChildRead(c)
  <2> DEFINE t == [s EXCEPT !.inPipe = @ - 1]
  <2>1. s.st = "run" /\ child'[c] = t BY <1>2 DEF ChildRead, TypeInv, TypeOK
  <2>2. t.st = s.st /\ t.outOpen = s.outOpen /\ t.outPipe = s.outPipe /\ t.wrote = s.wrote
    BY <1>1 DEF ChildState
  <2> QED BY <2>1, <2>2 DEF Runs
<1>3. CASE ChildWrite(c)
  <2> DEFINE t == [s EXCEPT !.wrote = @ + 1, !.outPipe = @ + 1]
  <2>1. s.st = "run" /\ s.outOpen /\ child'[c] = t BY <1>3 DEF ChildWrite, TypeInv, TypeOK
  <2>2. /\ t.st = s.st /\ t.outOpen = s.outOpen /\ t.outPipe = s.outPipe + 1
        /\ t.wrote = s.wrote + 1
    BY <1>1 DEF ChildState
  <2> HIDE DEF t
  <2> QED BY <2>1, <2>2 DEF Runs
<1>4. CASE ChildCloseOut(c)
  <2> DEFINE t == [s EXCEPT !.outOpen = FALSE]
  <2>1. s.st = "run" /\ EarlyClose /\ child'[c] = t
    BY <1>4 DEF ChildCloseOut, TypeInv, TypeOK
  <2>2. t.st = s.st /\ ~t.outOpen /\ t.outPipe = s.outPipe /\ t.wrote = s.wrote
    BY <1>1 DEF ChildState
  <2> HIDE DEF t
  <2> QED BY <2>1, <2>2 DEF Runs
<1>5. CASE ChildExit(c)
  <2> DEFINE t == [s EXCEPT !.st = "zombie", !.outOpen = FALSE, !.inPipe = 0, !.holds = {}]
  <2>1. MayExit(c) /\ child'[c] = t BY <1>5 DEF ChildExit, TypeInv, TypeOK
  <2>2. t.st = "zombie" /\ ~t.outOpen /\ t.outPipe = s.outPipe /\ t.wrote = s.wrote
    BY <1>1 DEF ChildState
  <2> HIDE DEF t
  <2> QED BY <2>1, <2>2 DEF Runs
<1> QED BY <1>2, <1>3, <1>4, <1>5 DEF Script

-----------------------------------------------------------------------------
(* A script that may write is held, and whoever waits for it is woken.     *)

\* Bystanders stay held.
LEMMA RestingHeld ==
  ASSUME NEW c \in Clients, ScriptHeld(c), Rests(c), Alone(c)
  PROVE  ScriptHeld(c)'
<1>1. /\ child'[c] = child[c] /\ cgi'[c] = cgi[c] /\ conn'[c] = conn[c]
      /\ Cgi(c) \in rx'.handlers <=> Cgi(c) \in rx.handlers
      /\ Conn(c) \in rx'.handlers <=> Conn(c) \in rx.handlers
      /\ Active(Cgi(c))' <=> Active(Cgi(c))
      /\ Active(Conn(c))' <=> Active(Conn(c))
      /\ "WANT_WRITE" \in rx.flags[Conn(c)] => "WANT_WRITE" \in rx'.flags[Conn(c)]
  BY DEF Rests, Alone, WokenByOther, WokenBy
<1> QED BY <1>1 DEF ScriptHeld

\* A method of the connection that starts no script.
LEMMA OwnHeld ==
  ASSUME TypeInv, SafeInv, AnswerInv, NEW e \in loop.batch, NEW c \in Clients,
         ConnectionStep(e, c), ~StartCgi(e, c), ScriptHeld(c)
  PROVE  ScriptHeld(c)'
<1>1. /\ Rests(c) /\ conn'[c].fd = conn[c].fd /\ rx'.handlers = rx.handlers
      /\ \/ Idles(c) \/ Reads(c) \/ Responds(c) \/ CgiResponds(c) \/ Closes(c)
         \/ CutsOff(c) \/ (Suspends(c) /\ child[c].st = "none")
  BY OwnView
<1>2. /\ child'[c] = child[c] /\ cgi'[c] = cgi[c]
      /\ Active(Cgi(c))' <=> Active(Cgi(c))
  BY <1>1 DEF Rests
<1>3. conn'[c].cgiPending => conn'[c].resp = "none"
  BY <1>1 DEF ScriptHeld, Idles, Reads, Responds, CgiResponds, Closes, CutsOff, Suspends, Ends
<1>4. /\ Active(Conn(c))' /\ conn'[c].cgiPending /\ child[c].st # "none" =>
           Active(Cgi(c)) \/ "WANT_WRITE" \in rx'.flags[Conn(c)]
  BY <1>1 DEF ScriptHeld, Idles, Reads, Responds, CgiResponds, Closes, CutsOff, Suspends,
     Ends, Active, IsInactive
<1> QED BY <1>1, <1>2, <1>3, <1>4 DEF ScriptHeld

\* A script is started.
LEMMA StartHeld ==
  ASSUME TypeInv, SafeInv, AnswerInv, NEW e \in loop.batch, NEW c \in Clients,
         StartCgi(e, c)
  PROVE  ScriptHeld(c)'
<1>1. Starts(c) /\ Suspends(c) BY StartView
<1>2. child'[c].st = "run" /\ child'[c].outOpen
  BY <1>1 DEF Starts, NoChild
<1>3. conn'[c].fd = conn[c].fd /\ conn'[c].resp = "none" BY <1>1 DEF Suspends, Goes
<1>4. Active(Cgi(c))' /\ cgi'[c].fd = conn[c].fd /\ cgi'[c].pid BY <1>1 DEF Starts
<1>5. Cgi(c) \in rx'.handlers BY <1>4 DEF Active
<1> QED BY <1>2, <1>3, <1>4, <1>5 DEF ScriptHeld

\* A method of the script's handler.
LEMMA HandlerHeld ==
  ASSUME TypeInv, SafeInv, NEW e \in loop.batch, NEW c \in Clients, CgiStep(e, c),
         ScriptHeld(c)
  PROVE  ScriptHeld(c)'
<1>1. /\ Active(Cgi(c)) /\ Keeps(c) /\ conn'[c].fd = conn[c].fd
      /\ \/ Idles(c) /\ UNCHANGED <<cgi, child>>
         \/ Collects(c) \/ Eofs(c) \/ Feeds(c) \/ Errs(c)
  BY HandlerView
<1>2. /\ conn'[c].resp = conn[c].resp /\ conn'[c].cgiPending = conn[c].cgiPending
      /\ Active(Conn(c))' <=> Active(Conn(c))
      /\ Conn(c) \in rx'.handlers <=> Conn(c) \in rx.handlers
  BY <1>1 DEF Keeps
<1>3. Cgi(c) \in rx.handlers /\ (Active(Conn(c)) => cgi[c].fd = conn[c].fd)
  BY <1>1 DEF Active, ScriptHeld
<1>4. /\ rx'.handlers = rx.handlers /\ cgi'[c].fd = cgi[c].fd
      /\ child'[c].outOpen = child[c].outOpen
      /\ child'[c].st = child[c].st
           \/ (child[c].st = "zombie" /\ child'[c].st = "reaped" /\ ~child[c].outOpen)
      /\ child[c].outOpen => cgi'[c].pid = cgi[c].pid
  BY <1>1 DEF Idles, Collects, Eofs, Feeds, Errs, Empties, Finishes
<1>5. Active(Conn(c)) => \/ "WANT_WRITE" \in rx'.flags[Conn(c)]
                         \/ Active(Cgi(c))'
  BY <1>1, <1>3 DEF Idles, Collects, Eofs, Feeds, Errs, Finishes, Active, IsInactive
<1>6. /\ child'[c].outOpen => child'[c].st \in {"run", "killed"}
      /\ child'[c].st = "run" /\ ~EarlyClose => child'[c].outOpen
  BY <1>4 DEF ScriptHeld
<1>7. child'[c].st = "run" /\ child'[c].outOpen => cgi'[c].pid
  BY <1>4 DEF ScriptHeld
<1>8. Cgi(c) \in rx'.handlers BY <1>3, <1>4
<1>9. Conn(c) \in rx'.handlers => cgi'[c].fd = conn'[c].fd
  BY <1>1, <1>2, <1>3, <1>4 DEF ScriptHeld
<1>10. conn'[c].cgiPending => conn'[c].resp = "none" BY <1>2 DEF ScriptHeld
<1>11. Active(Conn(c))' => \/ "WANT_WRITE" \in rx'.flags[Conn(c)]
                          \/ Active(Cgi(c))'
  BY <1>2, <1>5
<1> QED BY <1>6, <1>7, <1>8, <1>9, <1>10, <1>11 DEF ScriptHeld

\* Handlers are deleted.
LEMMA DestroyHeld ==
  ASSUME TypeInv, SafeInv, AnswerInv, Sweep \/ Shutdown, NEW c \in Clients, ScriptHeld(c)
  PROVE  ScriptHeld(c)'
<1>1. /\ rx'.flags = rx.flags /\ rx'.handlers \subseteq rx.handlers
      /\ \A h \in rx.handlers \ rx'.handlers : IsInactive(rx, h) \/ rx'.handlers = {}
      /\ conn'[c] = IF Conn(c) \in rx'.handlers THEN conn[c] ELSE NoConn
      /\ Cgi(c) \in rx'.handlers => cgi'[c] = cgi[c]
      /\ child'[c].outOpen = child[c].outOpen
      /\ child'[c].st \in IF child[c].st # "run" THEN {child[c].st, "reaped"}
                          ELSE IF Cgi(c) \in rx.handlers \ rx'.handlers /\ cgi[c].pid
                                 THEN {"killed"} ELSE {"run"}
      /\ child[c].st \in {"none", "killed"} => child'[c].st = child[c].st
  BY DestroyView
<1>2. child'[c].outOpen => child'[c].st \in {"run", "killed"}
  BY <1>1 DEF ScriptHeld
<1>3. child'[c].st = "run" => child[c].st = "run" /\
        (child[c].outOpen => Cgi(c) \in rx'.handlers /\ cgi'[c].pid)
  BY <1>1 DEF ScriptHeld
<1>4. conn'[c].cgiPending => Conn(c) \in rx'.handlers BY <1>1 DEF NoConn
<1>5. Active(Conn(c))' /\ conn'[c].cgiPending /\ child'[c].st # "none" =>
        Active(Cgi(c))' \/ "WANT_WRITE" \in rx'.flags[Conn(c)]
  BY <1>1 DEF ScriptHeld, Active, IsInactive
<1> QED BY <1>1, <1>2, <1>3, <1>4, <1>5 DEF ScriptHeld

\* What a script does of its own.
LEMMA RunsHeld ==
  ASSUME TypeInv, SafeInv, NEW c \in Clients, Script(c), ScriptHeld(c)
  PROVE  ScriptHeld(c)'
<1>1. Runs(c) BY RunsView
<1>2. /\ Alone(c) /\ cgi'[c] = cgi[c] /\ rx'.handlers = rx.handlers /\ rx'.flags = rx.flags
  BY ScriptView
<1>3. conn'[c] = conn[c] BY <1>2 DEF Alone
<1>4. (Active(Cgi(c))' <=> Active(Cgi(c))) /\ (Active(Conn(c))' <=> Active(Conn(c)))
  BY <1>2 DEF Active, IsInactive
<1> QED BY <1>1, <1>2, <1>3, <1>4 DEF ScriptHeld, Runs, MayExit

\* A connection comes.
LEMMA AcceptHeld ==
  ASSUME TypeInv, SafeInv, SafeInv', AnswerInv, NEW c \in Clients, Accept(c), ScriptHeld(c)
  PROVE  ScriptHeld(c)'
<1>1. Rests(c) BY AcceptView
<1>2. Arrives(c) BY AcceptMove DEF AnswerInv
<1>3. peer[c].st = "queued" BY DEF Accept
<1>4. child[c].st = "none" /\ Cgi(c) \notin rx.handlers
  BY <1>3 DEF SafeInv, Fresh
<1> QED BY <1>1, <1>2, <1>4 DEF Rests, Arrives, ScriptHeld

\* Every step keeps a script held.
LEMMA NextHeld ==
  ASSUME TypeInv, SafeInv, SafeInv', AnswerInv, [Next]_vars, NEW c \in Clients,
         ScriptHeld(c)
  PROVE  ScriptHeld(c)'
<1>1. CASE Bystands(c) BY <1>1, RestingHeld DEF Bystands
<1>2. CASE EpollWait BY <1>2, EpollView, RestingHeld
<1>3. CASE \E e \in loop.batch : Works(e, c)
  BY <1>3, OwnHeld, StartHeld, HandlerHeld DEF Works
<1> QED BY <1>1, <1>2, <1>3, DestroyHeld, AcceptHeld, RunsHeld, NextViews

\* At the start there is no script and no connection.
LEMMA InitStates ==
  ASSUME Init, NEW c \in Clients
  PROVE  /\ conn[c] = NoConn /\ child[c] = NoChild /\ cgi[c] = NoCgi
         /\ rx.handlers = {Acceptor} /\ Conn(c) \notin rx.handlers /\ Cgi(c) \notin rx.handlers
         /\ rx.ptr[In(c)] = NoHandler /\ loop.batch = {}
<1>1. rx.handlers = {Acceptor} /\ rx.ptr[In(c)] = NoHandler
  BY NamesAreTyped, NamesDiffer DEF Init, InitReactor
<1> QED BY <1>1, NamesDiffer DEF Init

\* A script that still may write has a handler that would kill it, and whoever
\* waits for a script that was started has a handler to wake it, or has been woken.
THEOREM ScriptsAreHeld == Spec => []HeldInv
<1>1. Init => HeldInv
  <2> SUFFICES ASSUME Init, NEW c \in Clients PROVE ScriptHeld(c) BY DEF HeldInv
  <2>1. /\ child[c].st = "none" /\ ~child[c].outOpen
        /\ Conn(c) \notin rx.handlers /\ ~conn[c].cgiPending
    BY InitStates DEF NoConn, NoChild
  <2> QED BY <2>1 DEF ScriptHeld
<1>2. TypeInv /\ SafeInv /\ SafeInv' /\ AnswerInv /\ HeldInv /\ [Next]_vars => HeldInv'
  BY NextHeld DEF HeldInv
<1> QED BY <1>1, <1>2, Typing, Safety, Answers, PTL DEF Spec

\* After main() no handler and no descriptor is left, and no script that still may
\* write, however the event loop ended.
THEOREM ShutdownLeavesNothing == Spec => []ShutdownIsClean
<1>1. ASSUME SafeInv, NoDescriptorLeak, HeldInv PROVE ShutdownIsClean
  <2> SUFFICES ASSUME loop.pc = "gone"
               PROVE  /\ rx.handlers = {} /\ OpenFiles = {}
                      /\ \A c \in Clients : child[c].st = "run" => ~child[c].outOpen
    BY DEF ShutdownIsClean
  <2>1. rx.handlers = {} /\ rx.tab[ListenFd] = NoFile BY <1>1 DEF SafeInv, EndInv
  <2>2. ASSUME NEW fd \in Fd PROVE rx.tab[fd] = NoFile
    BY <1>1, <2>1 DEF NoDescriptorLeak
  <2>3. ASSUME NEW c \in Clients PROVE child[c].st = "run" => ~child[c].outOpen
    BY <1>1, <2>1 DEF HeldInv, ScriptHeld
  <2> QED BY <2>1, <2>2, <2>3 DEF OpenFiles
<1>2. SafeInv /\ NoDescriptorLeak /\ HeldInv => ShutdownIsClean BY <1>1
<1> QED BY <1>2, Safety, DescriptorsAreOwned, ScriptsAreHeld, PTL

-----------------------------------------------------------------------------
(* With descriptors for all no script fails to start.                      *)

\* Descriptors whose files are told apart by their clients are no more than these.
LEMMA OnePerClient ==
  ASSUME NEW A \in SUBSET Fd, NEW D \in SUBSET Clients, IsFiniteSet(D),
         \A g \in A : rx.tab[g].client \in D,
         \A g, h \in A : rx.tab[g].client = rx.tab[h].client => g = h
  PROVE  IsFiniteSet(A) /\ Cardinality(A) <= Cardinality(D)
<1> DEFINE f == [g \in A |-> rx.tab[g].client]
<1>1. f \in [A -> D] OBVIOUS
<1>2. \A g, h \in DOMAIN f : f[g] = f[h] => g = h OBVIOUS
<1>3. f \in Injection(A, D) BY <1>1, <1>2 DEF Injection, IsInjective
<1> QED BY <1>3, FS_Injection

\* A client costs three descriptors, its connection and the two pipes of its script;
\* before the script is started only one.
LEMMA DescriptorsSuffice ==
  ASSUME TypeInv, SafeInv, NEW c \in Clients, Cgi(c) \notin rx.handlers,
         IsFiniteSet(Clients), MaxFd >= 3 * Cardinality(Clients) + 3
  PROVE  Cardinality(FreeFds(rx)) >= 4
<1> DEFINE n == Cardinality(Clients)
           L == {g \in Fd : rx.tab[g] = Listening}
           S == {g \in Fd : rx.tab[g].end = "socket"}
           I == {g \in Fd : rx.tab[g].end = "stdin"}
           O == {g \in Fd : rx.tab[g].end = "stdout"}
           D == Clients \ {c}
<1>1. /\ \A d \in Clients : ConnWired(rx, d, conn[d].fd)
      /\ \A d \in Clients : /\ EndWired(rx, Cgi(d), In(d), cgi[d].inFd)
                            /\ EndWired(rx, Cgi(d), Out(d), cgi[d].outFd)
      /\ \A g \in Fd : rx.tab[g] = Listening => g = ListenFd
  BY DEF SafeInv, Wired, CgiWired
<1>2. \A g \in Fd : rx.tab[g] \in File \cup {NoFile} BY DEF TypeInv, Sane, ReactorState
<1>3. IsFiniteSet(D) /\ Cardinality(D) = n - 1 /\ n \in Nat
  BY FS_RemoveElement, FS_CardinalityType
<1>4. IsFiniteSet(S) /\ Cardinality(S) <= n
  <2>1. \A g \in S : rx.tab[g].client \in Clients /\ rx.tab[g] = Sock(rx.tab[g].client)
    BY <1>2 DEF File, Sock, NoFile
  <2>2. \A g, h \in S : rx.tab[g].client = rx.tab[h].client => g = h
    BY <1>1, <2>1 DEF ConnWired
  <2> QED BY <2>1, <2>2, OnePerClient
<1>5. IsFiniteSet(I) /\ Cardinality(I) <= n - 1
  <2>1. \A g \in I : rx.tab[g].client \in Clients /\ rx.tab[g] = In(rx.tab[g].client)
    BY <1>2 DEF File, In, NoFile
  <2>2. \A g \in I : rx.tab[g].client \in D BY <1>1, <2>1 DEF EndWired
  <2>3. \A g, h \in I : rx.tab[g].client = rx.tab[h].client => g = h
    BY <1>1, <2>1 DEF EndWired
  <2> QED BY <1>3, <2>2, <2>3, OnePerClient
<1>6. IsFiniteSet(O) /\ Cardinality(O) <= n - 1
  <2>1. \A g \in O : rx.tab[g].client \in Clients /\ rx.tab[g] = Out(rx.tab[g].client)
    BY <1>2 DEF File, Out, NoFile
  <2>2. \A g \in O : rx.tab[g].client \in D BY <1>1, <2>1 DEF EndWired
  <2>3. \A g, h \in O : rx.tab[g].client = rx.tab[h].client => g = h
    BY <1>1, <2>1 DEF EndWired
  <2> QED BY <1>3, <2>2, <2>3, OnePerClient
<1>7. IsFiniteSet(L) /\ Cardinality(L) <= 1
  <2>1. L \in SUBSET {ListenFd} BY <1>1
  <2>2. IsFiniteSet({ListenFd}) /\ Cardinality({ListenFd}) = 1 BY FS_Singleton
  <2> HIDE DEF L
  <2>3. IsFiniteSet(L) /\ Cardinality(L) <= Cardinality({ListenFd})
    BY <2>1, <2>2, FS_Subset
  <2> QED BY <2>2, <2>3
<1>8. Fd = FreeFds(rx) \cup ((L \cup S) \cup (I \cup O))
  BY <1>2 DEF FreeFds, File, Listening
<1>9. IsFiniteSet(Fd) /\ Cardinality(Fd) = MaxFd /\ MaxFd \in Nat
  BY ReactorAssumption, FS_Interval DEF Fd
<1>10. IsFiniteSet(FreeFds(rx)) BY <1>9, FS_Subset DEF FreeFds
<1> HIDE DEF L, S, I, O, D, n
<1>11. ASSUME NEW A, NEW B, IsFiniteSet(A), IsFiniteSet(B)
       PROVE  /\ IsFiniteSet(A \cup B)
              /\ Cardinality(A \cup B) <= Cardinality(A) + Cardinality(B)
              /\ Cardinality(A) \in Nat /\ Cardinality(B) \in Nat
              /\ Cardinality(A \cup B) \in Nat
  <2>1. IsFiniteSet(A \cap B) BY <1>11, FS_Intersection
  <2>2. Cardinality(A \cap B) \in Nat /\ Cardinality(A) \in Nat /\ Cardinality(B) \in Nat
    BY <1>11, <2>1, FS_CardinalityType
  <2>3. /\ IsFiniteSet(A \cup B)
        /\ Cardinality(A \cup B) = Cardinality(A) + Cardinality(B) - Cardinality(A \cap B)
    BY <1>11, FS_Union
  <2>4. Cardinality(A \cup B) \in Nat BY <2>3, FS_CardinalityType
  <2> QED BY <2>2, <2>3, <2>4
<1>12. IsFiniteSet(L \cup S) /\ Cardinality(L \cup S) <= n + 1
  BY <1>3, <1>4, <1>7, <1>11
<1>13. IsFiniteSet(I \cup O) /\ Cardinality(I \cup O) <= n + n - 2
  BY <1>3, <1>5, <1>6, <1>11
<1> DEFINE U == (L \cup S) \cup (I \cup O)
<1>14. IsFiniteSet(U) /\ Cardinality(U) <= n + n + n - 1
  <2> DEFINE x == Cardinality(L \cup S)
             y == Cardinality(I \cup O)
             z == Cardinality(U)
  <2>1. IsFiniteSet(U) /\ z <= x + y /\ x \in Nat /\ y \in Nat /\ z \in Nat
    BY <1>11, <1>12, <1>13
  <2>2. x <= n + 1 /\ y <= n + n - 2 BY <1>12, <1>13
  <2> HIDE DEF x, y
  <2>3. z <= n + n + n - 1
    <3> HIDE DEF z
    <3> QED BY <1>3, <2>1, <2>2
  <2> QED BY <2>1, <2>3
<1> HIDE DEF U
<1>15. Cardinality(Fd) <= Cardinality(FreeFds(rx)) + Cardinality(U)
  BY <1>8, <1>10, <1>11, <1>14 DEF U
<1>16. Cardinality(FreeFds(rx)) \in Nat /\ Cardinality(U) \in Nat
  BY <1>10, <1>14, FS_CardinalityType
<1>17. MaxFd >= 3 * n + 3 BY DEF n
<1> DEFINE u == Cardinality(U)
           f == Cardinality(FreeFds(rx))
<1>18. MaxFd <= f + u /\ u <= n + n + n - 1 BY <1>9, <1>14, <1>15
<1>19. f \in Nat /\ u \in Nat /\ n \in Nat /\ MaxFd \in Nat BY <1>3, <1>9, <1>16
<1> HIDE DEF f, u
<1>20. f >= 4 BY <1>17, <1>18, <1>19
<1> QED BY <1>20 DEF f

\* A connection that waits has had its script started.
LEMMA NextBegun ==
  ASSUME ~ForkFails, IsFiniteSet(Clients), MaxFd >= 3 * Cardinality(Clients) + 3,
         TypeInv, SafeInv, SafeInv', AnswerInv, [Next]_vars, NEW c \in Clients,
         conn[c].cgiPending => child[c].st # "none"
  PROVE  conn'[c].cgiPending => child'[c].st # "none"
<1>1. CASE Bystands(c) \/ EpollWait
  <2>1. Rests(c) /\ Alone(c) BY <1>1, EpollView DEF Bystands
  <2> QED BY <2>1 DEF Rests, Alone
<1>2. CASE \E e \in loop.batch : Works(e, c)
  <2>1. PICK e \in loop.batch : ConnectionStep(e, c) \/ CgiStep(e, c) BY <1>2 DEF Works
  <2>2. CASE StartCgi(e, c)
    <3>1. Starts(c) BY <2>2, StartView
    <3>2. child'[c].st = "run" BY <3>1 DEF Starts, NoChild
    <3> QED BY <3>2
  <2>3. CASE ConnectionStep(e, c) /\ ~StartCgi(e, c)
    <3>1. ~CgiFails(e, c)
      <4>1. SUFFICES ASSUME CgiFails(e, c) PROVE FALSE OBVIOUS
      <4>2. Cgi(c) \notin rx.handlers BY <4>1, CompletedHasNoScript DEF CgiFails
      <4>3. Cardinality(FreeFds(rx)) >= 4 BY <4>2, DescriptorsSuffice
      <4>4. Cardinality(FreeFds(rx)) \in Nat
        <5>1. IsFiniteSet(Fd) BY ReactorAssumption, FS_Interval DEF Fd
        <5>2. IsFiniteSet(FreeFds(rx)) BY <5>1, FS_Subset DEF FreeFds
        <5> QED BY <5>2, FS_CardinalityType
      <4>5. Cardinality(FreeFds(rx)) < 4 BY <4>1 DEF CgiFails
      <4> QED BY <4>3, <4>4, <4>5
    <3>2. /\ Rests(c)
          /\ \/ Idles(c) \/ Reads(c) \/ Responds(c) \/ CgiResponds(c) \/ Closes(c)
             \/ CutsOff(c)
      BY <2>3, <3>1, OwnView
    <3> QED BY <3>2 DEF Rests, Idles, Reads, Responds, CgiResponds, Closes, CutsOff, Ends
  <2>4. CASE CgiStep(e, c)
    <3>1. /\ Keeps(c)
          /\ \/ Idles(c) /\ UNCHANGED <<cgi, child>>
             \/ Collects(c) \/ Eofs(c) \/ Feeds(c) \/ Errs(c)
      BY <2>4, HandlerView
    <3> QED BY <3>1 DEF Keeps, Collects, Eofs, Feeds, Errs
  <2> QED BY <2>1, <2>2, <2>3, <2>4
<1>3. CASE Sweep \/ Shutdown
  <2>1. /\ conn'[c] = IF Conn(c) \in rx'.handlers THEN conn[c] ELSE NoConn
        /\ child'[c].st \in IF child[c].st # "run" THEN {child[c].st, "reaped"}
                            ELSE IF Cgi(c) \in rx.handlers \ rx'.handlers /\ cgi[c].pid
                                   THEN {"killed"} ELSE {"run"}
    BY <1>3, DestroyView
  <2> QED BY <2>1 DEF NoConn
<1>4. CASE Accept(c) BY <1>4, AcceptMove DEF AnswerInv, Arrives
<1>5. CASE Script(c)
  <2>1. Runs(c) /\ Alone(c) BY <1>5, RunsView, ScriptView
  <2> QED BY <2>1 DEF Runs, Alone
<1> QED BY <1>1, <1>2, <1>3, <1>4, <1>5, NextViews

\* A connection that waits for its script is woken: the script's handler is there to
\* wake it, or it has been woken.  fork() does not fail and there are descriptors for
\* everyone's connection and pipes; of a script that could not be started no one
\* would ever wake the connection.
THEOREM WaitersAreWoken ==
  ASSUME ~ForkFails, IsFiniteSet(Clients), MaxFd >= 3 * Cardinality(Clients) + 3
  PROVE  Spec => []WaiterIsWoken
<1>1. Init => BegunInv BY InitStates DEF BegunInv, NoConn
<1>2. TypeInv /\ SafeInv /\ SafeInv' /\ AnswerInv /\ BegunInv /\ [Next]_vars => BegunInv'
  BY NextBegun DEF BegunInv
<1>3. HeldInv /\ BegunInv => WaiterIsWoken
  BY DEF HeldInv, ScriptHeld, BegunInv, WaiterIsWoken
<1> QED BY <1>1, <1>2, <1>3, Typing, Safety, Answers, ScriptsAreHeld, PTL DEF Spec

-----------------------------------------------------------------------------
(* When no client resets, a connection and its script go together.         *)

\* What is counted is a number.
LEMMA CountsAreNumbers ==
  ASSUME TypeInv, NEW c \in Clients
  PROVE  conn[c].out \in Nat /\ child[c].outPipe \in Nat /\ child[c].wrote \in Nat
BY FieldsAreTyped, WebservAssumption DEF ConnState, ChildState

\* A script's handler that works has the descriptor of its own connection, which is
\* no other's: no other connection is woken by it.
LEMMA NoOtherWakes ==
  ASSUME SafeInv, HeldInv, AttachedInv, NEW c \in Clients
  PROVE  ~WokenByOther(c)
<1> SUFFICES ASSUME NEW d \in Clients \ {c}, Active(Cgi(d)), cgi[d].fd = conn[c].fd,
                    Active(Conn(c))
             PROVE  FALSE
  BY DEF WokenByOther, WokenBy
<1>1. Conn(d) \in rx.handlers /\ Cgi(d) \in rx.handlers /\ Conn(c) \in rx.handlers
  BY DEF AttachedInv, Attached, Active
<1>2. cgi[d].fd = conn[d].fd BY <1>1 DEF HeldInv, ScriptHeld
<1>3. \A b \in {c, d} : ConnWired(rx, b, conn[b].fd) BY DEF SafeInv, Wired
<1> QED BY <1>1, <1>2, <1>3, NamesDiffer DEF ConnWired

\* Bystanders stay attached.
LEMMA RestingAttached ==
  ASSUME NEW c \in Clients, Attached(c), Rests(c), Alone(c), ~WokenByOther(c), Shrinks
  PROVE  Attached(c)'
<1>1. /\ child'[c] = child[c] /\ conn'[c] = conn[c]
      /\ Active(Cgi(c))' <=> Active(Cgi(c))
      /\ Active(Conn(c))' <=> Active(Conn(c))
      /\ rx'.flags[Conn(c)] = rx.flags[Conn(c)]
  BY DEF Rests, Alone
<1> QED BY <1>1 DEF Attached, Shrinks, Responding

\* An event of a connection is one that its flags ask for, when its client has not
\* reset.
LEMMA NewConnEvents ==
  ASSUME TypeInv, SafeInv, NEW c \in Clients, ~peer[c].rst,
         Active(Conn(c)), NEW f \in rx.edge, rx.ptr[f] = Conn(c)
  PROVE  Reported(f) \subseteq ComputeEvents(rx.flags[Conn(c)])
<1>1. Wired(rx, conn, cgi) BY DEF SafeInv
<1>2. f \in File BY DEF TypeInv, Sane, ReactorState
<1>3. f = Sock(c) BY <1>1, <1>2, RegistrationIsOwn DEF TypeInv
<1>5. rx.mask[f] = ComputeEvents(rx.flags[Conn(c)])
  BY <1>1, <1>3 DEF Wired, ConnWired, Lives, Active
<1>6. f.end = "socket" /\ f.client = c BY <1>3 DEF Sock
<1>7. Poll(f) \cap {"ERR", "HUP"} = {} BY <1>6 DEF Poll
<1> QED BY <1>5, <1>7 DEF Reported

\* A new batch.
LEMMA EpollAttached ==
  ASSUME TypeInv, SafeInv, EpollWait, NEW c \in Clients, ~peer[c].rst, Attached(c)
  PROVE  Attached(c)'
<1>1. /\ Rests(c) /\ Alone(c) /\ rx'.flags = rx.flags
      /\ \A k \in loop'.batch : \E f \in rx.edge :
           k = [h |-> rx.ptr[f], ev |-> Reported(f)] /\ Reported(f) # {}
  BY EpollView
<1>2. /\ child'[c] = child[c] /\ conn'[c] = conn[c]
      /\ Active(Cgi(c))' <=> Active(Cgi(c))
      /\ Active(Conn(c))' <=> Active(Conn(c))
      /\ rx'.flags[Conn(c)] = rx.flags[Conn(c)]
  BY <1>1 DEF Rests, Alone
<1>3. ASSUME NEW k \in loop'.batch, k.h = Conn(c), Active(Conn(c))
      PROVE  k.ev # {} /\ k.ev \subseteq ComputeEvents(rx.flags[Conn(c)])
  <2>1. PICK f \in rx.edge :
          k = [h |-> rx.ptr[f], ev |-> Reported(f)] /\ Reported(f) # {}
    BY <1>1
  <2>2. rx.ptr[f] = Conn(c) /\ k.ev = Reported(f) BY <1>3, <2>1
  <2> QED BY <1>3, <2>1, <2>2, NewConnEvents
<1>4. ComputeEvents({}) = {} /\ "OUT" \notin ComputeEvents({"WANT_READ"})
  BY DEF ComputeEvents
<1> QED BY <1>2, <1>3, <1>4 DEF Attached, Responding

\* A method of the connection that starts no script: the script does not work.
LEMMA OwnAttached ==
  ASSUME TypeInv, SafeInv, AnswerInv, NEW e \in loop.batch, NEW c \in Clients,
         ConnectionStep(e, c), ~StartCgi(e, c), Handled(e), ScriptHeld(c), Attached(c)
  PROVE  Attached(c)'
<1>1. /\ Rests(c) /\ e.h = Conn(c)
      /\ \/ Idles(c) \/ Reads(c) \/ Responds(c) \/ CgiResponds(c) \/ Closes(c)
         \/ CutsOff(c) \/ Suspends(c)
  BY OwnView
<1>2. ~Active(Cgi(c)) /\ ~Active(Cgi(c))' /\ child'[c] = child[c]
  BY <1>1 DEF Attached, Rests
<1>3. Shrinks BY HandledShrinks
<1>4. Active(Conn(c))' /\ ~Responding(c)' =>
        /\ Active(Conn(c)) /\ ~Responding(c) /\ rx'.flags[Conn(c)] = rx.flags[Conn(c)]
  BY <1>1 DEF Responding, Idles, Reads, Responds, CgiResponds, Closes, CutsOff, Suspends,
     Ends, Goes, Active, IsInactive
<1>5. conn'[c].cgiPending /\ conn'[c].out # 0 => conn'[c] = conn[c]
  BY <1>1 DEF ScriptHeld, Idles, Reads, Responds, CgiResponds, Closes, CutsOff, Suspends, Ends
<1> QED BY <1>2, <1>3, <1>4, <1>5 DEF Attached, Shrinks

\* A script is started: the event that did it is used up.
LEMMA StartAttached ==
  ASSUME TypeInv, SafeInv, AnswerInv, NEW e \in loop.batch, NEW c \in Clients,
         StartCgi(e, c), Handled(e), Attached(c)
  PROVE  Attached(c)'
<1>1. Starts(c) /\ Suspends(c) /\ e.h = Conn(c) /\ IsRead(e) BY StartView
<1>2. /\ child'[c].outPipe = 0 /\ child'[c].wrote = 0 /\ Active(Cgi(c))'
  BY <1>1 DEF Starts, NoChild
<1>3. /\ Active(Conn(c)) /\ Active(Conn(c))' /\ conn'[c].cgiPending /\ ~Responding(c)
      /\ conn'[c].resp = "none" /\ conn'[c].out = 0 /\ rx'.flags[Conn(c)] = {}
  BY <1>1 DEF Suspends, Goes
<1>4. ASSUME NEW k \in loop'.batch, k.h = Conn(c) PROVE FALSE
  <2>1. "OUT" \notin e.ev BY <1>1, <1>3 DEF Attached
  <2>2. k \in loop.batch \ {e} BY <1>4, <2>1 DEF Handled, Rest
  <2> QED BY <1>1, <1>4, <2>2 DEF AnswerInv, Answering
<1> QED BY <1>2, <1>3, <1>4 DEF Attached, Responding

\* A method of the script's handler.
LEMMA HandlerAttached ==
  ASSUME TypeInv, SafeInv, NEW e \in loop.batch, NEW c \in Clients, CgiStep(e, c),
         Handled(e), Attached(c)
  PROVE  Attached(c)'
<1>1. /\ Active(Cgi(c)) /\ Keeps(c)
      /\ \/ Idles(c) /\ UNCHANGED <<cgi, child>>
         \/ Collects(c) \/ Eofs(c) \/ Feeds(c) \/ Errs(c)
  BY HandlerView
<1>2. /\ Active(Conn(c)) /\ Conn(c) \in rx.handlers /\ conn[c].cgiPending
      /\ conn[c].resp = "none" /\ rx.flags[Conn(c)] = {}
      /\ \A k \in loop.batch : k.h # Conn(c)
      /\ conn[c].out + child[c].outPipe = child[c].wrote
  BY <1>1 DEF Attached, Active
<1>3. /\ Active(Conn(c))' /\ conn'[c].cgiPending /\ conn'[c].resp = "none"
  BY <1>1, <1>2 DEF Keeps
<1>4. \A k \in loop'.batch : k.h # Conn(c) BY <1>2, HandledShrinks DEF Shrinks
<1>5. CASE (Idles(c) /\ UNCHANGED <<cgi, child>>) \/ Collects(c) \/ Feeds(c)
  <2>1. rx'.flags[Conn(c)] = {} /\ Active(Cgi(c))'
    BY <1>1, <1>2, <1>5 DEF Idles, Collects, Feeds, Active, IsInactive
  <2>2. conn'[c].out + child'[c].outPipe = child'[c].wrote
    <3>1. CASE Collects(c)
      <4>1. /\ conn'[c].out = conn[c].out + child[c].outPipe
            /\ child'[c].outPipe = 0 /\ child'[c].wrote = child[c].wrote
        BY <1>2, <3>1 DEF Collects, Empties
      <4> QED BY <1>2, <4>1, CountsAreNumbers
    <3>2. CASE Idles(c) /\ UNCHANGED <<cgi, child>> BY <1>2, <3>2 DEF Idles
    <3>3. CASE Feeds(c) BY <1>2, <3>3 DEF Feeds
    <3> QED BY <1>5, <3>1, <3>2, <3>3
  <2> QED BY <1>3, <1>4, <2>1, <2>2 DEF Attached, Responding
<1>6. CASE Eofs(c)
  <2>1. /\ ~Active(Cgi(c))' /\ ~child'[c].outOpen /\ conn'[c].out = child'[c].wrote
    BY <1>2, <1>6 DEF Eofs, Finishes, Empties
  <2> QED BY <1>3, <2>1 DEF Attached, Responding
<1>7. CASE Errs(c)
  <2>1. ~Active(Cgi(c))' /\ conn'[c].out = 0 BY <1>2, <1>7 DEF Errs, Finishes
  <2> QED BY <1>3, <2>1 DEF Attached, Responding
<1> QED BY <1>1, <1>5, <1>6, <1>7

\* Handlers are deleted: neither goes without the other, but at the end.
LEMMA DestroyAttached ==
  ASSUME TypeInv, SafeInv, AnswerInv, Sweep \/ Shutdown, NEW c \in Clients, Attached(c)
  PROVE  Attached(c)'
<1>1. /\ loop'.batch = {} /\ rx'.flags = rx.flags /\ rx'.handlers \subseteq rx.handlers
      /\ \A h \in rx.handlers \ rx'.handlers : IsInactive(rx, h) \/ rx'.handlers = {}
      /\ conn'[c] = IF Conn(c) \in rx'.handlers THEN conn[c] ELSE NoConn
      /\ child'[c].outOpen = child[c].outOpen /\ child'[c].wrote = child[c].wrote
      /\ child'[c].outPipe = child[c].outPipe
  BY DestroyView
<1>2. ASSUME Active(Cgi(c))' PROVE Active(Cgi(c)) /\ Active(Conn(c))'
  BY <1>1, <1>2 DEF Active, IsInactive, Attached
<1>3. ASSUME Active(Conn(c))' PROVE Active(Conn(c)) /\ conn'[c] = conn[c]
  BY <1>1, <1>3 DEF Active, IsInactive
<1>4. ASSUME conn'[c].cgiPending, ~Active(Cgi(c))'
      PROVE  ~Active(Cgi(c)) /\ conn'[c] = conn[c]
  <2>1. Conn(c) \in rx'.handlers /\ conn'[c] = conn[c] BY <1>1, <1>4 DEF NoConn
  <2> QED BY <1>1, <1>4, <2>1 DEF Active, IsInactive
<1>5. rx'.flags[Conn(c)] = rx.flags[Conn(c)] /\ \A k \in loop'.batch : FALSE BY <1>1
<1> QED BY <1>1, <1>2, <1>3, <1>4, <1>5 DEF Attached, Responding

\* A connection comes.
LEMMA AcceptAttached ==
  ASSUME TypeInv, SafeInv, SafeInv', AnswerInv, NEW c \in Clients, Accept(c), Attached(c)
  PROVE  Attached(c)'
<1>1. Rests(c) /\ Shrinks /\ rx'.flags = rx.flags BY AcceptView
<1>2. Arrives(c) BY AcceptMove DEF AnswerInv
<1>3. /\ child[c].st = "none" /\ Cgi(c) \notin rx.handlers
      /\ rx.flags[Conn(c)] = {"WANT_READ"}
  BY DEF Accept, SafeInv, Fresh
<1>4. \A k \in loop'.batch : k.h # Conn(c)
  BY <1>1, <1>2 DEF Shrinks, SafeInv, BatchInv, Arrives
<1>5. ~Active(Cgi(c))' BY <1>1, <1>3 DEF Rests, Active
<1> QED BY <1>1, <1>2, <1>3, <1>4, <1>5 DEF Attached, Arrives

\* What a script does of its own.
LEMMA RunsAttached ==
  ASSUME TypeInv, SafeInv, NEW c \in Clients, Script(c), Attached(c)
  PROVE  Attached(c)'
<1>1. Runs(c) BY RunsView
<1>2. /\ Alone(c) /\ Shrinks /\ rx'.handlers = rx.handlers /\ rx'.flags = rx.flags
  BY ScriptView
<1>3. conn'[c] = conn[c] BY <1>2 DEF Alone
<1>4. (Active(Cgi(c))' <=> Active(Cgi(c))) /\ (Active(Conn(c))' <=> Active(Conn(c)))
  BY <1>2 DEF Active, IsInactive
<1>5. conn[c].out + child[c].outPipe = child[c].wrote =>
        conn[c].out + child'[c].outPipe = child'[c].wrote
  BY <1>1, CountsAreNumbers DEF Runs
<1>6. ~child[c].outOpen => ~child'[c].outOpen /\ child'[c].wrote = child[c].wrote
  BY <1>1 DEF Runs
<1> QED BY <1>2, <1>3, <1>4, <1>5, <1>6 DEF Attached, Shrinks, Responding

\* A reset is not taken back.
LEMMA ResetsStay ==
  ASSUME TypeInv, SafeInv, SafeInv', AnswerInv, [Next]_vars, NoResetYet'
  PROVE  NoResetYet
<1> SUFFICES ASSUME NEW c \in Clients PROVE ~peer[c].rst BY DEF NoResetYet
<1>1. ~peer'[c].rst BY DEF NoResetYet
<1>2. peer[c] \in PeerState BY FieldsAreTyped
<1>3. CASE Keeps(c) BY <1>1, <1>3 DEF Keeps
<1>4. CASE OwnMove(c)
  BY <1>1, <1>2, <1>4 DEF OwnMove, Reads, Responds, Suspends, CgiResponds, Closes, CutsOff,
     Goes, PeerState
<1>5. CASE Leaves(c) \/ Arrives(c) BY <1>1, <1>2, <1>5 DEF Leaves, Arrives, PeerState
<1>6. CASE Says(c) BY <1>1, <1>2, <1>6 DEF Says, PeerState
<1> QED BY <1>3, <1>4, <1>5, <1>6, NextMoves DEF Moves

\* Every step keeps them attached.
LEMMA NextAttached ==
  ASSUME NoResetYet, TypeInv, SafeInv, SafeInv', AnswerInv, HeldInv, AttachedInv,
         [Next]_vars, NEW c \in Clients
  PROVE  Attached(c)'
<1>1. Attached(c) /\ ScriptHeld(c) /\ ~peer[c].rst BY DEF AttachedInv, HeldInv, NoResetYet
<1>2. CASE Bystands(c) BY <1>1, <1>2, NoOtherWakes, RestingAttached DEF Bystands
<1>3. CASE \E e \in loop.batch : Works(e, c)
  BY <1>1, <1>3, OwnAttached, StartAttached, HandlerAttached DEF Works
<1> QED BY <1>1, <1>2, <1>3, EpollAttached, DestroyAttached, AcceptAttached, RunsAttached,
     NextViews

\* Until a client resets, a connection sleeps while its script's handler works and has
\* all of the output but what is still in the pipe.
THEOREM ScriptsAreAttached == Spec => [](NoResetYet => AttachedInv)
<1>1. Init => AttachedInv
  <2> SUFFICES ASSUME Init, NEW c \in Clients PROVE Attached(c) BY DEF AttachedInv
  <2>1. ~Active(Cgi(c)) /\ ~Active(Conn(c)) /\ ~conn[c].cgiPending
    BY InitStates DEF NoConn, Active
  <2> QED BY <2>1 DEF Attached
<1>2. TypeInv /\ SafeInv /\ SafeInv' /\ AnswerInv /\ HeldInv /\ (NoResetYet => AttachedInv)
        /\ [Next]_vars => (NoResetYet => AttachedInv)'
  BY NextAttached, ResetsStay DEF AttachedInv
<1> QED BY <1>1, <1>2, Typing, Safety, Answers, ScriptsAreHeld, PTL DEF Spec

\* Clients that never reset have not reset.
LEMMA NobodyResets == ASSUME Resetting = {}, AnswerInv PROVE NoResetYet
BY DEF AnswerInv, Answering, NoResetYet

\* Until a client resets, no connection is deleted while its script's handler works.
THEOREM OrphansNeedResets == Spec => []OrphanNeedsReset
<1>1. (NoResetYet => AttachedInv) => OrphanNeedsReset
  BY DEF NoResetYet, AttachedInv, Attached, OrphanNeedsReset, OwnerOutlivesCgi, Active
<1> QED BY <1>1, ScriptsAreAttached, PTL

\* Who finishes a script's handler makes no other connection write, but one that has
\* the descriptor number of the script's own connection, which is deleted.
LEMMA ForeignWakeStep ==
  ASSUME TypeInv, SafeInv, SafeInv', AnswerInv, HeldInv, [Next]_vars,
         NEW c \in Clients, NEW d \in Clients, WakesForeign(c, d)
  PROVE  Conn(d) \notin rx.handlers /\ conn[c].fd = cgi[d].fd
<1>1. /\ c # d /\ Active(Cgi(d)) /\ ~Active(Cgi(d))' /\ ~Rests(d)
      /\ rx'.flags[Conn(c)] # rx.flags[Conn(c)]
  BY DEF WakesForeign, Rests
<1>2. ~(Sweep \/ Shutdown) BY <1>1, DestroyView
<1>3. ~Script(d) BY <1>1, ScriptView
<1>4. CASE \E e \in loop.batch : Works(e, d)
  <2>1. PICK e \in loop.batch : ConnectionStep(e, d) \/ CgiStep(e, d) BY <1>4 DEF Works
  <2>2. CASE ConnectionStep(e, d)
    BY <1>1, <2>2, ConnectionStepView, StartView DEF Starts
  <2>3. CASE CgiStep(e, d)
    <3>1. Active(Conn(c)) /\ cgi[d].fd = conn[c].fd
      BY <1>1, <2>3, CgiStepView DEF WokenBy
    <3>2. ASSUME Conn(d) \in rx.handlers PROVE FALSE
      <4>1. conn[d].fd = conn[c].fd BY <1>1, <3>1, <3>2 DEF HeldInv, ScriptHeld, Active
      <4>2. \A b \in {c, d} : ConnWired(rx, b, conn[b].fd) BY DEF SafeInv, Wired
      <4>3. Conn(c) \in rx.handlers BY <3>1 DEF Active
      <4> QED BY <1>1, <3>2, <4>1, <4>2, <4>3, NamesDiffer DEF ConnWired
    <3> QED BY <3>1, <3>2
  <2> QED BY <2>1, <2>2, <2>3
<1>5. CASE Bystands(d) \/ EpollWait \/ Accept(d)
  BY <1>1, <1>5, EpollView, AcceptView DEF Bystands
<1> QED BY <1>2, <1>3, <1>4, <1>5, NextViews

\* A script wakes another connection only after its own has been deleted and the other
\* one has got the descriptor number.
THEOREM ForeignWakesNeedOrphans == Spec => ForeignWakeNeedsOrphan
<1>1. TypeInv /\ SafeInv /\ SafeInv' /\ AnswerInv /\ HeldInv /\ [Next]_vars =>
        [\A c, d \in Clients : WakesForeign(c, d) =>
           Conn(d) \notin rx.handlers /\ conn[c].fd = cgi[d].fd]_vars
  BY ForeignWakeStep
<1> QED BY <1>1, Typing, Safety, Answers, ScriptsAreHeld, PTL
     DEF Spec, ForeignWakeNeedsOrphan

\* A response made of a script's output has all of it.
LEMMA CgiAnswerStep ==
  ASSUME TypeInv, SafeInv, SafeInv', AnswerInv, HeldInv, AttachedInv, [Next]_vars,
         NEW c \in Clients, conn[c].resp = "none", conn'[c].resp = "cgi"
  PROVE  ~child[c].outOpen /\ conn[c].out = child[c].wrote
<1>1. CASE \E e \in loop.batch : Works(e, c)
  <2>1. PICK e \in loop.batch : ConnectionStep(e, c) \/ CgiStep(e, c) BY <1>1 DEF Works
  <2>2. CASE StartCgi(e, c) BY <2>2, StartView DEF Suspends
  <2>3. CASE CgiStep(e, c) BY <2>3, HandlerView DEF Keeps
  <2>4. CASE ConnectionStep(e, c) /\ ~StartCgi(e, c)
    <3>1. /\ e.h = Conn(c)
          /\ \/ Idles(c) \/ Reads(c) \/ Responds(c) \/ CgiResponds(c) \/ Closes(c)
             \/ CutsOff(c) \/ Suspends(c)
      BY <2>4, OwnView
    <3>2. conn[c].cgiPending /\ conn[c].out # 0
      BY <3>1 DEF Idles, Reads, Responds, CgiResponds, Closes, CutsOff, Suspends
    <3>3. ~Active(Cgi(c)) BY <3>1 DEF AttachedInv, Attached
    <3> QED BY <3>2, <3>3 DEF AttachedInv, Attached
  <2> QED BY <2>1, <2>2, <2>3, <2>4
<1>2. CASE Bystands(c) \/ EpollWait \/ Script(c)
  <2>1. Alone(c) BY <1>2, EpollView, ScriptView DEF Bystands
  <2> QED BY <2>1 DEF Alone
<1>3. CASE Sweep \/ Shutdown
  <2>1. conn'[c] = IF Conn(c) \in rx'.handlers THEN conn[c] ELSE NoConn
    BY <1>3, DestroyView
  <2> QED BY <2>1 DEF NoConn
<1>4. CASE Accept(c) BY <1>4, AcceptMove DEF AnswerInv, Arrives
<1> QED BY <1>1, <1>2, <1>3, <1>4, NextViews

\* When no client resets, the output of a script becomes a response only when the
\* script has closed it and all of it has been collected.
THEOREM CgiAnswersAreComplete == ASSUME Resetting = {} PROVE Spec => CgiAnswerIsComplete
<1>1. TypeInv /\ SafeInv /\ SafeInv' /\ AnswerInv /\ HeldInv /\ AttachedInv /\ [Next]_vars =>
        [\A c \in Clients :
           conn[c].resp = "none" /\ conn'[c].resp = "cgi" =>
             /\ ~child[c].outOpen
             /\ conn[c].out = child[c].wrote]_vars
  BY CgiAnswerStep
<1>2. AnswerInv => NoResetYet BY NobodyResets
<1> QED BY <1>1, <1>2, Typing, Safety, Answers, ScriptsAreHeld, ScriptsAreAttached, PTL
     DEF Spec, CgiAnswerIsComplete

-----------------------------------------------------------------------------
(* Scripts that read all their input leave nothing of their handlers.      *)

\* Bystanders, and the script when its connection moves.
LEMMA RestingDutied ==
  ASSUME NEW c \in Clients, Dutied(c), Rests(c), Shrinks
  PROVE  Dutied(c)'
<1>1. /\ child'[c] = child[c] /\ cgi'[c] = cgi[c]
      /\ Cgi(c) \in rx'.handlers <=> Cgi(c) \in rx.handlers
      /\ Active(Cgi(c))' <=> Active(Cgi(c))
      /\ rx'.ptr[In(c)] \in {rx.ptr[In(c)], NoHandler}
  BY DEF Rests
<1> QED BY <1>1 DEF Dutied, Shrinks

\* A new batch: the input pipe of a script that is gone is closed.
LEMMA EpollDutied ==
  ASSUME TypeInv, SafeInv, EpollWait, NEW c \in Clients, ScriptHeld(c), Dutied(c)
  PROVE  Dutied(c)'
<1>1. /\ Rests(c) /\ rx'.ptr = rx.ptr
      /\ \A k \in loop'.batch : \E f \in rx.edge :
           k = [h |-> rx.ptr[f], ev |-> Reported(f)] /\ Reported(f) # {}
  BY EpollView
<1>2. Wired(rx, conn, cgi) /\ CgiWired(rx, c, cgi[c].inFd, cgi[c].outFd)
  BY DEF SafeInv, Wired
<1>3. ASSUME NEW k \in loop'.batch, k.h = Cgi(c)
      PROVE  Cgi(c) \in rx.handlers /\ "ERR" \notin k.ev
  <2>1. PICK f \in rx.edge :
          k = [h |-> rx.ptr[f], ev |-> Reported(f)] /\ Reported(f) # {}
    BY <1>1
  <2>2. rx.ptr[f] = Cgi(c) /\ k.ev = Reported(f) BY <1>3, <2>1
  <2>3. f \in File /\ Sane(rx) BY DEF TypeInv, Sane, ReactorState
  <2>4. f = In(c) \/ f = Out(c) BY <1>2, <2>2, <2>3, RegistrationIsOwn
  <2>5. rx.ptr[f] # NoHandler BY <2>2, NamesDiffer
  <2>6. Cgi(c) \in rx.handlers BY <1>2, <2>4, <2>5 DEF CgiWired, Dutied
  <2>7. CASE f = In(c)
    <3>1. f.end = "stdin" /\ f.client = c BY <2>7 DEF In
    <3>2. cgi[c].inFd # NoFd BY <1>2, <2>5, <2>6, <2>7 DEF CgiWired, EndWired
    <3>3. Alive(c) BY <2>6, <3>2 DEF Dutied, ScriptHeld, Alive
    <3>4. "ERR" \notin Poll(f) BY <3>1, <3>3 DEF Poll
    <3> QED BY <2>2, <2>6, <3>4 DEF Reported
  <2>8. CASE f = Out(c)
    <3>1. f.end = "stdout" BY <2>8 DEF Out
    <3>2. "ERR" \notin Poll(f) BY <3>1 DEF Poll
    <3> QED BY <2>2, <2>6, <3>2 DEF Reported
  <2> QED BY <2>4, <2>7, <2>8
<1>4. /\ child'[c] = child[c] /\ cgi'[c] = cgi[c]
      /\ Cgi(c) \in rx'.handlers <=> Cgi(c) \in rx.handlers
      /\ Active(Cgi(c))' <=> Active(Cgi(c))
  BY <1>1 DEF Rests
<1> QED BY <1>1, <1>3, <1>4 DEF Dutied

\* A script is started.
LEMMA StartDutied ==
  ASSUME TypeInv, SafeInv, AnswerInv, NEW e \in loop.batch, NEW c \in Clients,
         StartCgi(e, c), Handled(e)
  PROVE  Dutied(c)'
<1>1. Starts(c) /\ \A d \in loop.batch : d.h # Cgi(c) BY StartView
<1>2. child'[c].st = "run" /\ child'[c].outOpen /\ Active(Cgi(c))'
  BY <1>1 DEF Starts, NoChild
<1>3. \A k \in loop'.batch : k.h # Cgi(c) BY <1>1, HandledShrinks DEF Shrinks
<1>4. Cgi(c) \in rx'.handlers BY <1>2 DEF Active
<1> QED BY <1>2, <1>3, <1>4 DEF Dutied

\* A method of the script's handler.
LEMMA HandlerDutied ==
  ASSUME TypeInv, SafeInv, NEW e \in loop.batch, NEW c \in Clients, CgiStep(e, c),
         Handled(e), Dutied(c)
  PROVE  Dutied(c)'
<1>1. /\ e.h = Cgi(c) /\ Active(Cgi(c))
      /\ \/ Idles(c) /\ UNCHANGED <<cgi, child>>
         \/ Collects(c) \/ Eofs(c) \/ Feeds(c) \/ (Errs(c) /\ "ERR" \in e.ev)
  BY HandlerView
<1>2. "ERR" \notin e.ev /\ Cgi(c) \in rx.handlers /\ child[c].st # "killed"
  BY <1>1 DEF Dutied, Active
<1>3. \A k \in loop'.batch : k.h = Cgi(c) => "ERR" \notin k.ev
  BY HandledShrinks DEF Shrinks, Dutied
<1>4. Cgi(c) \in rx'.handlers /\ child'[c].st # "killed"
  BY <1>1, <1>2 DEF Idles, Collects, Eofs, Feeds, Finishes
<1>5. ~child'[c].outOpen \/ ~Active(Cgi(c))' => cgi'[c].inFd = NoFd
  BY <1>1, <1>2 DEF Dutied, Idles, Collects, Eofs, Feeds, Empties, Active, IsInactive
<1> QED BY <1>3, <1>4, <1>5 DEF Dutied

\* Handlers are deleted, at the end or when they have closed their ends of the pipes.
LEMMA DestroyDutied ==
  ASSUME TypeInv, SafeInv, AnswerInv, Sweep \/ Shutdown, NEW c \in Clients, Dutied(c)
  PROVE  Dutied(c)'
<1>1. /\ loop'.batch = {} /\ rx'.flags = rx.flags /\ rx'.handlers \subseteq rx.handlers
      /\ \A h \in rx.handlers \ rx'.handlers : IsInactive(rx, h) \/ rx'.handlers = {}
      /\ rx'.ptr[In(c)] \in {rx.ptr[In(c)], NoHandler}
      /\ rx'.handlers = {} => rx'.ptr[In(c)] = NoHandler
      /\ Cgi(c) \in rx'.handlers => cgi'[c] = cgi[c]
      /\ child'[c].outOpen = child[c].outOpen
      /\ child'[c].st \in IF child[c].st # "run" THEN {child[c].st, "reaped"}
                          ELSE IF Cgi(c) \in rx.handlers \ rx'.handlers /\ cgi[c].pid
                                 THEN {"killed"} ELSE {"run"}
  BY DestroyView
<1>2. EndWired(rx, Cgi(c), In(c), cgi[c].inFd) BY DEF SafeInv, Wired, CgiWired
<1>3. Cgi(c) \in rx'.handlers =>
        Cgi(c) \in rx.handlers /\ (Active(Cgi(c))' <=> Active(Cgi(c)))
  BY <1>1 DEF Active, IsInactive
<1>4. ASSUME Cgi(c) \notin rx'.handlers PROVE rx'.ptr[In(c)] = NoHandler
  <2>1. CASE Cgi(c) \notin rx.handlers BY <1>1, <2>1 DEF Dutied
  <2>2. CASE Cgi(c) \in rx.handlers /\ IsInactive(rx, Cgi(c))
    <3>1. cgi[c].inFd = NoFd BY <2>2 DEF Dutied, Active
    <3>2. rx.ptr[In(c)] = NoHandler BY <1>2, <2>2, <3>1 DEF EndWired
    <3> QED BY <1>1, <3>2
  <2> QED BY <1>1, <1>4, <2>1, <2>2
<1>5. child'[c].st = "killed" => Cgi(c) \notin rx'.handlers BY <1>1 DEF Dutied
<1>6. ~child'[c].outOpen => ~child[c].outOpen BY <1>1
<1> QED BY <1>1, <1>3, <1>4, <1>5, <1>6 DEF Dutied

\* What a script does of its own: one that reads all its input exits after the pipe
\* is closed, and takes its output along.
LEMMA RunsDutied ==
  ASSUME Dutiful, ~EarlyClose, TypeInv, SafeInv, NEW c \in Clients, Script(c), Dutied(c)
  PROVE  Dutied(c)'
<1>1. Runs(c) BY RunsView
<1>2. /\ Shrinks /\ cgi'[c] = cgi[c] /\ rx'.handlers = rx.handlers /\ rx'.flags = rx.flags
      /\ rx'.ptr[In(c)] \in {rx.ptr[In(c)], NoHandler}
  BY ScriptView
<1>3. EndWired(rx, Cgi(c), In(c), cgi[c].inFd) BY DEF SafeInv, Wired, CgiWired
<1>4. Active(Cgi(c))' <=> Active(Cgi(c)) BY <1>2 DEF Active, IsInactive
<1>5. ASSUME Cgi(c) \in rx.handlers, StdinEof(c) PROVE cgi[c].inFd = NoFd
  <2>1. SUFFICES ASSUME cgi[c].inFd # NoFd PROVE FALSE OBVIOUS
  <2>2. cgi[c].inFd \in Fd /\ rx.tab[cgi[c].inFd] = In(c)
    BY <1>3, <1>5, <2>1 DEF EndWired
  <2> QED BY <1>5, <2>2, NamesDiffer DEF StdinEof, OpenFiles
<1>6. ASSUME Cgi(c) \in rx.handlers, ~child'[c].outOpen
      PROVE  ~child[c].outOpen \/ cgi[c].inFd = NoFd
  BY <1>1, <1>5, <1>6 DEF Runs, MayExit, Dutied
<1>7. child'[c].st # "killed" BY <1>1 DEF Runs
<1> QED BY <1>2, <1>4, <1>6, <1>7 DEF Dutied, Shrinks

\* Every step keeps them so.
LEMMA NextDutied ==
  ASSUME Dutiful, ~EarlyClose, TypeInv, SafeInv, SafeInv', AnswerInv, [Next]_vars,
         NEW c \in Clients, ScriptHeld(c), Dutied(c)
  PROVE  Dutied(c)'
<1>1. CASE Bystands(c) BY <1>1, RestingDutied DEF Bystands
<1>2. CASE \E e \in loop.batch : Works(e, c)
  <2>1. PICK e \in loop.batch : Handled(e) /\ (ConnectionStep(e, c) \/ CgiStep(e, c))
    BY <1>2 DEF Works
  <2>2. CASE ConnectionStep(e, c) /\ ~StartCgi(e, c)
    BY <2>1, <2>2, ConnectionStepView, HandledShrinks, RestingDutied
  <2> QED BY <2>1, <2>2, StartDutied, HandlerDutied
<1>3. CASE Accept(c) BY <1>3, AcceptView, RestingDutied
<1> QED BY <1>1, <1>2, <1>3, EpollDutied, DestroyDutied, RunsDutied, NextViews

\* When scripts read all their input before they exit, a handler that is finished has
\* closed its end of the input, and errors of that pipe are never reported.
THEOREM ScriptsAreDutied == ASSUME Dutiful, ~EarlyClose PROVE Spec => []DutiedInv
<1>1. Init => DutiedInv
  <2> SUFFICES ASSUME Init, NEW c \in Clients PROVE Dutied(c) BY DEF DutiedInv
  <2>1. /\ Cgi(c) \notin rx.handlers /\ rx.ptr[In(c)] = NoHandler
        /\ loop.batch = {} /\ child[c].st = "none"
    BY InitStates DEF NoChild
  <2> QED BY <2>1 DEF Dutied
<1>2. TypeInv /\ SafeInv /\ SafeInv' /\ AnswerInv /\ HeldInv /\ DutiedInv /\ [Next]_vars
        => DutiedInv'
  BY NextDutied DEF HeldInv, DutiedInv
<1> QED BY <1>1, <1>2, Typing, Safety, Answers, ScriptsAreHeld, PTL DEF Spec

\* Nothing that is still to be handled points to a script's handler that is deleted,
\* when scripts read all their input.
THEOREM ScriptsDoNotDangle == ASSUME Dutiful, ~EarlyClose PROVE Spec => []CgiNeverDangles
<1>1. SafeInv /\ DutiedInv => CgiNeverDangles
  BY DEF SafeInv, Wired, CgiWired, DutiedInv, Dutied, CgiNeverDangles
<1> QED BY <1>1, Safety, ScriptsAreDutied, PTL

-----------------------------------------------------------------------------
(* The response is the one asked for.                                      *)

\* What a client has asked for stays; it gives up early only if it may, and what it is
\* given is its connection's response or a part of it.
LEMMA PeerView ==
  ASSUME TypeInv, SafeInv, SafeInv', AnswerInv, [Next]_vars, NEW c \in Clients
  PROVE  /\ peer'[c].kind = peer[c].kind
         /\ peer'[c].fin => peer[c].fin \/ c \in Finning
         /\ \/ peer'[c].reply \in {peer[c].reply, "part"}
            \/ peer'[c].reply = conn[c].resp /\ Closes(c)
<1>1. peer[c] \in PeerState BY FieldsAreTyped
<1>2. CASE Closes(c)
  <2> DEFINE p == [peer[c] EXCEPT !.reply = conn[c].resp]
  <2>1. p.kind = peer[c].kind /\ p.fin = peer[c].fin /\ p.reply = conn[c].resp
    BY <1>1 DEF PeerState
  <2> HIDE DEF p
  <2>2. peer'[c] = p BY <1>2 DEF Closes, p
  <2> QED BY <1>2, <2>1, <2>2
<1>3. CASE CutsOff(c)
  <2> DEFINE p == [peer[c] EXCEPT !.reply = "part"]
  <2>1. p.kind = peer[c].kind /\ p.fin = peer[c].fin /\ p.reply = "part"
    BY <1>1 DEF PeerState
  <2> HIDE DEF p
  <2>2. peer'[c] = p \/ peer'[c] = peer[c] BY <1>3 DEF CutsOff, p
  <2> QED BY <2>1, <2>2
<1>4. CASE Reads(c) \/ Responds(c) \/ Suspends(c) \/ CgiResponds(c) \/ Keeps(c)
  <2>1. peer'[c] = peer[c]
    BY <1>4 DEF Reads, Responds, Suspends, CgiResponds, Keeps, Goes
  <2> QED BY <2>1
<1>5. CASE Arrives(c) \/ Leaves(c)
  <2>1. PICK st : peer'[c] = [peer[c] EXCEPT !.st = st] BY <1>5 DEF Arrives, Leaves
  <2> QED BY <1>1, <2>1 DEF PeerState
<1>6. CASE Says(c)
  <2>1. \/ \E x : peer'[c] = [peer[c] EXCEPT !.st = x]
        \/ \E x : peer'[c] = [peer[c] EXCEPT !.sent = x]
        \/ c \in Finning /\ peer'[c] = [peer[c] EXCEPT !.fin = TRUE]
        \/ peer'[c] = [peer[c] EXCEPT !.rst = TRUE]
    BY <1>6 DEF Says
  <2>2. ASSUME NEW x, peer'[c] = [peer[c] EXCEPT !.st = x]
        PROVE  /\ peer'[c].kind = peer[c].kind /\ peer'[c].fin = peer[c].fin
               /\ peer'[c].reply = peer[c].reply
    BY <1>1, <2>2 DEF PeerState
  <2>3. ASSUME NEW x, peer'[c] = [peer[c] EXCEPT !.sent = x]
        PROVE  /\ peer'[c].kind = peer[c].kind /\ peer'[c].fin = peer[c].fin
               /\ peer'[c].reply = peer[c].reply
    BY <1>1, <2>3 DEF PeerState
  <2>4. ASSUME peer'[c] = [peer[c] EXCEPT !.fin = TRUE]
        PROVE  peer'[c].kind = peer[c].kind /\ peer'[c].reply = peer[c].reply
    BY <1>1, <2>4 DEF PeerState
  <2>5. ASSUME peer'[c] = [peer[c] EXCEPT !.rst = TRUE]
        PROVE  /\ peer'[c].kind = peer[c].kind /\ peer'[c].fin = peer[c].fin
               /\ peer'[c].reply = peer[c].reply
    BY <1>1, <2>5 DEF PeerState
  <2> QED BY <2>1, <2>2, <2>3, <2>4, <2>5
<1> QED BY <1>2, <1>3, <1>4, <1>5, <1>6, NextMoves DEF Moves, OwnMove

\* The script that has closed its output has written all it ever will.
Settled(c) == ~child[c].outOpen => ~child'[c].outOpen /\ child'[c].wrote = child[c].wrote

\* c's connection starts its script.
StartsCgi(c) == \E e \in loop.batch : StartCgi(e, c) /\ Handled(e)

\* That is the only step after which a script without output may have some.
LEMMA SettledStep ==
  ASSUME TypeInv, SafeInv, SafeInv', AnswerInv, [Next]_vars, NEW c \in Clients
  PROVE  Settled(c) \/ StartsCgi(c)
<1>1. CASE Bystands(c) \/ EpollWait \/ Accept(c)
  <2>1. Rests(c) BY <1>1, EpollView, AcceptView DEF Bystands
  <2> QED BY <2>1 DEF Rests, Settled
<1>2. CASE Sweep \/ Shutdown BY <1>2, DestroyView DEF Settled
<1>3. CASE Script(c) BY <1>3, RunsView DEF Runs, Settled
<1>4. CASE \E e \in loop.batch : Works(e, c)
  <2>1. PICK e \in loop.batch : Handled(e) /\ (ConnectionStep(e, c) \/ CgiStep(e, c))
    BY <1>4 DEF Works
  <2>2. CASE ConnectionStep(e, c) /\ ~StartCgi(e, c)
    <3>1. Rests(c) BY <2>2, OwnView
    <3> QED BY <3>1 DEF Rests, Settled
  <2>3. CASE StartCgi(e, c) BY <2>1, <2>3 DEF StartsCgi
  <2>4. CASE CgiStep(e, c)
    <3>1. \/ Idles(c) /\ UNCHANGED <<cgi, child>>
          \/ Collects(c) \/ Eofs(c) \/ Feeds(c) \/ Errs(c)
      BY <2>4, HandlerView
    <3> QED BY <3>1 DEF Collects, Eofs, Feeds, Errs, Empties, Settled
  <2> QED BY <2>1, <2>2, <2>3, <2>4
<1> QED BY <1>1, <1>2, <1>3, <1>4, NextViews

\* b is the response to what c asked for, after the step.
MatchesAfter(c, b) ==
  /\ b = "page" => peer'[c].kind = "static"
  /\ b = "error" => \/ peer'[c].kind = "bad"
                    \/ /\ peer'[c].kind \in {"cgi", "cgiBody"}
                       /\ ~child'[c].outOpen /\ child'[c].wrote = 0
  /\ b = "cgi" => /\ peer'[c].kind \in {"cgi", "cgiBody"}
                  /\ ~child'[c].outOpen /\ child'[c].wrote > 0

\* What was the right response stays so.
LEMMA StillMatches ==
  ASSUME NEW c \in Clients, NEW b, Matches(c, b), peer'[c].kind = peer[c].kind,
         Settled(c) \/ b = "none"
  PROVE  MatchesAfter(c, b)
BY DEF Matches, MatchesAfter, Settled

\* An event of a connection is none to one that reads on its way to be suspended.
LEMMA SuspendedHasNoEvents ==
  ASSUME TypeInv, AnswerInv, NEW e \in loop.batch, NEW c \in Clients, Handled(e),
         e.h = Conn(c), Active(Conn(c)), IsRead(e), Attached(c), ~Responding(c)
  PROVE  \A k \in loop'.batch : k.h # Conn(c)
<1>1. "OUT" \notin e.ev BY DEF Attached
<1>2. \A k \in loop'.batch : k \in loop.batch /\ k # e BY <1>1 DEF Handled, Rest
<1> QED BY <1>2 DEF AnswerInv, Answering

\* Bystanders.
LEMMA RestingRight ==
  ASSUME NEW c \in Clients, Right(c), Rests(c), Alone(c), ~WokenByOther(c), Shrinks,
         peer'[c].kind = peer[c].kind
  PROVE  Waits(c)' /\ MatchesAfter(c, conn'[c].resp)
<1>1. /\ child'[c] = child[c] /\ conn'[c] = conn[c]
      /\ Active(Cgi(c))' <=> Active(Cgi(c))
      /\ rx'.flags[Conn(c)] = rx.flags[Conn(c)]
  BY DEF Rests, Alone
<1>2. Waits(c)' BY <1>1 DEF Right, Waits, Shrinks
<1>3. MatchesAfter(c, conn[c].resp) BY <1>1, StillMatches DEF Right, Settled
<1> QED BY <1>1, <1>2, <1>3

\* A new batch: nothing is reported to a connection that is not to be woken.
LEMMA EpollRight ==
  ASSUME TypeInv, SafeInv, AnswerInv, Resetting = {}, EpollWait, NEW c \in Clients,
         Right(c), peer'[c].kind = peer[c].kind
  PROVE  Waits(c)' /\ MatchesAfter(c, conn'[c].resp)
<1>1. /\ Rests(c) /\ Alone(c) /\ rx'.flags = rx.flags
      /\ \A k \in loop'.batch : \E f \in rx.edge :
           k = [h |-> rx.ptr[f], ev |-> Reported(f)] /\ Reported(f) # {}
  BY EpollView
<1>2. /\ child'[c] = child[c] /\ conn'[c] = conn[c]
      /\ Active(Cgi(c))' <=> Active(Cgi(c))
      /\ rx'.flags[Conn(c)] = rx.flags[Conn(c)]
  BY <1>1 DEF Rests, Alone
<1>3. ASSUME NEW k \in loop'.batch, k.h = Conn(c), rx.flags[Conn(c)] \subseteq {"INACTIVE"}
      PROVE  FALSE
  <2>1. PICK f \in rx.edge :
          k = [h |-> rx.ptr[f], ev |-> Reported(f)] /\ Reported(f) # {}
    BY <1>1
  <2>2. rx.ptr[f] = Conn(c) BY <1>3, <2>1
  <2>3. f \in File /\ Sane(rx) BY DEF TypeInv, Sane, ReactorState
  <2>4. Wired(rx, conn, cgi) BY DEF SafeInv
  <2>5. f = Sock(c) BY <2>2, <2>3, <2>4, RegistrationIsOwn
  <2>6. Active(Conn(c))
    BY <2>2, <2>4, <2>5, NamesDiffer DEF Wired, ConnWired, Lives, Active
  <2>7. rx.flags[Conn(c)] = {} BY <1>3, <2>6 DEF Active, IsInactive
  <2>8. Reported(f) \subseteq ComputeEvents(rx.flags[Conn(c)])
    BY <2>2, <2>6, NewConnEvents, NobodyResets DEF NoResetYet
  <2> QED BY <2>1, <2>7, <2>8 DEF ComputeEvents
<1>4. Waits(c)' BY <1>2, <1>3 DEF Right, Waits
<1>5. MatchesAfter(c, conn[c].resp) BY <1>2, StillMatches DEF Right, Settled
<1> QED BY <1>2, <1>4, <1>5

\* A method of the connection that starts no script.
LEMMA OwnRight ==
  ASSUME TypeInv, SafeInv, AnswerInv, NEW e \in loop.batch, NEW c \in Clients,
         ConnectionStep(e, c), ~StartCgi(e, c), Handled(e), ScriptHeld(c), Attached(c),
         Right(c), peer'[c].kind = peer[c].kind
  PROVE  Waits(c)' /\ MatchesAfter(c, conn'[c].resp)
<1>1. /\ Rests(c) /\ e.h = Conn(c) /\ Active(Conn(c))
      /\ \/ Idles(c) \/ Reads(c) \/ Responds(c) \/ CgiResponds(c) \/ Closes(c)
         \/ CutsOff(c)
         \/ (Suspends(c) /\ child[c].st = "none" /\ CgiFails(e, c))
  BY OwnView
<1>2. /\ child'[c] = child[c] /\ ~Active(Cgi(c)) /\ ~Active(Cgi(c))'
  BY <1>1 DEF Attached, Rests
<1>3. conn[c].cgiPending => /\ child[c].st # "none" /\ ~child[c].outOpen
                            /\ conn[c].out = child[c].wrote
                            /\ peer[c].kind \in {"cgi", "cgiBody"}
  BY <1>1, <1>2 DEF Right, Waits
<1>4. Waits(c)'
  <2>1. CASE Suspends(c) /\ child[c].st = "none" /\ CgiFails(e, c)
    <3>1. IsRead(e) BY <2>1 DEF CgiFails, CompletesCgi
    <3>2. \A k \in loop'.batch : k.h # Conn(c)
      BY <1>1, <2>1, <3>1, SuspendedHasNoEvents DEF Suspends
    <3> QED BY <1>2, <2>1, <3>2 DEF Waits, Suspends, Goes
  <2>2. CASE Idles(c) \/ CutsOff(c)
    <3>1. conn'[c] = conn[c] BY <2>2 DEF Idles, CutsOff
    <3> QED BY <1>2, <1>3, <3>1 DEF Waits
  <2>3. CASE Reads(c) \/ Responds(c) \/ CgiResponds(c) \/ Closes(c)
    <3>1. ~conn'[c].cgiPending
      BY <2>3 DEF Reads, Responds, CgiResponds, Closes, Ends, ScriptHeld
    <3> QED BY <3>1 DEF Waits
  <2> QED BY <1>1, <2>1, <2>2, <2>3
<1>5. MatchesAfter(c, conn'[c].resp)
  <2>1. CASE Idles(c) \/ CutsOff(c)
    <3>1. conn'[c] = conn[c] BY <2>1 DEF Idles, CutsOff
    <3>2. MatchesAfter(c, conn[c].resp) BY <1>2, StillMatches DEF Right, Settled
    <3> QED BY <3>1, <3>2
  <2>2. CASE Reads(c) \/ Suspends(c) \/ Closes(c)
    <3>1. conn'[c].resp = "none" BY <2>2 DEF Reads, Suspends, Closes
    <3> QED BY <3>1 DEF MatchesAfter
  <2>3. CASE Responds(c) BY <2>3 DEF Responds, Right, MatchesAfter
  <2>4. CASE CgiResponds(c)
    <3>1. conn[c].cgiPending /\ conn'[c].resp = IF conn[c].out = 0 THEN "error" ELSE "cgi"
      BY <2>4 DEF CgiResponds
    <3> QED BY <1>2, <1>3, <3>1, CountsAreNumbers DEF MatchesAfter
  <2> QED BY <1>1, <2>1, <2>2, <2>3, <2>4
<1> QED BY <1>4, <1>5

\* A method of the script's handler, when no error of the input pipe is reported.
LEMMA HandlerRight ==
  ASSUME TypeInv, SafeInv, NEW e \in loop.batch, NEW c \in Clients, CgiStep(e, c),
         Attached(c), Dutied(c), Right(c), peer'[c].kind = peer[c].kind
  PROVE  Waits(c)' /\ MatchesAfter(c, conn'[c].resp)
<1>1. /\ e.h = Cgi(c) /\ Active(Cgi(c)) /\ Keeps(c)
      /\ \/ Idles(c) /\ UNCHANGED <<cgi, child>>
         \/ Collects(c) \/ Eofs(c) \/ Feeds(c) \/ (Errs(c) /\ "ERR" \in e.ev)
  BY HandlerView
<1>2. ~Errs(c) \/ "ERR" \notin e.ev BY <1>1 DEF Dutied
<1>3. /\ Cgi(c) \in rx.handlers /\ Conn(c) \in rx.handlers
      /\ conn[c].cgiPending /\ conn[c].resp = "none"
      /\ conn[c].out + child[c].outPipe = child[c].wrote
  BY <1>1 DEF Attached, Active
<1>4. child[c].st # "none" BY <1>3 DEF SafeInv, Fresh
<1>5. conn'[c].cgiPending /\ conn'[c].resp = "none" BY <1>1, <1>3 DEF Keeps
<1>6. child'[c].st # "none"
  BY <1>1, <1>2, <1>4 DEF Collects, Eofs, Feeds
<1>7. Active(Cgi(c))' \/ (~child'[c].outOpen /\ conn'[c].out = child'[c].wrote)
  BY <1>1, <1>2, <1>3 DEF Idles, Collects, Eofs, Feeds, Empties, Active, IsInactive
<1>8. peer'[c].kind \in {"cgi", "cgiBody"} BY <1>3 DEF Right, Waits
<1> QED BY <1>5, <1>6, <1>7, <1>8 DEF Waits, MatchesAfter

\* Handlers are deleted.
LEMMA DestroyRight ==
  ASSUME TypeInv, SafeInv, AnswerInv, Sweep \/ Shutdown, NEW c \in Clients, Right(c),
         peer'[c].kind = peer[c].kind
  PROVE  Waits(c)' /\ MatchesAfter(c, conn'[c].resp)
<1>1. /\ loop'.batch = {} /\ rx'.flags = rx.flags /\ rx'.handlers \subseteq rx.handlers
      /\ \A h \in rx.handlers \ rx'.handlers : IsInactive(rx, h) \/ rx'.handlers = {}
      /\ conn'[c] = IF Conn(c) \in rx'.handlers THEN conn[c] ELSE NoConn
      /\ child'[c].outOpen = child[c].outOpen /\ child'[c].wrote = child[c].wrote
      /\ child[c].st \in {"none", "killed"} => child'[c].st = child[c].st
  BY DestroyView
<1>2. CASE Conn(c) \notin rx'.handlers
  <2>1. ~conn'[c].cgiPending /\ conn'[c].resp = "none" BY <1>1, <1>2 DEF NoConn
  <2> QED BY <2>1 DEF Waits, MatchesAfter
<1>3. CASE Conn(c) \in rx'.handlers
  <2>1. conn'[c] = conn[c] BY <1>1, <1>3
  <2>2. Active(Cgi(c)) => Active(Cgi(c))' BY <1>1, <1>3 DEF Active, IsInactive
  <2>3. rx'.flags[Conn(c)] = rx.flags[Conn(c)] /\ \A k \in loop'.batch : FALSE BY <1>1
  <2>4. child'[c].st = "none" \/ child[c].st # "none" BY <1>1
  <2>5. conn[c].cgiPending /\ child[c].st = "none" =>
          rx'.flags[Conn(c)] \subseteq {"INACTIVE"}
    BY <2>3 DEF Right, Waits
  <2>6. conn[c].cgiPending /\ child'[c].st = "none" =>
          rx'.flags[Conn(c)] \subseteq {"INACTIVE"}
    <3>1. child'[c].st = "none" => child[c].st = "none"
      <4>1. child'[c].st \in IF child[c].st # "run" THEN {child[c].st, "reaped"}
                             ELSE IF Cgi(c) \in rx.handlers \ rx'.handlers /\ cgi[c].pid
                                    THEN {"killed"} ELSE {"run"}
        BY DestroyView
      <4> QED BY <4>1
    <3> QED BY <2>5, <3>1
  <2>7. Waits(c)' BY <1>1, <2>1, <2>2, <2>3, <2>4, <2>6 DEF Right, Waits
  <2>8. MatchesAfter(c, conn[c].resp) BY <1>1, StillMatches DEF Right, Settled
  <2> QED BY <2>1, <2>7, <2>8
<1> QED BY <1>2, <1>3

\* What a script does of its own.
LEMMA RunsRight ==
  ASSUME TypeInv, SafeInv, NEW c \in Clients, Script(c), Right(c),
         peer'[c].kind = peer[c].kind
  PROVE  Waits(c)' /\ MatchesAfter(c, conn'[c].resp)
<1>1. Runs(c) BY RunsView
<1>2. Alone(c) /\ rx'.handlers = rx.handlers /\ rx'.flags = rx.flags BY ScriptView
<1>3. conn'[c] = conn[c] BY <1>2 DEF Alone
<1>4. Active(Cgi(c))' <=> Active(Cgi(c)) BY <1>2 DEF Active, IsInactive
<1>5. child'[c].st # "none" /\ child[c].st # "none" /\ Settled(c)
  BY <1>1 DEF Runs, MayExit, Settled
<1>6. Waits(c)' BY <1>3, <1>4, <1>5 DEF Right, Waits, Settled
<1>7. MatchesAfter(c, conn[c].resp) BY <1>5, StillMatches DEF Right
<1> QED BY <1>3, <1>6, <1>7

\* Every step keeps the response right.
LEMMA NextRight ==
  ASSUME Resetting = {}, Finning = {}, TypeInv, SafeInv, SafeInv', AnswerInv, HeldInv,
         AttachedInv, DutiedInv, [Next]_vars, NEW c \in Clients, Right(c)
  PROVE  Right(c)'
<1>1. /\ ScriptHeld(c) /\ Attached(c) /\ Dutied(c) /\ Answering(c) /\ ~WokenByOther(c)
  BY NoOtherWakes DEF HeldInv, AttachedInv, DutiedInv, AnswerInv
<1>2. /\ peer'[c].kind = peer[c].kind /\ ~peer'[c].fin
      /\ peer'[c].reply \in {peer[c].reply, "part"}
           \/ (peer'[c].reply = conn[c].resp /\ Closes(c))
  BY PeerView DEF Right
<1>3. CASE StartsCgi(c)
  <2>1. PICK e \in loop.batch : StartCgi(e, c) BY <1>3 DEF StartsCgi
  <2>2. Starts(c) /\ Suspends(c) BY <2>1, StartView
  <2>3. Active(Cgi(c))' /\ child'[c].st = "run" BY <2>2 DEF Starts, NoChild
  <2>4. /\ conn'[c].resp = "none" /\ peer'[c] = peer[c] /\ peer[c].reply = "none"
        /\ peer[c].kind \in {"cgi", "cgiBody"}
    BY <1>1, <2>2 DEF Suspends, Goes, Answering
  <2> QED BY <1>2, <2>3, <2>4 DEF Right, Waits, Matches
<1>4. CASE ~StartsCgi(c)
  <2>1. Settled(c) BY <1>4, SettledStep
  <2>2. Waits(c)' /\ MatchesAfter(c, conn'[c].resp)
    <3>1. CASE Bystands(c) BY <1>1, <1>2, <3>1, RestingRight DEF Bystands
    <3>2. CASE \E e \in loop.batch : Works(e, c)
      <4>1. PICK e \in loop.batch : Handled(e) /\ (ConnectionStep(e, c) \/ CgiStep(e, c))
        BY <3>2 DEF Works
      <4>2. ~StartCgi(e, c) BY <1>4, <4>1 DEF StartsCgi
      <4> QED BY <1>1, <1>2, <4>1, <4>2, OwnRight, HandlerRight
    <3>3. CASE Accept(c)
      <4>1. conn'[c].resp = "none" /\ ~conn'[c].cgiPending
        BY <1>1, <3>3, AcceptMove DEF Arrives
      <4> QED BY <4>1 DEF Waits, MatchesAfter
    <3> QED BY <1>2, <3>1, <3>2, <3>3, EpollRight, DestroyRight, RunsRight, NextViews
  <2>3. MatchesAfter(c, peer'[c].reply)
    <3>1. MatchesAfter(c, peer[c].reply) /\ MatchesAfter(c, conn[c].resp)
      BY <1>2, <2>1, StillMatches DEF Right
    <3>2. MatchesAfter(c, "part") BY DEF MatchesAfter
    <3> QED BY <1>2, <3>1, <3>2
  <2> QED BY <1>2, <2>2, <2>3 DEF Right, Matches, MatchesAfter
<1> QED BY <1>3, <1>4

\* A client that neither resets nor closes its side early gets the answer to what it
\* asked for: the page, the refusal, or all that its script wrote.
THEOREM AnswersAreRight ==
  ASSUME Resetting = {}, Finning = {}, Dutiful, ~EarlyClose
  PROVE  Spec => []RightAnswer
<1>1. Init => RightInv
  <2> SUFFICES ASSUME Init, NEW c \in Clients PROVE Right(c) BY DEF RightInv
  <2>1. conn[c].resp = "none" /\ ~conn[c].cgiPending BY InitStates DEF NoConn
  <2>2. ~peer[c].fin /\ peer[c].reply = "none" BY DEF Init
  <2> QED BY <2>1, <2>2 DEF Right, Waits, Matches
<1>2. TypeInv /\ SafeInv /\ SafeInv' /\ AnswerInv /\ HeldInv /\ AttachedInv /\ DutiedInv
        /\ RightInv /\ [Next]_vars => RightInv'
  BY NextRight DEF RightInv
<1>3. ASSUME TypeInv, RightInv PROVE RightAnswer
  <2> SUFFICES ASSUME NEW c \in Clients, Answered(c)
               PROVE  CASE peer[c].kind = "static" -> peer[c].reply = "page"
                        [] peer[c].kind = "bad"    -> peer[c].reply = "error"
                        [] OTHER -> peer[c].reply = IF child[c].wrote > 0 THEN "cgi"
                                                                          ELSE "error"
    BY DEF RightAnswer
  <2>1. peer[c].reply \in {"page", "error", "cgi"} BY DEF Answered
  <2>2. Matches(c, peer[c].reply) BY <1>3 DEF RightInv, Right
  <2>3. child[c].wrote \in Nat BY <1>3, CountsAreNumbers
  <2>4. CASE peer[c].kind = "static" BY <2>1, <2>2, <2>4 DEF Matches
  <2>5. CASE peer[c].kind = "bad" BY <2>1, <2>2, <2>5 DEF Matches
  <2>6. CASE peer[c].kind # "static" /\ peer[c].kind # "bad"
    <3>1. peer[c].reply = IF child[c].wrote > 0 THEN "cgi" ELSE "error"
      BY <2>1, <2>2, <2>3, <2>6 DEF Matches
    <3> QED BY <2>6, <3>1
  <2> QED BY <2>4, <2>5, <2>6
<1>4. TypeInv /\ RightInv => RightAnswer BY <1>3
<1>5. AnswerInv => NoResetYet BY NobodyResets
<1> QED BY <1>1, <1>2, <1>4, <1>5, Typing, Safety, Answers, ScriptsAreHeld,
     ScriptsAreAttached, ScriptsAreDutied, PTL DEF Spec
=============================================================================
