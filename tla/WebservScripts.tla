---------------------------- MODULE WebservScripts ----------------------------
(***************************************************************************)
(* Scripts, their handlers and the connections that wait for them: the     *)
(* inductive invariants behind the properties that are about scripts.      *)
(***************************************************************************)
EXTENDS WebservWiring

\* A script that still may write has a handler that would kill it, and that names
\* its connection's descriptor as long as there is one; whoever waits for a
\* script that was started has a handler to wake it, or has been woken.
ScriptHeld(c) ==
  /\ child[c].outOpen => child[c].st \in {"run", "killed"}
  /\ child[c].st = "run" /\ child[c].outOpen => Cgi(c) \in rx.handlers /\ cgi[c].pid
  /\ child[c].st = "run" /\ ~EarlyClose => child[c].outOpen
  /\ Conn(c) \in rx.handlers /\ Cgi(c) \in rx.handlers => cgi[c].fd = conn[c].fd
  /\ conn[c].cgiPending => conn[c].resp = "none"
  /\ Active(Conn(c)) /\ conn[c].cgiPending /\ child[c].st # "none" =>
       Active(Cgi(c)) \/ "WANT_WRITE" \in rx.flags[Conn(c)]

HeldInv == \A c \in Clients : ScriptHeld(c)

\* When no script fails to start, whoever waits waits for one.
BegunInv == \A c \in Clients : conn[c].cgiPending => child[c].st # "none"

\* Until a client resets, a connection and its script go together: while the
\* script's handler works the connection sleeps, and has all that the script has
\* written but what is in the pipe; before that it only reads.
Attached(c) ==
  /\ Active(Cgi(c)) =>
       /\ Active(Conn(c)) /\ conn[c].cgiPending /\ conn[c].resp = "none"
       /\ rx.flags[Conn(c)] = {} /\ \A e \in loop.batch : e.h # Conn(c)
       /\ conn[c].out + child[c].outPipe = child[c].wrote
  /\ Active(Conn(c)) /\ ~Responding(c) =>
       /\ rx.flags[Conn(c)] = {"WANT_READ"}
       /\ \A e \in loop.batch : e.h = Conn(c) => "OUT" \notin e.ev
  /\ conn[c].cgiPending /\ ~Active(Cgi(c)) /\ conn[c].out # 0 =>
       ~child[c].outOpen /\ conn[c].out = child[c].wrote

AttachedInv == \A c \in Clients : Attached(c)

NoResetYet == \A c \in Clients : ~peer[c].rst

\* When scripts read all their input, a handler that is at the end of the output has
\* closed the input, so nothing of it is left when it is deleted.
Dutied(c) ==
  /\ Cgi(c) \in rx.handlers /\ (~child[c].outOpen \/ ~Active(Cgi(c))) =>
       cgi[c].inFd = NoFd
  /\ Cgi(c) \notin rx.handlers => /\ rx.ptr[In(c)] = NoHandler
                                  /\ \A e \in loop.batch : e.h # Cgi(c)
  /\ child[c].st = "killed" => Cgi(c) \notin rx.handlers
  /\ \A e \in loop.batch : e.h = Cgi(c) => "ERR" \notin e.ev

DutiedInv == \A c \in Clients : Dutied(c)

\* b is the response to what c asked for.
Matches(c, b) ==
  /\ b = "page" => peer[c].kind = "static"
  /\ b = "error" => \/ peer[c].kind = "bad"
                    \/ /\ peer[c].kind \in {"cgi", "cgiBody"}
                       /\ ~child[c].outOpen /\ child[c].wrote = 0
  /\ b = "cgi" => /\ peer[c].kind \in {"cgi", "cgiBody"}
                  /\ ~child[c].outOpen /\ child[c].wrote > 0

\* Who waits has asked for a script.  It has not been started, and then it never is,
\* or it works, or all of its output is there.
Waits(c) ==
  conn[c].cgiPending =>
    /\ peer[c].kind \in {"cgi", "cgiBody"}
    /\ child[c].st = "none" => /\ rx.flags[Conn(c)] \subseteq {"INACTIVE"}
                               /\ \A e \in loop.batch : e.h # Conn(c)
    /\ child[c].st # "none" /\ ~Active(Cgi(c)) =>
         ~child[c].outOpen /\ conn[c].out = child[c].wrote

\* The response is the one asked for.
Right(c) ==
  /\ ~peer[c].fin /\ Waits(c)
  /\ Matches(c, conn[c].resp) /\ Matches(c, peer[c].reply)

RightInv == \A c \in Clients : Right(c)
=============================================================================
