-------------------------------- MODULE Startup --------------------------------
(***************************************************************************)
(* main, ServerManager and its sockets (src/src/main.cpp, src/src/core):   *)
(* from the configuration file to the running server, and back to nothing. *)
(* What the server does while it runs is the subject of Webserv; here it   *)
(* runs until Ctrl-C.  A socket, its acceptor and its descriptor are named *)
(* by their port, of which there is one each.                              *)
(***************************************************************************)
EXTENDS ConfigParser

VARIABLES stage,      \* where main is
          listening,  \* listening_sockets_
          deleted,    \* how often each allocated Socket has been deleted
          open,       \* the sockets whose descriptor is open
          acceptors,  \* the servers of each registered acceptor
          epollOpen,  \* epoll_fd_
          running,    \* g_running
          why         \* what ended it

startVars == <<stage, listening, deleted, open, acceptors, epollOpen, running, why>>
vars      == <<configVars, startVars>>

Stage  == {"start", "config", "init", "run", "unwind", "over", "killed"}
Reason == {"none", "reactor", "config", "socket", "epoll", "return"}

Init == /\ ConfigInit
        /\ stage = "start"
        /\ listening = <<>> /\ deleted = <<>> /\ open = {} /\ acceptors = <<>>
        /\ epollOpen = FALSE
        /\ running = TRUE
        /\ why = "none"

-----------------------------------------------------------------------------
\* map[port] = value, of a std::map.
Set(map, port, value) ==
  [p \in DOMAIN map \cup {port} |-> IF p = port THEN value ELSE map[p]]

\* Mistake: the last server of a port takes the place of the others.
LastByPort(list) == FoldLeft(LAMBDA map, s : Set(map, s.port, <<s>>), <<>>, list)

\* getMapOfPortWithServers.
ByPort(list) ==
  FoldLeft(LAMBDA map, s :
             Set(map, s.port,
                 Append(IF s.port \in DOMAIN map THEN map[s.port] ELSE <<>>, s)),
           <<>>, list)

\* The keys of the map that the loop of init has not come to, in ascending order.
PortsLeft == {servers[i].port : i \in DOMAIN servers} \ Range(listening)
NextPort  == Min(PortsLeft)

\* An exception, or the end of run: the destructors are next.
Leave(reason) == stage' = "unwind" /\ why' = reason

-----------------------------------------------------------------------------
\* ServerManager::ServerManager: the reactor makes its epoll instance.  Without it
\* there is nothing to destroy.
Construct ==
  /\ stage = "start"
  /\ \/ stage' = "config" /\ epollOpen' = TRUE /\ UNCHANGED why
     \/ stage' = "over" /\ why' = "reactor" /\ UNCHANGED epollOpen
  /\ UNCHANGED <<configVars, listening, deleted, open, acceptors, running>>

Configure == stage = "config" /\ ParserStep /\ UNCHANGED startVars

Configured ==
  /\ stage = "config"
  /\ \/ phase = "parsed" /\ stage' = "init" /\ UNCHANGED why
     \/ phase = "refused" /\ Leave("config")
  /\ UNCHANGED <<configVars, listening, deleted, open, acceptors, epollOpen, running>>

\* One turn of init: create, setReusable, bind, setNonBlocking and listen succeed, and
\* the reactor takes the acceptor.
OpenPort ==
  /\ stage = "init" /\ PortsLeft # {}
  /\ listening' = Append(listening, NextPort)
  /\ deleted' = Set(deleted, NextPort, 0)
  /\ open' = open \cup {NextPort}
  /\ acceptors' = Set(acceptors, NextPort, ByPort(servers)[NextPort])
  /\ UNCHANGED <<configVars, stage, epollOpen, running, why>>

\* Mistake: the socket is kept before it is ready.
SocketFailsListed ==
  /\ stage = "init" /\ PortsLeft # {}
  /\ listening' = Append(listening, NextPort)
  /\ deleted' = Set(deleted, NextPort, 1)
  /\ Leave("socket")
  /\ UNCHANGED <<configVars, open, acceptors, epollOpen, running>>

\* One of the five fails; the socket that has come this far is closed and deleted.
SocketFails ==
  /\ stage = "init" /\ PortsLeft # {}
  /\ deleted' = Set(deleted, NextPort, 1)
  /\ Leave("socket")
  /\ UNCHANGED <<configVars, listening, open, acceptors, epollOpen, running>>

\* epoll_ctl fails: the socket is deleted, and stays in listening_sockets_.
AddHandlerFails ==
  /\ stage = "init" /\ PortsLeft # {}
  /\ listening' = Append(listening, NextPort)
  /\ deleted' = Set(deleted, NextPort, 1)
  /\ Leave("epoll")
  /\ UNCHANGED <<configVars, open, acceptors, epollOpen, running>>

Run == /\ stage = "init" /\ PortsLeft = {}
       /\ stage' = "run"
       /\ UNCHANGED <<configVars, listening, deleted, open, acceptors, epollOpen, running, why>>

\* Ctrl-C is only noted; run looks at it before it waits for the first time.
Sigint == /\ running /\ stage \in {"start", "config", "init", "run", "unwind"}
          /\ running' = FALSE
          /\ UNCHANGED <<configVars, stage, listening, deleted, open, acceptors, epollOpen, why>>

RunReturns == /\ stage = "run" /\ ~running
           /\ Leave("return")
           /\ UNCHANGED <<configVars, listening, deleted, open, acceptors, epollOpen, running>>

\* ~ServerManager deletes the sockets of listening_sockets_, ~Reactor the acceptors.
\* What deleting a socket for the second time does is undefined.
Destroy ==
  LET listed == Range(listening) IN
  /\ stage = "unwind"
  /\ deleted' = [p \in DOMAIN deleted |-> IF p \in listed THEN deleted[p] + 1 ELSE deleted[p]]
  /\ open' = open \ listed
  /\ acceptors' = <<>>
  /\ epollOpen' = FALSE
  /\ \/ stage' = "over"
     \/ (\E p \in listed : deleted[p] > 0) /\ stage' = "killed"
  /\ UNCHANGED <<configVars, listening, running, why>>

Next == \/ Construct \/ Configure \/ Configured
        \/ OpenPort \/ SocketFails \/ AddHandlerFails
        \/ Run \/ Sigint \/ RunReturns \/ Destroy

Spec == Init /\ [][Next]_vars
=============================================================================
