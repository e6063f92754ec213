---------------------------- MODULE HttpExchange -----------------------------
(***************************************************************************)
(* What the server promises a client, with nothing of how it does it: a    *)
(* connection carries one request and one answer, and is then closed.  A   *)
(* reliable client's connection is closed only after a whole answer; the   *)
(* others may be cut off, with a part of an answer or with none.  When the *)
(* program ends, on purpose or not, nobody is answered any more.           *)
(***************************************************************************)
CONSTANTS Clients, Reliable   \* the clients, and those of them that are reliable

Whole == {"page", "error", "cgi"}

VARIABLES asked,   \* how much the client has said: nothing, a part of its
                   \* request, or all it is going to say
          answer,  \* what the client was given
          closed,  \* the server is done with the client
          over     \* the program has ended

vars == <<asked, answer, closed, over>>

TypeOK == /\ asked \in [Clients -> {"nothing", "part", "all"}]
          /\ answer \in [Clients -> Whole \cup {"none", "part"}]
          /\ closed \in [Clients -> BOOLEAN]
          /\ over \in BOOLEAN

Init == /\ asked = [c \in Clients |-> "nothing"]
        /\ answer = [c \in Clients |-> "none"]
        /\ closed = [c \in Clients |-> FALSE]
        /\ over = FALSE

Ask(c) == /\ ~over /\ asked[c] # "all"
          /\ \E a \in {"part", "all"} : asked' = [asked EXCEPT ![c] = a]
          /\ UNCHANGED <<answer, closed, over>>

\* The answer is given and the connection is closed with it.  A request may be
\* refused before it is all there.
Answer(c) == /\ ~over /\ asked[c] # "nothing" /\ ~closed[c]
             /\ \E a \in Whole : answer' = [answer EXCEPT ![c] = a]
             /\ closed' = [closed EXCEPT ![c] = TRUE]
             /\ UNCHANGED <<asked, over>>

Cut(c) == /\ ~over /\ c \notin Reliable /\ ~closed[c]
          /\ \E a \in {"none", "part"} : answer' = [answer EXCEPT ![c] = a]
          /\ closed' = [closed EXCEPT ![c] = TRUE]
          /\ UNCHANGED <<asked, over>>

End == /\ ~over /\ over' = TRUE
       /\ UNCHANGED <<asked, answer, closed>>

\* What the end of the program leaves of the connections.
Clear == /\ over
         /\ \E cs \in SUBSET Clients : closed' = [c \in Clients |-> closed[c] \/ c \in cs]
         /\ UNCHANGED <<asked, answer, over>>

Next == (\E c \in Clients : Ask(c) \/ Answer(c) \/ Cut(c)) \/ End \/ Clear

Spec == Init /\ [][Next]_vars

\* A program that does not end answers every client that has said all it had to
\* say, or cuts it off.
FairSpec == /\ Spec /\ []~over
            /\ \A c \in Clients : WF_vars(asked[c] = "all" /\ Answer(c))
=============================================================================
