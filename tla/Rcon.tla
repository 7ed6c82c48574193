-------------------------------- MODULE Rcon --------------------------------
(***************************************************************************)
(* The threads of RconServer: the accept worker, one thread per client and *)
(* stop, which wakes them by shutting their sockets down and joins them.   *)
(* A descriptor is a small number that the system hands out again once it  *)
(* is closed.  RconServer::start precedes the model.                       *)
(***************************************************************************)
EXTENDS Naturals

CONSTANTS
    Clients,    \* the client threads of a run
    Fds         \* descriptors of client sockets

VARIABLES
    running,    \* running_
    accepting,  \* where the accept worker is
    accepted,   \* the descriptor it holds
    place,      \* where each client thread is
    fdOf,       \* the descriptor each client thread was given
    authed,     \* clients that gave the password
    open,       \* descriptors in use
    shut,       \* of these, the ones that were shut down
    clientFds,  \* clientFds_
    joinable,   \* clientThreads_
    stopper,    \* where RconServer::stop is
    toShut      \* its copy of clientFds_

accept == <<accepting, accepted>>
client == <<place, fdOf, authed>>
socket == <<open, shut>>
vars   == <<running, accept, client, socket, clientFds, joinable, stopper, toShut>>

None == 0

Init ==
    /\ running = TRUE
    /\ accepting = "accept" /\ accepted = None
    /\ place = [c \in Clients |-> "none"]
    /\ fdOf = [c \in Clients |-> None]
    /\ authed = {} /\ open = {} /\ shut = {}
    /\ clientFds = {} /\ joinable = {} /\ toShut = {}
    /\ stopper = "idle"

Goes(c, from, to) == place[c] = from /\ place' = [place EXCEPT ![c] = to]

-----------------------------------------------------------------------------
(* loop *)

\* The system gives a free descriptor to a connection.
Accept ==
    /\ accepting = "accept"
    /\ stopper = "idle"
    /\ \E c \in Clients : place[c] = "none"
    /\ \E fd \in Fds \ open : accepted' = fd /\ open' = open \cup {fd}
    /\ accepting' = "accepted"
    /\ UNCHANGED <<running, client, shut, clientFds, joinable, stopper, toShut>>

\* Faulty: a connection accepted during a stop is served.
StartClientBlindly(c) ==
    /\ accepting = "accepted"
    /\ Goes(c, "none", "receive")
    /\ fdOf' = [fdOf EXCEPT ![c] = accepted]
    /\ clientFds' = clientFds \cup {accepted}
    /\ joinable' = joinable \cup {c}
    /\ accepting' = "accept"
    /\ UNCHANGED <<running, accepted, authed, open, shut, stopper, toShut>>

\* Under clientsMtx_, after another look at running_.
StartClient(c) ==
    /\ accepting = "accepted"
    /\ running
    /\ Goes(c, "none", "receive")
    /\ fdOf' = [fdOf EXCEPT ![c] = accepted]
    /\ clientFds' = clientFds \cup {accepted}
    /\ joinable' = joinable \cup {c}
    /\ accepting' = "accept"
    /\ UNCHANGED <<running, accepted, authed, open, shut, stopper, toShut>>

\* The server stops, or there is no thread for the client.
RefuseClient ==
    /\ accepting = "accepted"
    /\ open' = open \ {accepted}
    /\ shut' = shut \ {accepted}
    /\ accepting' = IF running THEN "accept" ELSE "done"
    /\ UNCHANGED <<running, accepted, client, clientFds, joinable, stopper, toShut>>

\* The shutdown of the listener ends accept.
LoopEnds ==
    /\ accepting = "accept"
    /\ ~running
    /\ accepting' = "done"
    /\ UNCHANGED <<running, accepted, client, socket, clientFds, joinable, stopper, toShut>>

-----------------------------------------------------------------------------
(* clientLoop *)

\* A packet of type 3; a wrong password keeps the connection.
Authenticate(c) ==
    /\ place[c] = "receive" /\ fdOf[c] \notin shut
    /\ authed' \in {authed, authed \cup {c}}
    /\ UNCHANGED <<running, accept, place, fdOf, socket, clientFds, joinable, stopper, toShut>>

\* A packet of type 2.
Command(c) ==
    /\ fdOf[c] \notin shut
    /\ Goes(c, "receive", IF c \in authed THEN "command" ELSE "leaving")
    /\ UNCHANGED <<running, accept, fdOf, authed, socket, clientFds, joinable, stopper, toShut>>

\* The handler returns or throws; the loop looks at running_ again.
CommandEnds(c) ==
    /\ \E to \in {IF running THEN "receive" ELSE "leaving", "leaving"} : Goes(c, "command", to)
    /\ UNCHANGED <<running, accept, fdOf, authed, socket, clientFds, joinable, stopper, toShut>>

\* The client leaves, breaks the protocol, or its socket was shut down.
ReceiveFails(c) ==
    /\ Goes(c, "receive", "leaving")
    /\ UNCHANGED <<running, accept, fdOf, authed, socket, clientFds, joinable, stopper, toShut>>

\* Faulty: the socket is closed before it is forgotten, and once more after.
ForgetClosed(c) ==
    /\ Goes(c, "leaving", "forgotten")
    /\ open' = open \ {fdOf[c]}
    /\ shut' = shut \ {fdOf[c]}
    /\ UNCHANGED <<running, accept, fdOf, authed, clientFds, joinable, stopper, toShut>>

Forget(c) ==
    /\ Goes(c, "leaving", "forgotten")
    /\ clientFds' = clientFds \ {fdOf[c]}
    /\ UNCHANGED <<running, accept, fdOf, authed, socket, joinable, stopper, toShut>>

CloseClient(c) ==
    /\ Goes(c, "forgotten", "gone")
    /\ open' = open \ {fdOf[c]}
    /\ shut' = shut \ {fdOf[c]}
    /\ UNCHANGED <<running, accept, fdOf, authed, clientFds, joinable, stopper, toShut>>

-----------------------------------------------------------------------------
(* stop *)

StopGoes(from, to) == stopper = from /\ stopper' = to

StopBegins ==
    /\ StopGoes("idle", "copy")
    /\ running' = FALSE
    /\ UNCHANGED <<accept, client, socket, clientFds, joinable, toShut>>

CopyClients ==
    /\ StopGoes("copy", "shut")
    /\ toShut' = clientFds
    /\ UNCHANGED <<running, accept, client, socket, clientFds, joinable>>

\* A copied descriptor may have been closed meanwhile, or belong to another
\* connection.
ShutClient ==
    /\ stopper = "shut"
    /\ \E fd \in toShut :
          /\ toShut' = toShut \ {fd}
          /\ shut' = shut \cup ({fd} \cap open)
    /\ UNCHANGED <<running, accept, client, open, clientFds, joinable, stopper>>

JoinWorker ==
    /\ StopGoes("shut", "join")
    /\ toShut = {} /\ accepting = "done"
    /\ UNCHANGED <<running, accept, client, socket, clientFds, joinable, toShut>>

JoinClients ==
    /\ StopGoes("join", "stopped")
    /\ \A c \in joinable : place[c] = "gone"
    /\ joinable' = {} /\ clientFds' = {}
    /\ UNCHANGED <<running, accept, client, socket, toShut>>

-----------------------------------------------------------------------------
Speaks(c)   == Authenticate(c) \/ Command(c)
Proceeds(c) == CommandEnds(c) \/ Forget(c) \/ CloseClient(c)
Starts      == RefuseClient \/ \E c \in Clients : StartClient(c)
Stops       == CopyClients \/ ShutClient \/ JoinWorker \/ JoinClients

Next ==
    \/ Accept \/ Starts \/ LoopEnds \/ StopBegins \/ Stops
    \/ \E c \in Clients : Speaks(c) \/ ReceiveFails(c) \/ Proceeds(c)

Spec == Init /\ [][Next]_vars

\* Threads run and commands end; a read of a socket that was shut down fails.
\* Clients need not speak or leave, and nobody need stop the server.
Fairness ==
    /\ WF_vars(Starts) /\ WF_vars(LoopEnds) /\ WF_vars(Stops)
    /\ \A c \in Clients :
          /\ WF_vars(Proceeds(c))
          /\ WF_vars(fdOf[c] \in shut /\ ReceiveFails(c))

FairSpec == Spec /\ Fairness

-----------------------------------------------------------------------------
\* stop returns although clients never speak or leave: a client's descriptor is
\* in clientFds_ as long as it is read from, and none is started behind the back
\* of the copy.
RconStopReturns == stopper = "copy" ~> stopper = "stopped"

\* A descriptor belongs to one client at a time, however often its number is
\* reused, and a client that reads is known to stop by its descriptor.
RconClientsKnown == \A c, d \in Clients :
    /\ place[c] \in {"receive", "command", "leaving"} => fdOf[c] \in clientFds
    /\ c # d /\ {place[c], place[d]} \subseteq {"receive", "command", "leaving", "forgotten"}
          => fdOf[c] # fdOf[d]
=============================================================================
