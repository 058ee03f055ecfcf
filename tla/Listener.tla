------------------------------ MODULE Listener ------------------------------
(***************************************************************************)
(* The life of listening servers (trpc/Server.h): make, start, close and   *)
(* the end of the object, the workers that start() creates for accepted    *)
(* peers, and the descriptor numbers that all of them share in the process *)
(* of the server.  Every server is made by a coroutine that then runs      *)
(* start() and destroys it when start() has returned.                      *)
(*                                                                         *)
(* The coroutines of the server's thread run one at a time: stack is what  *)
(* the loop has resumed.  What EventLoop shows is used here: a coroutine   *)
(* in the event table is resumed when its descriptor is ready, unless the  *)
(* number was closed under it, and such an entry stays for good.           *)
(***************************************************************************)
EXTENDS Naturals, Sequences, FiniteSets

CONSTANTS
    Servers,   \* Server objects, each with its coroutine
    Clients,   \* client sockets, each connects once or not at all
    Fd,        \* descriptor numbers of the server's process, 0 is its standard input
    None,      \* SOCKET_INVALID
    Nobody,    \* no coroutine
    Backlog,   \* SOMAXCONN
    MaxCloses, \* calls of Server::close, a bound
    MaxStrays  \* workers started for descriptor 0 by mistake, a bound

ASSUME NumbersAssumption == Fd \subseteq Nat /\ 0 \in Fd /\ IsFiniteSet(Fd) /\ None \notin Fd
ASSUME NobodyAssumption  == Nobody \notin Servers /\ Servers \cap Clients = {}
ASSUME LimitsAssumption  == Backlog \in Nat \ {0} /\ MaxCloses \in Nat /\ MaxStrays \in Nat

VARIABLES
    stack,     \* coroutines that run, the later one resumed by the earlier one
    place,     \* how far the coroutine of a server is
    sfd,       \* _fd
    arg,       \* the descriptor that a suspended co::accept4 was called with
    sock,      \* what a number is open for
    backlog,   \* connections that wait to be accepted, by listening number
    entry,     \* the event table: the listener in the entry of a number
    watched,   \* epoll's interest list
    link,      \* how the connection of a client stands
    worker,    \* clients that have a worker
    pfd,       \* peerFd of each worker
    boss,      \* the server that each worker was started by (the captured this)
    closes,    \* calls of Server::close
    strays     \* workers that were started for descriptor 0

kernel == <<sock, backlog, watched, link>>
object == <<place, sfd>>
labour == <<worker, pfd, boss>>
serverVars == <<stack, place, sfd, arg, sock, backlog, entry, watched, link, worker, pfd,
                boss, closes, strays>>

Numbers == Fd \cup {None}
FreeFd  == {f \in Fd : sock[f] = "free"}
Lowest  == CHOOSE f \in FreeFd : \A g \in FreeFd : f <= g

Runs(c) == stack # <<>> /\ stack[Len(stack)] = c
Suspend == stack' = SubSeq(stack, 1, Len(stack) - 1)

InitServers ==
    /\ stack = <<>>
    /\ place = [s \in Servers |-> "idle"]
    /\ sfd = [s \in Servers |-> None]
    /\ arg = [s \in Servers |-> None]
    /\ sock = [f \in Fd |-> IF f = 0 THEN "stdin" ELSE "free"]
    /\ backlog = [f \in Fd |-> <<>>]
    /\ entry = [f \in Numbers |-> Nobody]
    /\ watched = {}
    /\ link = [k \in Clients |-> "none"]
    /\ worker = {}
    /\ pfd = [k \in Clients |-> None]
    /\ boss = [k \in Clients |-> Nobody]
    /\ closes = 0 /\ strays = 0

\* ::close of a number: epoll forgets it, connections that nobody has accepted are reset,
\* one that was accepted is shut down.
CloseNumber(f) ==
    /\ sock' = [sock EXCEPT ![f] = "free"]
    /\ watched' = watched \ {f}
    /\ backlog' = [backlog EXCEPT ![f] = <<>>]
    /\ LET in == {backlog[f][i] : i \in DOMAIN backlog[f]} IN
       link' = [k \in Clients |-> CASE link[k] = "queued" /\ k \in in       -> "reset"
                                  [] link[k] = "accepted" /\ pfd[k] = f    -> "shut"
                                  [] link[k] = "left" /\ (k \in in \/ pfd[k] = f) -> "none"
                                  [] OTHER                                -> link[k]]

\* Server::close, if there is something to close.
Close(s) ==
    /\ IF sfd[s] = None THEN UNCHANGED kernel ELSE CloseNumber(sfd[s])
    /\ sfd' = [sfd EXCEPT ![s] = None]

At(s, p) == Runs(s) /\ place[s] = p
GoTo(s, p) == place' = [place EXCEPT ![s] = p]

-----------------------------------------------------------------------------
(* make: Server::init, and the move into the optional that leaves one owner. *)

\* The coroutine of s starts; ::socket gets the lowest free number.
InitSocket(s) ==
    /\ stack = <<>> /\ place[s] = "idle" /\ FreeFd # {}
    /\ stack' = <<s>>
    /\ GoTo(s, "init")
    /\ sfd' = [sfd EXCEPT ![s] = Lowest]
    /\ sock' = [sock EXCEPT ![Lowest] = "bound"]
    /\ UNCHANGED <<arg, backlog, entry, watched, link, labour, closes, strays>>

\* ::socket fails: _fd is -1, there is nothing to close.
InitNoSocket(s) ==
    /\ stack = <<>> /\ place[s] = "idle"
    /\ GoTo(s, "over")
    /\ UNCHANGED <<stack, sfd, arg, kernel, entry, labour, closes, strays>>

\* Mutation: the object is abandoned without its destructor.
InitFailsOpen(s) ==
    /\ At(s, "init")
    /\ GoTo(s, "over") /\ sfd' = [sfd EXCEPT ![s] = None]
    /\ Suspend
    /\ UNCHANGED <<arg, kernel, entry, labour, closes, strays>>

\* ::setsockopt or ::bind fails and make returns nullopt, or ::listen fails and start()
\* returns: the destructor closes.
InitFails(s) ==
    /\ At(s, "init")
    /\ GoTo(s, "over") /\ Close(s)
    /\ Suspend
    /\ UNCHANGED <<arg, entry, labour, closes, strays>>

\* The server is made; start() calls ::listen.
Listen(s) ==
    /\ At(s, "init")
    /\ GoTo(s, "accept")
    /\ sock' = [sock EXCEPT ![sfd[s]] = "listening"]
    /\ UNCHANGED <<stack, sfd, arg, backlog, entry, watched, link, labour, closes, strays>>

-----------------------------------------------------------------------------
(* start: the loop around co::accept4.                                       *)

\* ::accept4 has a connection to return and a number for it.
CanAccept(n) == n # None /\ sock[n] = "listening" /\ backlog[n] # <<>> /\ FreeFd # {}

\* The first ::accept4 is called with _fd, the second with the argument of the suspended call.
AcceptsFrom(s) == IF place[s] = "woken" THEN arg[s] ELSE sfd[s]

\* A peer: its worker is created and resumed at once, on top of the listener.
AcceptPeer(s) ==
    /\ At(s, "accept") \/ At(s, "woken")
    /\ LET n == AcceptsFrom(s)
           k == Head(backlog[n])
       IN  /\ CanAccept(n)
           /\ backlog' = [backlog EXCEPT ![n] = Tail(@)]
           /\ link' = [link EXCEPT ![k] = IF @ = "queued" THEN "accepted" ELSE @]
           /\ sock' = [sock EXCEPT ![Lowest] = "peer"]
           /\ worker' = worker \cup {k}
           /\ pfd' = [pfd EXCEPT ![k] = Lowest]
           /\ boss' = [boss EXCEPT ![k] = s]
           /\ stack' = Append(stack, k)
    /\ GoTo(s, "accept") /\ arg' = [arg EXCEPT ![s] = None]
    /\ UNCHANGED <<sfd, entry, watched, closes, strays>>

\* Mutation: the listener parks without a look at the entry.
AcceptParksAnyway(s) ==
    /\ At(s, "accept") /\ ~CanAccept(sfd[s])
    /\ entry' = [entry EXCEPT ![sfd[s]] = s]
    /\ UNCHANGED watched
    /\ arg' = [arg EXCEPT ![s] = sfd[s]]
    /\ GoTo(s, "parked") /\ Suspend
    /\ UNCHANGED <<sfd, sock, backlog, link, labour, closes, strays>>

\* co::accept4 got nothing: addEvent and yield.  epoll_ctl fails for what is not open.
AcceptParks(s) ==
    /\ At(s, "accept") /\ ~CanAccept(sfd[s])
    /\ entry[sfd[s]] = Nobody
    /\ entry' = [entry EXCEPT ![sfd[s]] = s]
    /\ watched' = watched \cup {f \in Fd \ FreeFd : f = sfd[s]}
    /\ arg' = [arg EXCEPT ![s] = sfd[s]]
    /\ GoTo(s, "parked") /\ Suspend
    /\ UNCHANGED <<sfd, sock, backlog, link, labour, closes, strays>>

\* The number is in the table already: co::accept4 returns 0, and start() runs a worker for
\* descriptor 0, which may close it in the end.
AcceptDuplicate(s) ==
    /\ At(s, "accept") /\ ~CanAccept(sfd[s])
    /\ entry[sfd[s]] # Nobody
    /\ strays < MaxStrays
    /\ strays' = strays + 1
    /\ CloseNumber(0) \/ UNCHANGED kernel
    /\ UNCHANGED <<stack, object, arg, entry, labour, closes>>

\* Mutation: the entry is not erased.
WakeKeepsEntry(f) ==
    /\ stack = <<>>
    /\ f \in watched /\ backlog[f] # <<>>
    /\ LET s == entry[f] IN stack' = <<s>> /\ GoTo(s, "woken")
    /\ watched' = watched \ {f}
    /\ UNCHANGED <<sfd, arg, sock, backlog, entry, link, labour, closes, strays>>

\* loop(): the listening descriptor is ready, the entry is erased, the listener resumed.
Wake(f) ==
    /\ stack = <<>>
    /\ f \in watched /\ backlog[f] # <<>>
    /\ LET s == entry[f] IN stack' = <<s>> /\ GoTo(s, "woken")
    /\ entry' = [entry EXCEPT ![f] = Nobody]
    /\ watched' = watched \ {f}
    /\ UNCHANGED <<sfd, arg, sock, backlog, link, labour, closes, strays>>

\* Mutation: an error ends start().
AcceptAgainReturns(s) ==
    /\ At(s, "woken") /\ ~CanAccept(arg[s])
    /\ GoTo(s, "over") /\ Close(s)
    /\ Suspend
    /\ UNCHANGED <<arg, entry, labour, closes, strays>>

\* The second ::accept4 fails: a negative result is ignored.
AcceptAgainFails(s) ==
    /\ At(s, "woken") /\ ~CanAccept(arg[s])
    /\ GoTo(s, "accept") /\ arg' = [arg EXCEPT ![s] = None]
    /\ UNCHANGED <<stack, sfd, kernel, entry, labour, closes, strays>>

-----------------------------------------------------------------------------
(* Workers, as far as descriptors go, and the user's close().                *)

WorkerYields(k) ==
    /\ Runs(k)
    /\ Suspend
    /\ UNCHANGED <<object, arg, kernel, entry, labour, closes, strays>>

WorkerResumes(k) ==
    /\ stack = <<>> /\ k \in worker
    /\ stack' = <<k>>
    /\ UNCHANGED <<object, arg, kernel, entry, labour, closes, strays>>

\* onAccept returns, the lambda closes the peer.
WorkerEnds(k) ==
    /\ Runs(k)
    /\ CloseNumber(pfd[k])
    /\ worker' = worker \ {k}
    /\ pfd' = [pfd EXCEPT ![k] = None] /\ boss' = [boss EXCEPT ![k] = Nobody]
    /\ Suspend
    /\ UNCHANGED <<object, arg, entry, closes, strays>>

\* close() in a callback of a worker (test_unreliable.cpp:80), or in another coroutine.
UserCloses(s) ==
    /\ stack = <<>> \/ \E k \in worker : Runs(k)
    /\ sfd[s] # None /\ closes < MaxCloses
    /\ closes' = closes + 1
    /\ Close(s)
    /\ UNCHANGED <<stack, place, arg, entry, labour, strays>>

Listens(s) ==
    \/ InitFails(s) \/ Listen(s)
    \/ AcceptPeer(s) \/ AcceptParks(s) \/ AcceptDuplicate(s) \/ AcceptAgainFails(s)

ServerNext ==
    \/ \E s \in Servers : InitSocket(s) \/ InitNoSocket(s) \/ Listens(s) \/ UserCloses(s)
    \/ \E f \in Fd : Wake(f)
    \/ \E k \in Clients : WorkerYields(k) \/ WorkerResumes(k) \/ WorkerEnds(k)

\* The coroutine that runs comes to its next suspension or its end.  The loop takes ready
\* descriptors in turn.
ServerFairness ==
    /\ WF_serverVars(\E s \in Servers : Listens(s))
    /\ \A k \in Clients : WF_serverVars(WorkerYields(k) \/ WorkerEnds(k))
    /\ \A f \in Fd : SF_serverVars(Wake(f))
-----------------------------------------------------------------------------
ServerTypeOK ==
    /\ stack \in {<<>>} \cup {<<c>> : c \in Servers \cup Clients} \cup (Servers \X Clients)
    /\ place \in [Servers -> {"idle", "init", "accept", "parked", "woken", "over"}]
    /\ sfd \in [Servers -> Numbers] /\ arg \in [Servers -> Numbers]
    /\ sock \in [Fd -> {"free", "stdin", "bound", "listening", "peer"}]
    /\ \A f \in Fd : backlog[f] \in Seq(Clients) /\ Len(backlog[f]) <= Backlog
    /\ entry \in [Numbers -> Servers \cup {Nobody}]
    /\ watched \subseteq Fd
    /\ link \in [Clients -> {"none", "syn", "refused", "spent", "timedout", "queued",
                            "accepted", "shut", "reset", "left"}]
    /\ worker \subseteq Clients /\ pfd \in [Clients -> Numbers]
    /\ boss \in [Clients -> Servers \cup {Nobody}]
    /\ closes \in 0 .. MaxCloses /\ strays \in 0 .. MaxStrays

\* Who closes a number in the end: the server whose _fd it is, the worker whose peer it is.
Keepers(f) == {s \in Servers : sfd[s] = f} \cup {k \in worker : pfd[k] = f}

\* Whatever fails or is closed in whatever order, an open descriptor of the server's process
\* has exactly one keeper that will close it, and nobody keeps a number that is closed and
\* may by now be another's (Server.h:83-85, 140-153, 190-254).
EachKeptByOne ==
    strays = 0 =>
        \A f \in Fd \ {0} : Cardinality(Keepers(f)) = IF sock[f] = "free" THEN 0 ELSE 1

\* Workers hold a pointer to the server that they were started by: the object does not end
\* before them, because start() does not return once a peer has been accepted
\* (Server.h:134-145).
ServerOutlivesWorkers == \A k \in worker : place[boss[k]] # "over"

\* A worker is started for a descriptor that is no peer (the 0 of co::accept4) only after a
\* server was closed under its listener (posix.h:253-263, Server.h:137-144).
StrayNeedsClose == strays > 0 => closes > 0

\* A peer in the backlog is accepted, unless the server is closed, the process is out of
\* descriptors, or the listener is busy with descriptor 0 (Server.h:134-145).
QueuedServed ==
    \A k \in Clients : link[k] = "queued" ~> link[k] # "queued" \/ FreeFd = {} \/ strays > 0
=============================================================================
