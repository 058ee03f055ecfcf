------------------------------ MODULE Connect ------------------------------
(***************************************************************************)
(* Clients that are made and connected by Client::make(Endpoint)           *)
(* (trpc/Client.h) through the retries of co::connect (base/co/posix.h),   *)
(* against the servers of Listener, with the handshake of the kernels      *)
(* between them.  Each client has one socket, in another process than the  *)
(* servers.                                                                *)
(***************************************************************************)
EXTENDS Listener

CONSTANTS
    MaxRetries, \* PollConfig::connectRetries
    Pause1,     \* 1024 milliseconds
    Unlucky,    \* clients whose number may have been closed under a waiting coroutine
    MaxFaults,  \* failures of the network, a bound
    MaxAtOnce   \* clients that connect at the same time, a bound

\* From 24 retries on, 1024 << (retries - 3) does not fit an int any more.
ASSUME RetriesAssumption == MaxRetries \in 1 .. 23 /\ Pause1 \in Nat \ {0}
ASSUME FaultsAssumption  == Unlucky \subseteq Clients /\ {MaxFaults, MaxAtOnce} \subseteq Nat

VARIABLES
    cpc,       \* where the coroutine of the client is
    retries,   \* retries of co::connect
    csock,     \* the socket is open
    stale,     \* what an entry of an earlier owner of the number waits for
    faults,    \* failures of the network
    \* history
    waited,    \* milliseconds of back-off, if every timer can be created
    tries      \* calls of ::connect on an unconnected socket

clientVars == <<cpc, retries, csock, stale, waited, tries>>
vars == <<serverVars, clientVars, faults>>

servers == <<stack, place, sfd, arg, sock, backlog, entry, watched, worker, pfd, boss,
             closes, strays>>

Init ==
    /\ InitServers
    /\ cpc = [k \in Clients |-> "idle"]
    /\ retries = [k \in Clients |-> 0]
    /\ csock = [k \in Clients |-> FALSE]
    /\ stale = [k \in Clients |-> "none"]
    /\ waited = [k \in Clients |-> 0]
    /\ tries = [k \in Clients |-> 0]
    /\ faults = 0

Listening == \E f \in Fd : sock[f] = "listening"
Connected == {"queued", "accepted", "shut"}

\* What is left of a connection when the client closes its end.
Left(l) == IF l \in {"queued", "accepted"} THEN "left" ELSE "none"

Connecting(k) == cpc[k] \in {"again", "wait", "peer"}

GoesTo(k, p) == cpc' = [cpc EXCEPT ![k] = p]

-----------------------------------------------------------------------------
(* Client::make(Endpoint): make, connect, and the destructor on every failure. *)

\* init() gets a socket; if the number was closed under a coroutine that waited on it,
\* the event table still has the entry.
MakeClient(k) ==
    /\ cpc[k] = "idle" /\ Cardinality({l \in Clients : Connecting(l)}) < MaxAtOnce
    /\ GoesTo(k, "again")
    /\ csock' = [csock EXCEPT ![k] = TRUE]
    /\ \E e \in IF k \in Unlucky THEN {"none", "READ", "WRITE"} ELSE {"none"} :
         stale' = [stale EXCEPT ![k] = e]
    /\ UNCHANGED <<servers, link, retries, waited, tries, faults>>

MakeNoSocket(k) ==
    /\ cpc[k] = "idle"
    /\ GoesTo(k, "down")
    /\ UNCHANGED <<servers, link, retries, csock, stale, waited, tries, faults>>

\* What co::connect counts ends with it.
Forget(k) ==
    /\ retries' = [retries EXCEPT ![k] = 0]
    /\ waited' = [waited EXCEPT ![k] = 0]
    /\ tries' = [tries EXCEPT ![k] = 0]

\* connect returns false, make returns nullopt: the client is destroyed.
Fails(k) ==
    /\ GoesTo(k, "down")
    /\ Forget(k)
    /\ stale' = [stale EXCEPT ![k] = "none"]
    /\ csock' = [csock EXCEPT ![k] = FALSE]
    /\ link' = [link EXCEPT ![k] = Left(@)]

\* Mutation: the exponent is one too large.
PauseTwice(n) == Pause1 * 2 ^ (n - 2)

\* The pause before attempt n, 1024 << (n - 3).
Pause(n) == Pause1 * 2 ^ (n - 3)

\* ::connect, whose result is not looked at: an unconnected socket starts a handshake, or
\* fails at once (refused by the same host, or unreachable); after an error that was
\* reported in another way the kernel only makes the socket usable again.
StartsHandshake(k) ==
    IF link[k] = "none"
      THEN /\ tries' = [tries EXCEPT ![k] = @ + 1]
           /\ \/ link' = [link EXCEPT ![k] = "syn"] /\ UNCHANGED faults
              \/ ~Listening /\ UNCHANGED <<link, faults>>
              \/ faults < MaxFaults /\ faults' = faults + 1 /\ UNCHANGED link
      ELSE link' = [link EXCEPT ![k] = "none"] /\ UNCHANGED <<tries, faults>>

\* Mutation: one attempt too many.
NextTryTooMany(k) ==
    /\ cpc[k] = "again" /\ retries[k] <= MaxRetries
    /\ retries' = [retries EXCEPT ![k] = @ + 1]
    /\ waited' = [waited EXCEPT ![k] = @ + IF retries[k] > 2 THEN Pause(retries'[k]) ELSE 0]

\* The next turn of the loop up to ::connect.  From the fourth on it pauses first, with the
\* counter advanced already; nothing else happens in the pause.
NextTry(k) ==
    /\ cpc[k] = "again" /\ retries[k] < MaxRetries
    /\ retries' = [retries EXCEPT ![k] = @ + 1]
    /\ waited' = [waited EXCEPT ![k] = @ + IF retries[k] > 2 THEN Pause(retries'[k]) ELSE 0]

\* ::connect, addEvent and yield.  The entry of an earlier owner that waits to read is only
\* modified, in vain: nobody will resume this coroutine.
Attempt(k) ==
    /\ NextTry(k) /\ stale[k] # "WRITE"
    /\ StartsHandshake(k)
    /\ GoesTo(k, IF stale[k] = "READ" THEN "lost" ELSE "wait")
    /\ UNCHANGED <<servers, csock, stale>>

\* addEvent returns end for an entry that waits to write already: EPERM.  ::connect has been
\* called by then, but what it started ends with the socket, in the same step.
AttemptRefused(k) ==
    /\ cpc[k] = "again" /\ retries[k] < MaxRetries /\ stale[k] = "WRITE"
    /\ Fails(k)
    /\ UNCHANGED <<servers, faults>>

\* Mutation: what follows is decided by SO_ERROR alone.
CheckErrorOnly(k) ==
    /\ cpc[k] = "wait" /\ link[k] # "syn"
    /\ link[k] \notin {"refused", "timedout", "reset"}
    /\ GoesTo(k, "up") /\ Forget(k)
    /\ UNCHANGED <<servers, link, csock, stale, faults>>

\* The socket is writable, in error or hung up, the coroutine is resumed: SO_ERROR is 0.
\* It is 0 for a socket that is not connected, too.
NoError(k) ==
    /\ cpc[k] = "wait" /\ link[k] # "syn"
    /\ link[k] \notin {"refused", "timedout", "reset"}
    /\ GoesTo(k, "peer")
    /\ UNCHANGED <<servers, link, retries, csock, stale, waited, tries, faults>>

\* Mutation: ECONNREFUSED is not one of the errors that are tried again.
RefusedFails(k) ==
    /\ cpc[k] = "wait" /\ link[k] = "refused"
    /\ Fails(k)
    /\ UNCHANGED <<servers, faults>>

\* ECONNREFUSED, which reading SO_ERROR clears: try again.
Refused(k) ==
    /\ cpc[k] = "wait" /\ link[k] = "refused"
    /\ GoesTo(k, "again")
    /\ link' = [link EXCEPT ![k] = "spent"]
    /\ UNCHANGED <<servers, retries, csock, stale, waited, tries, faults>>

\* Any other error is final.
OtherError(k) ==
    /\ cpc[k] = "wait" /\ link[k] \in {"timedout", "reset"}
    /\ Fails(k)
    /\ UNCHANGED <<servers, faults>>

\* getpeername has an answer: connect returns true.
HasPeer(k) ==
    /\ cpc[k] = "peer" /\ link[k] \in Connected
    /\ GoesTo(k, "up") /\ Forget(k)
    /\ UNCHANGED <<servers, link, csock, stale, faults>>

\* It has none: try again.
NoPeer(k) ==
    /\ cpc[k] = "peer" /\ link[k] \notin Connected
    /\ GoesTo(k, "again")
    /\ UNCHANGED <<servers, link, retries, csock, stale, waited, tries, faults>>

\* Mutation: the retries start over.
GiveUpNever(k) ==
    /\ cpc[k] = "again" /\ retries[k] = MaxRetries
    /\ Forget(k)
    /\ UNCHANGED <<servers, cpc, csock, stale, link, faults>>

\* The retries are used up.
GiveUp(k) ==
    /\ cpc[k] = "again" /\ retries[k] = MaxRetries
    /\ Fails(k)
    /\ UNCHANGED <<servers, faults>>

\* The user closes or destroys a connected client.
CloseClient(k) ==
    /\ cpc[k] = "up" /\ csock[k]
    /\ csock' = [csock EXCEPT ![k] = FALSE]
    /\ link' = [link EXCEPT ![k] = Left(@)]
    /\ UNCHANGED <<servers, cpc, retries, stale, waited, tries, faults>>

Client(k) ==
    \/ Attempt(k) \/ AttemptRefused(k)
    \/ NoError(k) \/ Refused(k) \/ OtherError(k) \/ HasPeer(k) \/ NoPeer(k) \/ GiveUp(k)

-----------------------------------------------------------------------------
(* The kernels.                                                              *)

\* The handshake ends in the backlog of one of the listening sockets (SO_REUSEPORT).
Handshake(k) ==
    /\ link[k] = "syn"
    /\ \E f \in Fd :
         /\ sock[f] = "listening" /\ Len(backlog[f]) < Backlog
         /\ backlog' = [backlog EXCEPT ![f] = Append(@, k)]
    /\ link' = [link EXCEPT ![k] = "queued"]
    /\ UNCHANGED <<stack, object, arg, sock, entry, watched, labour, closes, strays,
                   clientVars, faults>>

Refuse(k) ==
    /\ link[k] = "syn" /\ ~Listening
    /\ link' = [link EXCEPT ![k] = "refused"]
    /\ UNCHANGED <<servers, clientVars, faults>>

\* The network, or a full backlog, loses the request and its repetitions.
TimesOut(k) ==
    /\ link[k] = "syn" /\ faults < MaxFaults
    /\ faults' = faults + 1
    /\ link' = [link EXCEPT ![k] = "timedout"]
    /\ UNCHANGED <<servers, clientVars>>

Next ==
    \/ ServerNext /\ UNCHANGED <<clientVars, faults>>
    \/ \E k \in Clients : \/ MakeClient(k) \/ MakeNoSocket(k) \/ Client(k) \/ CloseClient(k)
                          \/ Handshake(k) \/ Refuse(k) \/ TimesOut(k)

\* The event loop resumes a client whose socket or timer is ready, and the kernels answer.
Spec ==
    /\ Init /\ [][Next]_vars
    /\ ServerFairness
    /\ \A k \in Clients : WF_vars(Client(k)) /\ WF_vars(Handshake(k) \/ Refuse(k))

-----------------------------------------------------------------------------
TypeOK ==
    /\ ServerTypeOK
    /\ cpc \in [Clients -> {"idle", "again", "wait", "lost", "peer", "up", "down"}]
    /\ retries \in [Clients -> 0 .. MaxRetries]
    /\ csock \in [Clients -> BOOLEAN]
    /\ stale \in [Clients -> {"none", "READ", "WRITE"}]
    /\ waited \in [Clients -> Nat] /\ tries \in [Clients -> 0 .. MaxRetries]
    /\ faults \in 0 .. MaxFaults

\* A client whose connect returned true has a connection that a server looks after: it waits
\* in the backlog of a socket that still listens, or has a worker with an open peer, until
\* that server ends it; a socket whose ::connect failed unseen, or was reset in between, is
\* not taken for connected, and no accept or close in whatever order leaves one waiting for
\* nobody (posix.h:204, 217-235; Server.h:83-85, 134-145).
ConnectionIsHeld ==
    strays = 0 =>
        \A k \in Clients : cpc[k] = "up" /\ csock[k] =>
            \/ /\ link[k] = "queued" /\ k \notin worker
               /\ \E f \in Fd : sock[f] = "listening" /\ \E i \in DOMAIN backlog[f] : backlog[f][i] = k
            \/ link[k] = "accepted" /\ k \in worker /\ sock[pfd[k]] = "peer"
            \/ link[k] \in {"shut", "reset"} /\ k \notin worker

\* A client that gives up has tried, as a refusal costs at most one attempt that only clears
\* the socket; the pauses together were less than twice the last one, each of them twice what
\* the comment in posix.h:196 says, and no socket is left (posix.h:193-200, 249-250;
\* Client.h:235-253).
GivesUpProperly ==
    [][ \A k \in Clients : cpc[k] = "again" /\ cpc'[k] = "down" /\ stale[k] # "WRITE" =>
            /\ ~csock'[k] /\ link'[k] \in {"none", "left"}
            /\ 2 * tries[k] >= MaxRetries
            /\ waited[k] <= IF MaxRetries < 4 THEN 0 ELSE Pause1 * (2 ^ (MaxRetries - 2) - 2) ]_vars

\* A server that listens two attempts before the last one, and goes on listening, is found
\* if the network does not fail and the connection is not reset by a server that is closed
\* (posix.h:193-250).
LateServerFound ==
    \A k \in Clients :
        Connecting(k) /\ retries[k] <= MaxRetries - 2 /\ stale[k] = "none" /\ Listening
            ~> cpc[k] = "up" \/ ~Listening \/ faults > 0 \/ link[k] = "reset"

\* connect returns, unless the number of the socket was closed under a coroutine
\* (posix.h:193-251).
ConnectReturns == \A k \in Clients : Connecting(k) ~> cpc[k] \in {"up", "down", "lost"}
=============================================================================
