--------------------------- MODULE ConnectProofs ---------------------------
(* Who owns which descriptor in the servers' process, for any number of     *)
(* servers, clients and descriptors.                                        *)
EXTENDS Connect, FiniteSetTheorems, NaturalsInduction, TLAPS

Places == {"idle", "init", "accept", "parked", "woken", "over"}
Socks  == {"free", "stdin", "bound", "listening", "peer"}
Links  == {"none", "syn", "refused", "spent", "timedout", "queued", "accepted", "shut",
           "reset", "left"}

Types ==
    /\ place \in [Servers -> Places]
    /\ sfd \in [Servers -> Numbers] /\ arg \in [Servers -> Numbers]
    /\ sock \in [Fd -> Socks]
    /\ backlog \in [Fd -> Seq(Clients)]
    /\ entry \in [Numbers -> Servers \cup {Nobody}]
    /\ watched \subseteq Fd
    /\ link \in [Clients -> Links]
    /\ worker \subseteq Clients
    /\ pfd \in [Clients -> Numbers] /\ boss \in [Clients -> Servers \cup {Nobody}]
    /\ closes \in Nat /\ strays \in Nat
    /\ cpc \in [Clients -> {"idle", "again", "wait", "lost", "peer", "up", "down"}]
    /\ csock \in [Clients -> BOOLEAN]

\* At most a listener runs and on top of it a worker that has not ended.
StackShape ==
    \/ stack = <<>>
    \/ \E c \in Servers \cup worker : stack = <<c>>
    \/ \E s \in Servers, k \in worker : stack = <<s, k>>

\* epoll watches only for those in the table.
Watching == \A f \in watched : entry[f] # Nobody

\* A worker was started by a server that has got as far as its loop, for a number.
Employed ==
    /\ \A k \in worker : /\ pfd[k] \in Fd /\ boss[k] \in Servers
                         /\ place[boss[k]] \in {"accept", "parked", "woken"}
    /\ \A k \in Clients \ worker : pfd[k] = None

\* A server has a number only while its coroutine goes on, and without a close it has one.
Possesses ==
    \A s \in Servers : /\ place[s] \in {"idle", "over"} => sfd[s] = None
                       /\ sfd[s] = None /\ closes = 0 => place[s] \in {"idle", "over"}

\* Without a close, an entry of the table is that of a listener on its own number.
Parked ==
    closes = 0 =>
        /\ strays = 0
        /\ \A f \in Numbers : entry[f] # Nobody =>
               place[entry[f]] = "parked" /\ sfd[entry[f]] = f

\* What open numbers are open for, and whose they are.
Owned ==
    /\ sock[0] = "stdin" /\ \A f \in Fd \ {0} : sock[f] # "stdin"
    /\ \A s \in Servers : sfd[s] # None => sfd[s] # 0 /\ sock[sfd[s]] \in {"bound", "listening"}
    /\ \A s, t \in Servers : sfd[s] # None /\ sfd[s] = sfd[t] => s = t
    /\ \A k \in worker : pfd[k] # 0 /\ sock[pfd[k]] = "peer"
    /\ \A k, l \in worker : pfd[k] = pfd[l] => k = l
    /\ \A f \in Fd : sock[f] \in {"bound", "listening"} => \E s \in Servers : sfd[s] = f
    /\ \A f \in Fd : sock[f] = "peer" => \E k \in worker : pfd[k] = f

\* A connection is in one place of one backlog, or has a worker.
Queues ==
    /\ \A f \in Fd : \A i \in 1 .. Len(backlog[f]) :
           /\ sock[f] = "listening"
           /\ link[backlog[f][i]] \in {"queued", "left"} /\ backlog[f][i] \notin worker
    /\ \A f, g \in Fd : \A i \in 1 .. Len(backlog[f]), j \in 1 .. Len(backlog[g]) :
           backlog[f][i] = backlog[g][j] => f = g /\ i = j
    /\ \A k \in worker : link[k] \in {"accepted", "left"}

\* A socket that ::connect is called on again has no connection.
Settled ==
    \A k \in Clients :
        /\ cpc[k] = "idle" => link[k] = "none"
        /\ cpc[k] \in {"again", "peer"} => link[k] # "syn"
        /\ cpc[k] = "again" => link[k] \notin {"queued", "accepted"}
        /\ link[k] = "left" => ~csock[k] /\ cpc[k] \in {"up", "down"}

IInv ==
    /\ Types /\ StackShape /\ Watching /\ Employed /\ Possesses /\ Parked /\ Settled
    /\ strays = 0 => Owned /\ Queues

-----------------------------------------------------------------------------
LEMMA InitIInv == Init => IInv
<1> SUFFICES ASSUME Init PROVE IInv
  OBVIOUS
<1> USE DEF Init, InitServers
<1>1. 0 \in Fd /\ None \in Numbers /\ None \notin Fd
  BY NumbersAssumption DEF Numbers
<1>2. Types
  BY <1>1 DEF Types, Places, Socks, Links
<1>3. StackShape /\ Watching /\ Employed /\ Possesses /\ Parked /\ Settled
  BY <1>1 DEF StackShape, Watching, Employed, Possesses, Parked, Settled
<1>4. Owned /\ Queues
  BY <1>1 DEF Owned, Queues
<1>5. QED BY <1>2, <1>3, <1>4 DEF IInv

\* There is a lowest free number, if there is one at all.
LEMMA LowestIsFree == FreeFd # {} => Lowest \in Fd /\ sock[Lowest] = "free"
<1> SUFFICES ASSUME FreeFd # {} PROVE Lowest \in FreeFd
  BY DEF FreeFd
<1>1. FreeFd \subseteq Nat
  BY NumbersAssumption DEF FreeFd
<1>2. PICK f \in FreeFd : \A g \in FreeFd : <<g, f>> \notin OpToRel(<, Nat)
  BY <1>1, NatLessThanWellFounded, WFMin, Zenon
<1>3. \A g \in FreeFd : ~(g < f)
  BY <1>1, <1>2, Zenon DEF OpToRel
<1>4. \A g \in FreeFd : f <= g
  BY <1>1, <1>3
<1>5. QED BY <1>4, Zenon DEF Lowest

-----------------------------------------------------------------------------
(* Clients, and the kernels: nothing of the server moves.                    *)

\* What is queued or accepted stays so, or is left.
LEMMA ClientKeeps ==
  ASSUME IInv, UNCHANGED servers,
         link' \in [Clients -> Links],
         cpc' \in [Clients -> {"idle", "again", "wait", "lost", "peer", "up", "down"}],
         csock' \in [Clients -> BOOLEAN],
         \A k \in Clients : link[k] \in {"queued", "accepted", "left"} =>
                               link'[k] \in {link[k], "left"},
         Settled'
  PROVE  IInv'
<1> USE DEF IInv, servers
<1>1. Types'
  BY DEF Types, Numbers
<1>2. StackShape' /\ Watching' /\ Employed' /\ Possesses' /\ Parked'
  BY DEF StackShape, Watching, Employed, Possesses, Parked, Numbers
<1>3. Owned => Owned'
  BY DEF Owned
<1>4. ASSUME Queues PROVE Queues'
  <2>1. /\ sock' = sock /\ backlog' = backlog /\ worker' = worker /\ worker \subseteq Clients
        /\ backlog \in [Fd -> Seq(Clients)]
    BY DEF Types
  <2>2. ASSUME NEW f \in Fd, NEW i \in 1 .. Len(backlog[f])
        PROVE  link'[backlog[f][i]] \in {"queued", "left"}
    <3>1. backlog[f][i] \in Clients
      BY <2>1
    <3>2. link[backlog[f][i]] \in {"queued", "left"}
      BY <1>4 DEF Queues
    <3>3. QED BY <3>1, <3>2
  <2>3. ASSUME NEW k \in worker PROVE link'[k] \in {"accepted", "left"}
    BY <1>4, <2>1 DEF Queues
  <2>4. QED BY <1>4, <2>1, <2>2, <2>3 DEF Queues
<1>5. QED BY <1>1, <1>2, <1>3, <1>4

LEMMA LeftFacts ==
  /\ \A l \in Links : Left(l) \in {"left", "none"}
  /\ \A l \in {"queued", "accepted"} : Left(l) = "left"
  BY DEF Left, Links

\* The socket of a client that has not got a connection, or lets it go, is closed.
LEMMA ClosesKeeps ==
  ASSUME IInv, NEW k \in Clients, UNCHANGED servers, link[k] # "left",
         link' = [link EXCEPT ![k] = Left(@)], csock' = [csock EXCEPT ![k] = FALSE],
         \/ cpc' = [cpc EXCEPT ![k] = "down"]
         \/ cpc[k] = "up" /\ cpc' = cpc
  PROVE  IInv'
<1>1. /\ link' \in [Clients -> Links] /\ csock' \in [Clients -> BOOLEAN]
      /\ cpc' \in [Clients -> {"idle", "again", "wait", "lost", "peer", "up", "down"}]
  <2>1. link[k] \in Links /\ "left" \in Links /\ "none" \in Links
    BY DEF IInv, Types, Links
  <2>2. Left(link[k]) \in Links
    BY <2>1, LeftFacts
  <2>3. QED BY <2>2 DEF IInv, Types
<1>2. \A l \in Clients : link[l] \in {"queued", "accepted", "left"} =>
                             link'[l] \in {link[l], "left"}
  BY LeftFacts DEF IInv, Types
<1>3. Settled'
  BY LeftFacts DEF IInv, Settled, Types
<1>4. QED BY <1>1, <1>2, <1>3, ClientKeeps

LEMMA FailsKeeps ==
  ASSUME IInv, NEW k \in Clients, Connecting(k), Fails(k), UNCHANGED servers
  PROVE  IInv'
<1>1. link[k] # "left"
  BY DEF IInv, Settled, Connecting
<1>2. QED BY <1>1, ClosesKeeps DEF Fails, GoesTo

LEMMA ClientIInv ==
  ASSUME IInv, NEW k \in Clients,
         MakeClient(k) \/ MakeNoSocket(k) \/ Client(k) \/ CloseClient(k)
  PROVE  IInv'
<1> USE DEF GoesTo, NextTry
<1>1. CASE MakeClient(k)
  <2>1. link' = link /\ Types' /\ Settled'
    BY <1>1 DEF MakeClient, IInv, Types, Settled, servers, Numbers
  <2>2. QED BY <1>1, <2>1, ClientKeeps DEF MakeClient, IInv, Types
<1>2. CASE MakeNoSocket(k)
  <2>1. link' = link /\ Types' /\ Settled'
    BY <1>2 DEF MakeNoSocket, IInv, Types, Settled, servers, Numbers
  <2>2. QED BY <1>2, <2>1, ClientKeeps DEF MakeNoSocket, IInv, Types
<1>3. CASE Attempt(k)
  <2>1. /\ cpc[k] = "again" /\ link[k] \in Links \ {"syn", "queued", "accepted", "left"}
        /\ UNCHANGED servers /\ UNCHANGED csock
        /\ \/ cpc' = [cpc EXCEPT ![k] = "lost"]
           \/ cpc' = [cpc EXCEPT ![k] = "wait"]
        /\ \/ link' = [link EXCEPT ![k] = "syn"]
           \/ link' = [link EXCEPT ![k] = "none"]
           \/ link' = link
    BY <1>3 DEF Attempt, StartsHandshake, IInv, Types, Settled
  <2>2. Types'
    BY <2>1 DEF IInv, Types, servers, Numbers, Links
  <2>3. Settled'
    BY <2>1 DEF IInv, Types, Settled, servers, Links
  <2>4. QED BY <2>1, <2>2, <2>3, ClientKeeps DEF IInv, Types
<1>4. CASE AttemptRefused(k) \/ OtherError(k) \/ GiveUp(k)
  BY <1>4, FailsKeeps DEF AttemptRefused, OtherError, GiveUp, Connecting
<1>5. CASE NoError(k) \/ NoPeer(k) \/ HasPeer(k)
  <2>1. /\ link' = link /\ csock' = csock /\ UNCHANGED servers
        /\ \/ cpc[k] = "wait" /\ link[k] # "syn" /\ cpc' = [cpc EXCEPT ![k] = "peer"]
           \/ /\ cpc[k] = "peer" /\ link[k] \notin {"queued", "accepted", "shut"}
              /\ cpc' = [cpc EXCEPT ![k] = "again"]
           \/ cpc[k] = "peer" /\ cpc' = [cpc EXCEPT ![k] = "up"]
    BY <1>5 DEF NoError, NoPeer, HasPeer, Connected
  <2>2. Types' /\ Settled'
    BY <2>1 DEF IInv, Types, Settled, servers, Numbers
  <2>3. QED BY <2>1, <2>2, ClientKeeps DEF IInv, Types
<1>6. CASE Refused(k)
  <2>1. Types' /\ Settled'
    BY <1>6 DEF Refused, IInv, Types, Settled, servers, Numbers, Links
  <2>2. QED BY <1>6, <2>1, ClientKeeps DEF Refused, IInv, Types
<1>7. CASE CloseClient(k)
  <2>1. link[k] # "left"
    BY <1>7 DEF CloseClient, IInv, Settled, Types
  <2>2. QED BY <1>7, <2>1, ClosesKeeps DEF CloseClient
<1>8. QED BY <1>1, <1>2, <1>3, <1>4, <1>5, <1>6, <1>7 DEF Client


LEMMA KernelIInv ==
  ASSUME IInv, NEW k \in Clients, Handshake(k) \/ Refuse(k) \/ TimesOut(k)
  PROVE  IInv'
<1>1. CASE Handshake(k)
  <2> USE <1>1 DEF IInv, Handshake, clientVars
  <2>1. PICK f \in Fd : /\ sock[f] = "listening"
                        /\ backlog' = [backlog EXCEPT ![f] = Append(@, k)]
    OBVIOUS
  <2>2. /\ backlog[f] \in Seq(Clients) /\ link[k] = "syn"
        /\ Len(backlog'[f]) = Len(backlog[f]) + 1 /\ backlog'[f][Len(backlog[f]) + 1] = k
        /\ \A i \in 1 .. Len(backlog[f]) : backlog'[f][i] = backlog[f][i]
        /\ \A g \in Fd \ {f} : backlog'[g] = backlog[g]
        /\ backlog' \in [Fd -> Seq(Clients)]
        /\ link' = [link EXCEPT ![k] = "queued"] /\ link \in [Clients -> Links]
    BY <2>1 DEF Types
  <2>3. Types'
    BY <2>2 DEF Types, object, labour, Numbers, Links
  <2>4. StackShape' /\ Watching' /\ Employed' /\ Possesses' /\ Parked'
    BY DEF StackShape, Watching, Employed, Possesses, Parked, object, labour, Numbers
  <2>5. Settled'
    BY <2>2 DEF Settled
  <2>6. Owned => Owned'
    BY DEF Owned, object, labour
  <2>7. ASSUME Queues PROVE Queues'
    <3>1. k \notin worker /\ worker' = worker /\ sock' = sock
      BY <2>2, <2>7 DEF Queues, labour
    <3>2. \A g \in Fd : \A i \in 1 .. Len(backlog[g]) : backlog[g][i] # k
      BY <2>2, <2>7 DEF Queues
    <3>3. ASSUME NEW g \in Fd, NEW i \in 1 .. Len(backlog'[g])
          PROVE  \/ g = f /\ i = Len(backlog[f]) + 1 /\ backlog'[g][i] = k
                 \/ /\ i \in 1 .. Len(backlog[g]) /\ backlog'[g][i] = backlog[g][i]
                    /\ backlog'[g][i] \in Clients \ {k}
      <4>1. Len(backlog[g]) \in Nat /\ \A j \in 1 .. Len(backlog[g]) : backlog[g][j] \in Clients
        BY DEF Types
      <4>2. QED BY <2>2, <3>2, <3>3, <4>1
    <3>4. ASSUME NEW g \in Fd, NEW i \in 1 .. Len(backlog'[g])
          PROVE  /\ sock'[g] = "listening"
                 /\ link'[backlog'[g][i]] \in {"queued", "left"} /\ backlog'[g][i] \notin worker'
      BY <2>1, <2>2, <2>7, <3>1, <3>3, <3>4 DEF Queues
    <3>5. ASSUME NEW g \in Fd, NEW h \in Fd, NEW i \in 1 .. Len(backlog'[g]),
                 NEW j \in 1 .. Len(backlog'[h]), backlog'[g][i] = backlog'[h][j]
          PROVE  g = h /\ i = j
      <4>1. \/ g = f /\ i = Len(backlog[f]) + 1 /\ backlog'[g][i] = k
            \/ /\ i \in 1 .. Len(backlog[g]) /\ backlog'[g][i] = backlog[g][i]
               /\ backlog'[g][i] # k
        BY <3>3
      <4>2. \/ h = f /\ j = Len(backlog[f]) + 1 /\ backlog'[h][j] = k
            \/ /\ j \in 1 .. Len(backlog[h]) /\ backlog'[h][j] = backlog[h][j]
               /\ backlog'[h][j] # k
        BY <3>3
      <4>3. QED BY <2>7, <3>5, <4>1, <4>2 DEF Queues
    <3>6. \A l \in worker' : link'[l] \in {"accepted", "left"}
      BY <2>2, <2>7, <3>1 DEF Queues, Types
    <3>7. QED BY <3>4, <3>5, <3>6 DEF Queues
  <2>8. QED BY <2>3, <2>4, <2>5, <2>6, <2>7
<1>2. CASE Refuse(k) \/ TimesOut(k)
  <2>1. /\ link[k] = "syn" /\ UNCHANGED servers /\ UNCHANGED <<cpc, csock>>
        /\ \/ link' = [link EXCEPT ![k] = "refused"]
           \/ link' = [link EXCEPT ![k] = "timedout"]
    BY <1>2 DEF Refuse, TimesOut, clientVars
  <2>2. link' \in [Clients -> Links] /\ Settled'
    BY <2>1 DEF IInv, Types, Settled, Links
  <2>3. \A l \in Clients : link[l] \in {"queued", "accepted", "left"} =>
                               link'[l] \in {link[l], "left"}
    BY <2>1 DEF IInv, Types
  <2>4. QED BY <2>1, <2>2, <2>3, ClientKeeps DEF IInv, Types
<1>3. QED BY <1>1, <1>2

-----------------------------------------------------------------------------
(* The servers' process: what suspends and resumes only.                     *)

\* A listener runs alone, a worker on top of one at most.
LEMMA ListenerOnTop ==
  ASSUME StackShape, worker \subseteq Clients, NEW s \in Servers, Runs(s)
  PROVE  stack = <<s>> /\ (Suspend => stack' = <<>>)
<1>1. ASSUME NEW c \in Servers \cup worker, stack = <<c>> PROVE stack = <<s>>
  BY <1>1 DEF Runs
<1>2. ASSUME NEW t \in Servers, NEW k \in worker, stack = <<t, k>> PROVE FALSE
  BY <1>2, NobodyAssumption DEF Runs
<1>3. stack = <<s>>
  BY <1>1, <1>2 DEF StackShape, Runs
<1>4. QED BY <1>3 DEF Suspend

LEMMA WorkerOnTop ==
  ASSUME StackShape, worker \subseteq Clients, NEW k \in Clients, Runs(k)
  PROVE  k \in worker /\ (Suspend => stack' = <<>> \/ \E s \in Servers : stack' = <<s>>)
<1>1. ASSUME NEW c \in Servers \cup worker, stack = <<c>>
      PROVE  k \in worker /\ (Suspend => stack' = <<>>)
  <2>1. k = c
    BY <1>1 DEF Runs
  <2>2. SubSeq(stack, 1, Len(stack) - 1) = <<>>
    BY <1>1
  <2>3. QED BY <2>1, <2>2, NobodyAssumption DEF Suspend
<1>2. ASSUME NEW s \in Servers, NEW l \in worker, stack = <<s, l>>
      PROVE  k \in worker /\ (Suspend => stack' = <<s>>)
  <2>1. k = l
    BY <1>2 DEF Runs
  <2>2. SubSeq(stack, 1, Len(stack) - 1) = <<s>>
    <3>1. Len(stack) = 2 /\ stack[1] = s /\ stack \in Seq({s, l})
      BY <1>2
    <3>2. SubSeq(stack, 1, Len(stack) - 1) = [i \in 1 .. 1 |-> stack[i]]
      BY <3>1
    <3>3. <<s>> = [i \in 1 .. 1 |-> stack[i]]
      BY <3>1
    <3>4. QED BY <3>2, <3>3
  <2>3. QED BY <2>1, <2>2 DEF Suspend
<1>3. QED BY <1>1, <1>2 DEF StackShape, Runs

\* What a step that touches no descriptor and no connection has to show.
LEMMA QuietKeeps ==
  ASSUME IInv, UNCHANGED <<sfd, sock, backlog, link, labour, closes, strays, clientVars>>,
         place' \in [Servers -> Places], arg' \in [Servers -> Numbers],
         entry' \in [Numbers -> Servers \cup {Nobody}], watched' \subseteq Fd,
         StackShape', Watching', Employed', Possesses', Parked'
  PROVE  IInv'
<1> USE DEF labour, clientVars
<1>1. Types' /\ Settled'
  BY DEF IInv, Types, Settled, Numbers
<1>2. Owned => Owned'
  BY DEF Owned
<1>3. Queues => Queues'
  BY DEF Queues
<1>4. QED BY <1>1, <1>2, <1>3 DEF IInv

\* A listener that fails, parks or goes on.
LEMMA ParksIInv ==
  ASSUME IInv, UNCHANGED clientVars, NEW s \in Servers,
         InitNoSocket(s) \/ AcceptParks(s) \/ AcceptAgainFails(s)
  PROVE  IInv'
<1> USE DEF At, GoTo, object, kernel
<1>0. /\ Types /\ StackShape /\ Watching /\ Employed /\ Possesses /\ Parked
      /\ worker \subseteq Clients
      /\ place \in [Servers -> Places] /\ arg \in [Servers -> Numbers]
      /\ entry \in [Numbers -> Servers \cup {Nobody}] /\ watched \subseteq Fd
      /\ sfd \in [Servers -> Numbers]
  BY DEF IInv, Types
<1>1. CASE InitNoSocket(s)
  <2> USE <1>1 DEF InitNoSocket, labour
  <2>1. place' = [place EXCEPT ![s] = "over"] /\ place[s] = "idle" /\ sfd[s] = None
    BY <1>0 DEF Possesses
  <2>2. place' \in [Servers -> Places]
    BY <1>0, <2>1 DEF Places
  <2>3. StackShape' /\ Watching'
    BY <1>0 DEF StackShape, Watching
  <2>4. Employed' /\ Possesses'
    BY <1>0, <2>1 DEF Employed, Possesses
  <2>5. Parked'
    BY <1>0, <2>1 DEF Parked
  <2>6. QED BY <1>0, <2>2, <2>3, <2>4, <2>5, QuietKeeps
<1>2. CASE AcceptParks(s)
  <2> USE <1>2 DEF AcceptParks, labour
  <2>1. place' = [place EXCEPT ![s] = "parked"] /\ place[s] = "accept" /\ sfd[s] \in Numbers
    BY <1>0
  <2>2. /\ place' \in [Servers -> Places] /\ arg' \in [Servers -> Numbers]
        /\ entry' \in [Numbers -> Servers \cup {Nobody}] /\ watched' \subseteq Fd
    BY <1>0, <2>1 DEF Places
  <2>3. StackShape'
    BY <1>0, ListenerOnTop DEF StackShape
  <2>4. Watching'
    BY <1>0, <2>1, NobodyAssumption DEF Watching, Numbers
  <2>5. Employed' /\ Possesses'
    BY <1>0, <2>1 DEF Employed, Possesses
  <2>6. Parked'
    BY <1>0, <2>1 DEF Parked
  <2>7. QED BY <1>0, <2>2, <2>3, <2>4, <2>5, <2>6, QuietKeeps
<1>3. CASE AcceptAgainFails(s)
  <2> USE <1>3 DEF AcceptAgainFails, labour
  <2>1. place' = [place EXCEPT ![s] = "accept"] /\ place[s] = "woken"
    BY <1>0
  <2>2. place' \in [Servers -> Places] /\ arg' \in [Servers -> Numbers]
    BY <1>0, <2>1 DEF Places, Numbers
  <2>3. StackShape' /\ Watching'
    BY <1>0 DEF StackShape, Watching
  <2>4. Employed' /\ Possesses'
    BY <1>0, <2>1 DEF Employed, Possesses
  <2>5. Parked'
    BY <1>0, <2>1 DEF Parked
  <2>6. QED BY <1>0, <2>2, <2>3, <2>4, <2>5, QuietKeeps
<1>4. QED BY <1>1, <1>2, <1>3

\* The entry of a number that is ready goes, its listener comes back.
LEMMA WakeIInv ==
  ASSUME IInv, UNCHANGED clientVars, NEW f \in Fd, Wake(f)
  PROVE  IInv'
<1> USE DEF GoTo, object, kernel
<1>0. /\ Types /\ StackShape /\ Watching /\ Employed /\ Possesses /\ Parked
      /\ worker \subseteq Clients
      /\ place \in [Servers -> Places] /\ arg \in [Servers -> Numbers]
      /\ entry \in [Numbers -> Servers \cup {Nobody}] /\ watched \subseteq Fd
      /\ sfd \in [Servers -> Numbers]
  BY DEF IInv, Types
<1> USE DEF Wake, labour
<1>1. entry[f] \in Servers /\ f \in Numbers /\ stack' = <<entry[f]>>
  BY <1>0 DEF Watching, Numbers
<1>2. /\ place' = [place EXCEPT ![entry[f]] = "woken"]
      /\ entry' = [entry EXCEPT ![f] = Nobody] /\ watched' = watched \ {f}
  OBVIOUS
<1>3. place' \in [Servers -> Places] /\ entry' \in [Numbers -> Servers \cup {Nobody}]
  BY <1>0, <1>1, <1>2 DEF Places
<1>4. StackShape' /\ Watching'
  BY <1>0, <1>1, <1>2 DEF StackShape, Watching, Numbers
<1>5. closes = 0 => place[entry[f]] = "parked" /\ sfd[entry[f]] = f /\ f # None
  BY <1>0, <1>1, NobodyAssumption, NumbersAssumption DEF Parked
<1>6. Employed'
  BY <1>0, <1>1, <1>2 DEF Employed
<1>7. Possesses'
  BY <1>0, <1>1, <1>2, <1>5 DEF Possesses
<1>8. Parked'
  BY <1>0, <1>1, <1>2, <1>5 DEF Parked
<1>9. QED BY <1>0, <1>3, <1>4, <1>6, <1>7, <1>8, QuietKeeps

LEMMA WorkerTurnsIInv ==
  ASSUME IInv, UNCHANGED clientVars, NEW k \in Clients, WorkerYields(k) \/ WorkerResumes(k)
  PROVE  IInv'
<1> USE DEF WorkerYields, WorkerResumes, object, kernel, labour
<1>0. /\ Types /\ StackShape /\ Watching /\ Employed /\ Possesses /\ Parked
      /\ worker \subseteq Clients
      /\ place \in [Servers -> Places] /\ arg \in [Servers -> Numbers]
      /\ entry \in [Numbers -> Servers \cup {Nobody}] /\ watched \subseteq Fd
      /\ sfd \in [Servers -> Numbers]
  BY DEF IInv, Types
<1>1. StackShape'
  BY <1>0, WorkerOnTop DEF StackShape
<1>2. Watching' /\ Employed' /\ Possesses' /\ Parked'
  BY <1>0 DEF Watching, Employed, Possesses, Parked
<1>3. QED BY <1>0, <1>1, <1>2, QuietKeeps

-----------------------------------------------------------------------------
(* Numbers that are closed.                                                  *)

LEMMA CloseFacts ==
  ASSUME Types, NEW f \in Fd, CloseNumber(f)
  PROVE  /\ sock' = [sock EXCEPT ![f] = "free"] /\ sock' \in [Fd -> Socks]
         /\ watched' = watched \ {f} /\ watched' \subseteq Fd
         /\ backlog' = [backlog EXCEPT ![f] = <<>>] /\ backlog' \in [Fd -> Seq(Clients)]
         /\ link' \in [Clients -> Links]
         /\ \A k \in Clients : \/ link'[k] = link[k]
                               \/ link[k] = "queued" /\ link'[k] = "reset"
                               \/ link[k] = "accepted" /\ link'[k] = "shut"
                               \/ link[k] = "left" /\ link'[k] = "none"
         /\ \A k \in Clients : link'[k] # link[k] =>
                pfd[k] = f \/ \E i \in 1 .. Len(backlog[f]) : backlog[f][i] = k
<1> DEFINE in == {backlog[f][i] : i \in DOMAIN backlog[f]}
           L(k) == CASE link[k] = "queued" /\ k \in in       -> "reset"
                     [] link[k] = "accepted" /\ pfd[k] = f    -> "shut"
                     [] link[k] = "left" /\ (k \in in \/ pfd[k] = f) -> "none"
                     [] OTHER                                -> link[k]
<1>1. link' = [k \in Clients |-> L(k)]
  BY DEF CloseNumber
<1>2. DOMAIN backlog[f] = 1 .. Len(backlog[f])
  BY DEF Types
<1>3. ASSUME NEW k \in Clients
      PROVE  /\ \/ L(k) = link[k]
                \/ link[k] = "queued" /\ L(k) = "reset"
                \/ link[k] = "accepted" /\ L(k) = "shut"
                \/ link[k] = "left" /\ L(k) = "none"
             /\ L(k) # link[k] => pfd[k] = f \/ k \in in
  OBVIOUS
<1>4. \A k \in Clients : k \in in => \E i \in 1 .. Len(backlog[f]) : backlog[f][i] = k
  BY <1>2
<1>5. \A k \in Clients : L(k) \in Links
  BY <1>3 DEF Types, Links
<1> HIDE DEF L, in
<1>6. link' \in [Clients -> Links] /\ \A k \in Clients : link'[k] = L(k)
  BY <1>1, <1>5
<1>7. /\ sock' = [sock EXCEPT ![f] = "free"] /\ sock' \in [Fd -> Socks]
      /\ watched' = watched \ {f} /\ watched' \subseteq Fd
      /\ backlog' = [backlog EXCEPT ![f] = <<>>] /\ backlog' \in [Fd -> Seq(Clients)]
  BY DEF CloseNumber, Types, Socks
<1>8. \A k \in Clients : link'[k] # link[k] =>
          pfd[k] = f \/ \E i \in 1 .. Len(backlog[f]) : backlog[f][i] = k
  BY <1>3, <1>4, <1>6
<1>9. \A k \in Clients : \/ link'[k] = link[k]
                         \/ link[k] = "queued" /\ link'[k] = "reset"
                         \/ link[k] = "accepted" /\ link'[k] = "shut"
                         \/ link[k] = "left" /\ link'[k] = "none"
  BY <1>3, <1>6
<1>10. QED BY <1>6, <1>7, <1>8, <1>9

\* Connections end under their clients, which does not put them back.
LEMMA SettledStays ==
  ASSUME Types, Settled, UNCHANGED <<cpc, csock>>, NEW f \in Fd, CloseNumber(f)
  PROVE  Settled'
<1>1. \A k \in Clients : \/ link'[k] = link[k]
                         \/ link[k] = "queued" /\ link'[k] = "reset"
                         \/ link[k] = "accepted" /\ link'[k] = "shut"
                         \/ link[k] = "left" /\ link'[k] = "none"
  BY CloseFacts
<1>2. QED BY <1>1 DEF Settled

\* The keeper of a number closes it and forgets it.
LEMMA KeeperCloses ==
  ASSUME Types, Employed, Owned, Queues, NEW f \in Fd, CloseNumber(f),
         \/ \E s \in Servers : /\ sfd[s] = f /\ sfd' = [sfd EXCEPT ![s] = None]
                               /\ UNCHANGED <<worker, pfd>>
         \/ \E k \in worker : /\ pfd[k] = f /\ worker' = worker \ {k}
                              /\ pfd' = [pfd EXCEPT ![k] = None] /\ UNCHANGED sfd
  PROVE  Owned' /\ Queues'
<1>1. None \notin Fd /\ 0 \in Fd
  BY NumbersAssumption
<1>2. /\ sock' = [sock EXCEPT ![f] = "free"] /\ sock \in [Fd -> Socks]
      /\ f # 0 /\ worker' \subseteq worker /\ worker \subseteq Clients
      /\ pfd \in [Clients -> Numbers] /\ sfd \in [Servers -> Numbers]
  <2>1. sock' = [sock EXCEPT ![f] = "free"]
    BY CloseFacts
  <2>2. f # 0
    BY <1>1 DEF Owned
  <2>3. worker' \subseteq worker
    OBVIOUS
  <2>4. QED BY <2>1, <2>2, <2>3 DEF Types
<1>3. \A s \in Servers : sfd'[s] = (IF sfd[s] = f THEN None ELSE sfd[s])
  BY <1>1, <1>2 DEF Owned
<1>4. \A k \in worker : (k \in worker' <=> pfd[k] # f) /\ (k \in worker' => pfd'[k] = pfd[k])
  BY <1>1, <1>2 DEF Owned
<1>5. Owned'
  <2>1. sock'[0] = "stdin" /\ \A g \in Fd \ {0} : sock'[g] # "stdin"
    BY <1>1, <1>2 DEF Owned
  <2>2. \A s \in Servers : sfd'[s] # None =>
            sfd'[s] # 0 /\ sock'[sfd'[s]] \in {"bound", "listening"}
    BY <1>1, <1>2, <1>3 DEF Owned, Numbers
  <2>3. \A s, t \in Servers : sfd'[s] # None /\ sfd'[s] = sfd'[t] => s = t
    BY <1>3 DEF Owned
  <2>4. /\ \A k \in worker' : pfd'[k] # 0 /\ sock'[pfd'[k]] = "peer"
        /\ \A k, l \in worker' : pfd'[k] = pfd'[l] => k = l
    BY <1>2, <1>4 DEF Owned, Employed
  <2>5. \A g \in Fd : sock'[g] \in {"bound", "listening"} => \E s \in Servers : sfd'[s] = g
    BY <1>2, <1>3 DEF Owned
  <2>6. \A g \in Fd : sock'[g] = "peer" => \E k \in worker' : pfd'[k] = g
    BY <1>2, <1>4 DEF Owned
  <2>7. QED BY <2>1, <2>2, <2>3, <2>4, <2>5, <2>6 DEF Owned
<1>6. /\ backlog' = [backlog EXCEPT ![f] = <<>>] /\ backlog \in [Fd -> Seq(Clients)]
      /\ \A k \in Clients : link'[k] # link[k] =>
             pfd[k] = f \/ \E i \in 1 .. Len(backlog[f]) : backlog[f][i] = k
  BY CloseFacts DEF Types
<1>7. ASSUME NEW g \in Fd, NEW i \in 1 .. Len(backlog'[g])
      PROVE  g # f /\ backlog'[g] = backlog[g] /\ i \in 1 .. Len(backlog[g])
  BY <1>6
<1>8. Queues'
  <2>1. ASSUME NEW g \in Fd, NEW i \in 1 .. Len(backlog'[g])
        PROVE  /\ sock'[g] = "listening"
               /\ link'[backlog'[g][i]] \in {"queued", "left"} /\ backlog'[g][i] \notin worker'
    <3>1. /\ g # f /\ backlog'[g][i] = backlog[g][i] /\ i \in 1 .. Len(backlog[g])
          /\ backlog[g][i] \in Clients
      BY <1>6, <1>7, <2>1
    <3>2. backlog[g][i] \notin worker /\ pfd[backlog[g][i]] = None
      BY <3>1 DEF Queues, Employed
    <3>3. \A j \in 1 .. Len(backlog[f]) : backlog[f][j] # backlog[g][i]
      BY <3>1 DEF Queues
    <3>4. link'[backlog[g][i]] = link[backlog[g][i]]
      BY <1>1, <1>6, <3>1, <3>2, <3>3
    <3>5. QED BY <1>2, <3>1, <3>2, <3>4 DEF Queues
  <2>2. \A g, h \in Fd : \A i \in 1 .. Len(backlog'[g]), j \in 1 .. Len(backlog'[h]) :
           backlog'[g][i] = backlog'[h][j] => g = h /\ i = j
    BY <1>7 DEF Queues
  <2>3. \A k \in worker' : link'[k] \in {"accepted", "left"}
    <3>1. \A k \in worker' : k \in worker /\ k \in Clients /\ pfd[k] # f
      BY <1>2, <1>4
    <3>2. \A k \in worker : \A i \in 1 .. Len(backlog[f]) : backlog[f][i] # k
      BY DEF Queues
    <3>3. QED BY <1>6, <3>1, <3>2 DEF Queues
  <2>4. QED BY <2>1, <2>2, <2>3 DEF Queues
<1>9. QED BY <1>5, <1>8

\* The server's close of its own number, in place p at the end of it.
LEMMA ServerCloses ==
  ASSUME IInv, UNCHANGED clientVars, NEW s \in Servers, Close(s),
         UNCHANGED <<arg, entry, labour, strays>>, StackShape',
         \/ place' = [place EXCEPT ![s] = "over"] /\ place[s] = "init" /\ closes' = closes
         \/ place' = place /\ closes' = closes + 1 /\ sfd[s] # None
  PROVE  IInv'
<1> USE DEF labour, clientVars
<1>1. /\ Types /\ Watching /\ Employed /\ Possesses /\ Parked /\ Settled
      /\ sfd' = [sfd EXCEPT ![s] = None] /\ closes' \in Nat /\ closes \in Nat
      /\ place' \in [Servers -> Places]
  <2>1. Types /\ Watching /\ Employed /\ Possesses /\ Parked /\ Settled
    BY DEF IInv
  <2>2. place \in [Servers -> Places] /\ closes \in Nat /\ "over" \in Places
    BY <2>1 DEF Types, Places
  <2>3. QED BY <2>1, <2>2 DEF Close
<1>2. closes' = 0 => closes = 0 /\ place[s] = "init" /\ place' = [place EXCEPT ![s] = "over"]
  BY <1>1
<1>3. Employed'
  BY <1>1 DEF Employed, Types
<1>4. Possesses'
  BY <1>1, <1>2 DEF Possesses, Types
<1>5. Parked'
  BY <1>1, <1>2 DEF Parked, Types
<1>6. CASE sfd[s] = None
  <2>1. sfd' = sfd /\ UNCHANGED kernel
    BY <1>1, <1>6 DEF Close, Types
  <2>2. Types' /\ Watching' /\ Settled'
    BY <1>1, <2>1 DEF kernel, Types, Watching, Settled, Numbers
  <2>3. (Owned => Owned') /\ (Queues => Queues')
    BY <2>1 DEF kernel, Owned, Queues
  <2>4. QED BY <1>3, <1>4, <1>5, <2>2, <2>3 DEF IInv
<1>7. CASE sfd[s] # None
  <2>1. sfd[s] \in Fd /\ CloseNumber(sfd[s])
    BY <1>1, <1>7 DEF Close, Types, Numbers
  <2>2. Types'
    BY <1>1, <2>1, CloseFacts DEF Types, Numbers
  <2>3. Watching'
    BY <1>1, <2>1, CloseFacts DEF Watching
  <2>4. Settled'
    BY <1>1, <2>1, SettledStays
  <2>5. Owned /\ Queues => Owned' /\ Queues'
    BY <1>1, <2>1, KeeperCloses
  <2>6. QED BY <1>3, <1>4, <1>5, <2>2, <2>3, <2>4, <2>5 DEF IInv
<1>8. QED BY <1>6, <1>7

LEMMA CloseIInv ==
  ASSUME IInv, UNCHANGED clientVars, NEW s \in Servers, InitFails(s) \/ UserCloses(s)
  PROVE  IInv'
<1>1. StackShape'
  BY ListenerOnTop DEF IInv, Types, StackShape, InitFails, UserCloses, At, labour
<1>2. QED BY <1>1, ServerCloses DEF InitFails, UserCloses, At, GoTo

LEMMA WorkerEndsIInv ==
  ASSUME IInv, UNCHANGED clientVars, NEW k \in Clients, WorkerEnds(k)
  PROVE  IInv'
<1> USE DEF WorkerEnds, object, clientVars
<1>1. /\ Types /\ StackShape /\ Watching /\ Employed /\ Possesses /\ Parked /\ Settled
      /\ worker \subseteq Clients
  BY DEF IInv, Types
<1>2. k \in worker /\ (stack' = <<>> \/ \E s \in Servers : stack' = <<s>>)
  BY <1>1, WorkerOnTop
<1>3. pfd[k] \in Fd
  BY <1>1, <1>2 DEF Employed
<1>4. Types'
  BY <1>1, <1>3, CloseFacts DEF Types, Numbers
<1>5. StackShape' /\ Watching'
  BY <1>1, <1>2, <1>3, CloseFacts DEF StackShape, Watching
<1>6. Employed' /\ Possesses' /\ Parked'
  BY <1>1 DEF Employed, Possesses, Parked, Types
<1>7. Settled'
  BY <1>1, <1>3, SettledStays
<1>8. Owned /\ Queues => Owned' /\ Queues'
  BY <1>1, <1>2, <1>3, KeeperCloses
<1>9. QED BY <1>4, <1>5, <1>6, <1>7, <1>8 DEF IInv

\* Only after a close a listener meets an entry on its number that is not its own.
LEMMA DuplicateIInv ==
  ASSUME IInv, UNCHANGED clientVars, NEW s \in Servers, AcceptDuplicate(s)
  PROVE  IInv'
<1> USE DEF AcceptDuplicate, At, object, clientVars
<1>1. /\ Types /\ StackShape /\ Watching /\ Employed /\ Possesses /\ Parked /\ Settled
      /\ strays' > 0 /\ strays' \in Nat /\ 0 \in Fd
  BY NumbersAssumption DEF IInv, Types
<1>2. closes # 0
  <2> SUFFICES ASSUME closes = 0 PROVE FALSE
    OBVIOUS
  <2>1. sfd[s] # None /\ sfd[s] \in Numbers /\ entry[sfd[s]] \in Servers
    BY <1>1 DEF Possesses, Types
  <2>2. place[entry[sfd[s]]] = "parked" /\ sfd[entry[sfd[s]]] = sfd[s] /\ strays = 0
    BY <1>1, <2>1 DEF Parked
  <2>3. entry[sfd[s]] = s
    BY <2>1, <2>2 DEF IInv, Owned
  <2>4. QED BY <2>2, <2>3
<1>3. CASE UNCHANGED kernel
  BY <1>1, <1>2, <1>3
     DEF kernel, labour, IInv, Types, StackShape, Watching, Employed, Possesses, Parked, Settled,
         Numbers
<1>4. CASE CloseNumber(0)
  <2>1. Types'
    BY <1>1, <1>4, CloseFacts DEF Types, labour, Numbers
  <2>2. Watching'
    BY <1>1, <1>4, CloseFacts DEF Watching
  <2>3. StackShape' /\ Employed' /\ Possesses' /\ Parked'
    BY <1>1, <1>2 DEF StackShape, Employed, Possesses, Parked, labour
  <2>4. Settled'
    BY <1>1, <1>4, SettledStays
  <2>5. QED BY <1>1, <2>1, <2>2, <2>3, <2>4 DEF IInv
<1>5. QED BY <1>3, <1>4

-----------------------------------------------------------------------------
(* Numbers that are opened.                                                  *)

LEMMA InitSocketIInv ==
  ASSUME IInv, UNCHANGED clientVars, NEW s \in Servers, InitSocket(s)
  PROVE  IInv'
<1> USE DEF InitSocket, GoTo, labour, clientVars
<1>1. /\ Types /\ StackShape /\ Watching /\ Employed /\ Possesses /\ Parked /\ Settled
      /\ Lowest \in Fd /\ sock[Lowest] = "free" /\ None \notin Fd
      /\ sfd[s] = None /\ place[s] = "idle"
  BY LowestIsFree, NumbersAssumption DEF IInv, Possesses
<1> DEFINE m == Lowest
<1>2. /\ place' = [place EXCEPT ![s] = "init"] /\ sfd' = [sfd EXCEPT ![s] = m]
      /\ sock' = [sock EXCEPT ![m] = "bound"] /\ m \in Fd /\ sock[m] = "free"
  BY <1>1
<1> HIDE DEF m
<1>3. Types'
  BY <1>1, <1>2 DEF Types, Places, Socks, Numbers
<1>4. StackShape' /\ Watching' /\ Employed'
  BY <1>1, <1>2 DEF StackShape, Watching, Employed, Types
<1>5. Possesses' /\ Parked'
  BY <1>1, <1>2 DEF Possesses, Parked, Types
<1>6. Settled'
  BY <1>1 DEF Settled
<1>7. ASSUME Owned PROVE Owned'
  <2>1. /\ m # 0 /\ \A t \in Servers : sfd[t] # m
        /\ \A k \in worker : pfd[k] # m
    BY <1>1, <1>2, <1>7 DEF Owned
  <2>2. /\ sfd \in [Servers -> Numbers] /\ sock \in [Fd -> Socks]
        /\ \A k \in worker : pfd[k] \in Fd
    BY <1>1 DEF Types, Employed
  <2>3. /\ \A t \in Servers : sfd'[t] # None =>
               sfd'[t] # 0 /\ sock'[sfd'[t]] \in {"bound", "listening"}
        /\ \A t, u \in Servers : sfd'[t] # None /\ sfd'[t] = sfd'[u] => t = u
    BY <1>1, <1>2, <1>7, <2>1, <2>2 DEF Owned, Numbers
  <2>4. /\ \A k \in worker : pfd[k] # 0 /\ sock'[pfd[k]] = "peer"
        /\ \A f \in Fd : sock'[f] \in {"bound", "listening"} => \E t \in Servers : sfd'[t] = f
        /\ \A f \in Fd : sock'[f] = "peer" => \E k \in worker : pfd[k] = f
    BY <1>1, <1>2, <1>7, <2>1, <2>2 DEF Owned
  <2>5. sock'[0] = "stdin" /\ \A f \in Fd \ {0} : sock'[f] # "stdin"
    BY <1>2, <1>7, <2>1, <2>2, NumbersAssumption DEF Owned
  <2>6. QED BY <1>7, <2>3, <2>4, <2>5 DEF Owned
<1>8. Queues => Queues'
  BY <1>1, <1>2 DEF Queues, Types
<1>9. QED BY <1>3, <1>4, <1>5, <1>6, <1>7, <1>8 DEF IInv

LEMMA ListenIInv ==
  ASSUME IInv, UNCHANGED clientVars, NEW s \in Servers, Listen(s)
  PROVE  IInv'
<1> USE DEF Listen, At, GoTo, labour, clientVars
<1>1. /\ Types /\ StackShape /\ Watching /\ Employed /\ Possesses /\ Parked /\ Settled
      /\ place' = [place EXCEPT ![s] = "accept"] /\ place[s] = "init" /\ None \notin Fd
      /\ sfd[s] \in Numbers /\ 0 \in Fd
  BY NumbersAssumption DEF IInv, Types
<1>2. Types'
  BY <1>1 DEF Types, Places, Socks, Numbers
<1>3. StackShape' /\ Watching' /\ Employed' /\ Settled'
  BY <1>1 DEF StackShape, Watching, Employed, Settled, Types
<1>4. Possesses' /\ Parked'
  BY <1>1 DEF Possesses, Parked, Types
<1>5. ASSUME Owned, Queues PROVE Owned' /\ Queues'
  <2>1. \A f \in Fd : \/ sock'[f] = sock[f]
                      \/ sfd[s] = f /\ sock'[f] = "listening" /\ sock[f] \in {"bound", "listening"}
    <3>1. sock \in [Fd -> Socks] /\ sock' = [sock EXCEPT ![sfd[s]] = "listening"]
      BY <1>1 DEF Types
    <3>2. sfd[s] \in Fd => sock[sfd[s]] \in {"bound", "listening"}
      BY <1>1, <1>5 DEF Owned
    <3>3. ASSUME NEW f \in Fd
          PROVE  sock'[f] = IF f = sfd[s] THEN "listening" ELSE sock[f]
      BY <3>1
    <3>4. QED BY <3>2, <3>3
  <2>2. \A k \in worker : pfd[k] \in Fd
    BY <1>1 DEF Employed
  <2>3. \A t \in Servers : sfd[t] # None => sfd[t] \in Fd
    BY <1>1 DEF Types, Numbers
  <2>4. QED BY <1>1, <1>5, <2>1, <2>2, <2>3 DEF Owned, Queues
<1>6. QED BY <1>2, <1>3, <1>4, <1>5 DEF IInv

\* A listener's stack with the worker it resumes on top.
LEMMA Pushed ==
  ASSUME NEW S, NEW a \in S, NEW b \in S
  PROVE  Append(<<a>>, b) = <<a, b>>
<1> DEFINE q == Append(<<a>>, b)
           r == <<a, b>>
<1>1. q = [i \in 1 .. 2 |-> q[i]] /\ q[1] = a /\ q[2] = b
  OBVIOUS
<1>2. r = [i \in 1 .. 2 |-> r[i]] /\ r[1] = a /\ r[2] = b
  OBVIOUS
<1>3. \A i \in 1 .. 2 : i = 1 \/ i = 2
  OBVIOUS
<1> HIDE DEF q, r
<1>4. QED BY <1>1, <1>2, <1>3 DEF q, r

\* The head of a backlog moves to a worker, under a number that was free.
LEMMA AcceptPeerIInv ==
  ASSUME IInv, UNCHANGED clientVars, NEW s \in Servers, AcceptPeer(s)
  PROVE  IInv'
<1>1. /\ Types /\ StackShape /\ Watching /\ Employed /\ Possesses /\ Parked /\ Settled
      /\ place[s] \in {"accept", "woken"} /\ Runs(s) /\ None \notin Fd
      /\ worker \subseteq Clients /\ sfd' = sfd /\ entry' = entry /\ watched' = watched
      /\ closes' = closes /\ strays' = strays /\ cpc' = cpc /\ csock' = csock
      /\ place' = [place EXCEPT ![s] = "accept"] /\ arg' = [arg EXCEPT ![s] = None]
  BY NumbersAssumption DEF IInv, Types, AcceptPeer, At, GoTo, clientVars
<1>2. PICK n \in Fd, k \in Clients, m \in Fd :
        /\ sock[n] = "listening" /\ backlog[n] # <<>> /\ k = backlog[n][1] /\ sock[m] = "free"
        /\ backlog' = [backlog EXCEPT ![n] = Tail(backlog[n])]
        /\ link' = [link EXCEPT ![k] = IF link[k] = "queued" THEN "accepted" ELSE link[k]]
        /\ sock' = [sock EXCEPT ![m] = "peer"] /\ worker' = worker \cup {k}
        /\ pfd' = [pfd EXCEPT ![k] = m] /\ boss' = [boss EXCEPT ![k] = s]
        /\ stack' = Append(stack, k)
  <2> DEFINE n == AcceptsFrom(s)
  <2>1. n \in Numbers
    BY <1>1 DEF AcceptsFrom, Types
  <2>2. CanAccept(n)
    BY DEF AcceptPeer
  <2>3. /\ n \in Fd /\ sock[n] = "listening" /\ backlog[n] # <<>>
        /\ Lowest \in Fd /\ sock[Lowest] = "free"
    BY <2>1, <2>2, LowestIsFree DEF CanAccept, Numbers
  <2>4. Head(backlog[n]) = backlog[n][1] /\ Head(backlog[n]) \in Clients
    BY <1>1, <2>3 DEF Types
  <2>5. /\ backlog' = [backlog EXCEPT ![n] = Tail(backlog[n])]
        /\ link' = [link EXCEPT ![Head(backlog[n])] =
                       IF link[Head(backlog[n])] = "queued" THEN "accepted"
                       ELSE link[Head(backlog[n])]]
        /\ sock' = [sock EXCEPT ![Lowest] = "peer"] /\ worker' = worker \cup {Head(backlog[n])}
        /\ pfd' = [pfd EXCEPT ![Head(backlog[n])] = Lowest]
        /\ boss' = [boss EXCEPT ![Head(backlog[n])] = s]
        /\ stack' = Append(stack, Head(backlog[n]))
    BY DEF AcceptPeer
  <2> HIDE DEF n
  <2>6. QED BY <2>3, <2>4, <2>5
<1>3. /\ backlog[n] \in Seq(Clients) /\ Len(backlog[n]) \in Nat \ {0}
      /\ backlog'[n] \in Seq(Clients) /\ Len(backlog'[n]) = Len(backlog[n]) - 1
      /\ \A i \in 1 .. Len(backlog'[n]) :
             backlog'[n][i] = backlog[n][i + 1] /\ i + 1 \in 2 .. Len(backlog[n])
      /\ \A f \in Fd \ {n} : backlog'[f] = backlog[f]
  BY <1>1, <1>2 DEF Types
<1>4. Types'
  <2>1. backlog' \in [Fd -> Seq(Clients)]
    BY <1>1, <1>2, <1>3 DEF Types
  <2>2. place' \in [Servers -> Places] /\ arg' \in [Servers -> Numbers]
    BY <1>1 DEF Types, Places, Numbers
  <2>3. sock' \in [Fd -> Socks] /\ link' \in [Clients -> Links]
    BY <1>1, <1>2 DEF Types, Socks, Links
  <2>4. /\ worker' \subseteq Clients /\ pfd' \in [Clients -> Numbers]
        /\ boss' \in [Clients -> Servers \cup {Nobody}]
    BY <1>1, <1>2 DEF Types, Numbers
  <2>5. QED BY <1>1, <2>1, <2>2, <2>3, <2>4 DEF Types, Numbers
<1>5. StackShape'
  <2>1. stack = <<s>>
    BY <1>1, ListenerOnTop
  <2>2. stack' = Append(<<s>>, k)
    BY <1>2, <2>1
  <2>3. Append(<<s>>, k) = <<s, k>>
    <3>1. s \in Servers \cup Clients /\ k \in Servers \cup Clients
      OBVIOUS
    <3>2. QED BY <3>1, Pushed
  <2>4. k \in worker'
    BY <1>2
  <2>5. QED BY <2>2, <2>3, <2>4 DEF StackShape
<1>6. Watching' /\ Parked' /\ Possesses'
  BY <1>1 DEF Watching, Parked, Possesses, Types
<1>7. Employed'
  <2>1. ASSUME NEW l \in worker'
        PROVE  /\ pfd'[l] \in Fd /\ boss'[l] \in Servers
               /\ place'[boss'[l]] \in {"accept", "parked", "woken"}
    BY <1>1, <1>2 DEF Employed, Types
  <2>2. \A l \in Clients \ worker' : pfd'[l] = None
    BY <1>1, <1>2 DEF Employed, Types
  <2>3. QED BY <2>1, <2>2 DEF Employed
<1>8. Settled'
  BY <1>1, <1>2 DEF Settled, Types
<1>9. ASSUME Owned, Queues PROVE Owned' /\ Queues'
  <2>1. k \notin worker /\ link[k] \in {"queued", "left"} /\ link'[k] \in {"accepted", "left"}
    BY <1>1, <1>2, <1>3, <1>9 DEF Queues, Types
  <2>2. /\ m # 0 /\ \A t \in Servers : sfd[t] # m
        /\ \A l \in worker : pfd[l] # m /\ pfd[l] \in Fd /\ pfd'[l] = pfd[l] /\ l \in Clients
        /\ pfd'[k] = m /\ sock'[m] = "peer" /\ \A f \in Fd \ {m} : sock'[f] = sock[f]
    BY <1>1, <1>2, <1>9, <2>1 DEF Owned, Employed, Types
  <2>3. Owned'
    <3>1. sock'[0] = "stdin" /\ \A f \in Fd \ {0} : sock'[f] # "stdin"
      BY <1>9, <2>2, NumbersAssumption DEF Owned
    <3>2. \A t \in Servers : sfd[t] # None => sfd[t] # 0 /\ sock'[sfd[t]] \in {"bound", "listening"}
      BY <1>1, <1>9, <2>2 DEF Owned, Types, Numbers
    <3>3. /\ \A l \in worker' : pfd'[l] # 0 /\ sock'[pfd'[l]] = "peer"
          /\ \A l, j \in worker' : pfd'[l] = pfd'[j] => l = j
      BY <1>2, <1>9, <2>2 DEF Owned
    <3>4. /\ \A f \in Fd : sock'[f] \in {"bound", "listening"} => \E t \in Servers : sfd[t] = f
          /\ \A f \in Fd : sock'[f] = "peer" => \E l \in worker' : pfd'[l] = f
      BY <1>2, <1>9, <2>2 DEF Owned
    <3>5. QED BY <1>1, <1>9, <3>1, <3>2, <3>3, <3>4 DEF Owned
  <2>4. n # m
    BY <1>2
  <2>5. ASSUME NEW f \in Fd, NEW i \in 1 .. Len(backlog'[f])
        PROVE  \E j \in 1 .. Len(backlog[f]) :
                  /\ backlog'[f][i] = backlog[f][j] /\ j = IF f = n THEN i + 1 ELSE i
                  /\ backlog[f][j] # k /\ backlog[f][j] \in Clients
    <3>1. CASE f = n
      <4>1. /\ i + 1 \in 2 .. Len(backlog[n]) /\ backlog'[n][i] = backlog[n][i + 1]
            /\ 1 \in 1 .. Len(backlog[n]) /\ i + 1 \in 1 .. Len(backlog[n]) /\ i + 1 # 1
        BY <1>3, <2>5, <3>1
      <4>2. backlog[n][i + 1] # backlog[n][1]
        BY <1>9, <4>1 DEF Queues
      <4>3. backlog[n][i + 1] \in Clients
        BY <1>3, <4>1
      <4>4. QED BY <1>2, <3>1, <4>1, <4>2, <4>3
    <3>2. CASE f # n
      <4>1. backlog'[f] = backlog[f] /\ backlog[f] \in Seq(Clients)
        BY <1>1, <1>3, <3>2 DEF Types
      <4>2. backlog[f][i] # backlog[n][1]
        BY <1>3, <1>9, <2>5, <3>2, <4>1 DEF Queues
      <4>3. QED BY <1>2, <2>5, <3>2, <4>1, <4>2
    <3>3. QED BY <3>1, <3>2
  <2>6. ASSUME NEW f \in Fd, NEW i \in 1 .. Len(backlog'[f])
        PROVE  /\ sock'[f] = "listening"
               /\ link'[backlog'[f][i]] \in {"queued", "left"} /\ backlog'[f][i] \notin worker'
    <3>1. PICK j \in 1 .. Len(backlog[f]) :
             /\ backlog'[f][i] = backlog[f][j] /\ backlog[f][j] # k /\ backlog[f][j] \in Clients
      BY <2>5
    <3>2. /\ sock[f] = "listening" /\ link[backlog[f][j]] \in {"queued", "left"}
          /\ backlog[f][j] \notin worker
      BY <1>9 DEF Queues
    <3>3. f # m /\ link'[backlog[f][j]] = link[backlog[f][j]]
      BY <1>1, <1>2, <3>1, <3>2 DEF Types
    <3>4. QED BY <1>2, <2>2, <3>1, <3>2, <3>3
  <2>7. ASSUME NEW f \in Fd, NEW g \in Fd, NEW i \in 1 .. Len(backlog'[f]),
               NEW j \in 1 .. Len(backlog'[g]), backlog'[f][i] = backlog'[g][j]
        PROVE  f = g /\ i = j
    <3>1. PICK p \in 1 .. Len(backlog[f]) :
             backlog'[f][i] = backlog[f][p] /\ p = IF f = n THEN i + 1 ELSE i
      BY <2>5
    <3>2. PICK q \in 1 .. Len(backlog[g]) :
             backlog'[g][j] = backlog[g][q] /\ q = IF g = n THEN j + 1 ELSE j
      BY <2>5
    <3>3. backlog[f][p] = backlog[g][q]
      BY <2>7, <3>1, <3>2
    <3>4. f = g /\ p = q
      BY <1>9, <3>3 DEF Queues
    <3>5. i \in Int /\ j \in Int
      OBVIOUS
    <3>6. QED BY <3>1, <3>2, <3>4, <3>5
  <2>8. \A l \in worker' : link'[l] \in {"accepted", "left"}
    BY <1>1, <1>2, <1>9, <2>1, <2>2 DEF Queues, Types
  <2>9. Queues'
    BY <2>6, <2>7, <2>8 DEF Queues
  <2>10. QED BY <2>3, <2>9
<1>10. QED BY <1>1, <1>4, <1>5, <1>6, <1>7, <1>8, <1>9 DEF IInv

-----------------------------------------------------------------------------
LEMMA NextIInv == IInv /\ [Next]_vars => IInv'
<1> SUFFICES ASSUME IInv, [Next]_vars PROVE IInv'
  OBVIOUS
<1>1. CASE UNCHANGED vars
  BY <1>1 DEF vars, serverVars, clientVars, IInv, Types, StackShape, Watching, Employed,
              Possesses, Parked, Settled, Owned, Queues, Numbers
<1>2. CASE ServerNext /\ UNCHANGED <<clientVars, faults>>
  <2>1. UNCHANGED clientVars
    BY <1>2
  <2>3. ASSUME NEW s \in Servers, InitSocket(s) \/ InitNoSocket(s) \/ Listens(s) \/ UserCloses(s)
        PROVE  IInv'
    BY <2>1, <2>3, InitSocketIInv, CloseIInv, ListenIInv, AcceptPeerIInv, ParksIInv,
       DuplicateIInv DEF Listens
  <2>4. ASSUME NEW f \in Fd, Wake(f) PROVE IInv'
    BY <2>1, <2>4, WakeIInv
  <2>5. ASSUME NEW k \in Clients, WorkerYields(k) \/ WorkerResumes(k) \/ WorkerEnds(k)
        PROVE  IInv'
    BY <2>1, <2>5, WorkerTurnsIInv, WorkerEndsIInv
  <2>6. QED BY <1>2, <2>3, <2>4, <2>5 DEF ServerNext
<1>3. ASSUME NEW k \in Clients,
             \/ MakeClient(k) \/ MakeNoSocket(k) \/ Client(k) \/ CloseClient(k)
             \/ Handshake(k) \/ Refuse(k) \/ TimesOut(k)
      PROVE  IInv'
  BY <1>3, ClientIInv, KernelIInv
<1>4. QED BY <1>1, <1>2, <1>3 DEF Next

\* The inductive invariant.
THEOREM Invariance == Spec => []IInv
<1>1. QED BY InitIInv, NextIInv, PTL DEF Spec

\* Whatever fails or is closed in whatever order: an open number has one keeper, and a
\* number that is closed has none (Server.h:83-85, 140-153, 190-254).
THEOREM NumbersAreKept == Spec => []EachKeptByOne
<1>1. IInv => EachKeptByOne
  <2> SUFFICES ASSUME IInv, strays = 0, NEW f \in Fd \ {0}
               PROVE  Cardinality(Keepers(f)) = IF sock[f] = "free" THEN 0 ELSE 1
    BY DEF EachKeptByOne
  <2>1. Types /\ Owned /\ f # None
    BY NumbersAssumption DEF IInv
  <2>2. CASE sock[f] = "free"
    <3>1. Keepers(f) = {}
      BY <2>1, <2>2 DEF Keepers, Owned
    <3>2. QED BY <2>2, <3>1, FS_EmptySet
  <2>3. CASE sock[f] \in {"bound", "listening"}
    <3>1. PICK s \in Servers : sfd[s] = f
      BY <2>1, <2>3 DEF Owned
    <3>2. Keepers(f) = {s}
      BY <2>1, <2>3, <3>1 DEF Keepers, Owned
    <3>3. QED BY <2>3, <3>2, FS_Singleton
  <2>4. CASE sock[f] = "peer"
    <3>1. PICK k \in worker : pfd[k] = f
      BY <2>1, <2>4 DEF Owned
    <3>2. Keepers(f) = {k}
      BY <2>1, <2>4, <3>1 DEF Keepers, Owned
    <3>3. QED BY <2>4, <3>2, FS_Singleton
  <2>5. QED BY <2>1, <2>2, <2>3, <2>4 DEF Types, Socks, Owned
<1>2. QED BY Invariance, <1>1, PTL

\* A server does not end before the workers that point to it (Server.h:134-145).
THEOREM ServersStay == Spec => []ServerOutlivesWorkers
<1>1. IInv => ServerOutlivesWorkers
  BY DEF IInv, Employed, ServerOutlivesWorkers
<1>2. QED BY Invariance, <1>1, PTL

\* Without a close under its listener no server takes the 0 of co::accept4 for a peer
\* (posix.h:253-263, Server.h:137-144).
THEOREM StraysFollowCloses == Spec => []StrayNeedsClose
<1>1. IInv => StrayNeedsClose
  BY DEF IInv, Types, Parked, StrayNeedsClose
<1>2. QED BY Invariance, <1>1, PTL

-----------------------------------------------------------------------------
(* What a client has done when it gives up.                                  *)

\* What all pauses up to attempt n sum up to: each is twice the one before it.
Patience(n) == IF n < 4 THEN 0 ELSE Pause1 * (2 ^ (n - 2) - 2)

Limits ==
    /\ closes <= MaxCloses /\ strays <= MaxStrays
    /\ \A f \in Fd : Len(backlog[f]) <= Backlog
    /\ faults \in 0 .. MaxFaults

Counts ==
    /\ retries \in [Clients -> 0 .. MaxRetries]
    /\ stale \in [Clients -> {"none", "READ", "WRITE"}]
    /\ waited \in [Clients -> Nat] /\ tries \in [Clients -> Nat]
    /\ \A k \in Clients : /\ tries[k] <= retries[k] /\ waited[k] = Patience(retries[k])
                          /\ cpc[k] = "idle" => retries[k] = 0

\* An attempt that only cleared the socket was preceded by one that tried: as long as the
\* socket has not been cleared, the tries are ahead.
Ahead(t, r, l) == 2 * t >= r + IF l = "none" THEN 0 ELSE 1
Trying == \A k \in Clients : Connecting(k) => Ahead(tries[k], retries[k], link[k])

Efforts == Limits /\ Counts /\ Trying

\* As far as a pause fits an int.
LEMMA Powers == \A n \in 0 .. 22 : 2 ^ n \in Nat /\ 2 ^ n >= 1 /\ 2 ^ (n + 1) = 2 * 2 ^ n
<1> DEFINE P(n) == 2 ^ n \in Nat /\ 2 ^ n >= 1 /\ 2 ^ (n + 1) = 2 * 2 ^ n
<1>1. /\ P(0) /\ P(1) /\ P(2) /\ P(3) /\ P(4) /\ P(5) /\ P(6) /\ P(7)
      /\ P(8) /\ P(9) /\ P(10) /\ P(11) /\ P(12) /\ P(13) /\ P(14) /\ P(15)
      /\ P(16) /\ P(17) /\ P(18) /\ P(19) /\ P(20) /\ P(21) /\ P(22)
  OBVIOUS
<1> HIDE DEF P
<1>2. \A n \in 0 .. 22 :
        n \in {0, 1, 2, 3, 4, 5, 6, 7, 8, 9, 10, 11, 12, 13, 14, 15, 16, 17, 18, 19, 20, 21, 22}
  OBVIOUS
<1>3. \A n \in 0 .. 22 : P(n)
  BY <1>1, <1>2
<1>4. QED BY <1>3 DEF P

LEMMA Doubled ==
  ASSUME NEW p \in Nat, NEW x \in Nat, x >= 2
  PROVE  p * (x - 2) \in Nat /\ p * (x - 2) + p * x = p * (2 * x - 2) /\ p * x \in Nat
<1>1. PICK y \in Nat : x = y + 2
  BY x - 2 \in Nat
<1>2. x - 2 = y /\ p * x = p * y + 2 * p /\ 2 * x - 2 = 2 * y + 2
  BY <1>1
<1>3. p * (2 * y + 2) = 2 * (p * y) + 2 * p /\ p * y \in Nat
  OBVIOUS
<1>4. QED BY <1>2, <1>3

LEMMA PatienceGrows ==
  ASSUME NEW n \in 0 .. MaxRetries, n < MaxRetries
  PROVE  /\ Patience(n) \in Nat
         /\ Patience(n + 1) = Patience(n) + IF n > 2 THEN Pause(n + 1) ELSE 0
         /\ Patience(n + 1) \in Nat
<1>1. n \in 0 .. 22 /\ Pause1 \in Nat
  BY RetriesAssumption
<1>2. CASE n < 3
  BY <1>1, <1>2 DEF Patience
<1>3. CASE n = 3
  <2>1. Patience(4) = Pause1 * 2 /\ Pause(4) = Pause1 * 2
    <3>1. 2 ^ (4 - 2) - 2 = 2 /\ 2 ^ (4 - 3) = 2
      OBVIOUS
    <3>2. QED BY <3>1 DEF Patience, Pause
  <2>2. QED BY <1>1, <1>3, <2>1 DEF Patience
<1>4. CASE n > 3
  <2>1. n - 2 \in 0 .. 22 /\ n - 3 \in 0 .. 22 /\ (n - 3) + 1 = n - 2 /\ (n - 2) + 1 = n - 1
        /\ (n + 1) - 3 = n - 2 /\ (n + 1) - 2 = n - 1
    BY <1>1, <1>4
  <2>2. /\ 2 ^ (n - 2) \in Nat /\ 2 ^ (n - 3) \in Nat /\ 2 ^ (n - 3) >= 1
        /\ 2 ^ (n - 2) = 2 * 2 ^ (n - 3) /\ 2 ^ (n - 1) = 2 * 2 ^ (n - 2)
    BY <2>1, Powers
  <2>3. 2 ^ (n - 2) >= 2
    BY <2>2
  <2>4. /\ Patience(n) = Pause1 * (2 ^ (n - 2) - 2)
        /\ Patience(n + 1) = Pause1 * (2 * 2 ^ (n - 2) - 2)
        /\ Pause(n + 1) = Pause1 * 2 ^ (n - 2)
    BY <1>1, <1>4, <2>1, <2>2 DEF Patience, Pause
  <2>5. /\ Pause1 * (2 ^ (n - 2) - 2) \in Nat /\ Pause1 * 2 ^ (n - 2) \in Nat
        /\ Pause1 * (2 ^ (n - 2) - 2) + Pause1 * 2 ^ (n - 2) = Pause1 * (2 * 2 ^ (n - 2) - 2)
    BY <1>1, <2>2, <2>3, Doubled
  <2>6. QED BY <1>4, <2>4, <2>5
<1>5. QED BY <1>1, <1>2, <1>3, <1>4

LEMMA InitEfforts == Init => Efforts
<1> SUFFICES ASSUME Init PROVE Efforts
  OBVIOUS
<1> USE DEF Init, InitServers
<1>1. Limits
  BY LimitsAssumption, FaultsAssumption DEF Limits
<1>2. Patience(0) = 0
  BY DEF Patience
<1>3. Counts
  BY <1>2, RetriesAssumption DEF Counts
<1>4. Trying
  BY DEF Trying, Connecting
<1>5. QED BY <1>1, <1>3, <1>4 DEF Efforts

\* What the servers' process can do to a client that is connecting.
LEMMA ServerEfforts ==
  ASSUME IInv, Efforts, ServerNext, UNCHANGED <<clientVars, faults>>
  PROVE  Efforts'
<1>1. /\ Types /\ Watching /\ Employed /\ Possesses
      /\ backlog \in [Fd -> Seq(Clients)] /\ link \in [Clients -> Links]
      /\ closes \in Nat /\ strays \in Nat
      /\ \A f \in Fd : Len(backlog[f]) <= Backlog
  BY DEF IInv, Types, Efforts, Limits
<1> DEFINE Room == \A f \in Fd : Len(backlog'[f]) <= Backlog
           Unlinked == \A k \in Clients : link[k] = "none" => link'[k] = "none"
<1>2. ASSUME NEW f \in Fd, CloseNumber(f) PROVE Room /\ Unlinked
  <2>1. backlog' = [backlog EXCEPT ![f] = <<>>]
    BY <1>1, <1>2, CloseFacts
  <2>2. Len(<<>>) <= Backlog
    BY LimitsAssumption
  <2>3. Room
    BY <1>1, <2>1, <2>2
  <2>4. Unlinked
    BY <1>1, <1>2, CloseFacts
  <2>5. QED BY <2>3, <2>4
<1>3. ASSUME UNCHANGED <<backlog, link>> PROVE Room /\ Unlinked
  BY <1>1, <1>3
<1>4. ASSUME NEW s \in Servers, Close(s) PROVE Room /\ Unlinked
  BY <1>1, <1>2, <1>3, <1>4 DEF Close, kernel, Types, Numbers
<1> HIDE DEF Room, Unlinked
<1>5. ASSUME NEW s \in Servers, InitSocket(s) \/ InitNoSocket(s) \/ Listen(s)
                                \/ AcceptParks(s) \/ AcceptAgainFails(s)
      PROVE  Room /\ Unlinked /\ UNCHANGED <<closes, strays>>
  BY <1>3, <1>5 DEF InitSocket, InitNoSocket, Listen, AcceptParks, AcceptAgainFails, kernel
<1>6. ASSUME NEW s \in Servers, AcceptPeer(s)
      PROVE  Room /\ Unlinked /\ UNCHANGED <<closes, strays>>
  <2>1. PICK n : n = AcceptsFrom(s)
    OBVIOUS
  <2>2. /\ n # None /\ n \in Numbers /\ backlog[n] # <<>>
        /\ backlog' = [backlog EXCEPT ![n] = Tail(@)]
        /\ link' = [link EXCEPT ![Head(backlog[n])] = IF @ = "queued" THEN "accepted" ELSE @]
        /\ UNCHANGED <<closes, strays>>
    BY <1>1, <1>6, <2>1 DEF AcceptPeer, CanAccept, AcceptsFrom, Types
  <2>3. n \in Fd /\ Len(Tail(backlog[n])) <= Len(backlog[n]) /\ Backlog \in Nat
        /\ Len(Tail(backlog[n])) \in Nat /\ Len(backlog[n]) \in Nat
    BY <1>1, <2>2, LimitsAssumption DEF Numbers
  <2>4. Room
    BY <1>1, <2>2, <2>3 DEF Room
  <2>5. Unlinked
    BY <1>1, <2>2 DEF Unlinked
  <2>6. QED BY <2>2, <2>4, <2>5
<1>7. ASSUME NEW s \in Servers, InitFails(s)
      PROVE  Room /\ Unlinked /\ UNCHANGED <<closes, strays>>
  BY <1>4, <1>7 DEF InitFails
<1>8. ASSUME NEW s \in Servers, UserCloses(s)
      PROVE  Room /\ Unlinked /\ UNCHANGED strays /\ closes' <= MaxCloses
  BY <1>1, <1>4, <1>8, LimitsAssumption DEF UserCloses
<1>9. ASSUME NEW s \in Servers, AcceptDuplicate(s)
      PROVE  Room /\ Unlinked /\ UNCHANGED closes /\ strays' <= MaxStrays
  BY <1>1, <1>2, <1>3, <1>9, LimitsAssumption, NumbersAssumption DEF AcceptDuplicate, kernel
<1>10. ASSUME NEW f \in Fd, Wake(f)
       PROVE  Room /\ Unlinked /\ UNCHANGED <<closes, strays>>
  BY <1>3, <1>10 DEF Wake
<1>11. ASSUME NEW k \in Clients, WorkerYields(k) \/ WorkerResumes(k)
       PROVE  Room /\ Unlinked /\ UNCHANGED <<closes, strays>>
  BY <1>3, <1>11 DEF WorkerYields, WorkerResumes, kernel
<1>12. ASSUME NEW k \in Clients, WorkerEnds(k)
       PROVE  Room /\ Unlinked /\ UNCHANGED <<closes, strays>>
  <2>1. k \in worker
    BY <1>12, WorkerOnTop DEF WorkerEnds, IInv, Types
  <2>2. pfd[k] \in Fd
    BY <1>1, <2>1 DEF Employed
  <2>3. QED BY <1>2, <1>12, <2>2 DEF WorkerEnds
<1>13. Room /\ Unlinked /\ closes' <= MaxCloses /\ strays' <= MaxStrays
  <2>1. closes <= MaxCloses /\ strays <= MaxStrays
    BY DEF Efforts, Limits
  <2>2. QED BY <2>1, <1>5, <1>6, <1>7, <1>8, <1>9, <1>10, <1>11, <1>12 DEF ServerNext, Listens
<1>14. Limits'
  BY <1>13 DEF Efforts, Limits, Room
<1>15. Counts'
  BY DEF Efforts, Counts, clientVars
<1>16. ASSUME NEW k \in Clients, Connecting(k)' PROVE Ahead(tries'[k], retries'[k], link'[k])
  <2>1. Connecting(k) /\ tries' = tries /\ retries' = retries
    BY <1>16 DEF Connecting, clientVars
  <2>2. tries[k] \in Nat /\ retries[k] \in Nat /\ Ahead(tries[k], retries[k], link[k])
    BY <2>1, RetriesAssumption DEF Efforts, Counts, Trying
  <2>3. link[k] = "none" => link'[k] = "none"
    BY <1>13 DEF Unlinked
  <2>4. QED BY <2>1, <2>2, <2>3 DEF Ahead
<1>17. QED BY <1>14, <1>15, <1>16 DEF Efforts, Trying

LEMMA PatienceIsFinite == \A n \in 0 .. MaxRetries : Patience(n) \in Nat
<1>1. Patience(0) \in Nat
  BY DEF Patience
<1>2. ASSUME NEW n \in 0 .. MaxRetries, n # 0 PROVE Patience(n) \in Nat
  <2>1. n - 1 \in 0 .. MaxRetries /\ n - 1 < MaxRetries /\ (n - 1) + 1 = n
    BY <1>2, RetriesAssumption
  <2>2. QED BY <2>1, PatienceGrows
<1>3. QED BY <1>1, <1>2

\* A step of client k, after which it stands at retry r and has tried t times.
LEMMA CountsOf ==
  ASSUME Efforts, NEW k \in Clients, NEW r \in 0 .. MaxRetries, NEW t \in Nat, t <= r,
         retries' = [retries EXCEPT ![k] = r], tries' = [tries EXCEPT ![k] = t],
         waited' = [waited EXCEPT ![k] = Patience(r)],
         stale' \in [Clients -> {"none", "READ", "WRITE"}],
         \A l \in Clients \ {k} : cpc'[l] = cpc[l] /\ link'[l] = link[l],
         cpc'[k] = "idle" => r = 0,
         Connecting(k)' => Ahead(t, r, link'[k]),
         Limits'
  PROVE  Efforts'
<1> USE DEF Efforts
<1>1. /\ retries'[k] = r /\ tries'[k] = t /\ waited'[k] = Patience(r) /\ Patience(r) \in Nat
      /\ \A l \in Clients \ {k} : /\ retries'[l] = retries[l] /\ tries'[l] = tries[l]
                                  /\ waited'[l] = waited[l]
  BY PatienceIsFinite DEF Counts
<1>2. Counts'
  <2>1. /\ retries' \in [Clients -> 0 .. MaxRetries] /\ waited' \in [Clients -> Nat]
        /\ tries' \in [Clients -> Nat]
    BY <1>1 DEF Counts
  <2>2. ASSUME NEW l \in Clients
        PROVE  /\ tries'[l] <= retries'[l] /\ waited'[l] = Patience(retries'[l])
               /\ cpc'[l] = "idle" => retries'[l] = 0
    BY <1>1 DEF Counts
  <2>3. QED BY <2>1, <2>2 DEF Counts, Patience
<1>3. ASSUME NEW l \in Clients, Connecting(l)' PROVE Ahead(tries'[l], retries'[l], link'[l])
  <2>1. CASE l = k
    BY <1>1, <1>3, <2>1 DEF Ahead
  <2>2. CASE l # k
    <3>1. Connecting(l)
      BY <1>3, <2>2 DEF Connecting
    <3>2. QED BY <1>1, <2>2, <3>1 DEF Trying, Ahead
  <2>3. QED BY <2>1, <2>2
<1>4. QED BY <1>2, <1>3 DEF Trying

\* A step of client k that counts nothing.
LEMMA CountsStay ==
  ASSUME Efforts, NEW k \in Clients, UNCHANGED <<retries, tries, waited>>,
         stale' \in [Clients -> {"none", "READ", "WRITE"}],
         \A l \in Clients \ {k} : cpc'[l] = cpc[l] /\ link'[l] = link[l],
         cpc'[k] = "idle" => cpc[k] = "idle",
         Connecting(k)' => Ahead(tries[k], retries[k], link'[k]),
         Limits'
  PROVE  Efforts'
<1>1. PICK r \in 0 .. MaxRetries : r = retries[k]
  BY DEF Efforts, Counts
<1>2. PICK t \in Nat : t = tries[k]
  BY DEF Efforts, Counts
<1>3. /\ t <= r /\ retries' = [retries EXCEPT ![k] = r] /\ tries' = [tries EXCEPT ![k] = t]
      /\ waited' = [waited EXCEPT ![k] = Patience(r)] /\ (cpc'[k] = "idle" => r = 0)
  BY <1>1, <1>2 DEF Efforts, Counts
<1>4. QED BY <1>1, <1>2, <1>3, CountsOf

\* What a client has counted is forgotten when it does not connect any more.
LEMMA ForgetEfforts ==
  ASSUME Efforts, NEW k \in Clients, Forget(k),
         stale' \in [Clients -> {"none", "READ", "WRITE"}],
         \A l \in Clients \ {k} : cpc'[l] = cpc[l] /\ link'[l] = link[l],
         cpc'[k] # "idle", ~Connecting(k)', Limits'
  PROVE  Efforts'
<1>1. PICK r \in 0 .. MaxRetries : r = 0
  BY RetriesAssumption
<1>2. PICK t \in Nat : t = 0
  OBVIOUS
<1>3. /\ retries' = [retries EXCEPT ![k] = r] /\ tries' = [tries EXCEPT ![k] = t]
      /\ waited' = [waited EXCEPT ![k] = Patience(r)] /\ t <= r
  BY <1>1, <1>2 DEF Forget, Patience
<1>4. QED BY <1>3, CountsOf

LEMMA FailsEfforts ==
  ASSUME IInv, Efforts, NEW k \in Clients, Fails(k), UNCHANGED <<servers, faults>>
  PROVE  Efforts'
<1>1. /\ cpc'[k] = "down" /\ \A l \in Clients \ {k} : cpc'[l] = cpc[l] /\ link'[l] = link[l]
      /\ stale' \in [Clients -> {"none", "READ", "WRITE"}]
  BY DEF Fails, GoesTo, IInv, Types, Efforts, Counts
<1>2. Limits' /\ cpc'[k] # "idle" /\ ~Connecting(k)'
  BY <1>1 DEF servers, Efforts, Limits, Connecting
<1>3. QED BY <1>1, <1>2, ForgetEfforts DEF Fails

LEMMA AttemptEfforts ==
  ASSUME IInv, Efforts, NEW k \in Clients, Attempt(k)
  PROVE  Efforts'
<1>1. /\ cpc[k] = "again" /\ retries[k] < MaxRetries /\ Ahead(tries[k], retries[k], link[k])
      /\ retries[k] \in 0 .. MaxRetries /\ tries[k] \in Nat /\ tries[k] <= retries[k]
      /\ waited[k] = Patience(retries[k]) /\ faults \in 0 .. MaxFaults
      /\ MaxFaults \in Nat
  BY FaultsAssumption
     DEF Attempt, NextTry, Efforts, Limits, Counts, Trying, Connecting
<1>2. PICK r \in 0 .. MaxRetries : r = retries[k] + 1
  BY <1>1, RetriesAssumption
<1>3. Patience(r) = Patience(retries[k]) + IF retries[k] > 2 THEN Pause(r) ELSE 0
  BY <1>1, <1>2, PatienceGrows
<1>4. /\ retries' = [retries EXCEPT ![k] = r] /\ retries'[k] = r
      /\ waited' = [waited EXCEPT ![k] = Patience(r)]
  BY <1>1, <1>2, <1>3 DEF Attempt, NextTry, Efforts, Counts
<1>5. /\ stale' \in [Clients -> {"none", "READ", "WRITE"}]
      /\ cpc'[k] # "idle" /\ \A l \in Clients \ {k} : cpc'[l] = cpc[l]
      /\ UNCHANGED servers
  BY DEF Attempt, GoesTo, IInv, Types, Efforts, Counts
<1>6. CASE link[k] = "none"
  <2>1. PICK t \in Nat : t = tries[k] + 1
    BY <1>1
  <2>2. /\ tries' = [tries EXCEPT ![k] = t] /\ t <= r
        /\ \A l \in Clients \ {k} : link'[l] = link[l]
    BY <1>1, <1>2, <1>6, <2>1 DEF Attempt, StartsHandshake, IInv, Types
  <2>3. faults' \in 0 .. MaxFaults
    BY <1>1, <1>6 DEF Attempt, StartsHandshake
  <2>4. Ahead(t, r, link'[k])
    BY <1>1, <1>2, <1>6, <2>1 DEF Ahead
  <2>5. Limits'
    BY <1>5, <2>3 DEF servers, Efforts, Limits
  <2>6. QED BY <1>4, <1>5, <2>2, <2>4, <2>5, CountsOf
<1>7. CASE link[k] # "none"
  <2>1. PICK t \in Nat : t = tries[k]
    BY <1>1
  <2>2. /\ tries' = [tries EXCEPT ![k] = t] /\ t <= r /\ link'[k] = "none"
        /\ UNCHANGED faults /\ \A l \in Clients \ {k} : link'[l] = link[l]
    BY <1>1, <1>2, <1>7, <2>1
       DEF Attempt, StartsHandshake, IInv, Types, Efforts, Counts
  <2>3. Ahead(t, r, link'[k])
    BY <1>1, <1>2, <1>7, <2>1, <2>2 DEF Ahead
  <2>4. Limits'
    BY <1>5, <2>2 DEF servers, Efforts, Limits
  <2>5. QED BY <1>4, <1>5, <2>2, <2>3, <2>4, CountsOf
<1>8. QED BY <1>6, <1>7

LEMMA ClientEfforts ==
  ASSUME IInv, Efforts, NEW k \in Clients,
         MakeClient(k) \/ MakeNoSocket(k) \/ Client(k) \/ CloseClient(k)
  PROVE  Efforts'
<1> USE DEF GoesTo
<1>1. /\ cpc \in [Clients -> {"idle", "again", "wait", "lost", "peer", "up", "down"}]
      /\ link \in [Clients -> Links] /\ stale \in [Clients -> {"none", "READ", "WRITE"}]
      /\ retries[k] \in Nat /\ tries[k] \in Nat /\ (cpc[k] = "idle" => retries[k] = 0)
      /\ Connecting(k) => Ahead(tries[k], retries[k], link[k])
  BY RetriesAssumption DEF IInv, Types, Efforts, Counts, Trying
<1>2. ASSUME UNCHANGED <<servers, faults>> PROVE Limits'
  BY <1>2 DEF servers, Efforts, Limits
<1>3. CASE MakeClient(k)
  <2>1. /\ UNCHANGED <<servers, faults, link, retries, tries, waited>>
        /\ cpc[k] = "idle" /\ cpc' = [cpc EXCEPT ![k] = "again"]
        /\ stale' \in [Clients -> {"none", "READ", "WRITE"}]
    BY <1>1, <1>3 DEF MakeClient
  <2>2. link[k] = "none"
    BY <2>1 DEF IInv, Settled
  <2>3. /\ Ahead(tries[k], retries[k], link'[k]) /\ cpc'[k] # "idle"
        /\ \A l \in Clients \ {k} : cpc'[l] = cpc[l] /\ link'[l] = link[l]
    BY <1>1, <2>1, <2>2 DEF Ahead
  <2>4. QED BY <1>1, <1>2, <2>1, <2>3, CountsStay
<1>4. CASE MakeNoSocket(k)
  <2>1. Limits' /\ cpc' = [cpc EXCEPT ![k] = "down"] /\ ~Connecting(k)'
    BY <1>1, <1>2, <1>4 DEF MakeNoSocket, Connecting
  <2>2. QED BY <1>1, <1>4, <2>1, CountsStay DEF MakeNoSocket
<1>5. CASE Attempt(k)
  BY <1>5, AttemptEfforts
<1>6. CASE AttemptRefused(k) \/ OtherError(k) \/ GiveUp(k)
  BY <1>6, FailsEfforts DEF AttemptRefused, OtherError, GiveUp
<1>7. CASE NoError(k) \/ NoPeer(k)
  <2>1. /\ UNCHANGED <<servers, faults, link, stale, retries, tries, waited>> /\ Connecting(k)
        /\ cpc'[k] # "idle" /\ \A l \in Clients \ {k} : cpc'[l] = cpc[l]
    BY <1>1, <1>7 DEF NoError, NoPeer, Connecting
  <2>2. QED BY <1>1, <1>2, <2>1, CountsStay DEF Ahead
<1>8. CASE Refused(k)
  <2>1. /\ UNCHANGED <<servers, faults, stale, retries, tries, waited>> /\ Connecting(k)
        /\ link[k] = "refused" /\ link' = [link EXCEPT ![k] = "spent"]
        /\ cpc' = [cpc EXCEPT ![k] = "again"]
    BY <1>1, <1>8 DEF Refused, Connecting
  <2>2. link'[k] = "spent" /\ cpc'[k] = "again"
        /\ \A l \in Clients \ {k} : cpc'[l] = cpc[l] /\ link'[l] = link[l]
    BY <1>1, <2>1
  <2>3. Ahead(tries[k], retries[k], link'[k])
    BY <1>1, <2>1, <2>2 DEF Ahead
  <2>4. QED BY <1>1, <1>2, <2>1, <2>2, <2>3, CountsStay
<1>9. CASE HasPeer(k)
  <2>1. Forget(k) /\ link' = link
    BY <1>9 DEF HasPeer
  <2>2. /\ UNCHANGED <<servers, faults, link, stale>> /\ cpc'[k] = "up" /\ ~Connecting(k)'
        /\ \A l \in Clients \ {k} : cpc'[l] = cpc[l]
    BY <1>1, <1>9 DEF HasPeer, Connecting
  <2>3. QED BY <1>1, <1>2, <2>1, <2>2, ForgetEfforts
<1>10. CASE CloseClient(k)
  <2>1. /\ UNCHANGED <<servers, faults, cpc, stale, retries, tries, waited>> /\ ~Connecting(k)'
        /\ \A l \in Clients \ {k} : link'[l] = link[l]
    BY <1>1, <1>10 DEF CloseClient, Connecting
  <2>2. QED BY <1>1, <1>2, <2>1, CountsStay
<1>11. QED BY <1>3, <1>4, <1>5, <1>6, <1>7, <1>8, <1>9, <1>10 DEF Client

LEMMA KernelEfforts ==
  ASSUME IInv, Efforts, NEW k \in Clients, Handshake(k) \/ Refuse(k) \/ TimesOut(k)
  PROVE  Efforts'
<1>1. /\ link \in [Clients -> Links] /\ backlog \in [Fd -> Seq(Clients)]
      /\ stale \in [Clients -> {"none", "READ", "WRITE"}]
      /\ retries[k] \in Nat /\ tries[k] \in Nat
      /\ Connecting(k) => Ahead(tries[k], retries[k], link[k])
  BY RetriesAssumption DEF IInv, Types, Efforts, Counts, Trying
<1>2. /\ link[k] = "syn" /\ UNCHANGED clientVars
      /\ \A l \in Clients \ {k} : link'[l] = link[l]
  BY <1>1 DEF Handshake, Refuse, TimesOut
<1>3. Limits'
  <2>1. CASE Handshake(k)
    <3>1. PICK f \in Fd : /\ Len(backlog[f]) < Backlog
                          /\ backlog' = [backlog EXCEPT ![f] = Append(@, k)]
      BY <2>1 DEF Handshake
    <3>2. Len(Append(backlog[f], k)) <= Backlog
      BY <1>1, <3>1, LimitsAssumption
    <3>3. QED BY <1>1, <2>1, <3>1, <3>2 DEF Handshake, Efforts, Limits
  <2>2. CASE Refuse(k) \/ TimesOut(k)
    BY <2>2, FaultsAssumption DEF Refuse, TimesOut, servers, Efforts, Limits
  <2>3. QED BY <2>1, <2>2
<1>4. UNCHANGED <<cpc, retries, tries, waited, stale>> /\ (Connecting(k)' => Connecting(k))
  BY <1>2 DEF clientVars, Connecting
<1>5. Connecting(k)' => Ahead(tries[k], retries[k], link'[k])
  BY <1>1, <1>2, <1>4 DEF Ahead
<1>6. QED BY <1>1, <1>2, <1>3, <1>4, <1>5, CountsStay

LEMMA NextEfforts == IInv /\ Efforts /\ [Next]_vars => Efforts'
<1> SUFFICES ASSUME IInv, Efforts, [Next]_vars PROVE Efforts'
  OBVIOUS
<1>1. CASE UNCHANGED vars
  BY <1>1 DEF vars, serverVars, clientVars, Efforts, Limits, Counts, Trying, Connecting, Ahead
<1>2. CASE ServerNext /\ UNCHANGED <<clientVars, faults>>
  BY <1>2, ServerEfforts
<1>3. ASSUME NEW k \in Clients,
             \/ MakeClient(k) \/ MakeNoSocket(k) \/ Client(k) \/ CloseClient(k)
             \/ Handshake(k) \/ Refuse(k) \/ TimesOut(k)
      PROVE  Efforts'
  BY <1>3, ClientEfforts, KernelEfforts
<1>4. QED BY <1>1, <1>2, <1>3 DEF Next

\* The invariant of the back-off.
THEOREM EffortsAreMade == Spec => []Efforts
BY Invariance, InitEfforts, NextEfforts, PTL DEF Spec

\* The variables have their types, and queues, retries and faults their bounds.
THEOREM ConnectTypeCorrect == Spec => []TypeOK
<1>1. IInv /\ Efforts => TypeOK
  <2> SUFFICES ASSUME IInv, Efforts PROVE TypeOK
    OBVIOUS
  <2>1. stack \in {<<>>} \cup {<<c>> : c \in Servers \cup Clients} \cup (Servers \X Clients)
    BY DEF IInv, Types, StackShape
  <2>2. ServerTypeOK
    BY <2>1, LimitsAssumption
       DEF IInv, Types, Places, Socks, Links, Efforts, Limits, ServerTypeOK
  <2>3. tries \in [Clients -> 0 .. MaxRetries]
    <3>1. ASSUME NEW k \in Clients PROVE tries[k] \in 0 .. MaxRetries
      BY RetriesAssumption DEF Efforts, Counts
    <3>2. QED BY <3>1 DEF Efforts, Counts
  <2>4. QED BY <2>2, <2>3 DEF TypeOK, IInv, Types, Efforts, Limits, Counts
<1>2. QED BY Invariance, EffortsAreMade, <1>1, PTL

\* A client that gives up has tried in at least every second of its attempts and has not
\* paused longer than the sum of the pauses, for every number of retries whose pauses fit
\* an int; no socket is left (posix.h:193-200, 249-250; Client.h:235-253).
THEOREM GivingUpIsProper == Spec => GivesUpProperly
<1>1. IInv /\ Efforts /\ [Next]_vars =>
        [ \A k \in Clients : cpc[k] = "again" /\ cpc'[k] = "down" /\ stale[k] # "WRITE" =>
            /\ ~csock'[k] /\ link'[k] \in {"none", "left"}
            /\ 2 * tries[k] >= MaxRetries
            /\ waited[k] <= IF MaxRetries < 4 THEN 0 ELSE Pause1 * (2 ^ (MaxRetries - 2) - 2) ]_vars
  <2> SUFFICES ASSUME IInv, Efforts, Next, NEW k \in Clients,
                      cpc[k] = "again", cpc'[k] = "down", stale[k] # "WRITE"
               PROVE  /\ ~csock'[k] /\ link'[k] \in {"none", "left"}
                      /\ 2 * tries[k] >= MaxRetries
                      /\ waited[k] <= IF MaxRetries < 4 THEN 0
                                      ELSE Pause1 * (2 ^ (MaxRetries - 2) - 2)
    OBVIOUS
  <2>1. GiveUp(k)
    <3>1. cpc \in [Clients -> {"idle", "again", "wait", "lost", "peer", "up", "down"}]
      BY DEF IInv, Types
    <3>2. ~(ServerNext /\ UNCHANGED <<clientVars, faults>>)
      BY DEF clientVars
    <3>3. PICK l \in Clients : \/ MakeClient(l) \/ MakeNoSocket(l) \/ Client(l) \/ CloseClient(l)
                               \/ Handshake(l) \/ Refuse(l) \/ TimesOut(l)
      BY <3>2 DEF Next
    <3>4. ~CloseClient(l) /\ ~Handshake(l) /\ ~Refuse(l) /\ ~TimesOut(l)
      BY DEF CloseClient, Handshake, Refuse, TimesOut, clientVars
    <3>5. ~MakeClient(l) /\ ~MakeNoSocket(l)
      BY <3>1 DEF MakeClient, MakeNoSocket, GoesTo
    <3>6. ~Attempt(l) /\ ~AttemptRefused(l) /\ ~NoError(l) /\ ~Refused(l) /\ ~OtherError(l)
          /\ ~HasPeer(l) /\ ~NoPeer(l)
      BY <3>1 DEF Attempt, AttemptRefused, NoError, Refused, OtherError, HasPeer, NoPeer,
                  NextTry, Fails, GoesTo
    <3>7. GiveUp(l)
      BY <3>3, <3>4, <3>5, <3>6 DEF Client
    <3>8. l = k
      BY <3>1, <3>7 DEF GiveUp, Fails, GoesTo
    <3>9. QED BY <3>7, <3>8
  <2>2. retries[k] = MaxRetries /\ ~csock'[k] /\ link'[k] = Left(link[k])
    BY <2>1 DEF GiveUp, Fails, IInv, Types
  <2>3. link'[k] \in {"none", "left"}
    BY <2>2 DEF Left
  <2>4. Ahead(tries[k], retries[k], link[k]) /\ waited[k] = Patience(MaxRetries) /\ tries[k] \in Nat
    BY <2>2 DEF Efforts, Counts, Trying, Connecting
  <2>5. 2 * tries[k] >= MaxRetries
    BY <2>2, <2>4, RetriesAssumption DEF Ahead
  <2>6. waited[k] <= IF MaxRetries < 4 THEN 0 ELSE Pause1 * (2 ^ (MaxRetries - 2) - 2)
    <3>1. waited[k] \in Nat
      BY DEF Efforts, Counts
    <3>2. waited[k] = IF MaxRetries < 4 THEN 0 ELSE Pause1 * (2 ^ (MaxRetries - 2) - 2)
      BY <2>4 DEF Patience
    <3>3. QED BY <3>1, <3>2
  <2>7. QED BY <2>2, <2>3, <2>5, <2>6
<1>2. QED BY Invariance, EffortsAreMade, <1>1, PTL DEF Spec, GivesUpProperly

-----------------------------------------------------------------------------
(* Where the connection of a client is: the converse of Queues.              *)

Waits(k) == \E f \in Fd : \E i \in 1 .. Len(backlog[f]) : backlog[f][i] = k

\* What is queued is in a backlog, what is accepted has a worker, and the socket of a client
\* whose connect returned true has been one or the other.
Held ==
    \A k \in Clients :
        /\ link[k] = "queued" => Waits(k)
        /\ link[k] = "accepted" => k \in worker
        /\ cpc[k] = "up" /\ csock[k] => link[k] \in {"queued", "accepted", "shut", "reset"}

\* A close resets what waits on the number and shuts what has a worker on it.
LEMMA CloseEnds ==
  ASSUME Types, NEW f \in Fd, CloseNumber(f)
  PROVE  /\ \A k \in Clients : link'[k] = "queued" => \A i \in 1 .. Len(backlog[f]) : backlog[f][i] # k
         /\ \A k \in Clients : link'[k] = "accepted" => pfd[k] # f
<1> DEFINE in == {backlog[f][i] : i \in DOMAIN backlog[f]}
<1>1. \A i \in 1 .. Len(backlog[f]) : backlog[f][i] \in in
  BY DEF Types
<1>2. \A k \in Clients :
         link'[k] = CASE link[k] = "queued" /\ k \in in       -> "reset"
                    [] link[k] = "accepted" /\ pfd[k] = f    -> "shut"
                    [] link[k] = "left" /\ (k \in in \/ pfd[k] = f) -> "none"
                    [] OTHER                                -> link[k]
  BY DEF CloseNumber
<1> HIDE DEF in
<1>3. ASSUME NEW k \in Clients, link'[k] = "queued" PROVE k \notin in
  BY <1>2, <1>3
<1>4. ASSUME NEW k \in Clients, link'[k] = "accepted" PROVE pfd[k] # f
  BY <1>2, <1>4
<1>5. QED BY <1>1, <1>3, <1>4

\* Whoever closes a number that is not a worker's any more.
LEMMA CloseHolds ==
  ASSUME Types, Held, NEW f \in Fd, CloseNumber(f), UNCHANGED <<cpc, csock>>,
         \A k \in worker \ worker' : pfd[k] = f
  PROVE  Held'
<1>1. /\ backlog' = [backlog EXCEPT ![f] = <<>>] /\ backlog \in [Fd -> Seq(Clients)]
      /\ \A k \in Clients : \/ link'[k] = link[k]
                            \/ link[k] = "queued" /\ link'[k] = "reset"
                            \/ link[k] = "accepted" /\ link'[k] = "shut"
                            \/ link[k] = "left" /\ link'[k] = "none"
  BY CloseFacts DEF Types
<1>2. ASSUME NEW k \in Clients, link'[k] = "queued" PROVE Waits(k)'
  <2>1. link[k] = "queued"
    BY <1>1, <1>2
  <2>2. PICK g \in Fd : \E i \in 1 .. Len(backlog[g]) : backlog[g][i] = k
    BY <2>1 DEF Held, Waits
  <2>3. g # f
    BY <1>2, <2>2, CloseEnds
  <2>4. backlog'[g] = backlog[g]
    BY <1>1, <2>3
  <2>5. QED BY <2>2, <2>4 DEF Waits
<1>3. ASSUME NEW k \in Clients, link'[k] = "accepted" PROVE k \in worker'
  <2>1. k \in worker /\ pfd[k] # f
    BY <1>1, <1>3, CloseEnds DEF Held
  <2>2. QED BY <2>1
<1>4. ASSUME NEW k \in Clients, cpc'[k] = "up", csock'[k]
      PROVE  link'[k] \in {"queued", "accepted", "shut", "reset"}
  BY <1>1, <1>4 DEF Held
<1>5. QED BY <1>2, <1>3, <1>4 DEF Held

\* A step of the servers' process.
LEMMA ServerHolds ==
  ASSUME IInv, Held, ServerNext, UNCHANGED clientVars
  PROVE  Held'
<1>1. /\ Types /\ Employed /\ UNCHANGED <<cpc, csock>> /\ worker \subseteq Clients
      /\ backlog \in [Fd -> Seq(Clients)] /\ link \in [Clients -> Links]
  BY DEF IInv, Types, clientVars
<1>2. ASSUME UNCHANGED <<backlog, link, worker>> PROVE Held'
  BY <1>1, <1>2 DEF Held, Waits
<1>3. ASSUME NEW s \in Servers, Close(s), UNCHANGED worker PROVE Held'
  <2>1. CASE sfd[s] = None
    BY <1>2, <1>3, <2>1 DEF Close, kernel
  <2>2. CASE sfd[s] # None
    <3>1. sfd[s] \in Fd /\ CloseNumber(sfd[s])
      BY <1>1, <1>3, <2>2 DEF Close, Types, Numbers
    <3>2. QED BY <1>1, <1>3, <3>1, CloseHolds
  <2>3. QED BY <2>1, <2>2
<1>4. ASSUME NEW s \in Servers, InitSocket(s) \/ InitNoSocket(s) \/ Listen(s)
                                \/ AcceptParks(s) \/ AcceptAgainFails(s)
      PROVE  Held'
  BY <1>2, <1>4 DEF InitSocket, InitNoSocket, Listen, AcceptParks, AcceptAgainFails, kernel,
                    labour
<1>5. ASSUME NEW s \in Servers, InitFails(s) \/ UserCloses(s) PROVE Held'
  BY <1>3, <1>5 DEF InitFails, UserCloses, labour
<1>6. ASSUME NEW s \in Servers, AcceptDuplicate(s) PROVE Held'
  <2>1. UNCHANGED worker /\ 0 \in Fd
    BY <1>6, NumbersAssumption DEF AcceptDuplicate, labour
  <2>2. CASE UNCHANGED kernel
    BY <1>2, <2>1, <2>2 DEF kernel
  <2>3. CASE CloseNumber(0)
    BY <1>1, <2>1, <2>3, CloseHolds
  <2>4. QED BY <1>6, <2>2, <2>3 DEF AcceptDuplicate
<1>7. ASSUME NEW s \in Servers, AcceptPeer(s) PROVE Held'
  <2>1. PICK n : n = AcceptsFrom(s)
    OBVIOUS
  <2>2. PICK k : k = Head(backlog[n])
    OBVIOUS
  <2>3. /\ n # None /\ n \in Numbers /\ backlog[n] # <<>>
        /\ backlog' = [backlog EXCEPT ![n] = Tail(backlog[n])]
        /\ link' = [link EXCEPT ![k] = IF link[k] = "queued" THEN "accepted" ELSE link[k]]
        /\ worker' = worker \cup {k}
    BY <1>1, <1>7, <2>1, <2>2 DEF AcceptPeer, CanAccept, AcceptsFrom, Types
  <2>4. n \in Fd
    BY <2>3 DEF Numbers
  <2>5. /\ k = backlog[n][1] /\ k \in Clients /\ Len(backlog[n]) \in Nat
        /\ Len(backlog'[n]) = Len(backlog[n]) - 1
        /\ \A i \in 1 .. Len(backlog'[n]) : backlog'[n][i] = backlog[n][i + 1]
        /\ \A g \in Fd \ {n} : backlog'[g] = backlog[g]
    BY <1>1, <2>2, <2>3, <2>4
  <2>6. ASSUME NEW l \in Clients, link'[l] = "queued" PROVE Waits(l)'
    <3>1. link[l] = "queued" /\ l # k
      BY <1>1, <2>3, <2>5, <2>6
    <3>2. PICK g \in Fd : \E i \in 1 .. Len(backlog[g]) : backlog[g][i] = l
      BY <3>1 DEF Held, Waits
    <3>3. CASE g = n
      <4>1. PICK i \in 1 .. Len(backlog[n]) : backlog[n][i] = l
        BY <3>2, <3>3
      <4>2. i # 1
        BY <2>5, <3>1, <4>1
      <4>3. PICK j \in 1 .. Len(backlog'[n]) : j + 1 = i
        <5>1. i - 1 \in 1 .. Len(backlog'[n]) /\ (i - 1) + 1 = i
          BY <2>5, <4>2
        <5>2. QED BY <5>1
      <4>4. backlog'[n][j] = l
        BY <2>5, <4>1, <4>3
      <4>5. QED BY <2>4, <4>4 DEF Waits
    <3>4. CASE g # n
      BY <2>5, <3>2, <3>4 DEF Waits
    <3>5. QED BY <3>3, <3>4
  <2>7. ASSUME NEW l \in Clients PROVE link'[l] = "accepted" => l \in worker'
    BY <1>1, <2>3, <2>5 DEF Held
  <2>8. ASSUME NEW l \in Clients, cpc'[l] = "up", csock'[l]
        PROVE  link'[l] \in {"queued", "accepted", "shut", "reset"}
    BY <1>1, <2>3, <2>5, <2>8 DEF Held
  <2>9. QED BY <2>6, <2>7, <2>8 DEF Held
<1>8. ASSUME NEW f \in Fd, Wake(f) PROVE Held'
  BY <1>2, <1>8 DEF Wake, labour
<1>9. ASSUME NEW k \in Clients, WorkerYields(k) \/ WorkerResumes(k) PROVE Held'
  BY <1>2, <1>9 DEF WorkerYields, WorkerResumes, kernel, labour
<1>10. ASSUME NEW k \in Clients, WorkerEnds(k) PROVE Held'
  <2>1. k \in worker
    BY <1>10, WorkerOnTop DEF WorkerEnds, IInv, Types
  <2>2. pfd[k] \in Fd
    BY <1>1, <2>1 DEF Employed
  <2>3. QED BY <1>1, <1>10, <2>2, CloseHolds DEF WorkerEnds
<1>11. QED BY <1>4, <1>5, <1>6, <1>7, <1>8, <1>9, <1>10 DEF ServerNext, Listens

\* A step of client k: its connection only goes while it closes its socket.
LEMMA ClientHolds ==
  ASSUME IInv, Held, NEW k \in Clients,
         MakeClient(k) \/ MakeNoSocket(k) \/ Client(k) \/ CloseClient(k)
  PROVE  Held'
<1>1. /\ Types /\ Settled /\ UNCHANGED servers
      /\ cpc \in [Clients -> {"idle", "again", "wait", "lost", "peer", "up", "down"}]
      /\ link \in [Clients -> Links] /\ csock \in [Clients -> BOOLEAN]
  BY DEF IInv, Types, MakeClient, MakeNoSocket, Client, Attempt, AttemptRefused, NoError,
         Refused, OtherError, HasPeer, NoPeer, GiveUp, CloseClient
<1>2. /\ \A l \in Clients \ {k} : link'[l] = link[l] /\ cpc'[l] = cpc[l] /\ csock'[l] = csock[l]
      /\ link'[k] \in {"queued", "accepted"} => link'[k] = link[k]
      /\ cpc'[k] = "up" /\ csock'[k] => link'[k] \in {"queued", "accepted", "shut", "reset"}
  <2> USE <1>1 DEF GoesTo
  <2>1. CASE MakeClient(k) \/ MakeNoSocket(k)
    BY <2>1 DEF MakeClient, MakeNoSocket
  <2>2. CASE Attempt(k)
    BY <2>2 DEF Attempt, StartsHandshake
  <2>3. CASE AttemptRefused(k) \/ OtherError(k) \/ GiveUp(k)
    BY <2>3, LeftFacts DEF AttemptRefused, OtherError, GiveUp, Fails
  <2>4. CASE NoError(k) \/ Refused(k) \/ NoPeer(k)
    BY <2>4 DEF NoError, Refused, NoPeer
  <2>5. CASE HasPeer(k)
    BY <2>5 DEF HasPeer, Connected
  <2>6. CASE CloseClient(k)
    BY <2>6, LeftFacts DEF CloseClient
  <2>7. QED BY <2>1, <2>2, <2>3, <2>4, <2>5, <2>6 DEF Client
<1>3. QED BY <1>1, <1>2 DEF Held, Waits, servers

LEMMA KernelHolds ==
  ASSUME IInv, Held, NEW k \in Clients, Handshake(k) \/ Refuse(k) \/ TimesOut(k)
  PROVE  Held'
<1>1. /\ backlog \in [Fd -> Seq(Clients)] /\ link \in [Clients -> Links] /\ link[k] = "syn"
      /\ UNCHANGED <<cpc, csock, worker>>
  BY DEF IInv, Types, Handshake, Refuse, TimesOut, clientVars, servers, labour
<1>2. CASE Handshake(k)
  <2>1. PICK f \in Fd : backlog' = [backlog EXCEPT ![f] = Append(@, k)]
    BY <1>2 DEF Handshake
  <2>2. /\ \A g \in Fd : \A i \in 1 .. Len(backlog[g]) :
               i \in 1 .. Len(backlog'[g]) /\ backlog'[g][i] = backlog[g][i]
        /\ Len(backlog[f]) + 1 \in 1 .. Len(backlog'[f])
        /\ backlog'[f][Len(backlog[f]) + 1] = k
    <3>1. ASSUME NEW g \in Fd, NEW i \in 1 .. Len(backlog[g])
          PROVE  i \in 1 .. Len(backlog'[g]) /\ backlog'[g][i] = backlog[g][i]
      <4>1. CASE g = f
        BY <1>1, <2>1, <4>1
      <4>2. CASE g # f
        BY <1>1, <2>1, <4>2
      <4>3. QED BY <4>1, <4>2
    <3>2. /\ Len(backlog[f]) + 1 \in 1 .. Len(backlog'[f])
          /\ backlog'[f][Len(backlog[f]) + 1] = k
      BY <1>1, <2>1
    <3>3. QED BY <3>1, <3>2
  <2>3. Waits(k)' /\ \A l \in Clients : Waits(l) => Waits(l)'
    BY <2>2 DEF Waits
  <2>4. link' = [link EXCEPT ![k] = "queued"]
    BY <1>2 DEF Handshake
  <2>5. QED BY <1>1, <2>3, <2>4 DEF Held
<1>3. CASE Refuse(k) \/ TimesOut(k)
  <2>1. UNCHANGED backlog /\ \/ link' = [link EXCEPT ![k] = "refused"]
                             \/ link' = [link EXCEPT ![k] = "timedout"]
    BY <1>3 DEF Refuse, TimesOut, servers
  <2>2. QED BY <1>1, <2>1 DEF Held, Waits
<1>4. QED BY <1>2, <1>3

LEMMA NextHolds == IInv /\ Held /\ [Next]_vars => Held'
<1> SUFFICES ASSUME IInv, Held, [Next]_vars PROVE Held'
  OBVIOUS
<1>1. CASE UNCHANGED vars
  BY <1>1 DEF vars, serverVars, clientVars, Held, Waits
<1>2. CASE ServerNext /\ UNCHANGED <<clientVars, faults>>
  BY <1>2, ServerHolds
<1>3. ASSUME NEW k \in Clients,
             \/ MakeClient(k) \/ MakeNoSocket(k) \/ Client(k) \/ CloseClient(k)
             \/ Handshake(k) \/ Refuse(k) \/ TimesOut(k)
      PROVE  Held'
  BY <1>3, ClientHolds, KernelHolds
<1>4. QED BY <1>1, <1>2, <1>3 DEF Next

\* A client whose connect returned true waits in the backlog of a socket that listens or has
\* a worker with an open peer, until that server ends the connection, for every number of
\* servers, clients and descriptors (posix.h:204, 217-235; Server.h:83-85, 134-145).
THEOREM ConnectionsAreHeld == Spec => []ConnectionIsHeld
<1>1. Init => Held
  BY DEF Init, InitServers, Held
<1>2. IInv /\ Held => ConnectionIsHeld
  <2> SUFFICES ASSUME IInv, Held, strays = 0, NEW k \in Clients, cpc[k] = "up", csock[k]
               PROVE  \/ /\ link[k] = "queued" /\ k \notin worker
                         /\ \E f \in Fd : /\ sock[f] = "listening"
                                          /\ \E i \in DOMAIN backlog[f] : backlog[f][i] = k
                      \/ link[k] = "accepted" /\ k \in worker /\ sock[pfd[k]] = "peer"
                      \/ link[k] \in {"shut", "reset"} /\ k \notin worker
    BY DEF ConnectionIsHeld
  <2>1. Owned /\ Queues /\ backlog \in [Fd -> Seq(Clients)]
    BY DEF IInv, Types
  <2>2. link[k] \in {"queued", "accepted", "shut", "reset"}
    BY DEF Held
  <2>3. link[k] \notin {"accepted", "left"} => k \notin worker
    BY <2>1 DEF Queues
  <2>4. CASE link[k] = "queued"
    <3>1. PICK f \in Fd : \E i \in 1 .. Len(backlog[f]) : backlog[f][i] = k
      BY <2>4 DEF Held, Waits
    <3>2. sock[f] = "listening" /\ DOMAIN backlog[f] = 1 .. Len(backlog[f])
      BY <2>1, <3>1 DEF Queues
    <3>3. QED BY <2>3, <2>4, <3>1, <3>2
  <2>5. CASE link[k] = "accepted"
    BY <2>1, <2>5 DEF Held, Owned
  <2>6. QED BY <2>2, <2>3, <2>4, <2>5
<1>3. QED BY Invariance, NextHolds, <1>1, <1>2, PTL DEF Spec
=============================================================================
