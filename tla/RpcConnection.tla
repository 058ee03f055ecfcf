--------------------------- MODULE RpcConnection ---------------------------
(***************************************************************************)
(* One long-lived connection (trpc/Client.h, trpc/Server.h,                *)
(* trpc/detail/Health.h): the coroutine that makes calls on a Client, the  *)
(* worker coroutine that onAccept runs for the accepted peer, and the two  *)
(* TCP byte streams between them.  The two coroutines may be in different  *)
(* processes and interleave at every turn of a best-effort transfer.       *)
(*                                                                         *)
(* A frame is a header that holds the length of the content, and the       *)
(* content.  The byte at position i of the frame of call c is the token    *)
(* <<c, i>>; positions 1..HDR are the header.                              *)
(***************************************************************************)
EXTENDS Transfer, Sequences, FiniteSets

CONSTANTS
    MaxCalls,       \* calls made on the connection
    HDR,            \* sizeof(Codec::Header)
    QLen, RLen,     \* content length of the request and response of each call
    ClientBuf,      \* Client::BUF_SIZE_ON_STACK
    HealthBuf,      \* Health::BUF_SIZE
    ClientRetries,  \* turns of a client transfer
    ServerRetries,  \* turns of a server transfer
    DeathCountdown, \* reads Health::check is patient for
    SplitRequest,   \* the socket may take only part of a request header at once
    SplitResponse,  \* a response header may arrive in parts
    MayDrop,        \* the user's callbacks may return false
    WildLengths     \* what a length may read as where no header is

Calls == 1 .. MaxCalls

ASSUME CountsAssumption ==
    /\ MaxCalls \in Nat /\ HDR \in Nat \ {0} /\ ClientBuf \in Nat /\ HealthBuf \in Nat
    /\ ClientRetries \in Nat \ {0} /\ ServerRetries \in Nat \ {0}
    /\ DeathCountdown \in Nat \ {0}
ASSUME LengthsAssumption ==
    /\ QLen \in [Calls -> Nat \ {0}] /\ RLen \in [Calls -> Nat \ {0}]
    /\ WildLengths \subseteq Nat
ASSUME SwitchesAssumption == {SplitRequest, SplitResponse, MayDrop} \subseteq BOOLEAN

VARIABLES
    \* the calling coroutine
    cpc,       \* where Client::call is; "overrun" if it wrote behind its buffer
    n,         \* the current or last call
    sock,      \* _socket is valid
    health,    \* _health
    left,      \* deathCountdown of the check
    ct,        \* current transfer
    cbuf,      \* bytes read into buf by the current transfer
    status,    \* history: how each call stands
    answer,    \* history: which request an answered call got the result of
    accepted,  \* history: the last call that passed the check
    \* the network
    c2s, s2c,
    \* the worker
    spc,       \* where Server::onAccept is
    st,        \* current transfer
    sbuf,      \* bytes read by the current transfer
    request,   \* what the content part of buf parses to, 0 for no request
    executed   \* history: requests passed to netCall

client == <<cpc, n, sock, health, left, ct, cbuf, status, answer, accepted>>
worker == <<spc, st, sbuf, request, executed>>
vars == <<client, worker, c2s, s2c>>

\* k bytes of the frame of call c behind its first i bytes.
Bytes(c, i, k) == [j \in 1 .. k |-> <<c, i + j>>]

Drop(s, k) == SubSeq(s, k + 1, Len(s))

\* Codec::contentLength on a header, of frames with the lengths L: the length that
\* the header announces, and anything if the bytes are not one header.
Announced(h, L) ==
    IF h = Bytes(h[1][1], 0, HDR) THEN {L[h[1][1]]} ELSE WildLengths

\* The call whose frame content is the bytes s, 0 if it is none's (Codec::decode).
Decoded(s, L) ==
    IF s # <<>> /\ s = Bytes(s[1][1], HDR, L[s[1][1]]) THEN s[1][1] ELSE 0

\* What a transfer that ends short of its size may return: -1 for an error or the
\* deadline inside a turn, the offset at the end of the stream or behind the loop.
Shortfall(x, max, fin) ==
    (IF Exhausted(x, max) THEN {ResultWhenExhausted(x)}
     ELSE {-1} \cup (IF fin THEN {x.off} ELSE {})) \ {x.size}

WorkerGone == spc = "gone"

\* What is lost of a stream when its reader is reset: any suffix.
Cut(s, reset) == IF reset THEN {SubSeq(s, 1, k) : k \in 0 .. Len(s)} ELSE {s}

-----------------------------------------------------------------------------
NoRead == [state |-> "NO_READ", some |-> 0, content |-> 0]

Init ==
    /\ cpc = "idle" /\ n = 0 /\ sock = TRUE /\ health = NoRead /\ left = 0
    /\ ct = Begin(0) /\ cbuf = <<>>
    /\ status = [c \in Calls |-> "new"] /\ answer = [c \in Calls |-> 0]
    /\ accepted = 0
    /\ c2s = <<>> /\ s2c = <<>>
    /\ spc = "pending" /\ st = Begin(0) /\ sbuf = <<>> /\ request = 0
    /\ executed = <<>>

-----------------------------------------------------------------------------
(* The client.  call() begins with the health check.                        *)

Return(result) ==
    /\ cpc' = "idle"
    /\ status' = [status EXCEPT ![n] = result]

Close ==
    /\ sock' = FALSE
    /\ c2s' \in Cut(c2s, s2c # <<>>)
    /\ s2c' = <<>>

Call ==
    /\ cpc = "idle" /\ n < MaxCalls
    /\ n' = n + 1
    /\ cpc' = "check"
    /\ left' = DeathCountdown
    /\ UNCHANGED <<sock, health, ct, cbuf, status, answer, accepted, worker, c2s, s2c>>

\* Mutation: the countdown runs out, and nothing ends the check.
CheckRefusesTheDead ==
    /\ cpc = "check"
    /\ ~sock \/ health.state = "UNDEFINED"
    /\ Return("refused")
    /\ UNCHANGED <<n, sock, health, left, ct, cbuf, answer, accepted, worker, c2s, s2c>>

\* Health::check returns false: no socket, undefined state, or too many steps.
CheckRefuses ==
    /\ cpc = "check"
    /\ ~sock \/ health.state = "UNDEFINED" \/ left = 0
    /\ Return("refused")
    /\ UNCHANGED <<n, sock, health, left, ct, cbuf, answer, accepted, worker, c2s, s2c>>

\* Mutation: the check of the descriptor is forgotten.
CheckPassesAnySocket ==
    /\ cpc = "check" /\ left > 0
    /\ health.state = "NO_READ"
    /\ cpc' = "wHeader"
    /\ ct' = Begin(HDR)
    /\ status' = [status EXCEPT ![n] = "open"]
    /\ accepted' = n
    /\ UNCHANGED <<n, sock, health, left, cbuf, answer, worker, c2s, s2c>>

\* It returns true: call() starts to write the request header.
CheckPasses ==
    /\ cpc = "check" /\ sock /\ left > 0
    /\ health.state = "NO_READ"
    /\ cpc' = "wHeader"
    /\ ct' = Begin(HDR)
    /\ status' = [status EXCEPT ![n] = "open"]
    /\ accepted' = n
    /\ UNCHANGED <<n, sock, health, left, cbuf, answer, worker, c2s, s2c>>

\* A step of the countdown in which there is something to drain.
Draining(state) ==
    /\ cpc = "check" /\ sock /\ left > 0
    /\ health.state = state
    /\ left' = left - 1
    /\ UNCHANGED <<cpc, n, sock, ct, cbuf, status, answer, accepted, worker, c2s>>

Boundary == IF health.state = "HEADER_READ_SOME" THEN HDR - health.some
            ELSE health.content - health.some

\* ::read gets fewer bytes than it asked for.  Here and in DrainContent a read of more
\* than HealthBuf bytes is one whose overrun of buf does no harm: see DrainOverruns.
DrainPart(k) ==
    /\ \/ Draining("HEADER_READ_SOME") /\ SplitResponse
       \/ Draining("CONTENT_READ_SOME")
    /\ k <= Len(s2c) /\ k < Boundary
    /\ health' = [health EXCEPT !.some = @ + k]
    /\ s2c' = Drop(s2c, k)

\* The rest of the header: buf holds only what this last ::read got.
DrainHeader ==
    /\ Draining("HEADER_READ_SOME")
    /\ Boundary \in 1 .. Len(s2c)
    /\ SplitResponse \/ health.some = 0
    /\ \E length \in IF health.some = 0 THEN Announced(SubSeq(s2c, 1, HDR), RLen)
                     ELSE WildLengths :
         health' = [state |-> IF length > HealthBuf THEN "UNDEFINED"
                              ELSE "CONTENT_READ_SOME",
                    some |-> 0, content |-> length]
    /\ s2c' = Drop(s2c, Boundary)

DrainContent ==
    /\ Draining("CONTENT_READ_SOME")
    /\ Boundary \in 1 .. Len(s2c)
    /\ health' = [health EXCEPT !.state = "NO_READ", !.some = 0]
    /\ s2c' = Drop(s2c, Boundary)

\* A content is read into buf with one ::read, however long it is: only a length that
\* the check itself has read is compared with HealthBuf.  More bytes than that are
\* written over what lies behind buf.  Undefined: the process may end, or go on as
\* above if nothing there was in use; the model follows it no further than this.
DrainOverruns ==
    /\ cpc = "check" /\ sock /\ left > 0
    /\ health.state = "CONTENT_READ_SOME"
    /\ HealthBuf < Boundary /\ HealthBuf < Len(s2c)
    /\ cpc' = "overrun"
    /\ Close
    /\ UNCHANGED <<n, health, left, ct, cbuf, status, answer, accepted, worker>>

\* ::read returns 0 or -1: nothing has arrived (yet), or the peer is gone.
DrainNothing ==
    /\ Draining("HEADER_READ_SOME") \/ Draining("CONTENT_READ_SOME")
    /\ health' = [health EXCEPT !.state = "UNDEFINED"]
    /\ UNCHANGED s2c

\* k bytes of the request, starting behind position i of its frame, are taken by
\* the socket; they go nowhere when the worker has closed the other end.
Sends(i, k) ==
    /\ ~Exhausted(ct, ClientRetries)
    /\ k <= ct.size - ct.off
    /\ c2s' = IF WorkerGone THEN c2s ELSE c2s \o Bytes(n, i + ct.off, k)
    /\ UNCHANGED <<n, sock, health, left, status, answer, accepted, worker, s2c>>

SendHeader(k) ==
    /\ cpc = "wHeader"
    /\ SplitRequest \/ k = HDR
    /\ Sends(0, k)
    /\ IF Complete(Advance(ct, k))
         THEN cpc' = "wContent" /\ ct' = Begin(QLen[n])
         ELSE ct' = Advance(Attempt(ct), k) /\ UNCHANGED cpc
    /\ UNCHANGED cbuf

SendContent(k) ==
    /\ cpc = "wContent"
    /\ Sends(HDR, k)
    /\ IF Complete(Advance(ct, k))
         THEN cpc' = "rHeader" /\ ct' = Begin(HDR) /\ cbuf' = <<>>
         ELSE ct' = Advance(Attempt(ct), k) /\ UNCHANGED <<cpc, cbuf>>

\* Mutation: idle turns are not limited.
ClientIdlesOn ==
    /\ cpc \in {"wHeader", "wContent", "rHeader", "rContent"}
    /\ ct' = Attempt(ct)
    /\ UNCHANGED <<cpc, n, sock, health, left, cbuf, status, answer, accepted,
                   worker, c2s, s2c>>

\* A turn of any transfer of the client in which nothing moves.
ClientIdles ==
    /\ cpc \in {"wHeader", "wContent", "rHeader", "rContent"}
    /\ ~Exhausted(ct, ClientRetries)
    /\ ct' = Attempt(ct)
    /\ UNCHANGED <<cpc, n, sock, health, left, cbuf, status, answer, accepted,
                   worker, c2s, s2c>>

\* The header was not written: close only if the transfer reports some bytes.
SendHeaderFails ==
    /\ cpc = "wHeader"
    /\ \E written \in Shortfall(ct, ClientRetries, FALSE) :
         IF written > 0 THEN Close ELSE UNCHANGED <<sock, c2s, s2c>>
    /\ Return("failed")
    /\ UNCHANGED <<n, health, left, ct, cbuf, answer, accepted, worker>>

\* Mutation: a request written in part leaves the connection open.
SendContentFailsOpen ==
    /\ cpc = "wContent"
    /\ Shortfall(ct, ClientRetries, FALSE) # {}
    /\ Return("failed")
    /\ UNCHANGED <<n, sock, health, left, ct, cbuf, answer, accepted, worker, c2s, s2c>>

SendContentFails ==
    /\ cpc = "wContent"
    /\ Shortfall(ct, ClientRetries, FALSE) # {}
    /\ Close
    /\ Return("failed")
    /\ UNCHANGED <<n, health, left, ct, cbuf, answer, accepted, worker>>

\* k bytes of the response are read into buf.
Receives(k) ==
    /\ ~Exhausted(ct, ClientRetries)
    /\ k <= ct.size - ct.off /\ k <= Len(s2c)
    /\ UNCHANGED <<n, left, accepted, worker>>

ReceiveHeaderPart(k) ==
    /\ cpc = "rHeader" /\ SplitResponse
    /\ Receives(k)
    /\ ~Complete(Advance(ct, k))
    /\ ct' = Advance(Attempt(ct), k)
    /\ cbuf' = cbuf \o SubSeq(s2c, 1, k)
    /\ s2c' = Drop(s2c, k)
    /\ UNCHANGED <<cpc, sock, health, status, answer, c2s>>

\* The header is complete: go on with the content, or ENOMEM if it does not fit.
ReceiveHeader(k) ==
    /\ cpc = "rHeader"
    /\ SplitResponse \/ k = HDR
    /\ Receives(k)
    /\ Complete(Advance(ct, k))
    /\ \E length \in Announced(cbuf \o SubSeq(s2c, 1, k), RLen) :
         IF HDR + length > ClientBuf
           THEN /\ Return("failed")
                /\ Close
                /\ UNCHANGED <<ct, cbuf>>
           ELSE /\ cpc' = "rContent" /\ ct' = Begin(length) /\ cbuf' = <<>>
                /\ s2c' = Drop(s2c, k)
                /\ UNCHANGED <<sock, status, c2s>>
    /\ UNCHANGED <<health, answer>>

ReceiveContentPart(k) ==
    /\ cpc = "rContent"
    /\ Receives(k)
    /\ ~Complete(Advance(ct, k))
    /\ ct' = Advance(Attempt(ct), k)
    /\ cbuf' = cbuf \o SubSeq(s2c, 1, k)
    /\ s2c' = Drop(s2c, k)
    /\ UNCHANGED <<cpc, sock, health, status, answer, c2s>>

\* The whole response is there: decode it and return its result.
ReceiveContent(k) ==
    /\ cpc = "rContent"
    /\ Receives(k)
    /\ Complete(Advance(ct, k))
    /\ LET j == Decoded(cbuf \o SubSeq(s2c, 1, k), RLen) IN
         /\ answer' = [answer EXCEPT ![n] = j]
         /\ Return(IF j = 0 THEN "garbled" ELSE "answered")
    /\ s2c' = Drop(s2c, k)
    /\ UNCHANGED <<sock, health, ct, cbuf, c2s>>

\* A header that was no header announced 0 bytes: whatever buf holds is decoded.
ReceiveNothing ==
    /\ cpc = "rContent" /\ ct.size = 0
    /\ ~Exhausted(ct, ClientRetries)
    /\ s2c # <<>> \/ WorkerGone
    /\ Return("garbled")
    /\ UNCHANGED <<n, sock, health, left, ct, cbuf, answer, accepted, worker, c2s, s2c>>

\* Mutation: the failure is not noted for the next check.
ReceiveHeaderFailsUnnoted ==
    /\ cpc = "rHeader"
    /\ Shortfall(ct, ClientRetries, WorkerGone /\ s2c = <<>>) # {}
    /\ Return("failed")
    /\ UNCHANGED <<n, sock, health, left, ct, cbuf, answer, accepted, worker, c2s, s2c>>

\* The response was not read: the next check drains what it can know of.
ReceiveHeaderFails ==
    /\ cpc = "rHeader"
    /\ \E some \in Shortfall(ct, ClientRetries, WorkerGone /\ s2c = <<>>) :
         health' = [state |-> "HEADER_READ_SOME",
                    some |-> IF some < 0 THEN 0 ELSE some, content |-> 0]
    /\ Return("failed")
    /\ UNCHANGED <<n, sock, left, ct, cbuf, answer, accepted, worker, c2s, s2c>>

ReceiveContentFails ==
    /\ cpc = "rContent"
    /\ \E some \in Shortfall(ct, ClientRetries, WorkerGone /\ s2c = <<>>) :
         health' = [state |-> "CONTENT_READ_SOME",
                    some |-> IF some < 0 THEN 0 ELSE some, content |-> ct.size]
    /\ Return("failed")
    /\ UNCHANGED <<n, sock, left, ct, cbuf, answer, accepted, worker, c2s, s2c>>

\* The user closes the client between two calls, or destroys it.
UserCloses ==
    /\ cpc = "idle" /\ sock
    /\ Close
    /\ UNCHANGED <<cpc, n, health, left, ct, cbuf, status, answer, accepted, worker>>

Client ==
    \/ CheckRefuses \/ CheckPasses
    \/ \E k \in 1 .. Len(s2c) : DrainPart(k)
    \/ DrainHeader \/ DrainContent \/ DrainOverruns \/ DrainNothing
    \/ \E k \in 1 .. HDR : SendHeader(k)
    \/ \E k \in 1 .. ct.size : SendContent(k)
    \/ ClientIdles \/ SendHeaderFails \/ SendContentFails
    \/ \E k \in 1 .. HDR : ReceiveHeaderPart(k) \/ ReceiveHeader(k)
    \/ \E k \in 1 .. ct.size : ReceiveContentPart(k) \/ ReceiveContent(k)
    \/ ReceiveNothing
    \/ ReceiveHeaderFails \/ ReceiveContentFails

-----------------------------------------------------------------------------
(* The worker: the loop of onAccept.                                        *)

\* break, and ::close(peerFd) in the worker's lambda; or the process dies.
Leave ==
    /\ spc' = "gone"
    /\ s2c' \in Cut(s2c, c2s # <<>>)
    /\ c2s' = <<>>

Readable == c2s # <<>> \/ ~sock

\* bestEffortPending: the poll reports the peer, no byte is read.
PendingEnds ==
    /\ spc = "pending" /\ Readable
    /\ spc' = "rHeader" /\ st' = Begin(HDR) /\ sbuf' = <<>>
    /\ UNCHANGED <<client, request, executed, c2s, s2c>>

\* Its only turn times out or fails: the connection is given up.
PendingFails ==
    /\ spc = "pending"
    /\ Leave
    /\ UNCHANGED <<client, st, sbuf, request, executed>>

WorkerReads(k) ==
    /\ ~Exhausted(st, ServerRetries)
    /\ k <= st.size - st.off /\ k <= Len(c2s)
    /\ c2s' = Drop(c2s, k)
    /\ UNCHANGED <<client, executed, s2c>>

WorkerReadsPart(k) ==
    /\ spc \in {"rHeader", "rContent"}
    /\ WorkerReads(k)
    /\ ~Complete(Advance(st, k))
    /\ st' = Advance(Attempt(st), k)
    /\ sbuf' = sbuf \o SubSeq(c2s, 1, k)
    /\ UNCHANGED <<spc, request>>

WorkerReadsHeader(k) ==
    /\ spc = "rHeader"
    /\ WorkerReads(k)
    /\ Complete(Advance(st, k))
    /\ \E length \in Announced(sbuf \o SubSeq(c2s, 1, k), QLen) : st' = Begin(length)
    /\ spc' = "rContent" /\ sbuf' = <<>>
    /\ UNCHANGED request

WorkerReadsContent(k) ==
    /\ spc = "rContent"
    /\ WorkerReads(k)
    /\ Complete(Advance(st, k))
    /\ request' = Decoded(sbuf \o SubSeq(c2s, 1, k), QLen)
    /\ spc' = "decoded"
    /\ UNCHANGED <<st, sbuf>>

\* A header that was no header announced 0 bytes: buf keeps its last content,
\* it was declared outside the loop.
WorkerReadsNothing ==
    /\ spc = "rContent" /\ st.size = 0
    /\ ~Exhausted(st, ServerRetries)
    /\ Readable
    /\ spc' = "decoded"
    /\ UNCHANGED <<client, st, sbuf, request, executed, c2s, s2c>>

\* Any turn of a transfer of the worker in which nothing moves.
WorkerIdles ==
    /\ spc \in {"rHeader", "rContent", "wHeader", "wContent"}
    /\ ~Exhausted(st, ServerRetries)
    /\ st' = Attempt(st)
    /\ UNCHANGED <<client, spc, sbuf, request, executed, c2s, s2c>>

\* Mutation: continue instead of break.
WorkerFailsOn ==
    /\ \/ /\ spc \in {"rHeader", "rContent"}
          /\ Shortfall(st, ServerRetries, ~sock /\ c2s = <<>>) # {}
       \/ /\ spc \in {"wHeader", "wContent"}
          /\ Shortfall(st, ServerRetries, FALSE) # {}
    /\ spc' = "pending"
    /\ UNCHANGED <<client, st, sbuf, request, executed, c2s, s2c>>

\* A transfer falls short of its size: break.
WorkerFails ==
    /\ \/ /\ spc \in {"rHeader", "rContent"}
          /\ Shortfall(st, ServerRetries, ~sock /\ c2s = <<>>) # {}
       \/ /\ spc \in {"wHeader", "wContent"}
          /\ Shortfall(st, ServerRetries, FALSE) # {}
    /\ Leave
    /\ UNCHANGED <<client, st, sbuf, request, executed>>

\* decode, makeEmptyResponse or prepareNetCall throws outside of the try block; nothing
\* handles it and the process ends.  Dispatch has what this means for other workers.
WorkerAborts ==
    /\ spc = "decoded" /\ request = 0
    /\ Leave
    /\ UNCHANGED <<client, st, sbuf, request, executed>>

\* The request callback returns false: the next request, without an answer.
RequestDropped ==
    /\ spc = "decoded" /\ request # 0 /\ MayDrop
    /\ spc' = "pending"
    /\ UNCHANGED <<client, st, sbuf, request, executed, c2s, s2c>>

\* netCall runs the bound function, or throws what becomes an error response.
RunRequest ==
    /\ spc = "decoded" /\ request # 0
    /\ executed' = Append(executed, request)
    /\ spc' = "answering"
    /\ UNCHANGED <<client, st, sbuf, request, c2s, s2c>>

\* Mutation: a rejected response makes the worker run the request again.
ResponseDroppedRetried ==
    /\ spc = "answering" /\ MayDrop
    /\ spc' = "decoded"
    /\ UNCHANGED <<client, st, sbuf, request, executed, c2s, s2c>>

\* The response callback returns false.
ResponseDropped ==
    /\ spc = "answering" /\ MayDrop
    /\ spc' = "pending"
    /\ UNCHANGED <<client, st, sbuf, request, executed, c2s, s2c>>

StartResponse ==
    /\ spc = "answering"
    /\ spc' = "wHeader" /\ st' = Begin(HDR)
    /\ UNCHANGED <<client, sbuf, request, executed, c2s, s2c>>

WorkerWrites(i, k) ==
    /\ ~Exhausted(st, ServerRetries)
    /\ k <= st.size - st.off
    /\ s2c' = IF sock THEN s2c \o Bytes(request, i + st.off, k) ELSE s2c
    /\ UNCHANGED <<client, sbuf, request, executed, c2s>>

WorkerWritesHeader(k) ==
    /\ spc = "wHeader"
    /\ WorkerWrites(0, k)
    /\ IF Complete(Advance(st, k))
         THEN spc' = "wContent" /\ st' = Begin(RLen[request])
         ELSE st' = Advance(Attempt(st), k) /\ UNCHANGED spc

WorkerWritesContent(k) ==
    /\ spc = "wContent"
    /\ WorkerWrites(HDR, k)
    /\ IF Complete(Advance(st, k))
         THEN spc' = "pending" /\ UNCHANGED st
         ELSE st' = Advance(Attempt(st), k) /\ UNCHANGED spc

Worker ==
    \/ PendingEnds \/ PendingFails
    \/ \E k \in 1 .. st.size :
          WorkerReadsPart(k) \/ WorkerReadsHeader(k) \/ WorkerReadsContent(k)
    \/ WorkerReadsNothing
    \/ WorkerIdles \/ WorkerFails \/ WorkerAborts
    \/ RequestDropped \/ RunRequest \/ ResponseDropped \/ StartResponse
    \/ \E k \in 1 .. st.size : WorkerWritesHeader(k) \/ WorkerWritesContent(k)

\* The server process dies at any point; the kernel closes its descriptors.
ServerCrashes ==
    /\ ~WorkerGone
    /\ Leave
    /\ UNCHANGED <<client, st, sbuf, request, executed>>

Next == Call \/ Client \/ UserCloses \/ Worker \/ ServerCrashes

\* Calls, closing and crashes need not happen.  A call that has begun goes on, since
\* its timers fire, and so does the worker, if the functions bound to it return.
Spec == Init /\ [][Next]_vars /\ WF_vars(Client) /\ WF_vars(Worker)

-----------------------------------------------------------------------------
ClientAt == {"idle", "check", "wHeader", "wContent", "rHeader", "rContent", "overrun"}
WorkerAt == {"pending", "rHeader", "rContent", "decoded", "answering",
             "wHeader", "wContent", "gone"}
Healths == {"UNDEFINED", "NO_READ", "HEADER_READ_SOME", "CONTENT_READ_SOME"}
Settled == {"refused", "failed", "answered", "garbled"}
Tokens == Calls \X Nat

TypeOK ==
    /\ cpc \in ClientAt
    /\ n \in 0 .. MaxCalls
    /\ sock \in BOOLEAN
    /\ health \in [state : Healths, some : Nat, content : Nat]
    /\ left \in 0 .. DeathCountdown
    /\ IsTransfer(ct, Nat, ClientRetries)
    /\ cbuf \in Seq(Tokens)
    /\ status \in [Calls -> {"new", "open"} \cup Settled]
    /\ answer \in [Calls -> 0 .. MaxCalls]
    /\ accepted \in 0 .. MaxCalls
    /\ c2s \in Seq(Tokens)
    /\ s2c \in Seq(Tokens)
    /\ spc \in WorkerAt
    /\ IsTransfer(st, Nat, ServerRetries)
    /\ sbuf \in Seq(Tokens)
    /\ request \in 0 .. MaxCalls
    /\ executed \in Seq(Calls)

\* A call returns the result of its own request, whatever was lost, late or cut off
\* in the calls before it, and whatever was drained within buf: what an overrun of it
\* leaves is not followed (Client.h:181-192 never compares the ids).
OwnAnswer == \A c \in Calls : status[c] = "answered" => answer[c] = c

\* A call that begins to write finds the two ends in step: the worker waits for a
\* request, and neither stream holds a byte of an earlier exchange.  Its check has not
\* overrun its buffer, or not to any harm (DrainOverruns).
InStep ==
    (cpc = "wHeader" /\ ct.off = 0 /\ ~WorkerGone) =>
        spc = "pending" /\ c2s = <<>> /\ s2c = <<>>

\* README.md:115: before every call on a long connection it is ensured that no bytes
\* have accumulated in the kernel's buffer.
NothingAccumulated == (cpc = "wHeader" /\ ct.off = 0) => s2c = <<>>

\* Health.h:83-86: a frame that does not fit buf is "huge", the check does not "waste
\* its time" on it and gives the connection up; so no check reads more than buf holds.
HugeFramesSkipped == cpc # "overrun"

\* README.md:109: a call whose request was written in part leaves a dead connection.
PartialRequestKills ==
    [][ (cpc = "wHeader" /\ ct.off > 0 /\ cpc' = "idle") => ~sock' ]_vars

\* A connection that the client has given up, or lost track of, is never used again.
DeadStaysDead ==
    [][ (~sock \/ health.state = "UNDEFINED")
            => /\ ~sock' \/ health'.state = "UNDEFINED"
               /\ cpc' \in {"idle", "check", "overrun"} ]_vars

\* Every call returns, whatever the network and the server do, unless its check
\* overruns its buffer, behind which nothing is known of the process.
CallReturns == cpc # "idle" ~> cpc \in {"idle", "overrun"}

\* The worker of a closed client ends: no worker waits on a peer that has gone.
WorkerReleased == ~sock ~> WorkerGone

\* How each call stands for its user: AbstractRpc has no answer of another call.
Seen == [c \in Calls |-> IF status[c] = "answered" /\ answer[c] # c THEN "mixed up"
                         ELSE status[c]]

\* The connection implements the promise made to the user.
Promise == INSTANCE AbstractRpc WITH status <- Seen, ran <- executed
KeepsPromise == Promise!Spec
=============================================================================
