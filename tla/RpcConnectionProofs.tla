------------------------ MODULE RpcConnectionProofs ------------------------
(* What RpcConnection promises for every number and size of frames, for     *)
(* every buffer size, and however the streams cut the frames.               *)
EXTENDS RpcConnection, TLAPS

\* A worker that answers has a request, which is one of the calls.
Serving == spc \in {"answering", "wHeader", "wContent"} => request # 0

\* A client inside call() has a call number.
Calling == cpc # "idle" => n # 0

\* Behind the health check the connection is valid and in step with its health.
Live == cpc \notin {"idle", "check", "overrun"} => sock /\ health.state = "NO_READ"

IInv == TypeOK /\ Serving /\ Calling /\ Live

-----------------------------------------------------------------------------
(* What the steps of a transfer preserve.                                   *)

\* The parts of a transfer are natural numbers.
LEMMA TransferFacts ==
  ASSUME NEW S \in SUBSET Nat, NEW max \in Nat, NEW x, IsTransfer(x, S, max)
  PROVE  x.size \in S /\ x.size \in Nat /\ x.off \in Nat /\ x.tries \in Nat
<1>1. x.size \in S /\ x.off \in Nat /\ x.tries \in 0 .. max
  BY DEF IsTransfer
<1>2. 0 .. max \subseteq Nat
  OBVIOUS
<1>3. QED BY <1>1, <1>2, Zenon

\* A new transfer is one, of the size asked for.
LEMMA BeginIsTransfer ==
  ASSUME NEW S \in SUBSET Nat, NEW max \in Nat, NEW k \in S
  PROVE  IsTransfer(Begin(k), S, max) /\ Begin(k).size = k
<1>1. 0 \in 0 .. max /\ 0 <= k
  OBVIOUS
<1>2. QED BY <1>1 DEF IsTransfer, Begin

\* Counting a turn leaves a transfer one.
LEMMA AttemptIsTransfer ==
  ASSUME NEW S \in SUBSET Nat, NEW max \in Nat, NEW x,
         IsTransfer(x, S, max), ~Exhausted(x, max)
  PROVE  /\ IsTransfer(Attempt(x), S, max)
         /\ Attempt(x).size = x.size
         /\ Attempt(x).off = x.off
  BY TransferFacts DEF IsTransfer, Attempt, Exhausted

\* So does advancing by what is missing at most.
LEMMA AdvanceIsTransfer ==
  ASSUME NEW S \in SUBSET Nat, NEW max \in Nat, NEW x,
         IsTransfer(x, S, max), NEW k \in Nat, k <= x.size - x.off
  PROVE  /\ IsTransfer(Advance(x, k), S, max)
         /\ Advance(x, k).size = x.size
         /\ Advance(x, k).off = x.off + k
         /\ Advance(x, k).tries = x.tries
<1>1. x.size \in Nat /\ x.off \in Nat
  BY TransferFacts
<1>2. QED BY <1>1 DEF IsTransfer, Advance

\* A whole turn of the loop: counted, and k bytes moved.
LEMMA TurnIsTransfer ==
  ASSUME NEW S \in SUBSET Nat, NEW max \in Nat, NEW x,
         IsTransfer(x, S, max), ~Exhausted(x, max),
         NEW k \in Nat, k <= x.size - x.off
  PROVE  IsTransfer(Advance(Attempt(x), k), S, max)
<1>1. /\ IsTransfer(Attempt(x), S, max)
      /\ Attempt(x).size = x.size /\ Attempt(x).off = x.off
  BY AttemptIsTransfer
<1>2. QED BY <1>1, AdvanceIsTransfer

\* What the loop returns behind its last turn is -1 or a positive number of bytes.
LEMMA ExhaustedResult ==
  ASSUME NEW S \in SUBSET Nat, NEW max \in Nat, NEW x, IsTransfer(x, S, max)
  PROVE  ResultWhenExhausted(x) \in Int /\ ResultWhenExhausted(x) >= -1
                                        /\ ResultWhenExhausted(x) # 0
  BY TransferFacts DEF ResultWhenExhausted

-----------------------------------------------------------------------------
(* The helpers of the model keep to their types.                            *)

LEMMA CallsAreNat == Calls \subseteq Nat /\ 0 .. MaxCalls = Calls \cup {0}
  BY CountsAssumption DEF Calls

LEMMA BytesType ==
  ASSUME NEW c \in Calls, NEW i \in Nat, NEW k \in Nat
  PROVE  Bytes(c, i, k) \in Seq(Tokens)
<1>1. ASSUME NEW j \in 1 .. k PROVE <<c, i + j>> \in Tokens
  BY DEF Tokens
<1>2. QED BY <1>1 DEF Bytes

LEMMA DropType ==
  ASSUME NEW s \in Seq(Tokens), NEW k \in Nat, k <= Len(s)
  PROVE  Drop(s, k) \in Seq(Tokens) /\ SubSeq(s, 1, k) \in Seq(Tokens)
  BY DEF Drop

LEMMA CutType ==
  ASSUME NEW s \in Seq(Tokens), NEW reset \in BOOLEAN, NEW t \in Cut(s, reset)
  PROVE  t \in Seq(Tokens)
<1>1. CASE reset
  <2>1. PICK k \in 0 .. Len(s) : t = SubSeq(s, 1, k)
    BY <1>1 DEF Cut
  <2>2. QED BY <2>1
<1>2. CASE ~reset
  BY <1>2 DEF Cut
<1>3. QED BY <1>1, <1>2

\* The first token of a sequence belongs to a call.
LEMMA FirstToken ==
  ASSUME NEW s \in Seq(Tokens), s # <<>>
  PROVE  s[1][1] \in Calls
<1>1. s[1] \in Tokens
  BY DEF Tokens
<1>2. QED BY <1>1 DEF Tokens

LEMMA AnnouncedType ==
  ASSUME NEW h \in Seq(Tokens), NEW L \in [Calls -> Nat \ {0}],
         NEW length \in Announced(h, L)
  PROVE  length \in Nat
<1>1. CASE h = Bytes(h[1][1], 0, HDR)
  <2>1. DOMAIN h = 1 .. HDR
    BY <1>1 DEF Bytes
  <2>2. h # <<>>
    BY <2>1, CountsAssumption
  <2>3. h[1][1] \in Calls
    BY <2>2, FirstToken
  <2>4. QED BY <1>1, <2>3 DEF Announced
<1>2. CASE h # Bytes(h[1][1], 0, HDR)
  BY <1>2, LengthsAssumption DEF Announced
<1>3. QED BY <1>1, <1>2

LEMMA DecodedType ==
  ASSUME NEW s \in Seq(Tokens), NEW L
  PROVE  Decoded(s, L) \in 0 .. MaxCalls
  BY FirstToken, CallsAreNat, CountsAssumption DEF Decoded

LEMMA ShortfallType ==
  ASSUME NEW max \in Nat, NEW x, IsTransfer(x, Nat, max),
         NEW result \in {-1, x.off, ResultWhenExhausted(x)}
  PROVE  (IF result < 0 THEN 0 ELSE result) \in Nat
<1>1. x.off \in Nat /\ ResultWhenExhausted(x) \in Int
  BY TransferFacts, ExhaustedResult
<1>2. QED BY <1>1

-----------------------------------------------------------------------------
(* The steps keep the invariant.                                            *)

LEMMA InitIInv == Init => IInv
<1> SUFFICES ASSUME Init PROVE IInv
  OBVIOUS
<1>1. IsTransfer(ct, Nat, ClientRetries) /\ IsTransfer(st, Nat, ServerRetries)
  BY BeginIsTransfer, CountsAssumption DEF Init
<1>2. TypeOK
  BY <1>1, CountsAssumption
     DEF Init, TypeOK, NoRead, Healths, ClientAt, WorkerAt, Settled
<1>3. Serving /\ Calling /\ Live
  BY DEF Init, Serving, Calling, Live
<1>4. QED BY <1>2, <1>3 DEF IInv

\* The parts of the invariant, and what they say of the numbers.
LEMMA Parts ==
  ASSUME IInv
  PROVE  /\ TypeOK /\ Serving /\ Calling /\ Live
         /\ ct.size \in Nat /\ ct.off \in Nat /\ st.size \in Nat /\ st.off \in Nat
         /\ health.some \in Nat /\ health.content \in Nat
         /\ IsTransfer(ct, Nat, ClientRetries) /\ IsTransfer(st, Nat, ServerRetries)
         /\ c2s \in Seq(Tokens) /\ s2c \in Seq(Tokens)
         /\ cbuf \in Seq(Tokens) /\ sbuf \in Seq(Tokens)
         /\ health \in [state : Healths, some : Nat, content : Nat]
         /\ cpc # "idle" => n \in Calls
         /\ request # 0 => request \in Calls
<1>1. /\ TypeOK /\ Serving /\ Calling /\ Live
  BY DEF IInv
<1>2. ct.size \in Nat /\ ct.off \in Nat /\ st.size \in Nat /\ st.off \in Nat
  BY <1>1, TransferFacts, CountsAssumption DEF TypeOK
<1>3. health.some \in Nat /\ health.content \in Nat
  BY <1>1 DEF TypeOK
<1>4. (cpc # "idle" => n \in Calls) /\ (request # 0 => request \in Calls)
  BY <1>1, CallsAreNat DEF TypeOK, Calling
<1>5. /\ IsTransfer(ct, Nat, ClientRetries) /\ IsTransfer(st, Nat, ServerRetries)
      /\ c2s \in Seq(Tokens) /\ s2c \in Seq(Tokens)
      /\ cbuf \in Seq(Tokens) /\ sbuf \in Seq(Tokens)
      /\ health \in [state : Healths, some : Nat, content : Nat]
  BY <1>1 DEF TypeOK
<1>6. QED BY <1>1, <1>2, <1>3, <1>4, <1>5

\* A step that closes the client leaves streams of tokens.
LEMMA CloseType ==
  ASSUME TypeOK, Close
  PROVE  sock' = FALSE /\ c2s' \in Seq(Tokens) /\ s2c' \in Seq(Tokens)
<1>1. \/ c2s' = c2s
      \/ \E k \in 0 .. Len(c2s) : c2s' = SubSeq(c2s, 1, k)
  BY DEF Close, Cut
<1>2. c2s \in Seq(Tokens) /\ Len(c2s) \in Nat
  BY DEF TypeOK
<1>3. ASSUME NEW k \in 0 .. Len(c2s) PROVE SubSeq(c2s, 1, k) \in Seq(Tokens)
  BY <1>2, DropType
<1>4. c2s' \in Seq(Tokens)
  BY <1>1, <1>2, <1>3
<1>5. QED BY <1>4 DEF Close

\* A step of the countdown counts down, and leaves all but the socket alone.
LEMMA DrainingType ==
  ASSUME TypeOK, NEW state, Draining(state)
  PROVE  /\ left' \in 0 .. DeathCountdown /\ cpc' = cpc /\ cpc = "check"
         /\ UNCHANGED <<n, sock, ct, cbuf, status, answer, accepted, worker, c2s>>
  BY CountsAssumption DEF TypeOK, Draining

LEMMA LeaveType ==
  ASSUME TypeOK, Leave
  PROVE  spc' = "gone" /\ c2s' \in Seq(Tokens) /\ s2c' \in Seq(Tokens)
<1>1. \/ s2c' = s2c
      \/ \E k \in 0 .. Len(s2c) : s2c' = SubSeq(s2c, 1, k)
  BY DEF Leave, Cut
<1>2. s2c \in Seq(Tokens) /\ Len(s2c) \in Nat
  BY DEF TypeOK
<1>3. ASSUME NEW k \in 0 .. Len(s2c) PROVE SubSeq(s2c, 1, k) \in Seq(Tokens)
  BY <1>2, DropType
<1>4. s2c' \in Seq(Tokens)
  BY <1>1, <1>2, <1>3
<1>5. QED BY <1>4 DEF Leave

Checks ==
  \/ CheckRefuses
  \/ CheckPasses
  \/ \E k \in 1 .. Len(s2c) : DrainPart(k)
  \/ DrainHeader
  \/ DrainContent
  \/ DrainOverruns
  \/ DrainNothing

\* The health check.
LEMMA CheckKeeps ==
  ASSUME IInv, Checks
  PROVE  IInv'
<1>0. /\ TypeOK /\ Serving /\ Calling /\ Live
      /\ ct.size \in Nat /\ ct.off \in Nat /\ st.size \in Nat /\ st.off \in Nat
      /\ health.some \in Nat /\ health.content \in Nat
      /\ IsTransfer(ct, Nat, ClientRetries) /\ IsTransfer(st, Nat, ServerRetries)
      /\ c2s \in Seq(Tokens) /\ s2c \in Seq(Tokens)
      /\ cbuf \in Seq(Tokens) /\ sbuf \in Seq(Tokens)
      /\ health \in [state : Healths, some : Nat, content : Nat]
      /\ cpc # "idle" => n \in Calls
      /\ request # 0 => request \in Calls
  BY Parts
<1>1. CASE CheckRefuses
  <2>1. TypeOK'
    BY <1>0, <1>1, CountsAssumption
       DEF TypeOK, ClientAt, WorkerAt, Healths, Settled, client, worker, CheckRefuses, Return
  <2>2. Serving' /\ Calling' /\ Live'
    BY <1>0, <1>1
       DEF Serving, Calling, Live, NoRead, client, worker, CheckRefuses, Return
  <2>3. QED BY <2>1, <2>2 DEF IInv
<1>2. CASE CheckPasses
  <2>1. IsTransfer(ct', Nat, ClientRetries)
    BY <1>0, <1>2, BeginIsTransfer, CountsAssumption DEF CheckPasses
  <2>2. TypeOK'
    BY <1>0, <1>2, <2>1, CountsAssumption
       DEF TypeOK, ClientAt, WorkerAt, Healths, Settled, client, worker, CheckPasses, Calls
  <2>3. Serving' /\ Calling' /\ Live'
    BY <1>0, <1>2, <2>1
       DEF Serving, Calling, Live, NoRead, client, worker, CheckPasses, Calls
  <2>4. QED BY <2>2, <2>3 DEF IInv
<1>3. ASSUME NEW k \in 1 .. Len(s2c), DrainPart(k) PROVE IInv'
  <2>1. /\ left' \in 0 .. DeathCountdown /\ cpc' = cpc /\ cpc = "check"
        /\ UNCHANGED <<n, sock, ct, cbuf, status, answer, accepted, worker, c2s>>
    BY <1>0, <1>3, DrainingType DEF DrainPart
  <2>2. k \in Nat /\ k <= Len(s2c) /\ s2c' = Drop(s2c, k)
         /\ health' = [health EXCEPT !.some = @ + k]
    BY <1>0, <1>3, <2>1 DEF DrainPart
  <2>3. s2c' \in Seq(Tokens)
    BY <1>0, <1>3, <2>1, <2>2, DropType
  <2>4. health' \in [state : Healths, some : Nat, content : Nat]
    <3>1. health \in [state : Healths, some : Nat, content : Nat] /\ k \in Nat
      BY <1>0, <2>2
    <3>2. health.some + k \in Nat
      BY <3>1
    <3>3. QED BY <2>2, <3>1, <3>2
  <2>5. TypeOK'
    BY <1>0, <1>3, <2>1, <2>2, <2>3, <2>4, CountsAssumption
       DEF TypeOK, ClientAt, WorkerAt, Healths, Settled, client, worker, DrainPart
  <2>6. Serving' /\ Calling' /\ Live'
    BY <1>0, <1>3, <2>1, <2>2, <2>3, <2>4
       DEF Serving, Calling, Live, NoRead, client, worker, DrainPart
  <2>7. QED BY <2>5, <2>6 DEF IInv
<1>4. CASE DrainHeader
  <2>1. /\ left' \in 0 .. DeathCountdown /\ cpc' = cpc /\ cpc = "check"
        /\ UNCHANGED <<n, sock, ct, cbuf, status, answer, accepted, worker, c2s>>
    BY <1>0, <1>4, DrainingType DEF DrainHeader
  <2>2. Boundary \in Nat /\ Boundary <= Len(s2c) /\ s2c' = Drop(s2c, Boundary)
         /\ health.state = "HEADER_READ_SOME"
    BY <1>0, <1>4, <2>1, CountsAssumption DEF DrainHeader, Draining, Boundary
  <2>3. s2c' \in Seq(Tokens)
    BY <1>0, <2>2, DropType
  <2>4. health.some = 0 => SubSeq(s2c, 1, HDR) \in Seq(Tokens)
    BY <1>0, <1>4, <2>1, <2>2, <2>3, DropType, CountsAssumption DEF Boundary
  <2>5. PICK length \in IF health.some = 0 THEN Announced(SubSeq(s2c, 1, HDR), RLen)
                      ELSE WildLengths :
             health' = [state |-> IF length > HealthBuf THEN "UNDEFINED"
                                  ELSE "CONTENT_READ_SOME",
                        some |-> 0, content |-> length]
    BY <1>0, <1>4, <2>1, <2>2, <2>3, <2>4 DEF DrainHeader
  <2>6. length \in Nat
    BY <1>0, <1>4, <2>1, <2>2, <2>3, <2>4, <2>5, AnnouncedType, LengthsAssumption
  <2>7. health' \in [state : Healths, some : Nat, content : Nat]
    BY <1>0, <1>4, <2>1, <2>2, <2>3, <2>4, <2>5, <2>6 DEF Healths
  <2>8. TypeOK'
    BY <1>0, <1>4, <2>1, <2>2, <2>3, <2>4, <2>5, <2>6, <2>7, CountsAssumption
       DEF TypeOK, ClientAt, WorkerAt, Healths, Settled, client, worker, DrainHeader
  <2>9. Serving' /\ Calling' /\ Live'
    BY <1>0, <1>4, <2>1, <2>2, <2>3, <2>4, <2>5, <2>6, <2>7
       DEF Serving, Calling, Live, NoRead, client, worker, DrainHeader
  <2>10. QED BY <2>8, <2>9 DEF IInv
<1>5. CASE DrainContent
  <2>1. /\ left' \in 0 .. DeathCountdown /\ cpc' = cpc /\ cpc = "check"
        /\ UNCHANGED <<n, sock, ct, cbuf, status, answer, accepted, worker, c2s>>
    BY <1>0, <1>5, DrainingType DEF DrainContent
  <2>2. Boundary \in Nat /\ Boundary <= Len(s2c) /\ s2c' = Drop(s2c, Boundary)
         /\ health' = [health EXCEPT !.state = "NO_READ", !.some = 0]
    BY <1>0, <1>5, <2>1 DEF DrainContent
  <2>3. s2c' \in Seq(Tokens)
    BY <1>0, <1>5, <2>1, <2>2, DropType
  <2>4. health' \in [state : Healths, some : Nat, content : Nat]
    BY <1>0, <1>5, <2>1, <2>2, <2>3 DEF Healths
  <2>5. TypeOK'
    BY <1>0, <1>5, <2>1, <2>2, <2>3, <2>4, CountsAssumption
       DEF TypeOK, ClientAt, WorkerAt, Healths, Settled, client, worker, DrainContent
  <2>6. Serving' /\ Calling' /\ Live'
    BY <1>0, <1>5, <2>1, <2>2, <2>3, <2>4
       DEF Serving, Calling, Live, NoRead, client, worker, DrainContent
  <2>7. QED BY <2>5, <2>6 DEF IInv
<1>6. CASE DrainNothing
  <2>1. /\ left' \in 0 .. DeathCountdown /\ cpc' = cpc /\ cpc = "check"
        /\ UNCHANGED <<n, sock, ct, cbuf, status, answer, accepted, worker, c2s>>
    BY <1>0, <1>6, DrainingType DEF DrainNothing
  <2>2. health' = [health EXCEPT !.state = "UNDEFINED"] /\ s2c' = s2c
    BY <1>0, <1>6, <2>1 DEF DrainNothing
  <2>3. health' \in [state : Healths, some : Nat, content : Nat]
    BY <1>0, <1>6, <2>1, <2>2 DEF Healths
  <2>4. TypeOK'
    BY <1>0, <1>6, <2>1, <2>2, <2>3, CountsAssumption
       DEF TypeOK, ClientAt, WorkerAt, Healths, Settled, client, worker, DrainNothing
  <2>5. Serving' /\ Calling' /\ Live'
    BY <1>0, <1>6, <2>1, <2>2, <2>3
       DEF Serving, Calling, Live, NoRead, client, worker, DrainNothing
  <2>6. QED BY <2>4, <2>5 DEF IInv
<1>7. CASE DrainOverruns
  <2>1. /\ sock' = FALSE /\ c2s' \in Seq(Tokens) /\ s2c' \in Seq(Tokens)
        /\ cpc = "check" /\ cpc' = "overrun"
        /\ UNCHANGED <<n, health, left, ct, cbuf, status, answer, accepted, worker>>
    BY <1>0, <1>7, CloseType DEF DrainOverruns
  <2>2. TypeOK'
    BY <1>0, <2>1 DEF TypeOK, ClientAt, worker
  <2>3. Serving' /\ Calling' /\ Live'
    BY <1>0, <2>1 DEF Serving, Calling, Live, worker
  <2>4. QED BY <2>2, <2>3 DEF IInv
<1>8. QED BY <1>1, <1>2, <1>3, <1>4, <1>5, <1>6, <1>7 DEF Checks

SendsRequest ==
  \/ \E k \in 1 .. HDR : SendHeader(k)
  \/ \E k \in 1 .. ct.size : SendContent(k)
  \/ ClientIdles
  \/ SendHeaderFails
  \/ SendContentFails

\* The client writes a request.
LEMMA SendKeeps ==
  ASSUME IInv, SendsRequest
  PROVE  IInv'
<1>0. /\ TypeOK /\ Serving /\ Calling /\ Live
      /\ ct.size \in Nat /\ ct.off \in Nat /\ st.size \in Nat /\ st.off \in Nat
      /\ health.some \in Nat /\ health.content \in Nat
      /\ IsTransfer(ct, Nat, ClientRetries) /\ IsTransfer(st, Nat, ServerRetries)
      /\ c2s \in Seq(Tokens) /\ s2c \in Seq(Tokens)
      /\ cbuf \in Seq(Tokens) /\ sbuf \in Seq(Tokens)
      /\ health \in [state : Healths, some : Nat, content : Nat]
      /\ cpc # "idle" => n \in Calls
      /\ request # 0 => request \in Calls
  BY Parts
<1>1. ASSUME NEW k \in 1 .. HDR, SendHeader(k) PROVE IInv'
  <2>1. k \in Nat /\ n \in Calls /\ k <= ct.size - ct.off /\ ~Exhausted(ct, ClientRetries)
    BY <1>0, <1>1, CountsAssumption DEF SendHeader, Sends
  <2>2. Bytes(n, 0 + ct.off, k) \in Seq(Tokens)
    <3>1. 0 + ct.off \in Nat
      BY <1>0, CountsAssumption
    <3>2. QED BY <2>1, <3>1, BytesType
  <2>3. c2s' \in Seq(Tokens)
    BY <1>0, <1>1, <2>1, <2>2 DEF SendHeader, Sends
  <2>4. /\ IsTransfer(Begin(QLen[n]), Nat, ClientRetries)
        /\ IsTransfer(Advance(Attempt(ct), k), Nat, ClientRetries)
    BY <1>0, <1>1, <2>1, <2>2, <2>3, BeginIsTransfer, TurnIsTransfer, LengthsAssumption, CountsAssumption
  <2>5. IsTransfer(ct', Nat, ClientRetries)
    BY <1>0, <1>1, <2>1, <2>2, <2>3, <2>4 DEF SendHeader
  <2>6. cbuf' \in Seq(Tokens)
    BY <1>0, <1>1, <2>1, <2>2, <2>3, <2>4, <2>5 DEF SendHeader
  <2>7. TypeOK'
    BY <1>0, <1>1, <2>1, <2>2, <2>3, <2>4, <2>5, <2>6, CountsAssumption
       DEF TypeOK, ClientAt, WorkerAt, Healths, Settled, client, worker, SendHeader, Sends
  <2>8. Serving' /\ Calling' /\ Live'
    BY <1>0, <1>1, <2>1, <2>2, <2>3, <2>4, <2>5, <2>6
       DEF Serving, Calling, Live, NoRead, client, worker, SendHeader, Sends
  <2>9. QED BY <2>7, <2>8 DEF IInv
<1>2. ASSUME NEW k \in 1 .. ct.size, SendContent(k) PROVE IInv'
  <2>1. k \in Nat /\ n \in Calls /\ k <= ct.size - ct.off /\ ~Exhausted(ct, ClientRetries)
    BY <1>0, <1>2, CountsAssumption DEF SendContent, Sends
  <2>2. Bytes(n, HDR + ct.off, k) \in Seq(Tokens)
    <3>1. HDR \in Nat /\ ct.off \in Nat
      BY <1>0, CountsAssumption
    <3>2. HDR + ct.off \in Nat
      BY <3>1
    <3>3. QED BY <2>1, <3>2, BytesType
  <2>3. c2s' \in Seq(Tokens)
    BY <1>0, <1>2, <2>1, <2>2 DEF SendContent, Sends
  <2>4. /\ IsTransfer(Begin(HDR), Nat, ClientRetries)
        /\ IsTransfer(Advance(Attempt(ct), k), Nat, ClientRetries)
    BY <1>0, <1>2, <2>1, <2>2, <2>3, BeginIsTransfer, TurnIsTransfer, LengthsAssumption, CountsAssumption
  <2>5. IsTransfer(ct', Nat, ClientRetries)
    BY <1>0, <1>2, <2>1, <2>2, <2>3, <2>4 DEF SendContent
  <2>6. cbuf' \in Seq(Tokens)
    <3>1. cbuf' = <<>> \/ cbuf' = cbuf
      BY <1>2 DEF SendContent
    <3>2. <<>> \in Seq(Tokens) /\ cbuf \in Seq(Tokens)
      BY <1>0
    <3>3. QED BY <3>1, <3>2
  <2>7. TypeOK'
    BY <1>0, <1>2, <2>1, <2>2, <2>3, <2>4, <2>5, <2>6, CountsAssumption
       DEF TypeOK, ClientAt, WorkerAt, Healths, Settled, client, worker, SendContent, Sends
  <2>8. Serving' /\ Calling' /\ Live'
    BY <1>0, <1>2, <2>1, <2>2, <2>3, <2>4, <2>5, <2>6
       DEF Serving, Calling, Live, NoRead, client, worker, SendContent, Sends
  <2>9. QED BY <2>7, <2>8 DEF IInv
<1>3. CASE ClientIdles
  <2>1. IsTransfer(ct', Nat, ClientRetries)
    BY <1>0, <1>3, AttemptIsTransfer, CountsAssumption DEF ClientIdles, TypeOK
  <2>2. TypeOK'
    BY <1>0, <1>3, <2>1, CountsAssumption
       DEF TypeOK, ClientAt, WorkerAt, Healths, Settled, client, worker, ClientIdles
  <2>3. Serving' /\ Calling' /\ Live'
    BY <1>0, <1>3, <2>1
       DEF Serving, Calling, Live, NoRead, client, worker, ClientIdles
  <2>4. QED BY <2>2, <2>3 DEF IInv
<1>4. CASE SendHeaderFails
  <2>1. sock' \in BOOLEAN /\ c2s' \in Seq(Tokens) /\ s2c' \in Seq(Tokens)
    BY <1>0, <1>4, CloseType DEF SendHeaderFails, TypeOK
  <2>2. TypeOK'
    BY <1>0, <1>4, <2>1, CountsAssumption
       DEF TypeOK, ClientAt, WorkerAt, Healths, Settled, client, worker, SendHeaderFails, Return
  <2>3. Serving' /\ Calling' /\ Live'
    BY <1>0, <1>4, <2>1
       DEF Serving, Calling, Live, NoRead, client, worker, SendHeaderFails, Return
  <2>4. QED BY <2>2, <2>3 DEF IInv
<1>5. CASE SendContentFails
  <2>1. sock' \in BOOLEAN /\ c2s' \in Seq(Tokens) /\ s2c' \in Seq(Tokens)
    BY <1>0, <1>5, CloseType DEF SendContentFails, TypeOK
  <2>2. TypeOK'
    BY <1>0, <1>5, <2>1, CountsAssumption
       DEF TypeOK, ClientAt, WorkerAt, Healths, Settled, client, worker, SendContentFails, Return
  <2>3. Serving' /\ Calling' /\ Live'
    BY <1>0, <1>5, <2>1
       DEF Serving, Calling, Live, NoRead, client, worker, SendContentFails, Return
  <2>4. QED BY <2>2, <2>3 DEF IInv
<1>6. QED BY <1>1, <1>2, <1>3, <1>4, <1>5 DEF SendsRequest

ReceivesResponse ==
  \/ \E k \in 1 .. HDR : ReceiveHeaderPart(k)
  \/ \E k \in 1 .. HDR : ReceiveHeader(k)
  \/ \E k \in 1 .. ct.size : ReceiveContentPart(k)
  \/ \E k \in 1 .. ct.size : ReceiveContent(k)
  \/ ReceiveNothing
  \/ ReceiveHeaderFails
  \/ ReceiveContentFails

\* The client reads a response.
LEMMA ReceiveKeeps ==
  ASSUME IInv, ReceivesResponse
  PROVE  IInv'
<1>0. /\ TypeOK /\ Serving /\ Calling /\ Live
      /\ ct.size \in Nat /\ ct.off \in Nat /\ st.size \in Nat /\ st.off \in Nat
      /\ health.some \in Nat /\ health.content \in Nat
      /\ IsTransfer(ct, Nat, ClientRetries) /\ IsTransfer(st, Nat, ServerRetries)
      /\ c2s \in Seq(Tokens) /\ s2c \in Seq(Tokens)
      /\ cbuf \in Seq(Tokens) /\ sbuf \in Seq(Tokens)
      /\ health \in [state : Healths, some : Nat, content : Nat]
      /\ cpc # "idle" => n \in Calls
      /\ request # 0 => request \in Calls
  BY Parts
<1>1. ASSUME NEW k \in 1 .. HDR, ReceiveHeaderPart(k) PROVE IInv'
  <2>1. k \in Nat /\ n \in Calls /\ k <= Len(s2c)
         /\ k <= ct.size - ct.off /\ ~Exhausted(ct, ClientRetries)
    BY <1>0, <1>1, CountsAssumption DEF ReceiveHeaderPart, Receives
  <2>2. /\ Drop(s2c, k) \in Seq(Tokens) /\ SubSeq(s2c, 1, k) \in Seq(Tokens)
        /\ cbuf \o SubSeq(s2c, 1, k) \in Seq(Tokens)
    BY <1>0, <1>1, <2>1, DropType
  <2>3. IsTransfer(ct', Nat, ClientRetries)
    BY <1>0, <1>1, <2>1, <2>2, TurnIsTransfer, CountsAssumption DEF ReceiveHeaderPart
  <2>4. TypeOK'
    BY <1>0, <1>1, <2>1, <2>2, <2>3, CountsAssumption
       DEF TypeOK, ClientAt, WorkerAt, Healths, Settled, client, worker, ReceiveHeaderPart, Receives
  <2>5. Serving' /\ Calling' /\ Live'
    BY <1>0, <1>1, <2>1, <2>2, <2>3
       DEF Serving, Calling, Live, NoRead, client, worker, ReceiveHeaderPart, Receives
  <2>6. QED BY <2>4, <2>5 DEF IInv
<1>2. ASSUME NEW k \in 1 .. HDR, ReceiveHeader(k) PROVE IInv'
  <2>1. k \in Nat /\ n \in Calls /\ k <= Len(s2c)
         /\ k <= ct.size - ct.off /\ ~Exhausted(ct, ClientRetries)
    BY <1>0, <1>2, CountsAssumption DEF ReceiveHeader, Receives
  <2>2. /\ Drop(s2c, k) \in Seq(Tokens) /\ SubSeq(s2c, 1, k) \in Seq(Tokens)
        /\ cbuf \o SubSeq(s2c, 1, k) \in Seq(Tokens)
    BY <1>0, <1>2, <2>1, DropType
  <2>3. PICK length \in Announced(cbuf \o SubSeq(s2c, 1, k), RLen) :
           IF HDR + length > ClientBuf
             THEN Return("failed") /\ Close /\ UNCHANGED <<ct, cbuf>>
             ELSE /\ cpc' = "rContent" /\ ct' = Begin(length) /\ cbuf' = <<>>
                  /\ s2c' = Drop(s2c, k)
                  /\ UNCHANGED <<sock, status, c2s>>
    BY <1>0, <1>2, <2>1, <2>2 DEF ReceiveHeader
  <2>4. length \in Nat
    BY <1>0, <1>2, <2>1, <2>2, <2>3, AnnouncedType, LengthsAssumption
  <2>5. /\ n' = n /\ health' = health /\ left' = left /\ answer' = answer
        /\ accepted' = accepted /\ worker' = worker
    BY <1>2 DEF ReceiveHeader, Receives
  <2>6. CASE HDR + length > ClientBuf
    <3>1. Return("failed") /\ Close /\ ct' = ct /\ cbuf' = cbuf
      BY <2>3, <2>6
    <3>2. sock' \in BOOLEAN /\ c2s' \in Seq(Tokens) /\ s2c' \in Seq(Tokens)
      BY <1>0, <3>1, CloseType
    <3>3. TypeOK'
      BY <1>0, <2>1, <2>5, <3>1, <3>2 DEF TypeOK, ClientAt, Settled, worker, Return
    <3>4. Serving' /\ Calling' /\ Live'
      BY <1>0, <2>5, <3>1 DEF Serving, Calling, Live, worker, Return
    <3>5. QED BY <3>3, <3>4 DEF IInv
  <2>7. CASE ~(HDR + length > ClientBuf)
    <3>1. /\ cpc' = "rContent" /\ ct' = Begin(length) /\ cbuf' = <<>>
          /\ s2c' = Drop(s2c, k) /\ UNCHANGED <<sock, status, c2s>>
      BY <2>3, <2>7
    <3>2. IsTransfer(ct', Nat, ClientRetries)
      BY <2>4, <3>1, BeginIsTransfer, CountsAssumption
    <3>3. TypeOK'
      BY <1>0, <2>2, <2>5, <3>1, <3>2 DEF TypeOK, ClientAt, worker
    <3>4. Serving' /\ Calling' /\ Live'
      BY <1>0, <1>2, <2>5, <3>1 DEF Serving, Calling, Live, worker, ReceiveHeader
    <3>5. QED BY <3>3, <3>4 DEF IInv
  <2>8. QED BY <2>6, <2>7
<1>3. ASSUME NEW k \in 1 .. ct.size, ReceiveContentPart(k) PROVE IInv'
  <2>1. k \in Nat /\ n \in Calls /\ k <= Len(s2c)
         /\ k <= ct.size - ct.off /\ ~Exhausted(ct, ClientRetries)
    BY <1>0, <1>3, CountsAssumption DEF ReceiveContentPart, Receives
  <2>2. /\ Drop(s2c, k) \in Seq(Tokens) /\ SubSeq(s2c, 1, k) \in Seq(Tokens)
        /\ cbuf \o SubSeq(s2c, 1, k) \in Seq(Tokens)
    BY <1>0, <1>3, <2>1, DropType
  <2>3. IsTransfer(ct', Nat, ClientRetries)
    BY <1>0, <1>3, <2>1, <2>2, TurnIsTransfer, CountsAssumption DEF ReceiveContentPart
  <2>4. TypeOK'
    BY <1>0, <1>3, <2>1, <2>2, <2>3, CountsAssumption
       DEF TypeOK, ClientAt, WorkerAt, Healths, Settled, client, worker, ReceiveContentPart, Receives
  <2>5. Serving' /\ Calling' /\ Live'
    BY <1>0, <1>3, <2>1, <2>2, <2>3
       DEF Serving, Calling, Live, NoRead, client, worker, ReceiveContentPart, Receives
  <2>6. QED BY <2>4, <2>5 DEF IInv
<1>4. ASSUME NEW k \in 1 .. ct.size, ReceiveContent(k) PROVE IInv'
  <2>1. k \in Nat /\ n \in Calls /\ k <= Len(s2c)
         /\ k <= ct.size - ct.off /\ ~Exhausted(ct, ClientRetries)
    BY <1>0, <1>4, CountsAssumption DEF ReceiveContent, Receives
  <2>2. /\ Drop(s2c, k) \in Seq(Tokens) /\ SubSeq(s2c, 1, k) \in Seq(Tokens)
        /\ cbuf \o SubSeq(s2c, 1, k) \in Seq(Tokens)
    BY <1>0, <1>4, <2>1, DropType
  <2>3. Decoded(cbuf \o SubSeq(s2c, 1, k), RLen) \in 0 .. MaxCalls
    BY <1>0, <1>4, <2>1, <2>2, DecodedType
  <2>4. TypeOK'
    BY <1>0, <1>4, <2>1, <2>2, <2>3, CountsAssumption
       DEF TypeOK, ClientAt, WorkerAt, Healths, Settled, client, worker, ReceiveContent, Receives, Return
  <2>5. Serving' /\ Calling' /\ Live'
    BY <1>0, <1>4, <2>1, <2>2, <2>3
       DEF Serving, Calling, Live, NoRead, client, worker, ReceiveContent, Receives, Return
  <2>6. QED BY <2>4, <2>5 DEF IInv
<1>5. CASE ReceiveNothing
  <2>1. TypeOK'
    BY <1>0, <1>5, CountsAssumption
       DEF TypeOK, ClientAt, WorkerAt, Healths, Settled, client, worker, ReceiveNothing, Return
  <2>2. Serving' /\ Calling' /\ Live'
    BY <1>0, <1>5
       DEF Serving, Calling, Live, NoRead, client, worker, ReceiveNothing, Return
  <2>3. QED BY <2>1, <2>2 DEF IInv
<1>6. CASE ReceiveHeaderFails
  <2>1. PICK some \in Shortfall(ct, ClientRetries, WorkerGone /\ s2c = <<>>) :
          health' = [state |-> "HEADER_READ_SOME",
                     some |-> IF some < 0 THEN 0 ELSE some, content |-> 0]
    BY <1>6 DEF ReceiveHeaderFails
  <2>2. health' \in [state : Healths, some : Nat, content : Nat]
    <3>1. some \in {-1, ct.off, ResultWhenExhausted(ct)}
      BY <2>1 DEF Shortfall
    <3>2. (IF some < 0 THEN 0 ELSE some) \in Nat
      BY <1>0, <3>1, ShortfallType, CountsAssumption
    <3>3. QED BY <1>0, <2>1, <3>2 DEF Healths
  <2>3. TypeOK'
    BY <1>0, <1>6, <2>1, <2>2, CountsAssumption
       DEF TypeOK, ClientAt, WorkerAt, Healths, Settled, client, worker, ReceiveHeaderFails, Return
  <2>4. Serving' /\ Calling' /\ Live'
    BY <1>0, <1>6, <2>1, <2>2
       DEF Serving, Calling, Live, NoRead, client, worker, ReceiveHeaderFails, Return
  <2>5. QED BY <2>3, <2>4 DEF IInv
<1>7. CASE ReceiveContentFails
  <2>1. PICK some \in Shortfall(ct, ClientRetries, WorkerGone /\ s2c = <<>>) :
          health' = [state |-> "CONTENT_READ_SOME",
                     some |-> IF some < 0 THEN 0 ELSE some, content |-> ct.size]
    BY <1>7 DEF ReceiveContentFails
  <2>2. health' \in [state : Healths, some : Nat, content : Nat]
    <3>1. some \in {-1, ct.off, ResultWhenExhausted(ct)}
      BY <2>1 DEF Shortfall
    <3>2. (IF some < 0 THEN 0 ELSE some) \in Nat
      BY <1>0, <3>1, ShortfallType, CountsAssumption
    <3>3. QED BY <1>0, <2>1, <3>2 DEF Healths
  <2>3. TypeOK'
    BY <1>0, <1>7, <2>1, <2>2, CountsAssumption
       DEF TypeOK, ClientAt, WorkerAt, Healths, Settled, client, worker, ReceiveContentFails, Return
  <2>4. Serving' /\ Calling' /\ Live'
    BY <1>0, <1>7, <2>1, <2>2
       DEF Serving, Calling, Live, NoRead, client, worker, ReceiveContentFails, Return
  <2>5. QED BY <2>3, <2>4 DEF IInv
<1>8. QED BY <1>1, <1>2, <1>3, <1>4, <1>5, <1>6, <1>7 DEF ReceivesResponse

ReadsRequest ==
  \/ PendingEnds
  \/ PendingFails
  \/ \E k \in 1 .. st.size : WorkerReadsPart(k)
  \/ \E k \in 1 .. st.size : WorkerReadsHeader(k)
  \/ \E k \in 1 .. st.size : WorkerReadsContent(k)
  \/ WorkerReadsNothing
  \/ WorkerIdles
  \/ WorkerFails
  \/ WorkerAborts

\* The worker waits for a request and reads it.
LEMMA WorkerReadKeeps ==
  ASSUME IInv, ReadsRequest
  PROVE  IInv'
<1>0. /\ TypeOK /\ Serving /\ Calling /\ Live
      /\ ct.size \in Nat /\ ct.off \in Nat /\ st.size \in Nat /\ st.off \in Nat
      /\ health.some \in Nat /\ health.content \in Nat
      /\ IsTransfer(ct, Nat, ClientRetries) /\ IsTransfer(st, Nat, ServerRetries)
      /\ c2s \in Seq(Tokens) /\ s2c \in Seq(Tokens)
      /\ cbuf \in Seq(Tokens) /\ sbuf \in Seq(Tokens)
      /\ health \in [state : Healths, some : Nat, content : Nat]
      /\ cpc # "idle" => n \in Calls
      /\ request # 0 => request \in Calls
  BY Parts
<1>1. CASE PendingEnds
  <2>1. IsTransfer(st', Nat, ServerRetries)
    BY <1>0, <1>1, BeginIsTransfer, CountsAssumption DEF PendingEnds
  <2>2. TypeOK'
    BY <1>0, <1>1, <2>1, CountsAssumption
       DEF TypeOK, ClientAt, WorkerAt, Healths, Settled, client, worker, PendingEnds
  <2>3. Serving' /\ Calling' /\ Live'
    BY <1>0, <1>1, <2>1
       DEF Serving, Calling, Live, NoRead, client, worker, PendingEnds
  <2>4. QED BY <2>2, <2>3 DEF IInv
<1>2. CASE PendingFails
  <2>1. spc' = "gone" /\ c2s' \in Seq(Tokens) /\ s2c' \in Seq(Tokens)
    BY <1>0, <1>2, LeaveType DEF PendingFails
  <2>2. TypeOK'
    BY <1>0, <1>2, <2>1, CountsAssumption
       DEF TypeOK, ClientAt, WorkerAt, Healths, Settled, client, worker, PendingFails
  <2>3. Serving' /\ Calling' /\ Live'
    BY <1>0, <1>2, <2>1
       DEF Serving, Calling, Live, NoRead, client, worker, PendingFails
  <2>4. QED BY <2>2, <2>3 DEF IInv
<1>3. ASSUME NEW k \in 1 .. st.size, WorkerReadsPart(k) PROVE IInv'
  <2>1. k \in Nat /\ k <= Len(c2s) /\ k <= st.size - st.off /\ ~Exhausted(st, ServerRetries)
    BY <1>0, <1>3 DEF WorkerReadsPart, WorkerReads
  <2>2. /\ Drop(c2s, k) \in Seq(Tokens) /\ SubSeq(c2s, 1, k) \in Seq(Tokens)
        /\ sbuf \o SubSeq(c2s, 1, k) \in Seq(Tokens)
    BY <1>0, <1>3, <2>1, DropType
  <2>3. IsTransfer(st', Nat, ServerRetries)
    BY <1>0, <1>3, <2>1, <2>2, TurnIsTransfer, CountsAssumption DEF WorkerReadsPart, WorkerReads, TypeOK
  <2>4. TypeOK'
    BY <1>0, <1>3, <2>1, <2>2, <2>3, CountsAssumption
       DEF TypeOK, ClientAt, WorkerAt, Healths, Settled, client, worker, WorkerReadsPart, WorkerReads
  <2>5. Serving' /\ Calling' /\ Live'
    BY <1>0, <1>3, <2>1, <2>2, <2>3
       DEF Serving, Calling, Live, NoRead, client, worker, WorkerReadsPart, WorkerReads
  <2>6. QED BY <2>4, <2>5 DEF IInv
<1>4. ASSUME NEW k \in 1 .. st.size, WorkerReadsHeader(k) PROVE IInv'
  <2>1. k \in Nat /\ k <= Len(c2s) /\ k <= st.size - st.off /\ ~Exhausted(st, ServerRetries)
    BY <1>0, <1>4 DEF WorkerReadsHeader, WorkerReads
  <2>2. /\ Drop(c2s, k) \in Seq(Tokens) /\ SubSeq(c2s, 1, k) \in Seq(Tokens)
        /\ sbuf \o SubSeq(c2s, 1, k) \in Seq(Tokens)
    BY <1>0, <1>4, <2>1, DropType
  <2>3. PICK length \in Announced(sbuf \o SubSeq(c2s, 1, k), QLen) : st' = Begin(length)
    BY <1>0, <1>4, <2>1, <2>2 DEF WorkerReadsHeader
  <2>4. length \in Nat
    BY <1>0, <1>4, <2>1, <2>2, <2>3, AnnouncedType, LengthsAssumption
  <2>5. IsTransfer(st', Nat, ServerRetries)
    <3>1. ServerRetries \in Nat
      BY CountsAssumption
    <3>2. QED BY <2>3, <2>4, <3>1, BeginIsTransfer
  <2>6. TypeOK'
    <3>1. /\ spc' = "rContent" /\ sbuf' = <<>> /\ c2s' = Drop(c2s, k)
          /\ UNCHANGED <<cpc, n, sock, health, left, ct, cbuf, status, answer, accepted>>
          /\ UNCHANGED <<request, executed, s2c>>
      BY <1>4 DEF WorkerReadsHeader, WorkerReads, client
    <3>2. TypeOK /\ c2s' \in Seq(Tokens) /\ sbuf' \in Seq(Tokens) /\ spc' \in WorkerAt
      BY <1>0, <2>2, <3>1 DEF WorkerAt
    <3>3. QED BY <2>5, <3>1, <3>2 DEF TypeOK
  <2>7. Serving' /\ Calling' /\ Live'
    BY <1>0, <1>4, <2>1, <2>2, <2>3, <2>4, <2>5
       DEF Serving, Calling, Live, NoRead, client, worker, WorkerReadsHeader, WorkerReads
  <2>8. QED BY <2>6, <2>7 DEF IInv
<1>5. ASSUME NEW k \in 1 .. st.size, WorkerReadsContent(k) PROVE IInv'
  <2>1. k \in Nat /\ k <= Len(c2s) /\ k <= st.size - st.off /\ ~Exhausted(st, ServerRetries)
    BY <1>0, <1>5 DEF WorkerReadsContent, WorkerReads
  <2>2. /\ Drop(c2s, k) \in Seq(Tokens) /\ SubSeq(c2s, 1, k) \in Seq(Tokens)
        /\ sbuf \o SubSeq(c2s, 1, k) \in Seq(Tokens)
    BY <1>0, <1>5, <2>1, DropType
  <2>3. request' \in 0 .. MaxCalls
    BY <1>0, <1>5, <2>1, <2>2, DecodedType DEF WorkerReadsContent
  <2>4. TypeOK'
    BY <1>0, <1>5, <2>1, <2>2, <2>3, CountsAssumption
       DEF TypeOK, ClientAt, WorkerAt, Healths, Settled, client, worker, WorkerReadsContent, WorkerReads
  <2>5. Serving' /\ Calling' /\ Live'
    BY <1>0, <1>5, <2>1, <2>2, <2>3
       DEF Serving, Calling, Live, NoRead, client, worker, WorkerReadsContent, WorkerReads
  <2>6. QED BY <2>4, <2>5 DEF IInv
<1>6. CASE WorkerReadsNothing
  <2>1. TypeOK'
    BY <1>0, <1>6, CountsAssumption
       DEF TypeOK, ClientAt, WorkerAt, Healths, Settled, client, worker, WorkerReadsNothing
  <2>2. Serving' /\ Calling' /\ Live'
    BY <1>0, <1>6
       DEF Serving, Calling, Live, NoRead, client, worker, WorkerReadsNothing
  <2>3. QED BY <2>1, <2>2 DEF IInv
<1>7. CASE WorkerIdles
  <2>1. IsTransfer(st', Nat, ServerRetries)
    BY <1>0, <1>7, AttemptIsTransfer, CountsAssumption DEF WorkerIdles, TypeOK
  <2>2. TypeOK'
    BY <1>0, <1>7, <2>1, CountsAssumption
       DEF TypeOK, ClientAt, WorkerAt, Healths, Settled, client, worker, WorkerIdles
  <2>3. Serving' /\ Calling' /\ Live'
    BY <1>0, <1>7, <2>1
       DEF Serving, Calling, Live, NoRead, client, worker, WorkerIdles
  <2>4. QED BY <2>2, <2>3 DEF IInv
<1>8. CASE WorkerFails
  <2>1. spc' = "gone" /\ c2s' \in Seq(Tokens) /\ s2c' \in Seq(Tokens)
    BY <1>0, <1>8, LeaveType DEF WorkerFails
  <2>2. TypeOK'
    BY <1>0, <1>8, <2>1, CountsAssumption
       DEF TypeOK, ClientAt, WorkerAt, Healths, Settled, client, worker, WorkerFails
  <2>3. Serving' /\ Calling' /\ Live'
    BY <1>0, <1>8, <2>1
       DEF Serving, Calling, Live, NoRead, client, worker, WorkerFails
  <2>4. QED BY <2>2, <2>3 DEF IInv
<1>9. CASE WorkerAborts
  <2>1. spc' = "gone" /\ c2s' \in Seq(Tokens) /\ s2c' \in Seq(Tokens)
    BY <1>0, <1>9, LeaveType DEF WorkerAborts
  <2>2. TypeOK'
    BY <1>0, <1>9, <2>1, CountsAssumption
       DEF TypeOK, ClientAt, WorkerAt, Healths, Settled, client, worker, WorkerAborts
  <2>3. Serving' /\ Calling' /\ Live'
    BY <1>0, <1>9, <2>1
       DEF Serving, Calling, Live, NoRead, client, worker, WorkerAborts
  <2>4. QED BY <2>2, <2>3 DEF IInv
<1>10. QED BY <1>1, <1>2, <1>3, <1>4, <1>5, <1>6, <1>7, <1>8, <1>9 DEF ReadsRequest

AnswersRequest ==
  \/ RequestDropped
  \/ RunRequest
  \/ ResponseDropped
  \/ StartResponse
  \/ \E k \in 1 .. st.size : WorkerWritesHeader(k)
  \/ \E k \in 1 .. st.size : WorkerWritesContent(k)

\* The worker runs a request and answers.
LEMMA WorkerWriteKeeps ==
  ASSUME IInv, AnswersRequest
  PROVE  IInv'
<1>0. /\ TypeOK /\ Serving /\ Calling /\ Live
      /\ ct.size \in Nat /\ ct.off \in Nat /\ st.size \in Nat /\ st.off \in Nat
      /\ health.some \in Nat /\ health.content \in Nat
      /\ IsTransfer(ct, Nat, ClientRetries) /\ IsTransfer(st, Nat, ServerRetries)
      /\ c2s \in Seq(Tokens) /\ s2c \in Seq(Tokens)
      /\ cbuf \in Seq(Tokens) /\ sbuf \in Seq(Tokens)
      /\ health \in [state : Healths, some : Nat, content : Nat]
      /\ cpc # "idle" => n \in Calls
      /\ request # 0 => request \in Calls
  BY Parts
<1>1. CASE RequestDropped
  <2>1. TypeOK'
    BY <1>0, <1>1, CountsAssumption
       DEF TypeOK, ClientAt, WorkerAt, Healths, Settled, client, worker, RequestDropped
  <2>2. Serving' /\ Calling' /\ Live'
    BY <1>0, <1>1
       DEF Serving, Calling, Live, NoRead, client, worker, RequestDropped
  <2>3. QED BY <2>1, <2>2 DEF IInv
<1>2. CASE RunRequest
  <2>1. executed' \in Seq(Calls)
    BY <1>0, <1>2 DEF RunRequest, TypeOK
  <2>2. TypeOK'
    BY <1>0, <1>2, <2>1, CountsAssumption
       DEF TypeOK, ClientAt, WorkerAt, Healths, Settled, client, worker, RunRequest
  <2>3. Serving' /\ Calling' /\ Live'
    BY <1>0, <1>2, <2>1
       DEF Serving, Calling, Live, NoRead, client, worker, RunRequest
  <2>4. QED BY <2>2, <2>3 DEF IInv
<1>3. CASE ResponseDropped
  <2>1. TypeOK'
    BY <1>0, <1>3, CountsAssumption
       DEF TypeOK, ClientAt, WorkerAt, Healths, Settled, client, worker, ResponseDropped
  <2>2. Serving' /\ Calling' /\ Live'
    BY <1>0, <1>3
       DEF Serving, Calling, Live, NoRead, client, worker, ResponseDropped
  <2>3. QED BY <2>1, <2>2 DEF IInv
<1>4. CASE StartResponse
  <2>1. IsTransfer(st', Nat, ServerRetries)
    BY <1>0, <1>4, BeginIsTransfer, CountsAssumption DEF StartResponse
  <2>2. TypeOK'
    BY <1>0, <1>4, <2>1, CountsAssumption
       DEF TypeOK, ClientAt, WorkerAt, Healths, Settled, client, worker, StartResponse
  <2>3. Serving' /\ Calling' /\ Live'
    BY <1>0, <1>4, <2>1
       DEF Serving, Calling, Live, NoRead, client, worker, StartResponse
  <2>4. QED BY <2>2, <2>3 DEF IInv
<1>5. ASSUME NEW k \in 1 .. st.size, WorkerWritesHeader(k) PROVE IInv'
  <2>1. k \in Nat /\ request \in Calls /\ k <= st.size - st.off /\ ~Exhausted(st, ServerRetries)
    BY <1>0, <1>5 DEF WorkerWritesHeader, Serving, WorkerWrites
  <2>2. Bytes(request, 0 + st.off, k) \in Seq(Tokens)
    <3>1. 0 + st.off \in Nat
      BY <1>0, CountsAssumption
    <3>2. QED BY <2>1, <3>1, BytesType
  <2>3. s2c' \in Seq(Tokens)
    BY <1>0, <1>5, <2>1, <2>2 DEF WorkerWritesHeader, WorkerWrites
  <2>4. /\ IsTransfer(Begin(RLen[request]), Nat, ServerRetries)
        /\ IsTransfer(Advance(Attempt(st), k), Nat, ServerRetries)
    BY <1>0, <1>5, <2>1, <2>2, <2>3, BeginIsTransfer, TurnIsTransfer, LengthsAssumption, CountsAssumption
  <2>5. IsTransfer(st', Nat, ServerRetries)
    BY <1>0, <1>5, <2>1, <2>2, <2>3, <2>4 DEF WorkerWritesHeader
  <2>6. TypeOK'
    BY <1>0, <1>5, <2>1, <2>2, <2>3, <2>4, <2>5, CountsAssumption
       DEF TypeOK, ClientAt, WorkerAt, Healths, Settled, client, worker, WorkerWritesHeader, WorkerWrites
  <2>7. Serving' /\ Calling' /\ Live'
    BY <1>0, <1>5, <2>1, <2>2, <2>3, <2>4, <2>5
       DEF Serving, Calling, Live, NoRead, client, worker, WorkerWritesHeader, WorkerWrites
  <2>8. QED BY <2>6, <2>7 DEF IInv
<1>6. ASSUME NEW k \in 1 .. st.size, WorkerWritesContent(k) PROVE IInv'
  <2>1. k \in Nat /\ request \in Calls /\ k <= st.size - st.off /\ ~Exhausted(st, ServerRetries)
    BY <1>0, <1>6 DEF WorkerWritesContent, Serving, WorkerWrites
  <2>2. Bytes(request, HDR + st.off, k) \in Seq(Tokens)
    <3>1. HDR \in Nat /\ st.off \in Nat
      BY <1>0, CountsAssumption
    <3>2. HDR + st.off \in Nat
      BY <3>1
    <3>3. QED BY <2>1, <3>2, BytesType
  <2>3. s2c' \in Seq(Tokens)
    BY <1>0, <1>6, <2>1, <2>2 DEF WorkerWritesContent, WorkerWrites
  <2>4. /\ IsTransfer(Begin(RLen[request]), Nat, ServerRetries)
        /\ IsTransfer(Advance(Attempt(st), k), Nat, ServerRetries)
    BY <1>0, <1>6, <2>1, <2>2, <2>3, BeginIsTransfer, TurnIsTransfer, LengthsAssumption, CountsAssumption
  <2>5. IsTransfer(st', Nat, ServerRetries)
    BY <1>0, <1>6, <2>1, <2>2, <2>3, <2>4 DEF WorkerWritesContent
  <2>6. TypeOK'
    BY <1>0, <1>6, <2>1, <2>2, <2>3, <2>4, <2>5, CountsAssumption
       DEF TypeOK, ClientAt, WorkerAt, Healths, Settled, client, worker, WorkerWritesContent, WorkerWrites
  <2>7. Serving' /\ Calling' /\ Live'
    BY <1>0, <1>6, <2>1, <2>2, <2>3, <2>4, <2>5
       DEF Serving, Calling, Live, NoRead, client, worker, WorkerWritesContent, WorkerWrites
  <2>8. QED BY <2>6, <2>7 DEF IInv
<1>7. QED BY <1>1, <1>2, <1>3, <1>4, <1>5, <1>6 DEF AnswersRequest

Environment ==
  \/ Call
  \/ UserCloses
  \/ ServerCrashes

\* The user and the server's process.
LEMMA EnvironmentKeeps ==
  ASSUME IInv, Environment
  PROVE  IInv'
<1>0. /\ TypeOK /\ Serving /\ Calling /\ Live
      /\ ct.size \in Nat /\ ct.off \in Nat /\ st.size \in Nat /\ st.off \in Nat
      /\ health.some \in Nat /\ health.content \in Nat
      /\ IsTransfer(ct, Nat, ClientRetries) /\ IsTransfer(st, Nat, ServerRetries)
      /\ c2s \in Seq(Tokens) /\ s2c \in Seq(Tokens)
      /\ cbuf \in Seq(Tokens) /\ sbuf \in Seq(Tokens)
      /\ health \in [state : Healths, some : Nat, content : Nat]
      /\ cpc # "idle" => n \in Calls
      /\ request # 0 => request \in Calls
  BY Parts
<1>1. CASE Call
  <2>1. TypeOK'
    BY <1>0, <1>1, CountsAssumption
       DEF TypeOK, ClientAt, WorkerAt, Healths, Settled, client, worker, Call
  <2>2. Serving' /\ Calling' /\ Live'
    BY <1>0, <1>1, CountsAssumption
       DEF TypeOK, Serving, Calling, Live, client, worker, Call
  <2>3. QED BY <2>1, <2>2 DEF IInv
<1>2. CASE UserCloses
  <2>1. sock' \in BOOLEAN /\ c2s' \in Seq(Tokens) /\ s2c' \in Seq(Tokens)
    BY <1>0, <1>2, CloseType DEF UserCloses, TypeOK
  <2>2. TypeOK'
    BY <1>0, <1>2, <2>1, CountsAssumption
       DEF TypeOK, ClientAt, WorkerAt, Healths, Settled, client, worker, UserCloses
  <2>3. Serving' /\ Calling' /\ Live'
    BY <1>0, <1>2, <2>1
       DEF Serving, Calling, Live, NoRead, client, worker, UserCloses
  <2>4. QED BY <2>2, <2>3 DEF IInv
<1>3. CASE ServerCrashes
  <2>1. spc' = "gone" /\ c2s' \in Seq(Tokens) /\ s2c' \in Seq(Tokens)
    BY <1>0, <1>3, LeaveType DEF ServerCrashes
  <2>2. TypeOK'
    BY <1>0, <1>3, <2>1, CountsAssumption
       DEF TypeOK, ClientAt, WorkerAt, Healths, Settled, client, worker, ServerCrashes
  <2>3. Serving' /\ Calling' /\ Live'
    BY <1>0, <1>3, <2>1
       DEF Serving, Calling, Live, NoRead, client, worker, ServerCrashes
  <2>4. QED BY <2>2, <2>3 DEF IInv
<1>4. QED BY <1>1, <1>2, <1>3 DEF Environment

LEMMA NextIInv == IInv /\ [Next]_vars => IInv'
<1> SUFFICES ASSUME IInv, [Next]_vars PROVE IInv'
  OBVIOUS
<1>1. CASE Next
  <2>1. \/ Checks \/ SendsRequest \/ ReceivesResponse
        \/ ReadsRequest \/ AnswersRequest \/ Environment
    BY <1>1 DEF Next, Client, Worker, Checks, SendsRequest, ReceivesResponse,
                ReadsRequest, AnswersRequest, Environment
  <2>2. QED
    BY <2>1, CheckKeeps, SendKeeps, ReceiveKeeps, WorkerReadKeeps, WorkerWriteKeeps,
       EnvironmentKeeps
<1>2. CASE UNCHANGED vars
  BY <1>2 DEF IInv, TypeOK, Serving, Calling, Live, vars, client, worker
<1>3. QED BY <1>1, <1>2

-----------------------------------------------------------------------------
(* The theorems.                                                            *)

\* The invariant holds throughout.
THEOREM Invariance == Spec => []IInv
<1>1. QED BY InitIInv, NextIInv, PTL DEF Spec

\* The variables keep their types for every number of calls, frame lengths and
\* buffer sizes, whatever a length reads as that was never a length.
THEOREM TypeCorrect == Spec => []TypeOK
<1>1. IInv => TypeOK BY DEF IInv
<1>2. QED BY Invariance, <1>1, PTL

\* Whenever call() has passed the check the connection is valid and in sequence.
THEOREM UsedWhileLive == Spec => []Live
<1>1. IInv => Live BY DEF IInv
<1>2. QED BY Invariance, <1>1, PTL

\* One step from a dead connection leads to a dead connection.
LEMMA DeadStep ==
  ASSUME IInv, [Next]_vars, ~sock \/ health.state = "UNDEFINED"
  PROVE  /\ ~sock' \/ health'.state = "UNDEFINED"
         /\ cpc' \in {"idle", "check", "overrun"}
<1>1. cpc \in {"idle", "check", "overrun"}
  BY DEF IInv, TypeOK, ClientAt, Live
<1>2. CASE Client
  <2>1. CheckRefuses
    BY <1>1, <1>2
       DEF Client, CheckPasses, DrainPart, DrainHeader, DrainContent, DrainOverruns,
           DrainNothing, Draining, SendHeader, SendContent, ClientIdles, SendHeaderFails,
           SendContentFails, ReceiveHeaderPart, ReceiveHeader, ReceiveContentPart,
           ReceiveContent, ReceiveNothing, ReceiveHeaderFails, ReceiveContentFails
  <2>2. QED BY <2>1 DEF CheckRefuses, Return
<1>3. CASE Worker
  <2>1. UNCHANGED client
    BY <1>3
       DEF Worker, PendingEnds, PendingFails, WorkerReadsPart, WorkerReadsHeader,
           WorkerReadsContent, WorkerReads, WorkerReadsNothing, WorkerIdles,
           WorkerFails, WorkerAborts, RequestDropped, RunRequest, ResponseDropped,
           StartResponse, WorkerWritesHeader, WorkerWritesContent, WorkerWrites
  <2>2. QED BY <1>1, <2>1 DEF client
<1>4. CASE Call \/ UserCloses \/ ServerCrashes \/ UNCHANGED vars
  BY <1>1, <1>4 DEF Call, UserCloses, Close, ServerCrashes, vars, client
<1>5. QED BY <1>2, <1>3, <1>4 DEF Next

\* A connection that is closed, or whose place in the stream is unknown, never
\* carries a byte of a later call (Health.h:55-99, Client.h:119-131).
THEOREM DeadIsFinal == Spec => DeadStaysDead
<1>1. IInv /\ [Next]_vars =>
        [ (~sock \/ health.state = "UNDEFINED")
            => /\ ~sock' \/ health'.state = "UNDEFINED"
               /\ cpc' \in {"idle", "check", "overrun"} ]_vars
  BY DeadStep
<1>2. QED BY Invariance, <1>1, PTL DEF Spec, DeadStaysDead
=============================================================================
