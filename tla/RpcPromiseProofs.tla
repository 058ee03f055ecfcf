-------------------------- MODULE RpcPromiseProofs --------------------------
(* Why a call gets the answer to its own request although no id is ever     *)
(* compared: as long as headers are moved whole, the two ends count the     *)
(* bytes of the last accepted call alike.  From this RpcConnection keeps    *)
(* what AbstractRpc promises.                                               *)
EXTENDS RpcConnectionProofs

\* The bytes s are those of the frame of call c behind its first i.
Segment(s, c, i) == \A j \in 1 .. Len(s) : s[j] = <<c, i + j>>

\* The ends of the frames of the last call that was accepted.
RequestEnd  == HDR + QLen[accepted]
ResponseEnd == HDR + RLen[accepted]

HasRun == \E i \in DOMAIN executed : executed[i] = accepted

\* How much of the last accepted request the worker has taken from the stream.
Got == CASE request = accepted                      -> RequestEnd
         [] request # accepted /\ spc = "rHeader"   -> st.off
         [] request # accepted /\ spc = "rContent"  -> HDR + st.off
         [] OTHER                                   -> 0

\* How much of its response the worker may have written; nothing if a callback refused.
Put == CASE spc = "wHeader"                              -> {st.off}
         [] spc = "wContent"                             -> {HDR + st.off}
         [] spc = "pending" /\ request = accepted        -> {0, ResponseEnd}
         [] OTHER                                        -> {0}

Returned == {"refused", "failed", "answered"}

\* Calls are made one after the other, and those that are answered have their own answer.
Order ==
    /\ accepted <= n
    /\ cpc \in {"check", "overrun"} => accepted < n
    /\ cpc \notin {"idle", "check", "overrun"} => accepted = n
    /\ \A c \in Calls :
         /\ c > n => status[c] = "new"
         /\ c < n => status[c] \in Returned
    /\ n # 0 => CASE cpc = "idle"                   -> status[n] \in Returned
                  [] cpc \in {"check", "overrun"} -> status[n] = "new"
                  [] OTHER                        -> status[n] = "open"
    /\ OwnAnswer

\* The worker runs the last accepted request, once, and no byte of a response is there before.
Runs ==
    /\ request <= accepted
    /\ \A i \in DOMAIN executed : executed[i] <= accepted
    /\ spc \in {"decoded", "answering", "wHeader", "wContent"} => request = accepted /\ request # 0
    /\ spc = "decoded" \/ request # accepted => ~HasRun
    /\ spc \in {"answering", "wHeader", "wContent"} \/ cpc = "rContent" \/ s2c # <<>> => HasRun

\* What the worker transfers.
WorkerTransfers ==
    /\ spc = "rHeader" => st.size = HDR
    /\ spc = "rContent" => request # accepted /\ st.size = QLen[accepted]
    /\ spc = "wHeader" => st.size = HDR
    /\ spc = "wContent" => st.size = RLen[accepted]
    /\ spc \in {"rHeader", "rContent", "wHeader", "wContent"} => st.off < st.size
    /\ spc = "rHeader" /\ request = accepted => ~sock
    /\ spc \in {"rHeader", "rContent"} /\ request # accepted =>
         /\ Len(sbuf) = st.off
         /\ Segment(sbuf, accepted, IF spc = "rHeader" THEN 0 ELSE HDR)

\* What the client transfers.
ClientTransfers ==
    /\ cpc \in {"wHeader", "rHeader"} => ct.size = HDR /\ ct.off = 0
    /\ cpc = "wContent" => ct.size = QLen[accepted] /\ ct.off < ct.size
    /\ cpc = "rHeader" => cbuf = <<>>
    /\ cpc = "rContent" => /\ ct.size = RLen[accepted] /\ ct.off < ct.size
                           /\ Len(cbuf) = ct.off /\ Segment(cbuf, accepted, HDR)

\* The stream to the worker continues what it has taken, up to the end of the request.
Requests ==
    IF WorkerGone THEN c2s = <<>>
    ELSE /\ Segment(c2s, accepted, Got)
         /\ accepted = 0 => c2s = <<>>
         /\ accepted # 0 => Got + Len(c2s) <= RequestEnd
         /\ cpc = "wHeader" => request # accepted
         /\ cpc = "wContent" => Got + Len(c2s) = HDR + ct.off

\* The stream to the client begins behind position i of the response, and ends where the
\* worker is, or earlier if that has gone.
From(i) ==
    /\ accepted # 0
    /\ Segment(s2c, accepted, i)
    /\ i + Len(s2c) <= ResponseEnd
    /\ ~WorkerGone => i + Len(s2c) \in Put

\* Nothing is under way, and the worker waits.
Quiet == c2s = <<>> /\ s2c = <<>> /\ spc \in {"pending", "gone"}

\* What the client knows of the stream to it.
Responses ==
    /\ ~sock => s2c = <<>>
    /\ cpc = "wHeader" => Quiet
    /\ cpc = "wContent" => s2c = <<>>
    /\ cpc = "rHeader" => From(0)
    /\ cpc = "rContent" => From(HDR + ct.off)
    /\ cpc \in {"idle", "check"} /\ sock =>
         /\ health.state = "NO_READ" => Quiet
         /\ health.state = "HEADER_READ_SOME" => health.some = 0 /\ From(0)
         /\ health.state = "CONTENT_READ_SOME" =>
              /\ accepted # 0 /\ health.content = RLen[accepted]
              /\ \E i \in HDR + health.some .. ResponseEnd : From(i)

Streams ==
    /\ Order /\ Runs /\ WorkerTransfers /\ ClientTransfers /\ Requests /\ Responses

IPromise == IInv /\ Streams

-----------------------------------------------------------------------------
(* What becomes of a segment when it is sent, read and cut off.              *)

\* A part that was moved is counted, and the transfer is complete when nothing is left.
LEMMA Progress ==
  ASSUME NEW r, NEW x, IsTransfer(x, Nat, r), NEW k
  PROVE  /\ Complete(Advance(x, k)) <=> x.off + k = x.size
         /\ Advance(Attempt(x), k).size = x.size /\ Advance(Attempt(x), k).off = x.off + k
  BY DEF Complete, Advance, Attempt, IsTransfer

LEMMA NotAll ==
  ASSUME NEW size \in Nat, NEW off \in Nat, NEW k \in Nat, k <= size - off, off + k # size
  PROVE  off + k < size
  OBVIOUS

LEMMA SegmentOfBytes ==
  ASSUME NEW c \in Calls, NEW i \in Nat, NEW k \in Nat
  PROVE  /\ Bytes(c, i, k) \in Seq(Tokens) /\ Len(Bytes(c, i, k)) = k
         /\ Segment(Bytes(c, i, k), c, i)
<1>1. Bytes(c, i, k) \in Seq(Tokens)
  BY BytesType
<1>2. Len(Bytes(c, i, k)) = k
  BY DEF Bytes
<1>3. QED BY <1>1, <1>2 DEF Bytes, Segment

LEMMA SegmentConcat ==
  ASSUME NEW s \in Seq(Tokens), NEW t \in Seq(Tokens), NEW c, NEW i \in Nat,
         Segment(s, c, i), Segment(t, c, i + Len(s))
  PROVE  /\ s \o t \in Seq(Tokens) /\ Len(s \o t) = Len(s) + Len(t)
         /\ Segment(s \o t, c, i)
<1>1. s \o t \in Seq(Tokens) /\ Len(s \o t) = Len(s) + Len(t)
  OBVIOUS
<1>2. ASSUME NEW j \in 1 .. Len(s) + Len(t)
      PROVE  (s \o t)[j] = <<c, i + j>>
  <2>1. CASE j <= Len(s)
    BY <2>1 DEF Segment
  <2>2. CASE j > Len(s)
    <3>1. (s \o t)[j] = t[j - Len(s)] /\ j - Len(s) \in 1 .. Len(t)
      BY <2>2
    <3>2. t[j - Len(s)] = <<c, i + Len(s) + (j - Len(s))>>
      BY <3>1 DEF Segment
    <3>3. i + Len(s) + (j - Len(s)) = i + j
      OBVIOUS
    <3>4. QED BY <3>1, <3>2, <3>3
  <2>3. QED BY <2>1, <2>2
<1>3. QED BY <1>1, <1>2 DEF Segment

LEMMA SegmentSplit ==
  ASSUME NEW s \in Seq(Tokens), NEW c, NEW i \in Nat, NEW k \in 0 .. Len(s),
         Segment(s, c, i)
  PROVE  /\ SubSeq(s, 1, k) \in Seq(Tokens) /\ Len(SubSeq(s, 1, k)) = k
         /\ Segment(SubSeq(s, 1, k), c, i)
         /\ Drop(s, k) \in Seq(Tokens) /\ Len(Drop(s, k)) = Len(s) - k
         /\ Segment(Drop(s, k), c, i + k)
<1>1. /\ SubSeq(s, 1, k) \in Seq(Tokens) /\ Len(SubSeq(s, 1, k)) = k
      /\ Drop(s, k) \in Seq(Tokens) /\ Len(Drop(s, k)) = Len(s) - k
  BY DropType DEF Drop
<1>2. Segment(SubSeq(s, 1, k), c, i)
  BY <1>1 DEF Segment
<1>3. ASSUME NEW j \in 1 .. Len(s) - k
      PROVE  Drop(s, k)[j] = <<c, i + k + j>>
  <2>1. Drop(s, k)[j] = s[k + j] /\ k + j \in 1 .. Len(s)
    BY DEF Drop
  <2>2. s[k + j] = <<c, i + (k + j)>>
    BY <2>1 DEF Segment
  <2>3. i + (k + j) = i + k + j
    OBVIOUS
  <2>4. QED BY <2>1, <2>2, <2>3
<1>4. QED BY <1>1, <1>2, <1>3 DEF Segment

LEMMA SegmentCut ==
  ASSUME NEW s \in Seq(Tokens), NEW c, NEW i \in Nat, Segment(s, c, i),
         NEW reset \in BOOLEAN, NEW t \in Cut(s, reset)
  PROVE  t \in Seq(Tokens) /\ Len(t) <= Len(s) /\ Segment(t, c, i)
<1>1. CASE reset
  <2>1. PICK k \in 0 .. Len(s) : t = SubSeq(s, 1, k)
    BY <1>1 DEF Cut
  <2>2. QED BY <2>1, SegmentSplit
<1>2. CASE ~reset
  BY <1>2 DEF Cut
<1>3. QED BY <1>1, <1>2

LEMMA SegmentIsBytes ==
  ASSUME NEW s \in Seq(Tokens), NEW c, NEW i \in Nat, Segment(s, c, i)
  PROVE  s = Bytes(c, i, Len(s))
<1>1. s = [j \in 1 .. Len(s) |-> s[j]]
  OBVIOUS
<1>2. \A j \in 1 .. Len(s) : s[j] = <<c, i + j>>
  BY DEF Segment
<1>3. [j \in 1 .. Len(s) |-> s[j]] = [j \in 1 .. Len(s) |-> <<c, i + j>>]
  BY <1>2
<1>4. QED BY <1>1, <1>3 DEF Bytes

\* Whole headers announce the length of their frame, and whole contents are decoded.
LEMMA WholeHeader ==
  ASSUME NEW s \in Seq(Tokens), NEW c \in Calls, NEW L, Len(s) = HDR, Segment(s, c, 0)
  PROVE  Announced(s, L) = {L[c]}
<1>1. s[1] = <<c, 0 + 1>>
  BY CountsAssumption DEF Segment
<1>2. s = Bytes(c, 0, HDR)
  BY SegmentIsBytes, CountsAssumption
<1>3. QED BY <1>1, <1>2 DEF Announced

LEMMA WholeContent ==
  ASSUME NEW s \in Seq(Tokens), NEW c \in Calls, NEW L \in [Calls -> Nat \ {0}],
         Len(s) = L[c], Segment(s, c, HDR)
  PROVE  Decoded(s, L) = c
<1>1. L[c] \in Nat \ {0}
  OBVIOUS
<1>2. s[1] = <<c, HDR + 1>> /\ s # <<>>
  BY <1>1 DEF Segment
<1>3. s = Bytes(c, HDR, L[c])
  BY <1>1, SegmentIsBytes, CountsAssumption
<1>4. QED BY <1>2, <1>3 DEF Decoded


-----------------------------------------------------------------------------
(* The steps keep the two ends in step.                                      *)

LEMMA InitStreams == Init => Streams
<1> SUFFICES ASSUME Init PROVE Streams
  OBVIOUS
<1>1. Order /\ Runs
  BY CountsAssumption DEF Init, Order, Runs, HasRun, OwnAnswer, Calls
<1>2. WorkerTransfers /\ ClientTransfers
  BY DEF Init, WorkerTransfers, ClientTransfers
<1>3. Requests /\ Responses
  BY DEF Init, Requests, Responses, Segment, Quiet, NoRead, WorkerGone
<1>4. QED BY <1>1, <1>2, <1>3 DEF Streams

\* What the invariant says of the numbers.
LEMMA Known ==
  ASSUME IPromise
  PROVE  /\ Order /\ Runs /\ WorkerTransfers /\ ClientTransfers /\ Requests /\ Responses
         /\ TypeOK /\ Serving /\ Calling /\ Live
         /\ HDR \in Nat \ {0} /\ n \in Nat /\ accepted \in Nat /\ request \in Nat
         /\ c2s \in Seq(Tokens) /\ s2c \in Seq(Tokens)
         /\ cbuf \in Seq(Tokens) /\ sbuf \in Seq(Tokens)
         /\ Len(c2s) \in Nat /\ Len(s2c) \in Nat
         /\ ct.size \in Nat /\ ct.off \in Nat /\ st.size \in Nat /\ st.off \in Nat
         /\ cpc # "idle" => n \in Calls
         /\ accepted # 0 => /\ accepted \in Calls
                            /\ QLen[accepted] \in Nat \ {0} /\ RLen[accepted] \in Nat \ {0}
                            /\ RequestEnd \in Nat /\ ResponseEnd \in Nat /\ Got \in Nat
<1>1. IInv /\ Order /\ Runs /\ WorkerTransfers /\ ClientTransfers /\ Requests /\ Responses
  BY DEF IPromise, Streams
<1>2. /\ HDR \in Nat \ {0} /\ n \in Nat /\ accepted \in 0 .. MaxCalls /\ request \in Nat
      /\ TypeOK /\ c2s \in Seq(Tokens) /\ s2c \in Seq(Tokens)
      /\ cbuf \in Seq(Tokens) /\ sbuf \in Seq(Tokens)
      /\ ct.size \in Nat /\ ct.off \in Nat /\ st.size \in Nat /\ st.off \in Nat
      /\ cpc # "idle" => n \in Calls
  <2>1. /\ TypeOK /\ c2s \in Seq(Tokens) /\ s2c \in Seq(Tokens)
        /\ cbuf \in Seq(Tokens) /\ sbuf \in Seq(Tokens)
        /\ ct.size \in Nat /\ ct.off \in Nat /\ st.size \in Nat /\ st.off \in Nat
        /\ cpc # "idle" => n \in Calls
    BY <1>1, Parts
  <2>2. n \in 0 .. MaxCalls /\ accepted \in 0 .. MaxCalls /\ request \in 0 .. MaxCalls
    BY <2>1 DEF TypeOK
  <2>3. HDR \in Nat \ {0}
    BY CountsAssumption
  <2>4. n \in Nat /\ request \in Nat
    BY <2>2
  <2>5. QED BY <2>1, <2>2, <2>3, <2>4
<1>3. accepted # 0 => /\ accepted \in Calls
                      /\ QLen[accepted] \in Nat \ {0} /\ RLen[accepted] \in Nat \ {0}
  BY <1>2, CallsAreNat, LengthsAssumption
<1>4. accepted # 0 => RequestEnd \in Nat /\ ResponseEnd \in Nat /\ Got \in Nat
  <2>1. ASSUME accepted # 0 PROVE RequestEnd \in Nat /\ ResponseEnd \in Nat
    <3>1. HDR \in Nat /\ QLen[accepted] \in Nat /\ RLen[accepted] \in Nat
      BY <1>2, <1>3, <2>1
    <3>2. QED BY <3>1 DEF RequestEnd, ResponseEnd
  <2>2. Got \in {RequestEnd, st.off, HDR + st.off, 0}
    BY DEF Got
  <2>3. HDR + st.off \in Nat
    BY <1>2
  <2>4. QED BY <1>2, <2>1, <2>2, <2>3
<1>5. QED BY <1>1, <1>2, <1>3, <1>4 DEF IInv

\* A call ends: it is the last one, and if it has an answer, it is its own.
LEMMA OrderReturns ==
  ASSUME IPromise, cpc # "idle", NEW result \in Returned, Return(result),
         UNCHANGED <<n, accepted>>,
         \/ result # "answered" /\ answer' = answer
         \/ answer' = [answer EXCEPT ![n] = n]
  PROVE  Order'
<1>1. /\ cpc' = "idle" /\ n \in Calls /\ status' = [status EXCEPT ![n] = result]
      /\ status \in [Calls -> {"new", "open"} \cup Settled] /\ answer \in [Calls -> 0 .. MaxCalls]
      /\ Order /\ n \in Nat
  BY Known DEF Return, TypeOK
<1>2. \A c \in Calls : status'[c] = IF c = n THEN result ELSE status[c]
  BY <1>1
<1>3. OwnAnswer'
  BY <1>1, <1>2 DEF Order, OwnAnswer
<1>4. QED BY <1>1, <1>2, <1>3 DEF Order, Returned

\* A client that is closed loses what was on the way to it, and some of what it has sent.
LEMMA CloseStreams ==
  ASSUME IPromise, Close, UNCHANGED <<accepted, worker>>,
         cpc' \in {"idle", "overrun"}
  PROVE  Runs' /\ WorkerTransfers' /\ ClientTransfers' /\ Requests' /\ Responses'
<1>1. sock' = FALSE /\ s2c' = <<>> /\ c2s' \in Cut(c2s, s2c # <<>>)
      /\ cpc' \in {"idle", "overrun"}
  BY DEF Close
<1>2. Runs'
  BY <1>1, Known DEF Runs, HasRun, worker
<1>3. WorkerTransfers' /\ ClientTransfers'
  BY <1>1, Known DEF WorkerTransfers, ClientTransfers, worker, Segment
<1>4. Requests'
  <2>1. CASE WorkerGone
    <3>1. c2s = <<>>
      BY <2>1, Known DEF Requests
    <3>2. c2s' = <<>>
      BY <1>1, <3>1 DEF Cut
    <3>3. QED BY <2>1, <3>2 DEF Requests, WorkerGone, worker
  <2>2. CASE ~WorkerGone /\ accepted = 0
    <3>1. c2s = <<>>
      BY <2>2, Known DEF Requests
    <3>2. c2s' = <<>>
      BY <1>1, <3>1 DEF Cut
    <3>3. QED BY <1>1, <2>2, <3>2 DEF Requests, WorkerGone, worker, Segment
  <2>3. CASE ~WorkerGone /\ accepted # 0
    <3>1. /\ Segment(c2s, accepted, Got) /\ Got + Len(c2s) <= RequestEnd
          /\ c2s \in Seq(Tokens) /\ Got \in Nat /\ RequestEnd \in Nat
      BY <2>3, Known DEF Requests
    <3>2. c2s' \in Seq(Tokens) /\ Len(c2s') <= Len(c2s) /\ Segment(c2s', accepted, Got)
      BY <1>1, <3>1, SegmentCut
    <3>3. Got' = Got /\ RequestEnd' = RequestEnd
      BY DEF Got, RequestEnd, worker
    <3>4. Got + Len(c2s') <= RequestEnd
      BY <3>1, <3>2
    <3>5. QED BY <1>1, <2>3, <3>2, <3>3, <3>4 DEF Requests, WorkerGone, worker
  <2>4. QED BY <2>1, <2>2, <2>3
<1>5. Responses'
  BY <1>1 DEF Responses
<1>6. QED BY <1>2, <1>3, <1>4, <1>5

-----------------------------------------------------------------------------
(* The client.                                                               *)

LEMMA CallStreams ==
  ASSUME IPromise, Call
  PROVE  Streams'
<1>1. Order'
  <2>1. n' = n + 1 /\ cpc = "idle" /\ cpc' = "check" /\ UNCHANGED <<status, answer, accepted>>
    BY DEF Call
  <2>2. n' \in Calls
    BY <2>1, Known, CountsAssumption DEF Calls, Call
  <2>3. \A c \in Calls : (c < n' => c < n \/ c = n) /\ (c > n' => c > n) /\ c \in Nat
    BY <2>1, Known DEF Calls
  <2>4. QED BY <2>1, <2>2, <2>3, Known DEF Order, OwnAnswer, Calls
<1>2. Runs' /\ WorkerTransfers' /\ ClientTransfers'
  BY Known DEF Call, Runs, HasRun, WorkerTransfers, ClientTransfers, worker
<1>3. Requests' /\ Responses'
  BY Known DEF Call, Requests, RequestEnd, Got, Responses, From, Put, ResponseEnd, Quiet,
               WorkerGone, worker
<1>4. QED BY <1>1, <1>2, <1>3 DEF Streams

LEMMA CheckRefusesStreams ==
  ASSUME IPromise, CheckRefuses
  PROVE  Streams'
<1>1. Order'
  BY OrderReturns DEF CheckRefuses, Returned
<1>2. Runs' /\ WorkerTransfers' /\ ClientTransfers'
  BY Known DEF CheckRefuses, Return, Runs, HasRun, WorkerTransfers, ClientTransfers, worker
<1>3. Requests' /\ Responses'
  BY Known DEF CheckRefuses, Return, Requests, RequestEnd, Got, Responses, From, Put,
               ResponseEnd, Quiet, WorkerGone, worker
<1>4. QED BY <1>1, <1>2, <1>3 DEF Streams

\* Only a quiet connection passes: the next call starts with both ends at a frame's start.
LEMMA CheckPassesStreams ==
  ASSUME IPromise, CheckPasses
  PROVE  Streams'
<1>1. /\ cpc = "check" /\ sock /\ health.state = "NO_READ" /\ cpc' = "wHeader" /\ accepted' = n
      /\ status' = [status EXCEPT ![n] = "open"] /\ ct' = Begin(HDR)
      /\ UNCHANGED <<n, sock, health, answer, worker, c2s, s2c>>
      /\ n \in Calls /\ accepted < n
      /\ c2s = <<>> /\ s2c = <<>> /\ spc \in {"pending", "gone"}
  BY Known DEF CheckPasses, Order, Responses, Quiet
<1>2. Order'
  <2>1. \A c \in Calls : status'[c] = IF c = n THEN "open" ELSE status[c]
    BY <1>1, Known DEF TypeOK
  <2>2. OwnAnswer'
    BY <1>1, <2>1, Known DEF Order, OwnAnswer
  <2>3. QED BY <1>1, <2>1, <2>2, Known DEF Order
<1>3. Runs'
  <2>1. request < n /\ \A i \in DOMAIN executed : executed[i] < n
    <3>1. /\ executed \in Seq(Calls) /\ request <= accepted
          /\ \A i \in DOMAIN executed : executed[i] <= accepted /\ executed[i] \in Nat
      BY Known, CallsAreNat DEF Runs, TypeOK
    <3>2. QED BY <1>1, <3>1, Known
  <2>2. UNCHANGED <<executed, request, spc>> /\ n \in Nat /\ request \in Nat
    BY <1>1, Known DEF worker
  <2>3. \A i \in DOMAIN executed : executed[i] # n /\ executed[i] <= n
    <3>1. executed \in Seq(Calls)
      BY Known DEF TypeOK
    <3>2. \A i \in DOMAIN executed : executed[i] \in Nat
      BY <3>1, CallsAreNat
    <3>3. QED BY <2>1, <2>2, <3>2
  <2>4. QED BY <1>1, <2>1, <2>2, <2>3 DEF Runs, HasRun
<1>4. WorkerTransfers' /\ ClientTransfers'
  BY <1>1, Known DEF WorkerTransfers, ClientTransfers, worker, Begin
<1>5. Requests' /\ Responses'
  <2>1. Responses'
    BY <1>1 DEF Responses, Quiet, worker
  <2>2. ~WorkerGone => Got' = 0 /\ RequestEnd' \in Nat /\ accepted' # 0
    <3>1. request # n
      BY <1>1, Known DEF Runs
    <3>2. n \in Calls /\ n # 0 /\ QLen[n] \in Nat /\ HDR \in Nat
      BY <1>1, Known, LengthsAssumption DEF Calls
    <3>3. QED BY <1>1, <3>1, <3>2 DEF Got, RequestEnd, worker, WorkerGone
  <2>3. request' # accepted'
    BY <1>1, Known DEF Runs, worker
  <2>4. c2s' = <<>> /\ Len(c2s') = 0 /\ cpc' # "wContent" /\ WorkerGone' = WorkerGone
    BY <1>1 DEF WorkerGone, worker
  <2>5. 0 + Len(c2s') <= RequestEnd' \/ WorkerGone
    BY <2>2, <2>4
  <2>6. Requests'
    BY <2>2, <2>3, <2>4, <2>5 DEF Requests, Segment
  <2>7. QED BY <2>1, <2>6
<1>6. QED BY <1>2, <1>3, <1>4, <1>5 DEF Streams

\* A drained byte is one of the old response, and what is known of it says how many are left.
LEMMA DrainPartStreams ==
  ASSUME IPromise, ~SplitResponse, NEW k \in 1 .. Len(s2c), DrainPart(k)
  PROVE  Streams'
<1>1. /\ cpc = "check" /\ sock /\ health.state = "CONTENT_READ_SOME" /\ k < Boundary
      /\ health' = [health EXCEPT !.some = @ + k] /\ s2c' = Drop(s2c, k)
      /\ UNCHANGED <<cpc, n, sock, ct, cbuf, status, answer, accepted, worker, c2s>>
      /\ health \in [state : Healths, some : Nat, content : Nat]
  BY Known DEF DrainPart, Draining, TypeOK
<1>2. Order' /\ WorkerTransfers' /\ ClientTransfers'
  BY <1>1, Known DEF Order, OwnAnswer, WorkerTransfers, ClientTransfers, worker
<1>3. Runs' /\ Requests'
  BY <1>1, Known DEF Runs, HasRun, Requests, RequestEnd, Got, WorkerGone, worker
<1>4. PICK i \in HDR + health.some .. ResponseEnd : From(i)
  BY <1>1, Known DEF Responses
<1>5. /\ accepted # 0 /\ health.content = RLen[accepted] /\ i \in Nat /\ i >= HDR + health.some
      /\ health.some \in Nat /\ ResponseEnd \in Nat
  <2>1. accepted # 0 /\ health.content = RLen[accepted]
    BY <1>1, Known DEF Responses
  <2>2. HDR \in Nat /\ health.some \in Nat
    BY <1>1, CountsAssumption
  <2>3. ResponseEnd \in Nat
    BY <2>1, Known
  <2>4. i \in Nat /\ i >= HDR + health.some
    BY <1>4, <2>2, <2>3
  <2>5. QED BY <2>1, <2>2, <2>3, <2>4
<1>6. /\ s2c' \in Seq(Tokens) /\ Len(s2c') = Len(s2c) - k /\ Segment(s2c', accepted, i + k)
      /\ i + Len(s2c) <= ResponseEnd
  <2>1. Segment(s2c, accepted, i) /\ i + Len(s2c) <= ResponseEnd
    BY <1>4 DEF From
  <2>2. k \in 0 .. Len(s2c) /\ s2c \in Seq(Tokens)
    BY Known
  <2>3. QED BY <1>1, <1>5, <2>1, <2>2, SegmentSplit
<1>7. From(i + k)' /\ i + k \in HDR + health'.some .. ResponseEnd'
  <2>1. /\ i + k + Len(s2c') = i + Len(s2c) /\ i + k <= ResponseEnd /\ i + k \in Nat
        /\ i + k >= HDR + (health.some + k) /\ HDR + (health.some + k) \in Nat
    <3>1. /\ HDR \in Nat /\ Len(s2c) \in Nat /\ k \in Nat /\ k <= Len(s2c)
          /\ i \in Nat /\ health.some \in Nat /\ ResponseEnd \in Nat
      BY <1>5, Known
    <3>2. i + k + Len(s2c') = i + Len(s2c)
      BY <1>6, <3>1
    <3>3. i + k <= ResponseEnd
      BY <1>6, <3>1
    <3>4. i + k \in Nat /\ i + k >= HDR + (health.some + k) /\ HDR + (health.some + k) \in Nat
      BY <1>5, <3>1
    <3>5. QED BY <3>2, <3>3, <3>4
  <2>2. UNCHANGED <<Put, ResponseEnd, WorkerGone, accepted>>
    BY <1>1 DEF Put, ResponseEnd, WorkerGone, worker
  <2>3. health'.some = health.some + k
    BY <1>1
  <2>4. i + k \in HDR + health'.some .. ResponseEnd'
    BY <1>5, <2>1, <2>2, <2>3
  <2>5. i + Len(s2c) \in Put \/ WorkerGone
    BY <1>4 DEF From
  <2>6. QED BY <1>5, <1>6, <2>1, <2>2, <2>4, <2>5 DEF From
<1>8. Responses'
  <2>1. health'.state = health.state /\ health'.content = health.content
    BY <1>1
  <2>2. QED BY <1>1, <1>5, <1>7, <2>1 DEF Responses
<1>9. QED BY <1>2, <1>3, <1>8 DEF Streams

LEMMA DrainHeaderStreams ==
  ASSUME IPromise, DrainHeader
  PROVE  Streams'
<1>1. /\ cpc = "check" /\ sock /\ health.state = "HEADER_READ_SOME"
      /\ health.some = 0 /\ From(0) /\ Boundary = HDR /\ HDR \in 1 .. Len(s2c)
      /\ s2c' = Drop(s2c, HDR)
      /\ UNCHANGED <<cpc, n, sock, ct, cbuf, status, answer, accepted, worker, c2s>>
  BY Known DEF DrainHeader, Draining, Boundary, Responses
<1>2. Order' /\ WorkerTransfers' /\ ClientTransfers'
  BY <1>1, Known DEF Order, OwnAnswer, WorkerTransfers, ClientTransfers, worker
<1>3. accepted # 0 /\ Segment(s2c, accepted, 0) /\ 0 + Len(s2c) <= ResponseEnd /\ s2c # <<>>
  BY <1>1 DEF From
<1>4. Runs' /\ Requests'
  BY <1>1, <1>3, Known DEF Runs, HasRun, Requests, RequestEnd, Got, WorkerGone, worker
<1>5. /\ SubSeq(s2c, 1, HDR) \in Seq(Tokens) /\ Len(SubSeq(s2c, 1, HDR)) = HDR
      /\ Segment(SubSeq(s2c, 1, HDR), accepted, 0)
      /\ s2c' \in Seq(Tokens) /\ Len(s2c') = Len(s2c) - HDR /\ Segment(s2c', accepted, 0 + HDR)
  <2>1. HDR \in 0 .. Len(s2c) /\ s2c \in Seq(Tokens)
    BY <1>1, Known
  <2>2. QED BY <1>1, <1>3, <2>1, SegmentSplit
<1>6. Announced(SubSeq(s2c, 1, HDR), RLen) = {RLen[accepted]}
  BY <1>3, <1>5, WholeHeader, Known
<1>7. \/ health'.state = "UNDEFINED"
      \/ health' = [state |-> "CONTENT_READ_SOME", some |-> 0, content |-> RLen[accepted]]
  BY <1>1, <1>6 DEF DrainHeader
<1>8. From(HDR)' /\ HDR \in HDR + 0 .. ResponseEnd'
  <2>0. ResponseEnd \in Nat /\ HDR \in Nat /\ Len(s2c) \in Nat
    BY <1>3, Known
  <2>1. /\ HDR + Len(s2c') = 0 + Len(s2c) /\ HDR <= ResponseEnd /\ 0 + HDR = HDR
    BY <1>1, <1>3, <1>5, <2>0
  <2>2. UNCHANGED <<Put, ResponseEnd, WorkerGone, accepted>>
    BY <1>1 DEF Put, ResponseEnd, WorkerGone, worker
  <2>3. QED BY <1>1, <1>3, <1>5, <2>1, <2>2, Known DEF From
<1>9. Responses'
  <2>1. CASE health'.state = "UNDEFINED"
    BY <1>1, <2>1 DEF Responses
  <2>2. CASE health' = [state |-> "CONTENT_READ_SOME", some |-> 0, content |-> RLen[accepted]]
    <3>1. health'.some = 0 /\ health'.content = RLen[accepted']
      BY <1>1, <2>2
    <3>2. \E i \in HDR + health'.some .. ResponseEnd' : From(i)'
      BY <1>8, <3>1
    <3>3. QED BY <1>1, <1>3, <2>2, <3>1, <3>2 DEF Responses
  <2>3. QED BY <1>7, <2>1, <2>2
<1>10. QED BY <1>2, <1>4, <1>9 DEF Streams

\* Where the last byte of a response has been read, the worker has written it and waits.
LEMMA AllReadIsQuiet ==
  ASSUME IPromise, NEW i \in Nat, From(i), i + Len(s2c) = ResponseEnd
  PROVE  spc \in {"pending", "gone"} /\ c2s = <<>>
<1>1. accepted # 0 /\ (~WorkerGone => ResponseEnd \in Put)
  BY DEF From
<1>2. /\ accepted \in Calls /\ RLen[accepted] \in Nat \ {0} /\ HDR \in Nat \ {0}
      /\ st.off \in Nat /\ st.size \in Nat
  BY <1>1, Known
<1>3. ~WorkerGone => spc = "pending" /\ request = accepted
  <2>1. CASE spc = "wHeader"
    <3>1. Put = {st.off} /\ st.off < HDR
      BY <2>1, Known DEF Put, WorkerTransfers
    <3>2. QED BY <1>1, <1>2, <3>1 DEF ResponseEnd
  <2>2. CASE spc = "wContent"
    <3>1. Put = {HDR + st.off} /\ st.off < RLen[accepted]
      BY <2>2, Known DEF Put, WorkerTransfers
    <3>2. QED BY <1>1, <1>2, <3>1 DEF ResponseEnd
  <2>3. CASE spc \notin {"wHeader", "wContent"} /\ ~(spc = "pending" /\ request = accepted)
    <3>1. Put = {0}
      BY <2>3 DEF Put
    <3>2. QED BY <1>1, <1>2, <3>1 DEF ResponseEnd
  <2>4. QED BY <2>1, <2>2, <2>3
<1>4. c2s = <<>>
  <2>1. CASE WorkerGone
    BY <2>1, Known DEF Requests
  <2>2. CASE ~WorkerGone
    <3>1. Got = RequestEnd /\ Got + Len(c2s) <= RequestEnd
      BY <1>1, <1>3, <2>2, Known DEF Requests, Got
    <3>2. Len(c2s) = 0
      BY <1>1, <3>1, Known
    <3>3. QED BY <3>2, Known
  <2>3. QED BY <2>1, <2>2
<1>5. QED BY <1>3, <1>4 DEF WorkerGone

LEMMA DrainContentStreams ==
  ASSUME IPromise, DrainContent
  PROVE  Streams'
<1>1. /\ cpc = "check" /\ sock /\ health.state = "CONTENT_READ_SOME"
      /\ Boundary = health.content - health.some /\ Boundary \in 1 .. Len(s2c)
      /\ health' = [health EXCEPT !.state = "NO_READ", !.some = 0] /\ s2c' = Drop(s2c, Boundary)
      /\ UNCHANGED <<cpc, n, sock, ct, cbuf, status, answer, accepted, worker, c2s>>
      /\ health \in [state : Healths, some : Nat, content : Nat]
  BY Known DEF DrainContent, Draining, Boundary, TypeOK
<1>2. Order' /\ WorkerTransfers' /\ ClientTransfers'
  BY <1>1, Known DEF Order, OwnAnswer, WorkerTransfers, ClientTransfers, worker
<1>3. PICK i \in HDR + health.some .. ResponseEnd : From(i)
  BY <1>1, Known DEF Responses
<1>4. /\ accepted # 0 /\ health.content = RLen[accepted] /\ i \in Nat /\ i >= HDR + health.some
      /\ health.some \in Nat /\ ResponseEnd = HDR + RLen[accepted]
      /\ i + Len(s2c) <= ResponseEnd
  <2>1. accepted # 0 /\ health.content = RLen[accepted] /\ health.some \in Nat
    BY <1>1, Known DEF Responses
  <2>2. RLen[accepted] \in Nat /\ HDR \in Nat
    BY <2>1, Known
  <2>3. i + Len(s2c) <= ResponseEnd
    BY <1>3 DEF From
  <2>4. QED BY <2>1, <2>2, <2>3 DEF ResponseEnd
<1>5. i + Len(s2c) = ResponseEnd /\ Len(s2c) = Boundary
  <2>1. RLen[accepted] \in Nat /\ HDR \in Nat /\ Len(s2c) \in Nat
    BY <1>4, Known
  <2>2. QED BY <1>1, <1>4, <2>1
<1>6. Len(s2c') = 0 /\ s2c' \in Seq(Tokens)
  <2>1. s2c \in Seq(Tokens) /\ Len(s2c) \in Nat
    BY Known
  <2>2. QED BY <1>1, <1>5, <2>1 DEF Drop
<1>7. s2c' = <<>> /\ spc \in {"pending", "gone"} /\ c2s = <<>>
  BY <1>3, <1>4, <1>5, <1>6, AllReadIsQuiet
<1>8. Runs' /\ Requests'
  BY <1>1, <1>7, Known DEF Runs, HasRun, Requests, RequestEnd, Got, WorkerGone, worker
<1>9. Responses'
  BY <1>1, <1>7 DEF Responses, Quiet, worker
<1>10. QED BY <1>2, <1>8, <1>9 DEF Streams

LEMMA DrainNothingStreams ==
  ASSUME IPromise, DrainNothing
  PROVE  Streams'
<1>1. /\ cpc = "check" /\ health'.state = "UNDEFINED" /\ s2c' = s2c
      /\ UNCHANGED <<cpc, n, sock, ct, cbuf, status, answer, accepted, worker, c2s>>
  BY Known DEF DrainNothing, Draining, TypeOK
<1>2. Order' /\ WorkerTransfers' /\ ClientTransfers'
  BY <1>1, Known DEF Order, OwnAnswer, WorkerTransfers, ClientTransfers, worker
<1>3. Runs' /\ Requests' /\ Responses'
  BY <1>1, Known DEF Runs, HasRun, Requests, RequestEnd, Got, WorkerGone, worker, Responses
<1>4. QED BY <1>2, <1>3 DEF Streams

\* The header of the request goes at once to a worker that waits, or to nobody.
LEMMA SendHeaderStreams ==
  ASSUME IPromise, ~SplitRequest, NEW k \in 1 .. HDR, SendHeader(k)
  PROVE  Streams'
<1>1. /\ cpc = "wHeader" /\ ct.size = HDR /\ ct.off = 0 /\ k = HDR /\ HDR \in Nat \ {0}
      /\ c2s = <<>> /\ s2c = <<>> /\ spc \in {"pending", "gone"} /\ sock
      /\ n \in Calls /\ accepted = n /\ n # 0 /\ health.state = "NO_READ"
  BY Known, CallsAreNat DEF SendHeader, ClientTransfers, Responses, Quiet, Order, Calls, Live
<1>2. /\ cpc' = "wContent" /\ ct' = Begin(QLen[n])
      /\ c2s' = IF WorkerGone THEN c2s ELSE c2s \o Bytes(n, 0 + ct.off, k)
      /\ UNCHANGED <<n, sock, health, left, cbuf, status, answer, accepted, worker, s2c>>
  <2>1. IsTransfer(ct, Nat, ClientRetries) /\ ct.off + k = ct.size
    BY <1>1, Known DEF TypeOK
  <2>2. Complete(Advance(ct, k))
    BY <2>1, Progress
  <2>3. QED BY <2>2 DEF SendHeader, Sends
<1>3. Order'
  BY <1>1, <1>2, Known DEF Order, OwnAnswer
<1>4. Runs'
  BY <1>1, <1>2, Known DEF Runs, HasRun, worker
<1>5. WorkerTransfers' /\ ClientTransfers'
  BY <1>1, <1>2, Known DEF WorkerTransfers, ClientTransfers, worker, Begin
<1>6. Requests'
  <2>1. CASE WorkerGone
    BY <1>1, <1>2, <2>1 DEF Requests, WorkerGone, worker
  <2>2. CASE ~WorkerGone
    <3>1. request # accepted => Got = 0 /\ Got' = 0
      BY <1>1, <1>2, <2>2 DEF Got, WorkerGone, worker
    <3>2. request # accepted
      BY <1>1, <2>2, Known DEF Requests
    <3>3. c2s' = Bytes(n, 0, HDR)
      BY <1>1, <1>2, <2>2, SegmentOfBytes
    <3>4. Len(c2s') = HDR /\ Segment(c2s', n, 0)
      BY <1>1, <3>3, SegmentOfBytes
    <3>5. RequestEnd' = HDR + QLen[n] /\ QLen[n] \in Nat \ {0}
      BY <1>1, <1>2, Known DEF RequestEnd
    <3>6. QED BY <1>1, <1>2, <2>2, <3>1, <3>2, <3>4, <3>5 DEF Requests, WorkerGone, worker, Begin
  <2>3. QED BY <2>1, <2>2
<1>7. Responses'
  BY <1>1, <1>2, Known DEF Responses
<1>8. QED BY <1>3, <1>4, <1>5, <1>6, <1>7 DEF Streams

LEMMA SendContentStreams ==
  ASSUME IPromise, NEW k \in 1 .. ct.size, SendContent(k)
  PROVE  Streams'
<1>1. /\ cpc = "wContent" /\ ct.size = QLen[n] /\ ct.off < ct.size /\ k <= ct.size - ct.off
      /\ ct.size \in Nat /\ ct.off \in Nat /\ HDR \in Nat \ {0} /\ k \in Nat
      /\ n \in Calls /\ accepted = n /\ n # 0 /\ s2c = <<>> /\ sock /\ health.state = "NO_READ"
      /\ c2s' = IF WorkerGone THEN c2s ELSE c2s \o Bytes(n, HDR + ct.off, k)
      /\ UNCHANGED <<n, sock, health, left, status, answer, accepted, worker, s2c>>
  BY Known DEF SendContent, Sends, ClientTransfers, Responses, Order, Calls, Live
<1>2. \/ /\ ct.off + k = ct.size /\ cpc' = "rHeader" /\ ct' = Begin(HDR) /\ cbuf' = <<>>
      \/ /\ ct.off + k < ct.size /\ cpc' = "wContent" /\ cbuf' = cbuf
         /\ ct'.size = ct.size /\ ct'.off = ct.off + k
  <2>1. IsTransfer(ct, Nat, ClientRetries)
    BY Known DEF TypeOK
  <2>2. /\ Complete(Advance(ct, k)) <=> ct.off + k = ct.size
        /\ Advance(Attempt(ct), k).size = ct.size /\ Advance(Attempt(ct), k).off = ct.off + k
    BY <2>1, Progress
  <2>3. ct.off + k # ct.size => ct.off + k < ct.size
    BY <1>1, NotAll
  <2>4. QED BY <1>1, <2>2, <2>3 DEF SendContent
<1>3. Order'
  BY <1>1, <1>2, Known DEF Order, OwnAnswer
<1>4. Runs'
  BY <1>1, <1>2, Known DEF Runs, HasRun, worker
<1>5. WorkerTransfers' /\ ClientTransfers'
  <2>1. WorkerTransfers'
    BY <1>1, Known DEF WorkerTransfers, worker
  <2>2. ClientTransfers'
    BY <1>1, <1>2 DEF ClientTransfers, Begin
  <2>3. QED BY <2>1, <2>2
<1>6. CASE WorkerGone
  <2>1. Requests'
    BY <1>1, <1>2, <1>6, Known DEF Requests, WorkerGone, worker
  <2>2. Responses'
    <3>1. From(0)'
      <4>1. accepted # 0 /\ ResponseEnd \in Nat
        BY <1>1, Known
      <4>2. ResponseEnd' = ResponseEnd /\ WorkerGone'
        BY <1>1, <1>6 DEF ResponseEnd, WorkerGone, worker
      <4>3. QED BY <1>1, <4>1, <4>2 DEF From, Segment
    <3>2. QED BY <1>1, <1>2, <3>1 DEF Responses
  <2>3. QED BY <1>3, <1>4, <1>5, <2>1, <2>2 DEF Streams
<1>7. CASE ~WorkerGone
  <2>1. /\ Segment(c2s, n, Got) /\ Got + Len(c2s) = HDR + ct.off /\ RequestEnd = HDR + ct.size
        /\ c2s \in Seq(Tokens) /\ Len(c2s) \in Nat /\ Got \in Nat
    BY <1>1, <1>7, Known DEF Requests, RequestEnd
  <2>2. /\ c2s' = c2s \o Bytes(n, HDR + ct.off, k) /\ HDR + ct.off \in Nat
    BY <1>1, <1>7
  <2>3. /\ Bytes(n, HDR + ct.off, k) \in Seq(Tokens) /\ Len(Bytes(n, HDR + ct.off, k)) = k
        /\ Segment(Bytes(n, HDR + ct.off, k), n, Got + Len(c2s))
    BY <1>1, <2>1, <2>2, SegmentOfBytes
  <2>4. Segment(c2s', n, Got) /\ Len(c2s') = Len(c2s) + k
    BY <2>1, <2>2, <2>3, SegmentConcat
  <2>5. Got' = Got /\ RequestEnd' = RequestEnd
    BY <1>1 DEF Got, RequestEnd, worker
  <2>6. Got + Len(c2s') = HDR + (ct.off + k) /\ Got + Len(c2s') <= RequestEnd
    <3>1. /\ Got \in Nat /\ Len(c2s) \in Nat /\ HDR \in Nat /\ ct.off \in Nat /\ ct.size \in Nat
          /\ k \in Nat /\ k <= ct.size - ct.off
      BY <1>1, <2>1
    <3>2. Got + Len(c2s') = Got + Len(c2s) + k
      BY <2>4, <3>1
    <3>3. Got + Len(c2s') = HDR + (ct.off + k)
      BY <2>1, <3>1, <3>2
    <3>4. HDR + (ct.off + k) <= HDR + ct.size
      BY <3>1
    <3>5. QED BY <2>1, <3>3, <3>4
  <2>7. Requests'
    BY <1>1, <1>2, <1>7, <2>4, <2>5, <2>6 DEF Requests, WorkerGone, worker
  <2>8. Put = {0}
    <3>1. request # accepted
      BY <1>1, <2>1 DEF Got
    <3>2. spc \notin {"wHeader", "wContent"}
      BY <3>1, Known DEF Runs
    <3>3. QED BY <3>1, <3>2 DEF Put
  <2>9. Responses'
    <3>1. Put' = Put
      BY <1>1 DEF Put, ResponseEnd, worker
    <3>2. ResponseEnd' \in Nat
      BY <1>1, Known DEF ResponseEnd
    <3>3. From(0)'
      BY <1>1, <2>8, <3>1, <3>2 DEF From, Segment
    <3>4. QED BY <1>1, <1>2, <3>3 DEF Responses
  <2>10. QED BY <1>3, <1>4, <1>5, <2>7, <2>9 DEF Streams
<1>8. QED BY <1>6, <1>7

LEMMA ClientIdlesStreams ==
  ASSUME IPromise, ClientIdles
  PROVE  Streams'
<1>1. /\ cpc \in {"wHeader", "wContent", "rHeader", "rContent"}
      /\ ct'.size = ct.size /\ ct'.off = ct.off
      /\ UNCHANGED <<cpc, n, sock, health, left, cbuf, status, answer, accepted, worker, c2s, s2c>>
  <2>1. IsTransfer(ct, Nat, ClientRetries) /\ ~Exhausted(ct, ClientRetries) /\ ct' = Attempt(ct)
    BY Known DEF ClientIdles, TypeOK
  <2>2. ct'.size = ct.size /\ ct'.off = ct.off
    BY <2>1, AttemptIsTransfer, CountsAssumption
  <2>3. QED BY <2>2 DEF ClientIdles
<1>2. Order' /\ Runs'
  BY <1>1, Known DEF Order, OwnAnswer, Runs, HasRun, worker
<1>3. WorkerTransfers' /\ ClientTransfers'
  BY <1>1, Known DEF WorkerTransfers, ClientTransfers, worker
<1>4. Requests'
  BY <1>1, Known DEF Requests, RequestEnd, Got, WorkerGone, worker
<1>5. Responses'
  BY <1>1, Known DEF Responses, From, Put, ResponseEnd, Quiet, WorkerGone, worker
<1>6. QED BY <1>2, <1>3, <1>4, <1>5 DEF Streams

\* Of a header that is not written nothing is written.
LEMMA SendHeaderFailsStreams ==
  ASSUME IPromise, SendHeaderFails
  PROVE  Streams'
<1>1. /\ cpc = "wHeader" /\ ct.off = 0 /\ sock /\ health.state = "NO_READ" /\ Quiet
      /\ Return("failed")
      /\ UNCHANGED <<n, health, left, ct, cbuf, answer, accepted, worker>>
  BY Known DEF SendHeaderFails, ClientTransfers, Live, Responses
<1>2. UNCHANGED <<sock, c2s, s2c>>
  BY <1>1 DEF SendHeaderFails, Shortfall, ResultWhenExhausted
<1>3. Order'
  BY <1>1, OrderReturns DEF Returned
<1>4. Runs' /\ WorkerTransfers' /\ ClientTransfers'
  BY <1>1, <1>2, Known DEF Runs, HasRun, WorkerTransfers, ClientTransfers, worker, Return
<1>5. Requests' /\ Responses'
  BY <1>1, <1>2, Known
     DEF Requests, RequestEnd, Got, WorkerGone, worker, Return, Responses, Quiet
<1>6. QED BY <1>3, <1>4, <1>5 DEF Streams

LEMMA SendContentFailsStreams ==
  ASSUME IPromise, SendContentFails
  PROVE  Streams'
<1>1. /\ cpc = "wContent" /\ Close /\ Return("failed")
      /\ UNCHANGED <<n, answer, accepted, worker>>
  BY DEF SendContentFails
<1>2. Order'
  BY <1>1, OrderReturns DEF Returned
<1>3. cpc' \in {"idle"}
  BY <1>1 DEF Return
<1>4. QED BY <1>1, <1>2, <1>3, CloseStreams DEF Streams

LEMMA UserClosesStreams ==
  ASSUME IPromise, UserCloses
  PROVE  Streams'
<1>1. /\ cpc' \in {"idle"} /\ Close
      /\ UNCHANGED <<cpc, n, status, answer, accepted, worker>>
  BY DEF UserCloses
<1>2. Order'
  BY <1>1, Known DEF Order, OwnAnswer
<1>3. QED BY <1>1, <1>2, CloseStreams DEF Streams

\* An overrun ends the client where it stands.
LEMMA DrainOverrunsStreams ==
  ASSUME IPromise, DrainOverruns
  PROVE  Streams'
<1>1. /\ cpc = "check" /\ cpc' = "overrun" /\ Close
      /\ UNCHANGED <<n, status, answer, accepted, worker>>
  BY DEF DrainOverruns
<1>2. Order'
  BY <1>1, Known DEF Order, OwnAnswer
<1>3. QED BY <1>1, <1>2, CloseStreams DEF Streams

\* The header of the response is that of the call's own.
LEMMA ReceiveHeaderStreams ==
  ASSUME IPromise, ~SplitResponse, NEW k \in 1 .. HDR, ReceiveHeader(k)
  PROVE  Streams'
<1>1. /\ cpc = "rHeader" /\ k = HDR /\ HDR \in Nat \ {0} /\ HDR <= Len(s2c) /\ cbuf = <<>>
      /\ From(0) /\ n \in Calls /\ accepted = n /\ sock /\ health.state = "NO_READ"
      /\ UNCHANGED <<n, left, accepted, worker, health, answer>>
  BY Known DEF ReceiveHeader, Receives, ClientTransfers, Responses, Order, Live
<1>2. accepted # 0 /\ Segment(s2c, accepted, 0) /\ 0 + Len(s2c) <= ResponseEnd /\ s2c # <<>>
  BY <1>1 DEF From
<1>3. /\ SubSeq(s2c, 1, HDR) \in Seq(Tokens) /\ Len(SubSeq(s2c, 1, HDR)) = HDR
      /\ Segment(SubSeq(s2c, 1, HDR), accepted, 0)
      /\ Drop(s2c, HDR) \in Seq(Tokens) /\ Len(Drop(s2c, HDR)) = Len(s2c) - HDR
      /\ Segment(Drop(s2c, HDR), accepted, 0 + HDR)
  <2>1. HDR \in 0 .. Len(s2c) /\ s2c \in Seq(Tokens)
    BY <1>1, Known
  <2>2. QED BY <1>2, <2>1, SegmentSplit
<1>4. Announced(cbuf \o SubSeq(s2c, 1, k), RLen) = {RLen[accepted]}
  <2>1. cbuf \o SubSeq(s2c, 1, k) = SubSeq(s2c, 1, HDR)
    BY <1>1, <1>3
  <2>2. Announced(SubSeq(s2c, 1, HDR), RLen) = {RLen[accepted]}
    BY <1>1, <1>3, WholeHeader
  <2>3. QED BY <2>1, <2>2
<1>5. CASE HDR + RLen[accepted] > ClientBuf
  <2>1. Return("failed") /\ Close
    BY <1>4, <1>5 DEF ReceiveHeader
  <2>2. Order' /\ cpc' \in {"idle"}
    BY <1>1, <2>1, OrderReturns DEF Returned, Return
  <2>3. QED BY <1>1, <2>1, <2>2, CloseStreams DEF Streams
<1>6. CASE ~(HDR + RLen[accepted] > ClientBuf)
  <2>1. /\ cpc' = "rContent" /\ ct' = Begin(RLen[accepted]) /\ cbuf' = <<>>
        /\ s2c' = Drop(s2c, HDR) /\ UNCHANGED <<sock, status, c2s>>
    BY <1>1, <1>4, <1>6 DEF ReceiveHeader
  <2>2. Order' /\ Runs'
    <3>1. Order'
      BY <1>1, <2>1, Known DEF Order, OwnAnswer
    <3>2. HasRun /\ HasRun' = HasRun
      BY <1>1, <1>2, Known DEF Runs, HasRun, worker
    <3>3. Runs'
      BY <1>1, <3>2, Known DEF Runs, worker
    <3>4. QED BY <3>1, <3>3
  <2>3. WorkerTransfers' /\ ClientTransfers'
    <3>1. WorkerTransfers'
      BY <1>1, <2>1, Known DEF WorkerTransfers, worker
    <3>2. ClientTransfers'
      BY <1>1, <1>2, <2>1, Known DEF ClientTransfers, Begin, Segment
    <3>3. QED BY <3>1, <3>2
  <2>4. Requests'
    BY <1>1, <2>1, Known DEF Requests, RequestEnd, Got, WorkerGone, worker
  <2>5. Responses'
    <3>1. HDR + Len(s2c') = 0 + Len(s2c) /\ 0 + HDR = HDR
      BY <1>1, <1>3, <2>1, Known
    <3>2. UNCHANGED <<Put, ResponseEnd, WorkerGone, accepted>>
      BY <1>1 DEF Put, ResponseEnd, WorkerGone, worker
    <3>3. From(HDR)'
      BY <1>1, <1>2, <1>3, <2>1, <3>1, <3>2 DEF From
    <3>4. HDR + ct'.off = HDR
      BY <1>1, <2>1 DEF Begin
    <3>5. QED BY <1>1, <2>1, <3>3, <3>4 DEF Responses
  <2>6. QED BY <2>2, <2>3, <2>4, <2>5 DEF Streams
<1>7. QED BY <1>5, <1>6

\* What a receiving client has, and has before it.
LEMMA Content ==
  ASSUME IPromise, cpc = "rContent", NEW k \in 1 .. ct.size,
         k <= ct.size - ct.off, k <= Len(s2c)
  PROVE  /\ accepted = n /\ n \in Calls /\ accepted # 0 /\ ct.size = RLen[n]
         /\ ct.size \in Nat \ {0} /\ ct.off \in Nat /\ ct.off < ct.size /\ HDR \in Nat \ {0}
         /\ sock /\ health.state = "NO_READ"
         /\ s2c # <<>> /\ Len(s2c) \in Nat /\ HDR + ct.off + Len(s2c) <= ResponseEnd
         /\ ResponseEnd = HDR + ct.size
         /\ ~WorkerGone => HDR + ct.off + Len(s2c) \in Put
         /\ LET s == cbuf \o SubSeq(s2c, 1, k) IN
              s \in Seq(Tokens) /\ Len(s) = ct.off + k /\ Segment(s, accepted, HDR)
         /\ Drop(s2c, k) \in Seq(Tokens) /\ Len(Drop(s2c, k)) = Len(s2c) - k
         /\ Segment(Drop(s2c, k), accepted, HDR + (ct.off + k))
<1>1. /\ accepted = n /\ n \in Calls /\ accepted # 0 /\ ct.size = RLen[n]
      /\ ct.size \in Nat \ {0} /\ ct.off \in Nat /\ ct.off < ct.size /\ HDR \in Nat \ {0}
      /\ sock /\ health.state = "NO_READ" /\ From(HDR + ct.off)
      /\ Len(cbuf) = ct.off /\ Segment(cbuf, accepted, HDR)
      /\ cbuf \in Seq(Tokens) /\ s2c \in Seq(Tokens) /\ Len(s2c) \in Nat
  <2>1. cpc = "rContent" => accepted = n /\ n \in Calls /\ accepted # 0
    BY Known, CallsAreNat DEF Order, Calls
  <2>2. cpc = "rContent" => sock /\ health.state = "NO_READ"
    BY Known DEF Live, NoRead
  <2>3. cpc = "rContent" => From(HDR + ct.off)
    BY Known DEF Responses
  <2>4. cpc = "rContent" =>
          /\ ct.size = RLen[accepted] /\ ct.off < ct.size
          /\ Len(cbuf) = ct.off /\ Segment(cbuf, accepted, HDR)
    BY Known DEF ClientTransfers
  <2>5. QED BY <2>1, <2>2, <2>3, <2>4, Known
<1>2. /\ s2c # <<>> /\ HDR + ct.off + Len(s2c) <= ResponseEnd /\ HDR + ct.off \in Nat
      /\ ~WorkerGone => HDR + ct.off + Len(s2c) \in Put
      /\ ResponseEnd = HDR + ct.size /\ Segment(s2c, accepted, HDR + ct.off)
  BY <1>1 DEF From, ResponseEnd
<1>3. k \in 0 .. Len(s2c)
  BY <1>1
<1>4. /\ SubSeq(s2c, 1, k) \in Seq(Tokens) /\ Len(SubSeq(s2c, 1, k)) = k
      /\ Segment(SubSeq(s2c, 1, k), accepted, HDR + Len(cbuf))
      /\ Drop(s2c, k) \in Seq(Tokens) /\ Len(Drop(s2c, k)) = Len(s2c) - k
      /\ Segment(Drop(s2c, k), accepted, HDR + ct.off + k)
  <2>1. PICK i \in Nat : i = HDR + ct.off
    BY <1>2
  <2>2. Segment(s2c, accepted, i) /\ s2c \in Seq(Tokens)
    BY <1>1, <1>2, <2>1
  <2>3. /\ SubSeq(s2c, 1, k) \in Seq(Tokens) /\ Len(SubSeq(s2c, 1, k)) = k
        /\ Segment(SubSeq(s2c, 1, k), accepted, i)
        /\ Drop(s2c, k) \in Seq(Tokens) /\ Len(Drop(s2c, k)) = Len(s2c) - k
        /\ Segment(Drop(s2c, k), accepted, i + k)
    BY <1>3, <2>2, SegmentSplit
  <2>4. QED BY <1>1, <2>1, <2>3
<1>5. LET s == cbuf \o SubSeq(s2c, 1, k) IN
        s \in Seq(Tokens) /\ Len(s) = ct.off + k /\ Segment(s, accepted, HDR)
  BY <1>1, <1>4, SegmentConcat
<1>6. HDR + ct.off + k = HDR + (ct.off + k)
  BY <1>1
<1>7. QED BY <1>1, <1>2, <1>4, <1>5, <1>6

LEMMA ReceiveContentPartStreams ==
  ASSUME IPromise, NEW k \in 1 .. ct.size, ReceiveContentPart(k)
  PROVE  Streams'
<1> DEFINE s == cbuf \o SubSeq(s2c, 1, k)
<1>1. /\ cpc = "rContent" /\ k <= ct.size - ct.off /\ k <= Len(s2c)
      /\ UNCHANGED <<n, left, accepted, worker, cpc, sock, health, status, answer, c2s>>
      /\ cbuf' = s /\ s2c' = Drop(s2c, k)
      /\ ct' = Advance(Attempt(ct), k) /\ ~Complete(Advance(ct, k))
  BY DEF ReceiveContentPart, Receives
<1>2. /\ accepted = n /\ n \in Calls /\ accepted # 0 /\ ct.size = RLen[n]
      /\ ct.size \in Nat \ {0} /\ ct.off \in Nat /\ ct.off < ct.size /\ HDR \in Nat \ {0}
      /\ sock /\ health.state = "NO_READ"
      /\ s2c # <<>> /\ Len(s2c) \in Nat /\ HDR + ct.off + Len(s2c) <= ResponseEnd
      /\ ResponseEnd = HDR + ct.size
      /\ ~WorkerGone => HDR + ct.off + Len(s2c) \in Put
      /\ s \in Seq(Tokens) /\ Len(s) = ct.off + k /\ Segment(s, accepted, HDR)
      /\ Drop(s2c, k) \in Seq(Tokens) /\ Len(Drop(s2c, k)) = Len(s2c) - k
      /\ Segment(Drop(s2c, k), accepted, HDR + (ct.off + k))
  BY <1>1, Content
<1> HIDE DEF s
<1>3. ct'.size = ct.size /\ ct'.off = ct.off + k /\ ct.off + k < ct.size
  <2>1. IsTransfer(ct, Nat, ClientRetries)
    BY Known DEF TypeOK
  <2>2. /\ Complete(Advance(ct, k)) <=> ct.off + k = ct.size
        /\ Advance(Attempt(ct), k).size = ct.size /\ Advance(Attempt(ct), k).off = ct.off + k
    BY <2>1, Progress
  <2>3. ct.off + k < ct.size
    <3>1. /\ ct.size \in Nat /\ ct.off \in Nat /\ k \in Nat
          /\ k <= ct.size - ct.off /\ ct.off + k # ct.size
      BY <1>1, <1>2, <2>2
    <3>2. QED BY <3>1, NotAll
  <2>4. QED BY <1>1, <2>2, <2>3
<1>4. Order' /\ Runs'
  BY <1>1, <1>2, Known DEF Order, OwnAnswer, Runs, HasRun, worker
<1>5. WorkerTransfers' /\ ClientTransfers'
  BY <1>1, <1>2, <1>3, Known DEF WorkerTransfers, ClientTransfers, worker
<1>6. Requests'
  BY <1>1, Known DEF Requests, RequestEnd, Got, WorkerGone, worker
<1>7. Responses'
  <2>1. HDR + ct'.off + Len(s2c') = HDR + ct.off + Len(s2c)
    BY <1>1, <1>2, <1>3
  <2>2. UNCHANGED <<Put, ResponseEnd, WorkerGone, accepted>>
    BY <1>1 DEF Put, ResponseEnd, WorkerGone, worker
  <2>3. From(HDR + ct.off)'
    BY <1>1, <1>2, <1>3, <2>1, <2>2 DEF From
  <2>4. QED BY <1>1, <1>2, <2>3 DEF Responses
<1>8. QED BY <1>4, <1>5, <1>6, <1>7 DEF Streams

\* The last byte: the content is the call's own, and the connection is quiet again.
LEMMA ReceiveContentStreams ==
  ASSUME IPromise, NEW k \in 1 .. ct.size, ReceiveContent(k)
  PROVE  Streams'
<1> DEFINE s == cbuf \o SubSeq(s2c, 1, k)
<1>1. /\ cpc = "rContent" /\ k <= ct.size - ct.off /\ k <= Len(s2c)
      /\ UNCHANGED <<n, left, accepted, worker, sock, health, ct, cbuf, c2s>>
      /\ answer' = [answer EXCEPT ![n] = Decoded(s, RLen)]
      /\ Return(IF Decoded(s, RLen) = 0 THEN "garbled" ELSE "answered")
      /\ s2c' = Drop(s2c, k) /\ Complete(Advance(ct, k))
  BY DEF ReceiveContent, Receives
<1>2. /\ accepted = n /\ n \in Calls /\ accepted # 0 /\ ct.size = RLen[n]
      /\ ct.size \in Nat \ {0} /\ ct.off \in Nat /\ ct.off < ct.size /\ HDR \in Nat \ {0}
      /\ sock /\ health.state = "NO_READ"
      /\ s2c # <<>> /\ Len(s2c) \in Nat /\ HDR + ct.off + Len(s2c) <= ResponseEnd
      /\ ResponseEnd = HDR + ct.size
      /\ ~WorkerGone => HDR + ct.off + Len(s2c) \in Put
      /\ s \in Seq(Tokens) /\ Len(s) = ct.off + k /\ Segment(s, accepted, HDR)
      /\ Drop(s2c, k) \in Seq(Tokens) /\ Len(Drop(s2c, k)) = Len(s2c) - k
      /\ Segment(Drop(s2c, k), accepted, HDR + (ct.off + k))
  BY <1>1, Content
<1> HIDE DEF s
<1>3. ct.off + k = ct.size
  <2>1. IsTransfer(ct, Nat, ClientRetries)
    BY Known DEF TypeOK
  <2>2. QED BY <1>1, <2>1, Progress
<1>4. Decoded(s, RLen) = n
  BY <1>2, <1>3, WholeContent, LengthsAssumption
<1>5. Return("answered") /\ answer' = [answer EXCEPT ![n] = n]
  BY <1>1, <1>2, <1>4
<1>6. Order'
  BY <1>1, <1>5, OrderReturns DEF Returned
<1>7. Len(s2c) = k /\ s2c' = <<>> /\ HDR + ct.off + Len(s2c) = ResponseEnd
  <2>1. /\ HDR \in Nat /\ ct.off \in Nat /\ ct.size \in Nat /\ Len(s2c) \in Nat /\ k \in Nat
        /\ k <= Len(s2c) /\ HDR + ct.off + Len(s2c) <= HDR + ct.size /\ ct.off + k = ct.size
    BY <1>1, <1>2, <1>3
  <2>2. Len(s2c) = k
    BY <2>1
  <2>3. HDR + ct.off + Len(s2c) = HDR + ct.size
    BY <2>1, <2>2
  <2>4. s2c' = <<>>
    BY <1>1, <1>2, <2>2
  <2>5. QED BY <1>2, <2>2, <2>3, <2>4
<1>8. spc \in {"pending", "gone"} /\ c2s = <<>>
  <2>1. From(HDR + ct.off)
    BY <1>1, Known DEF Responses
  <2>2. HDR + ct.off \in Nat
    <3>1. HDR \in Nat /\ ct.off \in Nat
      BY <1>2
    <3>2. QED BY <3>1
  <2>3. QED BY <1>7, <2>1, <2>2, AllReadIsQuiet
<1>9. Runs' /\ WorkerTransfers' /\ ClientTransfers'
  BY <1>1, <1>2, <1>5, <1>7, Known
     DEF Runs, HasRun, WorkerTransfers, ClientTransfers, worker, Return
<1>10. Requests'
  BY <1>1, <1>5, <1>8, Known DEF Requests, RequestEnd, Got, WorkerGone, worker, Return
<1>11. Responses'
  BY <1>1, <1>2, <1>5, <1>7, <1>8 DEF Responses, Quiet, worker, Return
<1>12. QED BY <1>6, <1>9, <1>10, <1>11 DEF Streams

\* A response that is not read is left to the next check, which knows at most as much of
\* it to be read as has been.
LEMMA ReceiveFailsStreams ==
  ASSUME IPromise, ReceiveHeaderFails \/ ReceiveContentFails
  PROVE  Streams'
<1>1. /\ cpc \in {"rHeader", "rContent"} /\ Return("failed") /\ cpc' = "idle"
      /\ UNCHANGED <<n, sock, left, ct, cbuf, answer, accepted, worker, c2s, s2c>>
  BY DEF ReceiveHeaderFails, ReceiveContentFails, Return
<1>2. Order'
  BY <1>1, OrderReturns DEF Returned
<1>3. Runs' /\ WorkerTransfers' /\ ClientTransfers'
  BY <1>1, Known DEF Runs, HasRun, WorkerTransfers, ClientTransfers, worker
<1>4. Requests'
  BY <1>1, Known DEF Requests, RequestEnd, Got, WorkerGone, worker
<1>5. UNCHANGED <<Put, ResponseEnd, WorkerGone>>
  BY <1>1 DEF Put, ResponseEnd, WorkerGone, worker
<1>6. \A i \in Nat : From(i) => From(i)'
  BY <1>1, <1>5 DEF From
<1>7. CASE ReceiveHeaderFails
  <2>1. cpc = "rHeader" /\ ct.off = 0 /\ From(0)
    BY <1>7, Known DEF ReceiveHeaderFails, ClientTransfers, Responses
  <2>2. health' = [state |-> "HEADER_READ_SOME", some |-> 0, content |-> 0]
    BY <1>7, <2>1 DEF ReceiveHeaderFails, Shortfall, ResultWhenExhausted
  <2>3. Responses'
    BY <1>1, <1>6, <2>1, <2>2, Known DEF Responses
  <2>4. QED BY <1>2, <1>3, <1>4, <2>3 DEF Streams
<1>8. CASE ReceiveContentFails
  <2>1. /\ cpc = "rContent" /\ ct.size = RLen[accepted] /\ From(HDR + ct.off) /\ accepted # 0
        /\ ct.off \in Nat /\ HDR \in Nat /\ HDR + ct.off + Len(s2c) <= ResponseEnd
        /\ Len(s2c) \in Nat /\ ResponseEnd \in Nat
    BY <1>8, Known DEF ReceiveContentFails, ClientTransfers, Responses, From
  <2>2. PICK some \in {-1, ct.off} :
           health' = [state |-> "CONTENT_READ_SOME",
                      some |-> IF some < 0 THEN 0 ELSE some, content |-> ct.size]
    BY <1>8 DEF ReceiveContentFails, Shortfall, ResultWhenExhausted
  <2>3. health'.some \in 0 .. ct.off /\ health'.content = RLen[accepted]
        /\ health'.state = "CONTENT_READ_SOME"
    BY <2>1, <2>2
  <2>4. PICK i \in Nat : i = HDR + ct.off
    BY <2>1
  <2>5. i \in HDR + health'.some .. ResponseEnd'
    BY <1>5, <2>1, <2>3, <2>4
  <2>6. From(i)'
    BY <1>6, <2>1, <2>4
  <2>7. Responses'
    <3>1. ~sock' => s2c' = <<>>
      BY <1>1, Known DEF Responses
    <3>2. QED BY <1>1, <2>1, <2>3, <2>5, <2>6, <3>1 DEF Responses
  <2>8. QED BY <1>2, <1>3, <1>4, <2>7 DEF Streams
<1>9. QED BY <1>7, <1>8

\* What needs a header in parts, or a frame without a content, does not happen.
LEMMA NeverStreams ==
  ASSUME IPromise, ~SplitResponse,
         ReceiveNothing \/ \E k \in 1 .. HDR : ReceiveHeaderPart(k)
  PROVE  Streams'
  BY Known DEF ReceiveNothing, ReceiveHeaderPart, ClientTransfers, Order, LengthsAssumption

-----------------------------------------------------------------------------
(* The worker.                                                               *)

\* What the client knows of the stream to it is still true where every byte stays in its place.
LEMMA ResponsesKept ==
  ASSUME IPromise, UNCHANGED client,
         ~sock => s2c' = <<>>,
         cpc = "wContent" => s2c' = <<>>,
         sock => (Quiet => Quiet') /\ \A i \in Nat : From(i) => From(i)'
  PROVE  Responses'
<1>1. UNCHANGED <<cpc, sock, health, ct, accepted, ResponseEnd>>
  BY DEF client, ResponseEnd
<1>2. CASE ~sock
  BY <1>1, <1>2, Known DEF Responses, Live, TypeOK, ClientAt
<1>3. CASE sock /\ cpc = "rContent"
  <2>1. PICK i \in Nat : i = HDR + ct.off
    BY Known
  <2>2. From(i)'
    BY <1>3, <2>1, Known DEF Responses
  <2>3. QED BY <1>1, <1>3, <2>1, <2>2 DEF Responses
<1>4. CASE sock /\ cpc \in {"rHeader", "wHeader", "wContent", "overrun"}
  <2>1. cpc = "rHeader" => From(0)'
    BY <1>4, Known DEF Responses
  <2>2. QED BY <1>1, <1>4, <2>1, Known DEF Responses
<1>5. CASE sock /\ cpc \in {"idle", "check"} /\ health.state = "CONTENT_READ_SOME"
  <2>1. PICK i \in HDR + health.some .. ResponseEnd : From(i)
    BY <1>5, Known DEF Responses
  <2>2. i \in Nat /\ accepted # 0 /\ health.content = RLen[accepted]
    <3>1. accepted # 0 /\ health.content = RLen[accepted]
      BY <1>5, Known DEF Responses
    <3>2. HDR \in Nat /\ health.some \in Nat /\ ResponseEnd \in Nat
      BY <3>1, Known, Parts DEF IPromise
    <3>3. i \in Nat
      BY <2>1, <3>2
    <3>4. QED BY <3>1, <3>3
  <2>3. From(i)' /\ i \in HDR + health'.some .. ResponseEnd'
    BY <1>1, <1>5, <2>1, <2>2
  <2>4. QED BY <1>1, <1>5, <2>2, <2>3 DEF Responses
<1>6. CASE sock /\ cpc \in {"idle", "check"} /\ health.state # "CONTENT_READ_SOME"
  <2>1. health.state = "HEADER_READ_SOME" => health.some = 0 /\ From(0)'
    BY <1>6, Known DEF Responses
  <2>2. QED BY <1>1, <1>6, <2>1, Known DEF Responses
<1>7. QED BY <1>2, <1>3, <1>4, <1>5, <1>6, Known DEF TypeOK, ClientAt

\* A server that leaves loses what was on the way to it, and some of what it has sent.
LEMMA LeaveStreams ==
  ASSUME IPromise, Leave, UNCHANGED <<client, st, sbuf, request, executed>>
  PROVE  Streams'
<1>1. spc' = "gone" /\ c2s' = <<>> /\ s2c' \in Cut(s2c, c2s # <<>>)
  BY DEF Leave
<1>2. Order' /\ ClientTransfers'
  BY Known DEF Order, OwnAnswer, ClientTransfers, client
<1>3. s2c' # <<>> => s2c # <<>>
  BY <1>1, Known DEF Cut
<1>4. Runs' /\ WorkerTransfers' /\ Requests'
  BY <1>1, <1>3, Known DEF Runs, HasRun, WorkerTransfers, Requests, WorkerGone, client
<1>5. ASSUME NEW i \in Nat, From(i) PROVE From(i)'
  <2>1. accepted # 0 /\ Segment(s2c, accepted, i) /\ i + Len(s2c) <= ResponseEnd
    BY <1>5 DEF From
  <2>2. s2c' \in Seq(Tokens) /\ Len(s2c') <= Len(s2c) /\ Segment(s2c', accepted, i)
    <3>1. s2c \in Seq(Tokens) /\ (c2s # <<>>) \in BOOLEAN
      BY Known
    <3>2. QED BY <1>1, <2>1, <3>1, SegmentCut
  <2>3. i + Len(s2c') <= ResponseEnd /\ ResponseEnd' = ResponseEnd
    <3>1. Len(s2c) \in Nat /\ Len(s2c') \in Nat /\ ResponseEnd \in Nat
      BY <2>1, <2>2, Known
    <3>2. i + Len(s2c') <= ResponseEnd
      BY <2>1, <2>2, <3>1
    <3>3. ResponseEnd' = ResponseEnd
      BY DEF ResponseEnd, client
    <3>4. QED BY <3>2, <3>3
  <2>4. QED BY <1>1, <2>1, <2>2, <2>3 DEF From, WorkerGone, client
<1>6. Responses'
  <2>1. Quiet => Quiet'
    BY <1>1, <1>3 DEF Quiet
  <2>2. (~sock => s2c' = <<>>) /\ (cpc = "wContent" => s2c' = <<>>)
    BY <1>3, Known DEF Responses
  <2>3. QED BY <1>5, <2>1, <2>2, ResponsesKept
<1>7. QED BY <1>2, <1>4, <1>6 DEF Streams

\* What a step of the worker that leaves the stream to the client alone has to keep.
LEMMA WorkerSteps ==
  ASSUME IPromise, UNCHANGED <<client, s2c>>, UNCHANGED WorkerGone,
         sock => Put \subseteq Put' /\ (Quiet => Quiet')
  PROVE  Order' /\ ClientTransfers' /\ Responses'
<1>1. Order' /\ ClientTransfers'
  BY Known DEF Order, OwnAnswer, ClientTransfers, client
<1>2. sock => \A i \in Nat : From(i) => From(i)'
  <2>1. ASSUME sock, NEW i \in Nat, From(i) PROVE From(i)'
    <3>1. /\ Put \subseteq Put' /\ WorkerGone' = WorkerGone
          /\ accepted' = accepted /\ s2c' = s2c /\ ResponseEnd' = ResponseEnd
      BY <2>1 DEF client, ResponseEnd
    <3>2. QED BY <2>1, <3>1 DEF From
  <2>2. QED BY <2>1
<1>3. (~sock => s2c' = <<>>) /\ (cpc = "wContent" => s2c' = <<>>)
  BY Known DEF Responses
<1>4. Responses'
  BY <1>2, <1>3, ResponsesKept
<1>5. QED BY <1>1, <1>4

\* Bytes are there only if the last request has not been taken yet.
LEMMA Unread ==
  ASSUME IPromise, ~WorkerGone, c2s # <<>>
  PROVE  accepted # 0 /\ request # accepted
<1>1. accepted # 0
  BY Known DEF Requests
<1>2. CASE request = accepted
  <2>1. Got = RequestEnd /\ Got + Len(c2s) <= RequestEnd
    BY <1>1, <1>2, Known DEF Requests, Got
  <2>2. Len(c2s) = 0
    BY <1>1, <2>1, Known
  <2>3. QED BY <2>2, Known
<1>3. QED BY <1>1, <1>2

LEMMA PendingEndsStreams ==
  ASSUME IPromise, PendingEnds
  PROVE  Streams'
<1>1. /\ spc = "pending" /\ (c2s # <<>> \/ ~sock) /\ ~WorkerGone
      /\ spc' = "rHeader" /\ st' = Begin(HDR) /\ sbuf' = <<>>
      /\ UNCHANGED <<client, request, executed, c2s, s2c>>
  BY DEF PendingEnds, Readable, WorkerGone
<1>2. c2s # <<>> => accepted # 0 /\ request # accepted
  BY <1>1, Unread
<1>3. Order' /\ ClientTransfers' /\ Responses'
  <2>1. sock => Put \subseteq Put' /\ ~Quiet
    BY <1>1, <1>2 DEF Put, Quiet, client
  <2>2. QED BY <1>1, <2>1, WorkerSteps DEF WorkerGone
<1>4. Runs' /\ WorkerTransfers'
  BY <1>1, <1>2, Known DEF Runs, HasRun, WorkerTransfers, client, Begin, Segment
<1>5. Requests'
  <2>1. Got' = Got /\ RequestEnd' = RequestEnd
    BY <1>1 DEF Got, RequestEnd, client, Begin
  <2>2. QED BY <1>1, <2>1, Known DEF Requests, WorkerGone, client
<1>6. QED BY <1>3, <1>4, <1>5 DEF Streams

\* What a worker that reads has, and has before it.
LEMMA Incoming ==
  ASSUME IPromise, spc \in {"rHeader", "rContent"}, NEW k \in 1 .. st.size,
         k <= st.size - st.off, k <= Len(c2s)
  PROVE  /\ accepted \in Calls /\ accepted # 0 /\ request # accepted /\ ~WorkerGone
         /\ st.size \in Nat /\ st.off \in Nat /\ HDR \in Nat \ {0}
         /\ st.size = IF spc = "rHeader" THEN HDR ELSE QLen[accepted]
         /\ Got = (IF spc = "rHeader" THEN 0 ELSE HDR) + st.off
         /\ Len(c2s) \in Nat /\ Got + Len(c2s) <= RequestEnd
         /\ cpc # "wHeader" /\ ~Quiet
         /\ LET s == sbuf \o SubSeq(c2s, 1, k) IN
              /\ s \in Seq(Tokens) /\ Len(s) = st.off + k
              /\ Segment(s, accepted, IF spc = "rHeader" THEN 0 ELSE HDR)
         /\ Drop(c2s, k) \in Seq(Tokens) /\ Len(Drop(c2s, k)) = Len(c2s) - k
         /\ Segment(Drop(c2s, k), accepted, Got + k)
<1> DEFINE base == IF spc = "rHeader" THEN 0 ELSE HDR
<1>1. c2s # <<>> /\ k \in 0 .. Len(c2s) /\ ~WorkerGone
  BY Known DEF WorkerGone
<1>2. accepted # 0 /\ request # accepted
  BY <1>1, Unread
<1>3. /\ accepted \in Calls /\ st.size \in Nat /\ st.off \in Nat /\ HDR \in Nat \ {0}
      /\ base \in Nat /\ Got \in Nat /\ Len(c2s) \in Nat
      /\ sbuf \in Seq(Tokens) /\ c2s \in Seq(Tokens)
  BY <1>2, Known
<1>4. /\ st.size = IF spc = "rHeader" THEN HDR ELSE QLen[accepted]
      /\ Got = base + st.off /\ Got + Len(c2s) <= RequestEnd
      /\ Segment(c2s, accepted, Got)
      /\ Len(sbuf) = st.off /\ Segment(sbuf, accepted, base)
  <2>1. /\ st.size = IF spc = "rHeader" THEN HDR ELSE QLen[accepted]
        /\ Len(sbuf) = st.off /\ Segment(sbuf, accepted, base)
    BY <1>2, Known DEF WorkerTransfers
  <2>2. Got = base + st.off
    BY <1>2, <1>3 DEF Got
  <2>3. Got + Len(c2s) <= RequestEnd /\ Segment(c2s, accepted, Got)
    BY <1>1, <1>2, Known DEF Requests
  <2>4. QED BY <2>1, <2>2, <2>3
<1>5. cpc # "wHeader" /\ ~Quiet
  BY <1>1, Known DEF Responses, Quiet
<1> HIDE DEF base
<1>6. /\ SubSeq(c2s, 1, k) \in Seq(Tokens) /\ Len(SubSeq(c2s, 1, k)) = k
      /\ Segment(SubSeq(c2s, 1, k), accepted, base + Len(sbuf))
      /\ Drop(c2s, k) \in Seq(Tokens) /\ Len(Drop(c2s, k)) = Len(c2s) - k
      /\ Segment(Drop(c2s, k), accepted, Got + k)
  <2>1. base + Len(sbuf) = Got
    BY <1>4
  <2>2. /\ SubSeq(c2s, 1, k) \in Seq(Tokens) /\ Len(SubSeq(c2s, 1, k)) = k
        /\ Segment(SubSeq(c2s, 1, k), accepted, Got)
        /\ Drop(c2s, k) \in Seq(Tokens) /\ Len(Drop(c2s, k)) = Len(c2s) - k
        /\ Segment(Drop(c2s, k), accepted, Got + k)
    <3>1. c2s \in Seq(Tokens) /\ Got \in Nat /\ k \in 0 .. Len(c2s) /\ Segment(c2s, accepted, Got)
      BY <1>1, <1>3, <1>4
    <3>2. QED BY <3>1, SegmentSplit
  <2>3. QED BY <2>1, <2>2
<1>7. LET s == sbuf \o SubSeq(c2s, 1, k) IN
        s \in Seq(Tokens) /\ Len(s) = st.off + k /\ Segment(s, accepted, base)
  BY <1>3, <1>4, <1>6, SegmentConcat
<1>8. QED BY <1>1, <1>2, <1>3, <1>4, <1>5, <1>6, <1>7 DEF base

WorkerReadStep(k) == WorkerReadsPart(k) \/ WorkerReadsHeader(k) \/ WorkerReadsContent(k)

\* The worker takes bytes of the last accepted request and of no other.
LEMMA WorkerReadsStreams ==
  ASSUME IPromise, NEW k \in 1 .. st.size, WorkerReadStep(k)
  PROVE  Streams'
<1> DEFINE s == sbuf \o SubSeq(c2s, 1, k)
<1>1. /\ spc \in {"rHeader", "rContent"} /\ k <= st.size - st.off /\ k <= Len(c2s)
      /\ c2s' = Drop(c2s, k) /\ UNCHANGED <<client, executed, s2c>>
  BY DEF WorkerReadStep, WorkerReadsPart, WorkerReadsHeader, WorkerReadsContent, WorkerReads
<1>2. /\ accepted \in Calls /\ accepted # 0 /\ request # accepted /\ ~WorkerGone
      /\ st.size \in Nat /\ st.off \in Nat /\ HDR \in Nat \ {0}
      /\ st.size = IF spc = "rHeader" THEN HDR ELSE QLen[accepted]
      /\ Got = (IF spc = "rHeader" THEN 0 ELSE HDR) + st.off
      /\ Len(c2s) \in Nat /\ Got + Len(c2s) <= RequestEnd
      /\ cpc # "wHeader" /\ ~Quiet
      /\ s \in Seq(Tokens) /\ Len(s) = st.off + k
      /\ Segment(s, accepted, IF spc = "rHeader" THEN 0 ELSE HDR)
      /\ Drop(c2s, k) \in Seq(Tokens) /\ Len(Drop(c2s, k)) = Len(c2s) - k
      /\ Segment(Drop(c2s, k), accepted, Got + k)
  BY <1>1, Incoming
<1> HIDE DEF s
<1>3. /\ Complete(Advance(st, k)) <=> st.off + k = st.size
      /\ Advance(Attempt(st), k).size = st.size /\ Advance(Attempt(st), k).off = st.off + k
  <2>1. IsTransfer(st, Nat, ServerRetries)
    BY Known DEF TypeOK
  <2>2. QED BY <2>1, Progress
<1>4. /\ QLen[accepted] \in Nat \ {0} /\ RequestEnd = HDR + QLen[accepted] /\ Put = {0}
  BY <1>1, <1>2, Known DEF RequestEnd, Put
<1>5. \/ /\ spc' = spc /\ request' = request /\ sbuf' = s
         /\ st'.size = st.size /\ st'.off = st.off + k /\ st.off + k < st.size
      \/ /\ spc = "rHeader" /\ spc' = "rContent" /\ request' = request /\ sbuf' = <<>>
         /\ st'.size = QLen[accepted] /\ st'.off = 0 /\ st.off + k = st.size
      \/ /\ spc = "rContent" /\ spc' = "decoded" /\ request' = accepted
         /\ st.off + k = st.size
  <2>1. CASE WorkerReadsPart(k)
    <3>1. /\ UNCHANGED <<spc, request>> /\ sbuf' = s /\ st' = Advance(Attempt(st), k)
          /\ ~Complete(Advance(st, k))
      BY <2>1 DEF WorkerReadsPart, s
    <3>2. st.off + k < st.size
      <4>1. /\ st.off + k # st.size /\ k <= st.size - st.off /\ k \in Nat
            /\ st.size \in Nat /\ st.off \in Nat
        BY <1>1, <1>2, <1>3, <3>1
      <4>2. QED BY <4>1, NotAll
    <3>3. QED BY <1>3, <3>1, <3>2
  <2>2. CASE WorkerReadsHeader(k)
    <3>1. spc = "rHeader" /\ Announced(s, QLen) = {QLen[accepted]} /\ st.off + k = st.size
      BY <1>2, <1>3, <2>2, WholeHeader DEF WorkerReadsHeader
    <3>2. spc' = "rContent" /\ request' = request /\ sbuf' = <<>> /\ st' = Begin(QLen[accepted])
      BY <2>2, <3>1 DEF WorkerReadsHeader, s
    <3>3. QED BY <3>1, <3>2 DEF Begin
  <2>3. CASE WorkerReadsContent(k)
    <3>1. spc = "rContent" /\ Decoded(s, QLen) = accepted /\ st.off + k = st.size
      BY <1>2, <1>3, <2>3, WholeContent, LengthsAssumption DEF WorkerReadsContent
    <3>2. QED BY <2>3, <3>1 DEF WorkerReadsContent, s
  <2>4. QED BY <2>1, <2>2, <2>3 DEF WorkerReadStep
<1>6. accepted' = accepted /\ spc' \notin {"gone", "pending", "wHeader", "wContent", "answering"}
  BY <1>1, <1>5 DEF client
<1>7. Order' /\ ClientTransfers' /\ Responses'
  <2>1. Put' = {0}
    BY <1>6 DEF Put
  <2>2. WorkerGone' = WorkerGone
    BY <1>2, <1>6 DEF WorkerGone
  <2>3. QED BY <1>1, <1>2, <1>4, <2>1, <2>2, WorkerSteps
<1>8. Runs'
  <2>1. ~HasRun /\ HasRun' = HasRun /\ s2c = <<>> /\ cpc # "rContent"
    BY <1>1, <1>2, Known DEF Runs, HasRun, client
  <2>2. request' \in {request, accepted} /\ (spc' = "decoded" <=> request' = accepted)
    BY <1>1, <1>2, <1>5
  <2>3. UNCHANGED <<executed, cpc, s2c, accepted>>
    BY <1>1 DEF client
  <2>4. request' <= accepted'
    <3>1. request <= accepted /\ accepted \in Nat
      BY Known DEF Runs
    <3>2. QED BY <2>2, <2>3, <3>1
  <2>5. \A i \in DOMAIN executed' : executed'[i] <= accepted'
    BY <2>3, Known DEF Runs
  <2>6. QED BY <1>2, <1>6, <2>1, <2>2, <2>3, <2>4, <2>5 DEF Runs
<1>9. WorkerTransfers' /\ Got' = Got + k
  <2>1. accepted' = accepted /\ QLen[accepted] \in Nat \ {0} /\ k \in Nat
    BY <1>4, <1>6
  <2>2. CASE /\ spc' = spc /\ request' = request /\ sbuf' = s
             /\ st'.size = st.size /\ st'.off = st.off + k /\ st.off + k < st.size
    <3>1. WorkerTransfers'
      BY <1>1, <1>2, <2>1, <2>2 DEF WorkerTransfers
    <3>2. CASE spc = "rHeader"
      <4>1. Got = 0 + st.off
        BY <1>2, <3>2
      <4>2. request' # accepted' /\ spc' = "rHeader"
        BY <1>2, <2>1, <2>2, <3>2
      <4>3. Got' = st'.off
        BY <4>2 DEF Got
      <4>4. Got' = st.off + k /\ st.off \in Nat /\ k \in Nat
        BY <1>2, <2>1, <2>2, <4>3
      <4>5. QED BY <3>1, <4>1, <4>4
    <3>3. CASE spc = "rContent"
      <4>1. Got = HDR + st.off
        BY <1>2, <3>3
      <4>2. request' # accepted' /\ spc' = "rContent"
        BY <1>2, <2>1, <2>2, <3>3
      <4>3. Got' = HDR + st'.off
        BY <4>2 DEF Got
      <4>4. Got' = HDR + (st.off + k) /\ HDR \in Nat /\ st.off \in Nat /\ k \in Nat
        BY <1>2, <2>1, <2>2, <4>3
      <4>5. QED BY <3>1, <4>1, <4>4
    <3>4. QED BY <1>1, <3>1, <3>2, <3>3
  <2>3. CASE /\ spc = "rHeader" /\ spc' = "rContent" /\ request' = request /\ sbuf' = <<>>
             /\ st'.size = QLen[accepted] /\ st'.off = 0 /\ st.off + k = st.size
    <3>1. WorkerTransfers'
      BY <1>2, <2>1, <2>3 DEF WorkerTransfers, Segment
    <3>2. Got' = HDR + 0 /\ Got = 0 + st.off
      BY <1>2, <2>1, <2>3 DEF Got
    <3>3. QED BY <1>2, <2>1, <2>3, <3>1, <3>2
  <2>4. CASE /\ spc = "rContent" /\ spc' = "decoded" /\ request' = accepted
             /\ st.off + k = st.size
    <3>1. WorkerTransfers'
      BY <2>1, <2>4 DEF WorkerTransfers
    <3>2. Got' = HDR + QLen[accepted] /\ Got = HDR + st.off
      BY <1>2, <2>1, <2>4 DEF Got, RequestEnd
    <3>3. st.size = QLen[accepted] /\ HDR \in Nat /\ st.off \in Nat /\ k \in Nat
      BY <1>2, <2>1, <2>4
    <3>4. Got' = HDR + (st.off + k)
      BY <2>4, <3>2, <3>3
    <3>5. Got' = Got + k
      BY <3>2, <3>3, <3>4
    <3>6. QED BY <3>1, <3>5
  <2>5. QED BY <1>5, <2>2, <2>3, <2>4
<1>10. Requests'
  <2>1. Got' + Len(c2s') = Got + Len(c2s)
    <3>1. Got \in Nat /\ k \in Nat
      BY <1>2, Known
    <3>2. QED BY <1>1, <1>2, <1>9, <3>1
  <2>2. RequestEnd' = RequestEnd /\ Segment(c2s', accepted, Got') /\ ~WorkerGone'
    BY <1>1, <1>2, <1>6, <1>9 DEF RequestEnd, WorkerGone
  <2>3. QED BY <1>1, <1>2, <1>6, <2>1, <2>2, Known DEF Requests, client
<1>11. QED BY <1>7, <1>8, <1>9, <1>10 DEF Streams

LEMMA WorkerIdlesStreams ==
  ASSUME IPromise, WorkerIdles
  PROVE  Streams'
<1>1. /\ spc \in {"rHeader", "rContent", "wHeader", "wContent"}
      /\ st'.size = st.size /\ st'.off = st.off
      /\ UNCHANGED <<client, spc, sbuf, request, executed, c2s, s2c>>
  <2>1. IsTransfer(st, Nat, ServerRetries) /\ ~Exhausted(st, ServerRetries) /\ st' = Attempt(st)
    BY Known DEF WorkerIdles, TypeOK
  <2>2. st'.size = st.size /\ st'.off = st.off
    BY <2>1, AttemptIsTransfer, CountsAssumption
  <2>3. QED BY <2>2 DEF WorkerIdles
<1>2. Order' /\ ClientTransfers' /\ Responses'
  <2>1. Put' = Put /\ Quiet' = Quiet /\ WorkerGone' = WorkerGone
    BY <1>1 DEF Put, ResponseEnd, Quiet, WorkerGone, client
  <2>2. QED BY <1>1, <2>1, WorkerSteps
<1>3. Runs' /\ WorkerTransfers'
  BY <1>1, Known DEF Runs, HasRun, WorkerTransfers, client
<1>4. Requests'
  BY <1>1, Known DEF Requests, Got, RequestEnd, WorkerGone, client
<1>5. QED BY <1>2, <1>3, <1>4 DEF Streams

Answers == RequestDropped \/ RunRequest \/ ResponseDropped \/ StartResponse

\* Between the request and the response the worker moves no byte.
LEMMA AnswersStreams ==
  ASSUME IPromise, Answers
  PROVE  Streams'
<1>1. /\ spc \in {"decoded", "answering"} /\ request = accepted /\ request # 0
      /\ UNCHANGED <<client, sbuf, request, c2s, s2c>>
      /\ spc' \in {"pending", "answering", "wHeader"}
  BY Known DEF Answers, RequestDropped, RunRequest, ResponseDropped, StartResponse, Runs
<1>2. \/ spc = "decoded" /\ spc' = "answering" /\ executed' = Append(executed, accepted) /\ st' = st
      \/ spc' = "pending" /\ executed' = executed /\ st' = st
      \/ spc = "answering" /\ spc' = "wHeader" /\ executed' = executed /\ st' = Begin(HDR)
  BY <1>1 DEF Answers, RequestDropped, RunRequest, ResponseDropped, StartResponse
<1>3. Order' /\ ClientTransfers' /\ Responses'
  <2>1. Put = {0} /\ 0 \in Put' /\ ~Quiet /\ ~WorkerGone /\ ~WorkerGone'
    BY <1>1, <1>2 DEF Put, Quiet, WorkerGone, Begin, client
  <2>2. Put \subseteq Put'
    BY <2>1
  <2>3. WorkerGone' = WorkerGone
    BY <1>1 DEF WorkerGone
  <2>4. QED BY <1>1, <2>1, <2>2, <2>3, WorkerSteps
<1>4. Runs'
  <2>1. /\ executed \in Seq(Calls) /\ \A i \in DOMAIN executed : executed[i] <= accepted
        /\ spc = "answering" => HasRun
    BY Known DEF Runs, TypeOK
  <2>2. CASE executed' = Append(executed, accepted) /\ spc' = "answering"
    <3>1. /\ DOMAIN executed' = 1 .. Len(executed) + 1 /\ executed'[Len(executed) + 1] = accepted
          /\ \A i \in 1 .. Len(executed) : executed'[i] = executed[i]
      BY <2>1, <2>2
    <3>2. \A i \in DOMAIN executed' : executed'[i] <= accepted
      <4>1. ASSUME NEW i \in 1 .. Len(executed) + 1 PROVE executed'[i] <= accepted
        <5>1. CASE i \in 1 .. Len(executed)
          BY <2>1, <3>1, <5>1
        <5>2. CASE i = Len(executed) + 1
          BY <3>1, <5>2, Known
        <5>3. QED BY <2>1, <5>1, <5>2
      <4>2. QED BY <3>1, <4>1
    <3>3. \E i \in DOMAIN executed' : executed'[i] = accepted
      BY <2>1, <3>1
    <3>4. QED BY <1>1, <2>2, <3>2, <3>3, Known DEF Runs, HasRun, client
  <2>3. CASE executed' = executed /\ spc' \in {"pending", "wHeader"}
    <3>1. UNCHANGED <<accepted, s2c, cpc>> /\ HasRun' = HasRun /\ request' = request
      BY <1>1, <2>3 DEF HasRun, client
    <3>2. spc' = "wHeader" => HasRun
      BY <1>2, <2>1, <2>3
    <3>3. cpc = "rContent" \/ s2c # <<>> => HasRun
      BY Known DEF Runs
    <3>4. request' <= accepted' /\ \A i \in DOMAIN executed' : executed'[i] <= accepted'
      BY <2>1, <2>3, <3>1, Known DEF Runs
    <3>5. QED BY <1>1, <2>3, <3>1, <3>2, <3>3, <3>4 DEF Runs
  <2>4. QED BY <1>1, <1>2, <2>2, <2>3
<1>5. WorkerTransfers'
  <2>1. spc' = "wHeader" => st' = Begin(HDR) /\ 0 < HDR
    BY <1>1, <1>2, Known
  <2>2. QED BY <1>1, <2>1 DEF WorkerTransfers, Begin
<1>6. Requests'
  BY <1>1, <1>2, Known DEF Requests, Got, RequestEnd, WorkerGone, client
<1>7. QED BY <1>3, <1>4, <1>5, <1>6 DEF Streams

WorkerWriteStep(k) == WorkerWritesHeader(k) \/ WorkerWritesContent(k)

\* The worker writes on where it has stopped in the response to the last accepted request.
LEMMA WorkerWritesStreams ==
  ASSUME IPromise, NEW k \in 1 .. st.size, WorkerWriteStep(k)
  PROVE  Streams'
<1> DEFINE base == IF spc = "wHeader" THEN 0 ELSE HDR
<1>1. /\ spc \in {"wHeader", "wContent"} /\ k <= st.size - st.off
      /\ s2c' = IF sock THEN s2c \o Bytes(request, base + st.off, k) ELSE s2c
      /\ UNCHANGED <<client, sbuf, request, executed, c2s>>
  BY DEF WorkerWriteStep, WorkerWritesHeader, WorkerWritesContent, WorkerWrites
<1>2. /\ request = accepted /\ accepted # 0 /\ accepted \in Calls /\ HasRun /\ ~WorkerGone
      /\ st.size = IF spc = "wHeader" THEN HDR ELSE RLen[accepted]
      /\ st.size \in Nat /\ st.off \in Nat /\ st.off < st.size /\ HDR \in Nat \ {0} /\ base \in Nat
      /\ RLen[accepted] \in Nat \ {0} /\ ResponseEnd = HDR + RLen[accepted]
      /\ Put = {base + st.off}
  <2>1. request = accepted /\ request # 0 /\ HasRun /\ ~WorkerGone
    BY <1>1, Known DEF Runs, WorkerGone
  <2>2. /\ st.size = (IF spc = "wHeader" THEN HDR ELSE RLen[accepted]) /\ st.off < st.size
    BY <1>1, Known DEF WorkerTransfers
  <2>3. Put = {base + st.off}
    <3>1. CASE spc = "wHeader"
      BY <3>1, Known DEF Put
    <3>2. CASE spc = "wContent"
      BY <3>2 DEF Put
    <3>3. QED BY <1>1, <3>1, <3>2
  <2>4. QED BY <2>1, <2>2, <2>3, Known DEF ResponseEnd
<1>3. /\ Complete(Advance(st, k)) <=> st.off + k = st.size
      /\ Advance(Attempt(st), k).size = st.size /\ Advance(Attempt(st), k).off = st.off + k
  <2>1. IsTransfer(st, Nat, ServerRetries)
    BY Known DEF TypeOK
  <2>2. QED BY <2>1, Progress
<1>4. \/ /\ st.off + k < st.size /\ spc' = spc /\ st'.size = st.size /\ st'.off = st.off + k
      \/ /\ st.off + k = st.size /\ spc = "wHeader" /\ spc' = "wContent"
         /\ st'.size = RLen[accepted] /\ st'.off = 0
      \/ /\ st.off + k = st.size /\ spc = "wContent" /\ spc' = "pending" /\ st' = st
  <2>1. /\ st.off + k = st.size \/ st.off + k < st.size
        /\ st.off + k < st.size => ~Complete(Advance(st, k))
    BY <1>1, <1>2, <1>3
  <2>2. CASE WorkerWritesHeader(k)
    <3>1. CASE st.off + k = st.size
      BY <1>2, <1>3, <2>2, <3>1 DEF WorkerWritesHeader, Begin
    <3>2. CASE st.off + k < st.size
      BY <1>3, <2>1, <2>2, <3>2 DEF WorkerWritesHeader
    <3>3. QED BY <2>1, <3>1, <3>2
  <2>3. CASE WorkerWritesContent(k)
    <3>1. CASE st.off + k = st.size
      BY <1>3, <2>3, <3>1 DEF WorkerWritesContent
    <3>2. CASE st.off + k < st.size
      BY <1>3, <2>1, <2>3, <3>2 DEF WorkerWritesContent
    <3>3. QED BY <2>1, <3>1, <3>2
  <2>4. QED BY <2>2, <2>3 DEF WorkerWriteStep
<1>5. Order' /\ ClientTransfers'
  BY <1>1, Known DEF Order, OwnAnswer, ClientTransfers, client
<1>6. Runs' /\ WorkerTransfers'
  <2>1. /\ UNCHANGED <<executed, accepted, request, cpc>> /\ HasRun' = HasRun
        /\ spc' \in {"wHeader", "wContent", "pending"}
    BY <1>1, <1>4 DEF HasRun, client
  <2>2. Runs'
    BY <1>2, <2>1, Known DEF Runs
  <2>3. WorkerTransfers'
    BY <1>2, <1>4, <2>1 DEF WorkerTransfers
  <2>4. QED BY <2>2, <2>3
<1>7. Requests'
  BY <1>1, <1>2, <1>4, Known DEF Requests, Got, RequestEnd, WorkerGone, client
<1>8. cpc \notin {"wHeader", "wContent"} /\ ~Quiet
  <2>1. ~Quiet
    BY <1>1 DEF Quiet
  <2>2. cpc # "wContent"
    <3>1. ASSUME cpc = "wContent" PROVE FALSE
      <4>1. Got = RequestEnd /\ Got + Len(c2s) = HDR + ct.off /\ ct.off < QLen[accepted]
        BY <1>2, <3>1, Known DEF Got, Requests, ClientTransfers
      <4>2. RequestEnd = HDR + QLen[accepted] /\ QLen[accepted] \in Nat /\ ct.off \in Nat
        BY <1>2, Known DEF RequestEnd
      <4>3. HDR \in Nat /\ Len(c2s) \in Nat
        BY Known
      <4>4. QED BY <4>1, <4>2, <4>3
    <3>2. QED BY <3>1
  <2>3. QED BY <2>1, <2>2, Known DEF Responses
<1>9. base + st.off + k \in Put' /\ base + st.off + k <= ResponseEnd /\ ResponseEnd' = ResponseEnd
  <2>1. ResponseEnd' = ResponseEnd /\ accepted' = accepted /\ request' = accepted
    BY <1>1, <1>2 DEF ResponseEnd, client
  <2>2. base + st.off + k <= ResponseEnd
    BY <1>1, <1>2
  <2>3. base + st.off + k \in Put'
    BY <1>1, <1>2, <1>4, <2>1 DEF Put
  <2>4. QED BY <2>1, <2>2, <2>3
<1> HIDE DEF base
<1>10. ASSUME sock, NEW i \in Nat, From(i) PROVE From(i)'
  <2>1. Segment(s2c, accepted, i) /\ i + Len(s2c) = base + st.off
    BY <1>2, <1>10 DEF From
  <2>2. /\ Bytes(accepted, base + st.off, k) \in Seq(Tokens)
        /\ Len(Bytes(accepted, base + st.off, k)) = k
        /\ Segment(Bytes(accepted, base + st.off, k), accepted, i + Len(s2c))
    BY <1>2, <2>1, SegmentOfBytes
  <2>3. /\ s2c' = s2c \o Bytes(accepted, base + st.off, k)
        /\ s2c \in Seq(Tokens) /\ Len(s2c) \in Nat
    BY <1>1, <1>2, <1>10, Known
  <2>4. Segment(s2c', accepted, i) /\ Len(s2c') = Len(s2c) + k
    BY <2>1, <2>2, <2>3, SegmentConcat
  <2>5. i + Len(s2c') = base + st.off + k
    BY <2>1, <2>3, <2>4
  <2>6. accepted' = accepted
    BY <1>1 DEF client
  <2>7. QED BY <1>2, <1>9, <2>4, <2>5, <2>6 DEF From
<1>11. Responses'
  <2>1. (~sock => s2c' = <<>>) /\ (cpc = "wContent" => s2c' = <<>>)
    BY <1>1, <1>8, Known DEF Responses
  <2>2. QED BY <1>1, <1>8, <1>10, <2>1, ResponsesKept
<1>12. QED BY <1>5, <1>6, <1>7, <1>11 DEF Streams

\* No frame is without a content, and what takes the worker down leaves it.
LEMMA WorkerEndsStreams ==
  ASSUME IPromise,
         \/ WorkerReadsNothing
         \/ PendingFails \/ WorkerFails \/ WorkerAborts \/ ServerCrashes
  PROVE  Streams'
<1>1. CASE WorkerReadsNothing
  <2>1. spc = "rContent" /\ st.size = 0
    BY <1>1 DEF WorkerReadsNothing
  <2>2. QED BY <2>1, Known DEF WorkerTransfers
<1>2. CASE PendingFails \/ WorkerFails \/ WorkerAborts \/ ServerCrashes
  <2>1. Leave /\ UNCHANGED <<client, st, sbuf, request, executed>>
    BY <1>2 DEF PendingFails, WorkerFails, WorkerAborts, ServerCrashes
  <2>2. QED BY <2>1, LeaveStreams
<1>3. QED BY <1>1, <1>2

-----------------------------------------------------------------------------
(* Every step.                                                               *)

LEMMA NextStreams ==
  ASSUME IPromise, ~SplitRequest, ~SplitResponse, [Next]_vars
  PROVE  IPromise'
<1>1. IInv'
  BY NextIInv DEF IPromise
<1>2. CASE Call \/ UserCloses \/ ServerCrashes
  BY <1>1, <1>2, CallStreams, UserClosesStreams, WorkerEndsStreams DEF IPromise
<1>3. CASE Client
  BY <1>1, <1>3, CheckRefusesStreams, CheckPassesStreams, DrainPartStreams,
     DrainHeaderStreams, DrainContentStreams, DrainOverrunsStreams,
     DrainNothingStreams, SendHeaderStreams,
     SendContentStreams, ClientIdlesStreams, SendHeaderFailsStreams,
     SendContentFailsStreams, ReceiveHeaderStreams, ReceiveContentPartStreams,
     ReceiveContentStreams, ReceiveFailsStreams, NeverStreams
     DEF Client, IPromise
<1>4. CASE Worker
  BY <1>1, <1>4, PendingEndsStreams, WorkerReadsStreams, WorkerIdlesStreams,
     AnswersStreams, WorkerWritesStreams, WorkerEndsStreams
     DEF Worker, IPromise, WorkerReadStep, WorkerWriteStep, Answers
<1>5. CASE UNCHANGED vars
  <2>1. /\ UNCHANGED <<cpc, n, sock, health, ct, cbuf, status, answer, accepted, c2s, s2c>>
        /\ UNCHANGED <<spc, st, sbuf, request, executed>>
    BY <1>5 DEF vars, client, worker
  <2>2. UNCHANGED <<Order, Runs, WorkerTransfers, ClientTransfers>>
    BY <2>1 DEF Order, OwnAnswer, Runs, HasRun, WorkerTransfers, ClientTransfers
  <2>3. UNCHANGED <<Requests, Responses>>
    BY <2>1 DEF Requests, Responses, From, Quiet, Got, Put, RequestEnd, ResponseEnd, WorkerGone
  <2>4. QED BY <1>1, <2>2, <2>3, Known DEF IPromise, Streams
<1>6. QED BY <1>2, <1>3, <1>4, <1>5 DEF Next

-----------------------------------------------------------------------------
(* The theorems.                                                            *)

\* As long as headers are moved whole, the two ends agree on where the frames begin.
LEMMA StreamsThroughout ==
  ASSUME ~SplitRequest, ~SplitResponse
  PROVE  Spec => []IPromise
<1>1. Init => IPromise
  BY InitIInv, InitStreams DEF IPromise
<1>2. IPromise /\ [Next]_vars => IPromise'
  BY NextStreams
<1>3. QED BY <1>1, <1>2, PTL DEF Spec

\* A call returns the result of its own request, whatever was late, lost or cut off in
\* the calls before it, although the ids are never compared (Client.h:181-192).
THEOREM AnswersAreOwn ==
  ASSUME ~SplitRequest, ~SplitResponse
  PROVE  Spec => []OwnAnswer
<1>1. IPromise => OwnAnswer
  BY DEF IPromise, Streams, Order
<1>2. QED BY StreamsThroughout, <1>1, PTL

\* A call that begins to write finds the worker at the start of its loop and both
\* streams empty, if its check has not overrun its buffer: one that has may end the
\* process, and does not get here (Health.h:55-99, Client.h:119).
THEOREM StaysInStep ==
  ASSUME ~SplitRequest, ~SplitResponse
  PROVE  Spec => []InStep
<1>1. IPromise => InStep
  BY DEF IPromise, Streams, Responses, Quiet, InStep, WorkerGone
<1>2. QED BY StreamsThroughout, <1>1, PTL

\* What README.md:115 promises: before a call writes, no byte has accumulated.
THEOREM NoneAccumulated ==
  ASSUME ~SplitRequest, ~SplitResponse
  PROVE  Spec => []NothingAccumulated
<1>1. IPromise => NothingAccumulated
  BY DEF IPromise, Streams, Responses, Quiet, NothingAccumulated
<1>2. QED BY StreamsThroughout, <1>1, PTL

-----------------------------------------------------------------------------
(* The promise.                                                             *)

\* No answer is mixed up: what the user sees is the status.
LEMMA SeenIsStatus ==
  ASSUME IPromise
  PROVE  Seen = status
  BY Known DEF Order, OwnAnswer, TypeOK, Seen

\* A call that ends with a result, seen by its user.
Ends(result) ==
    /\ n \in Calls
    /\ status' = [status EXCEPT ![n] = result]
    /\ UNCHANGED <<accepted, executed>>

Ignored == UNCHANGED <<status, accepted, executed>>

\* What the user can see of a step of the client.
LEMMA ClientSeen ==
  ASSUME IPromise, Order', ~SplitResponse, Client
  PROVE  \/ Ignored
         \/ cpc = "check" /\ Ends("refused")
         \/ /\ cpc = "check" /\ n \in Calls /\ status' = [status EXCEPT ![n] = "open"]
            /\ accepted' = n /\ executed' = executed
         \/ cpc \notin {"idle", "check", "overrun"} /\ Ends("failed")
         \/ cpc = "rContent" /\ Ends("answered")
<1>1. CASE CheckRefuses
  BY <1>1, Known DEF CheckRefuses, Return, Ends, worker
<1>2. CASE CheckPasses
  BY <1>2, Known DEF CheckPasses, worker
<1>3. CASE \/ \E k \in 1 .. Len(s2c) : DrainPart(k)
           \/ DrainHeader \/ DrainContent \/ DrainOverruns \/ DrainNothing
  BY <1>3 DEF DrainPart, DrainHeader, DrainContent, DrainOverruns, DrainNothing, Draining,
              Ignored, worker
<1>4. CASE \/ \E k \in 1 .. HDR : SendHeader(k)
           \/ \E k \in 1 .. ct.size : SendContent(k)
           \/ ClientIdles
  BY <1>4 DEF SendHeader, SendContent, Sends, ClientIdles, Ignored, worker
<1>5. CASE SendHeaderFails \/ SendContentFails \/ ReceiveHeaderFails \/ ReceiveContentFails
  BY <1>5, Known DEF SendHeaderFails, SendContentFails, ReceiveHeaderFails,
                     ReceiveContentFails, Return, Ends, worker
<1>6. CASE \E k \in 1 .. HDR : ReceiveHeader(k)
  BY <1>6, Known DEF ReceiveHeader, Receives, Return, Ends, Ignored, worker
<1>7. CASE \E k \in 1 .. ct.size : ReceiveContentPart(k)
  BY <1>7 DEF ReceiveContentPart, Receives, Ignored, worker
<1>8. CASE \E k \in 1 .. ct.size : ReceiveContent(k)
  <2>1. /\ cpc = "rContent" /\ cpc' = "idle" /\ n' = n /\ n \in Calls
        /\ UNCHANGED <<accepted, executed>>
        /\ \E result \in {"garbled", "answered"} : status' = [status EXCEPT ![n] = result]
    BY <1>8, Known DEF ReceiveContent, Receives, Return, worker
  <2>2. status'[n] \in Returned /\ status \in [Calls -> {"new", "open"} \cup Settled]
    BY <2>1, Known, CallsAreNat DEF Order, Calls, TypeOK
  <2>3. status' = [status EXCEPT ![n] = "answered"]
    BY <2>1, <2>2 DEF Returned
  <2>4. QED BY <2>1, <2>3 DEF Ends
<1>9. CASE ReceiveNothing \/ \E k \in 1 .. HDR : ReceiveHeaderPart(k)
  BY <1>9, Known DEF ReceiveNothing, ReceiveHeaderPart, ClientTransfers, Order
<1>10. QED
  BY <1>1, <1>2, <1>3, <1>4, <1>5, <1>6, <1>7, <1>8, <1>9 DEF Client

\* What the user can see of a step of the worker.
LEMMA WorkerSeen ==
  ASSUME IPromise, Worker
  PROVE  \/ Ignored
         \/ /\ accepted \in Calls /\ ~HasRun /\ executed' = Append(executed, accepted)
            /\ UNCHANGED <<status, accepted>>
<1>1. CASE RunRequest
  <2>1. spc = "decoded" /\ request = accepted /\ request # 0 /\ ~HasRun
    BY <1>1, Known DEF RunRequest, Runs
  <2>2. QED BY <1>1, <2>1, Known DEF RunRequest, client
<1>2. CASE ~RunRequest
  BY <1>2 DEF Worker, PendingEnds, PendingFails, WorkerReadsPart, WorkerReadsHeader,
              WorkerReadsContent, WorkerReads, WorkerReadsNothing, WorkerIdles,
              WorkerFails, WorkerAborts, RequestDropped, ResponseDropped, StartResponse,
              WorkerWritesHeader, WorkerWritesContent, WorkerWrites, Ignored, client
<1>3. QED BY <1>1, <1>2

\* A step of the connection is one that AbstractRpc allows, or its user does not see it.
LEMMA PromiseStep ==
  ASSUME IPromise, IPromise', ~SplitResponse, [Next]_vars
  PROVE  [Promise!Next]_(Promise!vars)
<1>1. Seen = status /\ Seen' = status'
  <2>1. OwnAnswer' /\ status' \in [Calls -> {"new", "open"} \cup Settled]
    BY DEF IPromise, Streams, Order, IInv, TypeOK
  <2>2. Seen' = status'
    BY <2>1 DEF OwnAnswer, Seen
  <2>3. QED BY <2>2, SeenIsStatus
<1>2. \A c : Promise!HasRun(c) <=> \E i \in DOMAIN executed : executed[i] = c
  BY DEF Promise!HasRun
<1>3. ASSUME cpc = "check", n \in Calls PROVE Promise!Due(n)
  <2>1. status[n] = "new" /\ \A d \in 1 .. n - 1 : status[d] \in Returned
    <3>1. n # 0 /\ n \in Nat /\ \A d \in 1 .. n - 1 : d \in Calls /\ d < n
      BY <1>3, CountsAssumption DEF Calls
    <3>2. QED BY <1>3, <3>1, Known DEF Order
  <2>2. QED BY <1>1, <2>1 DEF Promise!Due, Promise!Settled, Returned
<1>4. ASSUME cpc \notin {"idle", "check", "overrun"} PROVE n \in Calls /\ status[n] = "open" /\ accepted = n
  BY <1>4, Known, CallsAreNat DEF Order, Calls
<1>5. CASE Ignored
  BY <1>1, <1>5 DEF Ignored, Promise!vars
<1>6. CASE cpc = "check" /\ Ends("refused")
  <2>1. Promise!Refuse(n)
    BY <1>1, <1>3, <1>6 DEF Ends, Promise!Refuse
  <2>2. QED BY <1>6, <2>1 DEF Ends, Promise!Next, Promise!Calls, Calls
<1>7. CASE /\ cpc = "check" /\ n \in Calls /\ status' = [status EXCEPT ![n] = "open"]
           /\ accepted' = n /\ executed' = executed
  <2>1. Promise!Accept(n)
    BY <1>1, <1>3, <1>7 DEF Promise!Accept
  <2>2. QED BY <1>7, <2>1 DEF Promise!Next, Promise!Calls, Calls
<1>8. CASE cpc \notin {"idle", "check", "overrun"} /\ Ends("failed")
  <2>1. Promise!GiveUp(n)
    BY <1>1, <1>4, <1>8 DEF Ends, Promise!GiveUp
  <2>2. QED BY <1>8, <2>1 DEF Ends, Promise!Next, Promise!Calls, Calls
<1>9. CASE cpc = "rContent" /\ Ends("answered")
  <2>1. Promise!HasRun(n)
    BY <1>2, <1>4, <1>9, Known DEF Runs, HasRun
  <2>2. Promise!Answer(n)
    BY <1>1, <1>4, <1>9, <2>1 DEF Ends, Promise!Answer
  <2>3. QED BY <1>9, <2>2 DEF Ends, Promise!Next, Promise!Calls, Calls
<1>10. CASE /\ accepted \in Calls /\ ~HasRun /\ executed' = Append(executed, accepted)
            /\ UNCHANGED <<status, accepted>>
  <2>1. Promise!Run
    BY <1>1, <1>2, <1>10 DEF Promise!Run, Promise!Calls, Calls, HasRun
  <2>2. QED BY <2>1 DEF Promise!Next
<1>11. CASE Call \/ UserCloses \/ ServerCrashes \/ UNCHANGED vars
  <2>1. Ignored
    BY <1>11 DEF Call, UserCloses, ServerCrashes, vars, client, worker, Ignored
  <2>2. QED BY <1>5, <2>1
<1>12. CASE Client
  <2>1. Order'
    BY DEF IPromise, Streams
  <2>2. QED BY <1>5, <1>6, <1>7, <1>8, <1>9, <1>12, <2>1, ClientSeen
<1>13. CASE Worker
  BY <1>5, <1>10, <1>13, WorkerSeen
<1>14. QED BY <1>11, <1>12, <1>13 DEF Next

\* The connection keeps the promise of AbstractRpc: calls in order, a request run at most
\* once and never after a later call has been accepted, an answer only to what has run.
THEOREM PromiseKept ==
  ASSUME ~SplitRequest, ~SplitResponse
  PROVE  Spec => KeepsPromise
<1>1. Init => Promise!Init
  BY DEF Init, Promise!Init, Promise!Calls, Calls, Seen
<1>2. IPromise /\ IPromise' /\ [Next]_vars => [Promise!Next]_(Promise!vars)
  BY PromiseStep
<1>3. QED
  BY <1>1, <1>2, StreamsThroughout, PTL DEF Spec, KeepsPromise, Promise!Spec
=============================================================================
