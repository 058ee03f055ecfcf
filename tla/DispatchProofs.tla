--------------------------- MODULE DispatchProofs ---------------------------
(* What Dispatch promises for any number of workers, functions, requests    *)
(* and values: first whatever the parser makes of a frame, then if messages *)
(* read back, and last for the messages that do.                            *)
EXTENDS Dispatch, JsonProofs

\* Before the function is started nothing has been run, and until it is over there is no
\* answer.
Before ==
    \A w \in Workers :
        /\ stage[w] \in {"requested", "accepted"} => ran[w] = 0
        /\ stage[w] \in {"requested", "accepted", "running"} => response[w].error = "none"

Shapes ==
    /\ stage \in [Workers -> Stages]
    /\ DOMAIN response = Workers /\ DOMAIN ran = Workers

IInv == Shapes /\ Before /\ RefusedNotRun

LEMMA RefusalsApart ==
    /\ "none" \notin Refusals
    /\ \A e \in UserCodes \cup {"parse", "internal"} : e \notin Refusals
  BY UserCodesAssumption DEF Refusals

LEMMA InitIInv == Init => IInv
  BY RefusalsApart
     DEF Init, IInv, Shapes, Before, RefusedNotRun, Stages, Empty

\* A step of w that leaves the other workers alone and answers nothing.
LEMMA QuietKeeps ==
  ASSUME IInv, NEW w \in Workers, NEW s \in Stages,
         s \in {"requested", "accepted"} => stage[w] \in {"requested", "accepted"},
         s = "running" => stage[w] = "running",
         stage' = [stage EXCEPT ![w] = s], UNCHANGED <<response, ran>>
  PROVE  IInv'
  BY DEF IInv, Shapes, Before, RefusedNotRun

\* An answer of w: a refusal only if nothing has been run.
LEMMA AnswerKeeps ==
  ASSUME IInv, NEW w \in Workers, NEW r,
         r.error \in Refusals => ran[w] = 0,
         Respond(w, r), UNCHANGED ran
  PROVE  IInv'
  BY DEF IInv, Shapes, Before, RefusedNotRun, Respond, MoveTo, Stages

LEMMA NextIInv == IInv /\ [Next]_vars => IInv'
<1> SUFFICES ASSUME IInv, [Next]_vars PROVE IInv'
  OBVIOUS
<1>1. CASE UNCHANGED vars
  BY <1>1 DEF IInv, Shapes, Before, RefusedNotRun, vars
<1>2. ASSUME NEW m \in Methods, Bind(m) PROVE IInv'
  BY <1>2 DEF Bind, IInv, Shapes, Before, RefusedNotRun
<1>3. ASSUME NEW w \in Workers, NEW r \in Requests, Call(w, r) PROVE IInv'
  BY <1>3, RefusalsApart
     DEF Call, IInv, Shapes, Before, RefusedNotRun, Stages, Empty
<1>4. ASSUME NEW w \in Workers, Receive(w) \/ GiveUp(w) \/ Lost(w) \/ Drain(w) PROVE IInv'
  <2>1. UNCHANGED <<response, ran>>
    BY <1>4 DEF Receive, GiveUp, Lost, Drain, Return
  <2>2. UNCHANGED stage \/ stage' = [stage EXCEPT ![w] = "idle"]
    BY <1>4 DEF Receive, GiveUp, Lost, Drain, Return
  <2>3. CASE UNCHANGED stage
    BY <2>1, <2>3 DEF IInv, Shapes, Before, RefusedNotRun
  <2>4. CASE stage' = [stage EXCEPT ![w] = "idle"]
    BY <2>1, <2>4, QuietKeeps DEF Stages
  <2>5. QED BY <2>2, <2>3, <2>4
<1>5. ASSUME NEW w \in Workers, Worker(w) PROVE IInv'
  <2>1. CASE DecodeThrows(w) \/ CallbackThrows(w) \/ FunctionThrowsForeign(w)
    BY <2>1 DEF DecodeThrows, CallbackThrows, FunctionThrowsForeign, Terminate,
                IInv, Shapes, Before, RefusedNotRun
  <2>2. CASE RequestAccepted(w)
    <3>1. /\ stage[w] = "requested" /\ UNCHANGED <<response, ran>>
          /\ stage' = [stage EXCEPT ![w] = "accepted"]
      BY <2>2 DEF RequestAccepted, At, MoveTo
    <3>2. QED BY <3>1, QuietKeeps DEF Stages
  <2>3. CASE RequestRejected(w) \/ ResponseRejected(w)
    <3>1. stage' = [stage EXCEPT ![w] = "idle"] /\ UNCHANGED <<response, ran>>
      BY <2>3 DEF RequestRejected, ResponseRejected, Veto, MoveTo
    <3>2. QED BY <3>1, QuietKeeps DEF Stages
  <2>4. CASE MethodNotFound(w)
    <3>1. stage[w] = "accepted" /\ Respond(w, Error("notFound")) /\ UNCHANGED ran
      BY <2>4 DEF MethodNotFound, At
    <3>2. ran[w] = 0
      BY <3>1 DEF IInv, Before
    <3>3. QED BY <3>1, <3>2, AnswerKeeps
  <2>5. CASE InvalidParams(w)
    <3>1. stage[w] = "accepted" /\ Respond(w, Error("invalidParams")) /\ UNCHANGED ran
      BY <2>5 DEF InvalidParams, At
    <3>2. ran[w] = 0
      BY <3>1 DEF IInv, Before
    <3>3. QED BY <3>1, <3>2, AnswerKeeps
  <2>6. CASE ConversionThrows(w)
    <3>1. Respond(w, Error("internal")) /\ UNCHANGED ran
      BY <2>6 DEF ConversionThrows
    <3>2. Error("internal").error \notin Refusals
      BY DEF Error, Refusals
    <3>3. QED BY <3>1, <3>2, AnswerKeeps
  <2>7. CASE FunctionStarts(w)
    <3>1. /\ stage[w] = "accepted" /\ stage' = [stage EXCEPT ![w] = "running"]
          /\ ran' = [ran EXCEPT ![w] = @ + 1] /\ UNCHANGED response
      BY <2>7 DEF FunctionStarts, At, MoveTo
    <3>2. QED BY <3>1, RefusalsApart DEF IInv, Shapes, Before, RefusedNotRun, Stages
  <2>8. CASE FunctionReturns(w)
    <3>1. PICK v \in Samples : Respond(w, Result(v))
      BY <2>8 DEF FunctionReturns
    <3>2. UNCHANGED ran /\ Result(v).error \notin Refusals
      BY <2>8, RefusalsApart DEF FunctionReturns, Result
    <3>3. QED BY <3>1, <3>2, AnswerKeeps
  <2>9. CASE FunctionThrows(w)
    <3>1. PICK e \in UserCodes \cup {"parse", "internal"} : Respond(w, Error(e))
      BY <2>9 DEF FunctionThrows
    <3>2. UNCHANGED ran /\ Error(e).error \notin Refusals
      BY <2>9, RefusalsApart DEF FunctionThrows, Error
    <3>3. QED BY <3>1, <3>2, AnswerKeeps
  <2>10. CASE ResponseSent(w)
    <3>1. stage' = [stage EXCEPT ![w] = "sent"] /\ UNCHANGED <<response, ran>>
      BY <2>10 DEF ResponseSent, MoveTo
    <3>2. QED BY <3>1, QuietKeeps DEF Stages
  <2>11. QED BY <1>5, <2>1, <2>2, <2>3, <2>4, <2>5, <2>6, <2>7, <2>8, <2>9, <2>10 DEF Worker
<1>6. QED BY <1>1, <1>2, <1>3, <1>4, <1>5 DEF Next

\* An error that says "refused" is never the answer to a request whose function has been
\* started: not even if the function throws what looks like a refusal of the library, since
\* user codes are other codes (Server.h:256-264, 310-319; CallProxy.h:20-26).
THEOREM RefusalMeansNotRun == Spec => []RefusedNotRun
<1>1. IInv => RefusedNotRun BY DEF IInv
<1>2. QED BY InitIInv, NextIInv, <1>1, PTL DEF Spec

-----------------------------------------------------------------------------
(* What a call is told.  These theorems take what the dispatch relies on,   *)
(* MessagesReadBack, for a hypothesis, which says nothing of the requests   *)
(* and results whose values do not survive their dump; it is proved further *)
(* down of all the others that can be written.                              *)

Domains ==
    /\ table \subseteq Methods /\ ended \in {"no", "decode", "callback", "function"}
    /\ calls \in 0 .. MaxCalls
    /\ request \in [Workers -> Requests]
    /\ stage \in [Workers -> Stages]
    /\ DOMAIN received = Workers /\ DOMAIN outcome = Workers
    /\ response \in [Workers -> [result : Samples \cup {Nothing}, error : Codes \cup {"none"}]]
    /\ waiting \in [Workers -> BOOLEAN]
    /\ wasBound \in [Workers -> BOOLEAN]
    /\ ran \in [Workers -> 0 .. 1]
    /\ vetoed \in [Workers -> BOOLEAN]

\* The worker answers with the value of a function that was run for this request, or with
\* the code of an error.
Returned(w) ==
    \E v \in Samples : response[w] = Result(v) /\ ran[w] = 1 /\ Kind(v) = Method(w).returns
Refused(w) ==
    \E e \in Codes :
        response[w] = Error(e) /\ (e = "notFound" /\ Plain(request[w]) => ~wasBound[w])

Exchange(w) ==
    /\ response[w] = Empty \/ Returned(w) \/ Refused(w)
    /\ stage[w] \in {"requested", "accepted"} => ran[w] = 0
    /\ stage[w] = "running" => ran[w] = 1
    /\ stage[w] \in {"requested", "accepted", "running"} => response[w] = Empty
    /\ stage[w] \in {"responding", "sent"} => response[w] # Empty
    /\ vetoed[w] => stage[w] = "idle"
    /\ wasBound[w] => request[w].method \in table

\* What the worker has read is what the client has sent, if that survives its dump.
Understood(w) ==
    /\ stage[w] = "requested" => received[w] = Unread
    /\ stage[w] = "accepted" => received[w] # Unread
    /\ received[w] # Unread =>
           /\ Kind(received[w].method) = "text"
           /\ Plain(request[w]) => received[w] = [method |-> Text(<<request[w].method>>),
                                                 params |-> Array(request[w].args)]

\* A value that the client has been given stays true until the next call.
ValueIsTold(w) ==
    /\ stage[w] = "idle" /\ ~vetoed[w] /\ Returned(w)
    /\ PlainAtom(response[w].result) =>
           Method(w).returns = request[w].want /\ outcome[w].value = response[w].result

\* So does what it has been told of a failure, by a response.
FailureIsTold(w) ==
    /\ stage[w] = "idle" /\ ~vetoed[w]
    /\ PlainAtom(response[w].result) =>
           \/ response[w].error # "none"
           \/ outcome[w].is = "threw" /\ Kind(response[w].result) # request[w].want

Told(w) ==
    /\ waiting[w] => outcome[w] = Untold
    /\ outcome[w].is \in Outcomes /\ outcome[w].error \in {"none", "timedout", "io"}
    /\ Kind(outcome[w].value) \in Kinds \cup {"none"}
    /\ outcome[w].is = "value" => ValueIsTold(w)
    /\ outcome[w].is \in {"nullopt", "threw"} /\ outcome[w].error = "none" => FailureIsTold(w)

Dealt(w) == Exchange(w) /\ Understood(w) /\ Told(w)
EndIsExplained ==
    ended = "decode" => \E w \in Workers : received[w] = Unread /\ ~Plain(request[w])

CallInv == Domains /\ EndIsExplained /\ \A w \in Workers : Dealt(w)

Same(u) ==
    UNCHANGED <<request[u], stage[u], received[u], response[u], waiting[u], outcome[u],
                wasBound[u], ran[u], vetoed[u]>>

\* The method that a worker runs is the one that it has read.
LEMMA MethodStays ==
  ASSUME NEW w, received'[w].method = received[w].method
  PROVE  Method(w)' = Method(w)
  BY DEF Method

\* What is left alone stays true.
LEMMA SameKeeps ==
  ASSUME NEW w \in Workers, Dealt(w), Same(w), table \subseteq table'
  PROVE  Dealt(w)'
<1>1. Method(w)' = Method(w)
  BY MethodStays DEF Same
<1>2. (Returned(w) => Returned(w)') /\ (Refused(w) => Refused(w)')
  BY <1>1 DEF Same, Returned, Refused
<1>3. Exchange(w)'
  BY <1>2 DEF Dealt, Same, Exchange
<1>4. Understood(w)'
  BY DEF Dealt, Same, Understood
<1>5. Told(w)'
  BY <1>1, <1>2 DEF Dealt, Same, Told, ValueIsTold, FailureIsTold
<1>6. QED BY <1>3, <1>4, <1>5 DEF Dealt

\* A step of w: the others are left alone.
LEMMA Alone ==
  ASSUME CallInv, NEW w \in Workers, \A u \in Workers \ {w} : Same(u),
         table' = table, Domains', Dealt(w)', EndIsExplained'
  PROVE  CallInv'
<1>1. ASSUME NEW u \in Workers PROVE Dealt(u)'
  BY SameKeeps DEF CallInv
<1>2. QED BY <1>1 DEF CallInv

\* The end of the process is still explained: nothing that explains it has changed, or it
\* has not ended so.
LEMMA EndKept ==
  ASSUME CallInv,
         ended' # "decode" \/ UNCHANGED <<ended, request, received>>
  PROVE  EndIsExplained'
  BY DEF CallInv, EndIsExplained

LEMMA InitCallInv == Init => CallInv
<1> SUFFICES ASSUME Init PROVE CallInv
  OBVIOUS
<1>1. Domains
  BY BoundAssumption, RequestsAssumption DEF Init, Domains, Stages, Empty
<1>2. EndIsExplained
  BY DEF Init, EndIsExplained
<1>3. ASSUME NEW w \in Workers PROVE Dealt(w)
  BY <1>3 DEF Init, Dealt, Exchange, Understood, Told, Untold, Outcomes, Kind, Nothing
<1>4. QED BY <1>1, <1>2, <1>3 DEF CallInv

\* An answer is not taken for the lack of one.
LEMMA AnswersAreAnswers ==
  /\ \A v \in Samples : Result(v) # Empty
                        /\ Result(v) \in [result : Samples \cup {Nothing}, error : Codes \cup {"none"}]
  /\ \A e \in Codes : Error(e) # Empty
                      /\ Error(e) \in [result : Samples \cup {Nothing}, error : Codes \cup {"none"}]
<1>1. ASSUME NEW v \in Samples PROVE v # Nothing
  BY RequestsAssumption DEF Kinds, Kind, Nothing
<1>2. ASSUME NEW e \in Codes PROVE e # "none"
  BY UserCodesAssumption DEF Codes, Refusals
<1>3. QED BY <1>1, <1>2 DEF Result, Error, Empty

LEMMA AnswerStays ==
  ASSUME NEW w \in Workers,
         UNCHANGED <<request[w], received[w], response[w], ran[w], wasBound[w]>>
  PROVE  /\ Method(w)' = Method(w)
         /\ Returned(w)' <=> Returned(w)
         /\ Refused(w)' <=> Refused(w)
<1>1. Method(w)' = Method(w)
  BY MethodStays
<1>2. QED BY <1>1 DEF Returned, Refused

\* The worker runs the method that was asked for.
LEMMA MethodIsRead ==
  ASSUME CallInv, NEW w \in Workers, Plain(request[w]), received[w] # Unread
  PROVE  received[w].method = Text(<<request[w].method>>)
<1>1. received[w] = [method |-> Text(<<request[w].method>>), params |-> Array(request[w].args)]
  BY DEF CallInv, Dealt, Understood
<1>2. QED BY <1>1

\* The worker has read the request, and no callback has rejected it yet.
LEMMA AnswerDeals ==
  ASSUME CallInv, NEW w \in Workers, NEW r, Respond(w, r), UNCHANGED ran, Alive,
         stage[w] \in {"accepted", "running"},
         \/ \E v \in Samples : r = Result(v) /\ ran[w] = 1 /\ Kind(v) = Method(w).returns
         \/ \E e \in Codes : r = Error(e) /\ (e = "notFound" /\ Plain(request[w]) => ~wasBound[w])
  PROVE  CallInv'
<1> USE DEF CallInv
<1>1. /\ stage' = [stage EXCEPT ![w] = "responding"]
      /\ response' = [response EXCEPT ![w] = r]
      /\ UNCHANGED <<table, ended, calls, request, waiting, outcome, wasBound, received, vetoed>>
  BY DEF Respond, MoveTo, server, client
<1>2. r # Empty /\ r \in [result : Samples \cup {Nothing}, error : Codes \cup {"none"}]
  BY AnswersAreAnswers
<1>3. Domains'
  BY <1>1, <1>2 DEF Domains, Stages
<1>4. \A u \in Workers \ {w} : Same(u)
  BY <1>1 DEF Domains, Same
<1>5. response'[w] = r /\ stage'[w] = "responding" /\ ran'[w] = ran[w]
  BY <1>1 DEF Domains
<1>6. Method(w)' = Method(w)
  BY <1>1, MethodStays
<1>7. Returned(w)' \/ Refused(w)'
  BY <1>1, <1>5, <1>6 DEF Returned, Refused
<1>8. Exchange(w)'
  BY <1>1, <1>2, <1>5, <1>7 DEF Exchange, Dealt
<1>9. Understood(w)'
  BY <1>1, <1>5 DEF Understood, Dealt
<1>10. Told(w)'
  BY <1>1, <1>5 DEF Told, ValueIsTold, FailureIsTold, Dealt
<1>11. EndIsExplained'
  BY <1>1, EndKept DEF Alive
<1>12. QED BY <1>1, <1>3, <1>4, <1>8, <1>9, <1>10, <1>11, Alone DEF Dealt

\* The worker goes from one stage to another, without an answer.
LEMMA MoveDeals ==
  ASSUME CallInv, NEW w \in Workers, NEW s \in Stages, NEW b \in BOOLEAN,
         stage' = [stage EXCEPT ![w] = s], vetoed' = [vetoed EXCEPT ![w] = b],
         UNCHANGED <<table, ended, calls, request, waiting, outcome, wasBound, received,
                     response, ran>>,
         stage[w] # "idle",
         s \in {"idle", "sent"}, s = "sent" => stage[w] = "responding",
         b => s = "idle"
  PROVE  CallInv'
<1> USE DEF CallInv
<1>1. Domains'
  BY DEF Domains
<1>2. \A u \in Workers \ {w} : Same(u)
  BY DEF Domains, Same
<1>3. stage'[w] = s /\ vetoed'[w] = b
  BY DEF Domains
<1>4. Exchange(w)'
  BY <1>3, AnswerStays DEF Exchange, Dealt
<1>5. Understood(w)'
  BY <1>3 DEF Understood, Dealt
<1>6. Told(w)'
  BY <1>3 DEF Told, ValueIsTold, FailureIsTold, Dealt
<1>7. EndIsExplained'
  BY EndKept
<1>8. QED BY <1>1, <1>2, <1>4, <1>5, <1>6, <1>7, Alone DEF Dealt

LEMMA CallDeals ==
  ASSUME CallInv, NEW w \in Workers, NEW r \in Requests, Call(w, r)
  PROVE  CallInv'
<1> USE DEF CallInv
<1>1. /\ Alive /\ calls < MaxCalls /\ calls' = calls + 1
      /\ request' = [request EXCEPT ![w] = r]
      /\ stage' = [stage EXCEPT ![w] = "requested"]
      /\ received' = [received EXCEPT ![w] = Unread]
      /\ response' = [response EXCEPT ![w] = Empty]
      /\ waiting' = [waiting EXCEPT ![w] = TRUE]
      /\ outcome' = [outcome EXCEPT ![w] = Untold]
      /\ wasBound' = [wasBound EXCEPT ![w] = r.method \in table]
      /\ ran' = [ran EXCEPT ![w] = 0]
      /\ vetoed' = [vetoed EXCEPT ![w] = FALSE]
      /\ UNCHANGED <<table, ended>>
  BY DEF Call, server
<1>2. Domains'
  BY <1>1, BoundAssumption DEF Domains, Stages, Empty
<1>3. \A u \in Workers \ {w} : Same(u)
  BY <1>1 DEF Domains, Same
<1>4. /\ request'[w] = r /\ stage'[w] = "requested" /\ received'[w] = Unread
      /\ response'[w] = Empty /\ waiting'[w] /\ outcome'[w] = Untold
      /\ wasBound'[w] = (r.method \in table) /\ ran'[w] = 0 /\ ~vetoed'[w]
  BY <1>1 DEF Domains
<1>5. Exchange(w)'
  BY <1>1, <1>4 DEF Exchange
<1>6. Understood(w)'
  BY <1>4 DEF Understood
<1>7. Told(w)'
  BY <1>4 DEF Told, Untold, Outcomes, Kind, Nothing
<1>8. EndIsExplained'
  BY <1>1, EndKept DEF Alive
<1>9. QED BY <1>1, <1>2, <1>3, <1>5, <1>6, <1>7, <1>8, Alone DEF Dealt

\* What a call may be told.
Tellable(w, what, errno, v) ==
    /\ what \in Outcomes /\ errno \in {"none", "timedout", "io"}
    /\ Kind(v) \in Kinds \cup {"none"}
    /\ what = "value" =>
           /\ stage[w] = "sent" /\ Returned(w)
           /\ PlainAtom(response[w].result) =>
                  Method(w).returns = request[w].want /\ v = response[w].result
    /\ what \in {"nullopt", "threw"} /\ errno = "none" =>
           /\ stage[w] = "sent"
           /\ PlainAtom(response[w].result) =>
                  \/ response[w].error # "none"
                  \/ what = "threw" /\ Kind(response[w].result) # request[w].want

\* The worker is asked for a new request only when its answer has been read.
StageKeptOrIdle(w, what, errno) ==
    \/ what # "value" /\ errno # "none" /\ UNCHANGED stage
    \/ stage' = [stage EXCEPT ![w] = "idle"]

LEMMA ReturnDeals ==
  ASSUME CallInv, NEW w \in Workers, NEW what, NEW errno, NEW v,
         Tellable(w, what, errno, v), Return(w, what, errno, v), StageKeptOrIdle(w, what, errno)
  PROVE  CallInv'
<1> USE DEF CallInv, Tellable, StageKeptOrIdle
<1>1. /\ waiting' = [waiting EXCEPT ![w] = FALSE]
      /\ outcome' = [outcome EXCEPT ![w] = [is |-> what, error |-> errno, value |-> v]]
      /\ UNCHANGED <<table, ended, calls, request, wasBound, received, response, ran, vetoed>>
  BY DEF Return, server
<1>2. Domains'
  BY <1>1 DEF Domains, Stages
<1>3. \A u \in Workers \ {w} : Same(u)
  BY <1>1 DEF Domains, Same
<1>4. /\ ~waiting'[w] /\ outcome'[w] = [is |-> what, error |-> errno, value |-> v]
      /\ stage'[w] = stage[w] \/ stage'[w] = "idle"
      /\ what = "value" \/ errno = "none" => stage'[w] = "idle"
  BY <1>1 DEF Domains
<1>5. /\ Method(w)' = Method(w) /\ (Returned(w)' <=> Returned(w))
      /\ (Refused(w)' <=> Refused(w))
  BY <1>1, AnswerStays
<1>6. Exchange(w)'
  BY <1>1, <1>4, <1>5 DEF Exchange, Dealt
<1>7. Understood(w)'
  BY <1>1, <1>4 DEF Understood, Dealt
<1>8. stage[w] = "sent" => ~vetoed[w]
  BY DEF Dealt, Exchange
<1>9. Told(w)'
  BY <1>1, <1>4, <1>5, <1>8 DEF Told, ValueIsTold, FailureIsTold
<1>10. EndIsExplained'
  BY <1>1, EndKept
<1>11. QED BY <1>1, <1>2, <1>3, <1>6, <1>7, <1>9, <1>10, Alone DEF Dealt

LEMMA ReceiveDeals ==
  ASSUME MessagesReadBack, CallInv, NEW w \in Workers, Receive(w)
  PROVE  CallInv'
<1>1. stage[w] = "sent" /\ stage' = [stage EXCEPT ![w] = "idle"]
  BY DEF Receive
<1> DEFINE d(t) == Decoded(ResponseMessage(response[w]), t)
           result(t) == Field(d(t).value, <<"result">>)
           what(t) == IF d(t).ok THEN MakeResult(d(t).value, request[w].want) ELSE "threw"
<1>2. PICK t \in Behind :
        Return(w, what(t), "none", IF what(t) = "value" THEN result(t) ELSE Nothing)
  BY DEF Receive
<1>3. what(t) \in Outcomes
  BY DEF MakeResult, Outcomes
<1>4. response[w] # Empty /\ (Returned(w) \/ Refused(w))
  BY <1>1 DEF CallInv, Dealt, Exchange
<1>5. Refused(w) => response[w].error # "none" /\ (d(t).ok => <<"error">> \in Names(d(t).value))
  <2>1. SUFFICES ASSUME NEW e \in Codes, response[w] = Error(e)
                 PROVE  response[w].error # "none" /\ (d(t).ok => <<"error">> \in Names(d(t).value))
    BY DEF Refused
  <2>2. e # "none"
    BY UserCodesAssumption DEF Codes, Refusals
  <2>3. d(t).ok => <<"error">> \in Names(d(t).value)
    BY <2>1 DEF MessagesReadBack
  <2>4. QED BY <2>1, <2>2, <2>3 DEF Error
<1>6. Returned(w) =>
        \E v \in Samples : /\ response[w] = Result(v) /\ Kind(v) = Method(w).returns
                           /\ PlainAtom(v) => /\ d(t).ok /\ <<"error">> \notin Names(d(t).value)
                                              /\ <<"result">> \in Names(d(t).value) /\ result(t) = v
  <2>1. SUFFICES ASSUME NEW v \in Samples, response[w] = Result(v), PlainAtom(v)
                 PROVE  /\ d(t).ok /\ <<"error">> \notin Names(d(t).value)
                        /\ <<"result">> \in Names(d(t).value) /\ result(t) = v
    BY DEF Returned
  <2>2. QED BY <2>1 DEF MessagesReadBack
<1>7. PICK y, x, o : y = d(t) /\ x = Field(y.value, <<"result">>) /\ o = what(t)
  OBVIOUS
<1>8. /\ Return(w, o, "none", IF o = "value" THEN x ELSE Nothing) /\ o \in Outcomes
      /\ o = IF y.ok THEN MakeResult(y.value, request[w].want) ELSE "threw"
  BY <1>2, <1>3, <1>7, Zenon
<1>9. Refused(w) => response[w].error # "none" /\ (y.ok => <<"error">> \in Names(y.value))
  BY <1>5, <1>7, Zenon
<1>10. Returned(w) =>
        \E v \in Samples : /\ response[w] = Result(v) /\ Kind(v) = Method(w).returns
                           /\ PlainAtom(v) => /\ y.ok /\ <<"error">> \notin Names(y.value)
                                              /\ <<"result">> \in Names(y.value) /\ x = v
  BY <1>6, <1>7, Zenon
<1> HIDE DEF d, result, what
<1>11. CASE o # "value"
  <2>1. Kind(Nothing) = "none"
    BY DEF Kind, Nothing
  <2>2. PlainAtom(response[w].result) =>
           \/ response[w].error # "none"
           \/ o = "threw" /\ Kind(response[w].result) # request[w].want
    <3>1. CASE Refused(w)
      BY <1>9, <3>1
    <3>2. CASE Returned(w)
      <4>1. PICK v \in Samples : /\ response[w] = Result(v)
                                 /\ PlainAtom(v) => /\ y.ok /\ <<"error">> \notin Names(y.value)
                                                    /\ <<"result">> \in Names(y.value) /\ x = v
        BY <1>10, <3>2
      <4>2. response[w].result = v
        BY <4>1 DEF Result
      <4>3. ASSUME PlainAtom(v) PROVE o = "threw" /\ Kind(v) # request[w].want
        BY <1>7, <1>8, <1>11, <4>1, <4>3, Zenon DEF MakeResult, Converts
      <4>4. QED BY <4>2, <4>3
    <3>3. QED BY <1>4, <3>1, <3>2
  <2>3. Return(w, o, "none", Nothing)
    BY <1>8, <1>11
  <2>4. Tellable(w, o, "none", Nothing) /\ StageKeptOrIdle(w, o, "none")
    BY <1>1, <1>8, <1>11, <2>1, <2>2 DEF Tellable, StageKeptOrIdle
  <2>5. QED BY <2>3, <2>4, ReturnDeals
<1>12. CASE o = "value"
  <2>1. y.ok /\ <<"error">> \notin Names(y.value) /\ Kind(x) = request[w].want
    <3>1. "threw" # "value" /\ "nullopt" # "value"
      OBVIOUS
    <3>2. QED BY <1>7, <1>8, <1>12, <3>1, Zenon DEF MakeResult, Converts
  <2>2. Returned(w)
    BY <1>4, <1>9, <2>1
  <2>3. PICK v \in Samples : response[w] = Result(v) /\ Kind(v) = Method(w).returns
                            /\ (PlainAtom(v) => x = v)
    BY <1>10, <2>2
  <2>4. response[w].result = v /\ request[w].want \in Kinds
    BY <2>3, RequestsAssumption DEF Result, CallInv, Domains
  <2>5. Return(w, o, "none", x)
    BY <1>8, <1>12
  <2>6. /\ Kind(x) \in Kinds
        /\ PlainAtom(response[w].result) =>
               Method(w).returns = request[w].want /\ x = response[w].result
    BY <2>1, <2>3, <2>4
  <2>7. Tellable(w, o, "none", x) /\ StageKeptOrIdle(w, o, "none")
    BY <1>1, <1>8, <1>12, <2>2, <2>6 DEF Tellable, StageKeptOrIdle
  <2>8. QED BY <2>5, <2>7, ReturnDeals
<1>13. QED BY <1>11, <1>12

\* The timeout, the end of the process, a response that nobody waits for.
LEMMA UnansweredDeals ==
  ASSUME CallInv, NEW w \in Workers, GiveUp(w) \/ Lost(w) \/ Drain(w)
  PROVE  CallInv'
<1>1. \A e \in {"timedout", "io"} : Tellable(w, "nullopt", e, Nothing)
  BY DEF Tellable, Outcomes, Kind, Nothing
<1>2. CASE GiveUp(w)
  BY <1>1, <1>2, ReturnDeals DEF GiveUp, StageKeptOrIdle
<1>3. CASE Lost(w)
  BY <1>1, <1>3, ReturnDeals DEF Lost, StageKeptOrIdle
<1>4. CASE Drain(w)
  <2>1. /\ stage[w] = "sent" /\ stage' = [stage EXCEPT ![w] = "idle"] /\ "idle" \in Stages
        /\ UNCHANGED <<table, ended, calls, request, waiting, outcome, wasBound, received,
                       response, ran, vetoed>>
    BY <1>4 DEF Drain, server, client, Stages
  <2>2. ~vetoed[w] /\ vetoed' = [vetoed EXCEPT ![w] = FALSE]
    BY <2>1 DEF CallInv, Domains, Dealt, Exchange
  <2>3. QED BY <2>1, <2>2, MoveDeals
<1>5. QED BY <1>2, <1>3, <1>4

\* What cannot be decoded was not plain.
LEMMA DecodeThrowsDeals ==
  ASSUME MessagesReadBack, CallInv, NEW w \in Workers, DecodeThrows(w)
  PROVE  CallInv'
<1>1. PICK t \in Behind : ~Fit(Decoded(RequestMessage(request[w]), t))
  BY DEF DecodeThrows
<1>2. /\ stage[w] = "requested" /\ ended' = "decode"
      /\ UNCHANGED <<table, calls, request, waiting, outcome, wasBound, stage, received,
                     response, ran, vetoed>>
  BY DEF DecodeThrows, Terminate, At, client
<1>3. ~Plain(request[w])
  BY <1>1 DEF MessagesReadBack, CallInv, Domains
<1>4. Domains'
  BY <1>2 DEF CallInv, Domains
<1>5. EndIsExplained'
  BY <1>2, <1>3 DEF CallInv, Dealt, Understood, EndIsExplained
<1>6. ASSUME NEW u \in Workers PROVE Dealt(u)'
  BY <1>2, SameKeeps DEF CallInv, Same
<1>7. QED BY <1>4, <1>5, <1>6 DEF CallInv

LEMMA RequestAcceptedDeals ==
  ASSUME MessagesReadBack, CallInv, NEW w \in Workers, RequestAccepted(w)
  PROVE  CallInv'
<1> USE DEF CallInv
<1> DEFINE d(t) == Decoded(RequestMessage(request[w]), t)
<1>1. PICK t \in Behind :
        /\ Fit(d(t))
        /\ received' = [received EXCEPT ![w] = [method |-> Field(d(t).value, <<"method">>),
                                               params |-> Params(d(t).value)]]
  BY DEF RequestAccepted
<1>2. /\ stage[w] = "requested" /\ Alive /\ stage' = [stage EXCEPT ![w] = "accepted"]
      /\ UNCHANGED <<table, ended, calls, request, waiting, outcome, wasBound, response, ran,
                     vetoed>>
  BY DEF RequestAccepted, At, MoveTo, server, client
<1>3. request[w] \in Requests
  BY DEF Domains
<1>4. /\ Kind(Field(d(t).value, <<"method">>)) = "text"
      /\ Plain(request[w]) => /\ Field(d(t).value, <<"method">>) = Text(<<request[w].method>>)
                              /\ Params(d(t).value) = Array(request[w].args)
  BY <1>1, <1>3 DEF MessagesReadBack, Fit
<1> HIDE DEF d
<1>5. /\ received'[w] = [method |-> Field(d(t).value, <<"method">>), params |-> Params(d(t).value)]
      /\ stage'[w] = "accepted" /\ DOMAIN received' = Workers
  BY <1>1, <1>2 DEF Domains
<1>6. Kind(Nothing) # "text"
  BY DEF Kind, Nothing
<1>7. received'[w] # Unread
  BY <1>4, <1>5, <1>6 DEF Unread
<1>8. Understood(w)'
  BY <1>2, <1>4, <1>5, <1>7 DEF Understood
<1>9. Exchange(w)' /\ Told(w)'
  BY <1>2, <1>5 DEF Dealt, Exchange, Told, ValueIsTold, FailureIsTold
<1>10. Domains'
  BY <1>2, <1>5 DEF Domains, Stages
<1>11. \A u \in Workers \ {w} : Same(u)
  BY <1>1, <1>2 DEF Domains, Same
<1>12. EndIsExplained'
  BY <1>2, EndKept DEF Alive
<1>13. QED BY <1>2, <1>8, <1>9, <1>10, <1>11, <1>12, Alone DEF Dealt

LEMMA FunctionStartsDeals ==
  ASSUME CallInv, NEW w \in Workers, FunctionStarts(w)
  PROVE  CallInv'
<1> USE DEF CallInv
<1>1. /\ stage[w] = "accepted" /\ Alive /\ stage' = [stage EXCEPT ![w] = "running"]
      /\ ran' = [ran EXCEPT ![w] = @ + 1]
      /\ UNCHANGED <<table, ended, calls, request, waiting, outcome, wasBound, received,
                     response, vetoed>>
  BY DEF FunctionStarts, At, MoveTo, server, client
<1>2. ran[w] = 0 /\ response[w] = Empty
  BY <1>1 DEF Dealt, Exchange
<1>3. Domains' /\ stage'[w] = "running" /\ ran'[w] = 1
  BY <1>1, <1>2 DEF Domains, Stages
<1>4. \A u \in Workers \ {w} : Same(u)
  BY <1>1 DEF Domains, Same
<1>5. Exchange(w)' /\ Understood(w)' /\ Told(w)'
  BY <1>1, <1>2, <1>3 DEF Dealt, Exchange, Understood, Told, ValueIsTold, FailureIsTold
<1>6. EndIsExplained'
  BY <1>1, EndKept DEF Alive
<1>7. QED BY <1>1, <1>3, <1>4, <1>5, <1>6, Alone DEF Dealt

\* The codes of the answers that are errors.
LEMMA ErrorDeals ==
  ASSUME CallInv, NEW w \in Workers, NEW e \in Codes, At(w, "accepted") \/ At(w, "running"),
         e = "notFound" /\ Plain(request[w]) => ~wasBound[w],
         Respond(w, Error(e)), UNCHANGED ran
  PROVE  CallInv'
<1>1. Alive /\ stage[w] \in {"accepted", "running"}
  BY DEF At
<1>2. QED BY <1>1, AnswerDeals

LEMMA WorkerDeals ==
  ASSUME MessagesReadBack, CallInv, NEW w \in Workers, Worker(w)
  PROVE  CallInv'
<1>1. CASE DecodeThrows(w)
  BY <1>1, DecodeThrowsDeals
<1>2. CASE RequestAccepted(w)
  BY <1>2, RequestAcceptedDeals
<1>3. CASE RequestRejected(w) \/ ResponseRejected(w)
  <2>1. /\ stage[w] # "idle" /\ stage' = [stage EXCEPT ![w] = "idle"]
        /\ vetoed' = [vetoed EXCEPT ![w] = TRUE] /\ "idle" \in Stages
        /\ UNCHANGED <<table, ended, calls, request, waiting, outcome, wasBound, received,
                       response, ran>>
    BY <1>3 DEF RequestRejected, ResponseRejected, Veto, MoveTo, At, server, client, Stages
  <2>2. QED BY <2>1, MoveDeals
<1>4. CASE MethodNotFound(w)
  <2>1. At(w, "accepted") /\ ~Known(w) /\ Respond(w, Error("notFound")) /\ UNCHANGED ran
    BY <1>4 DEF MethodNotFound
  <2>2. Plain(request[w]) => received[w].method = Text(<<request[w].method>>)
    BY <2>1, MethodIsRead DEF CallInv, Dealt, Understood, At
  <2>3. Plain(request[w]) => ~wasBound[w]
    BY <2>1, <2>2 DEF Known, CallInv, Dealt, Exchange
  <2>4. "notFound" \in Codes
    BY DEF Codes, Refusals
  <2>5. QED BY <2>1, <2>3, <2>4, ErrorDeals
<1>5. CASE InvalidParams(w)
  <2>1. At(w, "accepted") /\ Respond(w, Error("invalidParams")) /\ UNCHANGED ran
    BY <1>5 DEF InvalidParams
  <2>2. "invalidParams" \in Codes
    BY DEF Codes, Refusals
  <2>3. QED BY <2>1, <2>2, ErrorDeals
<1>6. CASE ConversionThrows(w)
  <2>1. At(w, "accepted") /\ Respond(w, Error("internal")) /\ UNCHANGED ran
    BY <1>6 DEF ConversionThrows
  <2>2. "internal" \in Codes
    BY DEF Codes
  <2>3. QED BY <2>1, <2>2, ErrorDeals
<1>7. CASE FunctionStarts(w)
  BY <1>7, FunctionStartsDeals
<1>8. CASE FunctionReturns(w)
  <2>1. PICK v \in Samples : Kind(v) = Method(w).returns /\ Respond(w, Result(v))
    BY <1>8 DEF FunctionReturns
  <2>2. Alive /\ stage[w] = "running" /\ UNCHANGED ran
    BY <1>8 DEF FunctionReturns, At
  <2>3. ran[w] = 1
    BY <2>2 DEF CallInv, Dealt, Exchange
  <2>4. QED BY <2>1, <2>2, <2>3, AnswerDeals
<1>9. CASE FunctionThrows(w)
  <2>1. PICK e \in UserCodes \cup {"parse", "internal"} : Respond(w, Error(e))
    BY <1>9 DEF FunctionThrows
  <2>2. At(w, "running") /\ UNCHANGED ran
    BY <1>9 DEF FunctionThrows
  <2>3. e \in Codes /\ e # "notFound"
    BY UserCodesAssumption DEF Codes, Refusals
  <2>4. QED BY <2>1, <2>2, <2>3, ErrorDeals
<1>10. CASE CallbackThrows(w) \/ FunctionThrowsForeign(w)
  <2>1. /\ ended' # "decode" /\ ended' \in {"callback", "function"}
        /\ UNCHANGED <<table, calls, request, waiting, outcome, wasBound, stage, received,
                       response, ran, vetoed>>
    BY <1>10 DEF CallbackThrows, FunctionThrowsForeign, Terminate, client
  <2>2. Domains'
    BY <2>1 DEF CallInv, Domains
  <2>3. EndIsExplained'
    BY <2>1, EndKept
  <2>4. ASSUME NEW u \in Workers PROVE Dealt(u)'
    BY <2>1, SameKeeps DEF CallInv, Same
  <2>5. QED BY <2>2, <2>3, <2>4 DEF CallInv
<1>11. CASE ResponseSent(w)
  <2>1. /\ stage[w] = "responding" /\ stage' = [stage EXCEPT ![w] = "sent"]
        /\ "sent" \in Stages
        /\ UNCHANGED <<table, ended, calls, request, waiting, outcome, wasBound, received,
                       response, ran, vetoed>>
    BY <1>11 DEF ResponseSent, At, MoveTo, server, client, Stages
  <2>2. ~vetoed[w] /\ vetoed' = [vetoed EXCEPT ![w] = FALSE]
    BY <2>1 DEF CallInv, Domains, Dealt, Exchange
  <2>3. QED BY <2>1, <2>2, MoveDeals
<1>12. QED BY <1>1, <1>2, <1>3, <1>4, <1>5, <1>6, <1>7, <1>8, <1>9, <1>10, <1>11 DEF Worker

LEMMA BindDeals ==
  ASSUME CallInv, NEW m \in Methods, Bind(m)
  PROVE  CallInv'
<1>1. /\ table' = table \cup {m}
      /\ UNCHANGED <<ended, calls, request, waiting, outcome, wasBound, stage, received,
                     response, ran, vetoed>>
  BY DEF Bind, client
<1>2. Domains'
  BY <1>1 DEF CallInv, Domains
<1>3. EndIsExplained'
  BY <1>1, EndKept
<1>4. ASSUME NEW u \in Workers PROVE Dealt(u)'
  BY <1>1, SameKeeps DEF CallInv, Same
<1>5. QED BY <1>2, <1>3, <1>4 DEF CallInv

LEMMA NextCallInv ==
  ASSUME MessagesReadBack PROVE CallInv /\ [Next]_vars => CallInv'
<1> SUFFICES ASSUME CallInv, [Next]_vars PROVE CallInv'
  OBVIOUS
<1>1. CASE UNCHANGED vars
  <2>1. UNCHANGED <<table, ended, calls, request, waiting, outcome, wasBound, stage, received,
                    response, ran, vetoed>>
    BY <1>1 DEF vars, server, client
  <2>2. Domains'
    BY <2>1 DEF CallInv, Domains
  <2>3. EndIsExplained'
    BY <2>1, EndKept
  <2>4. ASSUME NEW u \in Workers PROVE Dealt(u)'
    BY <2>1, SameKeeps DEF CallInv, Same
  <2>5. QED BY <2>2, <2>3, <2>4 DEF CallInv
<1>2. ASSUME NEW w \in Workers, NEW r \in Requests, Call(w, r) PROVE CallInv'
  BY <1>2, CallDeals
<1>3. ASSUME NEW w \in Workers, Receive(w) PROVE CallInv'
  BY <1>3, ReceiveDeals
<1>4. ASSUME NEW w \in Workers, GiveUp(w) \/ Lost(w) \/ Drain(w) PROVE CallInv'
  BY <1>4, UnansweredDeals
<1>5. ASSUME NEW w \in Workers, Worker(w) PROVE CallInv'
  BY <1>5, WorkerDeals
<1>6. ASSUME NEW m \in Methods, Bind(m) PROVE CallInv'
  BY <1>6, BindDeals
<1>7. QED BY <1>1, <1>2, <1>3, <1>4, <1>5, <1>6 DEF Next

\* The invariant that the other theorems are read off.
THEOREM CallInvariance == ASSUME MessagesReadBack PROVE Spec => []CallInv
BY InitCallInv, NextCallInv, PTL DEF Spec

LEMMA CallInvTypes == CallInv => TypeOK
  BY DEF TypeOK, CallInv, Domains, Dealt, Understood, Told

\* The variables have their types: the method that a worker has read is a text, what it
\* answers is a sample or a code, and no function is started twice for one request
\* (Server.h:296-330).
THEOREM CallTypeCorrect == ASSUME MessagesReadBack PROVE Spec => []TypeOK
BY CallInvariance, CallInvTypes, PTL

LEMMA CallInvValues == CallInv => ValueWasReturned
<1> SUFFICES ASSUME CallInv, NEW w \in Workers, outcome[w].is = "value"
             PROVE  /\ ran[w] = 1 /\ ~vetoed[w]
                    /\ PlainAtom(response[w].result) =>
                           Method(w).returns = request[w].want /\ outcome[w].value = response[w].result
  BY DEF ValueWasReturned
<1>1. QED BY DEF CallInv, Dealt, Told, ValueIsTold, Returned

\* A call that returns a value: its function has been run for it, once, no callback has
\* rejected the exchange, and the value is the one the function has returned, if that
\* survives its dump (resolve.h:65-76, Server.h:298-328).
THEOREM ValuesAreReturned == ASSUME MessagesReadBack PROVE Spec => []ValueWasReturned
BY CallInvariance, CallInvValues, PTL

LEMMA CallInvFailures == CallInv => FailureWasReported
  BY DEF FailureWasReported, CallInv, Dealt, Told, FailureIsTold

\* A call that fails although it was answered: an error was reported, or the result is of
\* another type than the user asked for, unless that is one that does not survive its dump
\* (resolve.h:65-76, Server.h:313-319).
THEOREM FailuresAreReported == ASSUME MessagesReadBack PROVE Spec => []FailureWasReported
BY CallInvariance, CallInvFailures, PTL

LEMMA CallInvNotFound == CallInv => NotFoundWasUnbound
<1> SUFFICES ASSUME CallInv, NEW w \in Workers, response[w].error = "notFound", Plain(request[w])
             PROVE  ~wasBound[w]
  BY DEF NotFoundWasUnbound
<1>1. response[w] = Empty \/ Returned(w) \/ Refused(w)
  BY DEF CallInv, Dealt, Exchange
<1>2. response[w] # Empty /\ \A v \in Samples : response[w] # Result(v)
  BY DEF Empty, Result
<1>3. Refused(w)
  BY <1>1, <1>2 DEF Returned
<1>4. QED BY <1>3 DEF Refused, Error

\* "Method not found" is never the answer to a call of a method that was bound when the
\* call was made, however bind and the callbacks interleave, if the arguments survive their
\* dump (Server.h:155-158).
THEOREM NotFoundMeansUnbound == ASSUME MessagesReadBack PROVE Spec => []NotFoundWasUnbound
BY CallInvariance, CallInvNotFound, PTL

LEMMA CallInvDecoded == CallInv => DecodedAsSent
<1> SUFFICES ASSUME CallInv PROVE DecodedAsSent
  OBVIOUS
<1>1. ASSUME NEW w \in Workers, Plain(request[w]), received[w] # Unread
      PROVE  received[w] = [method |-> Text(<<request[w].method>>), params |-> Array(request[w].args)]
  BY <1>1 DEF CallInv, Dealt, Understood
<1>2. QED BY <1>1 DEF CallInv, EndIsExplained, DecodedAsSent

\* A worker never runs a request with the arguments of an earlier one, nor ends the process
\* on a request that its client could dump (Codec.h:56-58, Server.h:296-305).
THEOREM DecodedIsSent == ASSUME MessagesReadBack PROVE Spec => []DecodedAsSent
BY CallInvariance, CallInvDecoded, PTL

-----------------------------------------------------------------------------
(* Messages that can be written.  By RoundTrip they are read back, whatever *)
(* stands behind them in the buffer: for them MessagesReadBack is proved,   *)
(* and the theorems above hold without it.                                  *)

\* The names in a message.
MessageNames == {"id", "jsonrpc", "method", "params", "result", "error", "code", "message"}

\* Every name is a letter of its own, behind a frame stands what a buffer can hold, and the
\* messages of the users' exceptions are any texts, with quotes or without.
Frames ==
    /\ MessageNames \subseteq Letters /\ Behind \subseteq Seq(Bytes)
    /\ UserMessages \in [UserCodes -> Seq(Chars)]

\* A request whose method and whose arguments can be written: one level of arrays and objects.
Sendable(r) == <<r.method>> \in Texts /\ r.args \in Seq(Flat)

\* The value of a name that an object has once.
LEMMA FieldOf ==
  ASSUME NEW fs, DOMAIN fs \subseteq Nat, NEW k \in DOMAIN fs,
         \A j \in DOMAIN fs : fs[j][1] = fs[k][1] => j = k
  PROVE  Field(Object(fs), fs[k][1]) = fs[k][2] /\ fs[k][1] \in Names(Object(fs))
<1>1. Content(Object(fs)) = fs
  BY DEF Content, Object
<1> DEFINE Is(i) == fs[i][1] = fs[k][1] /\ \A j \in DOMAIN fs : fs[j][1] = fs[k][1] => j <= i
           last == CHOOSE i \in DOMAIN fs : Is(i)
<1>2. Is(k)
  BY DEF Is
<1>3. last \in DOMAIN fs /\ Is(last)
  BY <1>2, Zenon
<1>4. last = k
  BY <1>3
<1>5. Field(Object(fs), fs[k][1]) = fs[last][2]
  BY <1>1, Zenon DEF Field
<1>6. QED BY <1>1, <1>4, <1>5, Zenon DEF Names

\* The names of a message can be written.
LEMMA NameIsText ==
  ASSUME Frames, NEW n \in MessageNames
  PROVE  <<n>> \in Texts
<1>1. n \in Letters /\ n # "end" /\ n # Quote /\ n # Backslash
  BY DEF Frames, MessageNames, Quote, Backslash
<1>2. n \in Chars \ {Quote}
  BY <1>1, Zenon DEF Chars, Bytes
<1>3. <<n>> \in Seq(Chars \ {Quote}) /\ <<n>>[Len(<<n>>)] = n
  BY <1>2
<1>4. QED BY <1>1, <1>3, Zenon DEF Texts

\* So can the version.
LEMMA VersionIsText == <<"2", ".", "0">> \in Texts
<1>1. "2" \in Chars /\ "." \in Chars /\ "0" \in Chars
  BY MarksAreChars, Zenon DEF Marks, Digits
<1>2. "2" # Quote /\ "." # Quote /\ "0" # Quote /\ "0" # Backslash
  BY DEF Quote, Backslash
<1>3. \A a, b, c \in Chars \ {Quote} : c # Backslash => <<a, b, c>> \in Texts
  <2>1. ASSUME NEW a \in Chars \ {Quote}, NEW b \in Chars \ {Quote}, NEW c \in Chars \ {Quote}
        PROVE  <<a, b, c>> \in Seq(Chars \ {Quote}) /\ <<a, b, c>>[Len(<<a, b, c>>)] = c
    OBVIOUS
  <2>2. QED BY <2>1, Zenon DEF Texts
<1>4. QED BY <1>1, <1>2, <1>3, Zenon

\* And the id.
LEMMA FixedAtoms == Num(<<"1">>) \in Atoms /\ Text(<<"2", ".", "0">>) \in Atoms
<1>1. <<"1">> \in SomeDigits
  <2>1. "1" \in Digits
    BY DEF Digits
  <2>2. QED BY <2>1 DEF SomeDigits
<1>2. <<"1">> \in Whole
  BY <1>1, Zenon DEF Whole
<1>3. QED BY <1>2, VersionIsText, Zenon DEF Atoms, Numbers

\* The ways to nest a value.
LEMMA NestedHolds ==
  ASSUME NEW S
  PROVE  /\ Atoms \subseteq Nested(S)
         /\ \A vs \in Seq(S) : Array(vs) \in Nested(S)
         /\ \A fs \in Seq(Texts \X S) : Object(fs) \in Nested(S)
  BY Zenon DEF Nested

\* The requests.
LEMMA RequestIsNested ==
  ASSUME Frames, NEW r, Sendable(r)
  PROVE  RequestMessage(r) \in Nested3
<1>1. Array(r.args) \in Nested2
  BY NestedHolds, Zenon DEF Sendable, Nested2
<1>2. /\ Num(<<"1">>) \in Nested2 /\ Text(<<"2", ".", "0">>) \in Nested2
      /\ Text(<<r.method>>) \in Nested2
  <2>1. Text(<<r.method>>) \in Atoms
    BY Zenon DEF Sendable, Atoms
  <2>2. QED BY <2>1, FixedAtoms, NestedHolds, Zenon DEF Nested2
<1>3. <<"id">> \in Texts /\ <<"jsonrpc">> \in Texts /\ <<"method">> \in Texts /\ <<"params">> \in Texts
  BY NameIsText, Zenon DEF MessageNames
<1>4. \A a, b, c, d \in Texts \X Nested2 : <<a, b, c, d>> \in Seq(Texts \X Nested2)
  OBVIOUS
<1>5. PICK a, b, c, d : /\ a = Id /\ b = Version /\ c = <<<<"method">>, Text(<<r.method>>)>>
                        /\ d = <<<<"params">>, Array(r.args)>>
  OBVIOUS
<1>6. a \in Texts \X Nested2 /\ b \in Texts \X Nested2 /\ c \in Texts \X Nested2 /\ d \in Texts \X Nested2
  BY <1>1, <1>2, <1>3, <1>5 DEF Id, Version
<1>7. Object(<<a, b, c, d>>) \in Nested3
  BY <1>4, <1>6, NestedHolds, Zenon DEF Nested3
<1>8. QED BY <1>5, <1>7, Zenon DEF RequestMessage

\* The responses.
LEMMA ResultIsNested ==
  ASSUME Frames, NEW v \in Nested2
  PROVE  ResponseMessage(Result(v)) \in Nested3
<1>1. Num(<<"1">>) \in Nested2 /\ Text(<<"2", ".", "0">>) \in Nested2
  BY FixedAtoms, NestedHolds, Zenon DEF Nested2
<1>2. <<"id">> \in Texts /\ <<"jsonrpc">> \in Texts /\ <<"result">> \in Texts
  BY NameIsText, Zenon DEF MessageNames
<1>3. \A a, b, c \in Texts \X Nested2 : <<a, b, c>> \in Seq(Texts \X Nested2)
  OBVIOUS
<1>4. PICK a, b, c : a = Id /\ b = Version /\ c = <<<<"result">>, v>>
  OBVIOUS
<1>5. a \in Texts \X Nested2 /\ b \in Texts \X Nested2 /\ c \in Texts \X Nested2
  BY <1>1, <1>2, <1>4 DEF Id, Version
<1>6. Object(<<a, b, c>>) \in Nested3
  BY <1>3, <1>5, NestedHolds, Zenon DEF Nested3
<1>7. ResponseMessage(Result(v)) = Object(<<Id, Version, <<<<"result">>, v>>>>)
  BY DEF ResponseMessage, Result
<1>8. QED BY <1>4, <1>6, <1>7, Zenon

\* A message that can be written is decoded as it was, whatever stands behind it.
LEMMA Decodes ==
  ASSUME Frames, NEW m \in Messages, m \in Nested3, Kind(m) = "object", NEW t \in Behind
  PROVE  Decoded(m, t).ok /\ Decoded(m, t).value = m
<1>1. t \in Seq(Bytes)
  BY DEF Frames
<1>2. Decoded(m, t) = Parse(Dump(m) \o t)
  BY DEF Decoded, Decodings
<1>3. Kind(m) # "num"
  OBVIOUS
<1>4. Decoded(m, t) = Got(m, Len(Dump(m)) + 1)
  BY <1>1, <1>2, <1>3, RoundTrip, Zenon
<1>5. PICK x, n : x = Decoded(m, t) /\ n = Len(Dump(m)) + 1
  OBVIOUS
<1>6. x.ok /\ x.value = m
  BY <1>4, <1>5 DEF Got
<1>7. QED BY <1>5, <1>6, Zenon

\* A request that can be written: the worker finds its method and its arguments.
LEMMA RequestDecodes ==
  ASSUME Frames, NEW r \in Requests, Sendable(r), NEW t \in Behind
  PROVE  LET d == Decoded(RequestMessage(r), t) IN
         /\ Fit(d)
         /\ Field(d.value, <<"method">>) = Text(<<r.method>>)
         /\ Params(d.value) = Array(r.args)
<1>1. PICK fs : fs = <<Id, Version, <<<<"method">>, Text(<<r.method>>)>>, <<<<"params">>, Array(r.args)>>>>
  OBVIOUS
<1>2. /\ DOMAIN fs = 1 .. 4
      /\ fs[1] = Id /\ fs[2] = Version
      /\ fs[3] = <<<<"method">>, Text(<<r.method>>)>> /\ fs[4] = <<<<"params">>, Array(r.args)>>
  BY <1>1
<1>3. PICK m : m = RequestMessage(r)
  OBVIOUS
<1>4. m = Object(fs)
  BY <1>1, <1>3, Zenon DEF RequestMessage
<1>5. m \in Messages
  BY <1>3, Zenon DEF Messages
<1>6. m \in Nested3
  BY <1>3, RequestIsNested, Zenon
<1>7. Kind(m) = "object"
  BY <1>4 DEF Kind, Object
<1>8. PICK d : d = Decoded(m, t)
  OBVIOUS
<1>9. d.ok /\ d.value = m
  BY <1>5, <1>6, <1>7, <1>8, Decodes, Zenon
<1>10. /\ fs[1][1] = <<"id">> /\ fs[2][1] = <<"jsonrpc">> /\ fs[3][1] = <<"method">> /\ fs[4][1] = <<"params">>
       /\ fs[1][2] = Num(<<"1">>) /\ fs[3][2] = Text(<<r.method>>) /\ fs[4][2] = Array(r.args)
  BY <1>2 DEF Id, Version
<1>11. \A k, j \in DOMAIN fs : fs[j][1] = fs[k][1] => j = k
  BY <1>2, <1>10
<1>12. \A k \in DOMAIN fs : Field(m, fs[k][1]) = fs[k][2] /\ fs[k][1] \in Names(m)
  <2>1. DOMAIN fs \subseteq Nat
    BY <1>2
  <2>2. QED BY <1>4, <1>11, <2>1, FieldOf, Zenon
<1>13. /\ Field(m, <<"id">>) = Num(<<"1">>) /\ Field(m, <<"method">>) = Text(<<r.method>>)
       /\ Field(m, <<"params">>) = Array(r.args)
       /\ <<"id">> \in Names(m) /\ <<"method">> \in Names(m) /\ <<"params">> \in Names(m)
  <2>1. 1 \in DOMAIN fs /\ 3 \in DOMAIN fs /\ 4 \in DOMAIN fs
    BY <1>2
  <2>2. QED BY <1>10, <1>12, <2>1, Zenon
<1>14. Kind(Num(<<"1">>)) = "num" /\ Kind(Text(<<r.method>>)) = "text"
  BY DEF Kind, Num, Text
<1>15. Fit(d)
  BY <1>7, <1>9, <1>13, <1>14, Zenon DEF Fit
<1>16. Params(m) = Array(r.args)
  BY <1>13, Zenon DEF Params
<1>17. QED BY <1>3, <1>8, <1>9, <1>13, <1>15, <1>16, Zenon

\* A result that can be written: the client finds it, and no error.
LEMMA ResultDecodes ==
  ASSUME Frames, NEW v \in Samples, v \in Nested2, NEW t \in Behind
  PROVE  LET d == Decoded(ResponseMessage(Result(v)), t) IN
         /\ d.ok /\ <<"error">> \notin Names(d.value) /\ <<"result">> \in Names(d.value)
         /\ Field(d.value, <<"result">>) = v
<1>1. PICK fs : fs = <<Id, Version, <<<<"result">>, v>>>>
  OBVIOUS
<1>2. DOMAIN fs = 1 .. 3 /\ fs[1] = Id /\ fs[2] = Version /\ fs[3] = <<<<"result">>, v>>
  BY <1>1
<1>3. PICK m : m = ResponseMessage(Result(v))
  OBVIOUS
<1>4. m = Object(fs)
  <2>1. ResponseMessage(Result(v)) = Object(<<Id, Version, <<<<"result">>, v>>>>)
    BY DEF ResponseMessage, Result
  <2>2. QED BY <1>1, <1>3, <2>1, Zenon
<1>5. m \in Messages
  BY <1>3, Zenon DEF Messages
<1>6. m \in Nested3
  BY <1>3, ResultIsNested, Zenon
<1>7. Kind(m) = "object"
  BY <1>4 DEF Kind, Object
<1>8. PICK d : d = Decoded(m, t)
  OBVIOUS
<1>9. d.ok /\ d.value = m
  BY <1>5, <1>6, <1>7, <1>8, Decodes, Zenon
<1>10. /\ fs[1][1] = <<"id">> /\ fs[2][1] = <<"jsonrpc">> /\ fs[3][1] = <<"result">> /\ fs[3][2] = v
  BY <1>2 DEF Id, Version
<1>11. \A j \in DOMAIN fs : fs[j][1] = fs[3][1] => j = 3
  BY <1>2, <1>10
<1>12. Field(m, <<"result">>) = v /\ <<"result">> \in Names(m)
  <2>1. DOMAIN fs \subseteq Nat /\ 3 \in DOMAIN fs
    BY <1>2
  <2>2. Field(Object(fs), fs[3][1]) = fs[3][2] /\ fs[3][1] \in Names(Object(fs))
    BY <1>11, <2>1, FieldOf
  <2>3. QED BY <1>4, <1>10, <2>2, Zenon
<1>13. <<"error">> \notin Names(m)
  <2>1. \A i \in DOMAIN fs : fs[i][1] # <<"error">>
    BY <1>2, <1>10
  <2>2. Content(m) = fs
    BY <1>4 DEF Content, Object
  <2>3. QED BY <2>1, <2>2 DEF Names
<1>14. QED BY <1>3, <1>8, <1>9, <1>12, <1>13, Zenon

\* What reports an error is written, and begins with it; its message may be any text.
LEMMA ErrorIsWritten ==
  ASSUME Frames, NEW e \in Codes
  PROVE  \E S, d, fs : /\ \A x \in S : d[x] \in Seq(Chars)
                       /\ fs \in Seq(Texts \X S) /\ Len(fs) # 0 /\ fs[1][1] = <<"error">>
                       /\ Dump(ResponseMessage(Error(e))) =
                              Between("{", Separated(WrittenFields(fs, d)), "}")
<1>1. e # "none"
  BY UserCodesAssumption DEF Codes, Refusals
<1>2. PICK fields, error : fields = ErrorFields(e) /\ error = Object(fields)
  OBVIOUS
<1>3. PICK code, message, text : /\ code = Num(<<"-", "1">>) /\ text \in Seq(Chars) /\ message = Text(text)
                                 /\ \/ fields = <<<<<<"code">>, code>>>>
                                    \/ fields = <<<<<<"code">>, code>>, <<<<"message">>, message>>>>
  <2>1. PICK text : text = IF e \in UserCodes THEN UserMessages[e] ELSE <<"message">>
    OBVIOUS
  <2>2. "message" \in Chars
    BY Zenon DEF Frames, MessageNames, Chars, Bytes
  <2>3. text \in Seq(Chars)
    BY <2>1, <2>2 DEF Frames
  <2>4. \/ fields = <<<<<<"code">>, Num(<<"-", "1">>)>>>>
        \/ fields = <<<<<<"code">>, Num(<<"-", "1">>)>>, <<<<"message">>, Text(text)>>>>
    BY <1>2, <2>1, Zenon DEF ErrorFields
  <2>5. QED BY <2>3, <2>4
<1>4. PICK S, d : S = {code, message} /\ d = [x \in S |-> DumpInnermost(x)]
  OBVIOUS
<1>5. /\ Kind(code) \notin {"array", "object"} /\ Kind(message) \notin {"array", "object"}
      /\ DumpAtom(code) = <<"-", "1">> /\ DumpAtom(message) = Quoted(text)
  BY <1>3 DEF Kind, Content, Num, Text, DumpAtom
<1>6. \A x \in S : d[x] \in Seq(Chars)
  <2>1. "-" \in Chars /\ "1" \in Chars /\ Quote \in Chars
    BY MarksAreChars, Zenon DEF Marks, Digits
  <2>2. <<"-", "1">> \in Seq(Chars) /\ <<Quote>> \in Seq(Chars)
    BY <2>1, ShortWords
  <2>3. Quoted(text) \in Seq(Chars)
    BY <1>3, <2>2 DEF Quoted
  <2>4. DumpInnermost(code) \in Seq(Chars) /\ DumpInnermost(message) \in Seq(Chars)
    BY <1>5, <2>2, <2>3, ScalarDump, Zenon
  <2>5. QED BY <1>4, <2>4, Zenon
<1>7. fields \in Seq(Texts \X S) /\ Len(fields) # 0
  <2>1. <<"code">> \in Texts /\ <<"message">> \in Texts
    BY NameIsText, Zenon DEF MessageNames
  <2>2. PICK a, b : a = <<<<"code">>, code>> /\ b = <<<<"message">>, message>>
    OBVIOUS
  <2>3. a \in Texts \X S /\ b \in Texts \X S
    BY <1>4, <2>1, <2>2
  <2>4. <<a>> \in Seq(Texts \X S) /\ <<a, b>> \in Seq(Texts \X S) /\ Len(<<a>>) # 0 /\ Len(<<a, b>>) # 0
    BY <2>3
  <2>5. QED BY <1>3, <2>2, <2>4, Zenon
<1>8. DumpInner(error) \in Seq(Chars)
  <2>1. /\ DOMAIN Elements(error) = 1 .. Len(fields)
        /\ \A i \in 1 .. Len(fields) : Elements(error)[i] = fields[i][2]
        /\ DumpWith(error, Written(Elements(error), d)) = Between("{", Separated(WrittenFields(fields, d)), "}")
    BY <1>2, <1>7, ObjectDump, Zenon
  <2>2. \A i \in 1 .. Len(fields) : fields[i][2] \in S
    <3>1. \A i \in 1 .. Len(fields) : fields[i] \in Texts \X S
      BY <1>7, ElementOfSeq, Zenon
    <3>2. QED BY <3>1
  <2>3. Written(Elements(error), d) = [i \in DOMAIN Elements(error) |-> DumpInnermost(Elements(error)[i])]
    BY <1>4, <2>1, <2>2, Zenon DEF Written
  <2>4. Between("{", Separated(WrittenFields(fields, d)), "}") \in Seq(Chars)
    BY <1>6, <1>7, ObjectIsWord
  <2>5. QED BY <2>1, <2>3, <2>4, Zenon DEF DumpInner
<1>9. PICK id, version : id = Num(<<"1">>) /\ version = Text(<<"2", ".", "0">>)
  OBVIOUS
<1>10. PICK T, f : T = {error, id, version} /\ f = [x \in T |-> DumpInner(x)]
  OBVIOUS
<1>11. \A x \in T : f[x] \in Seq(Chars)
  <2>1. /\ Kind(id) \notin {"array", "object"} /\ Kind(version) \notin {"array", "object"}
        /\ DumpAtom(id) = <<"1">> /\ DumpAtom(version) = Quoted(<<"2", ".", "0">>)
    BY <1>9 DEF Kind, Content, Num, Text, DumpAtom
  <2>2. <<"1">> \in Seq(Chars)
    <3>1. "1" \in Chars
      BY MarksAreChars, Zenon DEF Digits
    <3>2. QED BY <3>1, ShortWords
  <2>3. Quoted(<<"2", ".", "0">>) \in Seq(Chars)
    BY VersionIsText, QuotedIsChars
  <2>4. DumpInner(id) \in Seq(Chars) /\ DumpInner(version) \in Seq(Chars)
    BY <2>1, <2>2, <2>3, ScalarDump, Zenon
  <2>5. QED BY <1>8, <1>10, <2>4, Zenon
<1>12. PICK fs : fs = <<<<<<"error">>, error>>, <<<<"id">>, id>>, <<<<"jsonrpc">>, version>>>>
  OBVIOUS
<1>13. fs \in Seq(Texts \X T) /\ Len(fs) # 0 /\ fs[1][1] = <<"error">>
  <2>1. <<"error">> \in Texts /\ <<"id">> \in Texts /\ <<"jsonrpc">> \in Texts
    BY NameIsText, Zenon DEF MessageNames
  <2>2. PICK a, b, c : a = <<<<"error">>, error>> /\ b = <<<<"id">>, id>> /\ c = <<<<"jsonrpc">>, version>>
    OBVIOUS
  <2>3. a \in Texts \X T /\ b \in Texts \X T /\ c \in Texts \X T
    BY <1>10, <2>1, <2>2
  <2>4. <<a, b, c>> \in Seq(Texts \X T) /\ Len(<<a, b, c>>) # 0 /\ <<a, b, c>>[1] = a
    BY <2>3
  <2>5. a[1] = <<"error">>
    BY <2>2
  <2>6. QED BY <1>12, <2>2, <2>4, <2>5, Zenon
<1>14. PICK m : m = Object(fs)
  OBVIOUS
<1>15. ResponseMessage(Error(e)) = m
  <2>1. ResponseMessage(Error(e)) = Object(<<<<<<"error">>, Object(ErrorFields(e))>>, Id, Version>>)
    BY <1>1 DEF ResponseMessage, Error
  <2>2. QED BY <1>2, <1>9, <1>12, <1>14, <2>1, Zenon DEF Id, Version
<1>16. Dump(m) = Between("{", Separated(WrittenFields(fs, f)), "}")
  <2>1. /\ DOMAIN Elements(m) = 1 .. Len(fs) /\ \A i \in 1 .. Len(fs) : Elements(m)[i] = fs[i][2]
        /\ DumpWith(m, Written(Elements(m), f)) = Between("{", Separated(WrittenFields(fs, f)), "}")
    BY <1>13, <1>14, ObjectDump, Zenon
  <2>2. \A i \in 1 .. Len(fs) : fs[i][2] \in T
    <3>1. \A i \in 1 .. Len(fs) : fs[i] \in Texts \X T
      BY <1>13, ElementOfSeq, Zenon
    <3>2. QED BY <3>1
  <2>3. Written(Elements(m), f) = [i \in DOMAIN Elements(m) |-> DumpInner(Elements(m)[i])]
    BY <1>10, <2>1, <2>2, Zenon DEF Written
  <2>4. QED BY <2>1, <2>3, Zenon DEF Dump
<1>17. QED BY <1>11, <1>13, <1>15, <1>16, Zenon

\* What reports an error is never read as a result: whatever the message of a user's exception
\* is, the texts of which are written without an escape, and whatever stands behind the frame,
\* the client reads the error, or the response cannot be read (Codec.h:60-72, resolve.h:67,
\* TypeCompat.h:42-45).
THEOREM ErrorsAreErrors ==
  ASSUME Frames, NEW e \in Codes, NEW t \in Behind
  PROVE  LET d == Decoded(ResponseMessage(Error(e)), t) IN
         d.ok => <<"error">> \in Names(d.value)
<1>1. PICK m : m = ResponseMessage(Error(e))
  OBVIOUS
<1>2. PICK S, d, fs : /\ \A x \in S : d[x] \in Seq(Chars)
                      /\ fs \in Seq(Texts \X S) /\ Len(fs) # 0 /\ fs[1][1] = <<"error">>
                      /\ Dump(m) = Between("{", Separated(WrittenFields(fs, d)), "}")
  BY <1>1, ErrorIsWritten, Zenon
<1>3. t \in Seq(Bytes)
  BY DEF Frames
<1>4. PICK s : s = Between("{", Separated(WrittenFields(fs, d)), "}") \o t
  OBVIOUS
<1>5. Parse(s).ok => fs[1][1] \in Names(Parse(s).value)
  BY <1>2, <1>3, <1>4, ObjectNameIsRead, Zenon
<1>6. m \in Messages
  BY <1>1, Zenon DEF Messages
<1>7. Decoded(m, t) = Parse(s)
  BY <1>2, <1>4, <1>6, Zenon DEF Decoded, Decodings
<1>8. QED BY <1>1, <1>2, <1>5, <1>7, Zenon

\* The requests whose values survive their dump are made of what the dump can write: the
\* others may be anything.
PlainRequests == Frames /\ \A r \in Requests : Plain(r) => Sendable(r)

\* So are the values that survive theirs.
PlainMessages == PlainRequests /\ \A v \in Samples : PlainAtom(v) => v \in Nested2

\* Any requests and values that survive their dump are read as they were, for every number of
\* arguments, nested one deep, and any error is read as one, for everything that may stand
\* behind a frame (Codec.h:56-91; Parser.h; Json.h:165-210; resolve.h:32-76).
THEOREM PlainMessagesReadBack ==
  ASSUME PlainMessages
  PROVE  MessagesReadBack
<1>1. Frames
  BY DEF PlainMessages, PlainRequests
<1>2. ASSUME NEW r \in Requests, NEW t \in Behind, Plain(r)
      PROVE  LET d == Decoded(RequestMessage(r), t) IN
             /\ Fit(d) /\ Field(d.value, <<"method">>) = Text(<<r.method>>)
             /\ Params(d.value) = Array(r.args)
  <2>1. Sendable(r)
    BY <1>2 DEF PlainMessages, PlainRequests
  <2>2. QED BY <1>1, <2>1, RequestDecodes
<1>3. ASSUME NEW v \in Samples, NEW t \in Behind, PlainAtom(v)
      PROVE  LET d == Decoded(ResponseMessage(Result(v)), t) IN
             /\ d.ok /\ <<"error">> \notin Names(d.value) /\ <<"result">> \in Names(d.value)
             /\ Field(d.value, <<"result">>) = v
  <2>1. v \in Nested2
    BY <1>3 DEF PlainMessages
  <2>2. QED BY <1>1, <2>1, ResultDecodes
<1>4. ASSUME NEW e \in Codes, NEW t \in Behind
      PROVE  LET d == Decoded(ResponseMessage(Error(e)), t) IN
             d.ok => <<"error">> \in Names(d.value)
  BY <1>1, ErrorsAreErrors
<1>5. QED BY <1>2, <1>3, <1>4, Zenon DEF MessagesReadBack

\* No request ends the process.
Decodable == ended # "decode"

\* No request that can be written is what ends the process.
LEMMA NextDecodes ==
  ASSUME PlainRequests, \A r \in Requests : Sendable(r)
  PROVE  CallInv /\ Decodable /\ [Next]_vars => Decodable'
<1> SUFFICES ASSUME CallInv, ended # "decode", [Next]_vars PROVE ended' # "decode"
  BY DEF Decodable
<1>1. ASSUME NEW w \in Workers PROVE ~DecodeThrows(w)
  <2>1. request[w] \in Requests
    BY DEF CallInv, Domains
  <2>2. Frames /\ Sendable(request[w])
    BY <2>1 DEF PlainRequests
  <2>3. \A t \in Behind : Fit(Decoded(RequestMessage(request[w]), t))
    BY <2>1, <2>2, RequestDecodes, Zenon
  <2>4. QED BY <2>3 DEF DecodeThrows
<1>2. CASE UNCHANGED vars
  BY <1>2 DEF vars, server
<1>3. ASSUME NEW w \in Workers, NEW r \in Requests, Call(w, r) PROVE ended' # "decode"
  BY <1>3 DEF Call, server
<1>4. ASSUME NEW w \in Workers, Receive(w) \/ GiveUp(w) \/ Lost(w) \/ Drain(w)
      PROVE  ended' # "decode"
  BY <1>4 DEF Receive, GiveUp, Lost, Drain, Return, server
<1>5. ASSUME NEW w \in Workers, Worker(w) PROVE ended' # "decode"
  BY <1>1, <1>5 DEF Worker, RequestAccepted, RequestRejected, CallbackThrows, MethodNotFound,
     InvalidParams, ConversionThrows, FunctionStarts, FunctionReturns, FunctionThrows,
     FunctionThrowsForeign, ResponseRejected, ResponseSent, Respond, Veto, Terminate, server
<1>6. ASSUME NEW m \in Methods, Bind(m) PROVE ended' # "decode"
  BY <1>6 DEF Bind
<1>7. QED BY <1>2, <1>3, <1>4, <1>5, <1>6 DEF Next

\* The dispatch keeps its promises for any functions, requests and values, whatever the
\* messages of the users' exceptions are: of the values only those that survive their dump
\* are assumed to be nested no deeper than two levels.  And if all that the clients send can
\* be written, it never ends the server's process: only a callback or a bound function can, by
\* an exception that has no handler (Server.h:296-330, Codec.h:56-72).
THEOREM PlainDispatch ==
  ASSUME PlainMessages
  PROVE  Spec => [](/\ TypeOK /\ ValueWasReturned /\ FailureWasReported /\ NotFoundWasUnbound
                    /\ DecodedAsSent
                    /\ (\A r \in Requests : Sendable(r)) => Decodable)
<1>1. MessagesReadBack
  BY PlainMessagesReadBack
<1>2. Spec => []CallInv
  BY <1>1, CallInvariance
<1>3. Init => Decodable
  BY DEF Init, Decodable
<1>4. (\A r \in Requests : Sendable(r)) /\ CallInv /\ Decodable /\ [Next]_vars => Decodable'
  BY NextDecodes DEF PlainMessages
<1>5. CallInv => /\ TypeOK /\ ValueWasReturned /\ FailureWasReported /\ NotFoundWasUnbound
                 /\ DecodedAsSent
  BY CallInvTypes, CallInvValues, CallInvFailures, CallInvNotFound, CallInvDecoded
<1>6. CASE \A r \in Requests : Sendable(r)
  BY <1>2, <1>3, <1>4, <1>5, <1>6, PTL DEF Spec
<1>7. CASE ~\A r \in Requests : Sendable(r)
  BY <1>2, <1>5, <1>7, PTL
<1>8. QED BY <1>6, <1>7

\* What a worker has read is what the client has sent, if that was plain.
PlainInv ==
    /\ request \in [Workers -> Requests] /\ stage \in [Workers -> Stages]
    /\ DOMAIN received = Workers
    /\ \A w \in Workers : stage[w] = "requested" => received[w] = Unread
    /\ DecodedAsSent

\* A step that reads nothing, and does not end the process in decode.
LEMMA PlainKept ==
  ASSUME PlainInv, UNCHANGED <<request, received>>, ended' = ended \/ ended' # "decode",
         stage' \in [Workers -> Stages],
         \A w \in Workers : stage'[w] = "requested" => stage[w] = "requested"
  PROVE  PlainInv'
<1>1. \A w \in Workers : Plain(request'[w]) <=> Plain(request[w])
  OBVIOUS
<1>2. QED BY <1>1 DEF PlainInv, DecodedAsSent

\* Every step keeps it: what is read is plain, or free.
LEMMA NextPlainInv ==
  ASSUME PlainRequests
  PROVE  PlainInv /\ [Next]_vars => PlainInv'
<1> SUFFICES ASSUME PlainInv, [Next]_vars PROVE PlainInv'
  OBVIOUS
<1>1. ASSUME NEW w \in Workers, Plain(request[w]), NEW t \in Behind
      PROVE  LET d == Decoded(RequestMessage(request[w]), t) IN
             /\ Fit(d)
             /\ Field(d.value, <<"method">>) = Text(<<request[w].method>>)
             /\ Params(d.value) = Array(request[w].args)
  <2>1. request[w] \in Requests
    BY DEF PlainInv
  <2>2. Frames /\ Sendable(request[w])
    BY <1>1, <2>1 DEF PlainRequests
  <2>3. QED BY <2>1, <2>2, RequestDecodes, Zenon
<1>2. CASE UNCHANGED vars
  BY <1>2, PlainKept DEF vars, server, client, PlainInv
<1>3. ASSUME NEW w \in Workers, NEW r \in Requests, Call(w, r) PROVE PlainInv'
  <2>1. /\ ended = "no" /\ ended' = ended
        /\ request' = [request EXCEPT ![w] = r]
        /\ stage' = [stage EXCEPT ![w] = "requested"]
        /\ received' = [received EXCEPT ![w] = Unread]
    BY <1>3 DEF Call, Alive, server
  <2>2. request' \in [Workers -> Requests] /\ stage' \in [Workers -> Stages]
    BY <2>1 DEF PlainInv, Stages
  <2>3. DOMAIN received' = Workers
    BY <2>1 DEF PlainInv
  <2>4. received'[w] = Unread /\ \A u \in Workers \ {w} :
            received'[u] = received[u] /\ request'[u] = request[u] /\ stage'[u] = stage[u]
    BY <2>1 DEF PlainInv
  <2>5. \A u \in Workers : Plain(request'[u]) /\ received'[u] # Unread =>
            received'[u] = [method |-> Text(<<request'[u].method>>), params |-> Array(request'[u].args)]
    BY <2>4 DEF PlainInv, DecodedAsSent
  <2>6. \A u \in Workers : stage'[u] = "requested" => received'[u] = Unread
    BY <2>4 DEF PlainInv
  <2>7. QED BY <2>1, <2>2, <2>3, <2>5, <2>6 DEF PlainInv, DecodedAsSent
<1>4. ASSUME NEW w \in Workers, DecodeThrows(w) PROVE PlainInv'
  <2>1. /\ stage[w] = "requested" /\ UNCHANGED <<request, stage, received>>
    BY <1>4 DEF DecodeThrows, At, Terminate, client
  <2>2. ~Plain(request[w]) /\ received[w] = Unread
    BY <1>1, <1>4, <2>1 DEF DecodeThrows, PlainInv
  <2>3. QED BY <2>1, <2>2 DEF PlainInv, DecodedAsSent
<1>5. ASSUME NEW w \in Workers, RequestAccepted(w) PROVE PlainInv'
  <2>1. /\ ended = "no" /\ ended' = ended /\ UNCHANGED request
        /\ stage' = [stage EXCEPT ![w] = "accepted"]
    BY <1>5 DEF RequestAccepted, At, Alive, MoveTo, server, client
  <2>2. PICK t \in Behind :
          received' = [received EXCEPT ![w] =
            [method |-> Field(Decoded(RequestMessage(request[w]), t).value, <<"method">>),
             params |-> Params(Decoded(RequestMessage(request[w]), t).value)]]
    BY <1>5 DEF RequestAccepted
  <2>3. PICK x : x = Decoded(RequestMessage(request[w]), t).value
    OBVIOUS
  <2>4. received' = [received EXCEPT ![w] = [method |-> Field(x, <<"method">>),
                                            params |-> Params(x)]]
    BY <2>2, <2>3, Zenon
  <2>5. Plain(request[w]) => /\ Field(x, <<"method">>) = Text(<<request[w].method>>)
                             /\ Params(x) = Array(request[w].args)
    BY <1>1, <2>3, Zenon
  <2>6. /\ received'[w] = [method |-> Field(x, <<"method">>), params |-> Params(x)]
        /\ stage'[w] = "accepted" /\ DOMAIN received' = Workers
        /\ \A u \in Workers \ {w} : received'[u] = received[u] /\ stage'[u] = stage[u]
    BY <2>1, <2>4 DEF PlainInv
  <2>7. \A u \in Workers : Plain(request'[u]) /\ received'[u] # Unread =>
            received'[u] = [method |-> Text(<<request'[u].method>>), params |-> Array(request'[u].args)]
    BY <2>1, <2>5, <2>6 DEF PlainInv, DecodedAsSent
  <2>8. stage' \in [Workers -> Stages] /\ \A u \in Workers : stage'[u] = "requested" => received'[u] = Unread
    BY <2>1, <2>6 DEF PlainInv, Stages
  <2>9. QED BY <2>1, <2>6, <2>7, <2>8 DEF PlainInv, DecodedAsSent
<1>6. ASSUME NEW w \in Workers, NEW s \in Stages, s # "requested",
             stage' = [stage EXCEPT ![w] = s] \/ stage' = stage,
             UNCHANGED <<request, received>>, ended' = ended \/ ended' # "decode"
      PROVE  PlainInv'
  <2>1. stage' \in [Workers -> Stages] /\ \A u \in Workers : stage'[u] = "requested" => stage[u] = "requested"
    BY <1>6 DEF PlainInv
  <2>2. QED BY <1>6, <2>1, PlainKept
<1>7. ASSUME NEW w \in Workers, Receive(w) \/ GiveUp(w) \/ Lost(w) \/ Drain(w) PROVE PlainInv'
  <2>1. /\ stage' = [stage EXCEPT ![w] = "idle"] \/ stage' = stage
        /\ UNCHANGED <<request, received, ended>> /\ "idle" \in Stages
    BY <1>7 DEF Receive, GiveUp, Lost, Drain, Return, server, client, Stages
  <2>2. QED BY <1>6, <2>1
<1>8. ASSUME NEW w \in Workers, NEW s \in Stages, s # "requested",
             MoveTo(w, s) \/ stage' = stage, UNCHANGED <<request, received>>,
             ended' = ended \/ ended' \in {"callback", "function"}
      PROVE  PlainInv'
  BY <1>6, <1>8 DEF MoveTo
<1>9. ASSUME NEW w \in Workers, Worker(w) PROVE PlainInv'
  <2>1. Stages = {"idle", "requested", "accepted", "running", "responding", "sent"}
    BY DEF Stages
  <2>2. CASE DecodeThrows(w) \/ RequestAccepted(w)
    BY <1>4, <1>5, <2>2
  <2>3. CASE RequestRejected(w) \/ ResponseRejected(w)
    <3>1. MoveTo(w, "idle") /\ UNCHANGED <<request, received, ended>>
      BY <2>3 DEF RequestRejected, ResponseRejected, Veto, server, client
    <3>2. QED BY <1>8, <2>1, <3>1
  <2>4. CASE MethodNotFound(w) \/ InvalidParams(w) \/ ConversionThrows(w) \/ FunctionReturns(w)
             \/ FunctionThrows(w)
    <3>1. MoveTo(w, "responding") /\ UNCHANGED <<request, received, ended>>
      BY <2>4 DEF MethodNotFound, InvalidParams, ConversionThrows, FunctionReturns,
                  FunctionThrows, Respond, server, client
    <3>2. QED BY <1>8, <2>1, <3>1
  <2>5. CASE FunctionStarts(w)
    <3>1. MoveTo(w, "running") /\ UNCHANGED <<request, received, ended>>
      BY <2>5 DEF FunctionStarts, server, client
    <3>2. QED BY <1>8, <2>1, <3>1
  <2>6. CASE CallbackThrows(w) \/ FunctionThrowsForeign(w)
    <3>1. stage' = stage /\ ended' \in {"callback", "function"} /\ UNCHANGED <<request, received>>
      BY <2>6 DEF CallbackThrows, FunctionThrowsForeign, Terminate, client
    <3>2. QED BY <1>8, <2>1, <3>1
  <2>7. CASE ResponseSent(w)
    <3>1. MoveTo(w, "sent") /\ UNCHANGED <<request, received, ended>>
      BY <2>7 DEF ResponseSent, server, client
    <3>2. QED BY <1>8, <2>1, <3>1
  <2>8. QED BY <1>9, <2>2, <2>3, <2>4, <2>5, <2>6, <2>7 DEF Worker
<1>10. ASSUME NEW m \in Methods, Bind(m) PROVE PlainInv'
  <2>1. UNCHANGED <<request, stage, received, ended>>
    BY <1>10 DEF Bind, client
  <2>2. QED BY <2>1, PlainKept DEF PlainInv
<1>11. QED BY <1>2, <1>3, <1>7, <1>9, <1>10 DEF Next

\* A request whose values survive their dump is run with them, and does not end the process,
\* whatever else is sent to the server and whatever stands behind its frame: no assumption
\* is made of the requests and results that do not survive theirs (Codec.h:56-58,
\* Server.h:296-305).
THEOREM PlainIsDecoded == ASSUME PlainRequests PROVE Spec => []DecodedAsSent
<1>1. Init => PlainInv
  <2>1. SUFFICES ASSUME Init PROVE PlainInv
    OBVIOUS
  <2>2. request \in [Workers -> Requests]
    BY <2>1, RequestsAssumption DEF Init
  <2>3. stage \in [Workers -> Stages] /\ DOMAIN received = Workers
        /\ \A w \in Workers : received[w] = Unread
    BY <2>1 DEF Init, Stages
  <2>4. ended = "no"
    BY <2>1 DEF Init
  <2>5. QED BY <2>2, <2>3, <2>4 DEF PlainInv, DecodedAsSent
<1>2. PlainInv /\ [Next]_vars => PlainInv'
  BY NextPlainInv
<1>3. PlainInv => DecodedAsSent
  BY DEF PlainInv
<1>4. QED BY <1>1, <1>2, <1>3, PTL DEF Spec
=============================================================================
